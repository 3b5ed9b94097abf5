--------------------------- MODULE WorkflowChecks ---------------------------
(***************************************************************************)
(* What is asked of a workflow before any of it runs: the errors of        *)
(* parser.Validate, the parameters engine.resolveParams settles, and the   *)
(* actions a command has.                                                  *)
(*                                                                         *)
(* A workflow is a record                                                  *)
(*   version, name : texts, recovery : BOOLEAN                             *)
(*   stages   : sequence of names                                          *)
(*   steps    : sequence of [id, stage, action, policy, recovery, deps,    *)
(*              goto, max, testing, onError, may]                          *)
(*   params   : sequence of [name, type, default, required, pattern]       *)
(*   trigger  : kind of trigger -> the fields it is given                  *)
(*   onError  : sequence of [id, action]                                   *)
(*   storage  : [type, memory, mariadb], the persistence block             *)
(* with "" for a text that is missing.  A step's may (what its run can     *)
(* meet) and a parameter's value "template" stand for what expressions     *)
(* and actions do.                                                         *)
(***************************************************************************)
EXTENDS Naturals, FiniteSets, SequencesExt

Ids(w) == [i \in DOMAIN w.steps |-> w.steps[i].id]

\* An error names its rule and the entry it is about.
ErrorIf(rule, cond) == IF cond THEN {<<rule>>} ELSE {}

Each(rule, entries) == {<<rule, i>> : i \in entries}

\* The entries two continue statements leave out of the other checks of a
\* list: those without a name and those whose name came before.
Unnamed(names) == {i \in DOMAIN names : names[i] = ""}

Repeated(names) ==
    {i \in DOMAIN names \ Unnamed(names) : \E j \in 1..(i - 1) : names[j] = names[i]}

Kept(names) == DOMAIN names \ (Unnamed(names) \cup Repeated(names))

Named(names) == ToSet(names) \ {""}
-----------------------------------------------------------------------------
validateStages(w) ==
    LET used == [i \in DOMAIN w.steps |-> w.steps[i].stage]
    IN  ErrorIf("at least one stage", w.stages = <<>>)
        \cup Each("stage name", Unnamed(w.stages))
        \cup Each("duplicate stage", Repeated(w.stages))
        \cup Each("stage of the step", Unnamed(used))
        \cup Each("unknown stage",
                  {i \in DOMAIN used \ Unnamed(used) : used[i] \notin Named(w.stages)})

DependencyErrors(w) ==
    LET own(s) == s.id \in ToSet(s.deps)
        strange(s) == ~(ToSet(s.deps) \ {s.id} \subseteq Named(Ids(w)))
    IN  Each("depends on itself", {i \in DOMAIN w.steps : own(w.steps[i])})
        \cup Each("unknown dependency", {i \in DOMAIN w.steps : strange(w.steps[i])})

Policies == {"", "stop", "continue", "ignore"}

validateSteps(w) ==
    LET ids == Ids(w)
        wrong(rule, Test(_)) == Each(rule, {i \in Kept(ids) : Test(w.steps[i])})
    IN  Each("step id", Unnamed(ids))
        \cup Each("duplicate step", Repeated(ids))
        \cup wrong("action", LAMBDA s : s.action = "")
        \cup wrong("error_policy", LAMBDA s : s.policy \notin Policies)
        \cup wrong("on_recovery", LAMBDA s : s.recovery \notin {"", "retry", "skip", "fail"})
        \cup DependencyErrors(w)

\* Parameters of one name are accepted.
validateParams(w) ==
    LET names == [i \in DOMAIN w.params |-> w.params[i].name]
        types == {"string", "bool", "int", "float"}
    IN  Each("param name", Unnamed(names))
        \cup Each("param type", {i \in DOMAIN names \ Unnamed(names) :
                                    w.params[i].type \notin types})

Required == [http     |-> {"path", "method"}, webhook  |-> {"path"},
             schedule |-> {"cron"},           rabbitmq |-> {"url", "queue"}]

validateTrigger(w) ==
    LET kinds == DOMAIN w.trigger
    IN  ErrorIf("one trigger", Cardinality(kinds) > 1)
        \cup UNION {Each(k, Required[k] \ w.trigger[k]) : k \in kinds}

CaseErrors(i, cases) ==
    LET names == [j \in DOMAIN cases |-> cases[j].name]
        own(rule, entries) == {<<rule, i, j>> : j \in entries}
    IN  own("case name", Unnamed(names))
        \cup own("duplicate case", Repeated(names))
        \cup own("output and error", {j \in Kept(names) : cases[j].output /\ cases[j].error})
        \cup own("expect status", {j \in Kept(names) :
                                      cases[j].expect \notin {"none", "", "success",
                                                              "failed", "skipped"}})

validateTesting(w) == UNION {CaseErrors(i, w.steps[i].testing) : i \in DOMAIN w.steps}

\* The ids of on_error steps are not compared with anything.
HandlerErrors(of, handlers) ==
    UNION {IF handlers[j].id = "" THEN {<<"handler id", of, j>>}
           ELSE IF handlers[j].action = "" THEN {<<"handler action", of, j>>}
           ELSE {} : j \in DOMAIN handlers}

validateOnError(w) ==
    UNION {HandlerErrors(i, w.steps[i].onError) : i \in DOMAIN w.steps}
    \cup HandlerErrors(0, w.onError)

\* A missing persistence block is [type |-> "", memory |-> "no", mariadb |-> "no"]:
\* the defaults pass.
validatePersistence(w) ==
    LET p == w.storage
    IN  IF p.type \in {"", "memory"}
        THEN IF p.mariadb # "no" THEN {<<"other backend">>}
             ELSE ErrorIf("max_executions", p.memory = "negative")
        ELSE IF p.type = "mariadb"
        THEN IF p.mariadb = "no" THEN {<<"mariadb block">>}
             ELSE IF p.mariadb = "no dsn" THEN {<<"dsn">>}
             ELSE ErrorIf("other backend", p.memory # "no")
        ELSE {<<"persistence type">>}

Validate(w) ==
    ErrorIf("version", w.version # "2.0") \cup ErrorIf("name", w.name = "")
    \cup ErrorIf("at least one step", w.steps = <<>>)
    \cup validateStages(w) \cup validateSteps(w) \cup validateParams(w)
    \cup validateTrigger(w) \cup validateOnError(w) \cup validateTesting(w)
    \cup validatePersistence(w)
-----------------------------------------------------------------------------
(* Parameters *)

\* --param arguments: <<key, value>>, or <<key>> without a "=", which is
\* left out; the last of one key counts.
parseParams(raw) ==
    LET pairs == {i \in DOMAIN raw : Len(raw[i]) = 2}
        keys  == {raw[i][1] : i \in pairs}
        last(k) == CHOOSE i \in pairs :
                      raw[i][1] = k /\ \A j \in pairs : raw[j][1] = k => j <= i
    IN  [k \in keys |-> raw[last(k)][2]]

\* A default in braces is evaluated, a value from outside is not; a template
\* that cannot be evaluated stays the text it is.
Evaluated(default) == IF default = "template" THEN "fits" ELSE default

Declared(w, given) ==
    {i \in DOMAIN w.params :
        w.params[i].name \in DOMAIN given \/ w.params[i].default # "none"}

Resolved(p, given) ==
    IF p.name \in DOMAIN given THEN given[p.name] ELSE Evaluated(p.default)

\* Only texts are matched: the value "number" of a default is not one.
Mismatch(p, given) ==
    \/ p.pattern = "invalid" /\ Resolved(p, given) # "number"
    \/ p.pattern = "simple" /\ Resolved(p, given) \notin {"fits", "number"}

\* resolveParams returns an error.
ParamsRefused(w, given) ==
    \E i \in DOMAIN w.params :
        LET p == w.params[i]
        IN  IF i \in Declared(w, given) THEN Mismatch(p, given) ELSE p.required
-----------------------------------------------------------------------------
(* Actions *)

CONSTANT Builtins   \* the actions RegisterBuiltins registers

\* The commands without a server have no action that waits for it.
NeedsServer == {"wait.webhook", "wait.rabbitmq", "schedule"}

cliAllowedActions(all) == all \ NeedsServer

ActionsOf(w) == {w.steps[i].action : i \in DOMAIN w.steps}
=============================================================================
