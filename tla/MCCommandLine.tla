---------------------------- MODULE MCCommandLine ----------------------------
(***************************************************************************)
(* Workflows and commands for model-checking CommandLine.                  *)
(***************************************************************************)
EXTENDS CommandLine

CONSTANTS s1, s2

MCSlots == {s1, s2}

MCBuiltins == {"log", "loop", "wait.webhook", "schedule"}

Step(id, deps) ==
    [id |-> id, stage |-> "one", action |-> "log", policy |-> "", recovery |-> "",
     deps |-> deps, goto |-> "", max |-> 0, testing |-> <<>>, onError |-> <<>>,
     may |-> {}]

Workflow(s) ==
    [version |-> "2.0", name |-> "w", recovery |-> FALSE, stages |-> <<"one", "two">>,
     steps |-> s, params |-> <<>>, trigger |-> <<>>, onError |-> <<>>,
     storage |-> [type |-> "", memory |-> "no", mariadb |-> "no"]]

Command(verb, w) ==
    [verb |-> verb, wf |-> w, raw |-> <<>>, room |-> 1000, case |-> "", edit |-> <<>>,
     stops |-> FALSE]

\* Every dependency relation of four steps, cycles included, declared in one
\* order, and every acyclic one of five steps declared in another.
Names4 == <<"a", "b", "c", "d">>

Listed(names, S) == SelectSeq(names, LAMBDA n : n \in S)

Four(f) == Workflow([i \in 1..4 |-> Step(Names4[i], Listed(Names4, f[Names4[i]]))])

Graphs4 ==
    {Four(f) : f \in [a : SUBSET {"b", "c", "d"}, b : SUBSET {"a", "c", "d"},
                      c : SUBSET {"a", "b", "d"}, d : SUBSET {"a", "b", "c"}]}

Names5 == <<"b", "d", "a", "e", "c">>

Five(f) == Workflow([i \in 1..5 |-> Step(Names5[i], Listed(Names5, f[Names5[i]]))])

Graphs5 ==
    {Five(f) : f \in [a : {{}}, b : SUBSET {"a"}, c : SUBSET {"a", "b"},
                      d : SUBSET {"a", "b", "c"}, e : SUBSET {"a", "b", "c", "d"}]}

\* A goto from each of three steps to each, over every acyclic relation.
Goto(s, target, max) == [s EXCEPT !.goto = target, !.max = max]

Gotos ==
    {Workflow([i \in 1..3 |->
        LET s == Step(Names4[i], Listed(Names4, f[Names4[i]]))
        IN  IF s.id = g THEN Goto(s, t, 0) ELSE s]) :
     f \in [a : {{}}, b : SUBSET {"a"}, c : SUBSET {"a", "b"}],
     g \in {"a", "b", "c"}, t \in {"a", "b", "c", "z"}}

\* A depends_on that names a step twice.
Twice ==
    {Workflow(<<Step("a", <<>>), Step("b", <<"a", "a">>), Step("c", <<"b", "a", "b">>)>>),
     Workflow(<<Step("c", <<"a", "b", "b">>), Step("a", <<>>), Step("b", <<>>)>>)}

Drawn == Graphs4 \cup Graphs5 \cup Gotos \cup Twice
-----------------------------------------------------------------------------
\* Workflows that differ from Base in one or two places.
Case(name, output, error, expect) ==
    [name |-> name, output |-> output, error |-> error, expect |-> expect]

Handler(id, action) == [id |-> id, action |-> action]

BaseSteps == <<Step("a", <<>>), Step("b", <<"a">>)>>

Base == Workflow(BaseSteps)

Second(s) == [BaseSteps EXCEPT ![2] = s]

b == BaseSteps[2]

StepVariants ==
    {<<>>, Second([b EXCEPT !.id = ""]), Second([b EXCEPT !.id = "a"]),
     Second([b EXCEPT !.id = "a", !.action = "", !.stage = ""]),
     Second([b EXCEPT !.stage = "three"]), Second([b EXCEPT !.action = ""]),
     Second([b EXCEPT !.action = "nope"]), Second([b EXCEPT !.action = "schedule"]),
     Second([b EXCEPT !.policy = "retry"]), Second([b EXCEPT !.recovery = "none"]),
     Second([b EXCEPT !.deps = <<"b">>]), Second([b EXCEPT !.deps = <<"z", "a">>])}
    \cup {Second([b EXCEPT !.testing = t]) :
            t \in {<<Case("", FALSE, FALSE, "none")>>, <<Case("t", TRUE, TRUE, "none")>>,
                   <<Case("t", TRUE, FALSE, "none"), Case("t", FALSE, TRUE, "none")>>,
                   <<Case("t", FALSE, FALSE, "done")>>}}
    \cup {Second([b EXCEPT !.onError = <<h>>]) : h \in {Handler("", "log"), Handler("h", "")}}

Param(name, type, default, required, pattern) ==
    [name |-> name, type |-> type, default |-> default, required |-> required,
     pattern |-> pattern]

Variants ==
    [version |-> {"", "1.0"}, name |-> {""},
     stages  |-> {<<>>, <<"one", "">>, <<"one", "one">>, <<"two">>},
     steps   |-> StepVariants,
     params  |-> {<<Param("", "int", "none", FALSE, "none")>>,
                  <<Param("p", "", "none", FALSE, "none")>>,
                  <<Param("p", "date", "none", FALSE, "none")>>},
     trigger |-> {[http |-> {"path", "method"}, schedule |-> {"cron"}],
                  [http |-> {"path"}], [webhook |-> {}], [schedule |-> {}],
                  [rabbitmq |-> {"url"}], [rabbitmq |-> {"url", "queue"}]},
     onError |-> {<<Handler("", "log")>>, <<Handler("h", "")>>},
     storage |-> {[type |-> t, memory |-> m, mariadb |-> d] :
                    t \in {"", "memory", "mariadb", "redis"}, m \in {"no", "ok", "negative"},
                    d \in {"no", "no dsn", "dsn"}}]

Checked ==
    UNION {{[[Base EXCEPT ![p[1]] = x] EXCEPT ![p[2]] = y] :
              x \in Variants[p[1]] \cup {Base[p[1]]}, y \in Variants[p[2]]} :
           p \in (DOMAIN Variants) \X (DOMAIN Variants)}
-----------------------------------------------------------------------------
\* Workflows that run: policies, a condition, a loop, a join.
Runs(s, f) == [s EXCEPT !.may = f]

Joined ==
    Workflow(<<Runs(Step("a", <<>>), {"retry", "fail"}),
               [Runs(Step("b", <<>>), {"fail", "skip"}) EXCEPT !.policy = "continue"],
               Runs(Step("c", <<"a", "b">>), {"reject"})>>)

Looped ==
    Workflow(<<Step("t", <<>>), Runs(Step("x", <<"t">>), {"reject", "skip"}),
               Goto(Step("g", <<"x">>), "t", 1), Step("e", <<"g">>)>>)

Alone == Workflow(<<Runs(Step("a", <<>>), {"fail"}), Step("b", <<"a">>)>>)

Short ==
    Workflow(<<Step("a", <<>>), Goto(Step("b", <<"a">>), "a", 2)>>)

\* Two loops one after the other.
Loops ==
    Workflow(<<Runs(Step("a", <<>>), {"skip"}), Goto(Step("b", <<"a">>), "a", 2),
               Runs(Step("c", <<"b">>), {"reject"}), Goto(Step("d", <<"c">>), "c", 1)>>)

RunWorkflows == {Joined, Looped, Alone, Short, Loops, [Alone EXCEPT !.recovery = TRUE]}

MCDags == {Scheduled(BuildDAG(w.steps)) : w \in RunWorkflows \cup {Base}}

Parameters ==
    {<<Param("p", "string", d, r, p)>> : d \in {"none", "template", "misfits", "number"},
                                         r \in BOOLEAN, p \in {"none", "simple", "invalid"}}

Given == {<<>>, <<<<"p">>>>, <<<<"p", "fits">>>>, <<<<"p", "fits">>, <<"p", "template">>>>}

Executions ==
    {[Command("run", Joined) EXCEPT !.stops = TRUE], Command("run", Looped),
     Command("run", Loops),
     [Command("run", Alone) EXCEPT !.room = 2], [Command("run", Short) EXCEPT !.room = 1]}
    \cup {[Command("run", [Alone EXCEPT !.recovery = r]) EXCEPT !.stops = TRUE] :
            r \in BOOLEAN}
    \cup {[Command("run", [Base EXCEPT !.params = p]) EXCEPT !.raw = g] :
            p \in Parameters, g \in Given}
    \cup {Command("run", [Base EXCEPT !.steps = s]) : s \in StepVariants}

Tested ==
    Workflow(<<[Step("a", <<>>) EXCEPT !.testing =
                  <<Case("t", TRUE, FALSE, "success"), Case("u", FALSE, TRUE, "none")>>],
               [Step("b", <<"a">>) EXCEPT !.testing =
                  <<Case("u", FALSE, FALSE, "failed"), Case("t", TRUE, FALSE, "none"),
                    Case("v", FALSE, FALSE, "none")>>]>>)

Circular == [Tested EXCEPT !.steps = [@ EXCEPT ![1].deps = <<"b">>]]

Tests ==
    {Command(v, w) : v \in {"test", "list"}, w \in {Tested, Circular, Base}}
    \cup {[Command("test", Tested) EXCEPT !.case = c] : c \in {"u", "z"}}

\* One more step with a goto, the same steps in a circle or without an order,
\* a step less, a fault.
Edited ==
    {[Command("serve", Base) EXCEPT !.edit = <<w>>] :
        w \in {[Base EXCEPT !.steps = Append(@, Goto(Step("c", <<"b">>), "b", 0))],
               Circular, [Base EXCEPT !.steps = [@ EXCEPT ![2].deps = <<>>]],
               [Base EXCEPT !.steps = SubSeq(@, 1, 1)], [Base EXCEPT !.name = ""]}}

MCCommands ==
    {Command(v, w) : v \in {"validate", "serve"}, w \in Drawn}
    \cup {Command("validate", w) : w \in Checked}
    \cup Executions \cup Tests \cup Edited
=============================================================================
