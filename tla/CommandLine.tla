----------------------------- MODULE CommandLine -----------------------------
(***************************************************************************)
(* The commands of cmd/tailflow: validate, run, test (and its list), and   *)
(* the requests of serve that show a workflow or put another in its place. *)
(*                                                                         *)
(* A run is three goroutines side by side: the scheduler (DagScheduler),   *)
(* which is given the events its steps publish; the renderer, which reads  *)
(* them from a channel that drops what it has no room for; and main, which *)
(* waits for the one, closes the bus, waits for the other and prints the   *)
(* summary.  The lines that are redrawn and the ticker that does it are    *)
(* left out, as are log lines.                                             *)
(***************************************************************************)
EXTENDS TreeView

CONSTANTS
    Commands,       \* the commands that may be given:
                    \*   verb : "validate", "run", "test", "list" or "serve"
                    \*   wf : the workflow, raw : the --param arguments
                    \*   room : capacity of the renderer's channel
                    \*   case : a test case, "" for all of them
                    \*   edit : sequence with the workflow that is put, if any
                    \*   stops : bound: an interrupt may come
    Dags, Slots, NoNode     \* of DagScheduler

VARIABLES
    cmd,
    phase,          \* where main is
    wf,             \* the workflow, Server.config.Workflow in serve
    graph,          \* the DAG a handler or buildTree has built, or <<>>
    tree,           \* what is shown of it, or <<>>
    shown,          \* cliRenderer.steps: step -> status
    active,         \* cliRenderer.activeSteps
    loop,           \* cliRenderer.loopIteration (0: no loop) and loopBody
    lines,          \* what the renderer has printed for good: <<"step", n>> when
                    \* n ends, <<"goto", n>>, <<"loop", iterations>> when one ends
    queue,          \* the renderer's channel
    dropped,        \* Bus.dropped
    tries,          \* step -> step.started published in this round
    result,         \* execCtx.Steps: step -> status, or "none"
    interrupted,
    status,         \* ExecuteResult.Status
    cases,          \* test cases still to run
    tally,          \* the counts printed at the end
    code,           \* the exit code, -1 before
    \* Auxiliary: no action's guard reads it.
    restarted       \* steps whose step.started was published for a retry

\* The scheduler; dag..erred are its variables.
VARIABLES dag, ready, inDegree, completed, firstErr, done, gotoIterations, steps,
          pc, node, todo, out, returned, ended, erred

Engine == INSTANCE DagScheduler

engineVars == <<dag, ready, inDegree, completed, firstErr, done, gotoIterations,
                steps, pc, node, todo, out, returned, ended, erred>>
viewVars   == <<wf, graph, tree>>
screen     == <<shown, active, loop, lines>>
bus        == <<queue, dropped>>
runVars    == <<tries, result, interrupted, status, restarted>>
mainVars   == <<cmd, phase, cases, tally, code>>
vars == <<mainVars, viewVars, screen, bus, runVars, engineVars>>

NothingYet == <<>>

NoLoop == [iteration |-> 0, body |-> {}]

\* What DagScheduler is told of a graph; max_iterations is 10 if not given.
Scheduled(g) ==
    [parents |-> [n \in ToSet(g.ids) |-> ToSet(g.parents[n])],
     goto    |-> [n \in {s.id : s \in {t \in ToSet(g.steps) : t.goto # ""}} |->
                    LET s == g.steps[Place(g.ids, n)]
                    IN  [target |-> s.goto, max |-> IF s.max <= 0 THEN 10 ELSE s.max]],
     order   |-> g.order]

Executes(c) == c.verb = "run" /\ Validate(c.wf) = {} /\ BuildDAG(c.wf.steps).ok

\* Of a command that executes nothing the scheduler is never looked at.
Init ==
    /\ cmd \in Commands
    /\ phase = "parse"
    /\ wf = cmd.wf
    /\ graph = NothingYet /\ tree = NothingYet
    /\ shown = <<>> /\ active = <<>> /\ loop = NoLoop /\ lines = <<>>
    /\ queue = <<>> /\ dropped = 0
    /\ interrupted = FALSE /\ status = "running"
    /\ cases = <<>> /\ tally = <<>> /\ code = -1
    /\ dag = IF Executes(cmd) THEN Scheduled(BuildDAG(cmd.wf.steps))
                              ELSE CHOOSE d \in Dags : TRUE
    /\ Engine!Init
    /\ tries = [n \in DOMAIN steps |-> 0]
    /\ result = [n \in DOMAIN steps |-> "none"]
    /\ restarted = {}
-----------------------------------------------------------------------------
(* Before anything runs *)

GoTo(next) == phase' = next /\ UNCHANGED <<cmd, cases, tally, code>>

Exit(c) == phase' = "ended" /\ code' = c /\ UNCHANGED <<cmd, cases, tally>>

After == [validate |-> "actions", run |-> "tree", test |-> "cases",
          list |-> "table", serve |-> "serving"]

Parse ==
    /\ phase = "parse"
    /\ IF Validate(wf) # {} THEN Exit(1) ELSE GoTo(After[cmd.verb])
    /\ UNCHANGED <<viewVars, screen, bus, runVars, engineVars>>

\* executeValidate asks for known actions, executeRun for its own below.
CheckActions ==
    /\ phase = "actions"
    /\ IF ActionsOf(wf) \subseteq Builtins THEN GoTo("tree") ELSE Exit(1)
    /\ UNCHANGED <<viewVars, screen, bus, runVars, engineVars>>

addStepTracker(rows) == [n \in {r.id : r \in ToSet(rows)} |-> "pending"]

\* The renderer has its own copy of resolveConvergent, without the guards.
resolveConvergentNodes(g, rows) == resolveConvergent(g, rows, {})

buildLoopDisplays(g, rows) == buildLoops(g.steps, rows)

BuildTree ==
    /\ phase = "tree"
    /\ LET g    == BuildDAG(wf.steps)
           rows == resolveConvergentNodes(g, Visited(g))
       IN  IF ~g.ok THEN Exit(1) /\ UNCHANGED <<graph, tree, shown>>
           ELSE /\ IF cmd.verb = "validate" THEN Exit(0) ELSE GoTo("setup")
                /\ graph' = g
                /\ tree' = [rows |-> rows, loops |-> buildLoopDisplays(g, rows)]
                /\ shown' = addStepTracker(rows)
    /\ UNCHANGED <<wf, active, loop, lines, bus, runVars, engineVars>>

\* setupActionRegistry; the actions of on_error steps and loops are not asked.
SetUp ==
    /\ phase = "setup"
    /\ IF ActionsOf(wf) \subseteq cliAllowedActions(Builtins) THEN GoTo("begin")
                                                              ELSE Exit(1)
    /\ UNCHANGED <<viewVars, screen, bus, runVars, engineVars>>

\* Execute returns an error before its first event if it has no parameters.
Begin ==
    /\ phase = "begin"
    /\ GoTo(IF ParamsRefused(wf, parseParams(cmd.raw)) THEN "refused" ELSE "running")
    /\ UNCHANGED <<viewVars, screen, bus, runVars, engineVars>>
-----------------------------------------------------------------------------
(* The execution, and what it publishes *)

\* An event is <<type, step>>, and of a goto the iteration it begins.  Its
\* data goes through JSON (SnapshotData): numbers and lists arrive as the
\* float64 and []any the renderer asks for.
Publish(ev) ==
    IF Len(queue) < cmd.room
    THEN queue' = Append(queue, ev) /\ UNCHANGED dropped
    ELSE dropped' = dropped + 1 /\ UNCHANGED queue

Record(n, r) == result' = [result EXCEPT ![n] = r]

May(n) == wf.steps[Place(Ids(wf), n)].may

Policy(n) == wf.steps[Place(Ids(wf), n)].policy

Start(s) ==
    /\ pc[s] = "exec" /\ tries[node[s]] = 0
    /\ Publish(<<"started", node[s]>>)
    /\ tries' = [tries EXCEPT ![node[s]] = 1]
    /\ UNCHANGED <<engineVars, result, restarted>>

\* waitForRetry publishes step.started again.
Retry(s) ==
    /\ pc[s] = "exec" /\ tries[node[s]] = 1 /\ "retry" \in May(node[s])
    /\ Publish(<<"started", node[s]>>)
    /\ tries' = [tries EXCEPT ![node[s]] = 2]
    /\ restarted' = restarted \cup {node[s]}
    /\ UNCHANGED <<engineVars, result>>

Succeed(s) ==
    /\ pc[s] = "exec" /\ tries[node[s]] > 0
    /\ Publish(<<"completed", node[s]>>)
    /\ Record(node[s], "success")
    /\ Engine!ExecuteOk(s)
    /\ UNCHANGED <<tries, restarted>>

\* handleStepError; an interrupt ends an action that runs.
Fail(s) ==
    LET n == node[s]
    IN  /\ pc[s] = "exec" /\ tries[n] > 0
        /\ ("fail" \in May(n) \/ interrupted) /\ Policy(n) # "ignore"
        /\ Publish(<<"failed", n>>)
        /\ Record(n, "failed")
        /\ IF Policy(n) = "continue" THEN Engine!ExecuteOk(s) ELSE Engine!ExecuteErr(s)
        /\ steps'[n] = "recorded"
        /\ UNCHANGED <<tries, restarted>>

\* Its when is false.
Pass(s) ==
    /\ pc[s] = "exec" /\ tries[node[s]] = 0 /\ "skip" \in May(node[s])
    /\ Publish(<<"skipped", node[s]>>)
    /\ Record(node[s], "skipped")
    /\ Engine!ExecuteOk(s)
    /\ UNCHANGED <<tries, restarted>>

\* Its when, before step.started, or its config, after it, cannot be
\* evaluated: an error without a result and without an event.
Reject(s) ==
    /\ pc[s] = "exec" /\ tries[node[s]] < 2 /\ "reject" \in May(node[s])
    /\ Engine!ExecuteErr(s)
    /\ steps'[node[s]] = steps[node[s]]
    /\ UNCHANGED <<bus, tries, result, restarted>>

\* handleGoto resets the body, and publishes under the lock.
TakeGoto(s) ==
    LET body == Engine!LoopBody(dag, node[s])
    IN  /\ Engine!FinishGoto(s)
        /\ Publish(<<"goto", node[s], gotoIterations[node[s]] + 2>>)
        /\ result' = [n \in DOMAIN result |-> IF n \in body THEN "none" ELSE result[n]]
        /\ tries' = [n \in DOMAIN tries |-> IF n \in body THEN 0 ELSE tries[n]]
        /\ UNCHANGED restarted

Skip ==
    /\ Engine!SkipNode
    /\ Publish(<<"skipped", node[Engine!dagLoop]>>)
    /\ Record(node[Engine!dagLoop], "skipped")
    /\ UNCHANGED <<tries, restarted>>

Quiet(A) == A /\ UNCHANGED <<bus, tries, result, restarted>>

Loop ==
    \/ Quiet(Engine!Receive) \/ Quiet(Engine!LoopBack) \/ Skip
    \/ Quiet(Engine!Decrement(Engine!dagLoop)) \/ Quiet(Engine!Send(Engine!dagLoop))

Worker(s) ==
    \/ Start(s) \/ Retry(s) \/ Succeed(s) \/ Fail(s) \/ Pass(s) \/ Reject(s)
    \/ TakeGoto(s)
    \/ Quiet(Engine!FinishOk(s)) \/ Quiet(Engine!FinishErr(s))
    \/ Quiet(Engine!Decrement(s)) \/ Quiet(Engine!Send(s)) \/ Quiet(Engine!Leave(s))

InRun(A) == phase = "running" /\ A
            /\ UNCHANGED <<mainVars, viewVars, screen, interrupted, status>>

RunLoop      == InRun(Loop)
RunAcquire   == InRun(\E s \in Slots : Quiet(Engine!Acquire(s)))
RunWorker(s) == InRun(Worker(s))

\* SIGINT or SIGTERM.
Interrupt ==
    /\ phase = "running" /\ cmd.stops /\ ~interrupted
    /\ interrupted' = TRUE
    /\ UNCHANGED <<mainVars, viewVars, screen, bus, tries, result, status,
                   restarted, engineVars>>

\* buildExecuteResult; a workflow with recovery is cancelled whatever it did.
FinalStatus ==
    IF interrupted /\ wf.recovery THEN "cancelled"
    ELSE IF firstErr # NoNode THEN IF interrupted THEN "cancelled" ELSE "failed"
    ELSE IF \E n \in DOMAIN result : result[n] = "failed" THEN "completed_with_errors"
    ELSE "success"

Executed ==
    /\ phase = "running"
    /\ Engine!Return
    /\ status' = FinalStatus
    /\ GoTo("closing")
    /\ UNCHANGED <<viewVars, screen, bus, tries, result, interrupted, restarted>>
-----------------------------------------------------------------------------
(* The renderer, and the end of a run *)

addActive(n) == Append(active, n)

removeActive(n) == IF Contains(active, n) THEN RemoveFirst(active, n) ELSE active

inLoop(n) == loop.iteration > 1 /\ n \in loop.body

endLoop == Append(lines, <<"loop", loop.iteration>>)

\* A step outside the body ends the loop.
handleStepStarted(n) ==
    /\ shown' = [shown EXCEPT ![n] = "running"]
    /\ active' = addActive(n)
    /\ IF loop.iteration > 0 /\ n \notin loop.body
       THEN loop' = NoLoop /\ lines' = endLoop
       ELSE UNCHANGED <<loop, lines>>

\* From the second iteration on a step of the body ends without a line.
handleStepEnded(n, s) ==
    /\ shown' = [shown EXCEPT ![n] = s]
    /\ active' = removeActive(n)
    /\ lines' = IF inLoop(n) THEN lines ELSE Append(lines, <<"step", n>>)
    /\ UNCHANGED loop

\* What initLoopBody reads from the event; the body of a goto is always the same.
BodyOf(n) == Engine!LoopBody(dag, n)

\* Faulty: the iteration is not read from the event and stays 2.
handleStepGotoUncounted(n, iteration) ==
    /\ loop' = [iteration |-> 2, body |-> BodyOf(n)]
    /\ lines' = IF iteration > 2 THEN lines ELSE Append(lines, <<"goto", n>>)
    /\ UNCHANGED <<shown, active>>

\* Only the event of the second iteration begins a loop and takes its body.
handleStepGoto(n, iteration) ==
    /\ IF iteration > 2
       THEN loop' = [loop EXCEPT !.iteration = iteration] /\ UNCHANGED lines
       ELSE /\ loop' = [iteration |-> iteration, body |-> BodyOf(n)]
            /\ lines' = Append(lines, <<"goto", n>>)
    /\ UNCHANGED <<shown, active>>

handleEvent ==
    /\ queue # <<>>
    /\ LET type == queue[1][1]
           n    == queue[1][2]
       IN  \/ type = "started" /\ handleStepStarted(n)
           \/ type = "completed" /\ handleStepEnded(n, "success")
           \/ type = "failed" /\ handleStepEnded(n, "failed")
           \/ type = "skipped" /\ handleStepEnded(n, "skipped")
           \/ type = "goto" /\ handleStepGoto(n, queue[1][3])
    /\ queue' = Tail(queue)
    /\ UNCHANGED <<mainVars, viewVars, dropped, runVars, engineVars>>

DrainNotAwaited == TRUE

\* The range over the closed channel ends once it is empty.
Drained == queue = <<>>

CountOf(s) == Cardinality({n \in DOMAIN shown : shown[n] = s})

countStepStatuses == [s \in {"success", "failed", "skipped"} |-> CountOf(s)]

ExitCode == IF status \in {"success", "completed_with_errors"} THEN 0 ELSE 1

\* shutdown closes the bus and waits for the renderer; then the summary.
Report ==
    /\ phase = "closing" /\ Drained
    /\ tally' = countStepStatuses
    /\ loop' = NoLoop
    /\ lines' = IF loop.iteration > 0 THEN endLoop ELSE lines
    /\ phase' = "ended" /\ code' = ExitCode
    /\ UNCHANGED <<cmd, cases, viewVars, shown, active, bus, runVars, engineVars>>

\* executeRun after an error of Execute.
Refuse ==
    /\ phase = "refused" /\ Drained
    /\ Exit(1)
    /\ UNCHANGED <<viewVars, screen, bus, runVars, engineVars>>
-----------------------------------------------------------------------------
(* tailflow test *)

collectTestCases(w) ==
    LET all == FlattenSeq([i \in DOMAIN w.steps |->
                  [j \in DOMAIN w.steps[i].testing |-> w.steps[i].testing[j].name]])
    IN  SelectSeq([i \in DOMAIN all |->
                      IF \E j \in 1..(i - 1) : all[j] = all[i] THEN "" ELSE all[i]],
                  LAMBDA n : n # "")

executeTest ==
    /\ phase = "cases"
    /\ LET all == IF cmd.case # "" THEN <<cmd.case>> ELSE collectTestCases(wf)
       IN  IF all = <<>> THEN Exit(0)
           ELSE /\ phase' = "testing" /\ cases' = all
                /\ tally' = [passed |-> 0, failed |-> 0]
                /\ UNCHANGED <<cmd, code>>
    /\ UNCHANGED <<viewVars, screen, bus, runVars, engineVars>>

\* Execute takes no parameters here, and no tree was built before; what the
\* steps then do is the subject of StepRun.
runSingleTestCase ==
    /\ phase = "testing" /\ cases # <<>>
    /\ \E verdict \in {"passed", "failed"} :
          /\ ParamsRefused(wf, <<>>) \/ ~BuildDAG(wf.steps).ok => verdict = "failed"
          /\ tally' = [tally EXCEPT ![verdict] = @ + 1]
    /\ cases' = Tail(cases)
    /\ UNCHANGED <<cmd, phase, code, viewVars, screen, bus, runVars, engineVars>>

TestsOver ==
    /\ phase = "testing" /\ cases = <<>>
    /\ Exit(IF tally.failed > 0 THEN 1 ELSE 0)
    /\ UNCHANGED <<viewVars, screen, bus, runVars, engineVars>>

\* findTestCaseInStep: the first case of the name, or none.
TestCaseOf(s, name) == SelectSeq(s.testing, LAMBDA c : c.name = name)

testCaseCell(s, name) ==
    LET found == TestCaseOf(s, name)
    IN  IF found = <<>> THEN "(runs)"
        ELSE IF found[1].error THEN "mock error"
        ELSE IF found[1].output
             THEN IF found[1].expect # "none" THEN "mock+expect" ELSE "mock"
        ELSE IF found[1].expect # "none" THEN "expect" ELSE "(runs)"

executeTestList ==
    /\ phase = "table"
    /\ tally' = [name \in ToSet(collectTestCases(wf)) |->
                   [i \in DOMAIN wf.steps |-> testCaseCell(wf.steps[i], name)]]
    /\ phase' = "ended" /\ code' = 0
    /\ UNCHANGED <<cmd, cases, viewVars, screen, bus, runVars, engineVars>>
-----------------------------------------------------------------------------
(* tailflow serve: one request for the graph, and one for another workflow *)

\* handleGetWorkflowGraph reads Server.config.Workflow twice.
GraphDag ==
    /\ phase = "serving"
    /\ LET g == BuildDAG(wf.steps)
       IN  IF g.ok THEN graph' = g /\ GoTo("viewing")
                   ELSE GoTo("served") /\ UNCHANGED graph
    /\ UNCHANGED <<wf, tree, screen, bus, runVars, engineVars>>

\* A workflow put in between is drawn on the graph of the one before.  A step
\* it has not any more gives a row without an id, or a nil parent: no answer.
GraphBuild ==
    /\ phase = "viewing"
    /\ tree' = IF ToSet(graph.ids) \subseteq ToSet(Ids(wf)) THEN buildGraph(wf, graph)
                                                           ELSE NothingYet
    /\ GoTo("served")
    /\ UNCHANGED <<wf, graph, screen, bus, runVars, engineVars>>

AcceptableToAll(w) == TRUE

Acceptable(w) == Validate(w) = {}

\* handlePutWorkflowRaw: what Validate accepts replaces the workflow, whether
\* a graph can be built of it or not.
PutWorkflow ==
    /\ phase \in {"serving", "viewing"}
    /\ \E i \in DOMAIN cmd.edit : wf # cmd.edit[i] /\ Acceptable(cmd.edit[i])
                                  /\ wf' = cmd.edit[i]
    /\ UNCHANGED <<mainVars, graph, tree, screen, bus, runVars, engineVars>>
-----------------------------------------------------------------------------
Main ==
    \/ Parse \/ CheckActions \/ BuildTree \/ SetUp \/ Begin \/ Executed \/ Report
    \/ Refuse \/ executeTest \/ runSingleTestCase \/ TestsOver \/ executeTestList
    \/ GraphDag \/ GraphBuild

Over == phase \in {"ended", "served"} /\ UNCHANGED vars

Next ==
    \/ Main
    \/ RunLoop \/ RunAcquire \/ \E s \in Slots : RunWorker(s)
    \/ handleEvent
    \/ Interrupt \/ PutWorkflow
    \/ Over

Spec == Init /\ [][Next]_vars
-----------------------------------------------------------------------------
(* Properties *)

AllInjective(seqs) == \A s \in seqs : IsInjective(s) /\ "" \notin ToSet(s)

\* What the rest of the code takes for granted of a workflow.
Proper(w) ==
    /\ w.version = "2.0" /\ w.name # "" /\ w.steps # <<>>
    /\ AllInjective({w.stages, Ids(w)} \cup
                    {[j \in DOMAIN s.testing |-> s.testing[j].name] : s \in ToSet(w.steps)})
    /\ \A s \in ToSet(w.steps) :
          /\ s.stage \in ToSet(w.stages)
          /\ ToSet(s.deps) \subseteq ToSet(Ids(w)) \ {s.id}
          /\ s.action # "" /\ s.policy \in Policies
          /\ s.recovery \in {"", "retry", "skip", "fail"}
          /\ \A c \in ToSet(s.testing) :
                 /\ ~(c.output /\ c.error)
                 /\ c.expect \in {"none", "", "success", "failed", "skipped"}
    /\ \A h \in UNION {ToSet(s.onError) : s \in ToSet(w.steps)} \cup ToSet(w.onError) :
          h.id # "" /\ h.action # ""
    /\ \A p \in ToSet(w.params) : p.name # "" /\ p.type \in {"string", "bool", "int", "float"}
    /\ Cardinality(DOMAIN w.trigger) <= 1
    /\ \A k \in DOMAIN w.trigger : w.trigger[k] = Required[k]
    /\ \/ w.storage.type \in {"", "memory"} /\ w.storage.mariadb = "no"
                                           /\ w.storage.memory # "negative"
       \/ w.storage.type = "mariadb" /\ w.storage.mariadb = "dsn" /\ w.storage.memory = "no"

Before(w, n) == Engine!Ancestors([parents |-> [m \in ToSet(Ids(w)) |->
                                    ToSet(w.steps[Place(Ids(w), m)].deps)]], n)

\* Some order respects every depends_on; no goto leads to its own step, to
\* one that waits for it or to none.  A goto to a step that is neither before
\* nor after may be accepted or refused, by where Kahn's algorithm puts it.
Acyclic(w) ==
    \A s \in ToSet(w.steps) : \A d \in ToSet(s.deps) : s.id \notin {d} \cup Before(w, d)

GotoSteps(w) == {s \in ToSet(w.steps) : s.goto # ""}

Backwards(w) == \A s \in GotoSteps(w) : s.goto \in Before(w, s.id)

Astray(w) ==
    \E s \in GotoSteps(w) :
        s.goto \notin ToSet(Ids(w)) \ {s.id} \/ s.id \in Before(w, s.goto)

Orderable(w, ok) ==
    /\ ok => Acyclic(w) /\ ~Astray(w)
    /\ Acyclic(w) /\ Backwards(w) => ok

\* A step that waits for several, one of them no descendant of another such
\* step it comes after: a move of the second carries the first along.
Carried(w) ==
    \E j, k \in ToSet(w.steps) :
        /\ Cardinality(ToSet(j.deps)) > 1 /\ j.id \in Before(w, k.id)
        /\ \E d \in ToSet(k.deps) \ {j.id} : j.id \notin Before(w, d)

\* Every step has one row; it is a root without depends_on, or hangs one
\* level under a step it depends on, and inside that step's block, unless it
\* was carried elsewhere.
Follows(w, rows) ==
    /\ {r.id : r \in ToSet(rows)} = ToSet(Ids(w)) /\ Len(rows) = Len(w.steps)
    /\ \A i \in DOMAIN rows :
          LET r == rows[i]
              deps == ToSet(w.steps[Place(Ids(w), r.id)].deps)
          IN  /\ WalksUp(rows, r.parent, r.depth - 1)
              /\ \/ r.parent = "" /\ r.depth = 0 /\ deps = {}
                 \/ /\ r.parent \in deps
                    /\ rows[At(rows, r.parent)].depth + 1 = r.depth
                    /\ \/ Carried(w)
                       \/ At(rows, r.parent) < i
                          /\ \A k \in (At(rows, r.parent) + 1)..i :
                                rows[k].depth >= r.depth

Runnable(c) ==
    /\ ActionsOf(c.wf) \subseteq Builtins \ NeedsServer
    /\ \A p \in ToSet(c.wf.params) :
          \/ ~p.required \/ p.default # "none"
          \/ \E r \in ToSet(c.raw) : Len(r) = 2 /\ r[1] = p.name

\* The workflow whose graph has been built.
Graphed == [wf EXCEPT !.steps = graph.steps]

Answered == phase \in {"ended", "served"}

\* A workflow is refused if and only if something is wrong with it that the
\* command looks at: a fault Validate must find (Parse), a cycle or a goto that
\* leads nowhere (BuildDAG), an action or a parameter that is missing; a fault
\* hides no other, whatever continue and return statements come before.
RefusedForAReason ==
    Answered =>
        IF ~Proper(cmd.wf) THEN phase = "ended" /\ code = 1
        ELSE CASE cmd.verb = "validate" ->
                    IF ActionsOf(wf) \subseteq Builtins THEN Orderable(wf, code = 0)
                                                       ELSE code = 1
               [] cmd.verb = "run" ->
                    /\ Orderable(wf, tree # NothingYet)
                    /\ IF status # "running" THEN Runnable(cmd)
                       ELSE /\ code = 1
                            /\ Runnable(cmd) /\ tree # NothingYet =>
                                  \E p \in ToSet(wf.params) : p.pattern # "none"
               [] cmd.verb = "test" -> tally # <<>> /\ ~Acyclic(wf) => tally.passed = 0
               [] OTHER -> phase = "served" \/ code = 0

\* Each tree shows every step once, below what it waits for, and the walk
\* that draws a row finds a row for each parent, however many joining steps
\* were moved with all that follows them (buildTree, resolveConvergent).
TreeFollows ==
    Answered /\ tree # NothingYet =>
        IF cmd.verb = "serve" THEN Follows(Graphed, tree.tree.rows)
                              ELSE Follows(wf, tree.rows)

\* Whatever workflow is put while a graph is asked for, the agent has one that
\* Validate accepts, refuses a graph only of one that has none, and answers
\* with the nodes and depths of the one it read first and the edges, gotos and
\* stages of the one it read last (handleGetWorkflowGraph, buildGraph).
GraphFollows ==
    phase = "served" =>
        /\ Proper(wf)
        /\ IF graph = NothingYet THEN Orderable(wf, FALSE) ELSE Orderable(Graphed, TRUE)
        /\ tree # NothingYet =>
              LET drawn == {s \in ToSet(wf.steps) : s.id \in ToSet(Ids(Graphed))}
              IN  /\ [i \in DOMAIN tree.nodes |-> tree.nodes[i].id]
                         = SelectSeq(Ids(wf), LAMBDA n : \E s \in drawn : s.id = n)
                  /\ ToSet(tree.edges) =
                        UNION {{<<d, s.id>> : d \in ToSet(s.deps)} : s \in drawn}
                        \cup {<<s.id, s.goto, "goto">> : s \in drawn \cap GotoSteps(wf)}
                  /\ \A n \in ToSet(Ids(wf)) :
                        Cardinality({i \in DOMAIN tree.stages :
                                        Contains(tree.stages[i], n)}) = 1
                  /\ wf = Graphed /\ Backwards(wf) =>
                        tree.inLoop \subseteq
                            UNION {Engine!LoopBody(Scheduled(graph), s.id) : s \in GotoSteps(wf)}

Reported == phase = "ended" /\ cmd.verb = "run" /\ status # "running"

\* What a run tells is what happened, although the renderer reads the events
\* of all goroutines late (printSummary, shutdown): unless an event was lost,
\* every step with a result is shown and counted with it, and only a rejected
\* or retried step still as active; the exit code tells of every error.
SummaryFollows ==
    Reported =>
        /\ (code = 0) <=> (erred = {} /\ ~(interrupted /\ wf.recovery))
        /\ \A n \in DOMAIN result : result[n] = "none" => n \in erred
        /\ dropped = 0 =>
              /\ \A n \in DOMAIN result : result[n] \in {"none", shown[n]}
              /\ \A n \in ToSet(active) : result[n] = "none" \/ n \in restarted
              /\ \A s \in DOMAIN tally :
                    tally[s] - Cardinality({n \in DOMAIN result : result[n] = s})
                        \in 0..Cardinality(erred)

\* The steps run one after the other, and no step is part of two loops.
InTurn(g) ==
    /\ \A i \in DOMAIN g.order :
          ToSet(g.parents[g.order[i]]) = IF i = 1 THEN {} ELSE {g.order[i - 1]}
    /\ \A m, n \in Engine!Gotos(dag) : m = n \/ BodyOf(m) \cap BodyOf(n) = {}

\* However many rounds a loop takes and however late its events are handled,
\* it is told once, when it is over, with the number of its rounds, and each
\* of its steps once: where steps run in turn and no event was lost, the
\* renderer's one loop is always the one that runs (handleStepGoto, inLoop).
LoopsTold ==
    Reported /\ dropped = 0 /\ InTurn(graph) =>
        LET looped == SelectSeq(graph.order, LAMBDA n : n \in DOMAIN gotoIterations
                                                       /\ gotoIterations[n] > 0)
            Told(n) == Cardinality({i \in DOMAIN lines : lines[i] = <<"step", n>>})
        IN  /\ SelectSeq(lines, LAMBDA l : l[1] = "loop") =
                  [i \in DOMAIN looped |-> <<"loop", gotoIterations[looped[i]] + 1>>]
            /\ \A n \in DOMAIN result :
                  Told(n) <= 1 /\ (result[n] # "none" => Told(n) = 1)
=============================================================================
