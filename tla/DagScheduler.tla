----------------------------- MODULE DagScheduler -----------------------------
(***************************************************************************)
(* The scheduler of one execution: engine/engine_dag.go and the goto part  *)
(* of engine/goto.go.                                                      *)
(*                                                                         *)
(* Processes: the dagLoop goroutine, which takes steps from the channel    *)
(* ds.ready; one goroutine per step it starts (runDAGNode), at most one    *)
(* per slot of the semaphore ds.sem; and executeDAG, which waits.  Both    *)
(* kinds of goroutine release dependents through enqueueChildren, so the   *)
(* actions that model it take the process as a parameter.                  *)
(*                                                                         *)
(* A step of the model is a section under ds.mu or one channel operation.  *)
(* What executeNode does inside a step is the subject of module StepRun;   *)
(* here it ends with or without an error, with or without a result.        *)
(***************************************************************************)
EXTENDS Dag, Integers

CONSTANTS
    Dags,           \* the graphs an execution may be given
    Slots,          \* the slots of ds.sem, runtime.NumCPU() of them
    NoNode          \* no step

dagLoop == "dagLoop"

Procs == Slots \cup {dagLoop}

ASSUME DagsAssumption == \A d \in Dags : Buildable(d) /\ NoNode \notin Nodes(d)

ASSUME SlotsAssumption ==
    Slots # {} /\ IsFiniteSet(Slots) /\ dagLoop \notin Slots

VARIABLES
    dag,            \* the graph of this execution
    ready,          \* channel ds.ready, of capacity len(dag.Nodes)
    inDegree,       \* ds.inDegree
    completed,      \* ds.completed
    firstErr,       \* the step ds.firstErr names, or NoNode
    done,           \* channel ds.done: "open", "closed", "panic" (closed twice)
    gotoIterations, \* ds.gotoIterations
    steps,          \* execCtx.Steps: "none", "recorded" or "skipped" per step
    pc,             \* where each process is
    node,           \* the step each process holds
    todo,           \* children enqueueChildren has still to decrement
    out,            \* steps a process has decided to send on ds.ready
    returned,       \* executeDAG's result: "no", "ok" or "error"
    \* Auxiliary: no action's guard reads them.
    ended,          \* steps counted in completed
    erred           \* steps whose executeNode returned an error

state == <<dag, ready, inDegree, completed, firstErr, done, gotoIterations,
           steps, returned>>
procs == <<pc, node, todo, out>>
aux   == <<ended, erred>>
vars  == <<state, procs, aux>>

Steps == Nodes(dag)

\* Faulty variants of the definitions below, one before each, show that the
\* properties at the end notice such a mistake; nothing here uses them.
TotalOffByOne == Cardinality(Steps) - 1

Total == Cardinality(Steps)

ReadyCapPerCPU == Cardinality(Slots)

ReadyCap == Cardinality(Steps)
-----------------------------------------------------------------------------
\* newDAGState: the roots are in the channel, in any order.
Init ==
    /\ dag \in Dags
    /\ ready \in {q \in [1..Cardinality(Roots(dag)) -> Roots(dag)] :
                     \A i, j \in DOMAIN q : q[i] = q[j] => i = j}
    /\ inDegree = [n \in Steps |-> Cardinality(dag.parents[n])]
    /\ completed = 0
    /\ firstErr = NoNode
    /\ done = "open"
    /\ gotoIterations = [g \in Gotos(dag) |-> 0]
    /\ steps = [n \in Steps |-> "none"]
    /\ pc = [p \in Procs |-> IF p = dagLoop THEN "recv" ELSE "free"]
    /\ node = [p \in Procs |-> NoNode]
    /\ todo = [p \in Procs |-> {}]
    /\ out = [p \in Procs |-> {}]
    /\ returned = "no"
    /\ ended = {}
    /\ erred = {}
-----------------------------------------------------------------------------
(* dagLoop *)

\* Take a step and look at firstErr: start it, or skip it after a failure.
ReceivedPcUnchecked == "acquire"

ReceivedPc == IF firstErr # NoNode THEN "skip" ELSE "acquire"

Receive ==
    /\ pc[dagLoop] = "recv"
    /\ ready # <<>>
    /\ node' = [node EXCEPT ![dagLoop] = Head(ready)]
    /\ ready' = Tail(ready)
    /\ pc' = [pc EXCEPT ![dagLoop] = ReceivedPc]
    /\ UNCHANGED <<dag, inDegree, completed, firstErr, done, gotoIterations,
                   steps, returned, todo, out, aux>>

\* wg.Add(1) is part of Receive; the loop then waits here for a slot.
Acquire(s) ==
    /\ pc[dagLoop] = "acquire"
    /\ pc[s] = "free"
    /\ pc' = [pc EXCEPT ![dagLoop] = "recv", ![s] = "exec"]
    /\ node' = [node EXCEPT ![dagLoop] = NoNode, ![s] = node[dagLoop]]
    /\ UNCHANGED <<state, todo, out, aux>>

\* close(ds.done), by whoever finds completed >= total.
CloseDone == IF done = "open" THEN "closed" ELSE "panic"

\* The tail skipNode and runDAGNode share: count the step, then close done
\* or go on to its children.  n is not counted yet.
CountStep(p, n) ==
    LET allDone == completed + 1 >= Total
    IN  /\ completed' = completed + 1
        /\ ended' = ended \cup {n}
        /\ pc' = [pc EXCEPT ![p] = "enqueue"]
        /\ done' = IF allDone THEN CloseDone ELSE done
        /\ todo' = [todo EXCEPT ![p] = IF allDone THEN {} ELSE Children(dag, n)]
        /\ out' = [out EXCEPT ![p] = {}]

SkipNode ==
    /\ pc[dagLoop] = "skip"
    /\ steps' = [steps EXCEPT ![node[dagLoop]] = "skipped"]
    /\ CountStep(dagLoop, node[dagLoop])
    /\ UNCHANGED <<dag, ready, inDegree, firstErr, gotoIterations, returned,
                   node, erred>>
-----------------------------------------------------------------------------
(* runDAGNode *)

\* executeNode, without an error: the step succeeded, its condition was
\* false, or its error_policy let the failure pass.  A result is recorded.
ExecuteOk(s) ==
    /\ pc[s] = "exec"
    /\ steps' = [steps EXCEPT ![node[s]] = "recorded"]
    /\ pc' = [pc EXCEPT ![s] = "ok"]
    /\ UNCHANGED <<dag, ready, inDegree, completed, firstErr, done,
                   gotoIterations, returned, node, todo, out, aux>>

\* executeNode, with an error: the action failed and a result says so, or it
\* never ran (condition, config, registry, Validate) and no result is set.
ExecuteErr(s) ==
    /\ pc[s] = "exec"
    /\ \E r \in {"recorded", steps[node[s]]} :
          steps' = [steps EXCEPT ![node[s]] = r]
    /\ pc' = [pc EXCEPT ![s] = "fail"]
    /\ UNCHANGED <<dag, ready, inDegree, completed, firstErr, done,
                   gotoIterations, returned, node, todo, out, aux>>

\* The section under ds.mu when no goto is taken.
FinishOk(s) ==
    /\ pc[s] = "ok"
    /\ CountStep(s, node[s])
    /\ UNCHANGED <<dag, ready, inDegree, firstErr, gotoIterations, steps,
                   returned, node, erred>>

FinishErr(s) ==
    /\ pc[s] = "fail"
    /\ firstErr' = IF firstErr = NoNode THEN node[s] ELSE firstErr
    /\ erred' = erred \cup {node[s]}
    /\ CountStep(s, node[s])
    /\ UNCHANGED <<dag, ready, inDegree, gotoIterations, steps, returned, node>>

\* loopInDegree: a step of the body waits for its parents in the body only.
LoopInDegreeAll(g, n) == Cardinality(dag.parents[n])

LoopInDegree(g, n) == Cardinality(dag.parents[n] \cap LoopBody(dag, g))

ResetInDegreeForgotten(g) == inDegree

ResetInDegree(g) ==
    [n \in Steps |-> IF n \in LoopBody(dag, g) THEN LoopInDegree(g, n)
                                               ELSE inDegree[n]]

\* resetLoopBody takes every step of the body out of the count again; the
\* goto step itself has just been counted.
ResetCompletedTwice(g) == completed - Cardinality(LoopBody(dag, g))

ResetCompletedKeepsGoto(g) == completed + 2 - Cardinality(LoopBody(dag, g))

ResetCompleted(g) == completed + 1 - Cardinality(LoopBody(dag, g))

\* handleGoto, when the condition holds and iterations are left: put the
\* body back and send the steps of it that wait for nothing.
FinishGoto(s) ==
    LET g == node[s]
    IN  /\ pc[s] = "ok"
        /\ g \in Gotos(dag)
        /\ gotoIterations[g] < dag.goto[g].max
        /\ gotoIterations' = [gotoIterations EXCEPT ![g] = @ + 1]
        /\ inDegree' = ResetInDegree(g)
        /\ completed' = ResetCompleted(g)
        /\ ended' = (ended \cup {g}) \ LoopBody(dag, g)
        /\ steps' = [n \in Steps |-> IF n \in LoopBody(dag, g) THEN "none"
                                                               ELSE steps[n]]
        /\ pc' = [pc EXCEPT ![s] = "enqueue"]
        /\ out' = [out EXCEPT ![s] =
                     {n \in LoopBody(dag, g) : LoopInDegree(g, n) = 0}]
        /\ UNCHANGED <<dag, ready, firstErr, done, returned, node, todo, erred>>

\* The deferred <-ds.sem and wg.Done().
Leave(s) ==
    /\ pc[s] = "enqueue"
    /\ todo[s] = {}
    /\ out[s] = {}
    /\ pc' = [pc EXCEPT ![s] = "free"]
    /\ node' = [node EXCEPT ![s] = NoNode]
    /\ UNCHANGED <<state, todo, out, aux>>
-----------------------------------------------------------------------------
(* enqueueChildren, in dagLoop (p = dagLoop) and in runDAGNode (p a slot) *)

ReleasedEarly(c) == inDegree[c] - 1 <= 1

Released(c) == inDegree[c] - 1 <= 0

Decrement(p) ==
    /\ pc[p] = "enqueue"
    /\ out[p] = {}
    /\ \E c \in todo[p] :
          /\ inDegree' = [inDegree EXCEPT ![c] = @ - 1]
          /\ todo' = [todo EXCEPT ![p] = @ \ {c}]
          /\ out' = [out EXCEPT ![p] = IF Released(c) THEN {c} ELSE {}]
    /\ UNCHANGED <<dag, ready, completed, firstErr, done, gotoIterations,
                   steps, returned, pc, node, aux>>

\* ds.ready <- child blocks while the channel is full.
Send(p) ==
    /\ pc[p] = "enqueue"
    /\ Len(ready) < ReadyCap
    /\ \E c \in out[p] :
          /\ ready' = Append(ready, c)
          /\ out' = [out EXCEPT ![p] = @ \ {c}]
    /\ UNCHANGED <<dag, inDegree, completed, firstErr, done, gotoIterations,
                   steps, returned, pc, node, todo, aux>>

\* dagLoop goes back to its range statement.
LoopBack ==
    /\ pc[dagLoop] = "enqueue"
    /\ todo[dagLoop] = {}
    /\ out[dagLoop] = {}
    /\ pc' = [pc EXCEPT ![dagLoop] = "recv"]
    /\ node' = [node EXCEPT ![dagLoop] = NoNode]
    /\ UNCHANGED <<state, todo, out, aux>>
-----------------------------------------------------------------------------
(* executeDAG *)

\* wg.Wait() passes: no runDAGNode is left and none has been announced.
WaitGroupIgnored == pc[dagLoop] # "acquire"

WaitGroupZero == pc[dagLoop] # "acquire" /\ \A s \in Slots : pc[s] = "free"

Return ==
    /\ returned = "no"
    /\ done = "closed"
    /\ WaitGroupZero
    /\ returned' = IF firstErr = NoNode THEN "ok" ELSE "error"
    /\ UNCHANGED <<dag, ready, inDegree, completed, firstErr, done,
                   gotoIterations, steps, procs, aux>>

\* executeDAG has returned; dagLoop stays on a channel nobody closes.
Finished == returned # "no" /\ UNCHANGED vars

Loop == Receive \/ SkipNode \/ LoopBack \/ Decrement(dagLoop) \/ Send(dagLoop)

Worker(s) ==
    \/ ExecuteOk(s) \/ ExecuteErr(s)
    \/ FinishOk(s) \/ FinishErr(s) \/ FinishGoto(s)
    \/ Decrement(s) \/ Send(s) \/ Leave(s)

Next ==
    \/ Loop
    \/ \E s \in Slots : Acquire(s) \/ Worker(s)
    \/ Return
    \/ Finished

Spec == Init /\ [][Next]_vars

(***************************************************************************)
(* The Go scheduler runs every goroutine that can run, and an action that  *)
(* was started returns (its own timeout or its context ends it).           *)
(***************************************************************************)
Fairness ==
    /\ WF_vars(Loop)
    /\ WF_vars(\E s \in Slots : Acquire(s))
    /\ \A s \in Slots : WF_vars(Worker(s))
    /\ WF_vars(Return)

FairSpec == Spec /\ Fairness
-----------------------------------------------------------------------------
(* Properties *)

\* A process has a step in hand that is not counted yet.
Holding(p) == pc[p] \in {"acquire", "skip", "exec", "ok", "fail"}

InHand(n) == \E p \in Procs : Holding(p) /\ node[p] = n

PcValues == {"recv", "acquire", "skip", "free", "exec", "ok", "fail", "enqueue"}

Types ==
    /\ dag \in Dags
    /\ ready \in Seq(Steps)
    /\ inDegree \in [Steps -> Int]
    /\ firstErr \in Steps \cup {NoNode}
    /\ done \in {"open", "closed", "panic"}
    /\ gotoIterations \in [Gotos(dag) -> Nat]
    /\ steps \in [Steps -> {"none", "recorded", "skipped"}]
    /\ pc[dagLoop] \in {"recv", "acquire", "skip", "enqueue"}
    /\ \A s \in Slots : pc[s] \in {"free", "exec", "ok", "fail", "enqueue"}
    /\ pc \in [Procs -> PcValues]
    /\ node \in [Procs -> Steps \cup {NoNode}]
    /\ \A p \in Procs : Holding(p) => node[p] # NoNode
    /\ todo \in [Procs -> SUBSET Steps]
    /\ out \in [Procs -> SUBSET Steps]
    /\ returned \in {"no", "ok", "error"}
    /\ ended \subseteq Steps
    /\ erred \subseteq Steps

\* Type invariant: every variable stays in the range its Go type gives it,
\* and completed, which handleGoto takes down again, within 0..total.
TypeOK == Types /\ completed \in 0..Total

\* Steps run "when dependencies allow" (README, Key design decisions): a
\* step in hand has every step of its depends_on finished in this round,
\* whatever loops were taken and in whatever order its parents let it go.
DependencyOrder == \A n \in Steps : InHand(n) => dag.parents[n] \subseteq ended

\* runDAGNode counts a step once per round and resetLoopBody uncounts each
\* step of the body once: the counter that closes ds.done is never off.
CountMatches == completed = Cardinality(ended)

\* inDegree[c] is the number of parents that have still to let c go: no
\* decrement of enqueueChildren is lost or made twice, across goto resets.
LetGo(p, c) ==
    p \in ended /\ \A q \in Procs : node[q] = p => c \notin todo[q]

InDegreeExact ==
    \A c \in Steps :
        inDegree[c] = Cardinality({p \in dag.parents[c] : ~LetGo(p, c)})

\* A send on ds.ready never finds the channel full.  dagLoop is its only
\* receiver and sends on it too (skipNode): blocked there, it blocks for good.
NoBlockedSend == \A p \in Procs : out[p] # {} => Len(ready) < ReadyCap

\* ds.done is closed at most once, and only with every step finished, no
\* step queued or in hand and no dependent left to release.
DoneMeansAll ==
    done # "open" =>
        /\ done = "closed"
        /\ ended = Steps
        /\ ready = <<>>
        /\ \A p \in Procs : ~Holding(p) /\ todo[p] = {} /\ out[p] = {}

\* After a failure nothing downstream runs: no step is given to its action
\* while a step it depends on, directly or not, failed or was skipped.
FailureStopsDependents ==
    \A s \in Slots : pc[s] = "exec" =>
        \A m \in Ancestors(dag, node[s]) : m \notin erred /\ steps[m] # "skipped"

\* executeDAG returns with every goroutine of a step gone, an error exactly
\* if some step returned one, and no step without a result unless its own
\* execution failed before it had one.
ReturnTellsAll ==
    returned # "no" =>
        /\ \A s \in Slots : pc[s] = "free"
        /\ (returned = "error") <=> (erred # {})
        /\ \A n \in Steps : steps[n] = "none" => n \in erred

\* The scheduler implements WorkflowOrder: each step of the code is a step
\* of that specification or leaves its state alone.
Phase(n) == IF InHand(n) THEN "running"
            ELSE IF n \in ended THEN "finished" ELSE "pending"

Order == INSTANCE WorkflowOrder
    WITH phase   <- [n \in Steps |-> Phase(n)],
         rewinds <- gotoIterations,
         over    <- (returned # "no")

ImplementsOrder == Order!Spec

\* Every execution returns: no step is forgotten in a counter or a channel.
Terminates == <>(returned # "no")
=============================================================================
