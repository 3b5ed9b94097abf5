------------------------------- MODULE Recovery -------------------------------
(***************************************************************************)
(* One execution of a workflow with recovery: true, from its start to the  *)
(* end the store knows of, across crashes and shutdowns of the agent.      *)
(*                                                                         *)
(* Three parties: the engine, which keeps step results in memory and       *)
(* publishes every transition; captureEvents, which takes the events from  *)
(* its channel and writes them to the store one by one; and the store (the *)
(* MariaDB one: the only state that outlives the process).  On restart     *)
(* recoverExecutions hands the stored steps of an unfinished execution     *)
(* back to the engine, and handleRecovery decides what each of them needs. *)
(*                                                                         *)
(* Which step may be dispatched when is taken from WorkflowOrder, which    *)
(* the scheduler implements (DagScheduler_proofs).  A step is one visit of *)
(* executeNode; SetStepResult and the Publish that follows it are one      *)
(* action, for nobody can see the result without the event before a crash. *)
(***************************************************************************)
EXTENDS Dag, Integers

CONSTANTS
    Workflows,      \* graphs with, beside the fields of Dag,
                    \*   onRecovery : [steps -> {"retry", "skip", "fail"}]
                    \*   tolerant, waits, guarded : subsets of the steps:
                    \*   error_policy continue, wait.* actions, with a when
    MaxCrashes      \* workflow -> bound on its crashes and shutdowns

ASSUME WorkflowsAssumption ==
    \A w \in Workflows :
        /\ Buildable(w)
        /\ w.onRecovery \in [Nodes(w) -> {"retry", "skip", "fail"}]
        /\ w.tolerant \cup w.waits \cup w.guarded \subseteq Nodes(w)

ASSUME CrashesAssumption == \A w \in Workflows : MaxCrashes[w] \in Nat

VARIABLES
    wf,             \* the workflow
    agent,          \* "up", "stopping" (its context is cancelled) or "down"
    engine,         \* Execute: "running", its outcome, or "done" (finalized)
    mem,            \* execCtx.Steps: the status per step, "none" if absent
    phase,          \* where executeNode is with each step
    failed,         \* ds.firstErr # nil
    cancelled,      \* the execution's own context is cancelled
    rounds,         \* ds.gotoIterations
    recovered,      \* opts.RecoveredSteps
    queue,          \* the channel of captureEvents
    stored,         \* the step statuses of the store
    status,         \* the execution status of the store
    \* Auxiliary: no action's guard reads them.
    runs,           \* calls of the action of each step, over all restarts
    bypassed        \* steps skipped for a failure and not run since

memory == <<engine, mem, phase, failed, cancelled, rounds, recovered, queue>>
store  == <<stored, status>>
aux    == <<runs, bypassed>>

\* Crashes and shutdowns so far; only the bound reads it.
VARIABLE crashes

vars == <<wf, agent, memory, store, aux, crashes>>

Steps == Nodes(wf)

Active == {"running", "waiting"}

Final == {"success", "failed", "completed_with_errors", "cancelled"}

None == [n \in Steps |-> "none"]

\* Nothing of an execution is in memory but what recovery hands over.
Fresh(rec) ==
    /\ mem' = rec
    /\ recovered' = rec
    /\ phase' = [n \in Steps |-> "pending"]
    /\ failed' = FALSE
    /\ cancelled' = FALSE
    /\ rounds' = [g \in Gotos(wf) |-> 0]
    /\ queue' = <<>>

\* runWorkflowAsync: the row is added as running, then Execute starts.
Init ==
    /\ wf \in Workflows
    /\ agent = "up"
    /\ engine = "running"
    /\ mem = None
    /\ recovered = None
    /\ phase = [n \in Steps |-> "pending"]
    /\ failed = FALSE
    /\ cancelled = FALSE
    /\ rounds = [g \in Gotos(wf) |-> 0]
    /\ queue = <<>>
    /\ stored = None
    /\ status = "running"
    /\ runs = [n \in Steps |-> 0]
    /\ bypassed = {}
    /\ crashes = 0
-----------------------------------------------------------------------------
(* The engine *)

\* Faulty variants of some definitions, each before its own, show that the
\* properties at the end notice such a mistake; nothing here uses them.
PublishLossy(to, S) ==
    queue' = IF Len(queue) < 2 THEN Append(queue, [to |-> to, steps |-> S])
                               ELSE queue

\* Publish to the blocking subscription of captureEvents: a step event, or a
\* step.goto that puts every step of its body back.
Publish(to, S) == queue' = Append(queue, [to |-> to, steps |-> S])

Executing == agent # "down" /\ engine = "running"

Ready(n) ==
    /\ Executing
    /\ phase[n] = "pending"
    /\ \A p \in wf.parents[n] : phase[p] = "finished"

DecideForgetful(n) ==
    CASE mem[n] = "running" /\ wf.onRecovery[n] # "retry" -> wf.onRecovery[n]
      [] OTHER -> "run"

DecideByStart(n) ==
    CASE mem[n] \in {"success", "skipped", "running"} -> "pass"
      [] OTHER -> "run"

DecideRetry(n) ==
    CASE mem[n] \in {"success", "skipped"} -> "pass"
      [] OTHER -> "run"

\* handleRecovery: what to do with a step, from the status it has in memory.
Decide(n) ==
    CASE mem[n] \in {"success", "skipped"} -> "pass"
      [] mem[n] = "running" /\ wf.onRecovery[n] # "retry" -> wf.onRecovery[n]
      [] OTHER -> "run"

\* skipNode.
SkipNode(n) ==
    /\ Ready(n)
    /\ failed
    /\ mem' = [mem EXCEPT ![n] = "skipped"]
    /\ Publish("skipped", {n})
    /\ phase' = [phase EXCEPT ![n] = "finished"]
    /\ bypassed' = bypassed \cup {n}
    /\ UNCHANGED <<wf, agent, engine, failed, cancelled, rounds, recovered,
                   store, runs, crashes>>

\* dagLoop found no error when it took the step; another step may still fail
\* before this one starts.
Dispatch(n) ==
    /\ Ready(n)
    /\ ~failed
    /\ phase' = [phase EXCEPT ![n] = "dispatched"]
    /\ UNCHANGED <<wf, agent, engine, mem, failed, cancelled, rounds, recovered,
                   queue, store, aux, crashes>>

Dispatched(n, what) ==
    /\ Executing
    /\ phase[n] = "dispatched"
    /\ Decide(n) \in what

\* A step that was stored as settled, or as running with on_recovery: skip;
\* no event is published.
PassOver(n) ==
    /\ Dispatched(n, {"pass", "skip"})
    /\ mem' = [mem EXCEPT ![n] = IF Decide(n) = "skip" THEN "success" ELSE @]
    /\ phase' = [phase EXCEPT ![n] = "settled"]
    /\ UNCHANGED <<wf, agent, engine, failed, cancelled, rounds, recovered,
                   queue, store, aux, crashes>>

\* on_recovery: fail; the step fails without an event.
FailRecovery(n) ==
    /\ Dispatched(n, {"fail"})
    /\ mem' = [mem EXCEPT ![n] = "failed"]
    /\ failed' = TRUE
    /\ phase' = [phase EXCEPT ![n] = "finished"]
    /\ UNCHANGED <<wf, agent, engine, cancelled, rounds, recovered, queue,
                   store, aux, crashes>>

\* on_recovery: retry clears what was recovered of a running step.
Cleared(n) == [mem EXCEPT ![n] = IF @ = "running" THEN "none" ELSE @]

\* evaluateWhenCondition finds the condition false, or cannot evaluate it.
WhenFalse(n) ==
    /\ Dispatched(n, {"run"})
    /\ n \in wf.guarded
    /\ mem' = [mem EXCEPT ![n] = "skipped"]
    /\ Publish("skipped", {n})
    /\ phase' = [phase EXCEPT ![n] = "settled"]
    /\ UNCHANGED <<wf, agent, engine, failed, cancelled, rounds, recovered,
                   store, aux, crashes>>

WhenError(n) ==
    /\ Dispatched(n, {"run"})
    /\ n \in wf.guarded
    /\ mem' = Cleared(n)
    /\ failed' = TRUE
    /\ phase' = [phase EXCEPT ![n] = "finished"]
    /\ UNCHANGED <<wf, agent, engine, cancelled, rounds, recovered, queue,
                   store, aux, crashes>>

\* step.started.
Begin(n) ==
    /\ Dispatched(n, {"run"})
    /\ mem' = Cleared(n)
    /\ Publish("running", {n})
    /\ phase' = [phase EXCEPT ![n] = "started"]
    /\ UNCHANGED <<wf, agent, engine, failed, cancelled, rounds, recovered,
                   store, aux, crashes>>

\* Config, registry or Validate refuse: an error with no result and no event.
Reject(n) ==
    /\ Executing
    /\ phase[n] = "started"
    /\ failed' = TRUE
    /\ phase' = [phase EXCEPT ![n] = "finished"]
    /\ UNCHANGED <<wf, agent, engine, mem, cancelled, rounds, recovered, queue,
                   store, aux, crashes>>

\* act.Execute is called.
Act(n) ==
    /\ Executing
    /\ phase[n] = "started"
    /\ runs' = [runs EXCEPT ![n] = @ + 1]
    /\ bypassed' = bypassed \ {n}
    /\ phase' = [phase EXCEPT ![n] = "acting"]
    /\ UNCHANGED <<wf, agent, engine, mem, failed, cancelled, rounds, recovered,
                   queue, store, crashes>>

\* A wait action publishes step.waiting, then waits.
Wait(n) ==
    /\ Executing
    /\ phase[n] = "acting"
    /\ n \in wf.waits
    /\ Publish("waiting", {n})
    /\ phase' = [phase EXCEPT ![n] = "waiting"]
    /\ UNCHANGED <<wf, agent, engine, mem, failed, cancelled, rounds, recovered,
                   store, aux, crashes>>

\* recordStepSuccess, or handleIgnoredError.
Succeed(n) ==
    /\ Executing
    /\ phase[n] = IF n \in wf.waits THEN "waiting" ELSE "acting"
    /\ mem' = [mem EXCEPT ![n] = "success"]
    /\ Publish("success", {n})
    /\ phase' = [phase EXCEPT ![n] = "settled"]
    /\ UNCHANGED <<wf, agent, engine, failed, cancelled, rounds, recovered,
                   store, aux, crashes>>

\* handleStepError; error_policy: continue returns no error.
Fail(n) ==
    /\ Executing
    /\ phase[n] \in {"acting", "waiting"}
    /\ mem' = [mem EXCEPT ![n] = "failed"]
    /\ Publish("failed", {n})
    /\ IF n \in wf.tolerant
       THEN /\ phase' = [phase EXCEPT ![n] = "settled"]
            /\ UNCHANGED failed
       ELSE /\ phase' = [phase EXCEPT ![n] = "finished"]
            /\ failed' = TRUE
    /\ UNCHANGED <<wf, agent, engine, cancelled, rounds, recovered, store, aux,
                   crashes>>

\* runDAGNode counts the step.
Finish(n) ==
    /\ Executing
    /\ phase[n] = "settled"
    /\ phase' = [phase EXCEPT ![n] = "finished"]
    /\ UNCHANGED <<wf, agent, engine, mem, failed, cancelled, rounds, recovered,
                   queue, store, aux, crashes>>

\* handleGoto instead, whose iterations start from zero after a restart.
Rewind(g) ==
    LET body == LoopBody(wf, g) IN
    /\ Executing
    /\ g \in Gotos(wf)
    /\ phase[g] = "settled"
    /\ rounds[g] < wf.goto[g].max
    /\ rounds' = [rounds EXCEPT ![g] = @ + 1]
    /\ mem' = [n \in Steps |-> IF n \in body THEN "none" ELSE mem[n]]
    /\ phase' = [n \in Steps |-> IF n \in body THEN "pending" ELSE phase[n]]
    /\ Publish("pending", body)
    /\ UNCHANGED <<wf, agent, engine, failed, cancelled, recovered, store, aux,
                   crashes>>

\* executeDAG returns; Execute and determineStatus name the outcome.
Outcome ==
    IF cancelled \/ agent = "stopping" THEN "cancelled"
    ELSE IF failed THEN "failed"
    ELSE IF \E n \in Steps : mem[n] = "failed" THEN "completed_with_errors"
    ELSE "success"

Return ==
    /\ Executing
    /\ \A n \in Steps : phase[n] = "finished"
    /\ engine' = Outcome
    /\ UNCHANGED <<wf, agent, mem, phase, failed, cancelled, rounds, recovered,
                   queue, store, aux, crashes>>
-----------------------------------------------------------------------------
(* captureEvents and finalizeExecution *)

\* UpdateStep: the step, and while the execution is active its status too.
Derived(st) ==
    CASE status \notin Active -> status
      [] status \in Active /\ \E n \in Steps : st[n] = "running" -> "running"
      [] status \in Active /\ (\A n \in Steps : st[n] # "running")
                           /\ (\E n \in Steps : st[n] = "waiting") -> "waiting"
      [] OTHER -> status

\* A step.goto resets its body in one transaction per step, in any order.
\* Once the server's context is cancelled every write to the store fails.
Capture ==
    /\ agent # "down"
    /\ queue # <<>>
    /\ \E n \in Head(queue).steps :
          /\ queue' = IF Head(queue).steps = {n}
                      THEN Tail(queue)
                      ELSE [queue EXCEPT ![1].steps = @ \ {n}]
          /\ IF agent = "up"
             THEN LET st == [stored EXCEPT ![n] = Head(queue).to]
                  IN  stored' = st /\ status' = Derived(st)
             ELSE UNCHANGED store
    /\ UNCHANGED <<wf, agent, engine, mem, phase, failed, cancelled, rounds,
                   recovered, aux, crashes>>

\* stopCapture waits for the channel to be empty.
DrainSkipped == TRUE

Drained == queue = <<>>

\* mergeStepResults: what the engine says of a step wins.
Merged == [n \in Steps |-> IF mem[n] # "none" THEN mem[n] ELSE stored[n]]

Finalize ==
    /\ agent # "down"
    /\ engine \in Final
    /\ Drained
    /\ engine' = "done"
    /\ IF agent = "up" THEN status' = engine /\ stored' = Merged
                       ELSE UNCHANGED store
    /\ UNCHANGED <<wf, agent, mem, phase, failed, cancelled, rounds, recovered,
                   queue, aux, crashes>>
-----------------------------------------------------------------------------
(* The agent *)

\* cancelExecution, by a user.
Cancel ==
    /\ Executing
    /\ ~cancelled
    /\ cancelled' = TRUE
    /\ UNCHANGED <<wf, agent, engine, mem, phase, failed, rounds, recovered,
                   queue, store, aux, crashes>>

Gone ==
    /\ agent' = "down"
    /\ engine' = "done"
    /\ Fresh(None)
    /\ UNCHANGED <<wf, store, aux>>

Crash ==
    /\ agent # "down"
    /\ crashes < MaxCrashes[wf]
    /\ crashes' = crashes + 1
    /\ Gone

\* Run's context is cancelled, and with it s.ctx and every execution's.
Shutdown ==
    /\ agent = "up"
    /\ crashes < MaxCrashes[wf]
    /\ crashes' = crashes + 1
    /\ agent' = "stopping"
    /\ UNCHANGED <<wf, memory, store, aux>>

\* shutdownServices ends, whatever the steps are doing.
Exit ==
    /\ agent = "stopping"
    /\ UNCHANGED crashes
    /\ Gone

\* RecoverExecutions selects what is running or waiting; runWorkflowAsync adds
\* the row again, which the store takes for the one it has.
RecoverableRunning == {"running"}

Recoverable == Active

Restart ==
    /\ agent = "down"
    /\ agent' = "up"
    /\ IF status \in Recoverable
       THEN engine' = "running" /\ Fresh(stored)
       ELSE engine' = "done" /\ Fresh(None)
    /\ UNCHANGED <<wf, store, aux, crashes>>

Finished == status \in Final /\ engine = "done" /\ UNCHANGED vars

StepOf(n) ==
    \/ SkipNode(n) \/ Dispatch(n) \/ PassOver(n) \/ FailRecovery(n)
    \/ WhenFalse(n) \/ WhenError(n) \/ Begin(n) \/ Reject(n) \/ Act(n)
    \/ Wait(n) \/ Succeed(n) \/ Fail(n) \/ Finish(n) \/ Rewind(n)

Next ==
    \/ \E n \in Steps : StepOf(n)
    \/ Return \/ Capture \/ Finalize
    \/ Cancel \/ Crash \/ Shutdown \/ Exit \/ Restart
    \/ Finished

Spec == Init /\ [][Next]_vars

(***************************************************************************)
(* Goroutines run, an action that was called returns, a stopping agent     *)
(* exits and someone starts it again.  Nobody has to crash it.             *)
(***************************************************************************)
Fairness ==
    /\ WF_vars(Return) /\ WF_vars(Capture) /\ WF_vars(Finalize)
    /\ WF_vars(Exit) /\ WF_vars(Restart)
    /\ WF_vars(\E n \in Steps : StepOf(n))

FairSpec == Spec /\ Fairness
-----------------------------------------------------------------------------
(* Properties *)

Statuses == {"none", "pending", "running", "waiting", "success", "failed",
             "skipped"}

\* Type invariant: memory and store hold statuses of runtime/status.go (and
\* "pending", which processEvent writes), and a dead agent holds nothing.
TypeOK ==
    /\ wf \in Workflows
    /\ agent \in {"up", "stopping", "down"}
    /\ engine \in {"running", "done"} \cup Final
    /\ mem \in [Steps -> Statuses]
    /\ recovered \in [Steps -> Statuses]
    /\ phase \in [Steps -> {"pending", "dispatched", "started", "acting",
                            "waiting", "settled", "finished"}]
    /\ failed \in BOOLEAN
    /\ cancelled \in BOOLEAN
    /\ rounds \in [Gotos(wf) -> Nat]
    /\ queue \in Seq([to : Statuses, steps : (SUBSET Steps) \ {{}}])
    /\ stored \in [Steps -> Statuses]
    /\ status \in Active \cup Final
    /\ runs \in [Steps -> Nat]
    /\ bypassed \subseteq Steps
    /\ crashes \in 0..MaxCrashes[wf]
    /\ agent = "down" => mem = None /\ queue = <<>>

\* The status the store will have for n when the channel is empty.
Replay(n) ==
    LET about == {i \in DOMAIN queue : n \in queue[i].steps}
    IN  IF about = {} THEN stored[n]
        ELSE queue[CHOOSE i \in about : \A j \in about : j <= i].to

\* "The runtime persists every step transition": a result in memory is in the
\* store or on its way there, in its place, across loops and restarts.  Only
\* what on_recovery decided of a running step is kept from it.
NothingLost ==
    agent = "up" =>
        \A n \in Steps :
            /\ phase[n] \in {"settled", "finished"}
            /\ recovered[n] # "running"
            /\ mem[n] \in {"success", "skipped"}
            => Replay(n) = mem[n]

\* A step whose action runs has all it depends on settled in memory, by a run
\* of this process or by what an earlier one left in the store.
RunsOnSettled ==
    \A n \in Steps : phase[n] \in {"acting", "waiting"} =>
        \A p \in wf.parents[n] : mem[p] \in {"success", "skipped", "failed"}

\* "Resumes DAG, skips steps with status success": what the store holds as a
\* success is not started again, except by a loop whose step.goto is on its way
\* to the store.
StoredSuccessKept ==
    [][\A n \in Steps :
          phase[n] # "started" /\ phase'[n] = "started"
              /\ agent = "up" /\ stored[n] = "success" =>
              \E i \in DOMAIN queue :
                  queue[i].to = "pending" /\ n \in queue[i].steps]_vars

\* A step found running with on_recovery skip or fail is not run by the
\* resumed execution, unless a loop puts it back.
OnRecoveryKept ==
    [][\A n \in Steps :
          runs'[n] # runs[n] /\ recovered[n] = "running"
              /\ wf.onRecovery[n] # "retry" =>
              \E g \in Gotos(wf) : rounds[g] > 0 /\ n \in LoopBody(wf, g)]_vars

\* The end is the end: once the store has a final status nothing of the
\* execution runs and nothing in its row changes, also after a restart.
FinalIsFinal ==
    [][(status \in Final) => UNCHANGED <<store, runs>>]_vars

\* No execution stays unfinished in the store, whatever crashed on the way.
Concludes == <>(status \in Final)

\* on_recovery: skip is there for side effects that must not be repeated.
SideEffectOnce ==
    \A n \in Steps : wf.onRecovery[n] = "skip" => runs[n] <= 1

\* An execution that is reported as a success has no step that was left out
\* because of a failure.
SuccessLeavesNothingOut == status = "success" => bypassed = {}
=============================================================================
