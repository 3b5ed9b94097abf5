------------------------------ MODULE StepRun ------------------------------
(***************************************************************************)
(* What the engine does with the steps of executions, from executeNode to  *)
(* the final status: conditions, test mocks, attempts with their timeout   *)
(* and retry delay, error policies, on_error steps, and the actions that   *)
(* use the services the executions share (StepServices) or iterate         *)
(* (LoopAction).                                                           *)
(*                                                                         *)
(* Which step may start when is taken from WorkflowOrder, which the        *)
(* scheduler implements; gotos, crashes and the store are the subjects of  *)
(* DagScheduler and Recovery.  A caller is a step or, for the on_error     *)
(* steps of the workflow, its execution.                                   *)
(***************************************************************************)
EXTENDS StepServices, LoopAction, Sequences

CONSTANT Scenarios  \* the workflows that may run: caller -> its settings
                    \*   exec     : the execution, itself if the caller is one
                    \*   deps     : steps it depends on
                    \*   op       : what its action does, see Ops
                    \*   attempts : retry.max_attempts, 1 without retry
                    \*   timeout, when, valid : BOOLEAN
                    \*   policy   : error_policy
                    \*   onError  : sequence of Ops
                    \*   mock     : "none", "output" or "error"
                    \*   expect   : the status a test expects, or "none"
                    \*   recovery, redis, cancellable : BOOLEAN, of an
                    \*                execution

\* An operation: [id, op, key, name, kind, loop, ttl].  kind is how its call
\* of the outside ends: "sure" (well, unless its context is done), "flaky"
\* (either way) or "hang" (only when its context is done).
OpNames == {"none", "call", "lock", "unlock", "kv.get", "kv.set", "kv.delete",
            "begin", "exec", "commit", "rollback", "loop", "invalid"}

Kinds == {"sure", "flaky", "hang"}

Loops == [items : Nat, stages : 0..(Over - 1), width : Nat, keep : BOOLEAN]

\* Only a statement may do without the name of a transaction.
Ops == {o \in [id : STRING, op : OpNames, key : Keys, name : Names \cup {""},
               kind : Kinds, loop : Loops, ttl : BOOLEAN] :
           o.op \in {"begin", "commit", "rollback"} => o.name # ""}

Settings(callers) ==
    [exec : callers, deps : SUBSET callers, op : Ops, attempts : Nat,
     timeout : BOOLEAN, when : BOOLEAN, valid : BOOLEAN,
     policy : {"stop", "continue", "ignore"}, onError : Seq(Ops),
     mock : {"none", "output", "error"},
     expect : {"none", "success", "failed", "skipped"},
     recovery : BOOLEAN, redis : BOOLEAN, cancellable : BOOLEAN]

\* A step depends on steps of its own workflow.  Bound: no on_error step is a
\* loop.
ASSUME ScenariosAssumption ==
    \A S \in Scenarios :
        /\ S \in [DOMAIN S -> Settings(DOMAIN S)]
        /\ NoOne \notin DOMAIN S /\ IsFiniteSet(DOMAIN S)
        /\ \A c \in DOMAIN S :
              /\ S[S[c].exec].exec = S[c].exec
              /\ \A d \in S[c].deps : S[d].exec = S[c].exec /\ S[d].exec # d
              /\ \A i \in DOMAIN S[c].onError : S[c].onError[i].op # "loop"

\* No on_error step has the id of a step of the workflow, whose result it would
\* overwrite.  Nothing in the code asks for that.
OnErrorIdsOwn ==
    \A S \in Scenarios : \A c, d \in DOMAIN S : \A i \in DOMAIN S[c].onError :
        S[c].onError[i].id # d

VARIABLES
    scn,            \* the scenario
    run,            \* caller -> where executeNode is with it
    steps,          \* id -> status in execCtx.Steps, "none" if absent
    firstErr,       \* execution -> ds.firstErr is set
    cancelled,      \* execution -> its context is done
    status,         \* execution -> "running" or its final status
    seen            \* execution -> value its last kv.get returned

engine == <<scn, run, steps, firstErr, cancelled, status, seen>>
vars   == <<engine, services, iter>>

Callers == DOMAIN scn
Exec(c) == scn[c].exec
Execs   == {Exec(c) : c \in Callers}
Steps   == Callers \ Execs
StepsOf(e) == {s \in Steps : Exec(s) = e}

HandlerIds(c) == {scn[c].onError[i].id : i \in DOMAIN scn[c].onError}
Ids == Steps \cup UNION {HandlerIds(c) : c \in Callers}
IdsOf(e) == StepsOf(e) \cup UNION {HandlerIds(s) : s \in StepsOf(e) \cup {e}}

Idle == [phase |-> "pending", attempt |-> 0, handler |-> 0, expired |-> FALSE,
         err |-> FALSE, log |-> <<>>]

Init ==
    /\ scn \in Scenarios
    /\ run = [c \in Callers |-> Idle]
    /\ steps = [i \in Ids |-> "none"]
    /\ firstErr = [e \in Execs |-> FALSE]
    /\ cancelled = [e \in Execs |-> FALSE]
    /\ status = [e \in Execs |-> "running"]
    /\ seen = [e \in Execs |-> 0]
    /\ iter = [c \in Callers |-> <<>>]
    /\ ServicesInit(Execs, Callers)
-----------------------------------------------------------------------------
\* What a caller is executing: its action, or one of its on_error steps.
Op(c) == IF run[c].handler = 0 THEN scn[c].op
                               ELSE scn[c].onError[run[c].handler]

At(c, phase, op) == run[c].phase = phase /\ Op(c).op = op

\* The context of an attempt ends with its timeout; the on_error steps and
\* the sub-actions of a loop have the context of the execution.
CtxDoneNoTimeout(c) == cancelled[Exec(c)]

CtxDone(c) == cancelled[Exec(c)] \/ (run[c].handler = 0 /\ run[c].expired)

Outcome(kind, over, ok) ==
    \/ kind = "sure" /\ (ok \/ over)
    \/ kind = "flaky"
    \/ kind = "hang" /\ over /\ ~ok

GoTo(c, phase) == run' = [run EXCEPT ![c].phase = phase]

\* The end of executeNode: the result, the last events, the error it
\* returns, which runDAGNode keeps as the first.
End(c, result, events, err) ==
    /\ run' = [run EXCEPT ![c].phase = "done", ![c].err = err,
                          ![c].log = @ \o events]
    /\ steps' = [steps EXCEPT ![c] = result]
    /\ firstErr' = [firstErr EXCEPT ![Exec(c)] = @ \/ err]

\* checkTestExpect, with the output part of an expectation left out.
ExpectFails(c, result) == scn[c].expect \notin {"none", result}

\* recordStepSuccess, then the expectation of the test case.
Succeed(c, events) ==
    End(c, "success", events \o <<"completed">>, ExpectFails(c, "success"))

\* waitForRetry publishes another step.started, then waits.
Backoff(c) ==
    /\ run' = [run EXCEPT ![c].phase = "backoff", ![c].log = Append(@, "started")]
    /\ UNCHANGED <<steps, firstErr>>

Stops(c) == scn[c].policy = "stop"

PolicyForgotten(c) == End(c, "success", <<"failed">>, FALSE)

\* handleIgnoredError.
Ignored(c) == End(c, "success", <<"completed">>, FALSE)

\* handleStepError: the on_error steps run before the policy decides.
Fail(c) ==
    IF scn[c].policy = "ignore" THEN Ignored(c)
    ELSE IF scn[c].onError = <<>> THEN End(c, "failed", <<"failed">>, Stops(c))
    ELSE /\ run' = [run EXCEPT ![c].phase = "call", ![c].handler = 1,
                               ![c].log = Append(@, "failed")]
         /\ steps' = [steps EXCEPT ![c] = "failed"]
         /\ UNCHANGED firstErr

AttemptsLeft(c) == run[c].attempt < scn[c].attempts

\* The end of the loop body in executeWithRetry.
ActionReturned(c, ok) ==
    \/ ok /\ Succeed(c, <<>>)
    \/ ~ok /\ AttemptsLeft(c) /\ Backoff(c)
    \/ ~ok /\ ~AttemptsLeft(c) /\ Fail(c)

\* executeOnError: a step whose config or action is invalid leaves no result.
HandlerReturned(c, ok) ==
    LET h    == run[c].handler
        last == h = Len(scn[c].onError)
        err  == last /\ c \in Steps /\ Stops(c)
    IN  /\ run' = [run EXCEPT ![c].handler = IF last THEN h ELSE h + 1,
                              ![c].phase = IF last THEN "done" ELSE "call",
                              ![c].err = err]
        /\ steps' = IF Op(c).op = "invalid" THEN steps
                    ELSE [steps EXCEPT ![Op(c).id] =
                             IF ok THEN "success" ELSE "failed"]
        /\ firstErr' = [firstErr EXCEPT ![Exec(c)] = @ \/ err]

\* Execute of the current operation returns.
Return(c, ok) ==
    /\ IF run[c].handler = 0 THEN ActionReturned(c, ok) ELSE HandlerReturned(c, ok)
    /\ UNCHANGED <<scn, cancelled, status>>

Elsewhere == UNCHANGED <<scn, steps, firstErr, cancelled, status>>
-----------------------------------------------------------------------------
(* executeNode up to the action *)

Ready(c) ==
    /\ c \in Steps
    /\ run[c].phase = "pending"
    /\ \A d \in scn[c].deps : run[d].phase = "done"

\* dagLoop looks at the first error before it starts a step, not later.
Dispatch(c) ==
    /\ Ready(c) /\ ~firstErr[Exec(c)]
    /\ GoTo(c, "given")
    /\ Elsewhere
    /\ UNCHANGED <<seen, services, iter>>

\* A step that ends before its action is called.
Settle(c, result, events, err) ==
    /\ End(c, result, events, err)
    /\ UNCHANGED <<scn, cancelled, status, seen, services, iter>>

\* skipNode, of the scheduler.
Skip(c) ==
    /\ Ready(c) /\ firstErr[Exec(c)]
    /\ Settle(c, "skipped", <<"skipped">>, FALSE)

Given(c) == run[c].phase = "given"

WhenFalse(c) ==
    Given(c) /\ scn[c].when /\ Settle(c, "skipped", <<"skipped">>, FALSE)

WhenError(c) == Given(c) /\ scn[c].when /\ Settle(c, "none", <<>>, TRUE)

\* applyTestMock: a mocked failure that may be passed over is still checked
\* against the expectation.
Mock(c) ==
    /\ Given(c)
    /\ \/ /\ scn[c].mock = "output"
          /\ Settle(c, "success", <<"completed">>, ExpectFails(c, "success"))
       \/ /\ scn[c].mock = "error"
          /\ Settle(c, "failed", <<"failed">>, Stops(c) \/ ExpectFails(c, "failed"))

\* resolveStepConfig, registry.Create or Validate fails after step.started:
\* the error is returned and no result is recorded.
Reject(c) ==
    /\ Given(c) /\ scn[c].mock = "none" /\ ~scn[c].valid
    /\ Settle(c, "none", <<"started">>, TRUE)

\* The body of the loop over attempts never runs: neither output nor error.
NoAttempt(c) ==
    /\ Given(c) /\ scn[c].mock = "none" /\ scn[c].valid
    /\ scn[c].attempts = 0
    /\ Settle(c, "success", <<"started", "completed">>, ExpectFails(c, "success"))

Attempt(c, events) ==
    /\ run' = [run EXCEPT ![c].phase = "call", ![c].attempt = @ + 1,
                          ![c].expired = FALSE, ![c].log = @ \o events]
    /\ iter' = [iter EXCEPT ![c] = IF scn[c].op.op = "loop"
                                   THEN IterInit(scn[c].op.loop) ELSE <<>>]
    /\ Elsewhere
    /\ UNCHANGED <<seen, services>>

Start(c) ==
    /\ Given(c) /\ scn[c].mock = "none" /\ scn[c].valid
    /\ scn[c].attempts > 0
    /\ Attempt(c, <<"started">>)

\* waitForRetry's select: the delay is over, or the execution's context is
\* done, and then no further attempt is made.
RetryTimer(c) == run[c].phase = "backoff" /\ Attempt(c, <<>>)

RetryCancelled(c) ==
    /\ run[c].phase = "backoff"
    /\ cancelled[Exec(c)]
    /\ Fail(c)
    /\ UNCHANGED <<scn, cancelled, status, seen, services, iter>>
-----------------------------------------------------------------------------
(* Actions that call the outside, and the loop action *)

CallReturns(c, ok) ==
    /\ At(c, "call", "call") /\ Outcome(Op(c).kind, CtxDone(c), ok)
    /\ Return(c, ok)
    /\ UNCHANGED <<seen, services, iter>>

HandlerInvalid(c) ==
    /\ At(c, "call", "invalid")
    /\ Return(c, FALSE)
    /\ UNCHANGED <<seen, services, iter>>

LoopBegins(c, i) ==
    /\ At(c, "call", "loop")
    /\ IterStart(c, Op(c).loop, i)
    /\ UNCHANGED <<engine, services>>

\* newRunAction took the context of the step before applyTimeout replaced it.
LoopStep(c, i, ok) ==
    /\ At(c, "call", "loop")
    /\ Outcome(Op(c).kind, cancelled[Exec(c)], ok)
    /\ IterStep(c, Op(c).loop, i, ok)
    /\ UNCHANGED <<engine, services>>

LoopReturns(c) ==
    /\ At(c, "call", "loop")
    /\ AllEnded(c)
    /\ Return(c, LoopOk(c, Op(c).loop))
    /\ UNCHANGED <<seen, services, iter>>
-----------------------------------------------------------------------------
(* lock, unlock, kv.get, kv.set, kv.delete *)

LockTry(c) ==
    /\ At(c, "call", "lock")
    /\ \/ /\ TakeLock(Op(c).key)
          /\ Return(c, TRUE)
       \/ /\ ~LockFree(Op(c).key)
          /\ GoTo(c, "select")
          /\ Elsewhere
          /\ UNCHANGED lockVars
    /\ UNCHANGED <<seen, kv, poolVars, txVars, iter>>

LockWake(c) ==
    /\ At(c, "select", "lock")
    /\ TakeToken(Op(c).key)
    /\ GoTo(c, "call")
    /\ Elsewhere
    /\ UNCHANGED <<seen, kv, poolVars, txVars, iter>>

\* The lock's own timeout, which always exists, or the context of the step.
LockGivesUp(c) ==
    /\ At(c, "select", "lock")
    /\ Return(c, FALSE)
    /\ UNCHANGED <<seen, services, iter>>

Unlock(c) ==
    /\ At(c, "call", "unlock")
    /\ \/ ReleaseLock(Op(c).key) /\ Return(c, TRUE)
       \/ ~locked[Op(c).key] /\ Return(c, FALSE) /\ UNCHANGED lockVars
    /\ UNCHANGED <<seen, kv, poolVars, txVars, iter>>

KvRead(c) ==
    /\ At(c, "call", "kv.get")
    /\ \E v \in {0, kv[Op(c).key].val} :
          /\ seen' = [seen EXCEPT ![Exec(c)] = v]
          /\ \/ KvGet(Op(c).key, v)
             \/ scn[Exec(c)].redis /\ RedisGetFails(v)
    /\ Return(c, TRUE)
    /\ UNCHANGED <<lockVars, poolVars, txVars, iter>>

\* The value written is one more than the one the execution has read.
KvWrite(c) ==
    /\ At(c, "call", "kv.set")
    /\ \/ KvSet(Op(c).key, seen[Exec(c)] + 1, Op(c).ttl)
       \/ scn[Exec(c)].redis /\ RedisSetFails
    /\ Return(c, TRUE)
    /\ UNCHANGED <<seen, lockVars, poolVars, txVars, iter>>

KvRemove(c) ==
    /\ At(c, "call", "kv.delete")
    /\ \/ KvDelete(Op(c).key) /\ Return(c, TRUE)
       \/ scn[Exec(c)].redis /\ Return(c, FALSE) /\ RedisDeleteFails
    /\ UNCHANGED <<seen, lockVars, poolVars, txVars, iter>>
-----------------------------------------------------------------------------
(* sql.begin, sql.exec, sql.commit, sql.rollback *)

\* name is "" for a statement outside any transaction.
NeedsPool(c) == Op(c).op = "begin" \/ (Op(c).op = "exec" /\ Op(c).name = "")

\* The fast path of DBPool.Get, or a miss there.
PoolLook(c) ==
    /\ run[c].phase = "call" /\ NeedsPool(c)
    /\ PoolReadable
    /\ GoTo(c, IF pool THEN "pooled" ELSE "miss")
    /\ Elsewhere
    /\ UNCHANGED <<seen, services, iter>>

PoolSlow(c) ==
    /\ run[c].phase = "miss"
    /\ PoolOpen(c)
    /\ GoTo(c, IF PoolRecheck THEN "pooled" ELSE "ping")
    /\ Elsewhere
    /\ UNCHANGED <<seen, lockVars, kv, txVars, iter>>

PoolPing(c, ok) ==
    /\ run[c].phase = "ping"
    /\ Outcome(Op(c).kind, CtxDone(c), ok)
    /\ PoolPinged(c, ok)
    /\ IF ok THEN GoTo(c, "pooled") /\ Elsewhere ELSE Return(c, FALSE)
    /\ UNCHANGED <<seen, lockVars, kv, txVars, iter>>

Begin(c) ==
    /\ At(c, "pooled", "begin")
    /\ RegistryFree(Exec(c))
    /\ IF NameTaken(Exec(c), Op(c).name)
       THEN Return(c, FALSE) /\ UNCHANGED txVars
       ELSE GoTo(c, "connect") /\ BeginLocks(c, Exec(c)) /\ Elsewhere
    /\ UNCHANGED <<seen, lockVars, kv, poolVars, iter>>

Connected(c) ==
    /\ run[c].phase = "connect"
    /\ Outcome(Op(c).kind, CtxDone(c), TRUE)
    /\ Began(c, Exec(c), Op(c).name)
    /\ Return(c, TRUE)
    /\ UNCHANGED <<seen, lockVars, kv, poolVars, iter>>

\* Without a context that ends, a caller waits for a connection for ever.
ConnectFails(c) ==
    /\ run[c].phase = "connect"
    /\ CtxDone(c) \/ (ConnFree /\ Outcome(Op(c).kind, CtxDone(c), FALSE))
    /\ BeginFailed(c, Exec(c))
    /\ Return(c, FALSE)
    /\ UNCHANGED <<seen, lockVars, kv, poolVars, iter>>

Usable(t) == t # NoOne /\ t \in Open

\* A statement in a transaction: unknown name, transaction over, or run.
ExecInTx(c, ok) ==
    /\ At(c, "call", "exec") /\ Op(c).name # ""
    /\ RegistryFree(Exec(c))
    /\ LET t == reg[Exec(c)][Op(c).name]
       IN  \/ /\ ~ok
              /\ ~Usable(t) \/ Outcome(Op(c).kind, CtxDone(c), FALSE)
              /\ UNCHANGED txVars
           \/ /\ ok /\ Usable(t)
              /\ Outcome(Op(c).kind, CtxDone(c), TRUE)
              /\ WriteIn(t, c)
    /\ Return(c, ok)
    /\ UNCHANGED <<seen, lockVars, kv, poolVars, iter>>

ExecAlone(c, ok) ==
    /\ At(c, "pooled", "exec")
    /\ CtxDone(c) \/ ConnFree
    /\ Outcome(Op(c).kind, CtxDone(c), ok)
    /\ IF ok THEN WriteAlone(c) ELSE UNCHANGED txVars
    /\ Return(c, ok)
    /\ UNCHANGED <<seen, lockVars, kv, poolVars, iter>>

\* The first half of Commit and Rollback: look up and remove the entry.
TakeTx(c) ==
    /\ run[c].phase = "call" /\ Op(c).op \in {"commit", "rollback"}
    /\ RegistryFree(Exec(c))
    /\ \/ /\ reg[Exec(c)][Op(c).name] = NoOne
          /\ Return(c, FALSE)
          /\ UNCHANGED txVars
       \/ /\ Unregister(c, Exec(c), Op(c).name)
          /\ GoTo(c, "finish")
          /\ Elsewhere
    /\ UNCHANGED <<seen, lockVars, kv, poolVars, iter>>

\* BeginTx was given the context of its step, and applyTimeout's cancel
\* ends that as soon as the step's action has returned.
TxCtxDone(t) == cancelled[Exec(t)] \/ scn[t].timeout

\* What a failed call may have done in the database.
Ends(c) == IF Op(c).op = "commit" THEN {"over", "committed"} ELSE {"over"}

FinishTx(c, ok) ==
    /\ run[c].phase = "finish"
    /\ \/ ok /\ Op(c).op = "commit" /\ ~TxCtxDone(taken[c]) /\ EndTx(c, "committed")
       \/ ok /\ Op(c).op = "rollback" /\ EndTx(c, "over")
       \/ ~ok /\ Op(c).kind = "flaky" /\ \E st \in Ends(c) : EndTx(c, st)
       \/ ~ok /\ (tx[taken[c]].st # "open" \/ TxCtxDone(taken[c]))
              /\ EndTxFails(c)
    /\ Return(c, ok)
    /\ UNCHANGED <<seen, lockVars, kv, poolVars, iter>>

TxAborts(t) ==
    /\ TxCtxDone(t)
    /\ AbortTx(t)
    /\ UNCHANGED <<engine, lockVars, kv, poolVars, iter>>
-----------------------------------------------------------------------------
(* The environment, and the end of Execute *)

Timeout(c) ==
    /\ c \in Steps /\ scn[c].timeout
    /\ run[c].phase \notin {"pending", "given", "backoff", "done"}
    /\ run[c].handler = 0 /\ ~run[c].expired
    /\ run' = [run EXCEPT ![c].expired = TRUE]
    /\ Elsewhere
    /\ UNCHANGED <<seen, services, iter>>

Cancel(e) ==
    /\ scn[e].cancellable /\ ~cancelled[e] /\ status[e] = "running"
    /\ cancelled' = [cancelled EXCEPT ![e] = TRUE]
    /\ UNCHANGED <<scn, run, steps, firstErr, status, seen, services, iter>>

Expire(k) ==
    /\ KvExpire(k)
    /\ UNCHANGED <<engine, lockVars, poolVars, txVars, iter>>

HasFailedSteps(e) == \E i \in IdsOf(e) : steps[i] = "failed"

\* executeDAG has returned: the on_error steps of the workflow, if any.
Handle(e) ==
    /\ run[e].phase = "pending"
    /\ \A s \in StepsOf(e) : run[s].phase = "done"
    /\ run' = [run EXCEPT ![e] =
          IF scn[e].onError # <<>> /\ (firstErr[e] \/ HasFailedSteps(e))
          THEN [@ EXCEPT !.phase = "call", !.handler = 1]
          ELSE [@ EXCEPT !.phase = "done"]]
    /\ Elsewhere
    /\ UNCHANGED <<seen, services, iter>>

\* determineStatus.
FinalStatus(e) ==
    CASE cancelled[e] /\ (scn[e].recovery \/ firstErr[e]) -> "cancelled"
      [] firstErr[e]                                    -> "failed"
      [] HasFailedSteps(e)                              -> "completed_with_errors"
      [] OTHER                                          -> "success"

Finish(e) ==
    /\ run[e].phase = "done" /\ status[e] = "running"
    /\ status' = [status EXCEPT ![e] = FinalStatus(e)]
    /\ UNCHANGED <<scn, run, steps, firstErr, cancelled, seen, services, iter>>

Progress(c) ==
    \/ Dispatch(c) \/ Skip(c) \/ WhenFalse(c) \/ WhenError(c) \/ Mock(c) \/ Reject(c)
    \/ NoAttempt(c) \/ Start(c) \/ RetryTimer(c) \/ RetryCancelled(c)
    \/ HandlerInvalid(c) \/ LoopReturns(c)
    \/ LockTry(c) \/ LockWake(c) \/ LockGivesUp(c) \/ Unlock(c)
    \/ KvRead(c) \/ KvWrite(c) \/ KvRemove(c)
    \/ PoolLook(c) \/ PoolSlow(c) \/ Begin(c) \/ Connected(c) \/ ConnectFails(c)
    \/ TakeTx(c)
    \/ \E ok \in BOOLEAN :
          \/ CallReturns(c, ok) \/ PoolPing(c, ok) \/ ExecInTx(c, ok)
          \/ ExecAlone(c, ok) \/ FinishTx(c, ok)
    \/ \E i \in DOMAIN iter[c] :
          LoopBegins(c, i) \/ \E ok \in BOOLEAN : LoopStep(c, i, ok)

Conclude(e) == Handle(e) \/ Finish(e)

\* What goes on by itself: goroutines, timers, the database's cleanup.
System ==
    \/ \E c \in Callers : Progress(c) \/ Timeout(c) \/ TxAborts(c)
    \/ \E e \in Execs : Conclude(e)

Next ==
    \/ System
    \/ \E e \in Execs : Cancel(e)
    \/ \E k \in Keys : Expire(k)

Spec == Init /\ [][Next]_vars

\* Some goroutine that can run does, timers fire, and calls of kind sure and
\* flaky return.  Nothing is assumed of who goes first.
FairSpec == Spec /\ WF_vars(System)
-----------------------------------------------------------------------------
(* How a workflow may be laid out around a transaction and around a key    *)

OnErrors(S, c) == {S[c].onError[i] : i \in DOMAIN S[c].onError}

\* The steps that are over before c starts: the least set that has those c
\* depends on, and those its own members depend on.
Before(S, c) ==
    LET mine == {d \in DOMAIN S : S[d].exec = S[c].exec}
    IN  {d \in mine : \A X \in SUBSET mine :
            (S[c].deps \subseteq X /\ \A x \in X : S[x].deps \subseteq X)
                => d \in X}

\* A step that either succeeds in what it is for or stops the execution.
Plain(S, c) ==
    /\ S[c].attempts > 0 /\ S[c].policy = "stop" /\ S[c].mock = "none"
    /\ S[c].valid /\ ~S[c].when

EndsName(o, n) == o.op \in {"commit", "rollback"} /\ o.name = n

\* A sql.commit is tried once, and what else ends a transaction of its name is
\* an on_error step that keeps it from running.  Of an action that is mocked
\* or never tried nothing is asked of the database.
CommitsOnce ==
    \A S \in Scenarios : \A c \in DOMAIN S : S[c].op.op = "commit" =>
        /\ S[c].attempts = 1 /\ S[c].mock # "output"
        /\ \A w \in S[c].deps : S[w].op.op = "exec" =>
              S[w].attempts > 0 /\ S[w].mock # "output"
        /\ \A d \in DOMAIN S \ {c, S[c].exec} : S[d].exec = S[c].exec =>
              /\ ~EndsName(S[d].op, S[c].op.name)
              /\ \A o \in OnErrors(S, d) :
                    /\ o.op # "begin"
                    /\ EndsName(o, S[c].op.name) =>
                          d \in Before(S, c) /\ S[d].policy = "stop"

On(S, k, op) == {c \in DOMAIN S : /\ S[c].exec # c
                                  /\ S[c].op.op = op /\ S[c].op.key = k}

\* Steps add one to a key under a lock, and nothing else touches the key.
CountedIn(S, k) ==
    \A s \in DOMAIN S : (S[s].exec # s /\ S[s].op.key = k) =>
        /\ S[s].op.op # "kv.delete" /\ ~S[s].op.ttl /\ ~S[S[s].exec].redis
        /\ S[s].op.op = "kv.set" =>
              \E l \in On(S, k, "lock") : S[l].exec = S[s].exec

UnlocksKey(o, k) == o.op = "unlock" /\ o.key = k

Unlockers(S, k) ==
    {c \in DOMAIN S : \E o \in {S[c].op} \cup OnErrors(S, c) : UnlocksKey(o, k)}

\* If c unlocks at all then because its action failed, and d never runs.
GivesUpBefore(S, k, c, d) ==
    c \in Before(S, d) /\ S[c].policy = "stop" /\ ~UnlocksKey(S[c].op, k)

\* The workflows around a counted key are laid out as lock-unlock.yaml is:
\* one lock, then one read, then one write; every unlock comes after the lock,
\* and after the write or instead of it; only one of them ever runs.
UpdatesLocked ==
    \A S \in Scenarios, k \in Keys : CountedIn(S, k) =>
        /\ \A c \in DOMAIN S : \A o \in OnErrors(S, c) :
              o.op \notin {"lock", "kv.get", "kv.set", "kv.delete"}
        /\ On(S, k, "kv.set") # {} =>
              /\ \A l \in On(S, k, "lock") :
                    /\ Plain(S, l)
                    /\ \A m \in On(S, k, "lock") : S[m].exec = S[l].exec => m = l
              /\ \A s \in On(S, k, "kv.set") :
                    /\ S[s].attempts > 0 /\ S[s].mock # "output"
                    /\ S[s].policy # "ignore"
                    /\ \E g \in On(S, k, "kv.get") \cap Before(S, s) :
                          /\ Plain(S, g)
                          /\ On(S, k, "lock") \cap Before(S, g) # {}
                          /\ \A d \in DOMAIN S \ {g} :
                                S[d].exec = S[s].exec => S[d].op.op # "kv.get"
                    /\ \A t \in On(S, k, "kv.set") : S[t].exec = S[s].exec => t = s
              /\ \A u \in Unlockers(S, k) :
                    /\ S[u].exec # u /\ On(S, k, "lock") \cap Before(S, u) # {}
                    /\ \A i, j \in DOMAIN S[u].onError :
                          UnlocksKey(S[u].onError[i], k) =>
                             /\ ~UnlocksKey(S[u].op, k)
                             /\ UnlocksKey(S[u].onError[j], k) => i = j
                    /\ \A s \in On(S, k, "kv.set") : S[s].exec = S[u].exec =>
                          s \in Before(S, u) \/ GivesUpBefore(S, k, u, s)
                    /\ \A v \in Unlockers(S, k) \ {u} : S[v].exec = S[u].exec =>
                          GivesUpBefore(S, k, u, v) \/ GivesUpBefore(S, k, v, u)
-----------------------------------------------------------------------------
(* Properties *)

Results == {"none", "success", "failed", "skipped"}

Phases == {"pending", "given", "call", "select", "miss", "ping", "pooled", "connect",
           "finish", "backoff", "done"}

Events == {"started", "completed", "failed", "skipped"}

\* Every variable has its type (the values of executeNode's locals, of the
\* result table and of the services).
TypeOK ==
    /\ \A c \in Callers :
          /\ run[c].phase \in Phases
          /\ run[c].attempt \in 0..scn[c].attempts
          /\ run[c].handler \in 0..Len(scn[c].onError)
          /\ {run[c].expired, run[c].err} \subseteq BOOLEAN
          /\ \A i \in DOMAIN run[c].log : run[c].log[i] \in Events
          /\ tx[c].st \in {"none", "open", "committed", "over"}
          /\ tx[c].dirty \subseteq Callers
          /\ taken[c] \in Callers \cup {NoOne}
          /\ \A i \in DOMAIN iter[c] : iter[c][i] \in Nat \cup {Broken}
    /\ steps \in [Ids -> Results]
    /\ firstErr \in [Execs -> BOOLEAN] /\ cancelled \in [Execs -> BOOLEAN]
    /\ seen \in [Execs -> Nat]
    /\ locked \in [Keys -> BOOLEAN] /\ token \in [Keys -> BOOLEAN]
    /\ kv \in [Keys -> [st : {"absent", "live", "expired"}, ttl : BOOLEAN, val : Nat]]
    /\ pool \in BOOLEAN /\ opener \in Callers \cup {NoOne} /\ handles \in Nat
    /\ reg \in [Execs -> [Names -> Callers \cup {NoOne}]]
    /\ busy \in [Execs -> Callers \cup {NoOne}]
    /\ rows \subseteq Callers

EventOf(result) ==
    CASE result = "success" -> "completed"
      [] result = "failed"  -> "failed"
      [] result = "skipped" -> "skipped"

\* Whatever mixture of condition, mock, attempts, timeouts, cancellation and
\* policy a step goes through, viewers are told of its end exactly once and
\* told the result later steps read; a step with neither ends with an error
\* (executeNode, handleStepError, recordStepSuccess).
EventTellsResult ==
    \A s \in Steps : run[s].phase = "done" =>
        LET told == {i \in DOMAIN run[s].log : run[s].log[i] # "started"}
        IN  \/ /\ steps[s] # "none"
               /\ \E i \in told : told = {i} /\ run[s].log[i] = EventOf(steps[s])
            \/ steps[s] = "none" /\ told = {} /\ run[s].err

Acts(s) == steps[s] = "success" /\ scn[s].policy # "ignore"

Counted(k) == CountedIn(scn, k)

\* Executions that lock a key, read it, write one more and unlock it lose no
\* update, though a lock can time out, a step between can fail and unlock,
\* and Unlock does not ask whose lock it is (MemoryLocker).
NoLostUpdate ==
    \A k \in Keys : Counted(k) =>
        kv[k].val = Cardinality({s \in Steps : /\ scn[s].op.op = "kv.set"
                                               /\ scn[s].op.key = k
                                               /\ Acts(s)})

\* A free key is never slept on: while a caller waits in Lock's select for a
\* key nobody holds, the signal is in the channel or another caller is about
\* to try (MemoryLocker.Lock and Unlock, one signal for many waiters).
LockWaiterWoken ==
    \A k \in Keys : \A c \in Callers :
        (~locked[k] /\ At(c, "select", "lock") /\ Op(c).key = k) =>
            \/ token[k]
            \/ \E d \in Callers : At(d, "call", "lock") /\ Op(d).key = k

\* One handle per data source, however many steps ask first at a time: the
\* limit on connections is a limit on the handle (MemoryDBPool.Get).
OneHandle ==
    handles = (IF pool THEN 1 ELSE 0) + (IF opener = NoOne THEN 0 ELSE 1)

\* A sql.commit that succeeds has made durable every statement it depends on
\* that succeeded in its transaction, in spite of parallel begins of the
\* same name, timeouts and cancellation (MemoryTxRegistry, sql.begin).
CommitKeepsAll ==
    \A c \in Steps : (scn[c].op.op = "commit" /\ Acts(c)) =>
        \A w \in scn[c].deps :
            (/\ scn[w].op.op = "exec" /\ scn[w].op.name = scn[c].op.name
             /\ Acts(w)) => w \in rows

\* A loop step that has ended left no iteration behind, and if it succeeded
\* without error_policy continue every stage of every item did
\* (executePipeline, buildLoopOutput).
LoopAnswersForAll ==
    \A s \in Steps : (scn[s].op.op = "loop" /\ run[s].phase = "done") =>
        /\ Running(s) = {}
        /\ Acts(s) /\ ~scn[s].op.loop.keep =>
              \A i \in DOMAIN iter[s] : iter[s][i] = Over

\* Every execution reaches a final status (timeouts, lock waits and retries
\* end; nobody waits for ever on a mutex, a lock or a connection).
AllEnd == \A c \in Callers : c \in Execs => status[c] # "running"

ExecutionsEnd == <>AllEnd
=============================================================================
