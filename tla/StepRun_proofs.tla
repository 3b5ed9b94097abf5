---------------------------- MODULE StepRun_proofs ----------------------------
(***************************************************************************)
(* Proofs about StepRun: its types, what viewers are told of a step, lock  *)
(* waiters, database handles, loops, the order of the steps, transactions  *)
(* and counted keys, for every set of scenarios that ScenariosAssumption   *)
(* allows.                                                                 *)
(***************************************************************************)
EXTENDS StepRun, SequenceTheorems, FiniteSetTheorems, TLAPS

-----------------------------------------------------------------------------
(* The invariants *)

Busy == {"call", "select", "miss", "ping", "pooled", "connect", "finish"}

Runs == [phase : Phases, attempt : Nat, handler : Nat, expired : BOOLEAN,
         err : BOOLEAN, log : Seq(Events)]

\* Where executeNode is, and which attempt and on_error step it is at.
Place(c) ==
    /\ run[c].attempt <= scn[c].attempts
    /\ run[c].handler <= Len(scn[c].onError)
    /\ run[c].phase \in {"pending", "given", "backoff"} => run[c].handler = 0
    /\ run[c].phase \in {"pending", "given"} => run[c].attempt = 0
    /\ run[c].phase = "backoff" => run[c].attempt < scn[c].attempts
    /\ c \in Execs => run[c].phase \in {"pending", "done"} \/ run[c].handler # 0
    /\ run[c].phase \in Busy \ {"call"} => Op(c).op # "loop"

Engine ==
    /\ scn \in Scenarios
    /\ run \in [Callers -> Runs]
    /\ steps \in [Ids -> Results]
    /\ firstErr \in [Execs -> BOOLEAN]
    /\ cancelled \in [Execs -> BOOLEAN]
    /\ \A c \in Callers : Place(c)

-----------------------------------------------------------------------------
(* The scenario *)

LEMMA ScenarioFacts ==
    ASSUME scn \in Scenarios
    PROVE  /\ scn \in [Callers -> Settings(Callers)]
           /\ NoOne \notin Callers
           /\ \A c \in Callers : Exec(c) \in Execs /\ Exec(Exec(c)) = Exec(c)
           /\ Execs \subseteq Callers /\ Steps \subseteq Callers
           /\ Callers = Steps \cup Execs /\ Steps \cap Execs = {}
           /\ Steps \subseteq Ids
<1>1. /\ scn \in [Callers -> Settings(Callers)] /\ NoOne \notin Callers
      /\ \A c \in Callers : Exec(Exec(c)) = Exec(c)
  BY ScenariosAssumption DEF Callers, Exec
<1>2. \A c \in Callers : Exec(c) \in Callers
  BY <1>1 DEF Settings, Exec
<1> QED
  BY <1>1, <1>2 DEF Execs, Steps, Ids

\* The operation a caller is at is one of its own.
LEMMA OpFacts ==
    ASSUME Engine, NEW c \in Callers
    PROVE  /\ Op(c) \in Ops
           /\ scn[c].attempts \in Nat
           /\ Len(scn[c].onError) \in Nat
           /\ run[c].handler # 0 => Op(c).op # "loop" /\ Op(c).id \in Ids
<1>1. scn[c] \in Settings(Callers)
  BY ScenarioFacts DEF Engine
<1>2. scn[c].op \in Ops /\ scn[c].onError \in Seq(Ops) /\ scn[c].attempts \in Nat
  BY <1>1 DEF Settings
<1>3. /\ DOMAIN scn[c].onError = 1..Len(scn[c].onError)
      /\ Len(scn[c].onError) \in Nat
      /\ \A i \in DOMAIN scn[c].onError : scn[c].onError[i] \in Ops
  BY <1>2
<1>4. run[c].handler \in Nat /\ run[c].handler <= Len(scn[c].onError)
  BY DEF Engine, Runs, Place
<1>5. CASE run[c].handler = 0
  BY <1>2, <1>3, <1>5 DEF Op
<1>6. CASE run[c].handler # 0
  <2>1. run[c].handler \in DOMAIN scn[c].onError
    BY <1>3, <1>4, <1>6
  <2>2. Op(c) = scn[c].onError[run[c].handler]
    BY <1>6 DEF Op
  <2>3. Op(c).op # "loop"
    BY <2>1, <2>2, ScenariosAssumption DEF Engine, Callers
  <2>4. Op(c).id \in Ids
    BY <2>1, <2>2 DEF Ids, HandlerIds
  <2> QED
    BY <1>2, <1>3, <2>1, <2>2, <2>3, <2>4
<1> QED
  BY <1>5, <1>6

-----------------------------------------------------------------------------
(* What a step does with one caller *)

\* The last event of a settled step tells its result.
Tells(result, events) ==
    /\ result # "none"
    /\ events \in {<<EventOf(result)>>, <<"started", EventOf(result)>>}

Settled(c) ==
    /\ c \in Steps /\ run[c].phase \in {"pending", "given"}
    /\ \E result \in Results, events \in Seq(Events), err \in BOOLEAN :
          /\ End(c, result, events, err)
          /\ \/ Tells(result, events)
             \/ result = "none" /\ err /\ events \in {<<>>, <<"started">>}
    /\ UNCHANGED iter

Dispatched(c) ==
    /\ c \in Steps /\ run[c].phase = "pending"
    /\ GoTo(c, "given")
    /\ UNCHANGED <<steps, firstErr, iter>>

Begins(c) ==
    /\ c \in Steps /\ run[c].phase \in {"given", "backoff"}
    /\ run[c].attempt < scn[c].attempts
    /\ \E events \in {<<>>, <<"started">>} :
          run' = [run EXCEPT ![c].phase = "call", ![c].attempt = @ + 1,
                             ![c].expired = FALSE, ![c].log = @ \o events]
    /\ iter' = [iter EXCEPT ![c] = IF scn[c].op.op = "loop"
                                   THEN IterInit(scn[c].op.loop) ELSE <<>>]
    /\ UNCHANGED <<steps, firstErr>>

GivesUp(c) ==
    /\ c \in Steps /\ run[c].phase = "backoff"
    /\ Fail(c)
    /\ UNCHANGED iter

Returned(c) ==
    /\ run[c].phase \in Busy
    /\ \E ok \in BOOLEAN :
          /\ Return(c, ok)
          /\ run[c].handler = 0 /\ scn[c].op.op = "loop" =>
                AllEnded(c) /\ ok = LoopOk(c, scn[c].op.loop)
    /\ UNCHANGED iter

GoesOn(c) ==
    /\ run[c].phase \in Busy /\ Op(c).op # "loop"
    /\ \E phase \in Busy :
          /\ GoTo(c, phase)
          /\ phase = "finish" => TakeTx(c)
          /\ phase = "select" => LockTry(c)
    /\ UNCHANGED <<steps, firstErr, iter>>

TimedOut(c) ==
    /\ run' = [run EXCEPT ![c].expired = TRUE]
    /\ UNCHANGED <<steps, firstErr, iter>>

Handled(c) ==
    /\ c \in Execs /\ run[c].phase = "pending"
    /\ \/ /\ scn[c].onError # <<>>
          /\ run' = [run EXCEPT ![c] = [@ EXCEPT !.phase = "call", !.handler = 1]]
       \/ run' = [run EXCEPT ![c] = [@ EXCEPT !.phase = "done"]]
    /\ UNCHANGED <<steps, firstErr, iter>>

Iterates(c) ==
    /\ run[c].phase = "call" /\ run[c].handler = 0 /\ scn[c].op.op = "loop"
    /\ \E i : \/ IterStart(c, scn[c].op.loop, i)
              \/ \E ok \in BOOLEAN : IterStep(c, scn[c].op.loop, i, ok)
    /\ UNCHANGED <<run, steps, firstErr>>

Moves(c) ==
    \/ Settled(c) \/ Dispatched(c) \/ Begins(c) \/ GivesUp(c) \/ Returned(c)
    \/ GoesOn(c) \/ TimedOut(c) \/ Handled(c) \/ Iterates(c)

LEMMA PhaseFacts ==
    ASSUME Engine, NEW c \in Callers
    PROVE  /\ run[c] \in Runs /\ run[c].phase \in Phases
           /\ run[c].phase \in {"given", "backoff"} => c \in Steps
  BY ScenarioFacts DEF Engine, Place, Runs

\* Before the action.
LEMMA SettleMoves ==
    ASSUME Engine, NEW c \in Callers,
           Skip(c) \/ WhenFalse(c) \/ WhenError(c) \/ Mock(c) \/ Reject(c)
           \/ NoAttempt(c)
    PROVE  Settled(c)
<1> USE PhaseFacts
<1>1. ASSUME NEW result \in Results, NEW events \in Seq(Events),
             NEW err \in BOOLEAN, Settle(c, result, events, err),
             c \in Steps, run[c].phase \in {"pending", "given"},
             \/ Tells(result, events)
             \/ result = "none" /\ err /\ events \in {<<>>, <<"started">>}
      PROVE  Settled(c)
  BY <1>1 DEF Settle, Settled
<1>2. /\ \A e \in Events : <<e>> \in Seq(Events)
      /\ \A e, f \in Events : <<e, f>> \in Seq(Events)
      /\ <<>> \in Seq(Events)
  OBVIOUS
<1>3. \A b : (b = ExpectFails(c, "success") \/ b = ExpectFails(c, "failed")
              \/ b = (Stops(c) \/ ExpectFails(c, "failed"))) => b \in BOOLEAN
  BY DEF ExpectFails, Stops
<1>4. CASE Skip(c)
  BY <1>1, <1>2, <1>4 DEF Skip, Ready, Tells, EventOf, Results, Events
<1>5. CASE WhenFalse(c)
  BY <1>1, <1>2, <1>5 DEF WhenFalse, Given, Tells, EventOf, Results, Events
<1>6. CASE WhenError(c)
  BY <1>1, <1>2, <1>6 DEF WhenError, Given, Results, Events
<1>7. CASE Mock(c)
  BY <1>1, <1>2, <1>3, <1>7 DEF Mock, Given, Tells, EventOf, Results, Events
<1>8. CASE Reject(c)
  BY <1>1, <1>2, <1>8 DEF Reject, Given, Results, Events
<1>9. CASE NoAttempt(c)
  BY <1>1, <1>2, <1>3, <1>9 DEF NoAttempt, Given, Tells, EventOf, Results, Events
<1> QED
  BY <1>4, <1>5, <1>6, <1>7, <1>8, <1>9

\* One call is over: by itself, with its lock, its statement and so on.
Returning(c) ==
    \/ HandlerInvalid(c) \/ LoopReturns(c)
    \/ LockTry(c) \/ LockWake(c) \/ LockGivesUp(c) \/ Unlock(c)
    \/ KvRead(c) \/ KvWrite(c) \/ KvRemove(c)
    \/ PoolLook(c) \/ PoolSlow(c) \/ Begin(c) \/ Connected(c) \/ ConnectFails(c)
    \/ TakeTx(c)
    \/ \E ok \in BOOLEAN :
          \/ CallReturns(c, ok) \/ PoolPing(c, ok) \/ ExecInTx(c, ok)
          \/ ExecAlone(c, ok) \/ FinishTx(c, ok)

LEMMA ReturnMoves ==
    ASSUME Engine, NEW c \in Callers, Returning(c)
    PROVE  Returned(c) \/ GoesOn(c)
<1> DEFINE Loops0 == run[c].handler = 0 /\ scn[c].op.op = "loop"
<1>1. ASSUME NEW ok \in BOOLEAN, Return(c, ok), run[c].phase \in Busy,
             UNCHANGED iter,
             Loops0 => AllEnded(c) /\ ok = LoopOk(c, scn[c].op.loop)
      PROVE  Returned(c)
  BY <1>1 DEF Returned
<1>2. ASSUME NEW phase \in Busy, GoTo(c, phase), run[c].phase \in Busy,
             Op(c).op # "loop", Elsewhere, UNCHANGED iter,
             phase = "finish" => TakeTx(c), phase = "select" => LockTry(c)
      PROVE  GoesOn(c)
  BY <1>2 DEF GoesOn, Elsewhere
<1>3. Loops0 => Op(c).op = "loop" /\ Op(c).loop = scn[c].op.loop
  BY DEF Op
<1>4. ASSUME Op(c).op = "loop"
      PROVE  run[c].handler = 0 /\ scn[c].op.op = "loop"
  BY <1>4, OpFacts DEF Op
<1> HIDE DEF Loops0
<1>5. CASE LoopReturns(c)
  <2>1. LoopOk(c, Op(c).loop) \in BOOLEAN
    BY OpFacts DEF LoopOk, Ops, Loops
  <2> QED
    BY <1>1, <1>3, <1>4, <1>5, <2>1 DEF LoopReturns, At, Busy, Loops0
<1>6. CASE HandlerInvalid(c) \/ LockGivesUp(c) \/ Unlock(c) \/ LockTry(c)
           \/ LockWake(c)
  BY <1>1, <1>2, <1>3, <1>6
     DEF HandlerInvalid, LockGivesUp, Unlock, LockTry, LockWake, At, Busy
<1>7. CASE KvRead(c) \/ KvWrite(c) \/ KvRemove(c)
  BY <1>1, <1>3, <1>7 DEF KvRead, KvWrite, KvRemove, At, Busy
<1>8. CASE PoolLook(c)
  BY <1>2, <1>8 DEF PoolLook, NeedsPool, Busy
<1>9. CASE Begin(c)
  BY <1>1, <1>2, <1>3, <1>9 DEF Begin, At, Busy
<1>10. run[c].phase \in Busy \ {"call"} => Op(c).op # "loop"
  BY DEF Engine, Place
<1>11. CASE PoolSlow(c)
  BY <1>2, <1>10, <1>11 DEF PoolSlow, Busy
<1>12. CASE Connected(c) \/ ConnectFails(c)
  BY <1>1, <1>3, <1>10, <1>12 DEF Connected, ConnectFails, Busy
<1>13. CASE TakeTx(c)
  BY <1>1, <1>2, <1>3, <1>13 DEF TakeTx, Busy
<1>14. ASSUME NEW ok \in BOOLEAN, CallReturns(c, ok) \/ ExecInTx(c, ok)
                                  \/ ExecAlone(c, ok)
       PROVE  Returned(c)
  BY <1>1, <1>3, <1>14 DEF CallReturns, ExecInTx, ExecAlone, At, Busy
<1>15. ASSUME NEW ok \in BOOLEAN, PoolPing(c, ok)
       PROVE  Returned(c) \/ GoesOn(c)
  BY <1>1, <1>2, <1>3, <1>10, <1>15 DEF PoolPing, Busy
<1>16. ASSUME NEW ok \in BOOLEAN, FinishTx(c, ok)
       PROVE  Returned(c)
  BY <1>1, <1>3, <1>10, <1>16 DEF FinishTx, Busy
<1> QED
  BY <1>5, <1>6, <1>7, <1>8, <1>9, <1>11, <1>12, <1>13, <1>14, <1>15, <1>16
     DEF Returning

\* The scenario is given, and only Cancel ends the context of an execution.
LEMMA FrameFacts ==
    ASSUME [Next]_vars
    PROVE  /\ UNCHANGED scn
           /\ \/ \E e \in Execs : cancelled' = [cancelled EXCEPT ![e] = TRUE]
              \/ UNCHANGED cancelled
<1>1. ASSUME NEW c, Progress(c)
      PROVE  UNCHANGED <<scn, cancelled>>
  <2>1. CASE Dispatch(c) \/ Start(c) \/ RetryTimer(c) \/ RetryCancelled(c)
    BY <2>1 DEF Dispatch, Start, RetryTimer, RetryCancelled, Attempt, Elsewhere
  <2>2. CASE Skip(c) \/ WhenFalse(c) \/ WhenError(c) \/ Mock(c) \/ Reject(c)
             \/ NoAttempt(c)
    BY <2>2 DEF Skip, WhenFalse, WhenError, Mock, Reject, NoAttempt, Settle
  <2>3. CASE HandlerInvalid(c) \/ LoopReturns(c) \/ LockTry(c) \/ LockWake(c)
             \/ LockGivesUp(c) \/ Unlock(c)
    BY <2>3 DEF HandlerInvalid, LoopReturns, LockTry, LockWake, LockGivesUp,
                Unlock, Return, Elsewhere
  <2>4. CASE KvRead(c) \/ KvWrite(c) \/ KvRemove(c) \/ PoolLook(c)
             \/ PoolSlow(c) \/ Begin(c)
    BY <2>4 DEF KvRead, KvWrite, KvRemove, PoolLook, PoolSlow, Begin, Return,
                Elsewhere
  <2>5. CASE Connected(c) \/ ConnectFails(c) \/ TakeTx(c)
    BY <2>5 DEF Connected, ConnectFails, TakeTx, Return, Elsewhere
  <2>6. ASSUME NEW ok, CallReturns(c, ok) \/ PoolPing(c, ok) \/ ExecInTx(c, ok)
                       \/ ExecAlone(c, ok) \/ FinishTx(c, ok)
        PROVE  UNCHANGED <<scn, cancelled>>
    BY <2>6 DEF CallReturns, PoolPing, ExecInTx, ExecAlone, FinishTx, Return,
                Elsewhere
  <2>7. ASSUME NEW i, NEW ok, LoopBegins(c, i) \/ LoopStep(c, i, ok)
        PROVE  UNCHANGED <<scn, cancelled>>
    BY <2>7 DEF LoopBegins, LoopStep, engine
  <2> QED
    BY <1>1, <2>1, <2>2, <2>3, <2>4, <2>5, <2>6, <2>7 DEF Progress
<1>2. ASSUME NEW c, Timeout(c) \/ TxAborts(c) \/ Conclude(c)
      PROVE  UNCHANGED <<scn, cancelled>>
  BY <1>2 DEF Timeout, TxAborts, Conclude, Handle, Finish, Elsewhere, engine
<1>3. ASSUME NEW e \in Execs, Cancel(e)
      PROVE  UNCHANGED scn /\ cancelled' = [cancelled EXCEPT ![e] = TRUE]
  BY <1>3 DEF Cancel
<1>4. ASSUME NEW k, Expire(k)
      PROVE  UNCHANGED <<scn, cancelled>>
  BY <1>4 DEF Expire, engine
<1>5. UNCHANGED vars => UNCHANGED <<scn, cancelled>>
  BY DEF vars, engine
<1> QED
  BY <1>1, <1>2, <1>3, <1>4, <1>5 DEF Next, System

LEMMA ProgressMoves ==
    ASSUME Engine, NEW c \in Callers, Progress(c)
    PROVE  Moves(c)
<1> USE PhaseFacts
<1>1. CASE Skip(c) \/ WhenFalse(c) \/ WhenError(c) \/ Mock(c) \/ Reject(c)
           \/ NoAttempt(c)
  BY <1>1, SettleMoves DEF Moves
<1>2. CASE Dispatch(c)
  BY <1>2 DEF Moves, Dispatch, Dispatched, Ready, Elsewhere
<1>3. CASE Start(c)
  <2>1. run[c].attempt < scn[c].attempts
    BY <1>3 DEF Start, Given, Engine, Place
  <2> QED
    BY <1>3, <2>1 DEF Moves, Start, Begins, Given, Attempt, Elsewhere
<1>4. CASE RetryTimer(c)
  <2>1. run[c].attempt < scn[c].attempts
    BY <1>4 DEF RetryTimer, Engine, Place
  <2> QED
    BY <1>4, <2>1 DEF Moves, RetryTimer, Begins, Attempt, Elsewhere
<1>5. CASE RetryCancelled(c)
  BY <1>5 DEF Moves, RetryCancelled, GivesUp
<1>6. CASE Returning(c)
  BY <1>6, ReturnMoves DEF Moves
<1>7. ASSUME NEW i \in DOMAIN iter[c], NEW ok \in BOOLEAN,
             LoopBegins(c, i) \/ LoopStep(c, i, ok)
      PROVE  Moves(c)
  <2>1. run[c].phase = "call" /\ Op(c).op = "loop"
    BY <1>7 DEF LoopBegins, LoopStep, At
  <2>2. run[c].handler = 0 /\ Op(c) = scn[c].op
    BY <2>1, OpFacts DEF Op
  <2> QED
    BY <1>7, <2>1, <2>2 DEF Moves, Iterates, LoopBegins, LoopStep, engine
<1> QED
  BY <1>1, <1>2, <1>3, <1>4, <1>5, <1>6, <1>7 DEF Progress, Returning

LEMMA NextMoves ==
    ASSUME Engine, [Next]_vars
    PROVE  \/ \E c \in Callers : Moves(c)
           \/ UNCHANGED <<run, steps, firstErr, iter>>
<1>1. ASSUME NEW c \in Callers, Progress(c)
      PROVE  Moves(c)
  BY <1>1, ProgressMoves
<1>2. ASSUME NEW c \in Callers, Timeout(c)
      PROVE  Moves(c)
  BY <1>2 DEF Moves, Timeout, TimedOut, Elsewhere
<1>3. ASSUME NEW e \in Execs, Handle(e)
      PROVE  Moves(e)
  BY <1>3 DEF Moves, Handle, Handled, Elsewhere
<1>4. ASSUME \/ \E c \in Callers : TxAborts(c)
             \/ \E e \in Execs : Finish(e) \/ Cancel(e)
             \/ \E k \in Keys : Expire(k)
             \/ UNCHANGED vars
      PROVE  UNCHANGED <<run, steps, firstErr, iter>>
  BY <1>4 DEF TxAborts, Finish, Cancel, Expire, engine, vars
<1>5. Execs \subseteq Callers
  BY ScenarioFacts DEF Engine
<1> QED
  BY <1>1, <1>2, <1>3, <1>4, <1>5 DEF Next, System, Conclude

-----------------------------------------------------------------------------
(* How it changes the records of executeNode *)

\* Whose record changes, and that all keep their types.
Typed(c) ==
    /\ run' \in [Callers -> Runs]
    /\ \A d \in Callers \ {c} : run'[d] = run[d]
    /\ steps' \in [Ids -> Results]
    /\ firstErr' \in [Execs -> BOOLEAN]

LEMMA Joined ==
    ASSUME NEW s \in Seq(Events), NEW t \in Seq(Events)
    PROVE  s \o t \in Seq(Events)
  OBVIOUS

LEMMA EndFacts ==
    ASSUME Engine, NEW c \in Callers, NEW result \in Results,
           NEW events \in Seq(Events), NEW err \in BOOLEAN,
           End(c, result, events, err)
    PROVE  /\ Typed(c)
           /\ run'[c].phase = "done" /\ run'[c].err = err
           /\ run'[c].attempt = run[c].attempt /\ run'[c].handler = run[c].handler
           /\ run'[c].log = run[c].log \o events
           /\ steps' = [steps EXCEPT ![c] = result]
<1>1. run[c] \in Runs /\ run[c].log \in Seq(Events)
  BY PhaseFacts DEF Runs
<1>2. run' = [run EXCEPT ![c].phase = "done", ![c].err = err,
                         ![c].log = @ \o events]
  BY DEF End
<1>3. run[c].log \o events \in Seq(Events)
  BY <1>1, Joined
<1> DEFINE r == [run[c] EXCEPT !.phase = "done", !.err = err,
                               !.log = run[c].log \o events]
<1>4. r \in Runs
  BY <1>1, <1>3 DEF Runs, Phases
<1>5. run' = [run EXCEPT ![c] = r]
  BY <1>2 DEF Engine
<1>6. run' \in [Callers -> Runs] /\ \A d \in Callers \ {c} : run'[d] = run[d]
  BY <1>4, <1>5 DEF Engine
<1>7. firstErr' \in [Execs -> BOOLEAN]
  BY DEF End, Engine
<1>8. steps' = [steps EXCEPT ![c] = result] /\ steps' \in [Ids -> Results]
  BY DEF End, Engine
<1>9. run'[c] = r
  BY <1>5 DEF Engine
<1> QED
  BY <1>1, <1>6, <1>7, <1>8, <1>9 DEF Typed, Runs

\* The on_error steps take over.
Failed(c) ==
    /\ run'[c].phase = "call" /\ run'[c].handler = 1
    /\ run'[c].attempt = run[c].attempt
    /\ run'[c].log = Append(run[c].log, "failed")
    /\ steps' = [steps EXCEPT ![c] = "failed"]
    /\ scn[c].onError # <<>>

LEMMA OneEvent ==
    ASSUME NEW e \in Events
    PROVE  <<e>> \in Seq(Events)
  OBVIOUS

LEMMA FailFacts ==
    ASSUME Engine, NEW c \in Callers, Fail(c)
    PROVE  /\ Typed(c)
           /\ \/ /\ \E result \in {"success", "failed"}, err \in BOOLEAN :
                       /\ End(c, result, <<EventOf(result)>>, err)
                       /\ result = "success" => scn[c].policy = "ignore"
              \/ Failed(c)
<1>1. CASE scn[c].policy = "ignore"
  <2>1. End(c, "success", <<"completed">>, FALSE)
    BY <1>1 DEF Fail, Ignored
  <2>2. Typed(c)
    BY <2>1, OneEvent, EndFacts DEF Results, Events
  <2> QED
    BY <1>1, <2>1, <2>2 DEF EventOf
<1>2. CASE scn[c].policy # "ignore" /\ scn[c].onError = <<>>
  <2>1. End(c, "failed", <<"failed">>, Stops(c))
    BY <1>2 DEF Fail
  <2>2. Stops(c) \in BOOLEAN
    BY DEF Stops
  <2>3. Typed(c)
    BY <2>1, <2>2, OneEvent, EndFacts DEF Results, Events
  <2> QED
    BY <2>1, <2>2, <2>3 DEF EventOf
<1>3. CASE scn[c].policy # "ignore" /\ scn[c].onError # <<>>
  <2>1. /\ run' = [run EXCEPT ![c].phase = "call", ![c].handler = 1,
                              ![c].log = Append(@, "failed")]
        /\ steps' = [steps EXCEPT ![c] = "failed"] /\ UNCHANGED firstErr
    BY <1>3 DEF Fail
  <2>2. run[c] \in Runs /\ Append(run[c].log, "failed") \in Seq(Events)
    BY PhaseFacts DEF Runs, Events
  <2> DEFINE r == [run[c] EXCEPT !.phase = "call", !.handler = 1,
                                 !.log = Append(run[c].log, "failed")]
  <2>3. r \in Runs
    BY <2>2 DEF Runs, Phases
  <2>4. run' = [run EXCEPT ![c] = r]
    BY <2>1 DEF Engine
  <2>5. run' \in [Callers -> Runs] /\ run'[c] = r
        /\ \A d \in Callers \ {c} : run'[d] = run[d]
    BY <2>3, <2>4 DEF Engine
  <2>6. steps' \in [Ids -> Results] /\ firstErr' \in [Execs -> BOOLEAN]
    BY <2>1 DEF Engine, Results
  <2> QED
    BY <1>3, <2>1, <2>2, <2>5, <2>6 DEF Typed, Failed, Runs
<1> QED
  BY <1>1, <1>2, <1>3

LEMMA BackoffFacts ==
    ASSUME Engine, NEW c \in Callers, Backoff(c)
    PROVE  /\ Typed(c)
           /\ run'[c].phase = "backoff" /\ run'[c].handler = run[c].handler
           /\ run'[c].attempt = run[c].attempt
           /\ run'[c].log = Append(run[c].log, "started")
           /\ steps' = steps
<1>1. /\ run' = [run EXCEPT ![c].phase = "backoff",
                            ![c].log = Append(@, "started")]
      /\ UNCHANGED <<steps, firstErr>>
  BY DEF Backoff
<1>2. run[c] \in Runs /\ Append(run[c].log, "started") \in Seq(Events)
  BY PhaseFacts DEF Runs, Events
<1> DEFINE r == [run[c] EXCEPT !.phase = "backoff",
                               !.log = Append(run[c].log, "started")]
<1>3. r \in Runs
  BY <1>2 DEF Runs, Phases
<1>4. run' = [run EXCEPT ![c] = r]
  BY <1>1 DEF Engine
<1>5. run' \in [Callers -> Runs] /\ run'[c] = r
      /\ \A d \in Callers \ {c} : run'[d] = run[d]
  BY <1>3, <1>4 DEF Engine
<1> QED
  BY <1>1, <1>2, <1>5 DEF Typed, Runs, Engine

\* One on_error step is over: the next, or the end.
Handed(c) ==
    /\ run[c].handler # 0 /\ run'[c].handler # 0
    /\ run'[c].handler <= Len(scn[c].onError)
    /\ run'[c].phase \in {"done", "call"}
    /\ run'[c].attempt = run[c].attempt /\ run'[c].log = run[c].log
    /\ \/ steps' = steps
       \/ \E result \in Results : steps' = [steps EXCEPT ![Op(c).id] = result]

LEMMA HandlerFacts ==
    ASSUME Engine, NEW c \in Callers, NEW ok \in BOOLEAN,
           run[c].handler # 0, HandlerReturned(c, ok)
    PROVE  Typed(c) /\ Handed(c)
<1> DEFINE h == run[c].handler
           last == h = Len(scn[c].onError)
           err == last /\ c \in Steps /\ Stops(c)
           next == IF last THEN h ELSE h + 1
           phase == IF last THEN "done" ELSE "call"
           r == [run[c] EXCEPT !.handler = next, !.phase = phase, !.err = err]
<1>1. /\ run' = [run EXCEPT ![c].handler = next, ![c].phase = phase,
                            ![c].err = err]
      /\ steps' = IF Op(c).op = "invalid" THEN steps
                  ELSE [steps EXCEPT ![Op(c).id] =
                           IF ok THEN "success" ELSE "failed"]
      /\ firstErr' = [firstErr EXCEPT ![Exec(c)] = @ \/ err]
  BY DEF HandlerReturned
<1>2. run[c] \in Runs /\ h \in Nat /\ h <= Len(scn[c].onError)
      /\ Len(scn[c].onError) \in Nat /\ Op(c).id \in Ids
  BY PhaseFacts, OpFacts DEF Runs, Engine, Place
<1>3. err \in BOOLEAN
  BY DEF Stops
<1>4. next \in Nat /\ next # 0 /\ next <= Len(scn[c].onError)
  BY <1>2
<1>5. phase \in {"done", "call"} /\ phase \in Phases
  BY DEF Phases
<1> HIDE DEF err, next, phase
<1>6. r \in Runs
  BY <1>4, <1>2, <1>3, <1>5 DEF Runs
<1>7. run' = [run EXCEPT ![c] = r]
  BY <1>1 DEF Engine
<1>8. run' \in [Callers -> Runs] /\ run'[c] = r
      /\ \A d \in Callers \ {c} : run'[d] = run[d]
  BY <1>6, <1>7 DEF Engine
<1>9. firstErr' \in [Execs -> BOOLEAN]
  BY <1>1, <1>3 DEF Engine
<1>10. steps' \in [Ids -> Results]
  BY <1>1, <1>2 DEF Engine, Results
<1>11. /\ r.handler = next /\ r.phase = phase
      /\ r.attempt = run[c].attempt /\ r.log = run[c].log
  BY <1>2 DEF Runs
<1>12. r.handler # 0 /\ r.handler <= Len(scn[c].onError)
  BY <1>4, <1>11
<1>13. \/ steps' = steps
       \/ \E result \in Results : steps' = [steps EXCEPT ![Op(c).id] = result]
  BY <1>1 DEF Results
<1> QED
  BY <1>2, <1>8, <1>9, <1>10, <1>11, <1>12, <1>13, <1>5 DEF Typed, Handed

\* The end of an attempt.
Attempted(c, ok) ==
    \/ ok /\ End(c, "success", <<"completed">>, ExpectFails(c, "success"))
    \/ ~ok /\ AttemptsLeft(c) /\ Backoff(c)
    \/ ~ok /\ Fail(c)

LEMMA ReturnedFacts ==
    ASSUME Engine, NEW c \in Callers, Returned(c)
    PROVE  /\ Typed(c)
           /\ \/ run[c].handler # 0 /\ Handed(c)
              \/ /\ run[c].handler = 0 /\ c \in Steps
                 /\ \E ok \in BOOLEAN :
                       /\ Attempted(c, ok)
                       /\ scn[c].op.op = "loop" =>
                             AllEnded(c) /\ ok = LoopOk(c, scn[c].op.loop)
<1>1. PICK ok \in BOOLEAN :
          /\ Return(c, ok)
          /\ run[c].handler = 0 /\ scn[c].op.op = "loop" =>
                AllEnded(c) /\ ok = LoopOk(c, scn[c].op.loop)
  BY DEF Returned
<1>2. CASE run[c].handler # 0
  BY <1>1, <1>2, HandlerFacts DEF Return
<1>3. CASE run[c].handler = 0
  <2>1. Attempted(c, ok)
    BY <1>1, <1>3 DEF Return, ActionReturned, Attempted, Succeed
  <2>2. c \in Steps
    BY <1>3, ScenarioFacts DEF Engine, Place, Returned, Busy
  <2>3. ExpectFails(c, "success") \in BOOLEAN
    BY DEF ExpectFails
  <2>4. Typed(c)
    BY <2>1, <2>3, OneEvent, EndFacts, BackoffFacts, FailFacts
       DEF Attempted, Results, Events
  <2> QED
    BY <1>1, <1>3, <2>1, <2>2, <2>4
<1> QED
  BY <1>2, <1>3

\* The other moves change a few fields.
LEMMA FieldFacts ==
    ASSUME Engine, NEW c \in Callers,
           Dispatched(c) \/ Begins(c) \/ GoesOn(c) \/ TimedOut(c) \/ Handled(c)
    PROVE  Typed(c) /\ steps' = steps
<1>1. run[c] \in Runs
  BY PhaseFacts
<1>2. ASSUME NEW r \in Runs, run' = [run EXCEPT ![c] = r],
             UNCHANGED <<steps, firstErr>>
      PROVE  Typed(c) /\ steps' = steps
  BY <1>2 DEF Typed, Engine
<1>3. CASE Dispatched(c)
  <2>1. run' = [run EXCEPT ![c] = [run[c] EXCEPT !.phase = "given"]]
    BY <1>3 DEF Dispatched, GoTo, Engine
  <2>2. [run[c] EXCEPT !.phase = "given"] \in Runs
    BY <1>1 DEF Runs, Phases
  <2> QED
    BY <1>2, <1>3, <2>1, <2>2 DEF Dispatched
<1>4. CASE Begins(c)
  <2>1. PICK events \in {<<>>, <<"started">>} :
            run' = [run EXCEPT ![c].phase = "call", ![c].attempt = @ + 1,
                               ![c].expired = FALSE, ![c].log = @ \o events]
    BY <1>4 DEF Begins
  <2>2. events \in Seq(Events)
    <3>1. "started" \in Events /\ <<>> \in Seq(Events)
      BY DEF Events
    <3> QED
      BY <3>1, OneEvent
  <2>3. run[c].log \o events \in Seq(Events) /\ run[c].attempt + 1 \in Nat
    BY <1>1, <2>2, Joined DEF Runs
  <2> DEFINE r == [run[c] EXCEPT !.phase = "call", !.attempt = run[c].attempt + 1,
                                 !.expired = FALSE, !.log = run[c].log \o events]
  <2>4. run' = [run EXCEPT ![c] = r]
    BY <2>1 DEF Engine
  <2>5. r \in Runs
    BY <1>1, <2>3 DEF Runs, Phases
  <2> QED
    BY <1>2, <1>4, <2>4, <2>5 DEF Begins
<1>5. CASE GoesOn(c)
  <2>1. PICK phase \in Busy : run' = [run EXCEPT ![c].phase = phase]
    BY <1>5 DEF GoesOn, GoTo
  <2>2. run' = [run EXCEPT ![c] = [run[c] EXCEPT !.phase = phase]]
    BY <2>1 DEF Engine
  <2>3. [run[c] EXCEPT !.phase = phase] \in Runs
    BY <1>1 DEF Runs, Phases, Busy
  <2> QED
    BY <1>2, <1>5, <2>2, <2>3 DEF GoesOn
<1>6. CASE TimedOut(c)
  <2>1. run' = [run EXCEPT ![c] = [run[c] EXCEPT !.expired = TRUE]]
    BY <1>6 DEF TimedOut, Engine
  <2>2. [run[c] EXCEPT !.expired = TRUE] \in Runs
    BY <1>1 DEF Runs
  <2> QED
    BY <1>2, <1>6, <2>1, <2>2 DEF TimedOut
<1>7. CASE Handled(c)
  <2>1. \/ run' = [run EXCEPT ![c] = [run[c] EXCEPT !.phase = "call", !.handler = 1]]
        \/ run' = [run EXCEPT ![c] = [run[c] EXCEPT !.phase = "done"]]
    BY <1>7 DEF Handled
  <2>2. /\ [run[c] EXCEPT !.phase = "call", !.handler = 1] \in Runs
        /\ [run[c] EXCEPT !.phase = "done"] \in Runs
    BY <1>1 DEF Runs, Phases
  <2> QED
    BY <1>2, <1>7, <2>1, <2>2 DEF Handled
<1> QED
  BY <1>3, <1>4, <1>5, <1>6, <1>7

LEMMA MoveTyped ==
    ASSUME Engine, NEW c \in Callers, Moves(c)
    PROVE  Typed(c)
<1>1. CASE Settled(c)
  BY <1>1, EndFacts DEF Settled
<1>2. CASE GivesUp(c)
  BY <1>2, FailFacts DEF GivesUp
<1>3. CASE Returned(c)
  BY <1>3, ReturnedFacts
<1>4. CASE Iterates(c)
  BY <1>4 DEF Iterates, Typed, Engine
<1> QED
  BY <1>1, <1>2, <1>3, <1>4, FieldFacts DEF Moves

\* Where another caller is does not matter.
LEMMA OthersPlace ==
    ASSUME Engine, NEW d \in Callers, run'[d] = run[d], UNCHANGED scn
    PROVE  Place(d)'
<1>1. Place(d) /\ Op(d)' = Op(d) /\ Execs' = Execs
  BY DEF Engine, Op, Execs, Exec, Callers
<1> QED
  BY <1>1 DEF Place

LEMMA MovePlace ==
    ASSUME Engine, NEW c \in Callers, Moves(c), UNCHANGED scn
    PROVE  Place(c)'
<1> DEFINE r == run'[c]
<1>1. /\ Place(c) /\ run[c] \in Runs
      /\ Len(scn[c].onError) \in Nat /\ scn[c].attempts \in Nat
      /\ Execs' = Execs /\ Steps \cap Execs = {}
  BY PhaseFacts, OpFacts, ScenarioFacts DEF Engine, Execs, Exec, Callers
<1>2. /\ run[c].attempt \in Nat /\ run[c].handler \in Nat
      /\ run[c].phase \in Phases
  BY <1>1 DEF Runs
<1>3. ASSUME r.attempt <= scn[c].attempts, r.handler <= Len(scn[c].onError),
             r.phase \in {"done", "call", "backoff"},
             r.phase = "backoff" => r.handler = 0 /\ r.attempt < scn[c].attempts,
             r.phase # "done" => c \in Steps \/ r.handler # 0
      PROVE  Place(c)'
  <2>1. c \in Steps => c \notin Execs
    BY <1>1
  <2> QED
    BY <1>1, <1>3, <2>1 DEF Place, Busy
<1>4. ASSUME r = run[c]
      PROVE  Place(c)'
  BY <1>4, OthersPlace
<1>5. ASSUME NEW result \in Results, NEW events \in Seq(Events), NEW err \in BOOLEAN,
             End(c, result, events, err)
      PROVE  Place(c)'
  BY <1>1, <1>3, <1>5, EndFacts DEF Place
<1>6. ASSUME Fail(c)
      PROVE  Place(c)'
  <2>1. ASSUME Failed(c)
        PROVE  Place(c)'
    <3>1. 1 <= Len(scn[c].onError)
      <4>1. scn[c].onError \in Seq(Ops)
        BY ScenarioFacts DEF Engine, Settings
      <4> QED
        BY <2>1, <4>1 DEF Failed
    <3> QED
      BY <1>1, <1>3, <2>1, <3>1 DEF Failed, Place
  <2>2. \A result \in {"success", "failed"} :
            result \in Results /\ <<EventOf(result)>> \in Seq(Events)
    BY OneEvent DEF Results, EventOf, Events
  <2> QED
    BY <1>5, <1>6, <2>1, <2>2, FailFacts
<1>7. CASE Settled(c)
  BY <1>5, <1>7 DEF Settled
<1>8. CASE GivesUp(c)
  BY <1>6, <1>8 DEF GivesUp
<1>9. CASE Returned(c)
  <2>1. CASE run[c].handler # 0 /\ Handed(c)
    BY <1>1, <1>3, <2>1 DEF Handed, Place
  <2>2. ASSUME c \in Steps, run[c].handler = 0, Backoff(c), AttemptsLeft(c)
        PROVE  Place(c)'
    BY <1>1, <1>3, <2>2, BackoffFacts DEF Place, AttemptsLeft
  <2>3. ExpectFails(c, "success") \in BOOLEAN /\ <<"completed">> \in Seq(Events)
    BY OneEvent DEF ExpectFails, Events
  <2> QED
    BY <1>5, <1>6, <1>9, <2>1, <2>2, <2>3, ReturnedFacts DEF Attempted, Results
<1>10. CASE Dispatched(c)
  <2>1. r = [run[c] EXCEPT !.phase = "given"]
    BY <1>10 DEF Dispatched, GoTo, Engine
  <2>2. /\ r.phase = "given" /\ r.attempt = run[c].attempt
        /\ r.handler = run[c].handler /\ run[c].phase = "pending"
    BY <1>1, <1>10, <2>1 DEF Runs, Dispatched
  <2> QED
    BY <1>1, <1>10, <2>2 DEF Place, Busy, Dispatched
<1>11. CASE Begins(c)
  <2>1. /\ r.phase = "call" /\ r.attempt = run[c].attempt + 1
        /\ r.handler = run[c].handler /\ run[c].attempt < scn[c].attempts
        /\ c \in Steps /\ run[c].handler = 0
    BY <1>1, <1>11 DEF Begins, Engine, Runs, Place
  <2>2. r.attempt <= scn[c].attempts
    BY <1>1, <1>2, <2>1
  <2> QED
    BY <1>1, <1>3, <2>1, <2>2
<1>12. CASE GoesOn(c)
  <2>1. PICK phase \in Busy : r = [run[c] EXCEPT !.phase = phase]
    BY <1>12 DEF GoesOn, GoTo, Engine
  <2>2. /\ r.phase \in Busy /\ r.attempt = run[c].attempt
        /\ r.handler = run[c].handler /\ run[c].phase \in Busy
    BY <1>1, <1>12, <2>1 DEF Runs, GoesOn
  <2>3. Op(c)' = Op(c) /\ Op(c).op # "loop"
    BY <1>12, <2>2 DEF Op, GoesOn
  <2> QED
    BY <1>1, <2>2, <2>3 DEF Place, Busy
<1>13. CASE TimedOut(c)
  <2>1. r = [run[c] EXCEPT !.expired = TRUE]
    BY <1>13 DEF TimedOut, Engine
  <2>2. r.phase = run[c].phase /\ r.attempt = run[c].attempt
        /\ r.handler = run[c].handler
    BY <1>1, <2>1 DEF Runs
  <2>3. Op(c)' = Op(c)
    BY <2>2 DEF Op
  <2> QED
    BY <1>1, <2>2, <2>3 DEF Place
<1>14. CASE Handled(c)
  <2>1. run[c].handler = 0 /\ run[c].attempt = 0
    BY <1>1, <1>14 DEF Handled, Place
  <2>2. \/ /\ r = [run[c] EXCEPT !.phase = "call", !.handler = 1]
           /\ scn[c].onError # <<>>
        \/ r = [run[c] EXCEPT !.phase = "done"]
    BY <1>14 DEF Handled, Engine
  <2>3. /\ r.attempt = 0
        /\ \/ r.phase = "call" /\ r.handler = 1 /\ scn[c].onError # <<>>
           \/ r.phase = "done" /\ r.handler = 0
    BY <1>1, <2>1, <2>2 DEF Runs
  <2>4. scn[c].onError # <<>> => 1 <= Len(scn[c].onError)
    <3>1. scn[c].onError \in Seq(Ops)
      BY ScenarioFacts DEF Engine, Settings
    <3> QED
      BY <3>1
  <2> QED
    BY <1>1, <1>3, <2>3, <2>4
<1>15. CASE Iterates(c)
  BY <1>4, <1>15 DEF Iterates
<1> QED
  BY <1>7, <1>8, <1>9, <1>10, <1>11, <1>12, <1>13, <1>14, <1>15 DEF Moves

LEMMA NextEngine == Engine /\ [Next]_vars => Engine'
<1> SUFFICES ASSUME Engine, [Next]_vars PROVE Engine'
  OBVIOUS
<1>1. UNCHANGED scn
  BY FrameFacts
<1>2. Callers' = Callers /\ Execs' = Execs /\ Ids' = Ids
  BY <1>1 DEF Callers, Execs, Exec, Ids, Steps, HandlerIds
<1>3. cancelled' \in [Execs -> BOOLEAN]
  BY FrameFacts DEF Engine
<1>4. ASSUME NEW c \in Callers, Moves(c)
      PROVE  Engine'
  <2>1. Typed(c) /\ Place(c)'
    BY <1>1, <1>4, MoveTyped, MovePlace
  <2>2. \A d \in Callers : Place(d)'
    BY <1>1, <2>1, OthersPlace DEF Typed
  <2> QED
    BY <1>1, <1>2, <1>3, <2>1, <2>2 DEF Engine, Typed
<1>5. CASE UNCHANGED <<run, steps, firstErr, iter>>
  <2>1. \A d \in Callers : Place(d)'
    BY <1>1, <1>5, OthersPlace
  <2> QED
    BY <1>1, <1>2, <1>3, <1>5, <2>1 DEF Engine
<1> QED
  BY <1>4, <1>5, NextMoves

LEMMA InitEngine == Init => Engine
<1> SUFFICES ASSUME Init PROVE Engine
  OBVIOUS
<1>1. scn \in Scenarios /\ run = [c \in Callers |-> Idle]
  BY DEF Init
<1>2. Idle \in Runs
  BY DEF Idle, Runs, Phases
<1>3. run \in [Callers -> Runs] /\ \A c \in Callers : run[c] = Idle
  BY <1>1, <1>2
<1>4. ASSUME NEW c \in Callers
      PROVE  Place(c)
  <2>1. scn[c].attempts \in Nat /\ Len(scn[c].onError) \in Nat
    <3>1. scn[c].attempts \in Nat /\ scn[c].onError \in Seq(Ops)
      BY <1>1, ScenarioFacts DEF Settings
    <3> QED
      BY <3>1
  <2> QED
    BY <1>3, <2>1 DEF Place, Idle, Busy
<1> QED
  BY <1>1, <1>3, <1>4 DEF Init, Engine, Results

\* Where executeNode is with each step: no attempt beyond those configured, no
\* on_error step before the last attempt is over, and loops only in a step of
\* the workflow.
THEOREM EngineHolds == Spec => []Engine
<1>1. Init => Engine
  BY InitEngine
<1>2. Engine /\ [Next]_vars => Engine'
  BY NextEngine
<1> QED
  BY <1>1, <1>2, PTL DEF Spec

-----------------------------------------------------------------------------
(* What viewers are told *)

Unended(q) == \A i \in DOMAIN q : q[i] = "started"

EndsOnce(q, event) ==
    /\ event # "started"
    /\ \E i \in DOMAIN q : /\ q[i] = event
                           /\ \A j \in DOMAIN q \ {i} : q[j] = "started"

Report(s) ==
    /\ run[s].phase # "done" /\ run[s].handler = 0 => Unended(run[s].log)
    /\ run[s].handler # 0 =>
          steps[s] = "failed" /\ EndsOnce(run[s].log, "failed")
    /\ run[s].phase = "done" =>
          \/ steps[s] # "none" /\ EndsOnce(run[s].log, EventOf(steps[s]))
          \/ steps[s] = "none" /\ Unended(run[s].log) /\ run[s].err

Reported == \A s \in Steps : Report(s)

LEMMA UnendedJoined ==
    ASSUME NEW q \in Seq(Events), NEW r \in Seq(Events), Unended(q), Unended(r)
    PROVE  Unended(q \o r)
  BY DEF Unended

LEMMA EndsAppended ==
    ASSUME NEW q \in Seq(Events), NEW event \in Events, Unended(q),
           event # "started"
    PROVE  EndsOnce(q \o <<event>>, event) /\ EndsOnce(Append(q, event), event)
<1>1. /\ Append(q, event) = q \o <<event>>
      /\ DOMAIN (q \o <<event>>) = 1..(Len(q) + 1) /\ Len(q) \in Nat
      /\ (q \o <<event>>)[Len(q) + 1] = event
      /\ \A j \in 1..Len(q) : (q \o <<event>>)[j] = q[j]
  OBVIOUS
<1>2. \A j \in 1..Len(q) : q[j] = "started"
  BY DEF Unended
<1> QED
  BY <1>1, <1>2 DEF EndsOnce

LEMMA EndsJoined ==
    ASSUME NEW q \in Seq(Events), NEW event \in Events, Unended(q),
           event # "started"
    PROVE  EndsOnce(q \o <<"started", event>>, event)
<1> DEFINE r == q \o <<"started", event>>
<1>1. /\ DOMAIN r = 1..(Len(q) + 2) /\ Len(q) \in Nat
      /\ r[Len(q) + 2] = event /\ r[Len(q) + 1] = "started"
      /\ \A j \in 1..Len(q) : r[j] = q[j]
  BY DEF Events
<1>2. \A j \in 1..Len(q) : q[j] = "started"
  BY DEF Unended
<1> HIDE DEF r
<1> QED
  BY <1>1, <1>2 DEF EndsOnce

LEMMA HandedSteps ==
    ASSUME Engine, OnErrorIdsOwn, NEW c \in Callers, Handed(c)
    PROVE  \A s \in Steps : steps'[s] = steps[s]
<1>1. /\ run[c].handler \in Nat /\ run[c].handler <= Len(scn[c].onError)
      /\ scn[c].onError \in Seq(Ops) /\ run[c].handler # 0
  BY PhaseFacts, ScenarioFacts DEF Engine, Runs, Place, Settings, Handed
<1>2. run[c].handler \in DOMAIN scn[c].onError
  BY <1>1
<1>3. Op(c) = scn[c].onError[run[c].handler]
  BY <1>1 DEF Op
<1>4. \A s \in Steps : Op(c).id # s
  BY <1>2, <1>3, ScenarioFacts DEF OnErrorIdsOwn, Engine, Callers
<1> QED
  BY <1>4, ScenarioFacts DEF Handed, Engine

\* Of a caller that a move leaves alone, nothing is told.
LEMMA OthersReport ==
    ASSUME Engine, Reported, NEW s \in Steps, run'[s] = run[s],
           steps'[s] = steps[s]
    PROVE  Report(s)'
  BY DEF Reported, Report

LEMMA EndReport ==
    ASSUME Engine, Reported, NEW c \in Steps, run[c].handler = 0,
           run[c].phase # "done",
           NEW result \in Results, NEW events \in Seq(Events), NEW err \in BOOLEAN,
           End(c, result, events, err),
           \/ Tells(result, events)
           \/ result = "none" /\ err /\ events \in {<<>>, <<"started">>}
    PROVE  \A s \in Steps : Report(s)'
<1>1. /\ c \in Callers /\ c \in Ids /\ run[c].log \in Seq(Events)
      /\ Steps \subseteq Callers
  BY PhaseFacts, ScenarioFacts DEF Engine, Runs
<1>2. /\ Typed(c) /\ run'[c].phase = "done" /\ run'[c].err = err
      /\ run'[c].handler = 0 /\ run'[c].log = run[c].log \o events
      /\ steps' = [steps EXCEPT ![c] = result]
  BY <1>1, EndFacts
<1>3. steps'[c] = result /\ \A s \in Steps \ {c} : steps'[s] = steps[s]
  BY <1>1, <1>2 DEF Engine
<1>4. Unended(run[c].log)
  BY DEF Reported, Report
<1>5. CASE Tells(result, events)
  <2>1. /\ EventOf(result) \in Events /\ EventOf(result) # "started"
        /\ result # "none"
    BY <1>5 DEF Tells, EventOf, Results, Events
  <2>2. EndsOnce(run'[c].log, EventOf(result))
    BY <1>1, <1>2, <1>4, <1>5, <2>1, EndsAppended, EndsJoined DEF Tells
  <2>3. Report(c)'
    BY <1>2, <1>3, <2>1, <2>2 DEF Report
  <2> QED
    BY <1>1, <1>2, <1>3, <2>3, OthersReport DEF Typed
<1>6. CASE result = "none" /\ err /\ events \in {<<>>, <<"started">>}
  <2>1. Unended(events)
    BY <1>6 DEF Unended
  <2>2. Unended(run'[c].log)
    BY <1>1, <1>2, <1>4, <2>1, UnendedJoined
  <2>3. Report(c)'
    BY <1>2, <1>3, <1>6, <2>2 DEF Report
  <2> QED
    BY <1>1, <1>2, <1>3, <2>3, OthersReport DEF Typed
<1> QED
  BY <1>5, <1>6

LEMMA FailReport ==
    ASSUME Engine, Reported, NEW c \in Steps, run[c].handler = 0,
           run[c].phase # "done", Fail(c)
    PROVE  \A s \in Steps : Report(s)'
<1>1. /\ c \in Callers /\ c \in Ids /\ run[c].log \in Seq(Events)
      /\ Steps \subseteq Callers
  BY PhaseFacts, ScenarioFacts DEF Engine, Runs
<1>2. ASSUME NEW result \in {"success", "failed"}, NEW err \in BOOLEAN,
             End(c, result, <<EventOf(result)>>, err)
      PROVE  \A s \in Steps : Report(s)'
  <2>1. result \in Results /\ EventOf(result) \in Events
        /\ Tells(result, <<EventOf(result)>>)
    BY DEF Results, EventOf, Events, Tells
  <2> QED
    BY <1>2, <2>1, OneEvent, EndReport
<1>3. CASE Typed(c) /\ Failed(c)
  <2>1. Unended(run[c].log)
    BY DEF Reported, Report
  <2>2. EndsOnce(run'[c].log, "failed")
    BY <1>1, <1>3, <2>1, EndsAppended DEF Failed, Events
  <2>3. steps'[c] = "failed" /\ \A s \in Steps \ {c} : steps'[s] = steps[s]
    BY <1>1, <1>3 DEF Failed, Engine
  <2>4. Report(c)'
    BY <1>3, <2>2, <2>3 DEF Report, Failed
  <2> QED
    BY <1>1, <1>3, <2>3, <2>4, OthersReport DEF Typed
<1> QED
  BY <1>1, <1>2, <1>3, FailFacts

LEMMA MoveReport ==
    ASSUME Engine, OnErrorIdsOwn, Reported, NEW c \in Callers, Moves(c)
    PROVE  \A s \in Steps : Report(s)'
<1>1. /\ run[c] \in Runs /\ run[c].log \in Seq(Events) /\ Steps \subseteq Callers
      /\ Typed(c) /\ Place(c)
  BY PhaseFacts, ScenarioFacts, MoveTyped DEF Engine, Runs
<1>2. ASSUME steps' = steps, c \in Steps => Report(c)'
      PROVE  \A s \in Steps : Report(s)'
  BY <1>1, <1>2, OthersReport DEF Typed
<1>3. CASE Settled(c)
  BY <1>1, <1>3, EndReport DEF Settled, Place
<1>4. CASE GivesUp(c)
  BY <1>1, <1>4, FailReport DEF GivesUp, Place
<1>5. CASE Returned(c)
  <2>1. CASE run[c].handler # 0 /\ Handed(c)
    <3>1. \A s \in Steps : steps'[s] = steps[s]
      BY <2>1, HandedSteps
    <3>2. ASSUME c \in Steps
          PROVE  Report(c)'
      <4>1. steps[c] = "failed" /\ EndsOnce(run[c].log, "failed")
        BY <2>1, <3>2 DEF Reported, Report
      <4>2. EventOf("failed") = "failed"
        BY DEF EventOf
      <4> QED
        BY <2>1, <3>1, <3>2, <4>1, <4>2 DEF Report, Handed
    <3> QED
      BY <1>1, <3>1, <3>2, OthersReport DEF Typed
  <2>2. ASSUME c \in Steps, run[c].handler = 0, Backoff(c)
        PROVE  \A s \in Steps : Report(s)'
    <3>1. /\ run'[c].phase = "backoff" /\ run'[c].handler = 0 /\ steps' = steps
          /\ run'[c].log = run[c].log \o <<"started">>
      BY <1>1, <2>2, BackoffFacts
    <3>2. Unended(run[c].log)
      BY <1>5, <2>2 DEF Reported, Report, Returned, Busy
    <3>3. <<"started">> \in Seq(Events) /\ Unended(<<"started">>)
      BY OneEvent DEF Unended, Events
    <3>4. Unended(run'[c].log)
      BY <1>1, <3>1, <3>2, <3>3, UnendedJoined
    <3> QED
      BY <1>2, <3>1, <3>4 DEF Report
  <2>3. ASSUME c \in Steps, run[c].handler = 0,
               End(c, "success", <<"completed">>, ExpectFails(c, "success"))
        PROVE  \A s \in Steps : Report(s)'
    <3>1. /\ ExpectFails(c, "success") \in BOOLEAN /\ "success" \in Results
          /\ <<"completed">> \in Seq(Events) /\ Tells("success", <<"completed">>)
      BY OneEvent DEF ExpectFails, Results, Events, Tells, EventOf
    <3>2. run[c].phase # "done"
      BY <1>5 DEF Returned, Busy
    <3> QED
      BY <2>3, <3>1, <3>2, EndReport
  <2>4. ASSUME c \in Steps, run[c].handler = 0, Fail(c)
        PROVE  \A s \in Steps : Report(s)'
    BY <1>5, <2>4, FailReport DEF Returned, Busy
  <2> QED
    BY <1>5, <2>1, <2>2, <2>3, <2>4, ReturnedFacts DEF Attempted
<1>6. CASE Dispatched(c) \/ GoesOn(c) \/ TimedOut(c)
  <2>1. /\ run'[c].log = run[c].log /\ run'[c].handler = run[c].handler
        /\ run'[c].err = run[c].err /\ steps' = steps
        /\ run'[c].phase = "done" <=> run[c].phase = "done"
    BY <1>1, <1>6 DEF Dispatched, GoesOn, TimedOut, GoTo, Engine, Runs, Busy
  <2> QED
    BY <1>2, <2>1 DEF Reported, Report
<1>7. CASE Begins(c)
  <2>1. PICK events \in {<<>>, <<"started">>} :
            /\ run'[c].log = run[c].log \o events
            /\ run'[c].phase = "call" /\ run'[c].handler = run[c].handler
    BY <1>1, <1>7 DEF Begins, Engine, Runs
  <2>2. /\ run[c].handler = 0 /\ c \in Steps /\ run[c].phase # "done"
        /\ steps' = steps
    BY <1>1, <1>7 DEF Begins, Place
  <2>3. events \in Seq(Events) /\ Unended(events)
    <3>1. "started" \in Events /\ <<>> \in Seq(Events)
      BY DEF Events
    <3>2. Unended(<<>>) /\ Unended(<<"started">>)
      BY DEF Unended
    <3> QED
      BY <3>1, <3>2, OneEvent
  <2>4. Unended(run'[c].log)
    BY <1>1, <2>1, <2>2, <2>3, UnendedJoined DEF Reported, Report
  <2> QED
    BY <1>2, <2>1, <2>2, <2>4 DEF Report
<1>8. CASE Handled(c)
  <2>1. c \notin Steps /\ steps' = steps
    BY <1>8 DEF Handled, Steps
  <2> QED
    BY <1>2, <2>1
<1>9. CASE Iterates(c)
  BY <1>2, <1>9 DEF Iterates, Reported, Report
<1> QED
  BY <1>3, <1>4, <1>5, <1>6, <1>7, <1>8, <1>9 DEF Moves

\* A step's result is its own to change.
LEMMA MoveSteps ==
    ASSUME Engine, OnErrorIdsOwn, NEW c \in Callers, Moves(c),
           NEW s \in Steps, s # c
    PROVE  steps'[s] = steps[s]
<1>1. s \in Ids
  BY ScenarioFacts DEF Engine
<1>2. ASSUME NEW result \in Results, NEW events, NEW err,
             End(c, result, events, err)
      PROVE  steps'[s] = steps[s]
  BY <1>1, <1>2 DEF End, Engine
<1>3. ASSUME Fail(c)
      PROVE  steps'[s] = steps[s]
  BY <1>1, <1>3 DEF Fail, Ignored, End, Engine
<1>4. CASE Settled(c)
  BY <1>2, <1>4 DEF Settled
<1>5. CASE GivesUp(c)
  BY <1>3, <1>5 DEF GivesUp
<1>6. CASE Returned(c)
  BY <1>2, <1>3, <1>6, ReturnedFacts, HandedSteps DEF Attempted, Backoff, Results
<1>7. CASE Iterates(c)
  BY <1>7 DEF Iterates
<1> QED
  BY <1>4, <1>5, <1>6, <1>7, FieldFacts DEF Moves

LEMMA NextReported ==
    ASSUME OnErrorIdsOwn, Engine, Reported, [Next]_vars
    PROVE  Reported'
<1>1. Steps' = Steps
  BY FrameFacts DEF Steps, Callers, Execs, Exec
<1>2. CASE UNCHANGED <<run, steps, firstErr, iter>>
  BY <1>1, <1>2 DEF Reported, Report
<1> QED
  BY <1>1, <1>2, NextMoves, MoveReport DEF Reported

LEMMA InitReported == Init => Reported
<1> SUFFICES ASSUME Init, NEW s \in Steps PROVE Report(s)
  BY DEF Reported
<1>1. run[s] = Idle
  BY InitEngine, ScenarioFacts DEF Init, Engine
<1> QED
  BY <1>1 DEF Report, Idle, Unended

\* The inductive invariant of what viewers are told: no end of a step before
\* its result is recorded, and then the one event that fits it
\* (recordStepSuccess, handleStepError).
THEOREM ReportedHolds == ASSUME OnErrorIdsOwn PROVE Spec => []Reported
<1>1. Init => Reported
  BY InitReported
<1>2. Engine /\ Reported /\ [Next]_vars => Reported'
  BY NextReported
<1> QED
  BY <1>1, <1>2, EngineHolds, PTL DEF Spec

\* Whatever a step goes through, viewers are told of its end exactly once and
\* told the result that later steps read (executeNode, handleStepError,
\* recordStepSuccess).
THEOREM EventTellsResultHolds == ASSUME OnErrorIdsOwn PROVE Spec => []EventTellsResult
<1>1. Reported => EventTellsResult
  <2> SUFFICES ASSUME Reported, NEW s \in Steps, run[s].phase = "done"
               PROVE  LET told == {i \in DOMAIN run[s].log :
                                       run[s].log[i] # "started"}
                      IN  \/ /\ steps[s] # "none"
                             /\ \E i \in told :
                                   /\ told = {i}
                                   /\ run[s].log[i] = EventOf(steps[s])
                          \/ steps[s] = "none" /\ told = {} /\ run[s].err
    BY DEF EventTellsResult
  <2> QED
    BY DEF Reported, Report, EndsOnce, Unended
<1> QED
  BY <1>1, ReportedHolds, PTL

-----------------------------------------------------------------------------
(* The services *)

LEMMA FailPhase ==
    ASSUME Engine, NEW c \in Callers, Fail(c)
    PROVE  run'[c].phase \in {"done", "call"}
<1>1. ASSUME NEW result \in {"success", "failed"}, NEW err \in BOOLEAN,
             End(c, result, <<EventOf(result)>>, err)
      PROVE  run'[c].phase = "done"
  <2>1. result \in Results /\ EventOf(result) \in Events
    BY DEF Results, EventOf, Events
  <2> QED
    BY <1>1, <2>1, OneEvent, EndFacts
<1>2. CASE Failed(c)
  BY <1>2 DEF Failed
<1> QED
  BY <1>1, <1>2, FailFacts

LEMMA ReturnPhase ==
    ASSUME Engine, NEW c \in Callers, NEW ok \in BOOLEAN, Return(c, ok)
    PROVE  run'[c].phase \in {"done", "call", "backoff"}
<1>1. ASSUME End(c, "success", <<"completed">>, ExpectFails(c, "success"))
      PROVE  run'[c].phase = "done"
  <2>1. PICK err \in BOOLEAN : err = ExpectFails(c, "success")
    BY DEF ExpectFails
  <2>2. PICK events \in Seq(Events) : events = <<"completed">>
    BY OneEvent DEF Events
  <2>3. PICK result \in Results : result = "success"
    BY DEF Results
  <2>4. End(c, result, events, err)
    BY <1>1, <2>1, <2>2, <2>3
  <2> QED
    BY <2>4, EndFacts
<1>2. CASE run[c].handler = 0
  BY <1>1, <1>2, FailPhase, BackoffFacts DEF Return, ActionReturned, Succeed
<1>3. CASE run[c].handler # 0
  BY <1>3, HandlerFacts DEF Return, Handed
<1> QED
  BY <1>2, <1>3

\* Waiting for a signal and having a transaction in hand have one beginning.
LEMMA PhaseMoves ==
    ASSUME Engine, [Next]_vars, NEW d \in Callers
    PROVE  /\ run'[d].phase = "finish" => run[d].phase = "finish" \/ TakeTx(d)
           /\ run'[d].phase = "select" =>
                 \/ run[d].phase = "select" /\ run'[d].handler = run[d].handler
                 \/ LockTry(d)
<1>1. ASSUME NEW c \in Callers, Moves(c), c # d
      PROVE  run'[d] = run[d]
  BY <1>1, MoveTyped DEF Typed
<1>2. CASE Moves(d)
  <2>1. CASE Settled(d)
    BY <2>1, EndFacts DEF Settled
  <2>2. CASE GivesUp(d)
    BY <2>2, FailPhase DEF GivesUp
  <2>3. CASE Returned(d)
    BY <2>3, ReturnPhase DEF Returned
  <2>4. CASE GoesOn(d)
    <3>1. PICK phase \in Busy : /\ GoTo(d, phase)
                                /\ phase = "finish" => TakeTx(d)
                                /\ phase = "select" => LockTry(d)
      BY <2>4 DEF GoesOn
    <3>2. run'[d].phase = phase
      BY <3>1, PhaseFacts DEF GoTo, Engine, Runs
    <3> QED
      BY <3>1, <3>2
  <2>5. CASE Dispatched(d) \/ Begins(d) \/ TimedOut(d) \/ Iterates(d)
    BY <2>5, PhaseFacts
       DEF Dispatched, Begins, TimedOut, Iterates, GoTo, Engine, Runs
  <2>6. CASE Handled(d)
    BY <2>6, PhaseFacts DEF Handled, Engine, Runs
  <2> QED
    BY <1>2, <2>1, <2>2, <2>3, <2>4, <2>5, <2>6 DEF Moves
<1> QED
  BY <1>1, <1>2, NextMoves

\* A pool that opens a handle has none yet.
OnePool ==
    /\ pool \in BOOLEAN /\ opener \in Callers \cup {NoOne} /\ handles \in Nat
    /\ opener # NoOne => ~pool
    /\ OneHandle

LEMMA PoolMoves ==
    ASSUME [Next]_vars
    PROVE  \/ \E c \in Callers : \/ PoolOpen(c)
                                 \/ \E ok \in BOOLEAN : PoolPinged(c, ok)
           \/ UNCHANGED poolVars
<1>1. ASSUME NEW c, Progress(c)
      PROVE  \/ PoolOpen(c) \/ \E ok \in BOOLEAN : PoolPinged(c, ok)
             \/ UNCHANGED poolVars
  <2>1. CASE Dispatch(c) \/ Start(c) \/ RetryTimer(c) \/ RetryCancelled(c)
    BY <2>1 DEF Dispatch, Start, RetryTimer, RetryCancelled, Attempt, services
  <2>2. CASE Skip(c) \/ WhenFalse(c) \/ WhenError(c) \/ Mock(c) \/ Reject(c)
             \/ NoAttempt(c)
    BY <2>2 DEF Skip, WhenFalse, WhenError, Mock, Reject, NoAttempt, Settle,
                services
  <2>3. CASE HandlerInvalid(c) \/ LoopReturns(c) \/ LockTry(c) \/ LockWake(c)
             \/ LockGivesUp(c) \/ Unlock(c)
    BY <2>3 DEF HandlerInvalid, LoopReturns, LockTry, LockWake, LockGivesUp,
                Unlock, services
  <2>4. CASE KvRead(c) \/ KvWrite(c) \/ KvRemove(c) \/ PoolLook(c)
             \/ PoolSlow(c) \/ Begin(c)
    BY <2>4 DEF KvRead, KvWrite, KvRemove, PoolLook, PoolSlow, Begin, services
  <2>5. CASE Connected(c) \/ ConnectFails(c) \/ TakeTx(c)
    BY <2>5 DEF Connected, ConnectFails, TakeTx
  <2>6. ASSUME NEW ok \in BOOLEAN,
               CallReturns(c, ok) \/ PoolPing(c, ok) \/ ExecInTx(c, ok)
               \/ ExecAlone(c, ok) \/ FinishTx(c, ok)
        PROVE  PoolPinged(c, ok) \/ UNCHANGED poolVars
    BY <2>6 DEF CallReturns, PoolPing, ExecInTx, ExecAlone, FinishTx, services
  <2>7. ASSUME NEW i, NEW ok, LoopBegins(c, i) \/ LoopStep(c, i, ok)
        PROVE  UNCHANGED poolVars
    BY <2>7 DEF LoopBegins, LoopStep, services
  <2> QED
    BY <1>1, <2>1, <2>2, <2>3, <2>4, <2>5, <2>6, <2>7 DEF Progress
<1>2. ASSUME NEW c, Timeout(c) \/ TxAborts(c) \/ Conclude(c) \/ Cancel(c)
                    \/ Expire(c) \/ UNCHANGED vars
      PROVE  UNCHANGED poolVars
  BY <1>2 DEF Timeout, TxAborts, Conclude, Handle, Finish, Cancel, Expire,
              services, vars
<1> QED
  BY <1>1, <1>2 DEF Next, System

LEMMA NextOnePool ==
    ASSUME Engine, OnePool, [Next]_vars
    PROVE  OnePool'
<1>1. NoOne \notin Callers /\ Callers' = Callers
  BY ScenarioFacts, FrameFacts DEF Engine, Callers
<1>2. CASE UNCHANGED poolVars
  BY <1>1, <1>2 DEF OnePool, OneHandle, poolVars
<1>3. ASSUME NEW c \in Callers, PoolOpen(c)
      PROVE  OnePool'
  BY <1>1, <1>2, <1>3 DEF OnePool, OneHandle, PoolOpen, PoolRecheck
<1>4. ASSUME NEW c \in Callers, NEW ok \in BOOLEAN, PoolPinged(c, ok)
      PROVE  OnePool'
  BY <1>1, <1>4 DEF OnePool, OneHandle, PoolPinged
<1> QED
  BY <1>2, <1>3, <1>4, PoolMoves

\* The inductive invariant of MemoryDBPool.Get: only the caller that opens has a
\* handle beside the one of the pool.
THEOREM OnePoolHolds == Spec => []OnePool
<1>1. Init => OnePool
  <2> SUFFICES ASSUME Init PROVE OnePool
    OBVIOUS
  <2>1. pool = FALSE /\ opener = NoOne /\ handles = 0
    BY DEF Init, ServicesInit
  <2>2. ~pool /\ pool \in BOOLEAN
    BY <2>1
  <2>3. handles = (IF pool THEN 1 ELSE 0) + (IF opener = NoOne THEN 0 ELSE 1)
    BY <2>1, <2>2
  <2> QED
    BY <2>1, <2>2, <2>3 DEF OnePool, OneHandle
<1>2. Engine /\ OnePool /\ [Next]_vars => OnePool'
  BY NextOnePool
<1> QED
  BY <1>1, <1>2, EngineHolds, PTL DEF Spec

\* One handle per data source, however many steps ask first at a time
\* (MemoryDBPool.Get).
THEOREM OneHandleHolds == Spec => []OneHandle
<1>1. OnePool => OneHandle
  BY DEF OnePool
<1> QED
  BY <1>1, OnePoolHolds, PTL

-----------------------------------------------------------------------------
(* Transactions *)

TxStates == {"none", "open", "committed", "over"}

\* A commit or rollback between its two halves has a transaction in hand.
Registered ==
    /\ reg \in [Execs -> [Names -> Callers \cup {NoOne}]]
    /\ busy \in [Execs -> Callers \cup {NoOne}]
    /\ tx \in [Callers -> [st : TxStates, dirty : SUBSET Callers]]
    /\ taken \in [Callers -> Callers \cup {NoOne}]
    /\ rows \subseteq Callers
    /\ \A c \in Callers : run[c].phase = "finish" => taken[c] # NoOne

TxMoves(c) ==
    \/ BeginLocks(c, Exec(c))
    \/ Began(c, Exec(c), Op(c).name)
    \/ BeginFailed(c, Exec(c))
    \/ \E t : WriteIn(t, c)
    \/ WriteAlone(c)
    \/ Op(c).op \in {"commit", "rollback"} /\ Unregister(c, Exec(c), Op(c).name)
    \/ /\ run[c].phase = "finish" /\ run'[c].phase # "finish"
       /\ EndTxFails(c) \/ \E st \in {"over", "committed"} : EndTx(c, st)
    \/ AbortTx(c)

LEMMA NextTxMoves ==
    ASSUME Engine, [Next]_vars
    PROVE  (\E c \in Callers : TxMoves(c)) \/ UNCHANGED txVars
<1>1. ASSUME NEW c \in Callers, Progress(c)
      PROVE  TxMoves(c) \/ UNCHANGED txVars
  <2>1. CASE Dispatch(c) \/ Start(c) \/ RetryTimer(c) \/ RetryCancelled(c)
    BY <2>1 DEF Dispatch, Start, RetryTimer, RetryCancelled, Attempt, services
  <2>2. CASE Skip(c) \/ WhenFalse(c) \/ WhenError(c) \/ Mock(c) \/ Reject(c)
             \/ NoAttempt(c)
    BY <2>2 DEF Skip, WhenFalse, WhenError, Mock, Reject, NoAttempt, Settle,
                services
  <2>3. CASE HandlerInvalid(c) \/ LoopReturns(c) \/ LockTry(c) \/ LockWake(c)
             \/ LockGivesUp(c) \/ Unlock(c)
    BY <2>3 DEF HandlerInvalid, LoopReturns, LockTry, LockWake, LockGivesUp,
                Unlock, services
  <2>4. CASE KvRead(c) \/ KvWrite(c) \/ KvRemove(c) \/ PoolLook(c)
             \/ PoolSlow(c) \/ Begin(c)
    BY <2>4 DEF KvRead, KvWrite, KvRemove, PoolLook, PoolSlow, Begin, services,
                TxMoves
  <2>5. CASE Connected(c) \/ ConnectFails(c) \/ TakeTx(c)
    BY <2>5 DEF Connected, ConnectFails, TakeTx, TxMoves
  <2>6. ASSUME NEW ok \in BOOLEAN,
               CallReturns(c, ok) \/ PoolPing(c, ok) \/ ExecInTx(c, ok)
               \/ ExecAlone(c, ok)
        PROVE  TxMoves(c) \/ UNCHANGED txVars
    BY <2>6 DEF CallReturns, PoolPing, ExecInTx, ExecAlone, services, TxMoves
  <2>7. ASSUME NEW ok \in BOOLEAN, FinishTx(c, ok)
        PROVE  TxMoves(c)
    <3>1. run[c].phase = "finish" /\ Return(c, ok)
      BY <2>7 DEF FinishTx
    <3>2. run'[c].phase # "finish"
      BY <3>1, ReturnPhase
    <3> QED
      BY <2>7, <3>1, <3>2 DEF FinishTx, Ends, TxMoves
  <2>8. ASSUME NEW i, NEW ok, LoopBegins(c, i) \/ LoopStep(c, i, ok)
        PROVE  UNCHANGED txVars
    BY <2>8 DEF LoopBegins, LoopStep, services
  <2> QED
    BY <1>1, <2>1, <2>2, <2>3, <2>4, <2>5, <2>6, <2>7, <2>8 DEF Progress
<1>2. ASSUME NEW c \in Callers, TxAborts(c)
      PROVE  TxMoves(c)
  BY <1>2 DEF TxAborts, TxMoves
<1>3. ASSUME NEW c, Timeout(c) \/ Conclude(c) \/ Cancel(c) \/ Expire(c)
                    \/ UNCHANGED vars
      PROVE  UNCHANGED txVars
  BY <1>3 DEF Timeout, Conclude, Handle, Finish, Cancel, Expire, services, vars
<1> QED
  BY <1>1, <1>2, <1>3 DEF Next, System

LEMMA MoveTx ==
    ASSUME Engine, Registered, NEW c \in Callers, TxMoves(c)
    PROVE  /\ reg' \in [Execs -> [Names -> Callers \cup {NoOne}]]
           /\ busy' \in [Execs -> Callers \cup {NoOne}]
           /\ tx' \in [Callers -> [st : TxStates, dirty : SUBSET Callers]]
           /\ taken' \in [Callers -> Callers \cup {NoOne}]
           /\ rows' \subseteq Callers
<1>1. /\ reg \in [Execs -> [Names -> Callers \cup {NoOne}]]
      /\ busy \in [Execs -> Callers \cup {NoOne}]
      /\ tx \in [Callers -> [st : TxStates, dirty : SUBSET Callers]]
      /\ taken \in [Callers -> Callers \cup {NoOne}]
      /\ rows \subseteq Callers
  BY DEF Registered
<1>2. Exec(c) \in Execs
  BY ScenarioFacts DEF Engine
<1>3. CASE BeginLocks(c, Exec(c)) \/ BeginFailed(c, Exec(c))
  BY <1>1, <1>2, <1>3 DEF BeginLocks, BeginFailed
<1>4. CASE Began(c, Exec(c), Op(c).name)
  <2>1. [st |-> "open", dirty |-> {}] \in [st : TxStates, dirty : SUBSET Callers]
    BY DEF TxStates
  <2> QED
    BY <1>1, <1>2, <1>4, <2>1 DEF Began
<1>5. ASSUME NEW t, WriteIn(t, c)
      PROVE  tx' \in [Callers -> [st : TxStates, dirty : SUBSET Callers]]
             /\ UNCHANGED <<reg, busy, taken, rows>>
  <2>1. tx' = [tx EXCEPT ![t].dirty = @ \cup {c}]
        /\ UNCHANGED <<reg, busy, taken, rows>>
    BY <1>5 DEF WriteIn
  <2> QED
    BY <1>1, <2>1
<1>6. CASE WriteAlone(c)
  BY <1>1, <1>6 DEF WriteAlone
<1>7. CASE Op(c).op \in {"commit", "rollback"} /\ Unregister(c, Exec(c), Op(c).name)
  <2>1. Op(c).name \in Names
    BY <1>7, OpFacts DEF Ops
  <2>2. reg[Exec(c)][Op(c).name] \in Callers \cup {NoOne}
    BY <1>1, <1>2, <2>1
  <2> QED
    BY <1>1, <1>2, <1>7, <2>2 DEF Unregister
<1>8. CASE EndTxFails(c)
  BY <1>1, <1>8 DEF EndTxFails
<1>9. ASSUME NEW st \in {"over", "committed"}, EndTx(c, st),
             run[c].phase = "finish"
      PROVE  /\ tx' \in [Callers -> [st : TxStates, dirty : SUBSET Callers]]
             /\ taken' \in [Callers -> Callers \cup {NoOne}]
             /\ rows' \subseteq Callers /\ UNCHANGED <<reg, busy>>
  <2>1. PICK t \in Callers : t = taken[c]
    BY <1>1, <1>9 DEF Registered
  <2>2. /\ tx' = [tx EXCEPT ![t].st = st]
        /\ taken' = [taken EXCEPT ![c] = NoOne]
        /\ rows' = rows \/ rows' = rows \cup tx[t].dirty
        /\ UNCHANGED <<reg, busy>>
    BY <1>9, <2>1 DEF EndTx, Committed
  <2> QED
    BY <1>1, <2>1, <2>2 DEF TxStates
<1>10. CASE AbortTx(c)
  BY <1>1, <1>10 DEF AbortTx, TxStates
<1> QED
  BY <1>1, <1>3, <1>4, <1>5, <1>6, <1>7, <1>8, <1>9, <1>10 DEF TxMoves

LEMMA NextInHand ==
    ASSUME Engine, Registered, [Next]_vars, NEW d \in Callers,
           run'[d].phase = "finish"
    PROVE  taken'[d] # NoOne
<1>1. ASSUME NEW c \in Callers, TxMoves(c), c # d \/ run[d].phase = "finish"
      PROVE  taken'[d] = taken[d] \/ taken'[d] # NoOne
  BY <1>1 DEF TxMoves, BeginLocks, Began, BeginFailed, WriteIn, WriteAlone,
              Unregister, EndTx, EndTxFails, AbortTx, Registered
<1>2. CASE run[d].phase = "finish"
  BY <1>1, <1>2, NextTxMoves DEF Registered, txVars
<1>3. CASE TakeTx(d)
  <2>1. ~Return(d, FALSE)
    BY ReturnPhase
  <2> QED
    BY <1>3, <2>1 DEF TakeTx, Unregister, Registered
<1> QED
  BY <1>2, <1>3, PhaseMoves

LEMMA NextRegistered == Engine /\ Registered /\ [Next]_vars => Registered'
<1> SUFFICES ASSUME Engine, Registered, [Next]_vars PROVE Registered'
  OBVIOUS
<1>1. Callers' = Callers /\ Execs' = Execs
  BY FrameFacts DEF Callers, Execs, Exec
<1>2. \A d \in Callers : run'[d].phase = "finish" => taken'[d] # NoOne
  BY NextInHand
<1>3. CASE UNCHANGED txVars
  BY <1>1, <1>2, <1>3 DEF Registered, txVars
<1> QED
  BY <1>1, <1>2, <1>3, MoveTx, NextTxMoves DEF Registered

\* MemoryTxRegistry and the transactions keep their types, and a commit or
\* rollback between its two halves has a transaction in hand.
THEOREM RegisteredHolds == Spec => []Registered
<1>1. Init => Registered
  <2> SUFFICES ASSUME Init PROVE Registered
    OBVIOUS
  <2>1. /\ reg = [e \in Execs |-> [n \in Names |-> NoOne]]
        /\ busy = [e \in Execs |-> NoOne]
        /\ tx = [c \in Callers |-> [st |-> "none", dirty |-> {}]]
        /\ taken = [c \in Callers |-> NoOne] /\ rows = {}
    BY DEF Init, ServicesInit
  <2>2. \A c \in Callers : run[c].phase = "pending"
    BY DEF Init, Idle
  <2> QED
    BY <2>1, <2>2 DEF Registered, TxStates
<1>2. Engine /\ Registered /\ [Next]_vars => Registered'
  BY NextRegistered
<1> QED
  BY <1>1, <1>2, EngineHolds, PTL DEF Spec

-----------------------------------------------------------------------------
(* Locks and the key-value store *)

Entries == [st : {"absent", "live", "expired"}, ttl : BOOLEAN, val : Nat]

Kept ==
    /\ locked \in [Keys -> BOOLEAN] /\ token \in [Keys -> BOOLEAN]
    /\ kv \in [Keys -> Entries]
    /\ seen \in [Execs -> Nat]

LockMoves(c) ==
    \/ LockTry(c) /\ TakeLock(Op(c).key)
    \/ LockWake(c)
    \/ Unlock(c) /\ ReleaseLock(Op(c).key)

KvMoves(c) ==
    \/ KvRead(c) \/ KvWrite(c)
    \/ KvRemove(c) /\ KvDelete(Op(c).key)

LEMMA NextKeptMoves ==
    ASSUME [Next]_vars
    PROVE  /\ (\E c \in Callers : LockMoves(c)) \/ UNCHANGED lockVars
           /\ \/ \E c \in Callers : KvMoves(c)
              \/ (\E k \in Keys : KvExpire(k)) /\ UNCHANGED seen
              \/ UNCHANGED <<kv, seen>>
<1>1. ASSUME NEW c \in Callers, Progress(c)
      PROVE  /\ LockMoves(c) \/ UNCHANGED lockVars
             /\ KvMoves(c) \/ UNCHANGED <<kv, seen>>
  <2>1. CASE Dispatch(c) \/ Start(c) \/ RetryTimer(c) \/ RetryCancelled(c)
    BY <2>1 DEF Dispatch, Start, RetryTimer, RetryCancelled, Attempt, services
  <2>2. CASE Skip(c) \/ WhenFalse(c) \/ WhenError(c) \/ Mock(c) \/ Reject(c)
             \/ NoAttempt(c)
    BY <2>2 DEF Skip, WhenFalse, WhenError, Mock, Reject, NoAttempt, Settle,
                services
  <2>3. CASE HandlerInvalid(c) \/ LoopReturns(c) \/ LockGivesUp(c)
    BY <2>3 DEF HandlerInvalid, LoopReturns, LockGivesUp, services
  <2>4. CASE LockTry(c) \/ LockWake(c) \/ Unlock(c)
    BY <2>4 DEF LockTry, LockWake, Unlock, LockMoves
  <2>5. CASE KvRead(c) \/ KvWrite(c) \/ KvRemove(c)
    BY <2>5 DEF KvRead, KvWrite, KvRemove, KvMoves, RedisDeleteFails
  <2>6. CASE PoolLook(c) \/ PoolSlow(c) \/ Begin(c)
    BY <2>6 DEF PoolLook, PoolSlow, Begin, services
  <2>7. CASE Connected(c) \/ ConnectFails(c) \/ TakeTx(c)
    BY <2>7 DEF Connected, ConnectFails, TakeTx
  <2>8. ASSUME NEW ok \in BOOLEAN,
               CallReturns(c, ok) \/ PoolPing(c, ok) \/ ExecInTx(c, ok)
               \/ ExecAlone(c, ok) \/ FinishTx(c, ok)
        PROVE  UNCHANGED <<lockVars, kv, seen>>
    BY <2>8 DEF CallReturns, PoolPing, ExecInTx, ExecAlone, FinishTx, services
  <2>9. ASSUME NEW i, NEW ok, LoopBegins(c, i) \/ LoopStep(c, i, ok)
        PROVE  UNCHANGED <<lockVars, kv, seen>>
    BY <2>9 DEF LoopBegins, LoopStep, services, engine
  <2> QED
    BY <1>1, <2>1, <2>2, <2>3, <2>4, <2>5, <2>6, <2>7, <2>8, <2>9 DEF Progress
<1>2. ASSUME NEW c, Timeout(c) \/ TxAborts(c) \/ Conclude(c) \/ Cancel(c)
                    \/ UNCHANGED vars
      PROVE  UNCHANGED <<lockVars, kv, seen>>
  BY <1>2 DEF Timeout, TxAborts, Conclude, Handle, Finish, Cancel, services,
              engine, vars
<1>3. ASSUME NEW k, Expire(k)
      PROVE  UNCHANGED <<lockVars, seen>> /\ KvExpire(k)
  BY <1>3 DEF Expire, engine
<1> QED
  BY <1>1, <1>2, <1>3 DEF Next, System

LEMMA NextKept == Engine /\ Kept /\ [Next]_vars => Kept'
<1> SUFFICES ASSUME Engine, Kept, [Next]_vars PROVE Kept'
  OBVIOUS
<1>1. Execs' = Execs
  BY FrameFacts DEF Callers, Execs, Exec
<1>2. /\ locked \in [Keys -> BOOLEAN] /\ token \in [Keys -> BOOLEAN]
      /\ kv \in [Keys -> Entries] /\ seen \in [Execs -> Nat]
  BY DEF Kept
<1>3. ASSUME NEW c \in Callers, LockMoves(c)
      PROVE  locked' \in [Keys -> BOOLEAN] /\ token' \in [Keys -> BOOLEAN]
  BY <1>2, <1>3 DEF LockMoves, TakeLock, LockWake, TakeToken, ReleaseLock, Signal
<1>4. ASSUME NEW c \in Callers, KvMoves(c)
      PROVE  kv' \in [Keys -> Entries] /\ seen' \in [Execs -> Nat]
  <2>1. Op(c).key \in Keys /\ Op(c).ttl \in BOOLEAN /\ Exec(c) \in Execs
    BY OpFacts, ScenarioFacts DEF Ops, Engine
  <2>2. kv[Op(c).key] \in Entries /\ kv[Op(c).key].val \in Nat
    BY <1>2, <2>1 DEF Entries
  <2>3. Absent \in Entries
    BY DEF Absent, Entries
  <2>4. CASE KvRead(c)
    <3>1. PICK v \in Nat : seen' = [seen EXCEPT ![Exec(c)] = v]
      BY <2>2, <2>4 DEF KvRead
    <3>2. kv' \in [Keys -> Entries]
      BY <1>2, <2>2, <2>3, <2>4 DEF KvRead, KvGet, RedisGetFails
    <3> QED
      BY <1>2, <3>1, <3>2
  <2>5. CASE KvWrite(c)
    <3>1. [st |-> "live", ttl |-> Op(c).ttl, val |-> seen[Exec(c)] + 1] \in Entries
      BY <1>2, <2>1 DEF Entries
    <3> QED
      BY <1>2, <2>5, <3>1 DEF KvWrite, KvSet, RedisSetFails
  <2>6. CASE KvRemove(c) /\ KvDelete(Op(c).key)
    BY <1>2, <2>3, <2>6 DEF KvRemove, KvDelete
  <2> QED
    BY <1>4, <2>4, <2>5, <2>6 DEF KvMoves
<1>5. ASSUME NEW k \in Keys, KvExpire(k)
      PROVE  kv' \in [Keys -> Entries]
  BY <1>2, <1>5 DEF KvExpire, Entries
<1> QED
  BY <1>1, <1>2, <1>3, <1>4, <1>5, NextKeptMoves DEF Kept, lockVars

\* MemoryLocker and the key-value stores keep their types.
THEOREM KeptHolds == Spec => []Kept
<1>1. Init => Kept
  BY DEF Init, ServicesInit, Kept, Entries, Absent
<1>2. Engine /\ Kept /\ [Next]_vars => Kept'
  BY NextKept
<1> QED
  BY <1>1, <1>2, EngineHolds, PTL DEF Spec


-----------------------------------------------------------------------------
(* Lock waiters *)

\* Who is about to try a lock goes on to do that and nothing else.
LEMMA LockCallers ==
    ASSUME Engine, [Next]_vars, NEW d \in Callers, At(d, "call", "lock")
    PROVE  \/ LockTry(d)
           \/ At(d, "call", "lock")' /\ Op(d)' = Op(d)
<1>1. run[d] \in Runs /\ run[d].phase = "call" /\ Op(d).op = "lock"
      /\ UNCHANGED scn
  BY PhaseFacts, FrameFacts DEF At
<1>2. ASSUME run'[d].phase = "call", run'[d].handler = run[d].handler
      PROVE  At(d, "call", "lock")' /\ Op(d)' = Op(d)
  BY <1>1, <1>2 DEF At, Op
<1>3. ASSUME NEW c \in Callers, Moves(c), c # d
      PROVE  run'[d] = run[d]
  BY <1>3, MoveTyped DEF Typed
<1>4. CASE Progress(d)
  <2>1. ~(Dispatch(d) \/ Start(d) \/ RetryTimer(d) \/ RetryCancelled(d))
    BY <1>1 DEF Dispatch, Ready, Start, Given, RetryTimer, RetryCancelled
  <2>2. ~(Skip(d) \/ WhenFalse(d) \/ WhenError(d) \/ Mock(d) \/ Reject(d)
          \/ NoAttempt(d))
    BY <1>1 DEF Skip, Ready, WhenFalse, WhenError, Mock, Reject, NoAttempt, Given
  <2>3. ~(HandlerInvalid(d) \/ LoopReturns(d) \/ LockWake(d) \/ LockGivesUp(d)
          \/ Unlock(d))
    BY <1>1 DEF HandlerInvalid, LoopReturns, LockWake, LockGivesUp, Unlock, At
  <2>4. ~(KvRead(d) \/ KvWrite(d) \/ KvRemove(d) \/ PoolLook(d) \/ PoolSlow(d)
          \/ Begin(d))
    BY <1>1 DEF KvRead, KvWrite, KvRemove, PoolLook, PoolSlow, Begin, NeedsPool,
                At
  <2>5. ~(Connected(d) \/ ConnectFails(d) \/ TakeTx(d))
    BY <1>1 DEF Connected, ConnectFails, TakeTx
  <2>6. ASSUME NEW ok \in BOOLEAN
        PROVE  ~(CallReturns(d, ok) \/ PoolPing(d, ok) \/ ExecInTx(d, ok)
                 \/ ExecAlone(d, ok) \/ FinishTx(d, ok))
    BY <1>1 DEF CallReturns, PoolPing, ExecInTx, ExecAlone, FinishTx, At
  <2>7. ASSUME NEW i, NEW ok
        PROVE  ~(LoopBegins(d, i) \/ LoopStep(d, i, ok))
    BY <1>1 DEF LoopBegins, LoopStep, At
  <2> QED
    BY <1>4, <2>1, <2>2, <2>3, <2>4, <2>5, <2>6, <2>7 DEF Progress
<1>5. ASSUME NEW c \in Callers, Progress(c)
      PROVE  LockTry(d) \/ (At(d, "call", "lock")' /\ Op(d)' = Op(d))
  <2>1. CASE c = d
    <3>1. Progress(d)
      BY <1>5, <2>1
    <3> QED
      BY <1>4, <3>1
  <2>2. CASE c # d
    <3>1. run'[d] = run[d]
      BY <1>3, <1>5, <2>2, ProgressMoves
    <3> QED
      BY <1>1, <1>2, <3>1
  <2> QED
    BY <2>1, <2>2
<1>6. ASSUME NEW c \in Callers, Timeout(c)
      PROVE  run'[d].phase = "call" /\ run'[d].handler = run[d].handler
  BY <1>1, <1>6 DEF Timeout, Engine, Runs
<1>7. ASSUME NEW e \in Execs, Handle(e)
      PROVE  run'[d] = run[d]
  BY <1>1, <1>7 DEF Handle, Engine
<1>8. ASSUME \/ \E c \in Callers : TxAborts(c)
             \/ \E e \in Execs : Finish(e) \/ Cancel(e)
             \/ \E k \in Keys : Expire(k)
             \/ UNCHANGED vars
      PROVE  run' = run
  BY <1>8 DEF TxAborts, Finish, Cancel, Expire, engine, vars
<1> QED
  BY <1>1, <1>2, <1>5, <1>6, <1>7, <1>8 DEF Next, System, Conclude

\* What a step may do to one lock.
LEMMA LockSteps ==
    ASSUME Engine, Kept, [Next]_vars, NEW k \in Keys
    PROVE  \/ UNCHANGED <<locked[k], token[k]>>
           \/ locked'[k]
           \/ token'[k]
           \/ /\ UNCHANGED locked[k]
              /\ \E m \in Callers : /\ LockWake(m) /\ Op(m).key = k
                                    /\ At(m, "call", "lock")'
                                    /\ Op(m)' = Op(m)
<1>1. ASSUME NEW m \in Callers, LockMoves(m)
      PROVE  \/ UNCHANGED <<locked[k], token[k]>>
             \/ locked'[k]
             \/ token'[k]
             \/ UNCHANGED locked[k] /\ LockWake(m) /\ Op(m).key = k
  BY <1>1, OpFacts
     DEF LockMoves, TakeLock, LockWake, TakeToken, ReleaseLock, Signal, Kept, Ops
<1>2. ASSUME NEW m \in Callers, LockWake(m)
      PROVE  At(m, "call", "lock")' /\ Op(m)' = Op(m)
  <2>1. run[m] \in Runs /\ UNCHANGED scn
    BY PhaseFacts, FrameFacts
  <2>2. run'[m].phase = "call" /\ run'[m].handler = run[m].handler
    BY <1>2, <2>1 DEF LockWake, GoTo, Engine, Runs
  <2> QED
    BY <1>2, <2>1, <2>2 DEF LockWake, At, Op
<1> QED
  BY <1>1, <1>2, NextKeptMoves DEF lockVars

LEMMA NextWoken ==
    ASSUME Engine, Kept, LockWaiterWoken, [Next]_vars
    PROVE  LockWaiterWoken'
<1>1. Callers' = Callers /\ UNCHANGED scn
  BY FrameFacts DEF Callers
<1> SUFFICES ASSUME NEW k \in Keys, NEW c \in Callers, ~locked'[k],
                    At(c, "select", "lock")', Op(c).key' = k, ~token'[k]
             PROVE  \E d \in Callers : At(d, "call", "lock")' /\ Op(d).key' = k
  BY <1>1 DEF LockWaiterWoken
<1>2. ASSUME NEW d \in Callers, LockTry(d), Op(d).key = k
      PROVE  locked[k]
  BY <1>2 DEF LockTry, TakeLock, LockFree, Kept
<1>3. \/ run[c].phase = "select" /\ run'[c].handler = run[c].handler
      \/ LockTry(c)
  BY PhaseMoves DEF At
<1>4. CASE \E m \in Callers : /\ LockWake(m) /\ Op(m).key = k
                              /\ At(m, "call", "lock")' /\ Op(m)' = Op(m)
  BY <1>4
<1>5. CASE UNCHANGED <<locked[k], token[k]>>
  <2>1. CASE LockTry(c)
    <3>1. Op(c)' = Op(c)
      <4>1. ~Return(c, TRUE)
        BY ReturnPhase DEF At
      <4>2. run'[c].handler = run[c].handler
        BY <2>1, <4>1, PhaseFacts DEF LockTry, GoTo, Engine, Runs
      <4> QED
        BY <1>1, <4>2 DEF Op
    <3> QED
      BY <1>2, <1>5, <2>1, <3>1
  <2>2. CASE run[c].phase = "select" /\ run'[c].handler = run[c].handler
    <3>1. At(c, "select", "lock") /\ Op(c).key = k
      BY <1>1, <2>2 DEF At, Op
    <3>2. PICK d \in Callers : At(d, "call", "lock") /\ Op(d).key = k
      BY <1>5, <3>1 DEF LockWaiterWoken
    <3> QED
      BY <1>2, <1>5, <3>2, LockCallers
  <2> QED
    BY <1>3, <2>1, <2>2
<1> QED
  BY <1>4, <1>5, LockSteps

\* A free key is never slept on (MemoryLocker.Lock and Unlock).
THEOREM LockWaiterWokenHolds == Spec => []LockWaiterWoken
<1>1. Init => LockWaiterWoken
  BY DEF Init, LockWaiterWoken, At, Idle
<1>2. Engine /\ Kept /\ LockWaiterWoken /\ [Next]_vars => LockWaiterWoken'
  BY NextWoken
<1> QED
  BY <1>1, <1>2, EngineHolds, KeptHolds, PTL DEF Spec


-----------------------------------------------------------------------------
(* Loops *)

Stages == Nat \cup {Broken}

Iterated ==
    /\ DOMAIN iter = Callers
    /\ \A c \in Callers : iter[c] \in [DOMAIN iter[c] -> Stages]

\* Only its own caller begins and moves the iterations of a loop.
LEMMA MoveIterated ==
    ASSUME Engine, Iterated, NEW c \in Callers, Moves(c)
    PROVE  /\ DOMAIN iter' = Callers
           /\ \A d \in Callers : iter'[d] \in [DOMAIN iter'[d] -> Stages]
           /\ \A d \in Callers \ {c} : iter'[d] = iter[d]
           /\ Begins(c) \/ Iterates(c) \/ iter' = iter
<1>1. CASE UNCHANGED iter
  BY <1>1 DEF Iterated
<1>2. CASE Begins(c)
  <2>1. scn[c].op \in Ops
    BY ScenarioFacts DEF Engine, Settings
  <2>2. scn[c].op.loop.items \in Nat
    BY <2>1 DEF Ops, Loops
  <2>3. IterInit(scn[c].op.loop) \in [DOMAIN IterInit(scn[c].op.loop) -> Stages]
    BY <2>2 DEF IterInit, Stages
  <2>4. <<>> \in [DOMAIN <<>> -> Stages]
    OBVIOUS
  <2>5. PICK f : f \in [DOMAIN f -> Stages] /\ iter' = [iter EXCEPT ![c] = f]
    BY <1>2, <2>3, <2>4 DEF Begins
  <2> QED
    BY <1>2, <2>5 DEF Iterated
<1>3. CASE Iterates(c)
  <2>1. PICK i : \E st \in Stages : iter' = [iter EXCEPT ![c][i] = st]
    <3>1. ASSUME NEW i, IterStart(c, scn[c].op.loop, i)
          PROVE  \E st \in Stages : iter' = [iter EXCEPT ![c][i] = st]
      BY <3>1 DEF IterStart, Stages
    <3>2. ASSUME NEW i, NEW ok \in BOOLEAN, IterStep(c, scn[c].op.loop, i, ok)
          PROVE  \E st \in Stages : iter' = [iter EXCEPT ![c][i] = st]
      <4>1. iter[c][i] \in Nat
        BY <3>2 DEF IterStep, Running, Iterated, Stages, Broken
      <4>2. StageAfter(scn[c].op.loop, iter[c][i]) \in Nat
        BY <4>1 DEF StageAfter, Over
      <4>3. PICK st \in Stages :
                st = IF ok THEN StageAfter(scn[c].op.loop, iter[c][i]) ELSE Broken
        BY <4>2 DEF Stages
      <4>4. iter' = [iter EXCEPT ![c][i] = st]
        BY <3>2, <4>3 DEF IterStep
      <4> QED
        BY <4>4
    <3> QED
      BY <1>3, <3>1, <3>2 DEF Iterates
  <2>2. PICK st \in Stages : iter' = [iter EXCEPT ![c][i] = st]
    BY <2>1
  <2> DEFINE f == [iter[c] EXCEPT ![i] = st]
  <2>3. iter' = [iter EXCEPT ![c] = f]
    BY <2>2 DEF Iterated
  <2>4. f \in [DOMAIN f -> Stages]
    BY DEF Iterated
  <2> HIDE DEF f
  <2> QED
    BY <1>3, <2>3, <2>4 DEF Iterated
<1> QED
  BY <1>1, <1>2, <1>3
     DEF Moves, Settled, Dispatched, GivesUp, Returned, GoesOn, TimedOut, Handled

LEMMA NextIterated == Engine /\ Iterated /\ [Next]_vars => Iterated'
<1> SUFFICES ASSUME Engine, Iterated, [Next]_vars PROVE Iterated'
  OBVIOUS
<1>1. Callers' = Callers
  BY FrameFacts DEF Callers
<1>2. CASE UNCHANGED <<run, steps, firstErr, iter>>
  BY <1>1, <1>2 DEF Iterated
<1> QED
  BY <1>1, <1>2, NextMoves, MoveIterated DEF Iterated

\* The iterations of a loop step keep their type: each stands at a stage or is
\* broken (executePipeline).
THEOREM IteratedHolds == Spec => []Iterated
<1>1. Init => Iterated
  BY DEF Init, Iterated
<1>2. Engine /\ Iterated /\ [Next]_vars => Iterated'
  BY NextIterated
<1> QED
  BY <1>1, <1>2, EngineHolds, PTL DEF Spec

\* Every variable has its type (the values of executeNode's locals, of the
\* result table and of the services).
THEOREM TypeCorrect == Spec => []TypeOK
<1>1. Engine /\ OnePool /\ Registered /\ Kept /\ Iterated => TypeOK
  <2> SUFFICES ASSUME Engine, OnePool, Registered, Kept, Iterated PROVE TypeOK
    OBVIOUS
  <2>1. ASSUME NEW c \in Callers
        PROVE  /\ run[c].phase \in Phases
               /\ run[c].attempt \in 0..scn[c].attempts
               /\ run[c].handler \in 0..Len(scn[c].onError)
               /\ {run[c].expired, run[c].err} \subseteq BOOLEAN
               /\ \A i \in DOMAIN run[c].log : run[c].log[i] \in Events
    <3>1. run[c] \in Runs /\ run[c].log \in Seq(Events) /\ Place(c)
      BY PhaseFacts DEF Runs, Engine
    <3>2. scn[c].attempts \in Nat /\ Len(scn[c].onError) \in Nat
      BY OpFacts
    <3>3. run[c].attempt \in 0..scn[c].attempts
          /\ run[c].handler \in 0..Len(scn[c].onError)
      BY <3>1, <3>2 DEF Runs, Place
    <3>4. \A i \in DOMAIN run[c].log : run[c].log[i] \in Events
      BY <3>1
    <3> QED
      BY <3>1, <3>3, <3>4 DEF Runs
  <2>2. ASSUME NEW c \in Callers
        PROVE  /\ tx[c].st \in {"none", "open", "committed", "over"}
               /\ tx[c].dirty \subseteq Callers
               /\ taken[c] \in Callers \cup {NoOne}
               /\ \A i \in DOMAIN iter[c] : iter[c][i] \in Nat \cup {Broken}
    BY DEF Registered, TxStates, Iterated, Stages
  <2>3. steps \in [Ids -> Results] /\ firstErr \in [Execs -> BOOLEAN]
        /\ cancelled \in [Execs -> BOOLEAN] /\ seen \in [Execs -> Nat]
    BY DEF Engine, Kept
  <2> QED
    BY <2>1, <2>2, <2>3 DEF TypeOK, OnePool, Registered, Kept, Entries
<1> QED
  BY <1>1, EngineHolds, OnePoolHolds, RegisteredHolds, KeptHolds, IteratedHolds, PTL


\* A loop step: its attempts leave no iteration behind, and a success without
\* error_policy continue is one of every item.
Looped(s) ==
    scn[s].op.op = "loop" =>
        /\ run[s].phase \in {"pending", "given"} => iter[s] = <<>>
        /\ (run[s].phase \in {"backoff", "done"} \/ run[s].handler # 0) =>
              Running(s) = {}
        /\ run[s].phase = "done" /\ Acts(s) /\ ~scn[s].op.loop.keep =>
              \A i \in DOMAIN iter[s] : iter[s][i] = Over

Answered == \A s \in Steps : Looped(s)

\* The loop of a caller that a move leaves alone.
LEMMA OthersLooped ==
    ASSUME NEW s \in Steps, Looped(s), UNCHANGED scn, run'[s] = run[s],
           steps'[s] = steps[s], iter'[s] = iter[s]
    PROVE  Looped(s)'
  BY DEF Looped, Acts, Running

\* A step that ends with its iterations over.
LEMMA OverLooped ==
    ASSUME NEW s \in Steps, UNCHANGED <<scn, iter>>, Running(s) = {},
           run'[s].phase \notin {"pending", "given"},
           \/ steps'[s] # "success" \/ scn[s].policy = "ignore"
           \/ scn[s].op.op = "loop" /\ ~scn[s].op.loop.keep =>
                 \A i \in DOMAIN iter[s] : iter[s][i] = Over
    PROVE  Looped(s)'
  BY DEF Looped, Acts, Running

LEMMA FailLooped ==
    ASSUME Engine, NEW s \in Steps, Fail(s), Running(s) = {},
           UNCHANGED <<scn, iter>>
    PROVE  Looped(s)'
<1>1. s \in Callers /\ s \in Ids
  BY ScenarioFacts DEF Engine
<1>2. ASSUME NEW result \in {"success", "failed"}, NEW err \in BOOLEAN,
             End(s, result, <<EventOf(result)>>, err),
             result = "success" => scn[s].policy = "ignore"
      PROVE  Looped(s)'
  <2>1. result \in Results /\ EventOf(result) \in Events
    BY DEF Results, EventOf, Events
  <2>2. PICK events \in Seq(Events) : events = <<EventOf(result)>>
    BY <2>1, OneEvent
  <2>3. End(s, result, events, err)
    BY <1>2, <2>2
  <2>4. run'[s].phase = "done" /\ steps'[s] = result
    BY <1>1, <2>1, <2>3, EndFacts DEF Engine
  <2> QED
    BY <1>2, <2>4, OverLooped
<1>3. CASE Failed(s)
  BY <1>1, <1>3, OverLooped DEF Failed, Engine
<1> QED
  BY <1>1, <1>2, <1>3, FailFacts

LEMMA ReturnLooped ==
    ASSUME Engine, Answered, NEW s \in Steps, Returned(s), Report(s)',
           UNCHANGED scn
    PROVE  scn[s].op.op = "loop" => Looped(s)'
<1> SUFFICES ASSUME scn[s].op.op = "loop" PROVE Looped(s)'
  OBVIOUS
<1>1. s \in Callers /\ s \in Ids /\ UNCHANGED iter
  BY ScenarioFacts DEF Engine, Returned
<1>2. CASE run[s].handler # 0 /\ Handed(s)
  <2>1. Running(s) = {}
    BY <1>2 DEF Answered, Looped
  <2>2. steps'[s] = "failed"
    BY <1>2 DEF Handed, Report
  <2> QED
    BY <1>1, <1>2, <2>1, <2>2, OverLooped DEF Handed
<1>3. ASSUME NEW ok \in BOOLEAN, Attempted(s, ok), AllEnded(s),
             ok = LoopOk(s, scn[s].op.loop)
      PROVE  Looped(s)'
  <2>1. Running(s) = {}
    BY <1>3 DEF AllEnded
  <2>2. CASE ok /\ End(s, "success", <<"completed">>, ExpectFails(s, "success"))
    <3>1. ~scn[s].op.loop.keep => \A i \in DOMAIN iter[s] : iter[s][i] = Over
      BY <1>3, <2>2 DEF AllEnded, AllBegun, Running, LoopOk
    <3>2. run'[s].phase = "done"
      <4>1. PICK err \in BOOLEAN : err = ExpectFails(s, "success")
        BY DEF ExpectFails
      <4>2. PICK events \in Seq(Events) : events = <<"completed">>
        BY OneEvent DEF Events
      <4>3. PICK result \in Results : result = "success"
        BY DEF Results
      <4>4. End(s, result, events, err)
        BY <2>2, <4>1, <4>2, <4>3
      <4> QED
        BY <1>1, <4>4, EndFacts
    <3> QED
      BY <1>1, <2>1, <3>1, <3>2, OverLooped
  <2>3. CASE Backoff(s)
    <3>1. run'[s].phase = "backoff"
      BY <1>1, <2>3, BackoffFacts
    <3> QED
      BY <1>1, <2>1, <3>1 DEF Looped, Running
  <2>4. CASE Fail(s)
    BY <1>1, <2>1, <2>4, FailLooped
  <2> QED
    BY <1>3, <2>2, <2>3, <2>4 DEF Attempted
<1> QED
  BY <1>1, <1>2, <1>3, ReturnedFacts

LEMMA MoveLooped ==
    ASSUME Engine, Iterated, Answered, NEW s \in Steps, Moves(s), Report(s)',
           UNCHANGED scn
    PROVE  Looped(s)'
<1> SUFFICES ASSUME scn[s].op.op = "loop" PROVE Looped(s)'
  BY DEF Looped
<1>1. s \in Callers /\ s \in Ids /\ run[s] \in Runs /\ Looped(s) /\ Place(s)
      /\ s \notin Execs
  BY ScenarioFacts, PhaseFacts DEF Engine, Answered
<1>2. CASE Settled(s)
  <2>1. iter[s] = <<>> /\ UNCHANGED iter
    BY <1>1, <1>2 DEF Settled, Looped
  <2>2. Running(s) = {} /\ \A i \in DOMAIN iter[s] : iter[s][i] = Over
    BY <2>1 DEF Running
  <2>3. run'[s].phase = "done"
    BY <1>1, <1>2, EndFacts DEF Settled
  <2> QED
    BY <2>1, <2>2, <2>3, OverLooped
<1>3. CASE GivesUp(s)
  BY <1>1, <1>3, FailLooped DEF GivesUp, Looped
<1>4. CASE Returned(s)
  BY <1>4, ReturnLooped
<1>5. CASE Dispatched(s) \/ TimedOut(s)
  <2>1. /\ run'[s].handler = run[s].handler /\ UNCHANGED <<steps, iter>>
        /\ \/ run'[s].phase = run[s].phase
           \/ run[s].phase = "pending" /\ run'[s].phase = "given"
    BY <1>1, <1>5 DEF Dispatched, TimedOut, GoTo, Engine, Runs
  <2> QED
    BY <1>1, <2>1 DEF Looped, Acts, Running
<1>6. CASE GoesOn(s)
  <2>1. /\ run'[s].handler = run[s].handler /\ UNCHANGED <<steps, iter>>
        /\ run'[s].phase \in Busy
    BY <1>1, <1>6 DEF GoesOn, GoTo, Engine, Runs, Busy
  <2> QED
    BY <1>1, <2>1 DEF Looped, Acts, Running, Busy
<1>7. CASE Begins(s)
  <2>1. run'[s].phase = "call" /\ run'[s].handler = 0
    BY <1>1, <1>7 DEF Begins, Engine, Runs, Place
  <2> QED
    BY <2>1 DEF Looped
<1>8. CASE Iterates(s)
  BY <1>8 DEF Iterates, Looped
<1> QED
  BY <1>1, <1>2, <1>3, <1>4, <1>5, <1>6, <1>7, <1>8 DEF Moves, Handled

LEMMA NextAnswered ==
    ASSUME OnErrorIdsOwn, Engine, Reported, Iterated, Answered, [Next]_vars
    PROVE  Answered'
<1>1. Steps' = Steps /\ Steps \subseteq Callers /\ UNCHANGED scn
  BY FrameFacts, ScenarioFacts DEF Steps, Callers, Execs, Exec, Engine
<1>2. CASE UNCHANGED <<run, steps, firstErr, iter>>
  BY <1>1, <1>2 DEF Answered, Looped, Acts, Running
<1>3. ASSUME NEW c \in Callers, Moves(c), NEW s \in Steps
      PROVE  Looped(s)'
  <2>1. Report(s)'
    BY <1>3, MoveReport
  <2>2. CASE s = c
    BY <1>1, <1>3, <2>1, <2>2, MoveLooped
  <2>3. CASE s # c
    <3>1. run'[s] = run[s] /\ iter'[s] = iter[s]
      BY <1>1, <1>3, <2>3, MoveTyped, MoveIterated DEF Typed
    <3>2. steps'[s] = steps[s]
      BY <1>1, <1>3, <2>3, MoveSteps
    <3> QED
      BY <1>1, <3>1, <3>2, OthersLooped DEF Answered
  <2> QED
    BY <2>2, <2>3
<1> QED
  BY <1>1, <1>2, <1>3, NextMoves DEF Answered

\* The inductive invariant of a loop step that has ended: none of its
\* iterations runs, and a success without error_policy continue went through
\* all stages of all items (buildLoopOutput).
THEOREM AnsweredHolds == ASSUME OnErrorIdsOwn PROVE Spec => []Answered
<1>1. Init => Answered
  <2> SUFFICES ASSUME Init, NEW s \in Steps PROVE Looped(s)
    BY DEF Answered
  <2>1. s \in Callers /\ run[s] = Idle /\ iter[s] = <<>>
    BY InitEngine, ScenarioFacts DEF Init, Engine
  <2> QED
    BY <2>1 DEF Looped, Idle
<1>2. Engine /\ Reported /\ Iterated /\ Answered /\ [Next]_vars => Answered'
  BY NextAnswered
<1> QED
  BY <1>1, <1>2, EngineHolds, ReportedHolds, IteratedHolds, PTL DEF Spec

\* A loop step that has ended left no iteration behind, and if it succeeded
\* without error_policy continue every stage of every item did
\* (executePipeline, buildLoopOutput).
THEOREM LoopAnswersForAllHolds ==
    ASSUME OnErrorIdsOwn PROVE Spec => []LoopAnswersForAll
<1>1. Answered => LoopAnswersForAll
  BY DEF Answered, Looped, LoopAnswersForAll
<1> QED
  BY <1>1, AnsweredHolds, PTL

-----------------------------------------------------------------------------
(* Which steps are over before others *)

InProgress(c) == run[c].phase \notin {"pending", "done"}

\* A step that has let the execution go on.
Passed(d) ==
    /\ run[d].phase = "done"
    /\ Stops(d) => run[d].handler = 0
    /\ Plain(scn, d) => steps[d] = "success"

Order(c) ==
    /\ run[c].phase # "done" /\ run[c].handler = 0 => steps[c] = "none"
    /\ run[c].phase # "pending" => \A d \in scn[c].deps : run[d].phase = "done"
    /\ run[c].phase = "done" => firstErr[Exec(c)] \/ Passed(c)
    /\ InProgress(c) => \A d \in Before(scn, c) : Passed(d)

Ordered ==
    /\ \A c \in Steps : Order(c)
    /\ \A e \in Execs : run[e].phase # "pending" =>
          \A s \in StepsOf(e) : run[s].phase = "done"

LEMMA DepFacts ==
    ASSUME scn \in Scenarios, NEW c \in Callers
    PROVE  scn[c].deps \subseteq {d \in Steps : Exec(d) = Exec(c)}
<1>1. scn[c].deps \subseteq Callers
  BY ScenarioFacts DEF Settings
<1>2. \A d \in scn[c].deps : Exec(d) = Exec(c) /\ Exec(d) # d
  BY ScenariosAssumption DEF Callers, Exec
<1>3. \A d \in Execs : Exec(d) = d
  BY ScenarioFacts DEF Execs
<1> QED
  BY <1>1, <1>2, <1>3 DEF Steps

\* A set that has what a step depends on, and with each step what that depends
\* on, has all that is over before the step.
LEMMA BeforeLeast ==
    ASSUME scn \in Scenarios, NEW c \in Callers, NEW X \in SUBSET Steps,
           scn[c].deps \subseteq X, \A x \in X : scn[x].deps \subseteq X
    PROVE  /\ Before(scn, c) \subseteq X
           /\ \A d \in Before(scn, c) : Exec(d) = Exec(c)
<1> DEFINE mine == {d \in Callers : Exec(d) = Exec(c)}
           Y == X \cap mine
<1>1. Steps \subseteq Callers
  BY ScenarioFacts
<1>2. Y \in SUBSET mine
  OBVIOUS
<1>3. scn[c].deps \subseteq Y
  BY <1>1, DepFacts
<1>4. \A x \in Y : scn[x].deps \subseteq Y
  <2> SUFFICES ASSUME NEW x \in Y PROVE scn[x].deps \subseteq Y
    OBVIOUS
  <2>1. x \in Callers /\ Exec(x) = Exec(c) /\ scn[x].deps \subseteq X
    OBVIOUS
  <2>2. scn[x].deps \subseteq {d \in Steps : Exec(d) = Exec(x)}
    BY <2>1, DepFacts
  <2> QED
    BY <1>1, <2>1, <2>2
<1>5. Before(scn, c) = {d \in mine : \A Z \in SUBSET mine :
          (scn[c].deps \subseteq Z /\ \A x \in Z : scn[x].deps \subseteq Z)
              => d \in Z}
  BY DEF Before, Callers, Exec
<1> HIDE DEF Y
<1>6. \A d \in Before(scn, c) : d \in mine /\ d \in Y
  BY <1>2, <1>3, <1>4, <1>5
<1> QED
  BY <1>6 DEF Y

\* Who changes a caller's record is the caller.
LEMMA WhoMoves ==
    ASSUME Engine, [Next]_vars, NEW c \in Callers, run'[c] # run[c]
    PROVE  Progress(c) \/ Timeout(c) \/ (c \in Execs /\ Handle(c))
<1>1. ASSUME NEW d \in Callers, Progress(d)
      PROVE  d = c
  BY <1>1, ProgressMoves, MoveTyped DEF Typed
<1>2. ASSUME NEW d \in Callers, Timeout(d)
      PROVE  d = c
  BY <1>2 DEF Timeout, Engine
<1>3. ASSUME NEW e \in Execs, Handle(e)
      PROVE  e = c
  BY <1>3 DEF Handle, Engine
<1>4. ASSUME \/ \E d \in Callers : TxAborts(d)
             \/ \E e \in Execs : Finish(e) \/ Cancel(e)
             \/ \E k \in Keys : Expire(k)
             \/ UNCHANGED vars
      PROVE  FALSE
  BY <1>4 DEF TxAborts, Finish, Cancel, Expire, engine, vars
<1> QED
  BY <1>1, <1>2, <1>3, <1>4 DEF Next, System, Conclude

\* What a caller can do, by where it is.
LEMMA FromPending ==
    ASSUME NEW c, Progress(c), run[c].phase = "pending"
    PROVE  Dispatch(c) \/ Skip(c)
<1>1. ~(WhenFalse(c) \/ WhenError(c) \/ Mock(c) \/ Reject(c) \/ NoAttempt(c)
        \/ Start(c) \/ RetryTimer(c) \/ RetryCancelled(c))
  BY DEF WhenFalse, WhenError, Mock, Reject, NoAttempt, Start, RetryTimer,
         RetryCancelled, Given
<1>2. ~(HandlerInvalid(c) \/ LoopReturns(c) \/ LockTry(c) \/ LockWake(c)
        \/ LockGivesUp(c) \/ Unlock(c) \/ KvRead(c) \/ KvWrite(c) \/ KvRemove(c))
  BY DEF HandlerInvalid, LoopReturns, LockTry, LockWake, LockGivesUp, Unlock,
         KvRead, KvWrite, KvRemove, At
<1>3. ~(PoolLook(c) \/ PoolSlow(c) \/ Begin(c) \/ Connected(c)
        \/ ConnectFails(c) \/ TakeTx(c))
  BY DEF PoolLook, PoolSlow, Begin, Connected, ConnectFails, TakeTx, At
<1>4. ASSUME NEW ok
      PROVE  ~(CallReturns(c, ok) \/ PoolPing(c, ok) \/ ExecInTx(c, ok)
               \/ ExecAlone(c, ok) \/ FinishTx(c, ok))
  BY DEF CallReturns, PoolPing, ExecInTx, ExecAlone, FinishTx, At
<1>5. ASSUME NEW i, NEW ok
      PROVE  ~(LoopBegins(c, i) \/ LoopStep(c, i, ok))
  BY DEF LoopBegins, LoopStep, At
<1> QED
  BY <1>1, <1>2, <1>3, <1>4, <1>5 DEF Progress

\* What a step did when it is over stays.
LEMMA DoneStays ==
    ASSUME Engine, OnErrorIdsOwn, [Next]_vars, NEW d \in Steps,
           run[d].phase = "done"
    PROVE  /\ run'[d].phase = "done" /\ run'[d].handler = run[d].handler
           /\ steps'[d] = steps[d]
<1>1. d \in Callers /\ run[d] \in Runs
  BY ScenarioFacts, PhaseFacts DEF Engine
<1>2. ASSUME NEW c \in Callers, Moves(c), c # d
      PROVE  run'[d] = run[d] /\ steps'[d] = steps[d]
  BY <1>1, <1>2, MoveTyped, MoveSteps DEF Typed
<1>3. CASE Moves(d)
  <2>1. TimedOut(d)
    BY <1>3 DEF Moves, Settled, Dispatched, Begins, GivesUp, Returned, GoesOn,
                Handled, Iterates, Busy
  <2> QED
    BY <1>1, <2>1 DEF TimedOut, Engine, Runs
<1>4. CASE UNCHANGED <<run, steps, firstErr, iter>>
  BY <1>4
<1> QED
  BY <1>1, <1>2, <1>3, <1>4, NextMoves

\* An execution's first error is not taken back.
LEMMA ErrStays ==
    ASSUME Engine, [Next]_vars, NEW e \in Execs, firstErr[e]
    PROVE  firstErr'[e]
<1>1. ASSUME NEW c, NEW result, NEW events, NEW err,
             End(c, result, events, err)
      PROVE  firstErr'[e]
  BY <1>1 DEF End, Engine
<1>2. ASSUME NEW c, Fail(c)
      PROVE  firstErr'[e]
  BY <1>1, <1>2 DEF Fail, Ignored
<1>3. ASSUME NEW c, NEW ok, Return(c, ok)
      PROVE  firstErr'[e]
  <2>1. CASE run[c].handler = 0
    BY <1>1, <1>2, <1>3, <2>1 DEF Return, ActionReturned, Succeed, Backoff
  <2>2. CASE run[c].handler # 0
    BY <1>3, <2>2 DEF Return, HandlerReturned, Engine
  <2> QED
    BY <2>1, <2>2
<1>4. ASSUME NEW c, Moves(c)
      PROVE  firstErr'[e]
  BY <1>1, <1>2, <1>3, <1>4
     DEF Moves, Settled, Dispatched, Begins, GivesUp, Returned, GoesOn, TimedOut,
         Handled, Iterates
<1> QED
  BY <1>4, NextMoves

\* A step that is over has let the execution go on, or is why it stops.
LEMMA DoneOrder ==
    ASSUME Engine, OnErrorIdsOwn, [Next]_vars, NEW c \in Steps,
           run[c].phase # "done", run'[c].phase = "done"
    PROVE  firstErr'[Exec(c)] \/ Passed(c)'
<1>1. /\ c \in Callers /\ c \notin Execs /\ c \in Ids /\ Exec(c) \in Execs
      /\ run[c] \in Runs /\ Place(c) /\ UNCHANGED scn
  BY ScenarioFacts, PhaseFacts, FrameFacts DEF Engine, Steps
<1>2. Progress(c)
  BY <1>1, WhoMoves DEF Timeout, Engine, Runs
<1>3. Plain(scn, c)' = Plain(scn, c) /\ Stops(c)' = Stops(c)
  BY <1>1 DEF Plain, Stops
<1>4. ASSUME NEW result \in Results, NEW events \in Seq(Events),
             NEW err \in BOOLEAN, End(c, result, events, err)
      PROVE  /\ run'[c].handler = run[c].handler /\ steps'[c] = result
             /\ err => firstErr'[Exec(c)]
  <2>1. run'[c].handler = run[c].handler /\ steps'[c] = result
    BY <1>1, <1>4, EndFacts DEF Engine
  <2>2. err => firstErr'[Exec(c)]
    BY <1>1, <1>4 DEF End, Engine
  <2> QED
    BY <2>1, <2>2
<1>5. ASSUME NEW result \in Results, NEW events \in Seq(Events),
             NEW err \in BOOLEAN, Settle(c, result, events, err),
             run[c].handler = 0, err \/ ~Plain(scn, c)
      PROVE  firstErr'[Exec(c)] \/ Passed(c)'
  BY <1>3, <1>4, <1>5 DEF Settle, Passed
<1>6. /\ \A e \in Events : <<e>> \in Seq(Events)
      /\ \A e, f \in Events : <<e, f>> \in Seq(Events)
      /\ <<>> \in Seq(Events)
  OBVIOUS
<1>7. \A b : (b = ExpectFails(c, "success") \/ b = ExpectFails(c, "failed")
              \/ b = (Stops(c) \/ ExpectFails(c, "failed"))) => b \in BOOLEAN
  BY DEF ExpectFails, Stops
<1>8. CASE Skip(c)
  BY <1>1, <1>8, ErrStays DEF Skip
<1>9. CASE WhenFalse(c)
  BY <1>1, <1>5, <1>6, <1>9 DEF WhenFalse, Given, Place, Plain, Results, Events
<1>10. CASE WhenError(c)
  BY <1>1, <1>5, <1>6, <1>10 DEF WhenError, Given, Place, Results
<1>11. CASE Mock(c)
  BY <1>1, <1>5, <1>6, <1>7, <1>11 DEF Mock, Given, Place, Plain, Results, Events
<1>12. CASE Reject(c)
  BY <1>1, <1>5, <1>6, <1>12 DEF Reject, Given, Place, Results, Events
<1>13. CASE NoAttempt(c)
  <2>1. PICK err \in BOOLEAN : err = ExpectFails(c, "success")
    BY DEF ExpectFails
  <2>2. /\ Settle(c, "success", <<"started", "completed">>, err)
        /\ run[c].handler = 0
    BY <1>1, <1>13, <2>1 DEF NoAttempt, Given, Place
  <2>3. ~Plain(scn, c)
    BY <1>13 DEF NoAttempt, Plain
  <2>4. "success" \in Results /\ <<"started", "completed">> \in Seq(Events)
    BY <1>6 DEF Results, Events
  <2> QED
    BY <1>5, <2>2, <2>3, <2>4
<1>14. ASSUME Fail(c), run[c].handler = 0
       PROVE  firstErr'[Exec(c)] \/ Passed(c)'
  <2>1. CASE scn[c].policy = "ignore"
    <3>1. End(c, "success", <<"completed">>, FALSE)
      BY <1>14, <2>1 DEF Fail, Ignored
    <3>2. run'[c].handler = 0
      BY <1>4, <1>6, <1>14, <3>1 DEF Results, Events
    <3> QED
      BY <1>3, <2>1, <3>2 DEF Passed, Plain
  <2>2. CASE scn[c].policy # "ignore" /\ scn[c].onError = <<>>
    <3>1. End(c, "failed", <<"failed">>, Stops(c)) /\ Stops(c) \in BOOLEAN
      BY <1>14, <2>2 DEF Fail, Stops
    <3>2. run'[c].handler = 0 /\ (Stops(c) => firstErr'[Exec(c)])
      BY <1>4, <1>6, <1>14, <3>1 DEF Results, Events
    <3> QED
      BY <1>3, <3>2 DEF Passed, Plain, Stops
  <2>3. CASE scn[c].policy # "ignore" /\ scn[c].onError # <<>>
    <3>1. run' = [run EXCEPT ![c].phase = "call", ![c].handler = 1,
                             ![c].log = Append(@, "failed")]
      BY <1>14, <2>3 DEF Fail
    <3>2. run'[c].phase = "call"
      BY <1>1, <3>1 DEF Engine, Runs
    <3> QED
      BY <3>2
  <2> QED
    BY <2>1, <2>2, <2>3
<1>15. CASE RetryCancelled(c)
  BY <1>1, <1>14, <1>15 DEF RetryCancelled, Place
<1>16. ASSUME NEW ok \in BOOLEAN, Return(c, ok)
       PROVE  firstErr'[Exec(c)] \/ Passed(c)'
  <2>1. CASE run[c].handler = 0
    <3>1. CASE ok /\ Succeed(c, <<>>)
      <4>1. PICK err \in BOOLEAN : err = ExpectFails(c, "success")
        BY <1>7
      <4>2. PICK events \in Seq(Events) : events = <<>> \o <<"completed">>
        <5>1. <<"completed">> \in Seq(Events) /\ <<>> \in Seq(Events)
          BY OneEvent DEF Events
        <5> QED
          BY <5>1, Joined
      <4>3. End(c, "success", events, err)
        BY <3>1, <4>1, <4>2 DEF Succeed
      <4>4. run'[c].handler = 0 /\ steps'[c] = "success"
        BY <1>4, <2>1, <4>3 DEF Results
      <4> QED
        BY <4>4 DEF Passed
    <3>2. CASE ~ok /\ Backoff(c)
      BY <1>1, <3>2, BackoffFacts
    <3>3. CASE Fail(c)
      BY <1>14, <2>1, <3>3
    <3> QED
      BY <1>16, <2>1, <3>1, <3>2, <3>3 DEF Return, ActionReturned
  <2>2. CASE run[c].handler # 0
    <3> DEFINE last == run[c].handler = Len(scn[c].onError)
    <3>1. /\ run' = [run EXCEPT
                 ![c].handler = IF last THEN run[c].handler ELSE run[c].handler + 1,
                 ![c].phase = IF last THEN "done" ELSE "call",
                 ![c].err = last /\ c \in Steps /\ Stops(c)]
          /\ firstErr' = [firstErr EXCEPT
                 ![Exec(c)] = @ \/ (last /\ c \in Steps /\ Stops(c))]
      BY <1>16, <2>2 DEF Return, HandlerReturned
    <3>2. last
      BY <1>1, <3>1 DEF Engine, Runs
    <3>3. Stops(c) => firstErr'[Exec(c)]
      BY <1>1, <3>1, <3>2 DEF Engine
    <3> QED
      BY <1>3, <3>3 DEF Passed, Plain, Stops
  <2> QED
    BY <2>1, <2>2
<1>17. CASE Dispatch(c) \/ Start(c) \/ RetryTimer(c)
  BY <1>1, <1>17 DEF Dispatch, Start, RetryTimer, Attempt, GoTo, Engine, Runs
<1>18. CASE Returning(c)
  <2>1. Returned(c) \/ GoesOn(c)
    BY <1>1, <1>18, ReturnMoves
  <2>2. CASE Returned(c)
    BY <1>16, <2>2 DEF Returned
  <2>3. CASE GoesOn(c)
    BY <1>1, <2>3 DEF GoesOn, GoTo, Busy, Engine, Runs
  <2> QED
    BY <2>1, <2>2, <2>3
<1>19. ASSUME NEW i, NEW ok, LoopBegins(c, i) \/ LoopStep(c, i, ok)
       PROVE  run' = run
  BY <1>19 DEF LoopBegins, LoopStep, engine
<1> QED
  BY <1>2, <1>8, <1>9, <1>10, <1>11, <1>12, <1>13, <1>15, <1>17, <1>18, <1>19
     DEF Progress, Returning

\* The result of a step is recorded when it is over or its on_error steps run.
LEMMA NoneYet ==
    ASSUME Engine, OnErrorIdsOwn, [Next]_vars, NEW c \in Steps,
           run[c].phase # "done" /\ run[c].handler = 0 => steps[c] = "none",
           run'[c].phase # "done", run'[c].handler = 0
    PROVE  steps'[c] = "none" /\ run[c].phase # "done" /\ run[c].handler = 0
<1>1. c \in Callers /\ run[c] \in Runs
  BY ScenarioFacts, PhaseFacts DEF Engine
<1>2. ASSUME NEW d \in Callers, Moves(d), c # d
      PROVE  run'[c] = run[c] /\ steps'[c] = steps[c]
  BY <1>1, <1>2, MoveTyped, MoveSteps DEF Typed
<1>3. ASSUME NEW result \in Results, NEW events \in Seq(Events),
             NEW err \in BOOLEAN, End(c, result, events, err)
      PROVE  FALSE
  BY <1>1, <1>3, EndFacts
<1>4. ~Fail(c)
  <2>1. \A result \in {"success", "failed"} :
            result \in Results /\ <<EventOf(result)>> \in Seq(Events)
    BY OneEvent DEF Results, EventOf, Events
  <2>2. ~Failed(c)
    BY DEF Failed
  <2>3. \A result \in {"success", "failed"}, err \in BOOLEAN :
            ~End(c, result, <<EventOf(result)>>, err)
    BY <1>3, <2>1
  <2> QED
    BY <1>1, <2>2, <2>3, FailFacts
<1>5. ~Succeed(c, <<>>)
  <2>1. ExpectFails(c, "success") \in BOOLEAN /\ <<>> \o <<"completed">> \in Seq(Events)
    BY OneEvent DEF ExpectFails, Events
  <2> QED
    BY <1>3, <2>1 DEF Succeed, Results
<1>6. CASE Moves(c)
  <2>1. ~Settled(c) /\ ~GivesUp(c)
    BY <1>3, <1>4 DEF Settled, GivesUp
  <2>2. CASE Returned(c)
    <3>1. run[c].handler = 0 /\ run[c].phase # "done"
      BY <1>1, <2>2, ReturnedFacts DEF Handed, Returned, Busy
    <3>2. Backoff(c)
      BY <1>4, <1>5, <2>2, <3>1 DEF Returned, Return, ActionReturned
    <3> QED
      BY <1>1, <3>1, <3>2, BackoffFacts
  <2>3. CASE Dispatched(c) \/ Begins(c) \/ GoesOn(c) \/ TimedOut(c)
    <3>1. steps' = steps
      BY <1>1, <2>3, FieldFacts
    <3>2. run'[c].handler = run[c].handler
      BY <1>1, <2>3
         DEF Dispatched, Begins, GoesOn, TimedOut, GoTo, Engine, Runs
    <3>3. run[c].phase # "done"
      BY <1>1, <2>3
         DEF Dispatched, Begins, GoesOn, TimedOut, GoTo, Engine, Runs, Busy
    <3> QED
      BY <3>1, <3>2, <3>3
  <2>4. ~Handled(c)
    BY DEF Handled, Steps
  <2>5. CASE Iterates(c)
    BY <2>5 DEF Iterates
  <2> QED
    BY <1>6, <2>1, <2>2, <2>3, <2>4, <2>5 DEF Moves
<1>7. CASE UNCHANGED <<run, steps, firstErr, iter>>
  BY <1>7
<1> QED
  BY <1>2, <1>6, <1>7, NextMoves

LEMMA PassedStays ==
    ASSUME Engine, OnErrorIdsOwn, [Next]_vars, NEW d \in Steps, Passed(d)
    PROVE  Passed(d)'
<1>1. UNCHANGED scn /\ run[d].phase = "done"
  BY FrameFacts DEF Passed
<1>2. Plain(scn, d)' = Plain(scn, d) /\ Stops(d)' = Stops(d)
  BY <1>1 DEF Plain, Stops
<1> QED
  BY <1>1, <1>2, DoneStays DEF Passed

\* All that a step waits for, directly or not, is over when it starts.
LEMMA BeforeDone ==
    ASSUME Engine, Ordered, NEW c \in Steps,
           \A d \in scn[c].deps : run[d].phase = "done"
    PROVE  \A d \in Before(scn, c) :
              d \in Steps /\ Exec(d) = Exec(c) /\ run[d].phase = "done"
<1> DEFINE X == {d \in Steps : run[d].phase = "done"}
<1>1. scn \in Scenarios /\ c \in Callers /\ Steps \subseteq Callers
  BY ScenarioFacts DEF Engine
<1>2. scn[c].deps \subseteq X
  BY <1>1, DepFacts
<1>3. \A x \in X : scn[x].deps \subseteq X
  <2> SUFFICES ASSUME NEW x \in X PROVE scn[x].deps \subseteq X
    OBVIOUS
  <2>1. \A d \in scn[x].deps : run[d].phase = "done"
    BY DEF Ordered, Order
  <2> QED
    BY <1>1, <2>1, DepFacts
<1>4. X \in SUBSET Steps
  OBVIOUS
<1> HIDE DEF X
<1>5. /\ Before(scn, c) \subseteq X
      /\ \A d \in Before(scn, c) : Exec(d) = Exec(c)
  BY <1>1, <1>2, <1>3, <1>4, BeforeLeast
<1> QED
  BY <1>5 DEF X

LEMMA NextOrder ==
    ASSUME Engine, OnErrorIdsOwn, Ordered, [Next]_vars, NEW c \in Steps
    PROVE  Order(c)'
<1>1. /\ c \in Callers /\ c \notin Execs /\ Exec(c) \in Execs
      /\ run[c] \in Runs /\ UNCHANGED scn /\ Order(c) /\ Exec(c)' = Exec(c)
      /\ scn \in Scenarios
  BY ScenarioFacts, PhaseFacts, FrameFacts DEF Engine, Steps, Ordered, Exec
<1>2. scn[c].deps \subseteq Steps
  BY <1>1, DepFacts
<1>3. run[c].phase = "pending" /\ run'[c].phase # "pending" =>
          Dispatch(c) \/ Skip(c)
  BY <1>1, WhoMoves, FromPending DEF Timeout
<1>4. run'[c].phase # "pending" =>
          \A d \in scn[c].deps : run[d].phase = "done" /\ run'[d].phase = "done"
  <2>1. run'[c].phase # "pending" => \A d \in scn[c].deps : run[d].phase = "done"
    BY <1>1, <1>3 DEF Order, Dispatch, Skip, Ready
  <2> QED
    BY <1>2, <2>1, DoneStays
<1>5. run'[c].phase # "done" /\ run'[c].handler = 0 => steps'[c] = "none"
  BY <1>1, NoneYet DEF Order
<1>6. run'[c].phase = "done" => firstErr'[Exec(c)] \/ Passed(c)'
  <2>1. CASE run[c].phase # "done"
    BY <2>1, DoneOrder
  <2>2. CASE run[c].phase = "done"
    BY <1>1, <2>2, ErrStays, PassedStays DEF Order
  <2> QED
    BY <2>1, <2>2
<1>7. ASSUME InProgress(c)', NEW d \in Before(scn, c)
      PROVE  Passed(d)'
  <2>1. \A x \in scn[c].deps : run[x].phase = "done"
    BY <1>4, <1>7 DEF InProgress
  <2>2. d \in Steps /\ Exec(d) = Exec(c) /\ run[d].phase = "done"
    BY <2>1, BeforeDone
  <2>3. CASE InProgress(c)
    BY <1>1, <2>2, <2>3, PassedStays DEF Order
  <2>4. CASE ~InProgress(c)
    <3>1. run[c].phase = "pending"
      BY <1>7, <2>4, DoneStays DEF InProgress
    <3>2. ASSUME Skip(c)
          PROVE  run'[c].phase = "done"
      BY <1>1, <3>2 DEF Skip, Settle, End, Engine, Runs
    <3>3. Dispatch(c)
      BY <1>3, <1>7, <3>1, <3>2 DEF InProgress
    <3>4. ~firstErr[Exec(c)]
      BY <3>3 DEF Dispatch
    <3> QED
      BY <2>2, <3>4, PassedStays DEF Ordered, Order
  <2> QED
    BY <2>3, <2>4
<1>8. Before(scn, c)' = Before(scn, c)
  BY <1>1
<1>9. InProgress(c)' => \A d \in Before(scn, c) : Passed(d)'
  BY <1>7
<1> QED
  BY <1>1, <1>4, <1>5, <1>6, <1>8, <1>9 DEF Order

LEMMA NextOrdered ==
    ASSUME OnErrorIdsOwn, Engine, Ordered, [Next]_vars
    PROVE  Ordered'
<1>1. /\ UNCHANGED scn /\ Steps' = Steps /\ Execs' = Execs /\ Execs \subseteq Callers
      /\ \A e \in Execs : StepsOf(e)' = StepsOf(e) /\ StepsOf(e) \subseteq Steps
  BY FrameFacts, ScenarioFacts DEF Engine, Steps, Callers, Execs, Exec, StepsOf
<1>2. \A c \in Steps : Order(c)'
  BY NextOrder
<1>3. ASSUME NEW e \in Execs, run'[e].phase # "pending", NEW s \in StepsOf(e)
      PROVE  run'[s].phase = "done"
  <2>1. CASE run[e].phase # "pending"
    BY <1>1, <2>1, DoneStays DEF Ordered
  <2>2. CASE run[e].phase = "pending"
    <3>1. ~(Dispatch(e) \/ Skip(e))
      BY DEF Dispatch, Skip, Ready, Steps
    <3>2. Handle(e)
      BY <1>1, <1>3, <2>2, <3>1, WhoMoves, FromPending DEF Timeout
    <3> QED
      BY <1>1, <3>2, DoneStays DEF Handle
  <2> QED
    BY <2>1, <2>2
<1>4. \A e \in Execs : run'[e].phase # "pending" =>
          \A s \in StepsOf(e) : run'[s].phase = "done"
  BY <1>3
<1> QED
  BY <1>1, <1>2, <1>4 DEF Ordered

LEMMA InitOrdered == Init => Ordered
<1> SUFFICES ASSUME Init PROVE Ordered
  OBVIOUS
<1>1. \A c \in Callers : run[c] = Idle
  BY DEF Init
<1>2. /\ Steps \subseteq Callers /\ Execs \subseteq Callers /\ Steps \subseteq Ids
  BY ScenarioFacts DEF Init
<1>3. steps = [i \in Ids |-> "none"]
  BY DEF Init
<1> QED
  BY <1>1, <1>2, <1>3 DEF Ordered, Order, InProgress, Idle

\* The order of the steps, whatever policies, conditions and retries they have: a
\* step starts when all it waits for, directly or through other steps, is over and
\* nothing of that has stopped the execution; what is over stays as it is; and the
\* on_error steps of the workflow come after all steps (dagLoop, executeOnError).
THEOREM OrderedHolds == ASSUME OnErrorIdsOwn PROVE Spec => []Ordered
<1>1. Init => Ordered
  BY InitOrdered
<1>2. Engine /\ Ordered /\ [Next]_vars => Ordered'
  BY NextOrdered
<1> QED
  BY <1>1, <1>2, EngineHolds, PTL DEF Spec

-----------------------------------------------------------------------------
(* What a success says *)

\* The operation a caller is in the middle of.
Shape(c) ==
    /\ run[c].phase = "connect" => Op(c).op = "begin"
    /\ run[c].phase = "finish" => Op(c).op \in {"commit", "rollback"}
    /\ run[c].phase \in {"miss", "ping", "pooled"} => NeedsPool(c)
    /\ run[c].phase = "select" => Op(c).op = "lock"

Shapes == \A c \in Callers : Shape(c)

LEMMA GoToFacts ==
    ASSUME Engine, NEW c \in Callers, NEW phase, GoTo(c, phase), UNCHANGED scn
    PROVE  run'[c].phase = phase /\ run'[c].handler = run[c].handler
           /\ Op(c)' = Op(c) /\ NeedsPool(c)' = NeedsPool(c)
<1>1. run'[c].phase = phase /\ run'[c].handler = run[c].handler
  BY PhaseFacts DEF GoTo, Engine, Runs
<1> QED
  BY <1>1 DEF Op, NeedsPool

LEMMA EndPhase ==
    ASSUME Engine, NEW c \in Callers, NEW result, NEW events, NEW err,
           End(c, result, events, err)
    PROVE  run'[c].phase = "done"
  BY PhaseFacts DEF End, Engine, Runs

LEMMA ProgressShape ==
    ASSUME Engine, NEW c \in Callers, Progress(c), Shape(c), UNCHANGED scn
    PROVE  Shape(c)'
<1>1. ASSUME run'[c].phase \in {"done", "call", "backoff", "given"}
      PROVE  Shape(c)'
  BY <1>1 DEF Shape
<1>2. CASE Skip(c) \/ WhenFalse(c) \/ WhenError(c) \/ Mock(c) \/ Reject(c)
           \/ NoAttempt(c)
  BY <1>1, <1>2, EndPhase
     DEF Skip, WhenFalse, WhenError, Mock, Reject, NoAttempt, Settle
<1>3. CASE Dispatch(c) \/ LockWake(c)
  BY <1>1, <1>3, GoToFacts DEF Dispatch, LockWake
<1>4. CASE Start(c) \/ RetryTimer(c)
  BY <1>1, <1>4, PhaseFacts DEF Start, RetryTimer, Attempt, Engine, Runs
<1>5. CASE RetryCancelled(c)
  BY <1>1, <1>5, FailPhase DEF RetryCancelled
<1>6. ASSUME NEW ok \in BOOLEAN, Return(c, ok)
      PROVE  Shape(c)'
  BY <1>1, <1>6, ReturnPhase
<1>7. CASE HandlerInvalid(c) \/ LoopReturns(c) \/ LockGivesUp(c) \/ Unlock(c)
           \/ KvRead(c) \/ KvWrite(c) \/ KvRemove(c) \/ Connected(c)
           \/ ConnectFails(c)
  <2>1. LoopReturns(c) => LoopOk(c, Op(c).loop) \in BOOLEAN
    BY OpFacts DEF LoopOk, Ops, Loops
  <2> QED
    BY <1>6, <1>7, <2>1
       DEF HandlerInvalid, LoopReturns, LockGivesUp, Unlock, KvRead, KvWrite,
           KvRemove, Connected, ConnectFails
<1>8. ASSUME NEW ok \in BOOLEAN, CallReturns(c, ok) \/ ExecInTx(c, ok)
                                 \/ ExecAlone(c, ok) \/ FinishTx(c, ok)
      PROVE  Shape(c)'
  BY <1>6, <1>8 DEF CallReturns, ExecInTx, ExecAlone, FinishTx
<1>9. ASSUME NEW phase, GoTo(c, phase),
             phase = "connect" => Op(c).op = "begin",
             phase = "finish" => Op(c).op \in {"commit", "rollback"},
             phase \in {"miss", "ping", "pooled"} => NeedsPool(c),
             phase = "select" => Op(c).op = "lock"
      PROVE  Shape(c)'
  <2>1. /\ run'[c].phase = phase /\ Op(c)' = Op(c)
        /\ NeedsPool(c)' = NeedsPool(c)
    BY <1>9, GoToFacts
  <2> QED
    BY <1>9, <2>1 DEF Shape
<1>10. CASE LockTry(c)
  <2>1. Op(c).op = "lock" /\ (Return(c, TRUE) \/ GoTo(c, "select"))
    BY <1>10 DEF LockTry, At
  <2> QED
    BY <1>6, <1>9, <2>1
<1>11. CASE PoolLook(c) \/ PoolSlow(c)
  <2>1. NeedsPool(c)
    BY <1>11 DEF PoolLook, PoolSlow, Shape
  <2>2. GoTo(c, "pooled") \/ GoTo(c, "miss") \/ GoTo(c, "ping")
    BY <1>11 DEF PoolLook, PoolSlow
  <2> QED
    BY <1>9, <2>1, <2>2
<1>12. ASSUME NEW ok \in BOOLEAN, PoolPing(c, ok)
       PROVE  Shape(c)'
  <2>1. NeedsPool(c) /\ (Return(c, FALSE) \/ GoTo(c, "pooled"))
    BY <1>12 DEF PoolPing, Shape
  <2> QED
    BY <1>6, <1>9, <2>1
<1>13. CASE Begin(c)
  <2>1. Op(c).op = "begin" /\ (Return(c, FALSE) \/ GoTo(c, "connect"))
    BY <1>13 DEF Begin, At
  <2> QED
    BY <1>6, <1>9, <2>1
<1>14. CASE TakeTx(c)
  <2>1. /\ Op(c).op \in {"commit", "rollback"}
        /\ Return(c, FALSE) \/ GoTo(c, "finish")
    BY <1>14 DEF TakeTx
  <2> QED
    BY <1>6, <1>9, <2>1
<1>15. ASSUME NEW i, NEW ok, LoopBegins(c, i) \/ LoopStep(c, i, ok)
       PROVE  Shape(c)'
  <2>1. run' = run /\ Op(c)' = Op(c) /\ NeedsPool(c)' = NeedsPool(c)
    BY <1>15 DEF LoopBegins, LoopStep, engine, Op, NeedsPool
  <2> QED
    BY <2>1 DEF Shape
<1> QED
  BY <1>2, <1>3, <1>4, <1>5, <1>7, <1>8, <1>10, <1>11, <1>12, <1>13, <1>14, <1>15
     DEF Progress

LEMMA NextShapes ==
    ASSUME Engine, Shapes, [Next]_vars
    PROVE  Shapes'
<1>1. UNCHANGED scn /\ Callers' = Callers
  BY FrameFacts DEF Callers
<1> SUFFICES ASSUME NEW c \in Callers PROVE Shape(c)'
  BY <1>1 DEF Shapes
<1>2. CASE run'[c] = run[c]
  BY <1>1, <1>2 DEF Shapes, Shape, Op, NeedsPool
<1>3. CASE Progress(c)
  BY <1>1, <1>3, ProgressShape DEF Shapes
<1>4. CASE Timeout(c)
  <2>1. run'[c].phase = run[c].phase /\ run'[c].handler = run[c].handler
    BY <1>4, PhaseFacts DEF Timeout, Engine, Runs
  <2> QED
    BY <1>1, <2>1 DEF Shapes, Shape, Op, NeedsPool
<1>5. CASE Handle(c)
  <2>1. run'[c].phase \in {"call", "done"}
    BY <1>5, PhaseFacts DEF Handle, Engine, Runs
  <2> QED
    BY <2>1 DEF Shape
<1> QED
  BY <1>2, <1>3, <1>4, <1>5, WhoMoves

LEMMA ShapesHold == Spec => []Shapes
<1>1. Init => Shapes
  BY DEF Init, Shapes, Shape, Idle
<1>2. Engine /\ Shapes /\ [Next]_vars => Shapes'
  BY NextShapes
<1> QED
  BY <1>1, <1>2, EngineHolds, PTL DEF Spec

\* A step that succeeds has done what its action is for.
Worked(c) ==
    /\ scn[c].op.op = "lock" => LockTry(c) /\ TakeLock(scn[c].op.key)
    /\ scn[c].op.op = "kv.get" => KvRead(c)
    /\ scn[c].op.op = "kv.set" => KvWrite(c)
    /\ scn[c].op.op = "commit" => FinishTx(c, TRUE)
    /\ scn[c].op.op = "exec" /\ scn[c].op.name # "" => ExecInTx(c, TRUE)

LEMMA ReturnSucceeds ==
    ASSUME Engine, OnErrorIdsOwn, NEW c \in Steps, NEW ok \in BOOLEAN, Return(c, ok),
           steps[c] # "success", steps'[c] = "success", scn[c].policy # "ignore"
    PROVE  /\ ok /\ run[c].handler = 0
           /\ run'[c].phase = "done" /\ run'[c].handler = 0
<1>1. c \in Callers /\ c \in Ids
  BY ScenarioFacts DEF Engine
<1>2. ASSUME NEW result, NEW events, NEW err, End(c, result, events, err)
      PROVE  /\ steps'[c] = result /\ run'[c].phase = "done"
             /\ run'[c].handler = run[c].handler
  BY <1>1, <1>2, PhaseFacts DEF End, Engine, Runs
<1>3. run[c].handler = 0
  <2>1. ASSUME run[c].handler # 0
        PROVE  steps'[c] = steps[c]
    BY <1>1, <2>1, HandlerFacts, HandedSteps DEF Return
  <2> QED
    BY <2>1
<1>4. ~Fail(c)
  <2>1. scn[c].onError = <<>> => ~Fail(c)
    BY <1>2 DEF Fail
  <2>2. scn[c].onError # <<>> => ~Fail(c)
    BY <1>1 DEF Fail, Engine
  <2> QED
    BY <2>1, <2>2
<1>5. ~Backoff(c)
  BY DEF Backoff
<1>6. ok /\ Succeed(c, <<>>)
  BY <1>3, <1>4, <1>5 DEF Return, ActionReturned
<1> QED
  BY <1>2, <1>3, <1>6 DEF Succeed

LEMMA Successes ==
    ASSUME Engine, OnErrorIdsOwn, Shapes, [Next]_vars, NEW c \in Steps,
           steps[c] # "success", steps'[c] = "success",
           scn[c].attempts > 0, scn[c].mock # "output", scn[c].policy # "ignore"
    PROVE  /\ run[c].handler = 0 /\ run[c].phase \in Busy
           /\ run'[c].phase = "done" /\ run'[c].handler = 0
           /\ Worked(c)
<1>1. c \in Callers /\ c \in Ids /\ Shape(c)
  BY ScenarioFacts DEF Engine, Shapes
<1>2. Progress(c)
  <2>1. ASSUME NEW d \in Callers, Progress(d), d # c
        PROVE  FALSE
    BY <2>1, ProgressMoves, MoveSteps
  <2>2. ASSUME \/ \E d \in Callers : TxAborts(d) \/ Timeout(d)
               \/ \E e \in Execs : Handle(e) \/ Finish(e) \/ Cancel(e)
               \/ \E k \in Keys : Expire(k)
               \/ UNCHANGED vars
        PROVE  steps' = steps
    BY <2>2 DEF TxAborts, Timeout, Handle, Finish, Cancel, Expire, Elsewhere, engine,
                vars
  <2> QED
    BY <2>1, <2>2 DEF Next, System, Conclude
<1>3. ASSUME NEW result, NEW events, NEW err, Settle(c, result, events, err)
      PROVE  result = "success"
  BY <1>1, <1>3 DEF Settle, End, Engine
<1>4. ~(Skip(c) \/ WhenFalse(c) \/ WhenError(c) \/ Mock(c) \/ Reject(c)
        \/ NoAttempt(c))
  <2>1. ~Skip(c) /\ ~WhenFalse(c) /\ ~WhenError(c) /\ ~Reject(c)
    BY <1>3 DEF Skip, WhenFalse, WhenError, Reject
  <2>2. ~Mock(c)
    BY <1>3 DEF Mock
  <2>3. ~NoAttempt(c)
    BY DEF NoAttempt
  <2> QED
    BY <2>1, <2>2, <2>3
<1>5. ~(Dispatch(c) \/ Start(c) \/ RetryTimer(c))
  BY DEF Dispatch, Start, RetryTimer, Attempt, Elsewhere
<1>6. ~RetryCancelled(c)
  BY <1>1 DEF RetryCancelled, Fail, End, Engine
<1>7. ASSUME NEW i, NEW ok
      PROVE  ~(LoopBegins(c, i) \/ LoopStep(c, i, ok))
  BY DEF LoopBegins, LoopStep, engine
<1>8. Returning(c)
  BY <1>2, <1>4, <1>5, <1>6, <1>7 DEF Progress, Returning
<1>9. Returned(c)
  BY <1>1, <1>8, ReturnMoves DEF GoesOn
<1>10. PICK ok \in BOOLEAN : Return(c, ok)
  BY <1>9 DEF Returned
<1>11. /\ run[c].handler = 0 /\ run[c].phase \in Busy
       /\ run'[c].phase = "done" /\ run'[c].handler = 0
  BY <1>9, <1>10, ReturnSucceeds DEF Returned
<1>12. Op(c) = scn[c].op
  BY <1>11 DEF Op
<1>13. /\ ~Return(c, FALSE) /\ ~Elsewhere
  BY ReturnSucceeds DEF Elsewhere
<1>14. ~(HandlerInvalid(c) \/ LockWake(c) \/ LockGivesUp(c) \/ PoolLook(c)
         \/ PoolSlow(c) \/ Begin(c) \/ TakeTx(c))
  BY <1>13 DEF HandlerInvalid, LockWake, LockGivesUp, PoolLook, PoolSlow, Begin,
               TakeTx
<1>15. ASSUME NEW b \in BOOLEAN
       PROVE  ~PoolPing(c, b)
  BY <1>13 DEF PoolPing
<1>16. ASSUME LoopReturns(c) \/ Unlock(c) \/ KvRemove(c)
       PROVE  Worked(c)
  <2>1. Op(c).op \in {"loop", "unlock", "kv.delete"}
    BY <1>16 DEF LoopReturns, Unlock, KvRemove, At
  <2> QED
    BY <1>12, <2>1 DEF Worked
<1>17. ASSUME LockTry(c)
       PROVE  Worked(c)
  <2>1. Op(c).op = "lock" /\ TakeLock(Op(c).key)
    BY <1>13, <1>17 DEF LockTry, At
  <2> QED
    BY <1>12, <1>17, <2>1 DEF Worked
<1>18. ASSUME KvRead(c) \/ KvWrite(c)
       PROVE  Worked(c)
  <2>1. /\ KvRead(c) => Op(c).op = "kv.get"
        /\ KvWrite(c) => Op(c).op = "kv.set"
    BY DEF KvRead, KvWrite, At
  <2> QED
    BY <1>12, <1>18, <2>1 DEF Worked
<1>19. ASSUME Connected(c) \/ ConnectFails(c)
       PROVE  Worked(c)
  <2>1. Op(c).op = "begin"
    BY <1>1, <1>19 DEF Connected, ConnectFails, Shape
  <2> QED
    BY <1>12, <2>1 DEF Worked
<1>20. ASSUME NEW b \in BOOLEAN, CallReturns(c, b)
       PROVE  Worked(c)
  BY <1>12, <1>20 DEF CallReturns, At, Worked
<1>21. ASSUME NEW b \in BOOLEAN, ExecInTx(c, b)
       PROVE  Worked(c)
  <2>1. b = TRUE /\ Op(c).op = "exec"
    BY <1>13, <1>21 DEF ExecInTx, At
  <2> QED
    BY <1>12, <1>21, <2>1 DEF Worked
<1>22. ASSUME NEW b \in BOOLEAN, ExecAlone(c, b)
       PROVE  Worked(c)
  <2>1. Op(c).op = "exec" /\ Op(c).name = ""
    BY <1>1, <1>22 DEF ExecAlone, At, Shape, NeedsPool
  <2> QED
    BY <1>12, <2>1 DEF Worked
<1>23. ASSUME NEW b \in BOOLEAN, FinishTx(c, b)
       PROVE  Worked(c)
  <2>1. b = TRUE /\ Op(c).op \in {"commit", "rollback"}
    BY <1>1, <1>13, <1>23 DEF FinishTx, Shape
  <2> QED
    BY <1>12, <1>23, <2>1 DEF Worked
<1>24. Worked(c)
  BY <1>8, <1>14, <1>15, <1>16, <1>17, <1>18, <1>19, <1>20, <1>21, <1>22, <1>23
     DEF Returning
<1> QED
  BY <1>11, <1>24

-----------------------------------------------------------------------------
(* Where a caller can go *)

\* On_error steps are run one after the other, and a step that has left the
\* queue, or started its attempts, does not go back.
LEMMA OnlyForward ==
    ASSUME Engine, [Next]_vars, NEW c \in Callers
    PROVE  /\ run[c].handler <= run'[c].handler
           /\ run[c].phase # "pending" => run'[c].phase # "pending"
           /\ run[c].handler = 0 /\ run'[c].handler # 0 => run'[c].handler = 1
           /\ run[c].attempt <= run'[c].attempt
<1>1. run[c] \in Runs /\ run[c].handler \in Nat /\ run[c].attempt \in Nat /\ Place(c)
  BY PhaseFacts DEF Engine, Runs
<1> DEFINE Forward == /\ run[c].handler <= run'[c].handler
                      /\ run[c].phase # "pending" => run'[c].phase # "pending"
                      /\ run[c].handler = 0 /\ run'[c].handler # 0 =>
                            run'[c].handler = 1
                      /\ run[c].attempt <= run'[c].attempt
<1>2. CASE run'[c] = run[c]
  BY <1>1, <1>2
<1>3. ASSUME NEW result \in Results, NEW events \in Seq(Events),
             NEW err \in BOOLEAN, End(c, result, events, err)
      PROVE  Forward
  BY <1>1, <1>3, EndFacts
<1>4. ASSUME Fail(c), run[c].handler = 0
      PROVE  Forward
  <2>1. \A result \in {"success", "failed"} :
            result \in Results /\ <<EventOf(result)>> \in Seq(Events)
    BY OneEvent DEF Results, EventOf, Events
  <2>2. CASE Failed(c)
    BY <1>1, <1>4, <2>2 DEF Failed
  <2> QED
    BY <1>3, <1>4, <2>1, <2>2, FailFacts
<1>5. ASSUME HandlerReturned(c, TRUE) \/ HandlerReturned(c, FALSE),
             run[c].handler # 0
      PROVE  Forward
  <2> DEFINE last == run[c].handler = Len(scn[c].onError)
  <2>1. PICK err \in BOOLEAN :
            run' = [run EXCEPT
               ![c].handler = IF last THEN run[c].handler ELSE run[c].handler + 1,
               ![c].phase = IF last THEN "done" ELSE "call",
               ![c].err = err]
    BY <1>5 DEF HandlerReturned, Stops
  <2>2. /\ run'[c].handler = IF last THEN run[c].handler ELSE run[c].handler + 1
        /\ run'[c].phase # "pending" /\ run'[c].attempt = run[c].attempt
    BY <1>1, <2>1 DEF Engine, Runs
  <2> QED
    BY <1>1, <1>5, <2>2
<1>6. ASSUME NEW ok \in BOOLEAN, Return(c, ok)
      PROVE  Forward
  <2>1. CASE run[c].handler # 0
    BY <1>5, <1>6, <2>1 DEF Return
  <2>2. CASE run[c].handler = 0
    <3>1. CASE ok /\ Succeed(c, <<>>)
      <4>1. PICK events \in Seq(Events) : events = <<>> \o <<"completed">>
        <5>1. <<"completed">> \in Seq(Events) /\ <<>> \in Seq(Events)
          BY OneEvent DEF Events
        <5> QED
          BY <5>1, Joined
      <4>2. PICK err \in BOOLEAN : err = ExpectFails(c, "success")
        BY DEF ExpectFails
      <4>3. End(c, "success", events, err)
        BY <3>1, <4>1, <4>2 DEF Succeed
      <4> QED
        BY <1>3, <4>3 DEF Results
    <3>2. CASE Backoff(c)
      BY <1>1, <3>2, BackoffFacts
    <3> QED
      BY <1>4, <1>6, <2>2, <3>1, <3>2 DEF Return, ActionReturned
  <2> QED
    BY <2>1, <2>2
<1>7. CASE Moves(c)
  <2>1. CASE Settled(c)
    BY <1>3, <2>1 DEF Settled
  <2>2. CASE GivesUp(c)
    BY <1>1, <1>4, <2>2 DEF GivesUp, Place
  <2>3. CASE Returned(c)
    BY <1>6, <2>3 DEF Returned
  <2>4. CASE Dispatched(c) \/ Begins(c) \/ GoesOn(c) \/ TimedOut(c) \/ Iterates(c)
    <3>1. ~Iterates(c) \/ run' = run
      BY DEF Iterates
    <3>2. CASE Begins(c)
      <4>1. /\ run'[c].handler = run[c].handler /\ run'[c].phase = "call"
            /\ run'[c].attempt = run[c].attempt + 1
        BY <1>1, <3>2 DEF Begins, Engine, Runs
      <4> QED
        BY <1>1, <4>1
    <3>3. CASE Dispatched(c) \/ GoesOn(c) \/ TimedOut(c)
      <4>1. /\ run'[c].handler = run[c].handler
            /\ run'[c].attempt = run[c].attempt
        BY <1>1, <3>3 DEF Dispatched, GoesOn, TimedOut, GoTo, Engine, Runs
      <4>2. run[c].phase # "pending" => run'[c].phase # "pending"
        BY <1>1, <3>3 DEF Dispatched, GoesOn, TimedOut, GoTo, Engine, Runs, Busy
      <4> QED
        BY <1>1, <4>1, <4>2
    <3> QED
      BY <1>2, <2>4, <3>1, <3>2, <3>3
  <2>5. CASE Handled(c)
    <3>1. \/ run'[c] = [run[c] EXCEPT !.phase = "call", !.handler = 1]
          \/ run'[c] = [run[c] EXCEPT !.phase = "done"]
      BY <2>5 DEF Handled, Engine
    <3>2. run[c].handler = 0
      BY <1>1, <2>5 DEF Handled, Place
    <3>3. /\ run'[c].handler \in {0, 1} /\ run'[c].phase \in {"call", "done"}
          /\ run'[c].attempt = run[c].attempt
      BY <1>1, <3>1, <3>2 DEF Runs
    <3>4. run[c].attempt <= run[c].attempt /\ 0 <= run'[c].handler
      BY <1>1, <3>3
    <3> QED
      BY <3>2, <3>3, <3>4
  <2> QED
    BY <1>7, <2>1, <2>2, <2>3, <2>4, <2>5 DEF Moves
<1>8. ASSUME NEW d \in Callers, Moves(d), c # d
      PROVE  run'[c] = run[c]
  BY <1>8, MoveTyped DEF Typed
<1>9. CASE UNCHANGED <<run, steps, firstErr, iter>>
  BY <1>2, <1>9
<1> QED
  BY <1>2, <1>7, <1>8, <1>9, NextMoves

\* A step whose action has been called has begun an attempt.
Tried(c) == run[c].phase \notin {"pending", "given", "done"} => run[c].attempt > 0

Attempting == \A c \in Steps : Tried(c)

LEMMA NextTried ==
    ASSUME Engine, [Next]_vars, NEW c \in Steps, Tried(c)
    PROVE  Tried(c)'
<1>1. c \in Callers /\ run[c] \in Runs /\ run[c].attempt \in Nat
      /\ run'[c].attempt \in Nat /\ Place(c)
  <2>1. c \in Callers
    BY ScenarioFacts DEF Engine
  <2>2. run' \in [Callers -> Runs]
    BY NextMoves, MoveTyped DEF Typed, Engine
  <2> QED
    BY <2>1, <2>2, PhaseFacts DEF Engine, Runs
<1>2. run[c].attempt <= run'[c].attempt
  BY <1>1, OnlyForward
<1>3. CASE run[c].phase \notin {"pending", "given", "done"}
  BY <1>1, <1>2, <1>3 DEF Tried
<1>4. ASSUME NEW d \in Callers, Moves(d), c # d
      PROVE  run'[c] = run[c]
  BY <1>1, <1>4, MoveTyped DEF Typed
<1>5. CASE Moves(c) /\ run[c].phase \in {"pending", "given", "done"}
  <2>1. CASE Settled(c)
    BY <1>1, <2>1, EndFacts DEF Settled, Tried
  <2>2. CASE Dispatched(c) \/ TimedOut(c)
    BY <1>1, <1>5, <2>2 DEF Dispatched, TimedOut, GoTo, Engine, Runs, Tried
  <2>3. CASE Begins(c)
    <3>1. run'[c].attempt = run[c].attempt + 1
      BY <1>1, <2>3 DEF Begins, Engine, Runs
    <3> QED
      BY <1>1, <3>1 DEF Tried
  <2>4. ~GivesUp(c) /\ ~Returned(c) /\ ~GoesOn(c) /\ ~Iterates(c) /\ ~Handled(c)
    BY <1>5 DEF GivesUp, Returned, GoesOn, Iterates, Handled, Busy, Steps
  <2> QED
    BY <1>5, <2>1, <2>2, <2>3, <2>4 DEF Moves
<1>6. CASE run'[c] = run[c]
  BY <1>6 DEF Tried
<1> QED
  BY <1>3, <1>4, <1>5, <1>6, NextMoves

LEMMA AttemptingHolds == Spec => []Attempting
<1>1. Init => Attempting
  BY ScenarioFacts DEF Init, Attempting, Tried, Idle
<1>2. Engine /\ Attempting /\ [Next]_vars => Attempting'
  <2> SUFFICES ASSUME Engine, Attempting, [Next]_vars PROVE Attempting'
    OBVIOUS
  <2>1. Steps' = Steps
    BY FrameFacts DEF Steps, Callers, Execs, Exec
  <2> QED
    BY <2>1, NextTried DEF Attempting
<1> QED
  BY <1>1, <1>2, EngineHolds, PTL DEF Spec

-----------------------------------------------------------------------------
(* Whose a transaction is *)

\* The actions that touch transactions.
Transacts(c) ==
    \/ /\ Begin(c) /\ reg[Exec(c)][Op(c).name] = NoOne
       /\ GoTo(c, "connect") /\ BeginLocks(c, Exec(c))
    \/ Connected(c)
    \/ ConnectFails(c)
    \/ TakeTx(c) /\ GoTo(c, "finish") /\ Unregister(c, Exec(c), Op(c).name)
    \/ \E ok \in BOOLEAN : ExecInTx(c, ok) \/ ExecAlone(c, ok) \/ FinishTx(c, ok)
    \/ TxAborts(c)

\* A transaction is in the registry of the execution that began it; a begin
\* waits for its connection with the registry's mutex and a free name; a step
\* whose action goes on has no transaction yet.
Own ==
    /\ \A e \in Execs, n \in Names : reg[e][n] # NoOne => Exec(reg[e][n]) = e
    /\ \A c \in Callers :
          /\ run[c].phase = "connect" =>
                busy[Exec(c)] = c /\ reg[Exec(c)][Op(c).name] = NoOne
          /\ tx[c].st = "none" => tx[c].dirty = {}
          /\ c \in Steps /\ run[c].phase # "done" /\ run[c].handler = 0 =>
                tx[c].st = "none"

LEMMA NextTransacts ==
    ASSUME [Next]_vars
    PROVE  (\E c \in Callers : Transacts(c)) \/ UNCHANGED txVars
<1>1. ASSUME NEW c \in Callers, Progress(c)
      PROVE  Transacts(c) \/ UNCHANGED txVars
  <2>1. CASE Dispatch(c) \/ Start(c) \/ RetryTimer(c) \/ RetryCancelled(c)
    BY <2>1 DEF Dispatch, Start, RetryTimer, RetryCancelled, Attempt, services
  <2>2. CASE Skip(c) \/ WhenFalse(c) \/ WhenError(c) \/ Mock(c) \/ Reject(c)
             \/ NoAttempt(c)
    BY <2>2 DEF Skip, WhenFalse, WhenError, Mock, Reject, NoAttempt, Settle,
                services
  <2>3. CASE HandlerInvalid(c) \/ LoopReturns(c) \/ LockTry(c) \/ LockWake(c)
             \/ LockGivesUp(c) \/ Unlock(c)
    BY <2>3 DEF HandlerInvalid, LoopReturns, LockTry, LockWake, LockGivesUp,
                Unlock, services
  <2>4. CASE KvRead(c) \/ KvWrite(c) \/ KvRemove(c) \/ PoolLook(c)
             \/ PoolSlow(c)
    BY <2>4 DEF KvRead, KvWrite, KvRemove, PoolLook, PoolSlow, services
  <2>5. CASE Begin(c)
    BY <2>5 DEF Begin, NameTaken, Transacts
  <2>6. CASE Connected(c) \/ ConnectFails(c)
    BY <2>6 DEF Transacts
  <2>7. CASE TakeTx(c)
    BY <2>7 DEF TakeTx, Transacts
  <2>8. ASSUME NEW ok \in BOOLEAN, CallReturns(c, ok) \/ PoolPing(c, ok)
        PROVE  UNCHANGED txVars
    BY <2>8 DEF CallReturns, PoolPing, services
  <2>9. ASSUME NEW i, NEW ok, LoopBegins(c, i) \/ LoopStep(c, i, ok)
        PROVE  UNCHANGED txVars
    BY <2>9 DEF LoopBegins, LoopStep, services
  <2>10. ASSUME NEW ok \in BOOLEAN,
                ExecInTx(c, ok) \/ ExecAlone(c, ok) \/ FinishTx(c, ok)
         PROVE  Transacts(c)
    BY <2>10 DEF Transacts
  <2> QED
    BY <1>1, <2>1, <2>2, <2>3, <2>4, <2>5, <2>6, <2>7, <2>8, <2>9, <2>10
       DEF Progress
<1>2. ASSUME NEW c \in Callers, TxAborts(c)
      PROVE  Transacts(c)
  BY <1>2 DEF Transacts
<1>3. ASSUME NEW c, Timeout(c) \/ Conclude(c) \/ Cancel(c) \/ Expire(c)
                    \/ UNCHANGED vars
      PROVE  UNCHANGED txVars
  BY <1>3 DEF Timeout, Conclude, Handle, Finish, Cancel, Expire, services, vars
<1> QED
  BY <1>1, <1>2, <1>3 DEF Next, System

\* Who waits for a connection has come there with the mutex.
LEMMA Connects ==
    ASSUME Engine, [Next]_vars, NEW c \in Callers, run'[c].phase = "connect"
    PROVE  \/ run[c].phase = "connect" /\ run'[c].handler = run[c].handler
           \/ /\ Begin(c) /\ reg[Exec(c)][Op(c).name] = NoOne
              /\ GoTo(c, "connect") /\ BeginLocks(c, Exec(c))
<1>1. run[c] \in Runs
  BY PhaseFacts
<1>2. CASE run'[c] = run[c]
  BY <1>2
<1>3. CASE Timeout(c) \/ Handle(c)
  <2>1. Timeout(c) =>
            run'[c].phase = run[c].phase /\ run'[c].handler = run[c].handler
    BY <1>1 DEF Timeout, Engine, Runs
  <2>2. Handle(c) => run'[c].phase \in {"call", "done"}
    BY <1>1 DEF Handle, Engine, Runs
  <2> QED
    BY <1>3, <2>1, <2>2
<1>4. ASSUME NEW ok \in BOOLEAN
      PROVE  ~Return(c, ok)
  BY ReturnPhase
<1>5. ASSUME NEW phase, phase # "connect"
      PROVE  ~GoTo(c, phase)
  BY <1>1, <1>5 DEF GoTo, Engine, Runs
<1>6. ~(Dispatch(c) \/ LockWake(c) \/ PoolLook(c) \/ PoolSlow(c))
  <2>1. ~Dispatch(c) /\ ~LockWake(c)
    BY <1>5 DEF Dispatch, LockWake
  <2>2. ~PoolLook(c)
    <3>1. PoolLook(c) => GoTo(c, "pooled") \/ GoTo(c, "miss")
      BY DEF PoolLook
    <3> QED
      BY <1>5, <3>1
  <2>3. ~PoolSlow(c)
    <3>1. PoolSlow(c) => GoTo(c, "pooled") \/ GoTo(c, "ping")
      BY DEF PoolSlow
    <3> QED
      BY <1>5, <3>1
  <2> QED
    BY <2>1, <2>2, <2>3
<1>7. ~(Skip(c) \/ WhenFalse(c) \/ WhenError(c) \/ Mock(c) \/ Reject(c)
        \/ NoAttempt(c))
  <2>1. ASSUME NEW result, NEW events, NEW err
        PROVE  ~Settle(c, result, events, err)
    BY EndPhase DEF Settle
  <2> QED
    BY <2>1 DEF Skip, WhenFalse, WhenError, Mock, Reject, NoAttempt
<1>8. ~(Start(c) \/ RetryTimer(c) \/ RetryCancelled(c))
  <2>1. ~Start(c) /\ ~RetryTimer(c)
    BY <1>1 DEF Start, RetryTimer, Attempt, Engine, Runs
  <2>2. ~RetryCancelled(c)
    BY FailPhase DEF RetryCancelled
  <2> QED
    BY <2>1, <2>2
<1>9. ~(HandlerInvalid(c) \/ LockTry(c) \/ LockGivesUp(c)
        \/ Unlock(c) \/ KvRead(c) \/ KvWrite(c) \/ KvRemove(c) \/ Connected(c)
        \/ ConnectFails(c) \/ TakeTx(c))
  BY <1>4, <1>5 DEF HandlerInvalid, LockTry, LockGivesUp, Unlock,
         KvRead, KvWrite, KvRemove, Connected, ConnectFails, TakeTx
<1>10. ~LoopReturns(c)
  <2>1. LoopReturns(c) => LoopOk(c, Op(c).loop) \in BOOLEAN
    BY OpFacts DEF LoopOk, Ops, Loops
  <2> QED
    BY <1>4, <2>1 DEF LoopReturns
<1>11. ASSUME NEW ok \in BOOLEAN
       PROVE  ~(CallReturns(c, ok) \/ PoolPing(c, ok) \/ ExecInTx(c, ok)
                \/ ExecAlone(c, ok) \/ FinishTx(c, ok))
  BY <1>4, <1>5 DEF CallReturns, PoolPing, ExecInTx, ExecAlone, FinishTx
<1>12. ASSUME NEW i, NEW ok, LoopBegins(c, i) \/ LoopStep(c, i, ok)
       PROVE  run' = run
  BY <1>12 DEF LoopBegins, LoopStep, engine
<1>13. CASE Begin(c)
  BY <1>4, <1>13 DEF Begin, NameTaken
<1> QED
  BY <1>2, <1>3, <1>6, <1>7, <1>8, <1>9, <1>10, <1>11, <1>12, <1>13, WhoMoves
     DEF Progress

\* What is done to transactions, by the caller who does it.
LEMMA TransactFacts ==
    ASSUME Engine, Shapes, Registered, Own, NEW d \in Callers, Transacts(d)
    PROVE  /\ \A e \in Execs, n \in Names :
                 \/ reg'[e][n] = reg[e][n]
                 \/ /\ Connected(d) /\ e = Exec(d) /\ n = Op(d).name
                    /\ reg'[e][n] = d
                 \/ /\ TakeTx(d) /\ e = Exec(d) /\ n = Op(d).name
                    /\ GoTo(d, "finish") /\ reg'[e][n] = NoOne
           /\ \A t \in Callers :
                 \/ /\ tx[t].dirty \subseteq tx'[t].dirty
                    /\ tx'[t].st = "none" => tx[t].st = "none"
                    /\ tx[t].st = "none" => tx'[t] = tx[t]
                 \/ Connected(d) /\ t = d /\ tx'[t].st = "open"
           /\ \A e \in Execs :
                 \/ busy'[e] = busy[e]
                 \/ busy[e] = NoOne
                 \/ busy[e] = d /\ (Connected(d) \/ ConnectFails(d))
           /\ rows \subseteq rows'
<1>1. /\ reg \in [Execs -> [Names -> Callers \cup {NoOne}]]
      /\ busy \in [Execs -> Callers \cup {NoOne}]
      /\ tx \in [Callers -> [st : TxStates, dirty : SUBSET Callers]]
      /\ taken \in [Callers -> Callers \cup {NoOne}]
      /\ Exec(d) \in Execs
  BY ScenarioFacts DEF Registered, Engine
<1>2. CASE BeginLocks(d, Exec(d)) /\ Begin(d)
  BY <1>1, <1>2 DEF BeginLocks, Begin, RegistryFree
<1>3. CASE Connected(d)
  <2>1. Op(d).name \in Names
    BY <1>3, OpFacts DEF Connected, Shapes, Shape, Ops
  <2>2. /\ busy[Exec(d)] = d
        /\ busy' = [busy EXCEPT ![Exec(d)] = NoOne]
        /\ reg' = [reg EXCEPT ![Exec(d)][Op(d).name] = d]
        /\ tx' = [tx EXCEPT ![d] = [st |-> "open", dirty |-> {}]]
        /\ rows' = rows
    BY <1>3 DEF Connected, Began
  <2>3. \A e \in Execs, n \in Names :
            \/ reg'[e][n] = reg[e][n]
            \/ e = Exec(d) /\ n = Op(d).name /\ reg'[e][n] = d
    BY <1>1, <2>1, <2>2
  <2>4. \A t \in Callers : (t = d /\ tx'[t].st = "open") \/ tx'[t] = tx[t]
    BY <1>1, <2>2
  <2>5. \A e \in Execs : busy'[e] = busy[e] \/ busy[e] = d
    BY <1>1, <2>2
  <2> QED
    BY <1>3, <2>2, <2>3, <2>4, <2>5
<1>4. CASE ConnectFails(d)
  BY <1>1, <1>4 DEF ConnectFails, BeginFailed
<1>5. CASE TakeTx(d) /\ GoTo(d, "finish") /\ Unregister(d, Exec(d), Op(d).name)
  <2>1. Op(d).name \in Names
    BY <1>5, OpFacts DEF TakeTx, Ops
  <2> QED
    BY <1>1, <1>5, <2>1 DEF Unregister
<1>6. ASSUME NEW ok \in BOOLEAN, ExecInTx(d, ok)
      PROVE  /\ UNCHANGED <<reg, busy, rows>>
             /\ \A t \in Callers :
                   /\ tx[t].dirty \subseteq tx'[t].dirty /\ tx'[t].st = tx[t].st
                   /\ tx[t].st = "none" => tx'[t] = tx[t]
  <2>1. UNCHANGED txVars \/ \E t : WriteIn(t, d)
    BY <1>6 DEF ExecInTx
  <2>2. ASSUME NEW t, WriteIn(t, d)
        PROVE  /\ UNCHANGED <<reg, busy, rows>>
               /\ \A s \in Callers :
                     /\ tx[s].dirty \subseteq tx'[s].dirty /\ tx'[s].st = tx[s].st
                     /\ tx[s].st = "none" => tx'[s] = tx[s]
    BY <1>1, <2>2 DEF WriteIn
  <2> QED
    BY <2>1, <2>2 DEF txVars
<1>7. ASSUME NEW ok \in BOOLEAN, ExecAlone(d, ok)
      PROVE  UNCHANGED <<reg, busy, tx>> /\ rows \subseteq rows'
  BY <1>7 DEF ExecAlone, WriteAlone, txVars
<1>8. ASSUME NEW ok \in BOOLEAN, FinishTx(d, ok)
      PROVE  /\ UNCHANGED <<reg, busy>> /\ rows \subseteq rows'
             /\ \A t \in Callers :
                   /\ tx'[t].dirty = tx[t].dirty
                   /\ tx'[t].st = "none" => tx[t].st = "none"
                   /\ tx[t].st = "none" => tx'[t] = tx[t]
  <2>1. EndTxFails(d) \/ \E st \in {"committed", "over"} : EndTx(d, st)
    BY <1>8 DEF FinishTx, Ends
  <2>2. ASSUME NEW st \in {"committed", "over"}, EndTx(d, st)
        PROVE  /\ UNCHANGED <<reg, busy>> /\ rows \subseteq rows'
               /\ \A t \in Callers :
                     /\ tx'[t].dirty = tx[t].dirty
                     /\ tx'[t].st = "none" => tx[t].st = "none"
                     /\ tx[t].st = "none" => tx'[t] = tx[t]
    <3>1. /\ tx[taken[d]].st = "open"
          /\ tx' = [tx EXCEPT ![taken[d]].st = st]
          /\ rows' = rows \/ rows' = rows \cup tx[taken[d]].dirty
          /\ UNCHANGED <<reg, busy>>
      BY <2>2 DEF EndTx, Committed
    <3> QED
      BY <1>1, <3>1
  <2> QED
    BY <2>1, <2>2 DEF EndTxFails
<1>9. CASE TxAborts(d)
  BY <1>1, <1>9 DEF TxAborts, AbortTx
<1> QED
  BY <1>2, <1>3, <1>4, <1>5, <1>6, <1>7, <1>8, <1>9 DEF Transacts

LEMMA NextOwn ==
    ASSUME OnErrorIdsOwn, Engine, Shapes, Ordered, Registered, Own, [Next]_vars
    PROVE  Own'
<1>1. /\ UNCHANGED scn /\ Callers' = Callers /\ Execs' = Execs /\ Steps' = Steps
      /\ \A c \in Callers : Exec(c)' = Exec(c) /\ Exec(c) \in Execs
      /\ NoOne \notin Callers
  BY FrameFacts, ScenarioFacts DEF Callers, Execs, Exec, Steps, Engine
<1>2. ASSUME NEW d \in Callers, Connected(d) \/ ConnectFails(d)
      PROVE  /\ run'[d].phase # "connect" /\ busy[Exec(d)] = d
             /\ Connected(d) => Op(d).name \in Names
  <2>1. run'[d].phase # "connect"
    BY <1>2, ReturnPhase DEF Connected, ConnectFails
  <2>2. Connected(d) => Op(d).name \in Names
    BY OpFacts DEF Connected, Shapes, Shape, Ops
  <2> QED
    BY <1>2, <2>1, <2>2 DEF Connected, ConnectFails, Began, BeginFailed
<1>3. ASSUME NEW e \in Execs, NEW n \in Names, reg'[e][n] # NoOne
      PROVE  Exec(reg'[e][n]) = e
  <2>1. CASE reg'[e][n] = reg[e][n]
    BY <1>3, <2>1 DEF Own
  <2> QED
    BY <1>3, <2>1, TransactFacts, NextTransacts DEF txVars
<1>4. ASSUME NEW c \in Callers, run'[c].phase = "connect"
      PROVE  busy'[Exec(c)] = c /\ reg'[Exec(c)][Op(c)'.name] = NoOne
  <2>1. CASE /\ Begin(c) /\ reg[Exec(c)][Op(c).name] = NoOne
             /\ GoTo(c, "connect") /\ BeginLocks(c, Exec(c))
    <3>1. Op(c)' = Op(c)
      BY <1>1, <2>1, GoToFacts
    <3> QED
      BY <1>1, <2>1, <3>1 DEF BeginLocks, Registered
  <2>2. CASE run[c].phase = "connect" /\ run'[c].handler = run[c].handler
    <3>1. Op(c)' = Op(c)
      BY <1>1, <2>2 DEF Op
    <3>2. /\ busy[Exec(c)] = c /\ reg[Exec(c)][Op(c).name] = NoOne
          /\ Op(c).name \in Names
      BY <2>2, OpFacts DEF Own, Shapes, Shape, Ops
    <3>3. ASSUME NEW d \in Callers, Transacts(d)
          PROVE  busy'[Exec(c)] = c /\ reg'[Exec(c)][Op(c).name] = NoOne
      <4>1. Connected(d) \/ ConnectFails(d) => Exec(d) # Exec(c)
        BY <1>2, <1>4, <3>2
      <4>2. busy'[Exec(c)] = c
        BY <1>1, <1>2, <3>2, <3>3, <4>1, TransactFacts
      <4>3. reg'[Exec(c)][Op(c).name] = NoOne
        BY <1>1, <3>2, <3>3, <4>1, TransactFacts
      <4> QED
        BY <4>2, <4>3
    <3> QED
      BY <3>1, <3>2, <3>3, NextTransacts DEF txVars
  <2> QED
    BY <1>4, <2>1, <2>2, Connects
<1>5. ASSUME NEW c \in Callers, tx'[c].st = "none"
      PROVE  tx'[c].dirty = {}
  <2>1. tx'[c] = tx[c]
    BY <1>5, TransactFacts, NextTransacts DEF txVars
  <2> QED
    BY <1>5, <2>1 DEF Own
<1>6. ASSUME NEW c \in Steps, run'[c].phase # "done", run'[c].handler = 0
      PROVE  tx'[c].st = "none"
  <2>1. c \in Callers /\ Order(c)
    BY <1>1, ScenarioFacts DEF Engine, Ordered
  <2>2. run[c].phase # "done" /\ run[c].handler = 0
    BY <1>6, <2>1, NoneYet DEF Order
  <2>3. tx[c].st = "none"
    BY <2>1, <2>2 DEF Own
  <2>4. ~Connected(c)
    <3> SUFFICES ASSUME Connected(c) PROVE FALSE
      OBVIOUS
    <3>1. Succeed(c, <<>>)
      BY <2>2 DEF Connected, Return, ActionReturned
    <3> QED
      BY <1>6, <2>1, <3>1, EndPhase DEF Succeed
  <2> QED
    BY <2>1, <2>3, <2>4, TransactFacts, NextTransacts DEF txVars
<1>7. (\A e \in Execs, n \in Names : reg[e][n] # NoOne => Exec(reg[e][n]) = e)'
  BY <1>1, <1>3 DEF Exec
<1>8. (\A c \in Callers :
          /\ run[c].phase = "connect" =>
                busy[Exec(c)] = c /\ reg[Exec(c)][Op(c).name] = NoOne
          /\ tx[c].st = "none" => tx[c].dirty = {}
          /\ c \in Steps /\ run[c].phase # "done" /\ run[c].handler = 0 =>
                tx[c].st = "none")'
  BY <1>1, <1>4, <1>5, <1>6
<1> QED
  BY <1>7, <1>8 DEF Own

\* The registry of an execution has its own transactions, and the mutex it holds
\* across BeginTx keeps two begins from taking one name (MemoryTxRegistry.Begin).
THEOREM OwnHolds == ASSUME OnErrorIdsOwn PROVE Spec => []Own
<1>1. Init => Own
  <2> SUFFICES ASSUME Init PROVE Own
    OBVIOUS
  <2>1. /\ \A e \in Execs, n \in Names : reg[e][n] = NoOne
        /\ \A c \in Callers : tx[c] = [st |-> "none", dirty |-> {}]
    BY DEF Init, ServicesInit
  <2>2. \A c \in Callers : run[c].phase = "pending"
    BY DEF Init, Idle
  <2> QED
    BY <2>1, <2>2, ScenarioFacts DEF Own, Init
<1>2. OnErrorIdsOwn /\ Engine /\ Shapes /\ Ordered /\ Registered /\ Own
          /\ [Next]_vars => Own'
  BY NextOwn
<1> QED
  BY <1>1, <1>2, EngineHolds, ShapesHold, OrderedHolds, RegisteredHolds, PTL
     DEF Spec

-----------------------------------------------------------------------------
(* What a commit keeps *)

\* The transaction c is to commit is registered and has what w wrote.
InTx(c, w) == LET t == reg[Exec(c)][scn[c].op.name]
              IN  t # NoOne /\ w \in tx[t].dirty

\* A step c waits for has failed and runs its on_error steps: c never runs.
Halted(c) == \E d \in Before(scn, c) : Stops(d) /\ run[d].handler > 0

Committing(c, w) ==
    /\ run[c].phase = "pending" => Halted(c) \/ InTx(c, w)
    /\ InProgress(c) /\ run[c].handler = 0 /\ run[c].phase # "finish" => InTx(c, w)
    /\ run[c].phase = "finish" /\ run[c].handler = 0 =>
          /\ taken[c] \in Callers /\ Exec(taken[c]) = Exec(c)
          /\ w \in tx[taken[c]].dirty
    /\ Acts(c) => w \in rows

Commits ==
    \A c \in Steps : scn[c].op.op = "commit" =>
        \A w \in scn[c].deps :
            (/\ scn[w].op.op = "exec" /\ scn[w].op.name = scn[c].op.name
             /\ Acts(w)) => Committing(c, w)

LEMMA HandlerOp ==
    ASSUME Engine, NEW c \in Callers
    PROVE  /\ run[c].handler = 0 => Op(c) = scn[c].op
           /\ run[c].handler # 0 => /\ Op(c) \in OnErrors(scn, c)
                                    /\ run[c].handler \in DOMAIN scn[c].onError
                                    /\ Op(c) = scn[c].onError[run[c].handler]
                                    /\ run[c].handler > 0
<1>1. scn[c].onError \in Seq(Ops)
  BY ScenarioFacts DEF Engine, Settings
<1>2. run[c].handler \in Nat /\ run[c].handler <= Len(scn[c].onError)
  BY DEF Engine, Runs, Place
<1>3. run[c].handler # 0 => run[c].handler \in DOMAIN scn[c].onError
  BY <1>1, <1>2
<1> QED
  BY <1>2, <1>3 DEF Op, OnErrors

LEMMA CommitLayout ==
    ASSUME CommitsOnce, Engine, NEW c \in Steps, scn[c].op.op = "commit"
    PROVE  /\ scn[c].attempts = 1 /\ scn[c].mock # "output"
           /\ scn[c].op.name \in Names
           /\ \A w \in scn[c].deps : scn[w].op.op = "exec" =>
                 scn[w].attempts > 0 /\ scn[w].mock # "output"
           /\ \A d \in Callers \ {c, Exec(c)} : Exec(d) = Exec(c) =>
                 /\ ~EndsName(scn[d].op, scn[c].op.name)
                 /\ \A o \in OnErrors(scn, d) :
                       /\ o.op # "begin"
                       /\ EndsName(o, scn[c].op.name) =>
                             d \in Before(scn, c) /\ Stops(d)
<1>1. scn \in Scenarios /\ c \in Callers
  BY ScenarioFacts DEF Engine
<1>2. scn[c].op \in Ops
  BY <1>1, ScenarioFacts DEF Settings
<1>3. scn[c].op.name \in Names
  BY <1>2 DEF Ops
<1> QED
  BY <1>1, <1>3 DEF CommitsOnce, Callers, Exec, Stops

\* Who runs something beside a step that is not over, in the same execution.
LEMMA Beside ==
    ASSUME Engine, Ordered, NEW c \in Steps, run[c].phase # "done",
           NEW d \in Callers, Exec(d) = Exec(c), run[d].phase # "pending"
    PROVE  d \in Steps /\ d # Exec(c)
<1>1. c \in StepsOf(Exec(c)) /\ Exec(c) \in Execs
  BY ScenarioFacts DEF StepsOf, Engine
<1>2. d # Exec(c)
  BY <1>1 DEF Ordered
<1>3. d \in Execs => d = Exec(c)
  BY ScenarioFacts DEF Engine, Execs
<1> QED
  BY <1>2, <1>3, ScenarioFacts DEF Engine

\* No begin starts over with a transaction that c may commit.
LEMMA NoneBegins ==
    ASSUME CommitsOnce, Engine, Shapes, Ordered, Own, NEW c \in Steps,
           scn[c].op.op = "commit", run[c].phase # "done", run[c].handler = 0,
           NEW t \in Callers, Exec(t) = Exec(c), tx[t].dirty # {}
    PROVE  ~Connected(t)
<1> SUFFICES ASSUME Connected(t) PROVE FALSE
  OBVIOUS
<1>1. run[t].phase = "connect" /\ Op(t).op = "begin"
  BY DEF Connected, Shapes, Shape
<1>2. c # t
  BY <1>1, HandlerOp
<1>3. t \in Steps /\ t # Exec(c)
  BY <1>1, Beside
<1>4. run[t].handler # 0
  BY <1>1, <1>3 DEF Own
<1>5. Op(t) \in OnErrors(scn, t)
  BY <1>4, HandlerOp
<1> QED
  BY <1>1, <1>2, <1>3, <1>5, CommitLayout

\* What takes the transaction from c is a failed step's, and c never runs.
LEMMA OthersEnd ==
    ASSUME CommitsOnce, Engine, Ordered, NEW c \in Steps,
           scn[c].op.op = "commit", run[c].phase # "done",
           NEW d \in Callers, Exec(d) = Exec(c), d # c, TakeTx(d),
           Op(d).name = scn[c].op.name
    PROVE  Halted(c)
<1>1. run[d].phase = "call" /\ EndsName(Op(d), scn[c].op.name)
  BY DEF TakeTx, EndsName
<1>2. d \in Steps /\ d # Exec(c)
  BY <1>1, Beside
<1>3. run[d].handler # 0
  BY <1>1, <1>2, HandlerOp, CommitLayout
<1>4. Op(d) \in OnErrors(scn, d) /\ run[d].handler > 0
  BY <1>3, HandlerOp
<1> QED
  BY <1>1, <1>2, <1>4, CommitLayout DEF Halted

\* Rows stay in a transaction that c may commit.
LEMMA DirtyStays ==
    ASSUME CommitsOnce, Engine, Shapes, Ordered, Registered, Own, [Next]_vars,
           NEW c \in Steps, scn[c].op.op = "commit", run[c].phase # "done",
           run[c].handler = 0, NEW t \in Callers, Exec(t) = Exec(c)
    PROVE  tx[t].dirty \subseteq tx'[t].dirty
<1> SUFFICES ASSUME NEW w \in tx[t].dirty PROVE w \in tx'[t].dirty
  OBVIOUS
<1>1. ~Connected(t)
  BY NoneBegins
<1> QED
  BY <1>1, TransactFacts, NextTransacts DEF txVars

LEMMA InTxStays ==
    ASSUME CommitsOnce, Engine, Shapes, Ordered, Registered, Own, [Next]_vars,
           NEW c \in Steps, scn[c].op.op = "commit", run[c].phase # "done",
           run[c].handler = 0, ~GoTo(c, "finish"), NEW w, InTx(c, w)
    PROVE  InTx(c, w)' \/ Halted(c)
<1> DEFINE e == Exec(c)
           n == scn[c].op.name
           t == reg[e][n]
<1>1. /\ UNCHANGED scn /\ Exec(c)' = Exec(c) /\ e \in Execs /\ n \in Names
      /\ c \in Callers
  BY FrameFacts, ScenarioFacts, CommitLayout DEF Exec, Engine
<1>2. t \in Callers /\ w \in tx[t].dirty /\ Exec(t) = e
  BY <1>1 DEF InTx, Registered, Own
<1>3. w \in tx'[t].dirty
  BY <1>2, DirtyStays
<1>4. reg'[e][n] = t \/ Halted(c)
  <2>1. ASSUME NEW d \in Callers, Connected(d), Exec(d) = e, Op(d).name = n
        PROVE  FALSE
    <3>1. run[d].phase = "connect"
      BY <2>1 DEF Connected
    <3>2. reg[Exec(d)][Op(d).name] = NoOne
      BY <3>1 DEF Own
    <3>3. NoOne \notin Callers
      BY ScenarioFacts DEF Engine
    <3> QED
      BY <1>2, <2>1, <3>2, <3>3
  <2>2. ASSUME NEW d \in Callers, TakeTx(d), GoTo(d, "finish"), Exec(d) = e,
               Op(d).name = n
        PROVE  Halted(c)
    BY <2>2, OthersEnd
  <2> QED
    BY <1>1, <2>1, <2>2, TransactFacts, NextTransacts DEF txVars
<1>5. NoOne \notin Callers
  BY ScenarioFacts DEF Engine
<1> QED
  BY <1>1, <1>2, <1>3, <1>4, <1>5 DEF InTx

\* A commit or rollback that was tried for the last time does not come back.
LEMMA FinishEnds ==
    ASSUME Engine, Shapes, [Next]_vars, NEW c \in Callers,
           run[c].phase = "finish", run[c].handler = 0, ~AttemptsLeft(c)
    PROVE  run'[c].phase \in {"done", "finish"} \/ run'[c].handler # 0
<1>1. run[c] \in Runs
  BY PhaseFacts
<1>2. ASSUME Fail(c)
      PROVE  run'[c].phase = "done" \/ run'[c].handler # 0
  <2>1. ASSUME NEW result \in {"success", "failed"}, NEW err,
               End(c, result, <<EventOf(result)>>, err)
        PROVE  run'[c].phase = "done"
    BY <2>1, EndPhase
  <2> QED
    BY <1>2, <2>1, FailFacts DEF Failed
<1>3. ASSUME NEW ok \in BOOLEAN, Return(c, ok)
      PROVE  run'[c].phase = "done" \/ run'[c].handler # 0
  BY <1>2, <1>3, EndPhase DEF Return, ActionReturned, Succeed
<1>4. ASSUME Progress(c)
      PROVE  run' = run \/ \E ok \in BOOLEAN : FinishTx(c, ok)
  <2>1. ~(Dispatch(c) \/ Skip(c) \/ WhenFalse(c) \/ WhenError(c) \/ Mock(c)
          \/ Reject(c) \/ NoAttempt(c) \/ Start(c) \/ RetryTimer(c)
          \/ RetryCancelled(c))
    BY DEF Dispatch, Skip, Ready, WhenFalse, WhenError, Mock, Reject, NoAttempt,
           Start, RetryTimer, RetryCancelled, Given
  <2>2. ~(HandlerInvalid(c) \/ LoopReturns(c) \/ LockTry(c) \/ LockWake(c)
          \/ LockGivesUp(c) \/ Unlock(c) \/ KvRead(c) \/ KvWrite(c) \/ KvRemove(c))
    BY DEF HandlerInvalid, LoopReturns, LockTry, LockWake, LockGivesUp, Unlock,
           KvRead, KvWrite, KvRemove, At
  <2>3. ~(PoolLook(c) \/ PoolSlow(c) \/ Begin(c) \/ Connected(c)
          \/ ConnectFails(c) \/ TakeTx(c))
    BY DEF PoolLook, PoolSlow, Begin, Connected, ConnectFails, TakeTx, At
  <2>4. ASSUME NEW ok
        PROVE  ~(CallReturns(c, ok) \/ PoolPing(c, ok) \/ ExecInTx(c, ok)
                 \/ ExecAlone(c, ok))
    BY DEF CallReturns, PoolPing, ExecInTx, ExecAlone, At
  <2>5. ASSUME NEW i, NEW ok
        PROVE  ~(LoopBegins(c, i) \/ LoopStep(c, i, ok))
    BY DEF LoopBegins, LoopStep, At
  <2> QED
    BY <1>4, <2>1, <2>2, <2>3, <2>4, <2>5 DEF Progress
<1>5. CASE Progress(c)
  BY <1>3, <1>4, <1>5 DEF FinishTx
<1>6. CASE Timeout(c)
  BY <1>1, <1>6 DEF Timeout, Engine, Runs
<1>7. ~Handle(c)
  BY DEF Handle
<1>8. CASE run'[c] = run[c]
  BY <1>8
<1> QED
  BY <1>5, <1>6, <1>7, <1>8, WhoMoves

\* What a commit or rollback has in hand it keeps between its two halves.
LEMMA TakenStays ==
    ASSUME Engine, Registered, [Next]_vars, NEW c \in Callers,
           run[c].phase = "finish", run'[c].phase = "finish"
    PROVE  taken'[c] = taken[c]
<1>1. ASSUME NEW d \in Callers, Transacts(d), d # c
      PROVE  taken'[c] = taken[c]
  BY <1>1 DEF Transacts, BeginLocks, Connected, Began, ConnectFails, BeginFailed,
              Unregister, ExecInTx, WriteIn, ExecAlone, WriteAlone, FinishTx,
              EndTx, EndTxFails, TxAborts, AbortTx, Registered, txVars
<1>2. ~TakeTx(c)
  BY DEF TakeTx
<1>3. ASSUME NEW ok \in BOOLEAN
      PROVE  ~FinishTx(c, ok)
  BY ReturnPhase DEF FinishTx
<1>4. CASE Transacts(c)
  BY <1>2, <1>3, <1>4
     DEF Transacts, BeginLocks, Connected, Began, ConnectFails, BeginFailed,
         ExecInTx, WriteIn, ExecAlone, WriteAlone, TxAborts, AbortTx, txVars
<1> QED
  BY <1>1, <1>4, NextTransacts DEF txVars

LEMMA HaltedStays ==
    ASSUME Engine, [Next]_vars, NEW c \in Steps, Halted(c)
    PROVE  Halted(c)'
<1>1. PICK d \in Before(scn, c) : Stops(d) /\ run[d].handler > 0
  BY DEF Halted
<1>2. d \in Callers
  BY DEF Before, Callers
<1>3. run[d].handler <= run'[d].handler /\ UNCHANGED scn
  BY <1>2, OnlyForward, FrameFacts
<1>4. run[d].handler \in Nat /\ run'[d].handler \in Nat
  <2>1. run' \in [Callers -> Runs]
    BY NextMoves, MoveTyped DEF Typed, Engine
  <2> QED
    BY <1>2, <2>1 DEF Engine, Runs
<1>5. run'[d].handler > 0
  BY <1>1, <1>3, <1>4
<1> QED
  BY <1>1, <1>3, <1>5 DEF Halted, Stops

LEMMA HaltedWaits ==
    ASSUME Ordered, NEW c \in Steps, InProgress(c)
    PROVE  ~Halted(c)
  BY DEF Ordered, Order, Passed, Halted

\* A statement that succeeds leaves its row in the transaction.
LEMMA Writes ==
    ASSUME Engine, OnErrorIdsOwn, Shapes, Registered, [Next]_vars,
           NEW c \in Steps, scn[c].op.op = "commit",
           NEW w \in Steps, Exec(w) = Exec(c), w # c,
           scn[w].op.op = "exec", scn[w].op.name = scn[c].op.name,
           scn[c].op.name \in Names,
           scn[w].attempts > 0, scn[w].mock # "output",
           Acts(w)', ~Acts(w)
    PROVE  /\ InTx(c, w)' /\ run[w].phase # "done"
           /\ run'[c] = run[c] /\ steps'[c] = steps[c]
<1>1. /\ UNCHANGED scn /\ w \in Callers /\ c \in Callers /\ Exec(c) \in Execs
      /\ Exec(c)' = Exec(c)
  BY FrameFacts, ScenarioFacts DEF Engine, Exec
<1>2. steps[w] # "success" /\ steps'[w] = "success" /\ scn[w].policy # "ignore"
  BY <1>1 DEF Acts
<1>3. /\ run[w].handler = 0 /\ run[w].phase \in Busy /\ run'[w].phase = "done"
      /\ Worked(w)
  BY <1>2, Successes
<1>4. scn[w].op.name # ""
  <2>1. scn[c].op \in Ops
    BY <1>1, ScenarioFacts DEF Engine, Settings
  <2> QED
    BY <2>1 DEF Ops
<1>5. ExecInTx(w, TRUE) /\ Op(w) = scn[w].op
  BY <1>3, <1>4 DEF Worked, Op
<1>6. run[w].phase # "done"
  BY <1>3 DEF Busy
<1>7. run'[c] = run[c] /\ steps'[c] = steps[c]
  <2>1. Moves(w)
    <3>1. Progress(w)
      BY <1>5 DEF Progress
    <3> QED
      BY <1>1, <3>1, ProgressMoves
  <2> QED
    BY <1>1, <2>1, MoveTyped, MoveSteps DEF Typed
<1> DEFINE t == reg[Exec(c)][scn[c].op.name]
<1>8. t # NoOne /\ t \in Open /\ WriteIn(t, w)
  BY <1>1, <1>5 DEF ExecInTx, Usable
<1>9. t \in Callers /\ reg' = reg
  BY <1>1, <1>8 DEF Registered, WriteIn
<1>10. w \in tx'[t].dirty
  BY <1>1, <1>8, <1>9 DEF WriteIn, Registered
<1> QED
  BY <1>1, <1>6, <1>7, <1>8, <1>9, <1>10 DEF InTx

\* A commit that succeeds makes what its transaction has durable.
LEMMA Keeps ==
    ASSUME Engine, OnErrorIdsOwn, Shapes, Registered, [Next]_vars,
           NEW c \in Steps, scn[c].op.op = "commit", scn[c].attempts = 1,
           scn[c].mock # "output", Acts(c)', ~Acts(c), NEW w,
           run[c].phase = "finish" /\ run[c].handler = 0 =>
              taken[c] \in Callers /\ w \in tx[taken[c]].dirty
    PROVE  w \in rows'
<1>1. UNCHANGED scn
  BY FrameFacts
<1>2. steps[c] # "success" /\ steps'[c] = "success" /\ scn[c].policy # "ignore"
  BY <1>1 DEF Acts
<1>3. run[c].handler = 0 /\ Worked(c)
  BY <1>2, Successes
<1>4. FinishTx(c, TRUE) /\ Op(c).op = "commit"
  BY <1>3 DEF Worked, Op
<1>5. run[c].phase = "finish" /\ EndTx(c, "committed")
  BY <1>4 DEF FinishTx
<1> QED
  BY <1>3, <1>5 DEF EndTx, Committed

LEMMA NextCommitting ==
    ASSUME OnErrorIdsOwn, CommitsOnce, Engine, Shapes, Ordered, Registered, Own,
           Attempting, [Next]_vars,
           NEW c \in Steps, scn[c].op.op = "commit",
           NEW w, Committing(c, w)
    PROVE  Committing(c, w)'
<1>1. /\ UNCHANGED scn /\ c \in Callers /\ Exec(c)' = Exec(c) /\ Exec(c) \in Execs
      /\ run[c] \in Runs /\ run'[c] \in Runs /\ Place(c) /\ Order(c) /\ Tried(c)
      /\ scn[c].attempts = 1 /\ scn[c].mock # "output" /\ scn[c].op.name \in Names
  <2>1. run' \in [Callers -> Runs]
    BY NextMoves, MoveTyped DEF Typed, Engine
  <2> QED
    BY <2>1, FrameFacts, ScenarioFacts, PhaseFacts, CommitLayout
       DEF Exec, Engine, Ordered, Attempting
<1>2. Ordered'
  BY NextOrdered
<1>3. c \in Steps' /\ Steps' = Steps
  BY <1>1 DEF Steps, Execs, Exec, Callers
<1>4. run'[c].phase = "pending" => Halted(c)' \/ InTx(c, w)'
  <2> SUFFICES ASSUME run'[c].phase = "pending" PROVE Halted(c)' \/ InTx(c, w)'
    OBVIOUS
  <2>1. run[c].phase = "pending"
    BY <1>1, OnlyForward
  <2>2. run[c].handler = 0 /\ (Halted(c) \/ InTx(c, w))
    BY <1>1, <2>1 DEF Place, Committing
  <2>3. ~GoTo(c, "finish")
    BY <1>1 DEF GoTo, Engine, Runs
  <2> QED
    BY <2>1, <2>2, <2>3, InTxStays, HaltedStays
<1>5. InProgress(c)' /\ run'[c].handler = 0 /\ run'[c].phase # "finish"
          => InTx(c, w)'
  <2> SUFFICES ASSUME InProgress(c)', run'[c].handler = 0,
                      run'[c].phase # "finish"
               PROVE  InTx(c, w)'
    OBVIOUS
  <2>1. run[c].phase # "done" /\ run[c].handler = 0
    BY <1>1, NoneYet DEF Order, InProgress
  <2>2. ~Halted(c)
    <3>1. ~Halted(c)'
      BY <1>2, <1>3 DEF Ordered, Order, Passed, Halted
    <3> QED
      BY <3>1, HaltedStays
  <2>3. run[c].phase # "finish"
    <3> SUFFICES ASSUME run[c].phase = "finish" PROVE FALSE
      OBVIOUS
    <3>1. ~AttemptsLeft(c)
      BY <1>1 DEF Tried, Place, Runs, AttemptsLeft
    <3>2. run'[c].phase = "done" \/ run'[c].handler # 0 \/ run'[c].phase = "finish"
      BY FinishEnds, <1>1, <2>1, <3>1
    <3> QED
      BY <3>2 DEF InProgress
  <2>4. InTx(c, w)
    BY <2>1, <2>2, <2>3 DEF Committing, InProgress
  <2>5. ~GoTo(c, "finish")
    BY <1>1 DEF GoTo, Engine, Runs
  <2> QED
    BY <2>1, <2>2, <2>4, <2>5, InTxStays
<1>6. run'[c].phase = "finish" /\ run'[c].handler = 0 =>
          /\ taken'[c] \in Callers /\ Exec(taken'[c]) = Exec(c)
          /\ w \in tx'[taken'[c]].dirty
  <2> SUFFICES ASSUME run'[c].phase = "finish", run'[c].handler = 0
               PROVE  /\ taken'[c] \in Callers /\ Exec(taken'[c]) = Exec(c)
                      /\ w \in tx'[taken'[c]].dirty
    OBVIOUS
  <2>1. run[c].phase # "done" /\ run[c].handler = 0
    BY <1>1, NoneYet DEF Order
  <2>2. CASE run[c].phase = "finish"
    <3>1. /\ taken[c] \in Callers /\ Exec(taken[c]) = Exec(c)
          /\ w \in tx[taken[c]].dirty
      BY <2>1, <2>2 DEF Committing
    <3>2. taken'[c] = taken[c]
      BY <1>1, <2>2, TakenStays
    <3> QED
      BY <2>1, <3>1, <3>2, DirtyStays
  <2>3. CASE run[c].phase # "finish"
    <3>1. TakeTx(c)
      BY <1>1, <2>3, PhaseMoves
    <3>2. Unregister(c, Exec(c), Op(c).name) /\ Op(c) = scn[c].op
      <4>1. ~Return(c, FALSE)
        BY <1>1, ReturnPhase
      <4> QED
        BY <1>1, <2>1, <3>1, <4>1, HandlerOp DEF TakeTx
    <3>3. InTx(c, w)
      BY <2>1, <2>3, <3>1 DEF Committing, InProgress, TakeTx
    <3> DEFINE t == reg[Exec(c)][scn[c].op.name]
    <3>4. t \in Callers /\ Exec(t) = Exec(c) /\ w \in tx[t].dirty
      BY <1>1, <3>3 DEF InTx, Registered, Own
    <3>5. taken'[c] = t /\ tx' = tx
      BY <1>1, <3>2 DEF Unregister, Registered
    <3> QED
      BY <3>4, <3>5
  <2> QED
    BY <2>2, <2>3
<1>7. Acts(c)' => w \in rows'
  <2>1. ASSUME Acts(c)
        PROVE  w \in rows'
    BY <2>1, TransactFacts, NextTransacts DEF Committing, txVars
  <2>2. ASSUME Acts(c)', ~Acts(c)
        PROVE  w \in rows'
    BY <1>1, <2>2, Keeps DEF Committing
  <2> QED
    BY <2>1, <2>2
<1>8. Exec(taken[c])' = Exec(taken'[c])
  BY <1>1 DEF Exec
<1> QED
  BY <1>1, <1>4, <1>5, <1>6, <1>7, <1>8 DEF Committing, Callers

LEMMA NextCommits ==
    ASSUME OnErrorIdsOwn, CommitsOnce, Engine, Shapes, Ordered, Registered, Own,
           Attempting, Commits, [Next]_vars
    PROVE  Commits'
<1>1. /\ UNCHANGED scn /\ Steps' = Steps /\ scn \in Scenarios
      /\ Steps \subseteq Callers
  BY FrameFacts, ScenarioFacts DEF Steps, Execs, Exec, Callers, Engine
<1> SUFFICES ASSUME NEW c \in Steps, scn[c].op.op = "commit",
                    NEW w \in scn[c].deps, scn[w].op.op = "exec",
                    scn[w].op.name = scn[c].op.name, Acts(w)'
             PROVE  Committing(c, w)'
  BY <1>1 DEF Commits
<1>2. CASE Acts(w)
  BY <1>2, NextCommitting DEF Commits
<1>3. CASE ~Acts(w)
  <2>1. w \in Steps /\ Exec(w) = Exec(c) /\ w # c
    BY <1>1, DepFacts
  <2>2. /\ InTx(c, w)' /\ run[w].phase # "done"
        /\ run'[c] = run[c] /\ steps'[c] = steps[c]
    BY <1>3, <2>1, CommitLayout, Writes
  <2>3. run[c].phase = "pending" /\ run[c].handler = 0 /\ steps[c] = "none"
    <3>1. Order(c) /\ Place(c)
      BY <1>1 DEF Ordered, Engine
    <3> QED
      BY <2>2, <3>1 DEF Order, Place
  <2>4. ~Acts(c)'
    BY <2>2, <2>3 DEF Acts
  <2> QED
    BY <2>2, <2>3, <2>4 DEF Committing, InProgress
<1> QED
  BY <1>2, <1>3

\* A sql.commit that succeeds has made durable every statement it depends on that
\* succeeded in its transaction, in spite of parallel begins of the same name, of
\* timeouts and cancellation, and of on_error steps that roll back
\* (MemoryTxRegistry, sql.begin).
THEOREM CommitKeepsAllHolds ==
    ASSUME OnErrorIdsOwn, CommitsOnce
    PROVE  Spec => []CommitKeepsAll
<1>1. Init => Commits
  <2> SUFFICES ASSUME Init, NEW c \in Steps, NEW w \in scn[c].deps PROVE ~Acts(w)
    BY DEF Commits
  <2>1. c \in Callers /\ scn \in Scenarios
    BY ScenarioFacts DEF Init
  <2>2. w \in Ids
    BY <2>1, DepFacts, ScenarioFacts
  <2> QED
    BY <2>2 DEF Init, Acts
<1>2. OnErrorIdsOwn /\ CommitsOnce /\ Engine /\ Shapes /\ Ordered /\ Registered
          /\ Own /\ Attempting /\ Commits /\ [Next]_vars
          => Commits'
  BY NextCommits
<1>3. Commits => CommitKeepsAll
  <2> SUFFICES ASSUME Commits, NEW c \in Steps, scn[c].op.op = "commit", Acts(c),
                      NEW w \in scn[c].deps, scn[w].op.op = "exec",
                      scn[w].op.name = scn[c].op.name, Acts(w)
               PROVE  w \in rows
    BY DEF CommitKeepsAll
  <2>1. Committing(c, w)
    BY DEF Commits
  <2> QED
    BY <2>1 DEF Committing
<1> QED
  BY <1>1, <1>2, <1>3, EngineHolds, ShapesHold, OrderedHolds, RegisteredHolds,
     OwnHolds, AttemptingHolds, PTL DEF Spec

-----------------------------------------------------------------------------
(* Whose a lock is *)

\* A counted key that some step writes.
Updated(k) == Counted(k) /\ On(scn, k, "kv.set") # {}

\* The lock step of e has taken the lock of k.
Acquired(k, e) == \E l \in On(scn, k, "lock") : Exec(l) = e /\ steps[l] = "success"

\* A step is past its unlock of k, be it its action or one of its on_error steps.
LetGo(k, u) ==
    \/ UnlocksKey(scn[u].op, k) /\ steps[u] = "success"
    \/ \E i \in DOMAIN scn[u].onError :
          /\ UnlocksKey(scn[u].onError[i], k)
          /\ run[u].handler > i \/ (run[u].handler = i /\ run[u].phase = "done")

Holds(k, e) ==
    /\ Acquired(k, e)
    /\ \A u \in Unlockers(scn, k) : Exec(u) = e => ~LetGo(k, u)

LEMMA OnFacts ==
    ASSUME scn \in Scenarios, NEW k, NEW op, NEW c
    PROVE  c \in On(scn, k, op) <=>
              c \in Steps /\ scn[c].op.op = op /\ scn[c].op.key = k
<1>1. ASSUME c \in Callers
      PROVE  c \in Execs <=> Exec(c) = c
  BY <1>1, ScenarioFacts DEF Execs
<1>2. Steps \subseteq Callers
  BY ScenarioFacts
<1> QED
  BY <1>1, <1>2 DEF On, Callers, Exec, Steps

\* What UpdatesLocked asks of the workflows around a key.
LEMMA UpdateLayout ==
    ASSUME UpdatesLocked, scn \in Scenarios, NEW k \in Keys, Updated(k)
    PROVE  /\ \A l \in On(scn, k, "lock") :
                 /\ Plain(scn, l)
                 /\ \A m \in On(scn, k, "lock") : Exec(m) = Exec(l) => m = l
           /\ \A s \in On(scn, k, "kv.set") :
                 /\ scn[s].attempts > 0 /\ scn[s].mock # "output"
                 /\ scn[s].policy # "ignore"
                 /\ \E g \in On(scn, k, "kv.get") \cap Before(scn, s) :
                       /\ Plain(scn, g)
                       /\ On(scn, k, "lock") \cap Before(scn, g) # {}
                       /\ \A d \in Callers \ {g} :
                             Exec(d) = Exec(s) => scn[d].op.op # "kv.get"
                 /\ \A t \in On(scn, k, "kv.set") : Exec(t) = Exec(s) => t = s
  BY DEF UpdatesLocked, Updated, Counted, Callers, Exec

LEMMA UnlockLayout ==
    ASSUME UpdatesLocked, scn \in Scenarios, NEW k \in Keys, Updated(k),
           NEW u \in Unlockers(scn, k)
    PROVE  /\ u \in Steps /\ On(scn, k, "lock") \cap Before(scn, u) # {}
           /\ \A i, j \in DOMAIN scn[u].onError :
                 UnlocksKey(scn[u].onError[i], k) =>
                    /\ ~UnlocksKey(scn[u].op, k)
                    /\ UnlocksKey(scn[u].onError[j], k) => i = j
           /\ \A s \in On(scn, k, "kv.set") : Exec(s) = Exec(u) =>
                 s \in Before(scn, u) \/ GivesUpBefore(scn, k, u, s)
           /\ \A v \in Unlockers(scn, k) \ {u} : Exec(v) = Exec(u) =>
                 GivesUpBefore(scn, k, u, v) \/ GivesUpBefore(scn, k, v, u)
<1>1. u \in Callers /\ Exec(u) # u
  BY DEF UpdatesLocked, Updated, Counted, Callers, Exec, Unlockers
<1>2. u \in Steps
  BY <1>1, ScenarioFacts DEF Steps, Execs
<1>3. /\ On(scn, k, "lock") \cap Before(scn, u) # {}
      /\ \A i, j \in DOMAIN scn[u].onError :
            UnlocksKey(scn[u].onError[i], k) =>
               /\ ~UnlocksKey(scn[u].op, k)
               /\ UnlocksKey(scn[u].onError[j], k) => i = j
  BY DEF UpdatesLocked, Updated, Counted
<1>4. /\ \A s \in On(scn, k, "kv.set") : Exec(s) = Exec(u) =>
            s \in Before(scn, u) \/ GivesUpBefore(scn, k, u, s)
      /\ \A v \in Unlockers(scn, k) \ {u} : Exec(v) = Exec(u) =>
            GivesUpBefore(scn, k, u, v) \/ GivesUpBefore(scn, k, v, u)
  BY DEF UpdatesLocked, Updated, Counted, Exec
<1> QED
  BY <1>2, <1>3, <1>4

\* No on_error step of a workflow locks, reads, writes or deletes a key.
LEMMA KeyOps ==
    ASSUME UpdatesLocked, Engine, NEW k \in Keys, Counted(k), NEW c \in Callers,
           run[c].phase \in Busy,
           Op(c).op \in {"lock", "kv.get", "kv.set", "kv.delete"}
    PROVE  c \in Steps /\ run[c].handler = 0 /\ Op(c) = scn[c].op
<1>1. run[c].handler = 0
  <2>1. \A o \in OnErrors(scn, c) :
            o.op \notin {"lock", "kv.get", "kv.set", "kv.delete"}
    BY DEF UpdatesLocked, Counted, Engine, Callers
  <2> QED
    BY <2>1, HandlerOp
<1>2. Place(c)
  BY DEF Engine
<1>3. c \in Steps
  BY <1>1, <1>2 DEF Place, Steps, Busy
<1> QED
  BY <1>1, <1>3, HandlerOp

\* What is before a step before c is before c.
LEMMA BeforeJoins ==
    ASSUME scn \in Scenarios, NEW c \in Callers, NEW g \in Before(scn, c)
    PROVE  Before(scn, g) \subseteq Before(scn, c)
<1> DEFINE mine == {d \in Callers : Exec(d) = Exec(c)}
           Closed(d, X) == /\ scn[d].deps \subseteq X
                           /\ \A x \in X : scn[x].deps \subseteq X
<1>1. \A d : d \in Before(scn, c) <=>
          d \in mine /\ \A X \in SUBSET mine : Closed(c, X) => d \in X
  BY DEF Before, Callers, Exec
<1>2. g \in Callers /\ Exec(g) = Exec(c)
  BY <1>1
<1>3. \A d : d \in Before(scn, g) <=>
          d \in mine /\ \A X \in SUBSET mine : Closed(g, X) => d \in X
  BY <1>2 DEF Before, Callers, Exec
<1>4. ASSUME NEW d \in Before(scn, g), NEW X \in SUBSET mine, Closed(c, X)
      PROVE  d \in X
  <2>1. g \in X
    BY <1>1, <1>4
  <2>2. Closed(g, X)
    BY <1>4, <2>1
  <2> QED
    BY <1>3, <1>4, <2>2
<1> QED
  BY <1>1, <1>3, <1>4

LEMMA SuccessDone ==
    ASSUME Ordered, Reported, NEW c \in Steps, steps[c] = "success"
    PROVE  run[c].phase = "done" /\ run[c].handler = 0
  BY DEF Ordered, Order, Reported, Report

\* A step waits for all that is before it.
LEMMA BeforeWaits ==
    ASSUME Engine, Ordered, NEW u \in Steps, NEW c \in Before(scn, u),
           run[c].phase # "done"
    PROVE  run[u].phase = "pending"
  BY BeforeDone DEF Ordered, Order

LEMMA PendingKeeps ==
    ASSUME Engine, Ordered, NEW k, NEW u \in Steps, run[u].phase = "pending"
    PROVE  ~LetGo(k, u)
<1>1. u \in Callers /\ Place(u) /\ Order(u)
  BY ScenarioFacts DEF Engine, Ordered
<1>2. run[u].handler = 0 /\ steps[u] = "none"
  BY <1>1 DEF Place, Order
<1>3. scn[u].onError \in Seq(Ops)
  BY <1>1, ScenarioFacts DEF Engine, Settings
<1>4. \A i \in DOMAIN scn[u].onError : ~(0 > i) /\ i # 0
  BY <1>3
<1> QED
  BY <1>2, <1>4 DEF LetGo

\* A step that unlocks only if it fails, and has let the execution go on.
LEMMA PassedKeeps ==
    ASSUME Engine, NEW k, NEW u \in Steps, Passed(u), Stops(u),
           ~UnlocksKey(scn[u].op, k)
    PROVE  ~LetGo(k, u)
<1>1. run[u].handler = 0
  BY DEF Passed
<1>2. scn[u].onError \in Seq(Ops)
  BY ScenarioFacts DEF Engine, Settings
<1>3. \A i \in DOMAIN scn[u].onError : ~(0 > i) /\ i # 0
  BY <1>2
<1> QED
  BY <1>1, <1>3 DEF LetGo

\* Of two steps of which the first unlocks if it fails and else lets the second
\* run, the second has not started or the first has kept the lock.
LEMMA GivesUpKeeps ==
    ASSUME Engine, Ordered, NEW k, NEW u \in Steps, NEW s \in Steps,
           GivesUpBefore(scn, k, u, s), InProgress(s)
    PROVE  ~LetGo(k, u)
<1>1. Passed(u)
  BY DEF Ordered, Order, GivesUpBefore
<1> QED
  BY <1>1, PassedKeeps DEF GivesUpBefore, Stops

LEMMA LetGoStays ==
    ASSUME Engine, OnErrorIdsOwn, Ordered, Reported, [Next]_vars, NEW k,
           NEW u \in Steps, LetGo(k, u)
    PROVE  LetGo(k, u)'
<1>1. UNCHANGED scn /\ u \in Callers
  BY FrameFacts, ScenarioFacts DEF Engine
<1>2. CASE UnlocksKey(scn[u].op, k) /\ steps[u] = "success"
  BY <1>1, <1>2, SuccessDone, DoneStays DEF LetGo
<1>3. ASSUME NEW i \in DOMAIN scn[u].onError, UnlocksKey(scn[u].onError[i], k),
             run[u].handler > i \/ (run[u].handler = i /\ run[u].phase = "done")
      PROVE  run'[u].handler > i \/ (run'[u].handler = i /\ run'[u].phase = "done")
  <2>1. i \in Nat
    BY <1>1, ScenarioFacts DEF Engine, Settings
  <2>2. run[u].handler \in Nat /\ run'[u].handler \in Nat
    <3>1. run' \in [Callers -> Runs]
      BY NextMoves, MoveTyped DEF Typed, Engine
    <3> QED
      BY <1>1, <3>1 DEF Engine, Runs
  <2>3. run[u].handler <= run'[u].handler
    BY <1>1, OnlyForward
  <2>4. CASE run[u].handler > i
    BY <2>1, <2>2, <2>3, <2>4
  <2>5. CASE run[u].handler = i /\ run[u].phase = "done"
    BY <2>5, DoneStays
  <2> QED
    BY <1>3, <2>4, <2>5
<1> QED
  BY <1>1, <1>2, <1>3 DEF LetGo

\* Who comes to hold a key has just taken its lock.
LEMMA HoldsFrame ==
    ASSUME Engine, OnErrorIdsOwn, UpdatesLocked, Shapes, Ordered, Reported,
           [Next]_vars, NEW k \in Keys, Updated(k), NEW e, Holds(k, e)', ~Holds(k, e)
    PROVE  \E l \in On(scn, k, "lock") :
              /\ Exec(l) = e /\ steps[l] # "success" /\ steps'[l] = "success"
              /\ run[l].phase # "done" /\ LockTry(l) /\ TakeLock(k)
<1>1. UNCHANGED scn /\ scn \in Scenarios
  BY FrameFacts DEF Engine
<1>2. \A u \in Unlockers(scn, k) : Exec(u) = e => ~LetGo(k, u)
  <2>1. \A u \in Unlockers(scn, k) : Exec(u) = e => ~LetGo(k, u)'
    BY <1>1 DEF Holds, Exec
  <2> QED
    BY <1>1, <2>1, LetGoStays, UnlockLayout
<1>3. ~Acquired(k, e)
  BY <1>2 DEF Holds
<1>4. PICK l \in On(scn, k, "lock") : Exec(l) = e /\ steps'[l] = "success"
  BY <1>1 DEF Holds, Acquired, Exec
<1>5. /\ l \in Steps /\ scn[l].op.op = "lock" /\ scn[l].op.key = k
      /\ steps[l] # "success" /\ Plain(scn, l)
  BY <1>1, <1>3, <1>4, OnFacts, UpdateLayout DEF Acquired
<1>6. run[l].phase \in Busy /\ Worked(l)
  BY <1>4, <1>5, Successes DEF Plain
<1> QED
  BY <1>4, <1>5, <1>6 DEF Worked, Busy

\* A step past the lock step of its execution has it from that.
LEMMA AcquiredBefore ==
    ASSUME Engine, Ordered, UpdatesLocked, NEW k \in Keys, Updated(k),
           NEW c \in Steps, InProgress(c),
           On(scn, k, "lock") \cap Before(scn, c) # {}
    PROVE  Acquired(k, Exec(c))
<1>1. PICK l \in On(scn, k, "lock") : l \in Before(scn, c)
  OBVIOUS
<1>2. Passed(l) /\ Plain(scn, l)
  BY <1>1, UpdateLayout DEF Ordered, Order, Engine
<1>3. Exec(l) = Exec(c)
  BY <1>1 DEF Before, Exec
<1> QED
  BY <1>1, <1>2, <1>3 DEF Acquired, Passed

\* Who is about to unlock a key has it.
LEMMA UnlockerHolds ==
    ASSUME Engine, UpdatesLocked, Ordered, Reported, NEW k \in Keys, Updated(k),
           NEW c \in Callers, At(c, "call", "unlock"), Op(c).key = k
    PROVE  c \in Unlockers(scn, k) /\ Holds(k, Exec(c))
<1>1. run[c].phase = "call" /\ UnlocksKey(Op(c), k) /\ scn \in Scenarios
  BY DEF At, UnlocksKey, Engine
<1>2. c \in Unlockers(scn, k)
  BY <1>1, HandlerOp DEF Unlockers, Callers
<1>3. c \in Steps /\ InProgress(c) /\ Acquired(k, Exec(c))
  BY <1>1, <1>2, UnlockLayout, AcquiredBefore DEF InProgress
<1>4. ~LetGo(k, c)
  <2>1. steps[c] # "success"
    BY <1>1, <1>3, SuccessDone
  <2>2. ASSUME NEW i \in DOMAIN scn[c].onError, UnlocksKey(scn[c].onError[i], k),
               run[c].handler > i
        PROVE  FALSE
    <3>1. i \in Nat /\ i # 0 /\ run[c].handler \in Nat
      <4>1. scn[c].onError \in Seq(Ops)
        BY ScenarioFacts DEF Engine, Settings
      <4> QED
        BY <4>1 DEF Engine, Runs
    <3>2. run[c].handler # 0
      BY <2>2, <3>1
    <3>3. UnlocksKey(scn[c].onError[run[c].handler], k)
          /\ run[c].handler \in DOMAIN scn[c].onError
      BY <1>1, <3>2, HandlerOp
    <3>4. i = run[c].handler
      BY <1>1, <1>2, <2>2, <3>3, UnlockLayout
    <3> QED
      BY <2>2, <3>1, <3>4
  <2> QED
    BY <1>1, <2>1, <2>2 DEF LetGo
<1>5. ASSUME NEW u \in Unlockers(scn, k), Exec(u) = Exec(c), u # c
      PROVE  ~LetGo(k, u)
  <2>1. u \in Steps
    BY <1>1, UnlockLayout
  <2>2. GivesUpBefore(scn, k, u, c) \/ GivesUpBefore(scn, k, c, u)
    BY <1>1, <1>2, <1>5, UnlockLayout
  <2>3. CASE GivesUpBefore(scn, k, u, c)
    BY <1>3, <2>1, <2>3, GivesUpKeeps
  <2>4. CASE GivesUpBefore(scn, k, c, u)
    <3>1. run[u].phase = "pending"
      BY <1>3, <2>1, <2>4, BeforeWaits DEF GivesUpBefore, InProgress
    <3> QED
      BY <2>1, <3>1, PendingKeeps
  <2> QED
    BY <2>2, <2>3, <2>4
<1> QED
  BY <1>2, <1>3, <1>4, <1>5 DEF Holds

\* Who is about to write a key has it, and has read it.
LEMMA WriterHolds ==
    ASSUME Engine, UpdatesLocked, Ordered, NEW k \in Keys, Updated(k),
           NEW s \in On(scn, k, "kv.set"), InProgress(s)
    PROVE  /\ Holds(k, Exec(s))
           /\ \E g \in On(scn, k, "kv.get") \cap Before(scn, s) :
                 steps[g] = "success"
<1>1. scn \in Scenarios /\ s \in Steps /\ s \in Callers
  BY OnFacts, ScenarioFacts DEF Engine
<1>2. PICK g \in On(scn, k, "kv.get") \cap Before(scn, s) :
          Plain(scn, g) /\ On(scn, k, "lock") \cap Before(scn, g) # {}
  BY <1>1, UpdateLayout
<1>3. steps[g] = "success"
  BY <1>1, <1>2 DEF Ordered, Order, Passed
<1>4. Acquired(k, Exec(s))
  BY <1>1, <1>2, BeforeJoins, AcquiredBefore
<1>5. ASSUME NEW u \in Unlockers(scn, k), Exec(u) = Exec(s)
      PROVE  ~LetGo(k, u)
  <2>1. u \in Steps /\ (s \in Before(scn, u) \/ GivesUpBefore(scn, k, u, s))
    BY <1>1, <1>5, UnlockLayout
  <2>2. CASE s \in Before(scn, u)
    BY <2>1, <2>2, BeforeWaits, PendingKeeps DEF InProgress
  <2>3. CASE GivesUpBefore(scn, k, u, s)
    BY <1>1, <2>1, <2>3, GivesUpKeeps
  <2> QED
    BY <2>1, <2>2, <2>3
<1> QED
  BY <1>2, <1>3, <1>4, <1>5 DEF Holds

-----------------------------------------------------------------------------
(* What happens to a counted key *)

LEMMA UnlockLetsGo ==
    ASSUME Engine, [Next]_vars, NEW k, NEW c \in Steps, Unlock(c),
           Op(c).key = k, ReleaseLock(k)
    PROVE  LetGo(k, c)'
<1>1. /\ UNCHANGED scn /\ c \in Callers /\ c \in Ids /\ run[c] \in Runs
      /\ Return(c, TRUE) /\ UnlocksKey(Op(c), k)
  BY FrameFacts, ScenarioFacts, PhaseFacts
     DEF Engine, Unlock, ReleaseLock, At, UnlocksKey
<1>2. CASE run[c].handler = 0
  <2>1. Succeed(c, <<>>)
    BY <1>1, <1>2 DEF Return, ActionReturned
  <2>2. steps'[c] = "success"
    BY <1>1, <2>1 DEF Succeed, End, Engine
  <2>3. UnlocksKey(scn[c].op, k)
    BY <1>1, <1>2, HandlerOp
  <2> QED
    BY <1>1, <2>2, <2>3 DEF LetGo
<1>3. CASE run[c].handler # 0
  <2> DEFINE h == run[c].handler
             last == h = Len(scn[c].onError)
  <2>1. PICK err : run' = [run EXCEPT ![c].handler = IF last THEN h ELSE h + 1,
                                      ![c].phase = IF last THEN "done" ELSE "call",
                                      ![c].err = err]
    BY <1>1, <1>3 DEF Return, HandlerReturned
  <2>2. /\ run'[c].handler = IF last THEN h ELSE h + 1
        /\ run'[c].phase = IF last THEN "done" ELSE "call"
    BY <1>1, <2>1 DEF Engine, Runs
  <2>3. h \in DOMAIN scn[c].onError /\ UnlocksKey(scn[c].onError[h], k)
    BY <1>1, <1>3, HandlerOp
  <2>4. run'[c].handler > h \/ (run'[c].handler = h /\ run'[c].phase = "done")
    BY <1>1, <2>2 DEF Runs
  <2> QED
    BY <1>1, <2>3, <2>4 DEF LetGo
<1> QED
  BY <1>2, <1>3

\* A lock changes hands by those who take and release it.
LEMMA LockFrame ==
    ASSUME Engine, Kept, [Next]_vars, NEW k \in Keys
    PROVE  \/ locked'[k] = locked[k]
           \/ ~locked[k] /\ locked'[k]
           \/ \E c \in Callers : /\ At(c, "call", "unlock") /\ Op(c).key = k
                                 /\ Unlock(c) /\ ReleaseLock(Op(c).key)
<1>1. ASSUME NEW c \in Callers, LockMoves(c)
      PROVE  \/ locked'[k] = locked[k]
             \/ ~locked[k] /\ locked'[k]
             \/ /\ At(c, "call", "unlock") /\ Op(c).key = k
                /\ Unlock(c) /\ ReleaseLock(Op(c).key)
  <2>1. Op(c).key \in Keys
    BY OpFacts DEF Ops
  <2>2. CASE LockTry(c) /\ TakeLock(Op(c).key)
    BY <2>1, <2>2 DEF TakeLock, LockFree, Kept
  <2>3. CASE LockWake(c)
    BY <2>3 DEF LockWake, TakeToken
  <2>4. CASE Unlock(c) /\ ReleaseLock(Op(c).key)
    BY <2>1, <2>4 DEF Unlock, ReleaseLock, Kept
  <2> QED
    BY <1>1, <2>2, <2>3, <2>4 DEF LockMoves
<1> QED
  BY <1>1, NextKeptMoves DEF lockVars

\* The entry of a key that is counted.
Lasting(k) ==
    /\ ~kv[k].ttl /\ kv[k].st # "expired"
    /\ kv[k].st = "absent" => kv[k].val = 0

LEMMA CountedOp ==
    ASSUME NEW k, Counted(k), NEW c \in Steps, scn \in Scenarios,
           scn[c].op.key = k
    PROVE  scn[c].op.op # "kv.delete" /\ ~scn[c].op.ttl /\ ~scn[Exec(c)].redis
  BY ScenarioFacts DEF Counted, CountedIn, Callers, Exec, Execs, Steps

\* A counted key is written by one step in its turn, and by nothing else.
LEMMA KeyFrame ==
    ASSUME Engine, UpdatesLocked, Kept, [Next]_vars, NEW k \in Keys, Counted(k),
           Lasting(k)
    PROVE  \/ kv'[k] = kv[k]
           \/ \E s \in On(scn, k, "kv.set") :
                 /\ run[s].phase = "call" /\ run[s].handler = 0 /\ KvWrite(s)
                 /\ kv'[k] = [st |-> "live", ttl |-> FALSE,
                              val |-> seen[Exec(s)] + 1]
<1>1. /\ kv \in [Keys -> Entries] /\ scn \in Scenarios
      /\ kv[k] \in Entries
  BY DEF Kept, Engine
<1>2. ASSUME NEW c \in Callers, KvRead(c)
      PROVE  kv'[k] = kv[k]
  BY <1>1, <1>2 DEF KvRead, KvGet, RedisGetFails, Lasting
<1>3. ASSUME NEW c \in Callers, KvWrite(c), kv'[k] # kv[k]
      PROVE  /\ c \in On(scn, k, "kv.set")
             /\ run[c].phase = "call" /\ run[c].handler = 0
             /\ kv'[k] = [st |-> "live", ttl |-> FALSE, val |-> seen[Exec(c)] + 1]
  <2>1. run[c].phase = "call" /\ Op(c).op = "kv.set"
    BY <1>3 DEF KvWrite, At
  <2>2. c \in Steps /\ run[c].handler = 0 /\ Op(c) = scn[c].op
    BY <2>1, KeyOps DEF Busy
  <2>3. KvSet(Op(c).key, seen[Exec(c)] + 1, Op(c).ttl)
    BY <1>3 DEF KvWrite, RedisSetFails
  <2>4. Op(c).key = k
    BY <1>1, <1>3, <2>3 DEF KvSet
  <2>5. Op(c).ttl = FALSE
    <3>1. Op(c).ttl \in BOOLEAN
      BY OpFacts DEF Ops
    <3> QED
      BY <1>1, <2>2, <2>4, <3>1, CountedOp
  <2>6. kv'[k] = [st |-> "live", ttl |-> FALSE, val |-> seen[Exec(c)] + 1]
    BY <1>1, <2>3, <2>4, <2>5 DEF KvSet
  <2> QED
    BY <1>1, <2>1, <2>2, <2>4, <2>6, OnFacts
<1>4. ASSUME NEW c \in Callers, KvRemove(c), KvDelete(Op(c).key)
      PROVE  kv'[k] = kv[k]
  <2>1. run[c].phase = "call" /\ Op(c).op = "kv.delete"
    BY <1>4 DEF KvRemove, At
  <2>2. c \in Steps /\ Op(c) = scn[c].op
    BY <2>1, KeyOps DEF Busy
  <2>3. Op(c).key # k
    BY <1>1, <2>1, <2>2, CountedOp
  <2> QED
    BY <1>1, <1>4, <2>3 DEF KvDelete
<1>5. ASSUME NEW j \in Keys, KvExpire(j)
      PROVE  kv'[k] = kv[k]
  BY <1>1, <1>5 DEF KvExpire, Lasting
<1> QED
  BY <1>2, <1>3, <1>4, <1>5, NextKeptMoves DEF KvMoves

\* What an execution has read changes when one of its steps reads.
LEMMA SeenFrame ==
    ASSUME Engine, UpdatesLocked, Kept, [Next]_vars, NEW k \in Keys, Counted(k),
           NEW e \in Execs, seen'[e] # seen[e]
    PROVE  \E d \in Steps : /\ Exec(d) = e /\ run[d].phase = "call"
                            /\ scn[d].op.op = "kv.get"
<1>1. seen \in [Execs -> Nat]
  BY DEF Kept
<1>2. PICK c \in Callers : KvMoves(c)
  BY <1>1, NextKeptMoves
<1>3. KvRead(c)
  BY <1>1, <1>2 DEF KvMoves, KvWrite, KvRemove
<1>4. run[c].phase = "call" /\ Op(c).op = "kv.get"
  BY <1>3 DEF KvRead, At
<1>5. c \in Steps /\ Op(c) = scn[c].op
  BY <1>4, KeyOps DEF Busy
<1>6. Exec(c) = e
  BY <1>1, <1>3 DEF KvRead
<1> QED
  BY <1>4, <1>5, <1>6

-----------------------------------------------------------------------------
(* Updates under a lock *)

\* At most one execution holds the key, and then the key is locked; between its
\* read and its write the value it has read is the value of the key; the value is
\* the number of writes.
Held(k) ==
    \A e \in Execs : Holds(k, e) =>
        locked[k] /\ \A f \in Execs : Holds(k, f) => f = e

Fresh(k) ==
    \A s \in On(scn, k, "kv.set") :
        \A g \in On(scn, k, "kv.get") \cap Before(scn, s) :
            (/\ Holds(k, Exec(s)) /\ steps[g] = "success"
             /\ run[s].phase # "done") => seen[Exec(s)] = kv[k].val

Written(k) == {s \in On(scn, k, "kv.set") : Acts(s)}

Guarded(k) == Held(k) /\ Fresh(k) /\ kv[k].val = Cardinality(Written(k))

Guards ==
    \A k \in Keys : Counted(k) =>
        /\ Lasting(k)
        /\ IF Updated(k) THEN Guarded(k) ELSE kv[k].val = 0

LEMMA OneMoves ==
    ASSUME Engine, OnErrorIdsOwn, [Next]_vars, NEW a \in Steps, NEW b \in Steps,
           steps'[a] # steps[a], steps'[b] # steps[b]
    PROVE  a = b
  BY NextMoves, MoveSteps

LEMMA NextLasting ==
    ASSUME Engine, UpdatesLocked, Kept, [Next]_vars, NEW k \in Keys, Counted(k),
           Lasting(k)
    PROVE  Lasting(k)'
<1>1. CASE kv'[k] = kv[k]
  BY <1>1 DEF Lasting
<1>2. ASSUME NEW s, kv'[k] = [st |-> "live", ttl |-> FALSE,
                              val |-> seen[Exec(s)] + 1]
      PROVE  Lasting(k)'
  BY <1>2 DEF Lasting
<1> QED
  BY <1>1, <1>2, KeyFrame

LEMMA NextHeld ==
    ASSUME Engine, OnErrorIdsOwn, UpdatesLocked, Shapes, Ordered, Reported, Kept,
           [Next]_vars, NEW k \in Keys, Updated(k), Held(k)
    PROVE  Held(k)'
<1>1. /\ UNCHANGED scn /\ Execs' = Execs /\ locked \in [Keys -> BOOLEAN]
      /\ Counted(k) /\ scn \in Scenarios
  BY FrameFacts DEF Execs, Exec, Callers, Kept, Updated, Engine
<1>2. ASSUME NEW e \in Execs, Holds(k, e)', ~Holds(k, e)
      PROVE  ~locked[k] /\ locked'[k]
  BY <1>1, <1>2, HoldsFrame DEF TakeLock, LockFree
<1>3. ASSUME NEW e \in Execs, Holds(k, e)', Holds(k, e)
      PROVE  locked'[k]
  <2>1. locked[k]
    BY <1>3 DEF Held
  <2>2. ASSUME NEW c \in Callers, At(c, "call", "unlock"), Op(c).key = k,
               Unlock(c), ReleaseLock(Op(c).key)
        PROVE  FALSE
    <3>1. c \in Unlockers(scn, k) /\ Holds(k, Exec(c)) /\ c \in Steps
      BY <1>1, <2>2, UnlockerHolds, UnlockLayout
    <3>2. Exec(c) = e
      BY <1>1, <1>3, <3>1, ScenarioFacts DEF Held
    <3>3. LetGo(k, c)'
      BY <2>2, <3>1, UnlockLetsGo
    <3> QED
      BY <1>1, <1>3, <3>1, <3>2, <3>3 DEF Holds, Exec
  <2> QED
    BY <2>1, <2>2, LockFrame
<1>4. ASSUME NEW e \in Execs, Holds(k, e)', NEW f \in Execs, Holds(k, f)'
      PROVE  f = e
  <2>1. CASE Holds(k, e) /\ Holds(k, f)
    BY <2>1 DEF Held
  <2>2. CASE ~Holds(k, e) /\ Holds(k, f)
    BY <1>2, <1>4, <2>2 DEF Held
  <2>3. CASE Holds(k, e) /\ ~Holds(k, f)
    BY <1>2, <1>4, <2>3 DEF Held
  <2>4. CASE ~Holds(k, e) /\ ~Holds(k, f)
    <3>1. PICK l \in On(scn, k, "lock") :
              Exec(l) = e /\ steps[l] # "success" /\ steps'[l] = "success"
      BY <1>4, <2>4, HoldsFrame
    <3>2. PICK m \in On(scn, k, "lock") :
              Exec(m) = f /\ steps[m] # "success" /\ steps'[m] = "success"
      BY <1>4, <2>4, HoldsFrame
    <3> QED
      BY <1>1, <3>1, <3>2, OnFacts, OneMoves
  <2> QED
    BY <2>1, <2>2, <2>3, <2>4
<1> QED
  BY <1>1, <1>2, <1>3, <1>4 DEF Held

\* A write is one more than what was read, and then the step is over.
LEMMA WriteFacts ==
    ASSUME Engine, Kept, UpdatesLocked, [Next]_vars, NEW k \in Keys, Counted(k),
           NEW s \in On(scn, k, "kv.set"), KvWrite(s), run[s].handler = 0
    PROVE  /\ kv'[k].val = seen[Exec(s)] + 1
           /\ steps'[s] = "success" /\ run'[s].phase = "done"
<1>1. /\ s \in Steps /\ s \in Callers /\ s \in Ids /\ scn \in Scenarios
      /\ scn[s].op.key = k
  BY OnFacts, ScenarioFacts DEF Engine
<1>2. Op(s).key = k /\ ~scn[Exec(s)].redis
  BY <1>1, HandlerOp, CountedOp
<1>3. KvSet(k, seen[Exec(s)] + 1, Op(s).ttl) /\ Return(s, TRUE)
  BY <1>2 DEF KvWrite
<1>4. kv'[k].val = seen[Exec(s)] + 1
  BY <1>3 DEF KvSet, Kept
<1>5. Succeed(s, <<>>)
  BY <1>3 DEF Return, ActionReturned
<1>6. steps'[s] = "success"
  BY <1>1, <1>5 DEF Succeed, End, Engine
<1>7. run'[s].phase = "done"
  BY <1>1, <1>5, EndPhase DEF Succeed
<1> QED
  BY <1>4, <1>6, <1>7

LEMMA NextFresh ==
    ASSUME Engine, OnErrorIdsOwn, UpdatesLocked, Shapes, Ordered, Reported, Kept,
           [Next]_vars, NEW k \in Keys, Updated(k), Lasting(k), Held(k), Fresh(k)
    PROVE  Fresh(k)'
<1>1. /\ UNCHANGED scn /\ scn \in Scenarios /\ Counted(k)
      /\ kv \in [Keys -> Entries] /\ kv[k] \in Entries /\ seen \in [Execs -> Nat]
  BY FrameFacts DEF Engine, Updated, Kept
<1> SUFFICES ASSUME NEW s \in On(scn, k, "kv.set"),
                    NEW g \in On(scn, k, "kv.get") \cap Before(scn, s),
                    Holds(k, Exec(s))', steps'[g] = "success",
                    run'[s].phase # "done"
             PROVE  seen'[Exec(s)] = kv'[k].val
  BY <1>1 DEF Fresh, Exec
<1>2. PICK e \in Execs : e = Exec(s)
  BY <1>1, OnFacts, ScenarioFacts
<1>3. /\ s \in Steps /\ s \in Callers /\ g \in Steps
      /\ scn[g].op.op = "kv.get" /\ scn[g].op.key = k
  BY <1>1, OnFacts, ScenarioFacts
<1>4. Exec(g) = e /\ g \in Callers
  BY <1>2 DEF Before, Exec, Callers
<1>5. /\ Plain(scn, g) /\ On(scn, k, "lock") \cap Before(scn, g) # {}
      /\ \A d \in Callers \ {g} : Exec(d) = e => scn[d].op.op # "kv.get"
  BY <1>1, <1>3, <1>4, <1>2, UpdateLayout
<1>6. run[s].phase # "done"
  BY <1>3, DoneStays
<1>7. Holds(k, e)'
  BY <1>1, <1>2 DEF Exec
<1>8. CASE steps[g] # "success"
  <2>1. run[g].handler = 0 /\ KvRead(g)
    BY <1>3, <1>5, <1>8, Successes DEF Worked, Plain
  <2>2. Op(g).key = k /\ ~scn[Exec(g)].redis
    BY <1>1, <1>3, <1>4, <2>1, HandlerOp, CountedOp
  <2>3. PICK v : seen' = [seen EXCEPT ![e] = v] /\ KvGet(k, v)
    BY <1>4, <2>1, <2>2 DEF KvRead
  <2>4. v = kv[k].val /\ kv'[k] = kv[k]
    BY <1>1, <2>3 DEF KvGet, Lasting, Entries
  <2> QED
    BY <1>1, <1>2, <2>3, <2>4
<1>9. CASE steps[g] = "success"
  <2>1. run[g].phase = "done"
    BY <1>3, <1>9, SuccessDone
  <2>2. Holds(k, e)
    <3> SUFFICES ASSUME ~Holds(k, e) PROVE FALSE
      OBVIOUS
    <3>1. PICK l \in On(scn, k, "lock") : Exec(l) = e /\ run[l].phase # "done"
      BY <1>7, HoldsFrame
    <3>2. PICK m \in On(scn, k, "lock") : m \in Before(scn, g)
      BY <1>5
    <3>3. Exec(m) = e
      BY <1>4, <3>2 DEF Before, Exec
    <3>4. m = l
      BY <1>1, <3>1, <3>3, UpdateLayout
    <3> QED
      BY <1>3, <2>1, <3>1, <3>2, <3>4, BeforeWaits
  <2>3. seen[e] = kv[k].val
    BY <1>6, <1>9, <1>2, <2>2 DEF Fresh
  <2>4. seen'[e] = seen[e]
    <3> SUFFICES ASSUME seen'[e] # seen[e] PROVE FALSE
      OBVIOUS
    <3>1. PICK d \in Steps : /\ Exec(d) = e /\ run[d].phase = "call"
                             /\ scn[d].op.op = "kv.get"
      BY <1>1, <1>3, SeenFrame
    <3>2. d \in Callers
      BY <1>1, ScenarioFacts
    <3> QED
      BY <1>5, <2>1, <3>1, <3>2
  <2>5. kv'[k] = kv[k]
    <3> SUFFICES ASSUME kv'[k] # kv[k] PROVE FALSE
      OBVIOUS
    <3>1. PICK t \in On(scn, k, "kv.set") :
              run[t].phase = "call" /\ run[t].handler = 0 /\ KvWrite(t)
      BY <1>1, KeyFrame
    <3>2. InProgress(t) /\ t \in Callers
      BY <1>1, <3>1, OnFacts, ScenarioFacts DEF InProgress
    <3>3. Holds(k, Exec(t)) /\ Exec(t) \in Execs
      BY <1>1, <3>2, WriterHolds, ScenarioFacts
    <3>4. t = s
      BY <1>1, <1>3, <1>2, <2>2, <3>3, UpdateLayout DEF Held
    <3> QED
      BY <1>1, <3>1, <3>4, WriteFacts
  <2> QED
    BY <1>2, <2>3, <2>4, <2>5
<1> QED
  BY <1>8, <1>9

LEMMA WrittenFinite ==
    ASSUME scn \in Scenarios, NEW k
    PROVE  IsFiniteSet(Written(k)) /\ Cardinality(Written(k)) \in Nat
<1>1. IsFiniteSet(Callers)
  BY ScenariosAssumption DEF Callers
<1>2. Written(k) \subseteq Callers
  BY DEF Written, On, Callers
<1> QED
  BY <1>1, <1>2, FS_Subset, FS_CardinalityType

LEMMA NextWritten ==
    ASSUME Engine, OnErrorIdsOwn, UpdatesLocked, Shapes, Ordered, Reported, Kept,
           [Next]_vars, NEW k \in Keys, Updated(k), Lasting(k), Guarded(k)
    PROVE  kv'[k].val = Cardinality(Written(k)')
<1>1. UNCHANGED scn /\ scn \in Scenarios /\ Counted(k)
  BY FrameFacts DEF Engine, Updated
<1>2. ASSUME NEW s \in On(scn, k, "kv.set")
      PROVE  /\ s \in Steps /\ s \in Callers
             /\ scn[s].attempts > 0 /\ scn[s].mock # "output"
             /\ scn[s].policy # "ignore" /\ scn[s].op.op = "kv.set"
             /\ s \in Written(k) <=> steps[s] = "success"
             /\ s \in Written(k)' <=> steps'[s] = "success"
  <2>1. s \in Steps /\ s \in Callers /\ scn[s].op.op = "kv.set"
    BY <1>1, OnFacts, ScenarioFacts
  <2>2. /\ scn[s].attempts > 0 /\ scn[s].mock # "output"
        /\ scn[s].policy # "ignore"
    BY <1>1, UpdateLayout
  <2>3. s \in Written(k) <=> steps[s] = "success"
    BY <2>2 DEF Written, Acts
  <2>4. s \in Written(k)' <=> steps'[s] = "success"
    BY <1>1, <2>2 DEF Written, Acts
  <2> QED
    BY <2>1, <2>2, <2>3, <2>4
<1>3. /\ Written(k) \subseteq On(scn, k, "kv.set")
      /\ Written(k)' \subseteq On(scn, k, "kv.set")
  BY <1>1 DEF Written
<1>4. Written(k) \subseteq Written(k)'
  BY <1>2, <1>3, SuccessDone, DoneStays
<1>5. CASE \E s \in On(scn, k, "kv.set") :
               steps[s] # "success" /\ steps'[s] = "success"
  <2>1. PICK s \in On(scn, k, "kv.set") :
            steps[s] # "success" /\ steps'[s] = "success"
    BY <1>5
  <2>2. run[s].handler = 0 /\ run[s].phase \in Busy /\ KvWrite(s)
    BY <1>2, <2>1, Successes DEF Worked
  <2>3. kv'[k].val = seen[Exec(s)] + 1
    BY <1>1, <2>2, WriteFacts
  <2>4. InProgress(s) /\ run[s].phase # "done"
    BY <2>2 DEF InProgress, Busy
  <2>5. seen[Exec(s)] = kv[k].val
    BY <2>4, WriterHolds DEF Guarded, Fresh
  <2>6. Written(k)' = Written(k) \cup {s}
    <3>1. ASSUME NEW t \in Written(k)', t \notin Written(k)
          PROVE  t = s
      BY <1>2, <1>3, <2>1, <3>1, OneMoves
    <3> QED
      BY <1>2, <1>4, <2>1, <3>1
  <2>7. s \notin Written(k)
    BY <1>2, <2>1
  <2>8. Cardinality(Written(k) \cup {s}) = Cardinality(Written(k)) + 1
    BY <1>1, <2>7, WrittenFinite, FS_AddElement
  <2> QED
    BY <2>3, <2>5, <2>6, <2>8 DEF Guarded
<1>6. CASE ~\E s \in On(scn, k, "kv.set") :
               steps[s] # "success" /\ steps'[s] = "success"
  <2>1. Written(k)' = Written(k)
    BY <1>2, <1>3, <1>4, <1>6
  <2>2. kv'[k] = kv[k]
    <3> SUFFICES ASSUME kv'[k] # kv[k] PROVE FALSE
      OBVIOUS
    <3>1. PICK s \in On(scn, k, "kv.set") :
              run[s].phase = "call" /\ run[s].handler = 0 /\ KvWrite(s)
      BY <1>1, KeyFrame
    <3>2. steps'[s] = "success"
      BY <1>1, <3>1, WriteFacts
    <3>3. steps[s] # "success"
      BY <1>2, <3>1, SuccessDone
    <3> QED
      BY <1>6, <3>2, <3>3
  <2> QED
    BY <2>1, <2>2 DEF Guarded
<1> QED
  BY <1>5, <1>6

LEMMA NextGuards ==
    ASSUME OnErrorIdsOwn, UpdatesLocked, Engine, Shapes, Ordered, Reported, Kept,
           Guards, [Next]_vars
    PROVE  Guards'
<1>1. UNCHANGED scn
  BY FrameFacts
<1> SUFFICES ASSUME NEW k \in Keys, Counted(k)
             PROVE  /\ Lasting(k)'
                    /\ IF Updated(k) THEN Guarded(k)' ELSE kv'[k].val = 0
  BY <1>1 DEF Guards, Counted, Updated
<1>2. Lasting(k) /\ IF Updated(k) THEN Guarded(k) ELSE kv[k].val = 0
  BY DEF Guards
<1>3. Lasting(k)'
  BY <1>2, NextLasting
<1>4. CASE Updated(k)
  <2>1. Held(k)' /\ Fresh(k)'
    BY <1>2, <1>4, NextHeld, NextFresh DEF Guarded
  <2>2. kv'[k].val = Cardinality(Written(k)')
    BY <1>2, <1>4, NextWritten
  <2> QED
    BY <1>3, <1>4, <2>1, <2>2 DEF Guarded
<1>5. CASE ~Updated(k)
  <2>1. On(scn, k, "kv.set") = {}
    BY <1>5 DEF Updated
  <2>2. kv'[k] = kv[k]
    BY <1>2, <2>1, KeyFrame
  <2> QED
    BY <1>2, <1>3, <1>5, <2>2
<1> QED
  BY <1>4, <1>5

LEMMA InitGuards == ASSUME UpdatesLocked PROVE Init => Guards
<1> SUFFICES ASSUME Init, NEW k \in Keys, Counted(k)
             PROVE  /\ Lasting(k)
                    /\ IF Updated(k) THEN Guarded(k) ELSE kv[k].val = 0
  BY DEF Guards
<1>1. kv[k] = Absent /\ scn \in Scenarios
  BY DEF Init, ServicesInit
<1>2. \A c \in Steps : steps[c] = "none"
  BY <1>1, ScenarioFacts DEF Init
<1>3. Lasting(k) /\ kv[k].val = 0
  BY <1>1 DEF Lasting, Absent
<1>4. ASSUME NEW e
      PROVE  ~Holds(k, e)
  BY <1>1, <1>2, OnFacts DEF Holds, Acquired
<1>5. Written(k) = {}
  BY <1>1, <1>2, OnFacts DEF Written, Acts
<1>6. Guarded(k)
  BY <1>3, <1>4, <1>5, FS_EmptySet DEF Guarded, Held, Fresh
<1> QED
  BY <1>3, <1>6

\* The inductive invariant of keys that are counted under a lock: one execution
\* at a time holds the lock, what it has read is not changed under its hands, and
\* who comes to write or to unlock is that execution (MemoryLocker,
\* MemoryKVStore, executeOnError).
THEOREM GuardsHold ==
    ASSUME OnErrorIdsOwn, UpdatesLocked
    PROVE  Spec => []Guards
<1>1. Init => Guards
  BY InitGuards
<1>2. Engine /\ Shapes /\ Ordered /\ Reported /\ Kept /\ Guards /\ [Next]_vars
          => Guards'
  BY NextGuards
<1> QED
  BY <1>1, <1>2, EngineHolds, ShapesHold, OrderedHolds, ReportedHolds, KeptHolds,
     PTL DEF Spec

\* Executions that lock a key, read it, write one more and unlock it lose no
\* update, though a lock can time out, a step between can fail and unlock, and
\* Unlock does not ask whose lock it is (MemoryLocker).
THEOREM NoLostUpdateHolds ==
    ASSUME OnErrorIdsOwn, UpdatesLocked
    PROVE  Spec => []NoLostUpdate
<1>1. Engine /\ Guards => NoLostUpdate
  <2> SUFFICES ASSUME Engine, Guards, NEW k \in Keys, Counted(k)
               PROVE  kv[k].val = Cardinality({s \in Steps :
                                                  /\ scn[s].op.op = "kv.set"
                                                  /\ scn[s].op.key = k
                                                  /\ Acts(s)})
    BY DEF NoLostUpdate
  <2>1. Written(k) = {s \in Steps : /\ scn[s].op.op = "kv.set"
                                    /\ scn[s].op.key = k
                                    /\ Acts(s)}
    BY OnFacts DEF Written, Engine
  <2>2. kv[k].val = Cardinality(Written(k))
    <3>1. CASE Updated(k)
      BY <3>1 DEF Guards, Guarded
    <3>2. CASE ~Updated(k)
      <4>1. kv[k].val = 0 /\ Written(k) = {}
        BY <3>2 DEF Guards, Updated, Written
      <4> QED
        BY <4>1, FS_EmptySet
    <3> QED
      BY <3>1, <3>2
  <2> QED
    BY <2>1, <2>2
<1> QED
  BY <1>1, EngineHolds, GuardsHold, PTL
=============================================================================
