-------------------------------- MODULE Agent --------------------------------
(***************************************************************************)
(* The agent around the engine (internal/server): what triggers            *)
(* executions (HTTP with idempotency keys, cron, RabbitMQ, the schedule    *)
(* action), the in-memory store that keeps the newest of them, the steps   *)
(* that wait for the outside or move messages, cancellation and shutdown.  *)
(*                                                                         *)
(* An execution runs the steps of its workflow side by side; dependencies, *)
(* policies and the other actions are the subjects of DagScheduler and     *)
(* StepRun, a store that survives a crash that of Recovery.                *)
(***************************************************************************)
EXTENDS Waits, Listings

CONSTANTS
    MaxIds,         \* bound: ids there are
    Scenarios       \* what the agent is given:
                    \*   keys : HTTP request -> idempotency key, or NoKey
                    \*   async, claimFails : BOOLEAN
                    \*   ids : bound: executions that are created
                    \*   ticks : bound: firings of the cron schedule
                    \*   messages : message -> queue it is published to
                    \*   value : message -> value of its match field
                    \*   consumes : it has a RabbitMQ trigger, with
                    \*   ackOnSuccess : BOOLEAN, prefetch : Nat
                    \*   steps : step -> [kind, path, attempts, timeout]
                    \*   match : id -> value its waits match, or AnyValue
                    \*   hooks : webhook sender -> [exec, path]
                    \*   flaky, breaks, cancels, stops : BOOLEAN

CONSTANTS NoKey, AnyValue

Kinds == {"plain", "webhook", "rabbit", "shovel", "schedule"}

ASSUME IdsAssumption == MaxIds \in Nat /\ NoRow \notin 1..MaxIds

\* What is sent to a waiter is told from an empty and from a closed channel.
ASSUME ScenariosAssumption ==
    \A S \in Scenarios :
        /\ S.ids \in 0..MaxIds /\ S.ticks \in Nat
        /\ {S.async, S.claimFails, S.consumes, S.ackOnSuccess, S.flaky, S.breaks,
            S.cancels, S.stops} \subseteq BOOLEAN
        /\ S.steps \in [DOMAIN S.steps -> [kind : Kinds, path : STRING,
                                          attempts : Nat \ {0}, timeout : BOOLEAN]]
        /\ IsFiniteSet(DOMAIN S.steps)
        /\ \A h \in DOMAIN S.hooks :
              /\ S.hooks[h].exec \in 1..MaxIds
              /\ \E s \in DOMAIN S.steps : S.hooks[h].path = S.steps[s].path
        /\ {Nothing, Closed} \cap (DOMAIN S.messages \cup DOMAIN S.hooks) = {}
        /\ DOMAIN S.messages \cap DOMAIN S.hooks = {}

\* validateSteps: no step is without an id.
ASSUME StepIdsAssumption == \A S \in Scenarios : "" \notin DOMAIN S.steps

VARIABLES
    scn,
    nextId,         \* ids up to here are used (uuid.New)
    req,            \* HTTP request -> [phase, id, told, unclaimed]
    claims,         \* MemoryClaimer.claims: key -> id
    ticks,          \* firings of the schedule so far
    trigger,        \* RabbitMQConsumer.consumeLoop: what it has in hand, or
                    \* Closed when it has ended
    exec,           \* id -> [phase, src, cancelled, outcome]
    step,           \* id -> step -> [phase, attempt, ok, expired, n, msg]
    watch,          \* waiters whose context a goroutine watches
    got,            \* waiter -> what its step took
    published,      \* id -> events published
    captured,       \* id -> how many of them captureEvents has applied
    timers,         \* timers of the schedule action that have not fired
    hook,           \* webhook sender -> [phase, to]
    copies,         \* message -> copies in the destination of the shovel
    added,          \* ids in the order of their Add
    stage           \* of the shutdown

runVars  == <<exec, step, watch, got, published, captured>>
entry    == <<req, claims, ticks, trigger, timers, hook, copies>>
vars == <<scn, nextId, added, stage, runVars, entry, waitVars, brokerVars, storeVars>>

Ids      == 1..MaxIds
Requests == DOMAIN scn.keys
Steps    == DOMAIN scn.steps
Kind(s)  == scn.steps[s].kind

\* shutdownServices, one service after the other.
Up             == 0
CronStopped    == 2
ConsumerClosed == 3
WaitsClosed    == 4
TimersStopped  == 5
Exited         == 6

Cancelled(e) == exec[e].cancelled \/ stage > Up

Timer == "timer"        \* the source of executions of TimerFires

Trigger == "trigger"    \* the channel of the consumer

TriggerQueue == "orders"

\* One waiter per attempt.
Waiters == UNION {Ids \X {s} \X (1..scn.steps[s].attempts) : s \in Steps}

NewStep == [phase |-> "new", attempt |-> 0, ok |-> FALSE, expired |-> FALSE,
            n |-> 0, msg |-> Nothing]

Init ==
    /\ scn \in Scenarios
    /\ nextId = 1
    /\ req = [r \in Requests |->
                 [phase |-> "none", id |-> 0, told |-> 0, unclaimed |-> FALSE]]
    /\ claims = <<>>
    /\ ticks = 0
    /\ trigger = IF scn.consumes THEN Nothing ELSE Closed
    /\ exec = [e \in Ids |-> [phase |-> "none", src |-> Nothing,
                              cancelled |-> FALSE, outcome |-> "none"]]
    /\ step = [e \in Ids |-> [s \in Steps |-> NewStep]]
    /\ watch = {}
    /\ got = [w \in Waiters |-> Nothing]
    /\ published = [e \in Ids |-> <<>>]
    /\ captured = [e \in Ids |-> 0]
    /\ timers = 0
    /\ hook = [h \in DOMAIN scn.hooks |-> [phase |-> "new", to |-> Nothing]]
    /\ copies = [m \in DOMAIN scn.messages |-> 0]
    /\ added = <<>>
    /\ stage = Up
    /\ StoreInit
    /\ WaitsInit(Waiters, {<<e, scn.steps[s].path>> : e \in Ids, s \in Steps})
    /\ BrokerInit(scn.messages, IF scn.consumes THEN {Trigger} ELSE {})
-----------------------------------------------------------------------------
(* Starting executions: runWorkflowAsync and its twin for HTTP triggers *)

Fresh(e) ==
    /\ e = nextId /\ e <= scn.ids
    /\ nextId' = nextId + 1

\* The row is added, then the cancel function registered, then the goroutine
\* started.
Launch(e, src) ==
    /\ Add(e, "running")
    /\ added' = Append(added, e)
    /\ exec' = [exec EXCEPT ![e].phase = "running", ![e].src = src]
    /\ UNCHANGED <<scn, step, watch, got, published, captured>>

Outside == UNCHANGED <<waitVars, brokerVars>>

\* executeTriggerWorkflow: an id, then the claim if there is a key.
Request(r) ==
    /\ req[r].phase = "none"
    /\ Fresh(nextId)
    /\ req' = [req EXCEPT ![r].id = nextId,
                          ![r].phase = IF scn.keys[r] = NoKey THEN "start" ELSE "claim"]
    /\ UNCHANGED <<scn, added, stage, runVars, claims, ticks, trigger, timers,
                   hook, copies, storeVars>>
    /\ Outside

ClaimedNever(k) == FALSE

Claimed(k) == k \in DOMAIN claims

\* handleIdempotencyCheck; a claim that fails is no obstacle.
Claim(r) ==
    LET k == scn.keys[r]
    IN  /\ req[r].phase = "claim"
        /\ \/ /\ ~Claimed(k)
              /\ claims' = Put(claims, k, req[r].id)
              /\ req' = [req EXCEPT ![r].phase = "start"]
           \/ /\ Claimed(k)
              /\ req' = [req EXCEPT ![r].phase = "answered", ![r].told = claims[k]]
              /\ UNCHANGED claims
           \/ /\ scn.claimFails
              /\ req' = [req EXCEPT ![r].phase = "start", ![r].unclaimed = TRUE]
              /\ UNCHANGED claims
        /\ UNCHANGED <<scn, nextId, added, stage, runVars, ticks, trigger, timers,
                       hook, copies, storeVars>>
        /\ Outside

\* 202 at once for an asynchronous workflow.
StartRequest(r) ==
    /\ req[r].phase = "start"
    /\ Launch(req[r].id, r)
    /\ req' = [req EXCEPT ![r].told = req[r].id,
                          ![r].phase = IF scn.async THEN "answered" ELSE "sync"]
    /\ UNCHANGED <<nextId, stage, claims, ticks, trigger, timers, hook, copies>>
    /\ Outside

AnswerSync(r) ==
    /\ req[r].phase = "sync" /\ exec[req[r].id].phase = "over"
    /\ req' = [req EXCEPT ![r].phase = "answered"]
    /\ UNCHANGED <<scn, nextId, added, stage, runVars, claims, ticks, trigger,
                   timers, hook, copies, storeVars>>
    /\ Outside

Tick ==
    /\ ticks < scn.ticks /\ stage < CronStopped
    /\ Fresh(nextId)
    /\ ticks' = ticks + 1
    /\ Launch(nextId, Nothing)
    /\ UNCHANGED <<stage, req, claims, trigger, timers, hook, copies>>
    /\ Outside

\* The timer runs the workflow under a new id; the row of the id that the
\* schedule action returned is not touched again.
TimerFires ==
    /\ timers > 0 /\ stage < TimersStopped
    /\ Fresh(nextId)
    /\ timers' = timers - 1
    /\ Launch(nextId, Timer)
    /\ UNCHANGED <<stage, req, claims, ticks, trigger, hook, copies>>
    /\ Outside
-----------------------------------------------------------------------------
(* RabbitMQConsumer *)

TriggerOnly == UNCHANGED <<req, claims, ticks, timers, hook, copies, waitVars>>

Consume(m) ==
    /\ trigger = Nothing /\ nextId <= scn.ids
    /\ Receive(m, TriggerQueue, Trigger, scn.prefetch)
    /\ trigger' = m
    /\ UNCHANGED <<scn, nextId, added, stage, runVars, storeVars>>
    /\ TriggerOnly

\* The loop ends with its context or its channel of deliveries, for good.
ConsumeEnds ==
    /\ trigger = Nothing
    /\ stage > Up \/ Trigger \notin chanUp
    /\ trigger' = Closed
    /\ UNCHANGED <<scn, nextId, added, stage, runVars, storeVars, brokerVars>>
    /\ TriggerOnly

\* Without ack_on_success the message is acknowledged before the run.
AckEarlyAlways == TRUE

AckEarly == ~scn.ackOnSuccess

Acknowledge ==
    /\ trigger \in Messages /\ AckEarly
    /\ at[trigger] = "unacked"
    /\ Ack(trigger, Trigger)
    /\ UNCHANGED <<scn, nextId, added, stage, runVars, storeVars, trigger>>
    /\ TriggerOnly

OnMessage ==
    /\ trigger \in Messages
    /\ AckEarly => at[trigger] # "unacked"
    /\ Fresh(nextId)
    /\ Launch(nextId, trigger)
    /\ trigger' = Nothing
    /\ UNCHANGED <<stage, brokerVars>>
    /\ TriggerOnly
-----------------------------------------------------------------------------
(* Steps *)

Publish(e, events) == published' = [published EXCEPT ![e] = @ \o events]

GoTo(e, s, phase) == step' = [step EXCEPT ![e][s].phase = phase]

StepOnly == UNCHANGED <<scn, nextId, added, stage, exec, req, claims, ticks,
                        trigger, hook, captured>>

\* The end of an attempt: another, or the result of the step.
Attempted(e, s, ok) ==
    IF ~ok /\ step[e][s].attempt < scn.steps[s].attempts
    THEN GoTo(e, s, "backoff") /\ Publish(e, <<<<s, "started">>>>)
    ELSE /\ step' = [step EXCEPT ![e][s].phase = "done", ![e][s].ok = ok]
         /\ Publish(e, <<<<s, IF ok THEN "completed" ELSE "failed">>>>)

First(s) ==
    CASE Kind(s) = "schedule" -> "act"
      [] Kind(s) = "shovel"   -> "open"
      [] OTHER                -> "register"

\* Bound: an execution that the timer started schedules no other.
Plain(e, s) == Kind(s) = "plain" \/ (Kind(s) = "schedule" /\ exec[e].src = Timer)

CanStart(e, s) ==
    (exec[e].phase = "running" /\ step[e][s].phase = "new") \/ step[e][s].phase = "backoff"

\* The "started" of a new attempt is published by the one that failed.
StartStep(e, s) ==
    /\ ~Plain(e, s) /\ CanStart(e, s)
    /\ step' = [step EXCEPT ![e][s] = [NewStep EXCEPT !.phase = First(s),
                                                      !.attempt = step[e][s].attempt + 1]]
    /\ Publish(e, IF step[e][s].phase = "new" THEN <<<<s, "started">>>> ELSE <<>>)
    /\ UNCHANGED <<watch, got, timers, copies, waitVars, brokerVars, storeVars>>
    /\ StepOnly

RetryCancelled(e, s) ==
    /\ step[e][s].phase = "backoff" /\ Cancelled(e)
    /\ GoTo(e, s, "done")
    /\ Publish(e, <<<<s, "failed">>>>)
    /\ UNCHANGED <<watch, got, timers, copies, waitVars, brokerVars, storeVars>>
    /\ StepOnly

\* Any other action, over at once.
Act(e, s, ok) ==
    /\ Plain(e, s) /\ CanStart(e, s)
    /\ ok \/ scn.flaky \/ Cancelled(e)
    /\ step' = [step EXCEPT ![e][s].phase = "done", ![e][s].ok = ok]
    /\ Publish(e, <<<<s, "started">>, <<s, IF ok THEN "completed" ELSE "failed">>>>)
    /\ UNCHANGED <<watch, got, timers, copies, waitVars, brokerVars, storeVars>>
    /\ StepOnly

\* ScheduleExecution.
Schedule(e, s) ==
    /\ Kind(s) = "schedule" /\ step[e][s].phase = "act"
    /\ Fresh(nextId)
    /\ Add(nextId, "scheduled")
    /\ added' = Append(added, nextId)
    /\ timers' = timers + 1
    /\ Attempted(e, s, TRUE)
    /\ UNCHANGED <<scn, stage, exec, req, claims, ticks, trigger, hook, captured,
                   watch, got, copies, waitVars, brokerVars>>
-----------------------------------------------------------------------------
(* wait.webhook and wait.rabbitmq *)

Waiter(e, s) == <<e, s, step[e][s].attempt>>

HookKey(w) == <<w[1], scn.steps[w[2]].path>>

IsHook(s) == Kind(s) = "webhook"

Waits_(e, s, phase) == Kind(s) \in {"webhook", "rabbit"} /\ step[e][s].phase = phase

RegisterStep(e, s) ==
    /\ Waits_(e, s, "register")
    /\ LET w == Waiter(e, s)
       IN  /\ IF IsHook(s) THEN RegisterHook(w, HookKey(w))
              ELSE \E opens \in {TRUE, ~scn.breaks} : RegisterWait(w, opens)
           /\ watch' = watch \cup {w}
    /\ GoTo(e, s, "emit")
    /\ UNCHANGED <<published, got, timers, copies, storeVars>>
    /\ StepOnly

EmitWaiting(e, s) ==
    /\ Waits_(e, s, "emit")
    /\ GoTo(e, s, "select")
    /\ Publish(e, <<<<s, "waiting">>>>)
    /\ UNCHANGED <<watch, got, timers, copies, waitVars, brokerVars, storeVars>>
    /\ StepOnly

\* The select of Execute: the channel, ...
Taken(e, s) ==
    LET w == Waiter(e, s)
    IN  /\ Waits_(e, s, "select")
        /\ box[w] # Nothing
        /\ step' = [step EXCEPT ![e][s].phase = "leaving",
                                ![e][s].ok = box[w] # Closed]
        /\ IF box[w] = Closed THEN UNCHANGED <<box, got>>
           ELSE got' = [got EXCEPT ![w] = box[w]] /\ Empty(w)
        /\ UNCHANGED <<regs, consumer, waiters, hand, brokerVars, watch, published,
                       timers, copies, storeVars>>
        /\ StepOnly

\* ... the wait's own timeout, which there always is, or the context.
WaitEndsNever(e, s) == FALSE

WaitEnds(e, s) == TRUE

GivesUp(e, s) ==
    /\ Waits_(e, s, "select") /\ WaitEnds(e, s)
    /\ step' = [step EXCEPT ![e][s].phase = "leaving", ![e][s].ok = FALSE]
    /\ UNCHANGED <<watch, got, published, timers, copies, waitVars, brokerVars, storeVars>>
    /\ StepOnly

StepTimeout(e, s) ==
    /\ scn.steps[s].timeout /\ Waits_(e, s, "select") /\ ~step[e][s].expired
    /\ step' = [step EXCEPT ![e][s].expired = TRUE]
    /\ UNCHANGED <<watch, got, published, timers, copies, waitVars, brokerVars, storeVars>>
    /\ StepOnly

Cleanup(w) ==
    IF IsHook(w[2]) THEN CleanupHook(HookKey(w))
    ELSE IF box[w] = Closed THEN UNCHANGED <<waitVars, brokerVars>>
    ELSE CleanupWait(w)

\* The deferred cleanup, and the end of the attempt.
Leave(e, s) ==
    /\ Waits_(e, s, "leaving")
    /\ Cleanup(Waiter(e, s))
    /\ Attempted(e, s, step[e][s].ok)
    /\ UNCHANGED <<watch, got, timers, copies, storeVars>>
    /\ StepOnly

\* The context of an attempt ends with the execution's, with the timeout of
\* the step, and, if it has one, when Execute returns (timeoutCancel).
ContextOver(w) ==
    LET st == step[w[1]][w[2]]
    IN  \/ Cancelled(w[1])
        \/ w[3] = st.attempt /\ st.expired
        \/ /\ scn.steps[w[2]].timeout
           /\ w[3] < st.attempt \/ st.phase \in {"backoff", "done"}

\* The goroutine of Register.
LateCleanup(w) ==
    /\ w \in watch /\ ContextOver(w)
    /\ watch' = watch \ {w}
    /\ Cleanup(w)
    /\ UNCHANGED <<scn, nextId, added, stage, exec, step, got, published, captured,
                   entry, storeVars>>

OthersOfDeliver == UNCHANGED <<scn, nextId, added, stage, runVars, req, claims,
                               ticks, trigger, timers, copies, storeVars>>

\* Deliver looks the registration up, then sends without the lock.
HookLooksUp(h) ==
    /\ hook[h].phase = "new"
    /\ LET w == regs[<<scn.hooks[h].exec, scn.hooks[h].path>>]
       IN  hook' = [hook EXCEPT ![h] =
                       [phase |-> IF w = Nothing THEN "refused" ELSE "send", to |-> w]]
    /\ Outside
    /\ OthersOfDeliver

HookSends(h) ==
    /\ hook[h].phase = "send"
    /\ \/ Send(hook[h].to, h) /\ hook' = [hook EXCEPT ![h].phase = "delivered"]
       \/ Refuse(hook[h].to) /\ hook' = [hook EXCEPT ![h].phase = "refused"]
    /\ OthersOfDeliver

Matches(w, m) == scn.match[w[1]] \in {AnyValue, scn.value[m]}

Wants(w) == Matches(w, hand) /\ ~ContextOver(w)

ConsumerLoop ==
    /\ (\E m \in Messages : TakeInHand(m)) \/ Route({w \in ToSet(waiters) : Wants(w)})
    /\ UNCHANGED hook
    /\ OthersOfDeliver
-----------------------------------------------------------------------------
(* rabbitmq.shovel *)

Shovel == "shovel"

ShovelCount == 3    \* bound: the count of the action's config

Shovels(e, s, phase) == Kind(s) = "shovel" /\ step[e][s].phase = phase

ShovelOnly ==
    /\ UNCHANGED <<watch, got, timers, waitVars, storeVars>>
    /\ StepOnly

ShovelOpen(e, s) ==
    /\ Shovels(e, s, "open")
    /\ \/ /\ OpenChannel(Shovel)
          /\ GoTo(e, s, "get")
          /\ UNCHANGED published
       \/ /\ scn.breaks
          /\ Attempted(e, s, FALSE)
          /\ UNCHANGED brokerVars
    /\ UNCHANGED copies
    /\ ShovelOnly

ShovelGet(e, s) ==
    /\ Shovels(e, s, "get") /\ step[e][s].n < ShovelCount
    /\ \E m \in Messages :
          /\ Receive(m, TriggerQueue, Shovel, 0)
          /\ step' = [step EXCEPT ![e][s].phase = "publish", ![e][s].msg = m]
    /\ UNCHANGED <<copies, published>>
    /\ ShovelOnly

\* A cancelled context or an error of Get ends the loop with an error; an
\* empty queue or the count ends it well.
ShovelEnds(e, s) ==
    /\ Shovels(e, s, "get")
    /\ \E ok \in BOOLEAN :
          /\ \/ ~ok /\ (Cancelled(e) \/ Shovel \notin chanUp)
             \/ ok /\ step[e][s].n = ShovelCount
             \/ ok /\ Shovel \in chanUp
                   /\ \A m \in Messages : at[m] # "queued" \/ queueOf[m] # TriggerQueue
          /\ Attempted(e, s, ok)
    /\ CloseChannel(Shovel)
    /\ UNCHANGED copies
    /\ ShovelOnly

\* Publish and wait for the confirmation: the message may be there though
\* the call fails.
ShovelPublish(e, s) ==
    /\ Shovels(e, s, "publish")
    /\ \E stored \in BOOLEAN, confirmed \in BOOLEAN :
          /\ confirmed => stored
          /\ confirmed \/ scn.breaks
          /\ copies' = [copies EXCEPT ![step[e][s].msg] = @ + (IF stored THEN 1 ELSE 0)]
          /\ GoTo(e, s, IF confirmed THEN "ack" ELSE "nack")
    /\ UNCHANGED <<published, brokerVars>>
    /\ ShovelOnly

ShovelSettles(e, s) ==
    /\ \/ Shovels(e, s, "ack") /\ Ack(step[e][s].msg, Shovel)
       \/ Shovels(e, s, "nack") /\ Nack(step[e][s].msg, Shovel)
    /\ step' = [step EXCEPT ![e][s].phase = "get", ![e][s].msg = Nothing, ![e][s].n = @ + 1]
    /\ UNCHANGED <<copies, published>>
    /\ ShovelOnly
-----------------------------------------------------------------------------
(* The end of an execution *)

EndOnly == UNCHANGED <<scn, nextId, added, stage, step, watch, got, entry, waitVars>>

Outcome(e) ==
    IF \A s \in Steps : step[e][s].ok THEN "success"
    ELSE IF Cancelled(e) THEN "cancelled" ELSE "failed"

\* Execute returns, with workflow.completed published.
Return(e) ==
    /\ exec[e].phase = "running"
    /\ \A s \in Steps : step[e][s].phase = "done"
    /\ exec' = [exec EXCEPT ![e].phase = "returned", ![e].outcome = Outcome(e)]
    /\ Publish(e, <<<<"", "over">>>>)
    /\ UNCHANGED <<captured, storeVars, brokerVars>>
    /\ EndOnly

NextEvent(e) == published[e][captured[e] + 1]

\* captureEvents with processEvent and applyStepEvent.
StatusOf == [started |-> "running", waiting |-> "waiting", completed |-> "success",
             failed |-> "failed"]

Capture(e) ==
    /\ captured[e] < Len(published[e])
    /\ captured' = [captured EXCEPT ![e] = @ + 1]
    /\ AppendEvent(e, NextEvent(e))
    /\ IF NextEvent(e)[1] = "" THEN UNCHANGED rows
       ELSE UpdateStep(e, NextEvent(e)[1], StatusOf[NextEvent(e)[2]])
    /\ UNCHANGED <<exec, published, buffer, head, count, brokerVars>>
    /\ EndOnly

\* stopCapture waits for the events, finalizeExecution writes the status.
DrainedAlways(e) == TRUE

Drained(e) == captured[e] = Len(published[e])

Finalize(e) ==
    /\ exec[e].phase = "returned" /\ Drained(e)
    /\ exec' = [exec EXCEPT ![e].phase = "finalized"]
    /\ UpdateExecution(e, exec[e].outcome)
    /\ UNCHANGED <<published, captured, brokerVars>>
    /\ EndOnly

\* ensureWorkflowCompleted: the log of an evicted execution starts anew.
EnsureCompleted(e) ==
    /\ exec[e].phase = "finalized"
    /\ exec' = [exec EXCEPT ![e].phase = "completed"]
    /\ IF <<"", "over">> \in Range(LogOf(e)) THEN UNCHANGED logs
       ELSE AppendEvent(e, <<"", "over">>)
    /\ UNCHANGED <<published, captured, buffer, head, count, rows, brokerVars>>
    /\ EndOnly

\* OnComplete and unregisterCancel.
OnComplete(e) ==
    /\ exec[e].phase = "completed"
    /\ exec' = [exec EXCEPT ![e].phase = "over"]
    /\ IF exec[e].src \in Messages /\ ~AckEarly
       THEN IF exec[e].outcome = "success" THEN Ack(exec[e].src, Trigger)
            ELSE Nack(exec[e].src, Trigger)
       ELSE UNCHANGED brokerVars
    /\ UNCHANGED <<published, captured, storeVars>>
    /\ EndOnly

\* handleCancelExecution.
Cancel(e) ==
    /\ scn.cancels
    /\ e \in DOMAIN rows /\ rows[e].status \in {"running", "waiting"}
    /\ exec[e].phase \in {"running", "returned", "finalized", "completed"}
    /\ ~exec[e].cancelled
    /\ exec' = [exec EXCEPT ![e].cancelled = TRUE]
    /\ UNCHANGED <<published, captured, storeVars, brokerVars>>
    /\ EndOnly

\* The signal to stop is the end of the context of all executions; then
\* shutdownServices stops one service after the other.
Shutdown ==
    /\ scn.stops /\ stage < Exited
    /\ stage' = stage + 1
    /\ CASE stage' = ConsumerClosed -> CloseChannel(Trigger) /\ UNCHANGED waitVars
         [] stage' = WaitsClosed    -> CloseWaits
         [] OTHER                   -> UNCHANGED <<waitVars, brokerVars>>
    /\ UNCHANGED <<scn, nextId, added, runVars, entry, storeVars>>

ConnectionLost(ch) ==
    /\ scn.breaks /\ ch \in chanUp
    /\ CloseChannel(ch)
    /\ UNCHANGED <<scn, nextId, added, stage, runVars, entry, waitVars, storeVars>>

Published(m) ==
    /\ Arrive(m)
    /\ UNCHANGED <<scn, nextId, added, stage, runVars, entry, waitVars, storeVars>>
-----------------------------------------------------------------------------
Stepping(e, s) ==
    \/ StartStep(e, s) \/ RetryCancelled(e, s) \/ Schedule(e, s) \/ RegisterStep(e, s) \/ EmitWaiting(e, s)
    \/ Taken(e, s) \/ GivesUp(e, s) \/ Leave(e, s)
    \/ ShovelOpen(e, s) \/ ShovelGet(e, s) \/ ShovelEnds(e, s) \/ ShovelPublish(e, s)
    \/ ShovelSettles(e, s)
    \/ \E ok \in BOOLEAN : Act(e, s, ok)

Ending(e) ==
    Return(e) \/ Capture(e) \/ Finalize(e) \/ EnsureCompleted(e)
    \/ OnComplete(e)

Answering == \E r \in Requests : Claim(r) \/ StartRequest(r) \/ AnswerSync(r)

Delivering == \E h \in DOMAIN hook : HookSends(h)

Consuming == (\E m \in Messages : Consume(m)) \/ ConsumeEnds \/ Acknowledge \/ OnMessage

\* What goes on by itself.
System ==
    \/ \E e \in Ids : Ending(e) \/ \E s \in Steps : Stepping(e, s)
    \/ Answering \/ Delivering \/ Consuming \/ TimerFires \/ ConsumerLoop

\* What comes from outside, or may stay away.
Environment ==
    \/ \E r \in Requests : Request(r)
    \/ \E h \in DOMAIN hook : HookLooksUp(h)
    \/ \E m \in Messages : Published(m)
    \/ \E e \in Ids : Cancel(e) \/ \E s \in Steps : StepTimeout(e, s)
    \/ \E w \in watch : LateCleanup(w)
    \/ \E ch \in chanUp : ConnectionLost(ch)
    \/ Tick \/ Shutdown

Next == stage < Exited /\ (System \/ Environment)

Spec == Init /\ [][Next]_vars

\* Each goroutine goes on: of an execution, of each of its steps, of a request,
\* of a webhook, the loop of the trigger, that of the waits, the timers.
Fairness ==
    /\ \A e \in Ids : WF_vars(stage < Exited /\ Ending(e))
    /\ \A e \in Ids : \A s \in {"s", "t"} :
          WF_vars(stage < Exited /\ s \in Steps /\ Stepping(e, s))
    /\ WF_vars(stage < Exited /\ Answering)
    /\ WF_vars(stage < Exited /\ Delivering)
    /\ WF_vars(stage < Exited /\ Consuming)
    /\ WF_vars(stage < Exited /\ TimerFires)
    /\ WF_vars(stage < Exited /\ ConsumerLoop)

FairSpec == Spec /\ Fairness
-----------------------------------------------------------------------------
(* Properties *)

Phases == {"new", "act", "open", "register", "emit", "select", "leaving", "get",
           "publish", "ack", "nack", "backoff", "done"}

\* Every variable has its type (the fields of Server and its services).
TypeOK ==
    /\ nextId \in 1..(MaxIds + 1) /\ stage \in Up..Exited
    /\ timers \in Nat /\ ticks \in 0..scn.ticks
    /\ \A r \in Requests :
          /\ req[r].phase \in {"none", "claim", "start", "sync", "answered"}
          /\ {req[r].id, req[r].told} \subseteq 0..MaxIds
    /\ Range(claims) \subseteq Ids
    /\ trigger \in Messages \cup {Nothing, Closed}
    /\ \A e \in Ids :
          /\ exec[e].phase \in {"none", "running", "returned",
                                "finalized", "completed", "over"}
          /\ exec[e].src \in Requests \cup Messages \cup {Nothing, Timer}
          /\ captured[e] \in 0..Len(published[e])
          /\ \A s \in Steps : /\ step[e][s].phase \in Phases
                              /\ step[e][s].attempt \in 0..scn.steps[s].attempts
                              /\ step[e][s].n \in 0..ShovelCount
    /\ watch \subseteq Waiters /\ Range(waiters) \subseteq Waiters
    /\ Range(regs) \subseteq Waiters \cup {Nothing}
    /\ Range(box) \cup Range(got) \subseteq
          Messages \cup DOMAIN hook \cup {Nothing, Closed}
    /\ hand \in Messages \cup {Nothing} /\ consumer \in BOOLEAN
    /\ Range(at) \subseteq {"absent", "queued", "unacked", "acked"}
    /\ head \in 0..(Capacity - 1) /\ count \in 0..Capacity
    /\ Range(buffer) \subseteq Ids \cup {NoRow}
    /\ DOMAIN rows \subseteq Ids /\ DOMAIN logs \subseteq Ids

Newest == Reverse(SubSeq(added, Len(added) - count + 1, Len(added)))

Told(e) == SubSeq(published[e], 1, captured[e])

\* The store knows the newest executions and no others, each with all its
\* events so far and, once it is over, with the status its run ended with,
\* however executions overlap and push each other out of the ring (Add, List,
\* captureEvents, finalizeExecution, ensureWorkflowCompleted).
RingTells ==
    /\ count = Min({Len(added), Capacity})
    /\ List = Newest
    /\ DOMAIN rows = Range(Newest)
    /\ \A e \in DOMAIN rows : exec[e].phase # "none" =>
          /\ LogOf(e) = Told(e)
          /\ exec[e].phase = "over" =>
                rows[e].status = exec[e].outcome /\ Drained(e)

PagesTell ==
    /\ \A F \in {{}, {"success", "failed"}} :
          LET all == Only(Newest, {e \in DOMAIN rows : F = {} \/ rows[e].status \in F})
              Page(order, offset, limit) ==
                  handleListExecutions(F, order, offset, limit).items
          IN  /\ handleListExecutions(F, "desc", 0, 1).total = Len(all)
              /\ Page("desc", 0, Len(all)) = all
              /\ Page("asc", 0, Len(all)) = Reverse(all)
              /\ \A order \in {"asc", "desc"}, n \in 0..Len(all), limit \in 1..2 :
                    Page(order, 0, n) \o Page(order, n, limit) = Page(order, 0, n + limit)
    /\ \A e \in DOMAIN rows : exec[e].phase # "none" =>
          LET limit   == 2
              Page(i) == handleListEvents(e, i - 1, limit)
          IN  \A i \in 1..captured[e] :
                 /\ Page(i).events[1] = Told(e)[captured[e] + 1 - i]
                 /\ Page(i).hasMore <=> i - 1 + Len(Page(i).events) < captured[e]

\* The captured events of e about s.
EventsOf(e, s) == {i \in 1..captured[e] : published[e][i][1] = s}

LastOf(e, s) == StatusOf[published[e][Max(EventsOf(e, s))][2]]

HistoryTells ==
    \A s \in Steps :
        LET begun  == Only(Newest, {e \in DOMAIN rows : EventsOf(e, s) # {}})
            last   == [i \in DOMAIN begun |-> LastOf(begun[i], s)]
            Count(status) == Cardinality({i \in DOMAIN last : last[i] = status})
        IN  /\ buildStepHistory(s) = [i \in DOMAIN begun |-> <<begun[i], last[i]>>]
            /\ computeStepMetrics(s) = [total   |-> Len(begun),
                                        success |-> Count("success"),
                                        failed  |-> Count("failed")]

\* The pages of every listing put together are what was asked for, each entry
\* once, and the history of a step is what its executions told of it, while
\* executions come, go on and leave the ring (paginateExecutions,
\* handleListEvents, buildStepHistory, RefreshStepMetrics).
ListingsTell == PagesTell /\ HistoryTells

Proceeds(r) == req[r].phase \in {"start", "sync"} \/
               (req[r].phase = "answered" /\ req[r].told = req[r].id)

\* Of the requests with one key, one is executed, however many come at the
\* same time, unless its claim failed, and the answer to each of the others
\* names the one that is (handleIdempotencyCheck, ClaimExecution).
OnePerKey ==
    \A k \in Range(scn.keys) \ {NoKey} :
        LET same == {r \in Requests : scn.keys[r] = k}
        IN  /\ Cardinality({r \in same : Proceeds(r) /\ ~req[r].unclaimed}) <= 1
            /\ \A r \in same : req[r].phase = "answered" =>
                  \E q \in same : req[q].id = req[r].told /\ Proceeds(q)

\* A message leaves the broker only for what it was to bring about: an
\* execution that was started for it or, with ack_on_success, succeeded; a
\* copy in the destination of the shovel; the channel of a waiter.  Lost
\* connections, failed publishes, time-outs and shutdown included
\* (handleMessage, processMessage, deliverToWaiter).
AckedForAReason ==
    \A m \in Messages : at[m] = "acked" =>
        IF queueOf[m] = WaitQueue THEN \E w \in Waiters : m \in {box[w], got[w]}
        ELSE \/ copies[m] > 0
             \/ ~scn.ackOnSuccess /\ m = trigger
             \/ \E e \in Ids : /\ exec[e].src = m
                               /\ scn.ackOnSuccess => exec[e].outcome = "success"

\* No two steps get the same webhook, nor the same message unless a lost
\* channel brought it back; each got one that was meant for it; a webhook is
\* answered delivered exactly if it is in the channel of a step, or taken
\* (WaitRegistry.Deliver, routeMessage, deliverToWaiter).
TakenOnce ==
    LET With(x) == {w \in Waiters : x \in {box[w], got[w]}}
    IN  /\ \A m \in Messages : /\ Cardinality(With(m)) <= 1 + lost[m]
                               /\ \A w \in With(m) : Matches(w, m)
        /\ \A h \in DOMAIN hook :
              /\ Cardinality(With(h)) = IF hook[h].phase = "delivered" THEN 1 ELSE 0
              /\ \A w \in With(h) :
                    HookKey(w) = <<scn.hooks[h].exec, scn.hooks[h].path>>

AllEnded ==
    \/ stage = Exited
    \/ /\ \A e \in Ids : exec[e].phase \in {"none", "over"}
       /\ \A r \in Requests : req[r].phase \in {"none", "answered"}
       /\ \A h \in DOMAIN hook : hook[h].phase # "send"

\* Whatever comes in, and whatever stays away, executions end, requests are
\* answered and webhooks too, until the agent exits (the default time-out of
\* waits, retries, the drain in stopCapture).
EverythingEnds == []<>AllEnded
=============================================================================
