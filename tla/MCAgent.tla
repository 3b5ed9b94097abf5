------------------------------- MODULE MCAgent -------------------------------
(***************************************************************************)
(* Scenarios for model-checking Agent.                                     *)
(***************************************************************************)
EXTENDS Agent, TLC

CONSTANTS m1, m2, m3, h1, h2, k1

Step(kind) == [kind |-> kind, path |-> "p", attempts |-> 1, timeout |-> FALSE]

Nobody == <<>>

\* Nothing ever happens.
Quiet ==
    [ids |-> 2, keys |-> Nobody, async |-> FALSE, claimFails |-> FALSE, ticks |-> 0,
     messages |-> Nobody, value |-> Nobody, consumes |-> FALSE,
     ackOnSuccess |-> FALSE, prefetch |-> 0, steps |-> [s |-> Step("plain")],
     match |-> [e \in 1..MaxIds |-> AnyValue], hooks |-> Nobody,
     flaky |-> FALSE, breaks |-> FALSE, cancels |-> FALSE, stops |-> FALSE]

\* Two requests with one key.
Requesting ==
    {[Quiet EXCEPT !.keys = [r1 |-> k1, r2 |-> k1], !.async = a, !.flaky = a,
                   !.claimFails = f] : a \in BOOLEAN, f \in BOOLEAN}

\* Three executions in a store of two.
Overtaking ==
    [Quiet EXCEPT !.ids = 3, !.keys = [r1 |-> NoKey], !.async = TRUE, !.ticks = 2]

\* Webhooks: a step with two attempts and a timeout of its own or a cancelled
\* execution, and two steps with one path.
Retried(t) ==
    [Quiet EXCEPT !.ids = 1, !.ticks = 1, !.cancels = ~t, !.stops = ~t,
                  !.steps = [s |-> [Step("webhook") EXCEPT !.attempts = 2,
                                                           !.timeout = t]],
                  !.hooks = (h1 :> [exec |-> 1, path |-> "p"]) @@
                            (h2 :> [exec |-> 1, path |-> "p"])]

Hooked == {Retried(TRUE),
           [Retried(FALSE) EXCEPT !.hooks = h1 :> [exec |-> 1, path |-> "p"]],
           [Retried(TRUE) EXCEPT !.steps = [s |-> Step("webhook"), t |-> Step("webhook")]]}

\* Two executions that wait on one queue, each for its own message or for any.
Answers == (m1 :> WaitQueue) @@ (m2 :> WaitQueue)

Waiting(any, breaks, timeout) ==
    [Quiet EXCEPT !.ticks = 2, !.messages = Answers, !.breaks = breaks,
                  !.value = (m1 :> 1) @@ (m2 :> 2),
                  !.match = [e \in 1..MaxIds |-> IF any THEN AnyValue ELSE e],
                  !.steps = [s |-> [Step("rabbit") EXCEPT !.timeout = timeout]]]

\* Messages that start executions.
Orders == (m1 :> TriggerQueue) @@ (m2 :> TriggerQueue)

Ordered ==
    {[Quiet EXCEPT !.messages = Orders, !.value = (m1 :> 0) @@ (m2 :> 0),
                   !.consumes = TRUE, !.ackOnSuccess = a, !.prefetch = 1,
                   !.flaky = TRUE, !.breaks = a, !.stops = ~a] : a \in BOOLEAN}

Moving ==
    {[Quiet EXCEPT !.messages = Orders @@ (m3 :> TriggerQueue), !.ticks = 1,
                   !.value = (m1 :> 0) @@ (m2 :> 0) @@ (m3 :> 0),
                   !.steps = [s |-> Step("shovel")],
                   !.breaks = b, !.cancels = TRUE] : b \in BOOLEAN}

Scheduling ==
    [Quiet EXCEPT !.ids = 3, !.ticks = 1, !.steps = [s |-> Step("schedule")],
                  !.stops = TRUE]

AllScenarios ==
    Requesting \cup {Overtaking, Scheduling} \cup Hooked \cup Ordered \cup Moving
    \cup {Waiting(FALSE, FALSE, FALSE),
          [Waiting(TRUE, TRUE, FALSE) EXCEPT !.messages = m1 :> WaitQueue],
          [Waiting(TRUE, FALSE, TRUE) EXCEPT !.messages = m1 :> WaitQueue]}
=============================================================================
