-------------------------------- MODULE Waits --------------------------------
(***************************************************************************)
(* Where steps wait for the outside: the registry of wait.webhook          *)
(* (server/wait.go) and the manager of wait.rabbitmq                       *)
(* (server/rabbitmq_wait.go), which shares one connection and one consumer *)
(* among the waiters of a queue.  A waiter is one attempt of one step; it  *)
(* has a channel of one place of its own.  Each operator is one section    *)
(* under the mutex of the registry, the manager or the consumer.           *)
(***************************************************************************)
EXTENDS Broker, Sequences, SequencesExt

CONSTANTS
    Nothing,        \* no message, no waiter
    Closed          \* a channel that was closed

ASSUME ChannelsAssumption == Nothing # Closed

VARIABLES
    box,            \* waiter -> what its channel holds
    regs,           \* WaitRegistry.registrations: key -> waiter or Nothing
    consumer,       \* the queue has a consumer in the manager's maps
    waiters,        \* queueConsumer.waiters
    hand            \* the message consumeLoop has in hand

waitVars == <<box, regs, consumer, waiters, hand>>

Wait == "wait"      \* the channel of the consumer

WaitQueue == "answers"

WaitsInit(ws, keys) ==
    /\ box = [w \in ws |-> Nothing]
    /\ regs = [k \in keys |-> Nothing]
    /\ consumer = FALSE
    /\ waiters = <<>>
    /\ hand = Nothing
-----------------------------------------------------------------------------
(* WaitRegistry *)

\* Registering again replaces what stands under the key.
RegisterHook(w, key) ==
    /\ regs' = [regs EXCEPT ![key] = w]
    /\ UNCHANGED <<box, consumer, waiters, hand, brokerVars>>

\* The cleanup function deletes by key, whose ever the entry is.
CleanupHook(key) ==
    /\ regs' = [regs EXCEPT ![key] = Nothing]
    /\ UNCHANGED <<box, consumer, waiters, hand, brokerVars>>

\* The send of Deliver, on the registration it has looked up before.
BoxFreeAlways(w) == TRUE

BoxFree(w) == box[w] = Nothing

Send(w, x) ==
    /\ BoxFree(w)
    /\ box' = [box EXCEPT ![w] = x]
    /\ UNCHANGED <<regs, consumer, waiters, hand, brokerVars>>

Refuse(w) ==
    /\ ~BoxFree(w)
    /\ UNCHANGED <<waitVars, brokerVars>>

Empty(w) == box' = [box EXCEPT ![w] = Nothing]
-----------------------------------------------------------------------------
(* RabbitMQWaitManager *)

\* Register: an existing consumer is used, alive or not; else one is opened,
\* and if that fails the waiter gets a closed channel and is not listed.
RegisterWait(w, opens) ==
    /\ \/ /\ consumer \/ opens
          /\ consumer' = TRUE
          /\ waiters' = Append(waiters, w)
          /\ IF consumer THEN UNCHANGED brokerVars ELSE OpenChannel(Wait)
          /\ UNCHANGED box
       \/ /\ ~consumer /\ ~opens
          /\ box' = [box EXCEPT ![w] = Closed]
          /\ UNCHANGED <<consumer, waiters, brokerVars>>
    /\ UNCHANGED <<regs, hand>>

Without(w) == RemoveFirst(waiters, w)

\* removeWaiter: with the last waiter goes the consumer, and with it, as
\* there is one queue, the connection.  What consumeLoop has in hand then
\* finds no waiter and a closed channel.
LastOut(w) == Without(w) = <<>>

CleanupWait(w) ==
    /\ IF ~consumer THEN UNCHANGED <<consumer, waiters, hand, brokerVars>>
       ELSE /\ waiters' = Without(w)
            /\ IF LastOut(w)
               THEN consumer' = FALSE /\ hand' = Nothing /\ CloseChannel(Wait)
               ELSE UNCHANGED <<consumer, hand, brokerVars>>
    /\ UNCHANGED <<box, regs>>

\* consumeLoop receives; the consumer was opened with a prefetch of 1.
TakeInHand(m) ==
    /\ hand = Nothing
    /\ Receive(m, WaitQueue, Wait, 1)
    /\ hand' = m
    /\ UNCHANGED <<box, regs, consumer, waiters>>

\* routeMessage: the first listed waiter of those whose context is not done and
\* that want the message; if its channel is full it counts as unwanted.
RouteTo(w, m) ==
    /\ box' = [box EXCEPT ![w] = m]
    /\ waiters' = Without(w)
    /\ Ack(m, Wait)

Route(wanting) ==
    LET m     == hand
        first == SelectInSeq(waiters, LAMBDA w : w \in wanting)
    IN  /\ m # Nothing
        /\ hand' = Nothing
        /\ IF first # 0 /\ BoxFree(waiters[first])
           THEN RouteTo(waiters[first], m)
           ELSE Nack(m, Wait) /\ UNCHANGED <<box, waiters>>
        /\ UNCHANGED <<regs, consumer>>

\* Close, at the shutdown of the agent.
CloseWaits ==
    /\ consumer' = FALSE
    /\ waiters' = <<>>
    /\ hand' = Nothing
    /\ CloseChannel(Wait)
    /\ UNCHANGED <<box, regs>>
=============================================================================
