------------------------------- MODULE Broker -------------------------------
(***************************************************************************)
(* RabbitMQ as the agent uses it: queues of messages, channels of          *)
(* consumers, acknowledgements.  External: only what the client library    *)
(* promises, with the order of deliveries left open.  A message that was   *)
(* delivered and not acknowledged goes back to its queue when its channel  *)
(* closes.                                                                 *)
(***************************************************************************)
EXTENDS Integers, FiniteSets

CONSTANT NoChannel

VARIABLES
    at,             \* message -> "absent", "queued", "unacked" or "acked"
    queueOf,        \* message -> the queue it stands in
    holder,         \* message -> the channel it was delivered to
    lost,           \* message -> times it went back because a channel closed
    chanUp          \* the channels that are open

brokerVars == <<at, queueOf, holder, lost, chanUp>>

BrokerInit(queues, open) ==
    /\ at = [m \in DOMAIN queues |-> "absent"]
    /\ queueOf = queues
    /\ holder = [m \in DOMAIN queues |-> NoChannel]
    /\ lost = [m \in DOMAIN queues |-> 0]
    /\ chanUp = open

Messages == DOMAIN at

Unacked(ch) == {m \in Messages : at[m] = "unacked" /\ holder[m] = ch}

\* Somebody publishes the message.
Arrive(m) ==
    /\ at[m] = "absent"
    /\ at' = [at EXCEPT ![m] = "queued"]
    /\ UNCHANGED <<queueOf, holder, lost, chanUp>>

OpenChannel(ch) ==
    /\ chanUp' = chanUp \cup {ch}
    /\ UNCHANGED <<at, queueOf, holder, lost>>

\* By the client, or because the connection was lost.
CloseChannel(ch) ==
    /\ chanUp' = chanUp \ {ch}
    /\ at' = [m \in Messages |-> IF m \in Unacked(ch) THEN "queued" ELSE at[m]]
    /\ lost' = [m \in Messages |-> lost[m] + IF m \in Unacked(ch) THEN 1 ELSE 0]
    /\ UNCHANGED <<queueOf, holder>>

\* basic.deliver or basic.get; prefetch 0 is no limit.
Receive(m, queue, ch, prefetch) ==
    /\ ch \in chanUp
    /\ at[m] = "queued" /\ queueOf[m] = queue
    /\ prefetch = 0 \/ Cardinality(Unacked(ch)) < prefetch
    /\ at' = [at EXCEPT ![m] = "unacked"]
    /\ holder' = [holder EXCEPT ![m] = ch]
    /\ UNCHANGED <<queueOf, lost, chanUp>>

\* Ack and Nack with requeue fail, without effect, on a closed channel.
Settled(m, ch, st) ==
    /\ at' = IF m \in Unacked(ch) THEN [at EXCEPT ![m] = st] ELSE at
    /\ UNCHANGED <<queueOf, holder, lost, chanUp>>

Ack(m, ch) == Settled(m, ch, "acked")

Nack(m, ch) == Settled(m, ch, "queued")
=============================================================================
