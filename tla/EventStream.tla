----------------------------- MODULE EventStream -----------------------------
(***************************************************************************)
(* The way of the events of one execution: published on the bus by the     *)
(* engine and the goroutines of its steps (event/bus.go), taken from a     *)
(* blocking subscription by captureEvents into the event log of the store, *)
(* and shown to a viewer, who gets the log first and the live events then  *)
(* (server/sse.go).  Another execution publishes on the same bus.          *)
(*                                                                         *)
(* Publish delivers to one subscriber after the other with b.mu held for   *)
(* reading; Subscribe and Unsubscribe take it for writing, and a writer    *)
(* that waits keeps new readers out, as sync.RWMutex does.  Bus.Close,     *)
(* called when the process ends, is left out.  Events have no number here: *)
(* nothing orders by Seq.  The events of a loop past its first round,      *)
(* which captureEvents does not store, are left out.                       *)
(***************************************************************************)
EXTENDS Naturals, FiniteSets, SequencesExt

CONSTANTS
    Steps,          \* the steps of the execution
    Skipped,        \* those whose condition is false: step.skipped is all
    Orders,         \* possible dependencies: functions [Steps -> SUBSET Steps]
    Accompanied,    \* those of the Orders beside which another execution runs
    CaptureSize,    \* buffer of the blocking subscription, 10 000 in the code
    ViewerSize      \* buffer of the viewer's, 10 000 in the code

engine == "engine"
other  == "other"
capture == "capture"
viewer == "viewer"

Publishers == Steps \cup {engine, other}

Subscribers == {capture, viewer}

ASSUME StepsAssumption ==
    /\ engine \notin Steps /\ other \notin Steps
    /\ Orders \subseteq [Steps -> SUBSET Steps]

ASSUME SizesAssumption == CaptureSize \in Nat \ {0} /\ ViewerSize \in Nat \ {0}

VARIABLES
    after,          \* depends_on of this execution
    quiet,          \* it was cancelled and has recovery: true
    pc,             \* where each publisher is
    sending,        \* publishers inside Publish
    left,           \* the subscribers Publish has still to send to
    subscribers,    \* b.subscribers
    pending,        \* who waits for b.mu as a writer
    chan,           \* the two channels
    closed,         \* those that are closed
    dropped,        \* b.dropped # 0
    log,            \* the stored events of the execution
    vpc,            \* where the viewer's handleSSE is
    replayed,       \* replayedCount
    skipped,        \* skipped
    seen,           \* the events written to the viewer
    \* Auxiliary: no action's guard reads them.
    published,      \* the events of the execution, as their Publish begins
    early           \* the viewer subscribed before the first of them

bus == <<sending, left, subscribers, pending, chan, closed, dropped>>
stream == <<vpc, replayed, skipped, seen, early>>
vars == <<after, quiet, pc, bus, log, stream, published>>

Init ==
    /\ after \in Orders
    /\ quiet = FALSE
    /\ pc = [p \in Publishers |->
                IF p = engine THEN "start"
                ELSE IF p \in Steps \/ after \in Accompanied THEN "begin"
                ELSE "over"]
    /\ sending = {}
    /\ left = [p \in Publishers |-> <<>>]
    /\ subscribers = <<capture>>
    /\ pending = {}
    /\ chan = [s \in Subscribers |-> <<>>]
    /\ closed = {}
    /\ dropped = FALSE
    /\ log = <<>>
    /\ vpc = "away"
    /\ replayed = 0
    /\ skipped = 0
    /\ seen = <<>>
    /\ published = <<>>
    /\ early = FALSE
-----------------------------------------------------------------------------
(* Publish *)

\* What a publisher publishes where it is, and where it is afterwards.
Type(p) ==
    CASE pc[p] = "start"                  -> "workflow.started"
      [] pc[p] = "begin"                  ->
            IF p \in Skipped THEN "step.skipped" ELSE "step.started"
      [] pc[p] = "act"                    -> "step.completed"
      [] pc[p] \in {"complete", "ensure"} -> "workflow.completed"
      [] pc[p] = "state"                  -> "execution.state"

Event(p) == [by |-> p, type |-> Type(p)]

After(p) ==
    CASE pc[p] = "start"    -> "running"
      [] pc[p] = "begin"    -> IF p \in Skipped \cup {other} THEN "over"
                                                         ELSE "act"
      [] pc[p] = "act"      -> "over"
      [] pc[p] = "complete" -> "state"
      [] pc[p] = "state"    -> "returned"
      [] pc[p] = "ensure"   -> "over"

Publishes(p) ==
    \/ p = engine /\ pc[p] \in {"start", "complete", "state", "ensure"}
    \/ p = other /\ pc[p] = "begin"
    \/ p \in Steps /\ pc[p] = "act"
    \/ /\ p \in Steps /\ pc[p] = "begin"
       /\ pc[engine] = "running"
       /\ \A q \in after[p] : pc[q] = "over"

\* b.mu.RLock(): a writer that waits goes first.
RLock(p) ==
    /\ Publishes(p)
    /\ p \notin sending
    /\ pending = {}
    /\ sending' = sending \cup {p}
    /\ left' = [left EXCEPT ![p] = subscribers]
    /\ published' = IF p = other \/ pc[p] = "ensure" THEN published
                    ELSE Append(published, Event(p))
    /\ UNCHANGED <<after, quiet, pc, subscribers, pending, chan, closed,
                   dropped, log, stream>>

\* Faulty variants of some definitions, each before its own, show that the
\* properties at the end notice such a mistake; nothing here uses them.
BlockingNone == {}

Blocking == {capture}

Size(s) == IF s = capture THEN CaptureSize ELSE ViewerSize

\* b.mu.RUnlock(), after the last send or at once if there is no subscriber.
Return(p) ==
    /\ sending' = sending \ {p}
    /\ pc' = [pc EXCEPT ![p] = After(p)]

\* One turn of the loop over b.subscribers: wait for room, or drop.
Deliver(p) ==
    /\ p \in sending
    /\ left[p] # <<>>
    /\ LET s == Head(left[p])
           full == Len(chan[s]) >= Size(s)
       IN  /\ s \in Blocking => ~full
           /\ chan' =
                 [chan EXCEPT ![s] = IF full THEN @ ELSE Append(@, Event(p))]
           /\ dropped' = (dropped \/ full)
    /\ left' = [left EXCEPT ![p] = Tail(@)]
    /\ IF Tail(left[p]) = <<>> THEN Return(p) ELSE UNCHANGED <<sending, pc>>
    /\ UNCHANGED <<after, quiet, subscribers, pending, closed, log, stream,
                   published>>

Nobody(p) == left[p] = <<>>

DeliverToNobody(p) ==
    /\ p \in sending
    /\ Nobody(p)
    /\ Return(p)
    /\ UNCHANGED <<after, quiet, left, subscribers, pending, chan, closed,
                   dropped, log, stream, published>>

\* b.mu.Lock() by one that has announced itself in pending.
LockedAnyway(w) == w \in pending

Locked(w) == w \in pending /\ sending = {}

\* Each of the two is found, for each unsubscribes once.
Unsubscribe(s) ==
    \E i \in DOMAIN subscribers :
        /\ subscribers[i] = s
        /\ subscribers' = RemoveAt(subscribers, i)
        /\ closed' = closed \cup {s}
-----------------------------------------------------------------------------
(* The execution: Execute, captureEvents, ensureWorkflowCompleted *)

\* Execute returns before it has published anything, cancelled meanwhile or not.
FailEarly ==
    /\ pc[engine] = "start"
    /\ engine \notin sending
    /\ pc' = [pc EXCEPT ![engine] = "returned"]
    /\ quiet' \in BOOLEAN
    /\ UNCHANGED <<after, bus, log, stream, published>>

StepsIgnored == TRUE

StepsOver == \A p \in Steps : pc[p] = "over"

\* executeDAG has returned; with recovery: true, a cancelled execution
\* returns without workflow.completed.
ExecuteReturns ==
    /\ pc[engine] = "running"
    /\ StepsOver
    /\ \/ pc' = [pc EXCEPT ![engine] = "complete"] /\ UNCHANGED quiet
       \/ pc' = [pc EXCEPT ![engine] = "returned"] /\ quiet' = TRUE
    /\ UNCHANGED <<after, bus, log, stream, published>>

\* stopCapture.
StopCapture ==
    /\ pc[engine] = "returned"
    /\ pending' = pending \cup {engine}
    /\ pc' = [pc EXCEPT ![engine] = "stopping"]
    /\ UNCHANGED <<after, quiet, sending, left, subscribers, chan, closed,
                   dropped, log, stream, published>>

UnsubscribeCapture ==
    /\ pc[engine] = "stopping"
    /\ Locked(engine)
    /\ Unsubscribe(capture)
    /\ pending' = pending \ {engine}
    /\ pc' = [pc EXCEPT ![engine] = "draining"]
    /\ UNCHANGED <<after, quiet, sending, left, chan, dropped, log, stream,
                   published>>

Drain ==
    /\ pc[engine] = "draining"
    /\ chan[capture] = <<>>
    /\ pc' = [pc EXCEPT ![engine] = "drained"]
    /\ UNCHANGED <<after, quiet, bus, log, stream, published>>

Completed(events) == \E i \in DOMAIN events :
                         events[i].type = "workflow.completed"

\* ensureWorkflowCompleted stores a missing event, then publishes it.
Ensure ==
    /\ pc[engine] = "drained"
    /\ IF quiet \/ Completed(log)
       THEN /\ pc' = [pc EXCEPT ![engine] = "over"]
            /\ UNCHANGED <<log, published>>
       ELSE LET done == [by |-> engine, type |-> "workflow.completed"] IN
            /\ pc' = [pc EXCEPT ![engine] = "ensure"]
            /\ log' = Append(log, done)
            /\ published' = Append(published, done)
    /\ UNCHANGED <<after, quiet, bus, stream>>

\* processEvent: events of other executions, and a second
\* workflow.completed, are not stored.
Capture ==
    /\ chan[capture] # <<>>
    /\ LET e == Head(chan[capture]) IN
           log' = IF \/ e.by = other
                     \/ e.type = "workflow.completed" /\ Completed(log)
                  THEN log ELSE Append(log, e)
    /\ chan' = [chan EXCEPT ![capture] = Tail(@)]
    /\ UNCHANGED <<after, quiet, pc, sending, left, subscribers, pending,
                   closed, dropped, stream, published>>
-----------------------------------------------------------------------------
(* The viewer: handleSSE *)

Connect ==
    /\ vpc = "away"
    /\ vpc' = "joining"
    /\ pending' = pending \cup {viewer}
    /\ UNCHANGED <<after, quiet, pc, sending, left, subscribers, chan, closed,
                   dropped, log, replayed, skipped, seen, published, early>>

Subscribe ==
    /\ vpc = "joining"
    /\ Locked(viewer)
    /\ subscribers' = Append(subscribers, viewer)
    /\ pending' = pending \ {viewer}
    /\ vpc' = "joined"
    /\ early' = (published = <<>>)
    /\ UNCHANGED <<after, quiet, pc, sending, left, chan, closed, dropped, log,
                   replayed, skipped, seen, published>>

\* Leaving, for whatever reason, is the deferred Unsubscribe.
Leave == vpc' = "leaving" /\ pending' = pending \cup {viewer}

\* replayStoredEvents, up to the first workflow.completed.
Replay ==
    /\ vpc = "joined"
    /\ \E n \in 0..Len(log) :
          /\ ~Completed(SubSeq(log, 1, n - 1))
          /\ n < Len(log) => Completed(SubSeq(log, 1, n))
          /\ seen' = SubSeq(log, 1, n)
          /\ replayed' = n
    /\ IF Completed(log) THEN Leave
                         ELSE vpc' = "live" /\ UNCHANGED pending
    /\ UNCHANGED <<after, quiet, pc, sending, left, subscribers, chan, closed,
                   dropped, log, skipped, published, early>>

SkippingNone == FALSE

SkippingOneMore == skipped <= replayed

Skipping == skipped < replayed

ClosesNever(e) == FALSE

Closes(e) == e.type = "workflow.completed"

\* sseEventLoop with the filter of handleSSE.
Receive ==
    /\ vpc = "live"
    /\ chan[viewer] # <<>>
    /\ chan' = [chan EXCEPT ![viewer] = Tail(@)]
    /\ LET e == Head(chan[viewer]) IN
          \/ /\ e.by = other
             /\ UNCHANGED <<vpc, pending, skipped, seen>>
          \/ /\ e.by # other
             /\ Skipping
             /\ skipped' = skipped + 1
             /\ UNCHANGED <<vpc, pending, seen>>
          \/ /\ e.by # other
             /\ ~Skipping
             /\ seen' = Append(seen, e)
             /\ IF Closes(e) THEN Leave ELSE UNCHANGED <<vpc, pending>>
             /\ UNCHANGED skipped
    /\ UNCHANGED <<after, quiet, pc, sending, left, subscribers, closed,
                   dropped, log, replayed, published, early>>

\* r.Context().Done().
ClientGone ==
    /\ vpc = "live"
    /\ Leave
    /\ UNCHANGED <<after, quiet, pc, sending, left, subscribers, chan, closed,
                   dropped, log, replayed, skipped, seen, published, early>>

\* What is left in its channel is garbage.
UnsubscribeViewer ==
    /\ vpc = "leaving"
    /\ Locked(viewer)
    /\ Unsubscribe(viewer)
    /\ chan' = [chan EXCEPT ![viewer] = <<>>]
    /\ pending' = pending \ {viewer}
    /\ vpc' = "gone"
    /\ UNCHANGED <<after, quiet, pc, sending, left, dropped, log,
                   replayed, skipped, seen, published, early>>

\* Nothing is left to do; a viewer may stay connected for good.
Finished ==
    /\ pc[engine] = "over" /\ pc[other] = "over"
    /\ vpc \in {"away", "live", "gone"}
    /\ UNCHANGED vars

Publish == \E p \in Publishers : RLock(p) \/ Deliver(p) \/ DeliverToNobody(p)

Execution ==
    ExecuteReturns \/ StopCapture \/ UnsubscribeCapture \/ Drain \/ Ensure

Viewer == Subscribe \/ Replay \/ Receive \/ UnsubscribeViewer

Next ==
    \/ Publish \/ FailEarly \/ Execution \/ Capture
    \/ Viewer \/ Connect \/ ClientGone
    \/ Finished

Spec == Init /\ [][Next]_vars

(***************************************************************************)
(* Goroutines that can run do; a waiting writer gets b.mu.  Nobody has to  *)
(* connect, and a client need not go.                                      *)
(***************************************************************************)
Fairness ==
    /\ \A p \in Publishers : WF_vars(RLock(p) \/ Deliver(p) \/ DeliverToNobody(p))
    /\ WF_vars(Execution) /\ WF_vars(Capture) /\ WF_vars(Viewer)

FairSpec == Spec /\ Fairness
-----------------------------------------------------------------------------
(* Properties *)

Types == {"workflow.started", "step.started", "step.skipped",
          "step.completed", "workflow.completed", "execution.state"}

Events == [by : Publishers, type : Types]

\* Type invariant: channels within their buffers, and no more events skipped
\* than were replayed.
TypeOK ==
    /\ after \in Orders
    /\ quiet \in BOOLEAN
    /\ pc \in [Publishers -> {"start", "begin", "running", "act", "complete",
                              "state", "returned", "stopping", "draining",
                              "drained", "ensure", "over"}]
    /\ sending \subseteq Publishers
    /\ left \in [Publishers -> Seq(Subscribers)]
    /\ subscribers \in Seq(Subscribers)
    /\ pending \subseteq {engine, viewer}
    /\ chan \in [Subscribers -> Seq(Events)]
    /\ \A s \in Subscribers : Len(chan[s]) <= Size(s)
    /\ closed \subseteq Subscribers
    /\ dropped \in BOOLEAN
    /\ log \in Seq(Events)
    /\ vpc \in {"away", "joining", "joined", "live", "leaving", "gone"}
    /\ replayed \in Nat
    /\ skipped \in 0..replayed
    /\ seen \in Seq(Events)
    /\ published \in Seq(Events)
    /\ early \in BOOLEAN

\* Publish never sends on a closed channel, which would panic: Unsubscribe
\* closes it while no Publish is under way that still has it in its list.
NoSendOnClosed ==
    \A p \in sending : \A i \in DOMAIN left[p] : left[p][i] \notin closed

\* "The store is the source of truth": when stopCapture returns, the log has
\* every event the execution published, each once, however the goroutines of
\* its steps took turns and however full the channel was.
LogExact ==
    pc[engine] = "drained" =>
        /\ ToSet(log) = ToSet(published)
        /\ Len(log) = Len(published)

\* "Nothing should follow workflow.completed" but the state that sums up: a
\* viewer who stops replaying there has seen every step event.
CompletedCloses ==
    \A i \in DOMAIN log : log[i].type = "workflow.completed" =>
        \A e \in ToSet(published) : e.by \in Steps =>
            \E j \in 1..i : log[j] = e

Sequential == \A p, q \in Steps : p = q \/ p \in after[q] \/ q \in after[p]

Position(e) == CHOOSE i \in DOMAIN published : published[i] = e

\* Where steps run one after the other, a viewer sees no event twice and none
\* out of order, whenever it connects and wherever replay and live events meet.
SeenInOrder ==
    Sequential =>
        \A i, j \in DOMAIN seen : i < j => Position(seen[i]) < Position(seen[j])

\* There, a viewer that subscribed before the first event misses none,
\* as long as nothing was dropped for it.
EarlySeesAll == Sequential /\ early /\ ~dropped => IsPrefix(seen, published)

Ends == <>(pc[engine] = "over")

ViewerEnds ==
    (vpc = "live" /\ early) ~> (vpc = "gone" \/ quiet \/ dropped)

\* Every execution comes to its end: Publish waits for captureEvents and
\* writers of b.mu wait for Publish, but not for ever.  The stream of a viewer
\* that subscribed before the first event ends with it, unless the execution is
\* one that recovery will resume or the viewer was too slow.
AllEnds == Ends /\ ViewerEnds

\* "Subscribe BEFORE reading history to avoid losing events": what the stream
\* passes over as replayed was replayed.
LosesNothing ==
    [][(skipped' # skipped) => Contains(seen, Head(chan[viewer]))]_vars

\* "Replayed events in live stream should be skipped": no event twice.
NoneTwice == \A i, j \in DOMAIN seen : seen[i] = seen[j] => i = j
=============================================================================
