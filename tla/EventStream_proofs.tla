------------------------- MODULE EventStream_proofs -------------------------
(***************************************************************************)
(* Proofs about EventStream, for every set of steps, every set of possible *)
(* dependencies and all sizes of the two buffers.                          *)
(***************************************************************************)
EXTENDS EventStream, Channel_proofs, FiniteSetTheorems

(***************************************************************************)
(* The inductive invariant, in layers.  First the control: who is where,   *)
(* who holds b.mu, and whom Publish has still to send to.                  *)
(***************************************************************************)
In(e, q) == \E i \in DOMAIN q : q[i] = e

Once(q) == \A i, j \in DOMAIN q : q[i] = q[j] => i = j

Owes(p, s) == In(s, left[p])

\* The engine once Unsubscribe has taken the capture off the list.
Past == {"draining", "drained", "ensure", "over"}

Places ==
    /\ pc[other] \in {"begin", "over"}
    /\ \A p \in Steps : pc[p] \in {"begin", "act", "over"}
    /\ pc[engine] \in {"start", "running", "complete", "state", "returned",
                       "stopping"} \cup Past

\* Publish is called where the code calls it; steps publish while executeDAG
\* runs, and after what they depend on.
Sending ==
    /\ other \in sending => pc[other] = "begin"
    /\ engine \in sending => pc[engine] \in {"start", "complete", "state", "ensure"}
    /\ \A p \in Steps : p \in sending => pc[p] # "over" /\ pc[engine] = "running"
    /\ \A p \in Steps : pc[p] = "act" => pc[engine] = "running"
    /\ \A p \in Steps : p \in sending \/ pc[p] # "begin" =>
          \A q \in after[p] : pc[q] = "over"

Lists ==
    /\ Once(subscribers)
    /\ \A p \in Publishers : Once(left[p])
    /\ \A p \in Publishers : p \notin sending => left[p] = <<>>
    /\ \A p \in Publishers : \A s \in Subscribers : Owes(p, s) => In(s, subscribers)
    /\ In(capture, subscribers) <=> pc[engine] \notin Past
    /\ In(viewer, subscribers) <=> vpc \in {"joined", "live", "leaving"}
    /\ capture \in closed => pc[engine] \in Past
    /\ viewer \in closed => vpc = "gone"

\* What the viewer is shown begins with Replay.
Fresh ==
    vpc \in {"away", "joining", "joined"} =>
        seen = <<>> /\ replayed = 0 /\ skipped = 0

Control == TypeOK /\ Places /\ Sending /\ Lists /\ Fresh

(***************************************************************************)
(* What was published: each event once, and no further than its publisher. *)
(***************************************************************************)
EngineTypes == {"workflow.started", "workflow.completed", "execution.state"}

AfterComplete == {"state", "returned", "stopping"} \cup Past

Reached(e) ==
    /\ e.by # other
    /\ e.by = engine => e.type \in EngineTypes
    /\ e.by = engine /\ e.type = "workflow.started" =>
          pc[engine] # "start" \/ engine \in sending
    /\ e.by = engine /\ e.type = "workflow.completed" =>
          pc[engine] \in AfterComplete \/ (pc[engine] = "complete" /\ engine \in sending)
    /\ e.by = engine /\ e.type = "execution.state" =>
          pc[engine] \in AfterComplete \ {"state"}
              \/ (pc[engine] = "state" /\ engine \in sending)
    /\ e.by \in Steps => e.type \in {"step.started", "step.skipped", "step.completed"}
    /\ e.by \in Steps /\ e.type \in {"step.started", "step.skipped"} =>
          pc[e.by] # "begin" \/ e.by \in sending
    /\ e.by \in Steps /\ e.type = "step.completed" =>
          pc[e.by] = "over" \/ (pc[e.by] = "act" /\ e.by \in sending)

PublishedOnce ==
    /\ Once(published)
    /\ \A e : In(e, published) => Reached(e)

(***************************************************************************)
(* Where a published event is: on its way, in the channel of the capture,  *)
(* or in the log; never in two of them, nor twice in one.                  *)
(***************************************************************************)
Cap == chan[capture]

Own(e) == e.by # other

OnceOwn(q) == \A i, j \in DOMAIN q : Own(q[i]) /\ q[i] = q[j] => i = j

\* The events whose Publish has not come to the capture yet.
Debtors == {p \in sending : p # other /\ Owes(p, capture)}

Owed == {Event(p) : p \in Debtors}

OnePlace(pub, stored, coming, owed) ==
    /\ Once(stored)
    /\ \A e : In(e, stored) => In(e, pub)
    /\ OnceOwn(coming)
    /\ \A e : In(e, coming) /\ Own(e) => In(e, pub) /\ ~In(e, stored)
    /\ \A e \in owed : In(e, pub) /\ ~In(e, stored) /\ ~In(e, coming)
    /\ \A e : In(e, pub) => In(e, stored) \/ In(e, coming) \/ e \in owed

Captured == OnePlace(published, log, Cap, Owed)

Drained == pc[engine] \in {"drained", "ensure", "over"} => Cap = <<>>

\* The step events are in the log, or before workflow.completed on the way.
ClosesLog(stored, pub) ==
    \A i \in DOMAIN stored : stored[i].type = "workflow.completed" =>
        \A e : In(e, pub) /\ e.by \in Steps => \E j \in 1..i : stored[j] = e

ClosesRest(coming, stored, pub) ==
    \A i \in DOMAIN coming :
        Own(coming[i]) /\ coming[i].type = "workflow.completed" =>
            \A e : In(e, pub) /\ e.by \in Steps =>
                In(e, stored) \/ \E j \in 1..i : coming[j] = e

LastOfAll == ClosesLog(log, published) /\ ClosesRest(Cap, log, published)

Stored == Control /\ PublishedOnce /\ Captured /\ Drained

(***************************************************************************)
(* Where steps run one after the other, log and channels are in the order  *)
(* of publication: the log is a prefix of it, and at most one Publish of   *)
(* the execution is under way, that of the latest event.                   *)
(***************************************************************************)
Latest == published[Len(published)]

LatestSent ==
    /\ \A p \in sending : p # other => published # <<>> /\ Event(p) = Latest
    /\ pc[engine] = "ensure" => published # <<>> /\ Event(engine) = Latest

Prefix(q, pub) == Len(q) <= Len(pub) /\ \A i \in DOMAIN q : q[i] = pub[i]

Ascending(q, pub) ==
    \A i, j \in DOMAIN q : \A k, m \in DOMAIN pub :
        i < j /\ q[i] = pub[k] /\ q[j] = pub[m] => k < m

LogInOrder == Prefix(log, published) /\ Ascending(Cap, published)

(***************************************************************************)
(* The viewer: what was replayed, what it took from its channel, what is   *)
(* still there and what is still to come follow each other.                *)
(***************************************************************************)
Live == chan[viewer]

\* How many events of the execution the viewer has taken from its channel.
Taken == skipped + (Len(seen) - replayed)

\* The latest event is still to be sent to the viewer.
Coming ==
    \/ \E p \in sending : p # other /\ Owes(p, viewer)
    \/ pc[engine] = "ensure" /\ engine \notin sending

ViewerHas ==
    /\ vpc \notin {"joined", "live", "leaving"} => Live = <<>>
    /\ replayed <= Len(seen)
    /\ Len(seen) > replayed => skipped = replayed
    /\ \A e : In(e, Live) /\ Own(e) => In(e, published)
    /\ \A e : In(e, seen) => In(e, published)

ViewerInOrder ==
    /\ Taken <= Len(published)
    /\ \A i \in DOMAIN seen : i <= replayed =>
          i \in DOMAIN published /\ seen[i] = published[i]
    /\ \A i \in DOMAIN seen : \A k \in DOMAIN published :
          i > replayed /\ seen[i] = published[k] => k > replayed
    /\ \A i, j \in DOMAIN seen : \A k, m \in DOMAIN published :
          /\ replayed < i /\ i < j
          /\ seen[i] = published[k] /\ seen[j] = published[m]
          => k < m
    /\ \A k \in DOMAIN published : In(published[k], Live) =>
          /\ k > Taken
          /\ \A j \in DOMAIN seen : \A m \in DOMAIN published :
                j > replayed /\ seen[j] = published[m] => m < k
    /\ Ascending(Live, published)
    /\ Coming =>
          /\ Taken < Len(published)
          /\ ~In(Latest, Live)
          /\ \A j \in DOMAIN seen : j > replayed => seen[j] # Latest

MissesNone ==
    early /\ ~dropped =>
        /\ Prefix(seen, published)
        /\ vpc \in {"joined", "live"} =>
              \A k \in (Taken + 1)..Len(published) :
                  In(published[k], Live) \/ (k = Len(published) /\ Coming)

Ordered == LatestSent /\ LogInOrder /\ ViewerHas /\ ViewerInOrder /\ MissesNone

-----------------------------------------------------------------------------
(* Lists *)

LEMMA RemoveAtFacts ==
    ASSUME NEW S, NEW q \in Seq(S), NEW i \in 1..Len(q)
    PROVE  /\ RemoveAt(q, i) \in Seq(S)
           /\ Len(RemoveAt(q, i)) = Len(q) - 1
           /\ \A j \in 1..(Len(q) - 1) :
                 RemoveAt(q, i)[j] = IF j < i THEN q[j] ELSE q[j + 1]
<1> DEFINE l == SubSeq(q, 1, i - 1)
           r == SubSeq(q, i + 1, Len(q))
<1>1. Len(q) \in Nat /\ i \in Nat \ {0} /\ i <= Len(q)
  OBVIOUS
<1>2. /\ l \in Seq(S) /\ Len(l) = i - 1
      /\ \A j \in 1..(i - 1) : l[j] = q[j]
  BY <1>1
<1>3. /\ r \in Seq(S) /\ Len(r) = Len(q) - i
      /\ \A j \in 1..(Len(q) - i) : r[j] = q[i + j]
  BY <1>1
<1>4. RemoveAt(q, i) = l \o r
  BY DEF RemoveAt
<1> HIDE DEF l, r
<1>5. /\ l \o r \in Seq(S) /\ Len(l \o r) = Len(q) - 1
  <2>1. l \o r \in Seq(S) /\ Len(l \o r) = Len(l) + Len(r)
    BY <1>2, <1>3, ConcatProperties
  <2>2. (i - 1) + (Len(q) - i) = Len(q) - 1
    BY <1>1
  <2> QED
    BY <1>2, <1>3, <2>1, <2>2
<1>6. \A j \in 1..(Len(q) - 1) : (l \o r)[j] = IF j < i THEN q[j] ELSE q[j + 1]
  <2> TAKE j \in 1..(Len(q) - 1)
  <2>1. CASE j < i
    BY <1>1, <1>2, <1>3, <2>1
  <2>2. CASE ~(j < i)
    <3>1. (l \o r)[j] = r[j - (i - 1)]
      BY <1>1, <1>2, <1>3, <2>2
    <3>2. r[j - (i - 1)] = q[i + (j - (i - 1))]
      BY <1>1, <1>3, <2>2
    <3>3. i + (j - (i - 1)) = j + 1
      BY <1>1
    <3> QED
      BY <2>2, <3>1, <3>2, <3>3
  <2> QED
    BY <2>1, <2>2
<1> QED
  BY <1>4, <1>5, <1>6

LEMMA DomainOf == ASSUME NEW S, NEW q \in Seq(S)
                  PROVE  DOMAIN q = 1..Len(q) /\ Len(q) \in Nat
OBVIOUS

LEMMA RemoveAtIn ==
    ASSUME NEW S, NEW q \in Seq(S), NEW i \in 1..Len(q), Once(q)
    PROVE  /\ RemoveAt(q, i) \in Seq(S)
           /\ Once(RemoveAt(q, i))
           /\ \A x : In(x, RemoveAt(q, i)) <=> In(x, q) /\ x # q[i]
<1> DEFINE r == RemoveAt(q, i)
<1>1. /\ r \in Seq(S) /\ Len(r) = Len(q) - 1
      /\ \A j \in 1..(Len(q) - 1) : r[j] = IF j < i THEN q[j] ELSE q[j + 1]
  BY RemoveAtFacts
<1> HIDE DEF r
<1>2. /\ DOMAIN q = 1..Len(q) /\ Len(q) \in Nat /\ i \in Nat
      /\ DOMAIN r = 1..(Len(q) - 1)
  BY <1>1, DomainOf
<1>3. \A j \in DOMAIN r : \E k \in DOMAIN q :
          k # i /\ r[j] = q[k] /\ k = (IF j < i THEN j ELSE j + 1)
  <2> TAKE j \in DOMAIN r
  <2>1. j \in Nat /\ j >= 1 /\ j + 1 <= Len(q)
    BY <1>2
  <2>2. CASE j < i
    BY <1>1, <1>2, <2>1, <2>2
  <2>3. CASE ~(j < i)
    <3>1. j + 1 \in DOMAIN q /\ j + 1 # i /\ r[j] = q[j + 1]
      BY <1>1, <1>2, <2>1, <2>3
    <3> QED
      BY <2>3, <3>1
  <2> QED
    BY <2>2, <2>3
<1>4. Once(r)
  <2> SUFFICES ASSUME NEW j \in DOMAIN r, NEW k \in DOMAIN r, r[j] = r[k]
               PROVE  j = k
    BY DEF Once
  <2>1. PICK m \in DOMAIN q : r[j] = q[m] /\ m = (IF j < i THEN j ELSE j + 1)
    BY <1>3
  <2>2. PICK n \in DOMAIN q : r[k] = q[n] /\ n = (IF k < i THEN k ELSE k + 1)
    BY <1>3
  <2>3. m = n
    BY <2>1, <2>2 DEF Once
  <2>4. j \in Nat /\ k \in Nat
    BY <1>2
  <2> QED
    BY <1>2, <2>1, <2>2, <2>3, <2>4
<1>5. \A x : In(x, r) => In(x, q) /\ x # q[i]
  BY <1>2, <1>3 DEF In, Once
<1>6. ASSUME NEW x, In(x, q), x # q[i] PROVE In(x, r)
  <2>1. PICK k \in DOMAIN q : q[k] = x
    BY <1>6 DEF In
  <2>2. k \in 1..Len(q) /\ k # i
    BY <1>2, <1>6, <2>1
  <2>3. CASE k < i
    <3>1. k \in DOMAIN r /\ r[k] = x
      BY <1>1, <1>2, <2>1, <2>2, <2>3
    <3> QED
      BY <3>1 DEF In
  <2>4. CASE ~(k < i)
    <3>1. /\ k - 1 \in DOMAIN r /\ ~(k - 1 < i) /\ (k - 1) + 1 = k
      BY <1>2, <2>2, <2>4
    <3>2. r[k - 1] = x
      BY <1>1, <1>2, <2>1, <3>1
    <3> QED
      BY <3>1, <3>2 DEF In
  <2> QED
    BY <2>3, <2>4
<1> QED
  BY <1>1, <1>4, <1>5, <1>6 DEF r

LEMMA TailIn ==
    ASSUME NEW S, NEW q \in Seq(S), q # <<>>
    PROVE  /\ \A x : In(x, q) <=> x = Head(q) \/ In(x, Tail(q))
           /\ Once(q) => Once(Tail(q)) /\ ~In(Head(q), Tail(q))
<1> DEFINE t == Tail(q)
<1>1. /\ DOMAIN q = 1..Len(q) /\ Len(q) \in Nat \ {0} /\ Head(q) = q[1]
      /\ t \in Seq(S) /\ Len(t) = Len(q) - 1 /\ DOMAIN t = 1..Len(t)
      /\ \A i \in 1..Len(t) : t[i] = q[i + 1]
  <2>1. /\ Len(q) \in Nat \ {0} /\ Head(q) = q[1]
        /\ t \in Seq(S) /\ Len(t) = Len(q) - 1
        /\ \A i \in 1..Len(t) : t[i] = q[i + 1]
    BY TailFacts
  <2> QED
    BY <2>1, DomainOf
<1> HIDE DEF t
<1>2. ASSUME NEW x, In(x, t) PROVE In(x, q)
  <2>1. PICK i \in DOMAIN t : t[i] = x
    BY <1>2 DEF In
  <2>2. i + 1 \in DOMAIN q /\ q[i + 1] = x
    BY <1>1, <2>1
  <2> QED
    BY <2>2 DEF In
<1>3. ASSUME NEW x, In(x, q), x # Head(q) PROVE In(x, t)
  <2>1. PICK i \in DOMAIN q : q[i] = x
    BY <1>3 DEF In
  <2>2. i - 1 \in DOMAIN t /\ (i - 1) + 1 = i
    BY <1>1, <1>3, <2>1
  <2>3. t[i - 1] = x
    BY <1>1, <2>1, <2>2
  <2> QED
    BY <2>2, <2>3 DEF In
<1>4. In(Head(q), q)
  <2>1. 1 \in DOMAIN q /\ q[1] = Head(q)
    BY <1>1
  <2> QED
    BY <2>1 DEF In
<1>5. ASSUME Once(q) PROVE Once(t) /\ ~In(Head(q), t)
  <2>1. \A i \in DOMAIN t : i + 1 \in DOMAIN q /\ i + 1 # 1 /\ t[i] = q[i + 1]
    BY <1>1
  <2>2. Once(t)
    BY <1>1, <1>5, <2>1 DEF Once
  <2>3. ~In(Head(q), t)
    BY <1>1, <1>5, <2>1 DEF Once, In
  <2> QED
    BY <2>2, <2>3
<1> QED
  BY <1>2, <1>3, <1>4, <1>5 DEF t

LEMMA AppendIn ==
    ASSUME NEW S, NEW q \in Seq(S), NEW e \in S
    PROVE  /\ \A x : In(x, Append(q, e)) <=> In(x, q) \/ x = e
           /\ Once(q) /\ ~In(e, q) => Once(Append(q, e))
<1> DEFINE r == Append(q, e)
<1>1. /\ DOMAIN q = 1..Len(q) /\ Len(q) \in Nat /\ DOMAIN r = 1..(Len(q) + 1)
      /\ r[Len(q) + 1] = e
      /\ \A i \in 1..Len(q) : r[i] = q[i]
  BY AppendFacts
<1> HIDE DEF r
<1>2. ASSUME NEW x, In(x, r) PROVE In(x, q) \/ x = e
  <2>1. PICK i \in DOMAIN r : r[i] = x
    BY <1>2 DEF In
  <2>2. CASE i = Len(q) + 1
    BY <1>1, <2>1, <2>2
  <2>3. CASE i # Len(q) + 1
    <3>1. i \in DOMAIN q /\ q[i] = x
      BY <1>1, <2>1, <2>3
    <3> QED
      BY <3>1 DEF In
  <2> QED
    BY <2>2, <2>3
<1>3. ASSUME NEW x, In(x, q) PROVE In(x, r)
  <2>1. PICK i \in DOMAIN q : q[i] = x
    BY <1>3 DEF In
  <2>2. i \in DOMAIN r /\ r[i] = x
    BY <1>1, <2>1
  <2> QED
    BY <2>2 DEF In
<1>4. In(e, r)
  <2>1. Len(q) + 1 \in DOMAIN r
    BY <1>1
  <2> QED
    BY <1>1, <2>1 DEF In
<1>5. ASSUME Once(q), ~In(e, q) PROVE Once(r)
  <2> SUFFICES ASSUME NEW i \in DOMAIN r, NEW j \in DOMAIN r, r[i] = r[j]
               PROVE  i = j
    BY DEF Once
  <2>1. \A k \in DOMAIN q : q[k] # e
    BY <1>5 DEF In
  <2>2. CASE i = Len(q) + 1 \/ j = Len(q) + 1
    BY <1>1, <2>1, <2>2
  <2>3. CASE i # Len(q) + 1 /\ j # Len(q) + 1
    <3>1. i \in DOMAIN q /\ j \in DOMAIN q /\ q[i] = q[j]
      BY <1>1, <2>3
    <3> QED
      BY <1>5, <3>1 DEF Once
  <2> QED
    BY <2>2, <2>3
<1> QED
  BY <1>2, <1>3, <1>4, <1>5 DEF r
-----------------------------------------------------------------------------
(* Control *)

PcValues == {"start", "begin", "running", "act", "complete", "state",
             "returned", "stopping", "draining", "drained", "ensure", "over"}

Publishing == {"start", "begin", "act", "complete", "state", "ensure"}

LEMMA EventFacts ==
    ASSUME NEW p \in Publishers, pc[p] \in Publishing
    PROVE  Event(p) \in Events /\ Event(p).by = p /\ Event(p).type = Type(p)
<1>1. Type(p) \in Types
  BY DEF Type, Types, Publishing
<1> QED
  BY <1>1 DEF Event, Events

LEMMA ControlFacts ==
    ASSUME Control
    PROVE  /\ after \in [Steps -> SUBSET Steps]
           /\ engine \in Publishers /\ other \in Publishers
           /\ Steps \subseteq Publishers /\ Publishers = Steps \cup {engine, other}
           /\ engine \notin Steps /\ other \notin Steps /\ engine # other
           /\ capture \in Subscribers /\ viewer \in Subscribers
           /\ Subscribers = {capture, viewer} /\ capture # viewer
           /\ pc \in [Publishers -> PcValues] /\ sending \subseteq Publishers
           /\ left \in [Publishers -> Seq(Subscribers)]
           /\ subscribers \in Seq(Subscribers)
           /\ chan \in [Subscribers -> Seq(Events)]
           /\ chan[capture] \in Seq(Events) /\ chan[viewer] \in Seq(Events)
           /\ log \in Seq(Events) /\ seen \in Seq(Events)
           /\ published \in Seq(Events)
           /\ \A p \in sending : pc[p] \in Publishing
           /\ CaptureSize \in Nat \ {0} /\ ViewerSize \in Nat \ {0}
<1>1. after \in [Steps -> SUBSET Steps]
  BY StepsAssumption DEF Control, TypeOK
<1>2. \A p \in sending : pc[p] \in Publishing
  BY DEF Control, TypeOK, Places, Sending, Publishers, Publishing
<1>3. /\ engine \in Publishers /\ other \in Publishers
      /\ Steps \subseteq Publishers /\ Publishers = Steps \cup {engine, other}
      /\ engine \notin Steps /\ other \notin Steps /\ engine # other
      /\ capture \in Subscribers /\ viewer \in Subscribers
      /\ Subscribers = {capture, viewer} /\ capture # viewer
  BY StepsAssumption DEF Publishers, Subscribers, engine, other, capture, viewer
<1> QED
  BY <1>1, <1>2, <1>3, SizesAssumption DEF Control, TypeOK, PcValues

LEMMA InitControl == Init => Control
<1> SUFFICES ASSUME Init PROVE Control
  OBVIOUS
<1> USE DEF Init
<1>1. /\ engine \notin Steps /\ other \notin Steps /\ engine # other
      /\ capture # viewer /\ Publishers = Steps \cup {engine, other}
      /\ Subscribers = {capture, viewer}
  BY StepsAssumption DEF Publishers, Subscribers, engine, other, capture, viewer
<1>2. subscribers \in Seq(Subscribers) /\ Len(subscribers) = 1
      /\ subscribers[1] = capture
  BY <1>1
<1>3. /\ In(capture, subscribers) /\ ~In(viewer, subscribers)
      /\ Once(subscribers)
  BY <1>1, <1>2 DEF In, Once
<1>4. /\ pc[engine] = "start" /\ pc[other] \in {"begin", "over"}
      /\ \A p \in Steps : pc[p] = "begin"
  BY <1>1
<1>5. TypeOK
  <2>1. pc \in [Publishers -> {"start", "begin", "running", "act", "complete",
                               "state", "returned", "stopping", "draining",
                               "drained", "ensure", "over"}]
    OBVIOUS
  <2>2. /\ left \in [Publishers -> Seq(Subscribers)]
        /\ chan \in [Subscribers -> Seq(Events)]
        /\ \A s \in Subscribers : Len(chan[s]) = 0
    OBVIOUS
  <2>3. \A s \in Subscribers : Size(s) \in Nat /\ Len(chan[s]) <= Size(s)
    BY <2>2, SizesAssumption DEF Size
  <2>4. /\ log \in Seq(Events) /\ seen \in Seq(Events)
        /\ published \in Seq(Events) /\ replayed \in Nat
        /\ skipped \in 0..replayed
    OBVIOUS
  <2> QED
    BY <1>2, <2>1, <2>2, <2>3, <2>4 DEF TypeOK
<1>6. Places
  BY <1>4 DEF Places
<1>7. Sending
  BY <1>4 DEF Sending
<1>8. Lists
  <2>1. \A p \in Publishers : left[p] = <<>> /\ Once(left[p])
    BY DEF Once
  <2>2. \A p \in Publishers : \A s \in Subscribers : ~Owes(p, s)
    BY <2>1 DEF Owes, In
  <2> QED
    BY <1>3, <1>4, <2>1, <2>2 DEF Lists, Past
<1>9. Fresh
  BY DEF Fresh
<1> QED
  BY <1>5, <1>6, <1>7, <1>8, <1>9 DEF Control

\* b.mu.RLock: the list is as Subscribe and Unsubscribe left it.
LEMMA RLockControl ==
    ASSUME Control, NEW p \in Publishers, RLock(p)
    PROVE  Control'
<1> USE ControlFacts
<1>1. /\ UNCHANGED <<after, quiet, pc, subscribers, pending, chan, closed,
                     dropped, log, vpc, replayed, skipped, seen, early>>
      /\ sending' = sending \cup {p}
      /\ left'[p] = subscribers
      /\ \A q \in Publishers \ {p} : left'[q] = left[q]
      /\ left' \in [Publishers -> Seq(Subscribers)]
  BY DEF RLock, stream
<1>2. pc[p] \in Publishing
  BY DEF RLock, Publishes, Publishing
<1>3. published' \in Seq(Events)
  BY <1>2, EventFacts DEF RLock
<1>4. TypeOK'
  BY <1>1, <1>3 DEF Control, TypeOK
<1>5. Places'
  BY <1>1 DEF Control, Places
<1>6. Sending'
  <2>1. CASE p \in Steps
    <3>1. pc[engine] = "running" /\ pc[p] # "over"
          /\ \A q \in after[p] : pc[q] = "over"
      BY <2>1 DEF RLock, Publishes, Control, Sending
    <3> QED
      BY <1>1, <2>1, <3>1 DEF Control, Sending
  <2>2. CASE p \notin Steps
    BY <1>1, <2>2 DEF RLock, Publishes, Control, Sending
  <2> QED
    BY <2>1, <2>2
<1>7. Lists'
  <2>1. \A q \in Publishers : Once(left'[q])
    BY <1>1 DEF Control, Lists
  <2>2. \A q \in Publishers : q \notin sending' => left'[q] = <<>>
    BY <1>1 DEF Control, Lists
  <2>3. \A q \in Publishers, s \in Subscribers : Owes(q, s)' => In(s, subscribers)
    BY <1>1 DEF Control, Lists, Owes
  <2> QED
    BY <1>1, <2>1, <2>2, <2>3 DEF Control, Lists
<1> QED
  BY <1>1, <1>4, <1>5, <1>6, <1>7 DEF Control, Fresh

\* The deferred RUnlock: p goes on with what follows its Publish.
LEMMA ReturnFacts ==
    ASSUME Control, NEW p \in sending, Return(p)
    PROVE  /\ pc' \in [Publishers -> PcValues] /\ sending' = sending \ {p}
           /\ \A q \in Publishers \ {p} : pc'[q] = pc[q]
           /\ p = engine => \/ pc[p] = "start"    /\ pc'[p] = "running"
                            \/ pc[p] = "complete" /\ pc'[p] = "state"
                            \/ pc[p] = "state"    /\ pc'[p] = "returned"
                            \/ pc[p] = "ensure"   /\ pc'[p] = "over"
           /\ p = other => pc[p] = "begin" /\ pc'[p] = "over"
           /\ p \in Steps =>
                 /\ pc[engine] = "running" /\ pc'[engine] = "running"
                 /\ \/ pc[p] = "begin" /\ pc'[p] \in {"act", "over"}
                    \/ pc[p] = "act"   /\ pc'[p] = "over"
                 /\ pc[p] = "begin" /\ pc'[p] = "over" => p \in Skipped
<1> USE ControlFacts
<1>1. p \in Publishers /\ pc[p] \in Publishing
  OBVIOUS
<1>2. After(p) \in PcValues
  BY <1>1 DEF After, Publishing, PcValues
<1>3. /\ pc' \in [Publishers -> PcValues] /\ sending' = sending \ {p}
      /\ \A q \in Publishers \ {p} : pc'[q] = pc[q]
      /\ pc'[p] = After(p)
  BY <1>1, <1>2 DEF Return
<1>4. CASE p = engine
  BY <1>3, <1>4 DEF Control, Sending, After
<1>5. CASE p = other
  BY <1>3, <1>5 DEF Control, Sending, After
<1>6. CASE p \in Steps
  <2>1. pc[p] \in {"begin", "act"} /\ pc[engine] = "running"
    BY <1>6 DEF Control, Sending, Places
  <2> QED
    BY <1>3, <1>6, <2>1 DEF After
<1> QED
  BY <1>1, <1>3, <1>4, <1>5, <1>6

\* One turn of the loop over b.subscribers, or none: what p has still to send
\* shrinks.
LEMMA DeliverFacts ==
    ASSUME Control, NEW p \in sending, Deliver(p) \/ DeliverToNobody(p)
    PROVE  /\ UNCHANGED <<after, quiet, subscribers, pending, closed, log, vpc,
                          replayed, skipped, seen, early, published>>
           /\ left' \in [Publishers -> Seq(Subscribers)]
           /\ \A q \in Publishers \ {p} : left'[q] = left[q]
           /\ Once(left'[p])
           /\ \A s \in Subscribers :
                 Owes(p, s)' <=> /\ Owes(p, s)
                                 /\ ~(Deliver(p) /\ s = Head(left[p]))
           /\ \/ Return(p) /\ left'[p] = <<>>
              \/ UNCHANGED <<sending, pc>>
<1> USE ControlFacts
<1>1. Once(left[p]) /\ left[p] \in Seq(Subscribers)
  BY DEF Control, Lists
<1>2. CASE Deliver(p)
  <2>1. left[p] # <<>> /\ left' = [left EXCEPT ![p] = Tail(left[p])]
    BY <1>2 DEF Deliver
  <2>2. /\ Len(left[p]) \in Nat \ {0} /\ Head(left[p]) = left[p][1]
        /\ Tail(left[p]) \in Seq(Subscribers)
        /\ Len(Tail(left[p])) = Len(left[p]) - 1
        /\ \A i \in 1..Len(Tail(left[p])) : Tail(left[p])[i] = left[p][i + 1]
    BY <1>1, <2>1, TailFacts
  <2>3. left'[p] = Tail(left[p])
    BY <2>1
  <2>4. Once(Tail(left[p]))
    BY <1>1, <2>1, TailIn
  <2>5. \A s \in Subscribers : In(s, Tail(left[p])) <=>
                                  In(s, left[p]) /\ s # Head(left[p])
    BY <1>1, <2>1, TailIn
  <2>6. \/ Return(p) /\ left'[p] = <<>>
        \/ UNCHANGED <<sending, pc>>
    BY <1>2, <2>3 DEF Deliver
  <2>7. UNCHANGED <<after, quiet, subscribers, pending, closed, log, vpc,
                    replayed, skipped, seen, early, published>>
    BY <1>2 DEF Deliver, stream
  <2> QED
    BY <1>2, <2>1, <2>2, <2>3, <2>4, <2>5, <2>6, <2>7 DEF Owes
<1>3. CASE DeliverToNobody(p) /\ ~Deliver(p)
  BY <1>1, <1>3 DEF DeliverToNobody, Nobody, stream, Owes
<1> QED
  BY <1>2, <1>3

LEMMA DeliverControl ==
    ASSUME Control, NEW p \in Publishers, Deliver(p) \/ DeliverToNobody(p)
    PROVE  Control'
<1> USE ControlFacts
<1>0. p \in sending
  BY DEF Deliver, DeliverToNobody
<1>1. /\ UNCHANGED <<after, quiet, subscribers, pending, closed, log, vpc,
                     replayed, skipped, seen, early, published>>
      /\ left' \in [Publishers -> Seq(Subscribers)]
      /\ \A q \in Publishers \ {p} : left'[q] = left[q]
      /\ Once(left'[p])
      /\ \A s \in Subscribers : Owes(p, s)' => Owes(p, s)
      /\ \/ Return(p) /\ left'[p] = <<>>
         \/ UNCHANGED <<sending, pc>>
  BY <1>0, DeliverFacts
<1>2. /\ chan' \in [Subscribers -> Seq(Events)] /\ dropped' \in BOOLEAN
      /\ \A s \in Subscribers : Len(chan'[s]) <= Size(s)
  <2>1. /\ \A s \in Subscribers : Len(chan[s]) <= Size(s)
        /\ dropped \in BOOLEAN
    BY DEF Control, TypeOK
  <2>2. CASE Deliver(p)
    <3> DEFINE s == Head(left[p])
    <3>1. s \in Subscribers /\ Event(p) \in Events
      BY <1>0, <2>2, TailFacts, EventFacts DEF Deliver
    <3>2. chan[s] \in Seq(Events) /\ Len(chan[s]) \in Nat /\ Size(s) \in Nat
      BY <3>1 DEF Size
    <3>3. chan' = [chan EXCEPT ![s] = IF Len(chan[s]) >= Size(s) THEN chan[s]
                                      ELSE Append(chan[s], Event(p))]
      BY <2>2 DEF Deliver
    <3>4. dropped' = (dropped \/ Len(chan[s]) >= Size(s))
      BY <2>2 DEF Deliver
    <3> HIDE DEF s
    <3>5. Append(chan[s], Event(p)) \in Seq(Events)
          /\ Len(Append(chan[s], Event(p))) = Len(chan[s]) + 1
      BY <3>1, <3>2
    <3>6. chan' \in [Subscribers -> Seq(Events)]
      BY <3>1, <3>3, <3>5
    <3>7. \A t \in Subscribers : Len(chan'[t]) <= Size(t)
      BY <2>1, <3>1, <3>2, <3>3, <3>5
    <3> QED
      BY <2>1, <3>4, <3>6, <3>7
  <2>3. CASE DeliverToNobody(p)
    BY <2>1, <2>3 DEF DeliverToNobody
  <2> QED
    BY <2>2, <2>3
<1>3. CASE Return(p) /\ left'[p] = <<>>
  <2>1. /\ pc' \in [Publishers -> PcValues] /\ sending' = sending \ {p}
        /\ \A q \in Publishers \ {p} : pc'[q] = pc[q]
    BY <1>0, <1>3, ReturnFacts
  <2>2. TypeOK'
    BY <1>1, <1>2, <2>1 DEF Control, TypeOK, PcValues
  <2>3. Places'
    BY <1>0, <1>3, <2>1, ReturnFacts DEF Control, Places, Past
  <2>4. Sending'
    <3>1. CASE p \in Steps
      <4>1. /\ pc[engine] = "running" /\ pc'[engine] = "running"
            /\ pc[p] # "over" /\ pc'[other] = pc[other]
        BY <1>0, <1>3, <2>1, <3>1, ReturnFacts
      <4>2. \A q \in Steps : q \in sending' \/ pc'[q] # "begin" =>
               \A r \in after[q] : r \in Steps /\ pc[r] = "over"
        BY <1>0, <2>1, <3>1 DEF Control, Sending
      <4>3. \A q \in Steps : q \in sending' \/ pc'[q] # "begin" =>
               \A r \in after[q] : pc'[r] = "over"
        BY <2>1, <4>1, <4>2
      <4>4. \A q \in Steps : q \in sending' => pc'[q] # "over"
        BY <2>1 DEF Control, Sending
      <4>5. /\ other \in sending' => pc'[other] = "begin"
            /\ engine \notin sending'
        BY <2>1, <4>1 DEF Control, Sending
      <4>6. \A q \in Steps : q \in sending' \/ pc'[q] # "begin" =>
               \A r \in after'[q] : pc'[r] = "over"
        BY <1>1, <4>3
      <4> QED
        BY <4>1, <4>4, <4>5, <4>6 DEF Sending
    <3>2. CASE p \notin Steps
      <4>1. /\ \A q \in Steps : pc'[q] = pc[q] /\ (q \in sending' <=> q \in sending)
            /\ \A q \in Steps : \A r \in after[q] : r \in Steps
        BY <2>1, <3>2
      <4>2. /\ pc[engine] = "running" => pc'[engine] = "running"
            /\ other \in sending' => pc'[other] = "begin"
            /\ engine \in sending' =>
                  pc'[engine] \in {"start", "complete", "state", "ensure"}
        BY <1>0, <1>3, <2>1, <3>2, ReturnFacts DEF Control, Sending
      <4>3. /\ \A q \in Steps : q \in sending' => pc'[q] # "over"
                                                  /\ pc'[engine] = "running"
            /\ \A q \in Steps : pc'[q] = "act" => pc'[engine] = "running"
        BY <4>1, <4>2 DEF Control, Sending
      <4>4. \A q \in Steps : q \in sending' \/ pc'[q] # "begin" =>
               \A r \in after'[q] : pc'[r] = "over"
        BY <1>1, <4>1 DEF Control, Sending
      <4> QED
        BY <4>2, <4>3, <4>4 DEF Sending
    <3> QED
      BY <3>1, <3>2
  <2>5. Lists'
    <3>1. pc'[engine] \in Past <=> pc[engine] \in Past
      BY <1>0, <1>3, <2>1, ReturnFacts DEF Past
    <3>2. \A q \in Publishers, s \in Subscribers : Owes(q, s)' => In(s, subscribers)
      BY <1>1 DEF Control, Lists, Owes
    <3>3. \A q \in Publishers : Once(left'[q])
      BY <1>1 DEF Control, Lists
    <3>4. \A q \in Publishers : q \notin sending' => left'[q] = <<>>
      BY <1>1, <1>3, <2>1 DEF Control, Lists
    <3> QED
      BY <1>1, <3>1, <3>2, <3>3, <3>4 DEF Control, Lists
  <2> QED
    BY <1>1, <2>2, <2>3, <2>4, <2>5 DEF Control, Fresh
<1>4. CASE UNCHANGED <<sending, pc>>
  <2>1. TypeOK'
    BY <1>1, <1>2, <1>4 DEF Control, TypeOK
  <2>2. Places' /\ Sending'
    BY <1>1, <1>4 DEF Control, Places, Sending
  <2>3. Lists'
    <3>1. \A q \in Publishers, s \in Subscribers : Owes(q, s)' => In(s, subscribers)
      BY <1>1 DEF Control, Lists, Owes
    <3>2. \A q \in Publishers : Once(left'[q])
      BY <1>1 DEF Control, Lists
    <3>3. \A q \in Publishers : q \notin sending' => left'[q] = <<>>
      BY <1>0, <1>1, <1>4 DEF Control, Lists
    <3> QED
      BY <1>1, <1>4, <3>1, <3>2, <3>3 DEF Control, Lists
  <2> QED
    BY <1>1, <2>1, <2>2, <2>3 DEF Control, Fresh
<1> QED
  BY <1>1, <1>3, <1>4

\* The engine takes a step that is no Publish.
LEMMA EngineMoves ==
    ASSUME Control, engine \notin sending,
           UNCHANGED <<after, sending, left, subscribers, chan, closed, dropped,
                       vpc, replayed, skipped, seen, early>>,
           quiet' \in BOOLEAN, pending' \subseteq {engine, viewer},
           log' \in Seq(Events), published' \in Seq(Events),
           NEW at \in PcValues \ {"begin", "act"},
           pc' = [pc EXCEPT ![engine] = at],
           pc[engine] \in Past <=> at \in Past,
           pc[engine] = "running" => StepsOver
    PROVE  Control'
<1> USE ControlFacts
<1>1. /\ pc' \in [Publishers -> PcValues] /\ pc'[engine] = at
      /\ \A q \in Publishers \ {engine} : pc'[q] = pc[q]
      /\ \A q \in Steps : pc'[q] = pc[q]
      /\ pc'[other] = pc[other]
  OBVIOUS
<1>2. TypeOK'
  BY <1>1 DEF Control, TypeOK, PcValues
<1>3. Places'
  <2>1. at \in {"start", "running", "complete", "state", "returned",
                "stopping"} \cup Past
    BY DEF PcValues, Past
  <2> QED
    BY <1>1, <2>1 DEF Control, Places
<1>4. Sending'
  <2>1. pc[engine] = "running" => \A p \in Steps : p \notin sending /\ pc[p] # "act"
    BY DEF Control, Sending, StepsOver
  <2>2. \A p \in Steps : \A q \in after[p] : q \in Steps
    OBVIOUS
  <2> QED
    BY <1>1, <2>1, <2>2 DEF Control, Sending
<1>5. Lists'
  BY <1>1 DEF Control, Lists, Owes
<1> QED
  BY <1>2, <1>3, <1>4, <1>5 DEF Control, Fresh

LEMMA ExecutionControl ==
    ASSUME Control,
           FailEarly \/ ExecuteReturns \/ StopCapture \/ Drain \/ Ensure
    PROVE  Control'
<1> USE ControlFacts
<1>0. /\ log \in Seq(Events) /\ published \in Seq(Events) /\ quiet \in BOOLEAN
      /\ pending \subseteq {engine, viewer}
      /\ engine \in sending =>
            pc[engine] \in {"start", "complete", "state", "ensure"}
  BY DEF Control, TypeOK, Sending
<1>1. CASE FailEarly
  <2>1. /\ pc[engine] = "start" /\ engine \notin sending
        /\ pc' = [pc EXCEPT ![engine] = "returned"] /\ quiet' \in BOOLEAN
        /\ UNCHANGED <<after, bus, log, stream, published>>
    BY <1>1 DEF FailEarly
  <2> QED
    BY <1>0, <2>1, EngineMoves DEF bus, stream, Past, PcValues
<1>2. CASE ExecuteReturns
  <2>1. PICK at \in {"complete", "returned"} : pc' = [pc EXCEPT ![engine] = at]
    BY <1>2 DEF ExecuteReturns
  <2>2. /\ pc[engine] = "running" /\ StepsOver /\ quiet' \in BOOLEAN
        /\ UNCHANGED <<after, bus, log, stream, published>>
    BY <1>0, <1>2 DEF ExecuteReturns
  <2> QED
    BY <1>0, <2>1, <2>2, EngineMoves DEF bus, stream, Past, PcValues
<1>3. CASE StopCapture
  <2>1. /\ pc[engine] = "returned" /\ pending' \subseteq {engine, viewer}
        /\ pc' = [pc EXCEPT ![engine] = "stopping"]
        /\ UNCHANGED <<after, quiet, sending, left, subscribers, chan, closed,
                       dropped, log, stream, published>>
    BY <1>0, <1>3 DEF StopCapture
  <2> QED
    BY <1>0, <2>1, EngineMoves DEF stream, Past, PcValues
<1>4. CASE Drain
  <2>1. /\ pc[engine] = "draining"
        /\ pc' = [pc EXCEPT ![engine] = "drained"]
        /\ UNCHANGED <<after, quiet, bus, log, stream, published>>
    BY <1>4 DEF Drain
  <2> QED
    BY <1>0, <2>1, EngineMoves DEF bus, stream, Past, PcValues
<1>5. CASE Ensure
  <2> DEFINE done == [by |-> engine, type |-> "workflow.completed"]
  <2>1. done \in Events
    BY DEF Events, Types
  <2>2. PICK at \in {"over", "ensure"} : pc' = [pc EXCEPT ![engine] = at]
    BY <1>5 DEF Ensure
  <2>3. /\ pc[engine] = "drained" /\ UNCHANGED <<after, quiet, bus, stream>>
        /\ \/ UNCHANGED <<log, published>>
           \/ /\ log' = Append(log, done)
              /\ published' = Append(published, done)
    BY <1>5 DEF Ensure
  <2> HIDE DEF done
  <2>4. Append(log, done) \in Seq(Events) /\ Append(published, done) \in Seq(Events)
    BY <2>1, AppendFacts
  <2>5. log' \in Seq(Events) /\ published' \in Seq(Events)
    BY <1>0, <2>3, <2>4
  <2> QED
    BY <1>0, <2>2, <2>3, <2>5, EngineMoves DEF bus, stream, Past, PcValues
<1> QED
  BY <1>1, <1>2, <1>3, <1>4, <1>5

LEMMA UnsubscribeFacts ==
    ASSUME Control, NEW s \in Subscribers, Unsubscribe(s)
    PROVE  /\ subscribers' \in Seq(Subscribers) /\ Once(subscribers')
           /\ \A t : In(t, subscribers') <=> In(t, subscribers) /\ t # s
           /\ closed' = closed \cup {s}
<1> USE ControlFacts
<1>1. PICK i \in DOMAIN subscribers :
          /\ subscribers[i] = s
          /\ subscribers' = RemoveAt(subscribers, i)
          /\ closed' = closed \cup {s}
  BY DEF Unsubscribe
<1>2. i \in 1..Len(subscribers)
  BY DomainOf
<1>3. Once(subscribers)
  BY DEF Control, Lists
<1> QED
  BY <1>1, <1>2, <1>3, RemoveAtIn

\* Whoever holds b.mu for writing finds nobody inside Publish.
LEMMA LockedFacts ==
    ASSUME Control, NEW w, Locked(w)
    PROVE  /\ sending = {} /\ \A p \in Publishers : left[p] = <<>>
           /\ \A p \in Publishers : \A s : ~Owes(p, s)
BY DEF Control, Lists, Locked, Owes, In

LEMMA UnsubscribeCaptureControl ==
    ASSUME Control, UnsubscribeCapture
    PROVE  Control'
<1> USE ControlFacts
<1>1. /\ pc[engine] = "stopping" /\ pc' = [pc EXCEPT ![engine] = "draining"]
      /\ pending' = pending \ {engine}
      /\ UNCHANGED <<after, quiet, sending, left, chan, dropped, log, vpc,
                     replayed, skipped, seen, early, published>>
  BY DEF UnsubscribeCapture, stream
<1>2. sending = {} /\ \A p \in Publishers, s \in Subscribers : ~Owes(p, s)
  BY LockedFacts DEF UnsubscribeCapture
<1>3. /\ subscribers' \in Seq(Subscribers) /\ Once(subscribers')
      /\ \A t : In(t, subscribers') <=> In(t, subscribers) /\ t # capture
      /\ closed' = closed \cup {capture}
  BY UnsubscribeFacts DEF UnsubscribeCapture
<1>4. /\ pc' \in [Publishers -> PcValues] /\ pc'[engine] = "draining"
      /\ \A q \in Publishers \ {engine} : pc'[q] = pc[q]
      /\ \A q \in Steps : pc'[q] = pc[q]
      /\ pc'[other] = pc[other]
  BY <1>1 DEF PcValues
<1>5. TypeOK'
  BY <1>1, <1>3, <1>4 DEF Control, TypeOK, PcValues
<1>6. Places'
  BY <1>4 DEF Control, Places, Past
<1>7. Sending'
  <2>1. \A p \in Steps : pc[p] # "act"
    BY <1>1 DEF Control, Sending
  <2>2. \A p \in Steps : \A q \in after[p] : q \in Steps
    OBVIOUS
  <2> QED
    BY <1>1, <1>2, <1>4, <2>1, <2>2 DEF Control, Sending
<1>8. Lists'
  <2>1. \A p \in Publishers, s \in Subscribers : ~Owes(p, s)'
    BY <1>1, <1>2 DEF Owes
  <2>2. pc'[engine] \in Past /\ pc[engine] \notin Past
    BY <1>1, <1>4 DEF Past
  <2>3. viewer \in closed' <=> viewer \in closed
    BY <1>3
  <2> QED
    BY <1>1, <1>3, <2>1, <2>2, <2>3 DEF Control, Lists
<1> QED
  BY <1>1, <1>5, <1>6, <1>7, <1>8 DEF Control, Fresh

\* Steps of the viewer and of captureEvents: the publishers stay where they are.
LEMMA OthersControl ==
    ASSUME Control, UNCHANGED <<after, quiet, pc, sending, left, dropped, published>>,
           Lists', Fresh', pending' \subseteq {engine, viewer},
           subscribers' \in Seq(Subscribers), closed' \subseteq Subscribers,
           chan' \in [Subscribers -> Seq(Events)],
           \A s \in Subscribers : Len(chan'[s]) <= Size(s),
           log' \in Seq(Events), seen' \in Seq(Events),
           vpc' \in {"away", "joining", "joined", "live", "leaving", "gone"},
           replayed' \in Nat, skipped' \in 0..replayed', early' \in BOOLEAN
    PROVE  Control'
<1>1. TypeOK'
  BY DEF Control, TypeOK
<1>2. Places' /\ Sending'
  BY DEF Control, Places, Sending
<1> QED
  BY <1>1, <1>2 DEF Control

\* The same where the list of subscribers stays too.
LEMMA SameLists ==
    ASSUME Control, UNCHANGED <<pc, sending, left, subscribers, closed>>,
           vpc' \in {"joined", "live", "leaving"} <=>
               vpc \in {"joined", "live", "leaving"},
           viewer \in closed => vpc' = "gone"
    PROVE  Lists'
BY DEF Control, Lists, Owes

\* A receive leaves room.
LEMMA ReceivedFacts ==
    ASSUME Control, NEW s \in Subscribers, chan[s] # <<>>,
           chan' = [chan EXCEPT ![s] = Tail(chan[s])]
    PROVE  /\ chan' \in [Subscribers -> Seq(Events)]
           /\ \A t \in Subscribers : Len(chan'[t]) <= Size(t)
           /\ chan'[s] = Tail(chan[s])
           /\ \A t \in Subscribers \ {s} : chan'[t] = chan[t]
           /\ Head(chan[s]) \in Events
<1> USE ControlFacts
<1>1. /\ Tail(chan[s]) \in Seq(Events) /\ Len(chan[s]) \in Nat
      /\ Len(Tail(chan[s])) = Len(chan[s]) - 1 /\ Head(chan[s]) \in Events
  BY TailFacts
<1>2. \A t \in Subscribers : Len(chan[t]) <= Size(t) /\ Size(t) \in Nat
  BY DEF Control, TypeOK, Size
<1> QED
  BY <1>1, <1>2

LEMMA CaptureControl ==
    ASSUME Control, Capture
    PROVE  Control'
<1> USE ControlFacts
<1>1. /\ chan[capture] # <<>>
      /\ chan' = [chan EXCEPT ![capture] = Tail(chan[capture])]
      /\ log' \in {log, Append(log, Head(chan[capture]))}
      /\ UNCHANGED <<after, quiet, pc, sending, left, subscribers, pending,
                     closed, dropped, vpc, replayed, skipped, seen, early,
                     published>>
  BY DEF Capture, stream
<1>2. /\ chan' \in [Subscribers -> Seq(Events)]
      /\ \A t \in Subscribers : Len(chan'[t]) <= Size(t)
      /\ Head(chan[capture]) \in Events
  BY <1>1, ReceivedFacts
<1>3. log' \in Seq(Events)
  <2>1. Append(log, Head(chan[capture])) \in Seq(Events)
    BY <1>2, AppendFacts
  <2> QED
    BY <1>1, <2>1
<1>4. Lists'
  BY <1>1, SameLists DEF Control, Lists
<1> QED
  BY <1>1, <1>2, <1>3, <1>4, OthersControl DEF Control, TypeOK, Fresh

LEMMA ViewerControl ==
    ASSUME Control,
           Connect \/ Replay \/ Receive \/ ClientGone
    PROVE  Control'
<1> USE ControlFacts
<1>1. /\ UNCHANGED <<after, quiet, pc, sending, left, subscribers, closed,
                     dropped, log, early, published>>
      /\ pending' \in {pending, pending \cup {viewer}}
      /\ vpc' \in {vpc, "joining", "live", "leaving"}
      /\ vpc' \in {"joined", "live", "leaving"} <=>
             vpc \in {"joined", "live", "leaving"}
      /\ vpc # "gone"
  BY DEF Connect, Replay, Receive, ClientGone, Leave
<1>2. /\ chan' \in [Subscribers -> Seq(Events)]
      /\ \A t \in Subscribers : Len(chan'[t]) <= Size(t)
  <2>1. CASE Receive
    <3>1. chan[viewer] # <<>> /\ chan' = [chan EXCEPT ![viewer] = Tail(chan[viewer])]
      BY <2>1 DEF Receive
    <3> QED
      BY <3>1, ReceivedFacts
  <2>2. CASE UNCHANGED chan
    BY <2>2 DEF Control, TypeOK
  <2> QED
    BY <2>1, <2>2 DEF Connect, Replay, Receive, ClientGone
<1>3. seen' \in Seq(Events) /\ replayed' \in Nat /\ skipped' \in 0..replayed'
  <2>0. replayed \in Nat /\ skipped \in 0..replayed
    BY DEF Control, TypeOK
  <2>1. CASE Replay
    <3>1. PICK n \in 0..Len(log) : seen' = SubSeq(log, 1, n) /\ replayed' = n
      BY <2>1 DEF Replay
    <3>2. skipped' = 0
      BY <2>1 DEF Replay, Control, Fresh
    <3>3. SubSeq(log, 1, n) \in Seq(Events)
      BY <3>1
    <3> QED
      BY <3>1, <3>2, <3>3
  <2>2. CASE Receive
    <3>1. Head(chan[viewer]) \in Events /\ replayed' = replayed
      BY <2>2, TailFacts DEF Receive
    <3>2. \/ skipped' = skipped
          \/ skipped < replayed /\ skipped' = skipped + 1
      BY <2>2 DEF Receive, Skipping
    <3>3. seen' \in {seen, Append(seen, Head(chan[viewer]))}
      BY <2>2 DEF Receive
    <3>4. Append(seen, Head(chan[viewer])) \in Seq(Events)
      BY <3>1, AppendFacts
    <3>5. skipped' \in 0..replayed
      BY <2>0, <3>2
    <3> QED
      BY <2>0, <3>1, <3>3, <3>4, <3>5
  <2>3. CASE Connect \/ ClientGone
    BY <2>0, <2>3 DEF Connect, ClientGone
  <2> QED
    BY <2>1, <2>2, <2>3
<1>4. viewer \notin closed
  BY <1>1 DEF Control, Lists
<1>5. Lists'
  BY <1>1, <1>4, SameLists
<1>6. Fresh'
  BY DEF Connect, Replay, Receive, ClientGone, Leave, Control, Fresh
<1> QED
  BY <1>1, <1>2, <1>3, <1>5, <1>6, OthersControl DEF Control, TypeOK

LEMMA SubscribeControl ==
    ASSUME Control, Subscribe
    PROVE  Control'
<1> USE ControlFacts
<1>1. /\ vpc = "joining" /\ vpc' = "joined"
      /\ subscribers' = Append(subscribers, viewer)
      /\ pending' = pending \ {viewer} /\ early' = (published = <<>>)
      /\ UNCHANGED <<after, quiet, pc, sending, left, chan, closed, dropped,
                     log, replayed, skipped, seen, published>>
  BY DEF Subscribe
<1>2. \A p \in Publishers, s \in Subscribers : ~Owes(p, s)
  BY LockedFacts DEF Subscribe
<1>3. Once(subscribers) /\ ~In(viewer, subscribers)
  BY <1>1 DEF Control, Lists
<1>4. /\ subscribers' \in Seq(Subscribers) /\ Once(subscribers')
      /\ \A s : In(s, subscribers') <=> In(s, subscribers) \/ s = viewer
  BY <1>1, <1>3, AppendIn, AppendFacts
<1>5. Lists'
  <2>1. \A p \in Publishers, s \in Subscribers : ~Owes(p, s)'
    BY <1>1, <1>2 DEF Owes
  <2>2. viewer \notin closed
    BY <1>1 DEF Control, Lists
  <2> QED
    BY <1>1, <1>4, <2>1, <2>2 DEF Control, Lists
<1>6. Fresh'
  BY <1>1 DEF Control, Fresh
<1> QED
  BY <1>1, <1>4, <1>5, <1>6, OthersControl DEF Control, TypeOK

LEMMA UnsubscribeViewerControl ==
    ASSUME Control, UnsubscribeViewer
    PROVE  Control'
<1> USE ControlFacts
<1>1. /\ vpc = "leaving" /\ vpc' = "gone"
      /\ chan' = [chan EXCEPT ![viewer] = <<>>]
      /\ pending' = pending \ {viewer}
      /\ UNCHANGED <<after, quiet, pc, sending, left, dropped, log, replayed,
                     skipped, seen, published, early>>
  BY DEF UnsubscribeViewer
<1>2. \A p \in Publishers, s \in Subscribers : ~Owes(p, s)
  BY LockedFacts DEF UnsubscribeViewer
<1>3. /\ subscribers' \in Seq(Subscribers) /\ Once(subscribers')
      /\ \A t : In(t, subscribers') <=> In(t, subscribers) /\ t # viewer
      /\ closed' = closed \cup {viewer}
  BY UnsubscribeFacts DEF UnsubscribeViewer
<1>4. /\ chan' \in [Subscribers -> Seq(Events)]
      /\ \A t \in Subscribers : Len(chan'[t]) <= Size(t)
  <2>1. \A t \in Subscribers : Len(chan[t]) <= Size(t) /\ Size(t) \in Nat
    BY DEF Control, TypeOK, Size
  <2> QED
    BY <1>1, <2>1
<1>5. Lists'
  <2>1. \A p \in Publishers, s \in Subscribers : ~Owes(p, s)'
    BY <1>1, <1>2 DEF Owes
  <2> QED
    BY <1>1, <1>3, <2>1 DEF Control, Lists
<1>6. Fresh'
  BY <1>1 DEF Fresh
<1> QED
  BY <1>1, <1>3, <1>4, <1>5, <1>6, OthersControl DEF Control, TypeOK

LEMMA NextControl == Control /\ [Next]_vars => Control'
<1> SUFFICES ASSUME Control, [Next]_vars PROVE Control'
  OBVIOUS
<1>1. CASE Publish
  BY <1>1, RLockControl, DeliverControl DEF Publish
<1>2. CASE FailEarly
  BY <1>2, ExecutionControl
<1>3. CASE Execution
  BY <1>3, ExecutionControl, UnsubscribeCaptureControl DEF Execution
<1>4. CASE Capture
  BY <1>4, CaptureControl
<1>5. CASE Viewer
  BY <1>5, ViewerControl, SubscribeControl, UnsubscribeViewerControl DEF Viewer
<1>6. CASE Connect \/ ClientGone
  BY <1>6, ViewerControl
<1>7. CASE UNCHANGED vars
  <2> USE <1>7 DEF vars, bus, stream
  <2>1. TypeOK'
    BY DEF Control, TypeOK
  <2>2. Places' /\ Sending' /\ Fresh'
    BY DEF Control, Places, Sending, Fresh
  <2>3. Lists'
    BY DEF Control, Lists, Owes
  <2> QED
    BY <2>1, <2>2, <2>3 DEF Control
<1> QED
  BY <1>1, <1>2, <1>3, <1>4, <1>5, <1>6, <1>7 DEF Next, Finished

\* The inductive invariant of the bus: where each publisher is, whom it has
\* still to send to, who waits for b.mu and who is subscribed
\* (Publish, Subscribe, Unsubscribe).
THEOREM ControlHolds == Spec => []Control
<1>1. Init => Control
  BY InitControl
<1>2. Control /\ [Next]_vars => Control'
  BY NextControl
<1> QED
  BY <1>1, <1>2, PTL DEF Spec

\* TypeOK: the bus, the store and the viewer keep their shape; no channel
\* overflows its buffer and the filter of handleSSE passes over no more
\* events than replayStoredEvents sent.
THEOREM TypeCorrect == Spec => []TypeOK
<1>1. Control => TypeOK
  BY DEF Control
<1> QED
  BY <1>1, ControlHolds, PTL

\* NoSendOnClosed: Unsubscribe closes a channel only while no Publish has it
\* in its list, so Publish never sends on a closed one.
THEOREM NoSendOnClosedHolds == Spec => []NoSendOnClosed
<1>1. ASSUME Control PROVE NoSendOnClosed
  <2> USE ControlFacts
  <2> SUFFICES ASSUME NEW p \in sending, NEW i \in DOMAIN left[p]
               PROVE  left[p][i] \notin closed
    BY DEF NoSendOnClosed
  <2>1. left[p][i] \in Subscribers
    BY <1>1, DomainOf
  <2>2. In(left[p][i], subscribers)
    BY <1>1, <2>1 DEF Control, Lists, Owes, In
  <2>3. \A s \in Subscribers : s \in closed => ~In(s, subscribers)
    BY <1>1 DEF Control, Lists
  <2> QED
    BY <2>1, <2>2, <2>3
<1> QED
  BY <1>1, ControlHolds, PTL

-----------------------------------------------------------------------------
(* Published, delivered, stored *)

\* pc and sending move only forward: what was reached stays so.
LEMMA ReachedStays ==
    ASSUME Control, [Next]_vars, NEW e, Reached(e)
    PROVE  Reached(e)'
<1> USE ControlFacts
<1>1. CASE UNCHANGED pc /\ sending \subseteq sending'
  BY <1>1 DEF Reached
<1>2. ASSUME engine \notin sending, UNCHANGED sending,
             NEW at \in PcValues, pc' = [pc EXCEPT ![engine] = at],
             pc[engine] # "start" \/ at = "returned",
             at # "start",
             pc[engine] \in AfterComplete => at \in AfterComplete,
             at # "state"
      PROVE  Reached(e)'
  <2>1. pc'[engine] = at /\ \A q \in Steps : pc'[q] = pc[q]
    BY <1>2
  <2> QED
    BY <1>2, <2>1 DEF Reached, AfterComplete
<1>3. ASSUME NEW p \in sending, Return(p)
      PROVE  Reached(e)'
  <2>1. /\ pc' \in [Publishers -> PcValues] /\ sending' = sending \ {p}
        /\ \A q \in Publishers \ {p} : pc'[q] = pc[q]
    BY <1>3, ReturnFacts
  <2>2. CASE p = engine
    <3>1. /\ \A q \in Steps : pc'[q] = pc[q] /\ (q \in sending' <=> q \in sending)
          /\ \/ pc[engine] = "start"    /\ pc'[engine] = "running"
             \/ pc[engine] = "complete" /\ pc'[engine] = "state"
             \/ pc[engine] = "state"    /\ pc'[engine] = "returned"
             \/ pc[engine] = "ensure"   /\ pc'[engine] = "over"
      BY <1>3, <2>1, <2>2, ReturnFacts
    <3> QED
      BY <2>1, <3>1 DEF Reached, AfterComplete, Past
  <2>3. CASE p = other
    BY <2>1, <2>3 DEF Reached
  <2>4. CASE p \in Steps
    <3>1. /\ \/ pc[p] = "begin" /\ pc'[p] \in {"act", "over"}
             \/ pc[p] = "act"   /\ pc'[p] = "over"
          /\ pc'[engine] = pc[engine] /\ (engine \in sending' <=> engine \in sending)
      BY <1>3, <2>1, <2>4, ReturnFacts
    <3>2. \A q \in Steps \ {p} : pc'[q] = pc[q] /\ (q \in sending' <=> q \in sending)
      BY <2>1, <2>4
    <3>3. CASE e.by = p
      BY <2>4, <3>1, <3>3 DEF Reached
    <3>4. CASE e.by # p
      BY <2>4, <3>1, <3>2, <3>4 DEF Reached
    <3> QED
      BY <3>3, <3>4
  <2> QED
    BY <1>3, <2>2, <2>3, <2>4
<1>4. CASE Publish
  <2>1. PICK p \in Publishers : RLock(p) \/ Deliver(p) \/ DeliverToNobody(p)
    BY <1>4 DEF Publish
  <2>2. CASE RLock(p)
    BY <1>1, <2>2 DEF RLock
  <2>3. CASE Deliver(p) \/ DeliverToNobody(p)
    BY <1>1, <1>3, <2>3 DEF Deliver, DeliverToNobody
  <2> QED
    BY <2>1, <2>2, <2>3
<1>5. CASE FailEarly
  <2> HIDE DEF PcValues
  <2>1. "returned" \in PcValues
    BY DEF PcValues
  <2> QED
    BY <1>2, <1>5, <2>1 DEF FailEarly, AfterComplete, Past, bus
<1>6. CASE Execution
  <2>0. engine \in sending => pc[engine] \in {"start", "complete", "state", "ensure"}
    BY DEF Control, Sending
  <2>1. PICK at \in {"complete", "returned", "stopping", "draining", "drained",
                     "over", "ensure"} : pc' = [pc EXCEPT ![engine] = at]
    BY <1>6 DEF Execution, ExecuteReturns, StopCapture, UnsubscribeCapture,
                Drain, Ensure
  <2>2. /\ UNCHANGED sending
        /\ pc[engine] \in {"running", "returned", "stopping", "draining", "drained"}
        /\ at = "complete" => pc[engine] = "running"
    BY <1>6, <2>1 DEF Execution, ExecuteReturns, StopCapture, UnsubscribeCapture,
                      Drain, Ensure, bus
  <2>3. at \in PcValues /\ at # "start" /\ at # "state"
    BY <2>1 DEF PcValues
  <2>4. pc[engine] \in AfterComplete => at \in AfterComplete
    BY <2>1, <2>2 DEF AfterComplete, Past
  <2> QED
    BY <1>2, <2>0, <2>1, <2>2, <2>3, <2>4
<1>7. CASE Capture \/ Viewer \/ Connect \/ ClientGone \/ UNCHANGED vars
  <2>1. UNCHANGED <<pc, sending>>
    BY <1>7 DEF Capture, Viewer, Connect, ClientGone, Subscribe, Replay,
                Receive, UnsubscribeViewer, vars, bus
  <2> QED
    BY <1>1, <2>1
<1> QED
  BY <1>4, <1>5, <1>6, <1>7 DEF Next, Finished

\* How a step moves events between the four places.
NothingMoves ==
    /\ UNCHANGED <<log, published>> /\ chan'[capture] = Cap /\ Owed' = Owed

Announced(e) ==
    /\ ~In(e, published) /\ published' = Append(published, e)
    /\ Owed' = Owed \cup {e}
    /\ log' = log /\ chan'[capture] = Cap
    /\ Reached(e)'
    /\ e.by \in Steps => pc[engine] = "running"

Delivered(e) ==
    /\ Own(e) => e \in Owed
    /\ chan'[capture] = Append(Cap, e) /\ Owed' = Owed \ {e}
    /\ UNCHANGED <<log, published>>
    /\ Own(e) /\ e.type = "workflow.completed" => \A x \in Owed : x.by \notin Steps
    /\ pc[engine] \notin Past

TakenUp(e) ==
    /\ Cap # <<>> /\ e = Head(Cap) /\ chan'[capture] = Tail(Cap)
    /\ log' = IF Own(e) THEN Append(log, e) ELSE log
    /\ published' = published /\ Owed' = Owed

Ensured(e) ==
    /\ Cap = <<>> /\ Owed = {} /\ ~In(e, published)
    /\ published' = Append(published, e) /\ log' = Append(log, e)
    /\ chan'[capture] = Cap /\ Owed' = {}
    /\ Reached(e)' /\ e.by = engine

LEMMA OwedSame ==
    ASSUME Control, Debtors' = Debtors, \A p \in Debtors : pc'[p] = pc[p]
    PROVE  Owed' = Owed
BY DEF Owed, Event, Type

\* An engine that is not inside Publish owes nothing, whatever it does.
LEMMA EngineOwes ==
    ASSUME Control, UNCHANGED <<sending, left>>, engine \notin sending,
           \A p \in Publishers \ {engine} : pc'[p] = pc[p]
    PROVE  Owed' = Owed
<1>1. Debtors' = Debtors
  BY DEF Debtors, Owes
<1>2. \A p \in Debtors : pc'[p] = pc[p]
  BY ControlFacts DEF Debtors
<1> QED
  BY <1>1, <1>2, OwedSame

LEMMA RLockMoves ==
    ASSUME Stored, NEW p \in Publishers, RLock(p)
    PROVE  NothingMoves \/ \E e \in Events : Announced(e)
<1> Control
  BY DEF Stored
<1> USE ControlFacts
<1>1. /\ p \notin sending /\ sending' = sending \cup {p}
      /\ \A q \in Publishers \ {p} : left'[q] = left[q]
      /\ left'[p] = subscribers
      /\ UNCHANGED <<pc, log, chan>>
      /\ published' = IF p = other \/ pc[p] = "ensure" THEN published
                      ELSE Append(published, Event(p))
  BY DEF RLock
<1>2. Debtors' \ {p} = Debtors /\ p \notin Debtors
  BY <1>1 DEF Debtors, Owes
<1>3. CASE p = other \/ pc[p] = "ensure"
  <2>1. p = other \/ ~In(capture, subscribers)
    BY <1>1, <1>3 DEF RLock, Publishes, Control, Lists, Past
  <2>2. p \notin Debtors'
    BY <1>1, <2>1 DEF Debtors, Owes
  <2>3. Debtors' = Debtors
    BY <1>2, <2>2
  <2>4. \A q \in Debtors : pc'[q] = pc[q]
    BY <1>1
  <2>5. Owed' = Owed
    BY <2>3, <2>4, OwedSame
  <2> QED
    BY <1>1, <1>3, <2>5 DEF NothingMoves, Cap
<1>4. CASE p # other /\ pc[p] # "ensure"
  <2>1. pc[p] \in Publishing
    BY DEF RLock, Publishes, Publishing
  <2>0. PICK e \in Events : e = Event(p)
    BY <2>1, EventFacts
  <2>2. e.by = p /\ e.type = Type(p)
    BY <2>0, <2>1, EventFacts
  <2>3. \/ p = engine /\ pc[p] \in {"start", "complete", "state"}
        \/ /\ p \in Steps /\ pc[p] \in {"begin", "act"} /\ pc[engine] = "running"
    BY <1>4 DEF RLock, Publishes, Control, Sending
  <2>4. In(capture, subscribers)
    BY <2>3 DEF Control, Lists, Past
  <2>5. Debtors' = Debtors \cup {p}
    BY <1>1, <1>2, <1>4, <2>4 DEF Debtors, Owes
  <2>6. Owed' = {Event(q)' : q \in Debtors'}
    BY DEF Owed
  <2>7. \A q \in Publishers : Event(q)' = Event(q)
    BY <1>1 DEF Event, Type
  <2>8. Debtors \subseteq Publishers
    BY DEF Debtors
  <2>9. Owed' = Owed \cup {e}
    <3>1. Owed' = {Event(q)' : q \in Debtors \cup {p}}
      BY <2>5, <2>6
    <3>2. \A q \in Debtors \cup {p} : Event(q)' = Event(q)
      BY <2>7, <2>8
    <3>3. Owed' = {Event(q) : q \in Debtors \cup {p}}
      BY <3>1, <3>2
    <3> QED
      BY <2>0, <3>3 DEF Owed
  <2>10. ~Reached(e) /\ Reached(e)'
    <3>1. CASE p = engine
      <4>1. /\ e.by = engine /\ engine \notin sending /\ engine \in sending'
            /\ pc' = pc
        BY <1>1, <2>2, <3>1
      <4>2. \/ pc[engine] = "start" /\ e.type = "workflow.started"
            \/ pc[engine] = "complete" /\ e.type = "workflow.completed"
            \/ pc[engine] = "state" /\ e.type = "execution.state"
        BY <2>2, <2>3, <3>1 DEF Type
      <4>3. ~Reached(e)
        BY <4>1, <4>2 DEF Reached, AfterComplete, Past
      <4>4. pc'[engine] = pc[engine] /\ engine \notin Steps /\ engine # other
        BY <4>1
      <4>5. Reached(e)'
        BY <4>1, <4>2, <4>4 DEF Reached, EngineTypes
      <4> QED
        BY <4>3, <4>5
    <3>2. CASE p \in Steps
      <4>1. /\ e.by = p /\ p \notin sending /\ p \in sending' /\ pc' = pc
            /\ p # engine /\ p # other
        BY <1>1, <2>2, <3>2
      <4>2. \/ pc[p] = "begin" /\ e.type \in {"step.started", "step.skipped"}
            \/ pc[p] = "act" /\ e.type = "step.completed"
        BY <2>2, <2>3, <3>2 DEF Type
      <4>3. ~Reached(e)
        BY <3>2, <4>1, <4>2 DEF Reached
      <4>4. pc'[p] = pc[p]
        BY <4>1
      <4>5. Reached(e)'
        BY <3>2, <4>1, <4>2, <4>4 DEF Reached
      <4> QED
        BY <4>3, <4>5
    <3> QED
      BY <2>3, <3>1, <3>2
  <2>11. ~In(e, published)
    BY <2>10 DEF Stored, PublishedOnce
  <2>12. Announced(e)
    BY <1>1, <1>4, <2>0, <2>2, <2>3, <2>9, <2>10, <2>11 DEF Announced, Cap
  <2> QED
    BY <2>2, <2>12
<1> QED
  BY <1>3, <1>4

LEMMA DeliverMoves ==
    ASSUME Stored, NEW p \in Publishers, Deliver(p) \/ DeliverToNobody(p)
    PROVE  NothingMoves \/ \E e \in Events : Delivered(e)
<1> Control
  BY DEF Stored
<1> USE ControlFacts
<1>0. p \in sending
  BY DEF Deliver, DeliverToNobody
<1>1. /\ UNCHANGED <<log, published>>
      /\ \A q \in Publishers \ {p} : left'[q] = left[q]
      /\ \A s \in Subscribers : Owes(p, s)' <=>
            Owes(p, s) /\ ~(Deliver(p) /\ s = Head(left[p]))
      /\ (Return(p) /\ left'[p] = <<>>) \/ UNCHANGED <<sending, pc>>
  BY <1>0, DeliverFacts
<1>2. /\ \A q \in Publishers \ {p} :
             pc'[q] = pc[q] /\ (q \in sending' <=> q \in sending)
      /\ Owes(p, capture)' => UNCHANGED <<sending, pc>>
  <2>1. CASE Return(p) /\ left'[p] = <<>>
    BY <1>0, <2>1, ReturnFacts DEF Owes, In
  <2>2. CASE UNCHANGED <<sending, pc>>
    BY <2>2
  <2> QED
    BY <1>1, <2>1, <2>2
<1>3. sending' \subseteq sending
  BY <1>1, <1>0, ReturnFacts
<1>4. Debtors' \ {p} = Debtors \ {p}
  BY <1>1, <1>2, <1>3 DEF Debtors, Owes
<1>5. p \in Debtors' <=> p # other /\ Owes(p, capture)'
  BY <1>0, <1>2 DEF Debtors
<1>6. p \in Debtors <=> p # other /\ Owes(p, capture)
  BY <1>0 DEF Debtors
<1>7. CASE Deliver(p) /\ Head(left[p]) = capture
  <2> DEFINE e == Event(p)
  <2>1. e \in Events /\ e.by = p /\ e.type = Type(p)
    BY <1>0, EventFacts
  <2>2. /\ left[p] # <<>> /\ chan' = [chan EXCEPT ![capture] = Append(Cap, e)]
    BY <1>7 DEF Deliver, Blocking, Cap
  <2>3. chan'[capture] = Append(Cap, e)
    BY <2>2
  <2>4. Owes(p, capture) /\ ~Owes(p, capture)'
    <3>1. In(Head(left[p]), left[p])
      BY <2>2, TailIn
    <3> QED
      BY <1>1, <1>7, <3>1 DEF Owes
  <2>5. Debtors' = Debtors \ {p}
    BY <1>4, <1>5, <2>4
  <2>6. \A q \in Debtors : Event(q).by = q
    BY DEF Event
  <2>7. \A q \in Debtors \ {p} : Event(q)' = Event(q)
    BY <1>2 DEF Debtors, Event, Type
  <2>8. Owed' = Owed \ {e}
    <3> HIDE DEF e
    <3>1. Owed' = {Event(q)' : q \in Debtors \ {p}}
      BY <2>5 DEF Owed
    <3>2. Owed' = {Event(q) : q \in Debtors \ {p}}
      BY <2>7, <3>1
    <3>3. \A q \in Debtors : Event(q) = e <=> q = p
      BY <2>1, <2>6 DEF e
    <3>4. \A q \in Debtors \ {p} : Event(q) \in Owed \ {e}
      BY <3>3 DEF Owed
    <3>5. \A x \in Owed \ {e} : \E q \in Debtors \ {p} : x = Event(q)
      BY <3>3 DEF Owed
    <3> QED
      BY <3>2, <3>4, <3>5
  <2>9. Own(e) => e \in Owed
    BY <1>6, <2>1, <2>4 DEF Own, Owed
  <2>10. pc[engine] \notin Past
    BY <2>4 DEF Control, Lists
  <2>11. Own(e) /\ e.type = "workflow.completed" => \A x \in Owed : x.by \notin Steps
    <3> SUFFICES ASSUME Own(e), e.type = "workflow.completed",
                        NEW q \in Debtors, q \in Steps
                 PROVE  FALSE
      BY <2>6 DEF Owed
    <3>1. pc[engine] = "running" /\ q \in sending
      BY DEF Control, Sending, Debtors
    <3>2. pc[p] \in {"complete", "ensure"}
      <4>1. Type(p) = "workflow.completed" /\ pc[p] \in Publishing
        BY <1>0, <2>1
      <4> QED
        BY <4>1 DEF Type, Publishing
    <3>3. p = engine
      BY <3>2 DEF Control, Places
    <3> QED
      BY <3>1, <3>2, <3>3
  <2> HIDE DEF e
  <2>12. Delivered(e)
    BY <1>1, <2>3, <2>8, <2>9, <2>10, <2>11 DEF Delivered
  <2> QED
    BY <2>1, <2>12
<1>8. CASE ~(Deliver(p) /\ Head(left[p]) = capture)
  <2>1. Owes(p, capture)' <=> Owes(p, capture)
    <3>1. Owes(p, capture)' <=>
             Owes(p, capture) /\ ~(Deliver(p) /\ capture = Head(left[p]))
      BY <1>1
    <3> QED
      BY <1>8, <3>1
  <2>2. Debtors' = Debtors
    <3>1. p \in Debtors' <=> p \in Debtors
      BY <1>5, <1>6, <2>1
    <3>2. \A q : q \in Debtors' \ {p} <=> q \in Debtors \ {p}
      BY <1>4
    <3>3. \A q : q \in Debtors' <=> q \in Debtors
      BY <3>1, <3>2
    <3> QED
      BY <3>3
  <2>3. \A q \in Debtors : pc'[q] = pc[q]
    BY <1>2, <2>1 DEF Debtors
  <2>4. chan'[capture] = Cap
    <3>1. CASE Deliver(p)
      <4>1. PICK c : chan' = [chan EXCEPT ![Head(left[p])] = c]
        BY <3>1 DEF Deliver
      <4> QED
        BY <1>8, <3>1, <4>1 DEF Cap
    <3>2. CASE DeliverToNobody(p)
      BY <3>2 DEF DeliverToNobody, Cap
    <3> QED
      BY <3>1, <3>2
  <2> QED
    BY <1>1, <2>2, <2>3, <2>4, OwedSame DEF NothingMoves
<1> QED
  BY <1>7, <1>8

\* Only the engine's own workflow.completed can be in the log.
LEMMA CompletedFacts ==
    ASSUME Stored
    PROVE  \A e, f : /\ In(e, published) /\ e.type = "workflow.completed"
                     /\ In(f, published) /\ f.type = "workflow.completed"
                     => e.by = engine /\ e = f
<1> SUFFICES ASSUME NEW e, In(e, published), e.type = "workflow.completed",
                    NEW f, In(f, published), f.type = "workflow.completed"
             PROVE  e.by = engine /\ e = f
  OBVIOUS
<1> USE ControlFacts
<1>1. Control /\ Reached(e) /\ Reached(f)
  BY DEF Stored, PublishedOnce
<1>2. e \in Events /\ f \in Events
  BY <1>1, DomainOf DEF In
<1>3. e.by = engine /\ f.by = engine
  BY <1>1, <1>2 DEF Reached, Events
<1> QED
  BY <1>2, <1>3 DEF Events

LEMMA CaptureMoves ==
    ASSUME Stored, Capture
    PROVE  \E e \in Events : TakenUp(e)
<1> Control
  BY DEF Stored
<1> USE ControlFacts
<1>1. PICK e \in Events : e = Head(Cap)
  BY TailFacts DEF Capture, Cap
<1>2. /\ Cap # <<>> /\ chan'[capture] = Tail(Cap)
      /\ UNCHANGED <<pc, sending, left, published>>
      /\ log' = IF \/ e.by = other
                   \/ e.type = "workflow.completed" /\ Completed(log)
                THEN log ELSE Append(log, e)
  BY <1>1 DEF Capture, Cap
<1>3. Owed' = Owed
  BY <1>2, OwedSame DEF Debtors, Owes
<1>4. In(e, Cap)
  BY <1>1, <1>2, TailIn DEF Cap
<1>5. e.type = "workflow.completed" /\ Own(e) => ~Completed(log)
  <2> SUFFICES ASSUME e.type = "workflow.completed", Own(e), Completed(log)
               PROVE  FALSE
    OBVIOUS
  <2>1. PICK i \in DOMAIN log : log[i].type = "workflow.completed"
    BY DEF Completed
  <2>2. In(log[i], log)
    BY DEF In
  <2>3. In(log[i], published) /\ In(e, published) /\ ~In(e, log)
    BY <1>4, <2>2 DEF Stored, Captured, OnePlace
  <2> QED
    BY <2>1, <2>2, <2>3, CompletedFacts
<1>6. log' = IF Own(e) THEN Append(log, e) ELSE log
  BY <1>2, <1>5 DEF Own
<1> QED
  BY <1>1, <1>2, <1>3, <1>6 DEF TakenUp

\* Nobody inside Publish still has the capture in its list once it is off.
LEMMA PastOwesNothing ==
    ASSUME Control, pc[engine] \in Past
    PROVE  Owed = {}
<1>1. Debtors = {}
  BY ControlFacts DEF Control, Lists, Debtors
<1> QED
  BY <1>1 DEF Owed

LEMMA EngineMovesNothing ==
    ASSUME Control,
           \/ FailEarly \/ ExecuteReturns \/ StopCapture \/ UnsubscribeCapture
           \/ Drain
    PROVE  NothingMoves
<1> USE ControlFacts
<1>1. engine \notin sending
  BY DEF Control, Sending, FailEarly, ExecuteReturns, StopCapture,
         UnsubscribeCapture, Drain
<1>2. \A p \in Publishers \ {engine} : pc'[p] = pc[p]
  BY DEF FailEarly, ExecuteReturns, StopCapture, UnsubscribeCapture, Drain
<1>3. UNCHANGED <<sending, left, log, published, chan>>
  BY DEF FailEarly, ExecuteReturns, StopCapture, UnsubscribeCapture, Drain, bus
<1>4. Owed' = Owed
  BY <1>1, <1>2, <1>3, EngineOwes
<1> QED
  BY <1>3, <1>4 DEF NothingMoves, Cap

LEMMA EnsureMoves ==
    ASSUME Stored, Ensure
    PROVE  NothingMoves \/ \E e \in Events : Ensured(e)
<1> Control
  BY DEF Stored
<1> USE ControlFacts
<1>1. /\ pc[engine] = "drained" /\ UNCHANGED <<sending, left, chan>>
      /\ \A p \in Publishers \ {engine} : pc'[p] = pc[p]
  BY DEF Ensure, bus
<1>2. engine \notin sending
  BY <1>1 DEF Control, Sending
<1>3. Owed' = Owed /\ Owed = {}
  BY <1>1, <1>2, EngineOwes, PastOwesNothing DEF Past
<1>4. Cap = <<>>
  BY <1>1 DEF Stored, Drained
<1>5. CASE quiet \/ Completed(log)
  BY <1>1, <1>3, <1>5 DEF Ensure, NothingMoves, Cap
<1>6. CASE ~(quiet \/ Completed(log))
  <2>1. PICK e \in Events : e = [by |-> engine, type |-> "workflow.completed"]
    BY DEF Events, Types
  <2>2. /\ pc'[engine] = "ensure" /\ log' = Append(log, e)
        /\ published' = Append(published, e)
    BY <1>6, <2>1 DEF Ensure
  <2>3. ~In(e, published)
    <3> SUFFICES ASSUME In(e, published) PROVE FALSE
      OBVIOUS
    <3>1. ~In(e, Cap)
      BY <1>4 DEF In
    <3>2. In(e, log)
      BY <1>3, <3>1 DEF Stored, Captured, OnePlace
    <3> QED
      BY <1>6, <2>1, <3>2 DEF Completed, In
  <2>4. Reached(e)'
    BY <2>1, <2>2 DEF Reached, EngineTypes, AfterComplete, Past
  <2> QED
    BY <1>1, <1>3, <1>4, <2>1, <2>2, <2>3, <2>4 DEF Ensured, Cap
<1> QED
  BY <1>5, <1>6

LEMMA ViewerMovesNothing ==
    ASSUME Control, Viewer \/ Connect \/ ClientGone \/ UNCHANGED vars
    PROVE  NothingMoves
<1> USE ControlFacts
<1>1. UNCHANGED <<pc, sending, left, log, published>>
  BY DEF Viewer, Connect, ClientGone, Subscribe, Replay, Receive,
         UnsubscribeViewer, vars, bus
<1>2. chan'[capture] = Cap
  <2>1. CASE UNCHANGED chan
    BY <2>1 DEF Cap
  <2>2. CASE Receive \/ UnsubscribeViewer
    <3>1. PICK c : chan' = [chan EXCEPT ![viewer] = c]
      BY <2>2 DEF Receive, UnsubscribeViewer
    <3> QED
      BY <3>1 DEF Cap
  <2> QED
    BY <2>1, <2>2 DEF Viewer, Connect, ClientGone, Subscribe, Replay, vars, bus
<1>3. Owed' = Owed
  BY <1>1, OwedSame DEF Debtors, Owes
<1> QED
  BY <1>1, <1>2, <1>3 DEF NothingMoves

LEMMA Moves ==
    ASSUME Stored, [Next]_vars
    PROVE  \/ NothingMoves
           \/ \E e \in Events : \/ Announced(e) \/ Delivered(e)
                                \/ TakenUp(e) \/ Ensured(e)
<1>0. Control
  BY DEF Stored
<1>1. CASE Publish
  BY <1>1, RLockMoves, DeliverMoves DEF Publish
<1>2. CASE FailEarly
  BY <1>0, <1>2, EngineMovesNothing
<1>3. CASE Execution
  BY <1>0, <1>3, EngineMovesNothing, EnsureMoves DEF Execution
<1>4. CASE Capture
  BY <1>4, CaptureMoves
<1>5. CASE Viewer \/ Connect \/ ClientGone \/ UNCHANGED vars
  BY <1>0, <1>5, ViewerMovesNothing
<1> QED
  BY <1>1, <1>2, <1>3, <1>4, <1>5 DEF Next, Finished

LEMMA OnceOwnFacts ==
    ASSUME NEW S, NEW q \in Seq(S), OnceOwn(q)
    PROVE  /\ \A e \in S : (Own(e) /\ In(e, q)) \/ OnceOwn(Append(q, e))
           /\ q # <<>> => /\ OnceOwn(Tail(q))
                          /\ Own(Head(q)) => ~In(Head(q), Tail(q))
<1>1. DOMAIN q = 1..Len(q) /\ Len(q) \in Nat
  BY DomainOf
<1>2. ASSUME NEW e \in S, ~(Own(e) /\ In(e, q))
      PROVE  OnceOwn(Append(q, e))
  <2> DEFINE r == Append(q, e)
  <2>1. /\ DOMAIN r = 1..(Len(q) + 1) /\ r[Len(q) + 1] = e
        /\ \A i \in 1..Len(q) : r[i] = q[i]
    BY AppendFacts, DomainOf
  <2> HIDE DEF r
  <2> SUFFICES ASSUME NEW i \in DOMAIN r, NEW j \in DOMAIN r,
                      Own(r[i]), r[i] = r[j]
               PROVE  i = j
    BY DEF OnceOwn, r
  <2>2. CASE r[i] = e
    <3>1. \A k \in DOMAIN q : q[k] # e
      BY <1>2, <2>2 DEF In
    <3>2. \A k \in DOMAIN r : r[k] = e => k = Len(q) + 1
      BY <1>1, <2>1, <3>1
    <3> QED
      BY <2>2, <3>2
  <2>3. CASE r[i] # e
    <3>1. i \in DOMAIN q /\ j \in DOMAIN q /\ q[i] = r[i] /\ q[j] = r[j]
      BY <1>1, <2>1, <2>3
    <3> QED
      BY <3>1 DEF OnceOwn
  <2> QED
    BY <2>2, <2>3
<1>3. ASSUME q # <<>>
      PROVE  OnceOwn(Tail(q)) /\ (Own(Head(q)) => ~In(Head(q), Tail(q)))
  <2> DEFINE t == Tail(q)
  <2>1. /\ Head(q) = q[1] /\ DOMAIN t = 1..(Len(q) - 1) /\ Len(q) >= 1
        /\ \A i \in 1..(Len(q) - 1) : t[i] = q[i + 1]
    BY <1>1, <1>3, TailFacts, DomainOf
  <2> HIDE DEF t
  <2>2. \A i \in DOMAIN t : /\ i + 1 \in DOMAIN q /\ i + 1 # 1
                            /\ t[i] = q[i + 1] /\ i \in Nat
    BY <1>1, <2>1
  <2>3. OnceOwn(t)
    <3> SUFFICES ASSUME NEW i \in DOMAIN t, NEW j \in DOMAIN t,
                        Own(t[i]), t[i] = t[j]
                 PROVE  i = j
      BY DEF OnceOwn
    <3>1. i + 1 = j + 1
      BY <2>2 DEF OnceOwn
    <3> QED
      BY <2>2, <3>1
  <2>4. Own(Head(q)) => ~In(Head(q), t)
    <3> SUFFICES ASSUME Own(Head(q)), NEW i \in DOMAIN t, t[i] = Head(q)
                 PROVE  FALSE
      BY DEF In
    <3>1. 1 \in DOMAIN q /\ q[1] = Head(q)
      BY <1>1, <2>1
    <3> QED
      BY <2>2, <3>1 DEF OnceOwn
  <2> QED
    BY <2>3, <2>4 DEF t
<1> QED
  BY <1>2, <1>3

LEMMA InitStored == Init => Stored /\ LastOfAll
<1> SUFFICES ASSUME Init PROVE Stored /\ LastOfAll
  OBVIOUS
<1>1. Control
  BY InitControl
<1>2. /\ log = <<>> /\ published = <<>> /\ Cap = <<>> /\ sending = {}
      /\ pc[engine] = "start"
  BY <1>1, ControlFacts DEF Init, Cap
<1>3. /\ \A e : ~In(e, log) /\ ~In(e, Cap) /\ ~In(e, published)
      /\ Owed = {}
  BY <1>2 DEF In, Owed, Debtors
<1>4. Once(log) /\ Once(published) /\ OnceOwn(Cap)
  BY <1>2 DEF Once, OnceOwn
<1>5. DOMAIN log = {} /\ DOMAIN Cap = {}
  BY <1>2
<1> QED
  BY <1>1, <1>2, <1>3, <1>4, <1>5
     DEF Stored, PublishedOnce, Captured, OnePlace, Drained, LastOfAll,
         ClosesLog, ClosesRest

\* captureEvents has read its channel to the end once Drain let the engine on.
LEMMA EmptyLast ==
    ASSUME Stored, [Next]_vars, pc'[engine] \in {"drained", "ensure", "over"}
    PROVE  pc[engine] \in Past /\ Cap = <<>>
<1> Control
  BY DEF Stored
<1> USE ControlFacts
<1>1. CASE pc[engine] \in {"drained", "ensure", "over"}
  BY <1>1 DEF Stored, Drained, Past
<1>2. CASE pc[engine] \notin {"drained", "ensure", "over"}
  <2>1. ~UNCHANGED pc
    BY <1>2
  <2>2. CASE Publish
    <3>1. PICK p \in Publishers : Deliver(p) \/ DeliverToNobody(p)
      BY <2>1, <2>2 DEF Publish, RLock
    <3>2. p \in sending /\ Return(p)
      BY <2>1, <3>1 DEF Deliver, DeliverToNobody
    <3> QED
      BY <1>2, <3>2, ReturnFacts
  <2>3. CASE Execution \/ FailEarly
    <3>1. Drain
      BY <1>2, <2>3 DEF Execution, FailEarly, ExecuteReturns, StopCapture,
                        UnsubscribeCapture, Ensure
    <3> QED
      BY <3>1 DEF Drain, Past, Cap
  <2>4. CASE Capture \/ Viewer \/ Connect \/ ClientGone \/ UNCHANGED vars
    BY <2>1, <2>4 DEF Capture, Viewer, Connect, ClientGone, Subscribe, Replay,
                      Receive, UnsubscribeViewer, vars
  <2> QED
    BY <2>2, <2>3, <2>4 DEF Next, Finished
<1> QED
  BY <1>1, <1>2

\* An event begins its Publish, comes to the capture, is taken from there.
LEMMA AnnouncedPlace ==
    ASSUME NEW pub \in Seq(Events), NEW l, NEW c, NEW o, NEW e \in Events,
           OnePlace(pub, l, c, o), ~In(e, pub), Own(e)
    PROVE  OnePlace(Append(pub, e), l, c, o \cup {e})
<1>1. \A x : In(x, Append(pub, e)) <=> In(x, pub) \/ x = e
  BY AppendIn
<1> QED
  BY <1>1 DEF OnePlace

LEMMA DeliveredPlace ==
    ASSUME NEW pub, NEW l, NEW c \in Seq(Events), NEW o, NEW e \in Events,
           OnePlace(pub, l, c, o), Own(e) => e \in o, \A x : In(x, pub) => Own(x)
    PROVE  OnePlace(pub, l, Append(c, e), o \ {e})
<1>1. \A x : In(x, Append(c, e)) <=> In(x, c) \/ x = e
  BY AppendIn
<1>2. OnceOwn(Append(c, e))
  <2>1. ~(Own(e) /\ In(e, c))
    BY DEF OnePlace
  <2> QED
    BY <2>1, OnceOwnFacts DEF OnePlace
<1> QED
  BY <1>1, <1>2 DEF OnePlace

LEMMA TakenUpPlace ==
    ASSUME NEW pub, NEW l \in Seq(Events), NEW c \in Seq(Events), NEW o,
           OnePlace(pub, l, c, o), c # <<>>, \A x : In(x, pub) => Own(x)
    PROVE  OnePlace(pub, IF Own(Head(c)) THEN Append(l, Head(c)) ELSE l,
                    Tail(c), o)
<1> DEFINE t == Tail(c)
<1>1. PICK e \in Events : e = Head(c)
  BY TailFacts
<1>2. \A x : In(x, c) <=> x = e \/ In(x, t)
  BY <1>1, TailIn
<1>3. OnceOwn(t) /\ (Own(e) => ~In(e, t))
  BY <1>1, OnceOwnFacts DEF OnePlace
<1> HIDE DEF t
<1>4. CASE Own(e)
  <2>1. \A x : In(x, Append(l, e)) <=> In(x, l) \/ x = e
    BY AppendIn
  <2>2. ~In(e, l) /\ In(e, pub)
    BY <1>2, <1>4 DEF OnePlace
  <2>3. Once(Append(l, e))
    BY <2>2, AppendIn DEF OnePlace
  <2>4. OnePlace(pub, Append(l, e), t, o)
    BY <1>2, <1>3, <1>4, <2>1, <2>2, <2>3 DEF OnePlace
  <2> QED
    BY <1>1, <1>4, <2>4 DEF t
<1>5. CASE ~Own(e)
  <2>1. OnePlace(pub, l, t, o)
    BY <1>2, <1>3, <1>5 DEF OnePlace
  <2> QED
    BY <1>1, <1>5, <2>1 DEF t
<1> QED
  BY <1>4, <1>5

LEMMA EnsuredPlace ==
    ASSUME NEW pub \in Seq(Events), NEW l \in Seq(Events), NEW e \in Events,
           OnePlace(pub, l, <<>>, {}), ~In(e, pub)
    PROVE  OnePlace(Append(pub, e), Append(l, e), <<>>, {})
<1>1. /\ \A x : In(x, Append(pub, e)) <=> In(x, pub) \/ x = e
      /\ \A x : In(x, Append(l, e)) <=> In(x, l) \/ x = e
  BY AppendIn
<1>2. ~In(e, l)
  BY DEF OnePlace
<1>3. Once(Append(l, e))
  BY <1>2, AppendIn DEF OnePlace
<1>4. \A x : ~In(x, <<>>)
  BY DEF In
<1> QED
  BY <1>1, <1>3, <1>4 DEF OnePlace

LEMMA NextStored ==
    ASSUME Stored, [Next]_vars
    PROVE  Stored'
<1> Control
  BY DEF Stored
<1> USE ControlFacts
<1>1. Control'
  BY NextControl
<1>2. /\ \A x : In(x, published) => Reached(x)'
      /\ \A x : In(x, published) => Own(x)
  BY ReachedStays DEF Stored, PublishedOnce, Reached, Own
<1>3. log \in Seq(Events) /\ published \in Seq(Events) /\ Cap \in Seq(Events)
  BY DEF Cap
<1>4. Once(published) /\ OnePlace(published, log, Cap, Owed)
  BY DEF Stored, PublishedOnce, Captured
<1>5. Cap' = chan'[capture]
  BY DEF Cap
<1>6. PublishedOnce'
  <2>1. CASE UNCHANGED published
    BY <1>2, <1>4, <2>1 DEF PublishedOnce
  <2>2. ASSUME NEW e \in Events, published' = Append(published, e),
               ~In(e, published), Reached(e)'
        PROVE  PublishedOnce'
    <3>1. /\ Once(published')
          /\ \A x : In(x, published') => In(x, published) \/ x = e
      BY <1>3, <1>4, <2>2, AppendIn
    <3> QED
      BY <1>2, <2>2, <3>1 DEF PublishedOnce
  <2> QED
    BY <2>1, <2>2, Moves
       DEF NothingMoves, Announced, Delivered, TakenUp, Ensured
<1>7. Captured'
  <2>0. Captured' <=> OnePlace(published', log', Cap', Owed')
    BY DEF Captured
  <2>1. CASE NothingMoves
    BY <1>4, <1>5, <2>0, <2>1 DEF NothingMoves
  <2>2. ASSUME NEW e \in Events, Announced(e) PROVE Captured'
    <3>1. Own(e)
      BY <2>2 DEF Announced, Reached, Own
    <3> QED
      BY <1>3, <1>4, <1>5, <2>0, <2>2, <3>1, AnnouncedPlace DEF Announced
  <2>3. ASSUME NEW e \in Events, Delivered(e) PROVE Captured'
    <3>1. /\ Own(e) => e \in Owed
          /\ Cap' = Append(Cap, e) /\ Owed' = Owed \ {e}
          /\ published' = published /\ log' = log
      BY <1>5, <2>3 DEF Delivered
    <3>2. OnePlace(published, log, Append(Cap, e), Owed \ {e})
      BY <1>2, <1>3, <1>4, <3>1, DeliveredPlace
    <3> QED
      BY <2>0, <3>1, <3>2
  <2>4. ASSUME NEW e \in Events, TakenUp(e) PROVE Captured'
    BY <1>2, <1>3, <1>4, <1>5, <2>0, <2>4, TakenUpPlace DEF TakenUp
  <2>5. ASSUME NEW e \in Events, Ensured(e) PROVE Captured'
    <3>1. OnePlace(Append(published, e), Append(log, e), <<>>, {})
      BY <1>3, <1>4, <2>5, EnsuredPlace DEF Ensured
    <3> QED
      BY <1>5, <2>0, <2>5, <3>1 DEF Ensured
  <2> QED
    BY <2>1, <2>2, <2>3, <2>4, <2>5, Moves
<1>8. Drained'
  <2> SUFFICES ASSUME pc'[engine] \in {"drained", "ensure", "over"}
               PROVE  Cap' = <<>>
    BY DEF Drained
  <2>1. pc[engine] \in Past /\ Cap = <<>>
    BY EmptyLast
  <2> QED
    BY <1>5, <2>1, Moves
       DEF NothingMoves, Announced, Delivered, TakenUp, Ensured
<1> QED
  BY <1>1, <1>6, <1>7, <1>8 DEF Stored

\* The inductive invariant of the log: what is stored, in the channel of
\* captureEvents and still to be sent to it is what was published, each event
\* once.
THEOREM StoredHolds == Spec => []Stored
<1>1. Init => Stored
  BY InitStored
<1>2. Stored /\ [Next]_vars => Stored'
  BY NextStored
<1> QED
  BY <1>1, <1>2, PTL DEF Spec

\* A sequence without repetition is as long as the set of its entries is large.
LEMMA OnceLength ==
    ASSUME NEW S, NEW q \in Seq(S), Once(q)
    PROVE  Len(q) = Cardinality(ToSet(q))
<1>1. DOMAIN q = 1..Len(q) /\ Len(q) \in Nat
  BY DomainOf
<1>2. q \in [1..Len(q) -> ToSet(q)]
  <2>1. q = [i \in 1..Len(q) |-> q[i]]
    BY <1>1
  <2>2. \A i \in 1..Len(q) : q[i] \in ToSet(q)
    BY <1>1 DEF ToSet
  <2> QED
    BY <2>1, <2>2
<1>3. q \in Injection(1..Len(q), ToSet(q))
  BY <1>1, <1>2 DEF Once, Injection, IsInjective
<1>4. q \in Surjection(1..Len(q), ToSet(q))
  BY <1>1, <1>2 DEF Surjection, ToSet
<1>5. ExistsBijection(1..Len(q), ToSet(q))
  BY <1>3, <1>4 DEF ExistsBijection, Bijection
<1> QED
  BY <1>1, <1>5, FS_CountingElements

\* With nothing on the way, what was published is what is stored.
LEMMA AllStored ==
    ASSUME Stored, Owed = {}, Cap = <<>>
    PROVE  ToSet(log) = ToSet(published) /\ Len(log) = Len(published)
<1>1. \A e : ~In(e, Cap)
  BY DEF In
<1>2. \A e : In(e, log) <=> In(e, published)
  BY <1>1 DEF Stored, Captured, OnePlace
<1>3. \A q : \A e : e \in ToSet(q) <=> In(e, q)
  BY DEF ToSet, In
<1>4. ToSet(log) = ToSet(published)
  BY <1>2, <1>3
<1>5. log \in Seq(Events) /\ published \in Seq(Events)
  BY ControlFacts DEF Stored
<1>6. Once(log) /\ Once(published)
  BY DEF Stored, PublishedOnce, Captured, OnePlace
<1> QED
  BY <1>4, <1>5, <1>6, OnceLength

\* LogExact: when captureEvents is done, the log holds each published event
\* once, whatever the order and however full the channel was.
THEOREM LogExactHolds == Spec => []LogExact
<1>1. ASSUME Stored PROVE LogExact
  BY <1>1, PastOwesNothing, AllStored DEF LogExact, Stored, Drained, Past
<1> QED
  BY <1>1, StoredHolds, PTL

LEMMA LastPosition ==
    ASSUME NEW n \in Nat, NEW i \in 1..(n + 1), i \notin 1..n
    PROVE  i = n + 1
OBVIOUS

LEMMA PositionBetween ==
    ASSUME NEW n \in Nat, NEW m \in Nat, NEW k \in 1..m, k > n, k # n + 1
    PROVE  n + 1 \in 1..m /\ n + 1 < k /\ n + 1 \notin 1..n /\ n + 1 # m
OBVIOUS

\* A step announces an event while executeDAG runs, so before workflow.completed.
LEMMA AnnouncedLast ==
    ASSUME Stored, LastOfAll, NEW e \in Events, Announced(e)
    PROVE  /\ ClosesLog(log, Append(published, e))
           /\ ClosesRest(Cap, log, Append(published, e))
<1> Control
  BY DEF Stored
<1> USE ControlFacts
<1>1. published \in Seq(Events)
  OBVIOUS
<1>2. \A x : In(x, Append(published, e)) <=> In(x, published) \/ x = e
  BY <1>1, AppendIn
<1>3. CASE e.by \notin Steps
  BY <1>2, <1>3 DEF LastOfAll, ClosesLog, ClosesRest
<1>4. CASE e.by \in Steps
  <2>1. pc[engine] = "running"
    BY <1>4 DEF Announced
  <2>2. ASSUME NEW x, In(x, published), x.type = "workflow.completed"
        PROVE  FALSE
    <3>1. Reached(x) /\ x.by = engine
      BY <2>2, CompletedFacts DEF Stored, PublishedOnce
    <3> QED
      BY <2>1, <2>2, <3>1 DEF Reached, AfterComplete, Past
  <2>3. \A i \in DOMAIN log : In(log[i], log)
    BY DEF In
  <2>4. \A i \in DOMAIN Cap : In(Cap[i], Cap)
    BY DEF In
  <2>5. /\ \A i \in DOMAIN log : log[i].type # "workflow.completed"
        /\ \A i \in DOMAIN Cap :
              Own(Cap[i]) => Cap[i].type # "workflow.completed"
    BY <2>2, <2>3, <2>4 DEF Stored, Captured, OnePlace
  <2> QED
    BY <2>5 DEF ClosesLog, ClosesRest
<1> QED
  BY <1>3, <1>4

\* Its workflow.completed goes out when no step is inside Publish.
LEMMA DeliveredLast ==
    ASSUME Stored, LastOfAll, NEW e \in Events, Delivered(e)
    PROVE  ClosesRest(Append(Cap, e), log, published)
<1> Control
  BY DEF Stored
<1> USE ControlFacts
<1>1. Cap \in Seq(Events)
  BY DEF Cap
<1> DEFINE c == Append(Cap, e)
<1>2. /\ DOMAIN Cap = 1..Len(Cap) /\ Len(Cap) \in Nat /\ c \in Seq(Events)
      /\ DOMAIN c = 1..(Len(Cap) + 1) /\ c[Len(Cap) + 1] = e
      /\ \A i \in 1..Len(Cap) : c[i] = Cap[i]
  BY <1>1, AppendFacts, DomainOf
<1> HIDE DEF c
<1> SUFFICES ASSUME NEW i \in DOMAIN c, Own(c[i]),
                    c[i].type = "workflow.completed",
                    NEW x, In(x, published), x.by \in Steps
             PROVE  In(x, log) \/ \E j \in 1..i : c[j] = x
  BY DEF ClosesRest, c
<1>3. CASE i \in DOMAIN Cap
  <2>1. Own(Cap[i]) /\ Cap[i].type = "workflow.completed"
    BY <1>2, <1>3
  <2>2. In(x, log) \/ \E j \in 1..i : Cap[j] = x
    BY <1>3, <2>1 DEF LastOfAll, ClosesRest
  <2>3. \A j \in 1..i : c[j] = Cap[j]
    BY <1>2, <1>3
  <2> QED
    BY <2>2, <2>3
<1>4. CASE i \notin DOMAIN Cap
  <2>1. i = Len(Cap) + 1 /\ c[i] = e
    BY <1>2, <1>4
  <2>2. x \notin Owed
    BY <2>1 DEF Delivered
  <2>3. In(x, log) \/ In(x, Cap)
    BY <2>2 DEF Stored, Captured, OnePlace
  <2>4. In(x, Cap) => \E j \in 1..i : c[j] = x
    BY <1>2, <2>1 DEF In
  <2> QED
    BY <2>3, <2>4
<1> QED
  BY <1>3, <1>4

LEMMA TakenUpLast ==
    ASSUME Stored, LastOfAll, NEW e \in Events, TakenUp(e)
    PROVE  ClosesLog(log', published) /\ ClosesRest(Tail(Cap), log', published)
<1> Control
  BY DEF Stored
<1> USE ControlFacts
<1>1. Cap \in Seq(Events) /\ Cap # <<>> /\ e = Head(Cap)
  BY DEF Cap, TakenUp
<1> DEFINE t == Tail(Cap)
<1>2. /\ DOMAIN Cap = 1..Len(Cap) /\ Len(Cap) \in Nat \ {0} /\ Cap[1] = e
      /\ t \in Seq(Events) /\ DOMAIN t = 1..(Len(Cap) - 1)
      /\ \A i \in 1..(Len(Cap) - 1) : t[i] = Cap[i + 1]
  BY <1>1, TailFacts, DomainOf
<1> HIDE DEF t
<1> DEFINE l == Append(log, e)
<1>3. /\ DOMAIN log = 1..Len(log) /\ Len(log) \in Nat
      /\ DOMAIN l = 1..(Len(log) + 1) /\ l[Len(log) + 1] = e
      /\ \A i \in 1..Len(log) : l[i] = log[i]
  BY AppendFacts, DomainOf
<1>4. \A x : In(x, l) <=> In(x, log) \/ x = e
  BY AppendIn
<1> HIDE DEF l
<1>5. log' = IF Own(e) THEN l ELSE log
  BY DEF TakenUp, l
<1>6. \A x : In(x, published) => Own(x)
  BY DEF Stored, PublishedOnce, Reached, Own
<1>7. ClosesLog(l, published) \/ ~Own(e)
  <2> SUFFICES ASSUME Own(e), NEW i \in DOMAIN l,
                      l[i].type = "workflow.completed",
                      NEW x, In(x, published), x.by \in Steps
               PROVE  \E j \in 1..i : l[j] = x
    BY DEF ClosesLog
  <2>1. CASE i \in DOMAIN log
    <3>1. \E j \in 1..i : log[j] = x
      BY <1>3, <2>1 DEF LastOfAll, ClosesLog
    <3>2. \A j \in 1..i : l[j] = log[j]
      BY <1>3, <2>1
    <3> QED
      BY <3>1, <3>2
  <2>2. CASE i \notin DOMAIN log
    <3>0. i \in 1..(Len(log) + 1) /\ i \notin 1..Len(log)
      BY <1>3, <2>2
    <3>1. i = Len(log) + 1 /\ e.type = "workflow.completed"
      <4>1. i = Len(log) + 1
        BY <1>3, <3>0, LastPosition
      <4> QED
        BY <1>3, <4>1
    <3>2. 1 \in DOMAIN Cap /\ \A j \in 1..1 : j = 1
      BY <1>2
    <3>3. In(x, log) \/ x = e
      <4>1. Own(Cap[1]) /\ Cap[1].type = "workflow.completed"
        BY <1>2, <3>1
      <4>2. In(x, log) \/ \E j \in 1..1 : Cap[j] = x
        BY <3>2, <4>1 DEF LastOfAll, ClosesRest
      <4> QED
        BY <1>2, <3>2, <4>2
    <3>4. In(x, log) => \E j \in 1..i : l[j] = x
      BY <1>3, <3>1 DEF In
    <3>5. i \in 1..i /\ l[i] = e
      BY <1>3, <3>1
    <3> QED
      BY <3>3, <3>4, <3>5
  <2> QED
    BY <2>1, <2>2
<1>8. ClosesLog(log', published)
  BY <1>5, <1>7 DEF LastOfAll
<1>9. ClosesRest(t, log', published)
  <2> SUFFICES ASSUME NEW i \in DOMAIN t, Own(t[i]),
                      t[i].type = "workflow.completed",
                      NEW x, In(x, published), x.by \in Steps
               PROVE  In(x, log') \/ \E j \in 1..i : t[j] = x
    BY DEF ClosesRest
  <2>1. i + 1 \in DOMAIN Cap /\ Cap[i + 1] = t[i]
    BY <1>2
  <2>2. In(x, log) \/ \E j \in 1..(i + 1) : Cap[j] = x
    BY <2>1 DEF LastOfAll, ClosesRest
  <2>3. \A j \in 1..(i + 1) : j = 1 \/ (j - 1 \in 1..i /\ t[j - 1] = Cap[j])
    BY <1>2
  <2>4. In(x, log) \/ x = e \/ \E j \in 1..i : t[j] = x
    BY <1>2, <2>2, <2>3
  <2>5. In(x, log) \/ x = e => In(x, log')
    BY <1>4, <1>5, <1>6
  <2> QED
    BY <2>4, <2>5
<1> QED
  BY <1>8, <1>9 DEF t

LEMMA EnsuredLast ==
    ASSUME Stored, LastOfAll, NEW e \in Events, Ensured(e)
    PROVE  /\ ClosesLog(Append(log, e), Append(published, e))
           /\ ClosesRest(<<>>, Append(log, e), Append(published, e))
<1> Control
  BY DEF Stored
<1> USE ControlFacts
<1> DEFINE l == Append(log, e)
<1>1. /\ DOMAIN log = 1..Len(log) /\ Len(log) \in Nat
      /\ DOMAIN l = 1..(Len(log) + 1) /\ l[Len(log) + 1] = e
      /\ \A i \in 1..Len(log) : l[i] = log[i]
  BY AppendFacts, DomainOf
<1>2. \A x : In(x, Append(published, e)) <=> In(x, published) \/ x = e
  BY AppendIn
<1> HIDE DEF l
<1>3. e.by \notin Steps /\ Owed = {} /\ Cap = <<>>
  BY DEF Ensured
<1>4. \A x : ~In(x, Cap)
  BY <1>3 DEF In
<1>5. ClosesLog(l, Append(published, e))
  <2> SUFFICES ASSUME NEW i \in DOMAIN l,
                      l[i].type = "workflow.completed",
                      NEW x, In(x, published), x.by \in Steps
               PROVE  \E j \in 1..i : l[j] = x
    BY <1>2, <1>3 DEF ClosesLog
  <2>1. CASE i \in DOMAIN log
    <3>1. \E j \in 1..i : log[j] = x
      BY <1>1, <2>1 DEF LastOfAll, ClosesLog
    <3>2. \A j \in 1..i : l[j] = log[j]
      BY <1>1, <2>1
    <3> QED
      BY <3>1, <3>2
  <2>2. CASE i \notin DOMAIN log
    <3>0. i \in 1..(Len(log) + 1) /\ i \notin 1..Len(log)
      BY <1>1, <2>2
    <3>1. i = Len(log) + 1
      BY <1>1, <3>0, LastPosition
    <3>2. In(x, log)
      BY <1>3, <1>4 DEF Stored, Captured, OnePlace
    <3> QED
      BY <1>1, <3>1, <3>2 DEF In
  <2> QED
    BY <2>1, <2>2
<1>6. ClosesRest(<<>>, l, Append(published, e))
  BY DEF ClosesRest
<1> QED
  BY <1>5, <1>6 DEF l

LEMMA NextLast ==
    ASSUME Stored, LastOfAll, [Next]_vars
    PROVE  LastOfAll'
<1>1. /\ LastOfAll' <=> /\ ClosesLog(log', published')
                        /\ ClosesRest(Cap', log', published')
      /\ Cap' = chan'[capture]
  BY DEF LastOfAll, Cap
<1>2. CASE NothingMoves
  BY <1>1, <1>2 DEF NothingMoves, LastOfAll
<1>3. ASSUME NEW e \in Events, Announced(e) PROVE LastOfAll'
  <2>1. log' = log /\ Cap' = Cap /\ published' = Append(published, e)
    BY <1>1, <1>3 DEF Announced
  <2> QED
    BY <1>1, <1>3, <2>1, AnnouncedLast
<1>4. ASSUME NEW e \in Events, Delivered(e) PROVE LastOfAll'
  <2>1. log' = log /\ Cap' = Append(Cap, e) /\ published' = published
    BY <1>1, <1>4 DEF Delivered
  <2> QED
    BY <1>1, <1>4, <2>1, DeliveredLast DEF LastOfAll
<1>5. ASSUME NEW e \in Events, TakenUp(e) PROVE LastOfAll'
  <2>1. Cap' = Tail(Cap) /\ published' = published
    BY <1>1, <1>5 DEF TakenUp
  <2> QED
    BY <1>1, <1>5, <2>1, TakenUpLast
<1>6. ASSUME NEW e \in Events, Ensured(e) PROVE LastOfAll'
  <2>1. /\ log' = Append(log, e) /\ Cap' = <<>>
        /\ published' = Append(published, e)
    BY <1>1, <1>6 DEF Ensured
  <2> QED
    BY <1>1, <1>6, <2>1, EnsuredLast
<1> QED
  BY <1>2, <1>3, <1>4, <1>5, <1>6, Moves

\* CompletedCloses: whoever replays the log up to workflow.completed has been
\* sent every step event that was published.
THEOREM CompletedClosesHolds == Spec => []CompletedCloses
<1>1. Init => Stored /\ LastOfAll
  BY InitStored
<1>2. Stored /\ LastOfAll /\ [Next]_vars => (Stored /\ LastOfAll)'
  BY NextStored, NextLast
<1>3. LastOfAll => CompletedCloses
  BY DEF LastOfAll, ClosesLog, CompletedCloses, ToSet, In
<1> QED
  BY <1>1, <1>2, <1>3, PTL DEF Spec

-----------------------------------------------------------------------------
(* Where steps run one after the other *)

\* A wait of one step for the other keeps their Publish apart.
LEMMA OneSender ==
    ASSUME Control, Sequential
    PROVE  \A p, q \in sending : p # other /\ q # other => p = q
<1> USE ControlFacts
<1> SUFFICES ASSUME NEW p \in sending, NEW q \in sending, p # other, q # other,
                    p # q
             PROVE  FALSE
  OBVIOUS
<1>1. p \in Steps \cup {engine} /\ q \in Steps \cup {engine}
  OBVIOUS
<1>2. p \in Steps /\ q \in Steps
  BY <1>1 DEF Control, Sending
<1>3. pc[p] # "over" /\ pc[q] # "over"
  BY <1>2 DEF Control, Sending
<1>4. (\A r \in after[p] : pc[r] = "over") /\ (\A r \in after[q] : pc[r] = "over")
  BY <1>2 DEF Control, Sending
<1> QED
  BY <1>2, <1>3, <1>4 DEF Sequential

\* So an event is announced when no other is on its way.
LEMMA AnnouncedAlone ==
    ASSUME Control, Sequential, NEW p \in Publishers, RLock(p), p # other,
           pc[p] # "ensure"
    PROVE  \A q \in sending : q = other
<1> USE ControlFacts
<1> SUFFICES ASSUME NEW q \in sending, q # other PROVE FALSE
  OBVIOUS
<1>1. Publishes(p) /\ p \notin sending
  BY DEF RLock
<1>2. CASE p = engine
  BY <1>1, <1>2 DEF Publishes, Control, Sending
<1>3. CASE p \in Steps
  <2>1. pc[p] \in {"begin", "act"} /\ pc[engine] = "running"
    BY <1>1, <1>3 DEF Publishes, Control, Sending
  <2>2. q \in Steps /\ pc[q] # "over"
    BY <2>1 DEF Control, Sending
  <2>3. \A r \in after[p] : pc[r] = "over"
    BY <1>1, <1>3, <2>1 DEF Publishes, Control, Sending
  <2>4. \A r \in after[q] : pc[r] = "over"
    BY <2>2 DEF Control, Sending
  <2> QED
    BY <1>1, <1>3, <2>1, <2>2, <2>3, <2>4 DEF Sequential
<1> QED
  BY <1>2, <1>3

LEMMA AppendLast ==
    ASSUME NEW S, NEW q \in Seq(S), NEW e \in S
    PROVE  Append(q, e) # <<>> /\ Append(q, e)[Len(Append(q, e))] = e
<1>1. /\ Len(q) \in Nat /\ Append(q, e)[Len(q) + 1] = e
      /\ Len(Append(q, e)) = Len(q) + 1
  BY AppendFacts
<1>2. Len(Append(q, e)) # 0
  BY <1>1
<1> QED
  BY <1>1, <1>2

LEMMA LatestAppended ==
    ASSUME NEW e \in Events, published \in Seq(Events),
           published' = Append(published, e)
    PROVE  published' # <<>> /\ Latest' = e
<1> DEFINE r == Append(published, e)
<1>1. r # <<>> /\ r[Len(r)] = e
  BY AppendLast
<1> HIDE DEF r
<1> QED
  BY <1>1 DEF Latest, r

LEMMA AscendingAnnounced ==
    ASSUME NEW q, NEW pub \in Seq(Events), NEW e \in Events, Ascending(q, pub),
           Own(e), ~In(e, pub), \A x : In(x, q) /\ Own(x) => In(x, pub)
    PROVE  Ascending(q, Append(pub, e))
<1>1. /\ DOMAIN pub = 1..Len(pub) /\ Len(pub) \in Nat
      /\ DOMAIN Append(pub, e) = 1..(Len(pub) + 1)
      /\ Append(pub, e)[Len(pub) + 1] = e
      /\ \A i \in 1..Len(pub) : Append(pub, e)[i] = pub[i]
  BY AppendFacts, DomainOf
<1>2. \A i \in DOMAIN q : q[i] # e
  BY DEF In
<1>3. \A k \in DOMAIN Append(pub, e) : k \in DOMAIN pub \/ k = Len(pub) + 1
  BY <1>1
<1>4. \A i \in DOMAIN q : \A k \in DOMAIN Append(pub, e) :
          q[i] = Append(pub, e)[k] => k \in DOMAIN pub /\ q[i] = pub[k]
  BY <1>1, <1>2, <1>3
<1> QED
  BY <1>4 DEF Ascending

LEMMA AscendingDelivered ==
    ASSUME NEW q \in Seq(Events), NEW pub \in Seq(Events), NEW e \in Events,
           Ascending(q, pub), Once(pub), \A x : In(x, pub) => Own(x),
           Own(e) => pub # <<>> /\ e = pub[Len(pub)] /\ ~In(e, q)
    PROVE  Ascending(Append(q, e), pub)
<1> DEFINE r == Append(q, e)
<1>1. /\ DOMAIN q = 1..Len(q) /\ Len(q) \in Nat
      /\ DOMAIN r = 1..(Len(q) + 1) /\ r[Len(q) + 1] = e
      /\ \A i \in 1..Len(q) : r[i] = q[i]
  BY AppendFacts, DomainOf
<1>2. DOMAIN pub = 1..Len(pub) /\ Len(pub) \in Nat
  BY DomainOf
<1> HIDE DEF r
<1> SUFFICES ASSUME NEW i \in DOMAIN r, NEW j \in DOMAIN r,
                    NEW k \in DOMAIN pub, NEW m \in DOMAIN pub,
                    i < j, r[i] = pub[k], r[j] = pub[m]
             PROVE  k < m
  BY DEF Ascending, r
<1>3. i \in DOMAIN q /\ r[i] = q[i]
  BY <1>1
<1>4. CASE j \in DOMAIN q
  BY <1>1, <1>3, <1>4 DEF Ascending
<1>5. CASE j \notin DOMAIN q
  <2>1. j = Len(q) + 1
    BY <1>1, <1>5, LastPosition
  <2>2. e = pub[m]
    BY <1>1, <2>1
  <2>3. Own(e)
    BY <2>2 DEF In
  <2>4. pub # <<>> /\ Len(pub) \in DOMAIN pub
    BY <1>2, <2>3
  <2>5. m = Len(pub)
    BY <2>2, <2>3, <2>4 DEF Once
  <2>6. k # m
    BY <1>3, <2>2, <2>3 DEF In
  <2> QED
    BY <1>2, <2>5, <2>6
<1> QED
  BY <1>4, <1>5

LEMMA AscendingTail ==
    ASSUME NEW q \in Seq(Events), NEW pub, Ascending(q, pub), q # <<>>
    PROVE  /\ Ascending(Tail(q), pub)
           /\ \A k, m \in DOMAIN pub :
                 Head(q) = pub[k] /\ In(pub[m], Tail(q)) => k < m
<1> DEFINE t == Tail(q)
<1>1. /\ DOMAIN q = 1..Len(q) /\ Len(q) \in Nat \ {0} /\ Head(q) = q[1]
      /\ DOMAIN t = 1..(Len(q) - 1)
      /\ \A i \in 1..(Len(q) - 1) : t[i] = q[i + 1]
  BY TailFacts, DomainOf
<1> HIDE DEF t
<1>2. \A i \in DOMAIN t : i + 1 \in DOMAIN q /\ 1 < i + 1 /\ t[i] = q[i + 1]
  BY <1>1
<1>3. Ascending(t, pub)
  <2> SUFFICES ASSUME NEW i \in DOMAIN t, NEW j \in DOMAIN t,
                      NEW k \in DOMAIN pub, NEW m \in DOMAIN pub,
                      i < j, t[i] = pub[k], t[j] = pub[m]
               PROVE  k < m
    BY DEF Ascending
  <2>1. i + 1 < j + 1
    BY <1>1
  <2> QED
    BY <1>2, <2>1 DEF Ascending
<1>4. ASSUME NEW k \in DOMAIN pub, NEW m \in DOMAIN pub,
             Head(q) = pub[k], In(pub[m], t)
      PROVE  k < m
  <2>1. PICK i \in DOMAIN t : t[i] = pub[m]
    BY <1>4 DEF In
  <2>2. 1 \in DOMAIN q /\ q[1] = pub[k]
    BY <1>1, <1>4
  <2> QED
    BY <1>2, <2>1, <2>2 DEF Ascending
<1> QED
  BY <1>3, <1>4 DEF t

LEMMA NextLatest ==
    ASSUME Stored, Sequential, LatestSent, [Next]_vars
    PROVE  LatestSent' /\ Sequential'
<1> Control
  BY DEF Stored
<1> USE ControlFacts
<1>1. Sequential'
  <2>1. after' = after
    BY DEF Next, Publish, RLock, Deliver, DeliverToNobody, FailEarly, Execution,
           ExecuteReturns, StopCapture, UnsubscribeCapture, Drain, Ensure,
           Capture, Viewer, Subscribe, Replay, Receive, UnsubscribeViewer,
           Connect, ClientGone, Finished, vars
  <2> QED
    BY <2>1 DEF Sequential
<1>2. SUFFICES LatestSent'
  BY <1>1
<1>3. published \in Seq(Events)
  OBVIOUS
<1>4. CASE UNCHANGED <<pc, published>> /\ sending' \subseteq sending
  BY <1>4 DEF LatestSent, Latest, Event, Type
<1>5. ASSUME NEW p \in Publishers, RLock(p)
      PROVE  LatestSent'
  <2>1. sending' = sending \cup {p} /\ pc' = pc /\ p \notin sending
    BY <1>5 DEF RLock
  <2>2. \A q \in Publishers : Event(q)' = Event(q)
    BY <2>1 DEF Event, Type
  <2>3. CASE p = other \/ pc[p] = "ensure"
    <3>1. published' = published
      BY <1>5, <2>3 DEF RLock
    <3>2. p # other => pc[engine] = "ensure" /\ p = engine
      BY <2>3, <1>5 DEF RLock, Publishes, Control, Places
    <3> QED
      BY <2>1, <2>2, <3>1, <3>2 DEF LatestSent, Latest
  <2>4. CASE p # other /\ pc[p] # "ensure"
    <3>1. pc[p] \in Publishing /\ pc[engine] # "ensure"
      BY <1>5, <2>4 DEF RLock, Publishes, Publishing, Control, Sending
    <3>2. PICK e \in Events : e = Event(p)
      BY <3>1, EventFacts
    <3>3. published' = Append(published, e)
      BY <1>5, <2>4, <3>2 DEF RLock
    <3>4. published' # <<>> /\ Latest' = e
      BY <1>3, <3>3, LatestAppended
    <3>5. \A q \in sending' : q # other => q = p
      BY <1>5, <2>1, <2>4, AnnouncedAlone
    <3> QED
      BY <2>1, <2>2, <3>1, <3>2, <3>4, <3>5 DEF LatestSent
  <2> QED
    BY <2>3, <2>4
<1>6. ASSUME NEW p \in Publishers, Deliver(p) \/ DeliverToNobody(p)
      PROVE  LatestSent'
  <2>1. p \in sending
    BY <1>6 DEF Deliver, DeliverToNobody
  <2>2. published' = published /\ (Return(p) \/ UNCHANGED <<sending, pc>>)
    BY <1>6, <2>1, DeliverFacts
  <2>3. CASE Return(p)
    <3>1. /\ sending' = sending \ {p}
          /\ \A q \in Publishers \ {p} : pc'[q] = pc[q]
          /\ pc'[engine] = "ensure" => pc[engine] = "ensure" /\ p # engine
      BY <2>1, <2>3, ReturnFacts
    <3>2. \A q \in Publishers \ {p} : Event(q)' = Event(q)
      BY <3>1 DEF Event, Type
    <3> QED
      BY <2>2, <3>1, <3>2 DEF LatestSent, Latest
  <2> QED
    BY <1>4, <2>2, <2>3
<1>7. CASE Execution \/ FailEarly
  <2>1. /\ UNCHANGED sending /\ engine \notin sending
        /\ \A q \in Publishers \ {engine} : pc'[q] = pc[q]
        /\ pc[engine] # "ensure"
    BY <1>7 DEF Execution, FailEarly, ExecuteReturns, StopCapture,
                UnsubscribeCapture, Drain, Ensure, bus, Control, Sending
  <2>2. \A q \in Publishers \ {engine} : Event(q)' = Event(q)
    BY <2>1 DEF Event, Type
  <2>3. CASE pc'[engine] # "ensure"
    <3>1. published' = published
      BY <1>7, <2>3 DEF Execution, FailEarly, ExecuteReturns, StopCapture,
                        UnsubscribeCapture, Drain, Ensure
    <3> QED
      BY <2>1, <2>2, <2>3, <3>1 DEF LatestSent, Latest
  <2>4. CASE pc'[engine] = "ensure"
    <3>1. Ensure /\ pc[engine] = "drained"
      BY <1>7, <2>4 DEF Execution, FailEarly, ExecuteReturns, StopCapture,
                        UnsubscribeCapture, Drain, Ensure
    <3>2. PICK e \in Events : e = [by |-> engine, type |-> "workflow.completed"]
      BY DEF Events, Types
    <3>3. published' = Append(published, e)
      BY <2>4, <3>1, <3>2 DEF Ensure
    <3>4. published' # <<>> /\ Latest' = e
      BY <1>3, <3>3, LatestAppended
    <3>5. Event(engine)' = e
      BY <2>4, <3>2 DEF Event, Type
    <3>6. \A q \in sending' : q = other
      BY <2>1, <3>1 DEF Control, Sending
    <3> QED
      BY <3>4, <3>5, <3>6 DEF LatestSent
  <2> QED
    BY <2>3, <2>4
<1>8. CASE Capture \/ Viewer \/ Connect \/ ClientGone \/ UNCHANGED vars
  <2>1. UNCHANGED <<pc, sending, published>>
    BY <1>8 DEF Capture, Viewer, Connect, ClientGone, Subscribe, Replay,
                Receive, UnsubscribeViewer, vars, bus
  <2> QED
    BY <1>4, <2>1
<1> QED
  BY <1>5, <1>6, <1>7, <1>8 DEF Next, Publish, Finished

\* What captureEvents takes is the first event that is not stored yet.
LEMMA TakenUpNext ==
    ASSUME Stored, Sequential, LatestSent, LogInOrder,
           NEW e \in Events, TakenUp(e), Own(e)
    PROVE  Len(log) < Len(published) /\ e = published[Len(log) + 1]
<1> Control
  BY DEF Stored
<1> USE ControlFacts
<1>1. /\ DOMAIN log = 1..Len(log) /\ Len(log) \in Nat
      /\ DOMAIN published = 1..Len(published) /\ Len(published) \in Nat
  BY DomainOf
<1>2. Once(published) /\ OnePlace(published, log, Cap, Owed)
  BY DEF Stored, PublishedOnce, Captured
<1>3. Cap \in Seq(Events) /\ Cap # <<>> /\ e = Head(Cap)
  BY DEF Cap, TakenUp
<1>4. \A x : In(x, Cap) <=> x = e \/ In(x, Tail(Cap))
  BY <1>3, TailIn
<1>5. In(e, published) /\ ~In(e, log)
  BY <1>2, <1>4 DEF OnePlace
<1>6. PICK k \in DOMAIN published : e = published[k]
  BY <1>5 DEF In
<1>7. \A i \in 1..Len(log) : i \in DOMAIN log /\ log[i] = published[i]
  BY <1>1 DEF LogInOrder, Prefix
<1>8. k > Len(log)
  <2> SUFFICES ASSUME ~(k > Len(log)) PROVE FALSE
    OBVIOUS
  <2>1. k \in 1..Len(log)
    BY <1>1
  <2> QED
    BY <1>5, <1>6, <1>7, <2>1 DEF In
<1>9. CASE k = Len(log) + 1
  BY <1>1, <1>6, <1>8, <1>9
<1>10. CASE k # Len(log) + 1
  <2> DEFINE n == Len(log) + 1
  <2>1. n \in DOMAIN published /\ n < k /\ n \notin DOMAIN log
        /\ n # Len(published)
    <3>1. k \in 1..Len(published)
      BY <1>1
    <3> QED
      BY <1>1, <1>8, <1>10, <3>1, PositionBetween
  <2> HIDE DEF n
  <2>2. In(published[n], published)
    BY <2>1 DEF In
  <2>3. ~In(published[n], log)
    <3> SUFFICES ASSUME NEW i \in DOMAIN log, log[i] = published[n] PROVE FALSE
      BY DEF In
    <3>1. i \in DOMAIN published /\ published[i] = published[n]
      BY <1>1 DEF LogInOrder, Prefix
    <3> QED
      BY <1>2, <2>1, <3>1 DEF Once
  <2>4. published[n] \notin Owed
    <3> SUFFICES ASSUME NEW p \in Debtors, published[n] = Event(p) PROVE FALSE
      BY DEF Owed
    <3>1. published[n] = published[Len(published)] /\ published # <<>>
      BY DEF LatestSent, Latest, Debtors
    <3>2. Len(published) \in DOMAIN published
      BY <1>1, <2>1
    <3> QED
      BY <1>2, <2>1, <3>1, <3>2 DEF Once
  <2>5. In(published[n], Cap)
    BY <1>2, <2>2, <2>3, <2>4 DEF OnePlace
  <2>6. published[n] # e
    BY <1>2, <1>6, <2>1 DEF Once
  <2>7. k < n
    BY <1>3, <1>4, <1>6, <2>1, <2>5, <2>6, AscendingTail DEF LogInOrder
  <2> QED
    BY <1>1, <2>1, <2>7
<1> QED
  BY <1>9, <1>10

LEMMA PrefixAppended ==
    ASSUME NEW q \in Seq(Events), NEW pub \in Seq(Events), NEW e \in Events,
           Prefix(q, pub)
    PROVE  /\ Prefix(q, Append(pub, e))
           /\ Len(q) < Len(pub) /\ e = pub[Len(q) + 1] => Prefix(Append(q, e), pub)
           /\ Len(q) = Len(pub) => Prefix(Append(q, e), Append(pub, e))
<1> DEFINE r == Append(q, e)
           t == Append(pub, e)
<1>1. /\ DOMAIN q = 1..Len(q) /\ Len(q) \in Nat /\ Len(r) = Len(q) + 1
      /\ DOMAIN r = 1..(Len(q) + 1) /\ r[Len(q) + 1] = e
      /\ \A i \in 1..Len(q) : r[i] = q[i]
  BY AppendFacts, DomainOf
<1>2. /\ DOMAIN pub = 1..Len(pub) /\ Len(pub) \in Nat /\ Len(t) = Len(pub) + 1
      /\ t[Len(pub) + 1] = e /\ \A i \in 1..Len(pub) : t[i] = pub[i]
  BY AppendFacts, DomainOf
<1> HIDE DEF r, t
<1>3. Len(q) <= Len(pub) /\ \A i \in 1..Len(q) : i \in 1..Len(pub) /\ q[i] = pub[i]
  BY <1>1, <1>2 DEF Prefix
<1>4. \A i \in DOMAIN r : i \in 1..Len(q) \/ i = Len(q) + 1
  BY <1>1, LastPosition
<1>5. Prefix(q, t)
  BY <1>1, <1>2, <1>3 DEF Prefix
<1>6. ASSUME Len(q) < Len(pub), e = pub[Len(q) + 1] PROVE Prefix(r, pub)
  <2>1. \A i \in DOMAIN r : r[i] = pub[i]
    BY <1>1, <1>3, <1>4, <1>6
  <2> QED
    BY <1>1, <1>2, <1>6, <2>1 DEF Prefix
<1>7. ASSUME Len(q) = Len(pub) PROVE Prefix(r, t)
  <2>1. \A i \in DOMAIN r : r[i] = t[i]
    BY <1>1, <1>2, <1>3, <1>4, <1>7
  <2> QED
    BY <1>1, <1>2, <1>7, <2>1 DEF Prefix
<1> QED
  BY <1>5, <1>6, <1>7 DEF r, t

LEMMA NextLogInOrder ==
    ASSUME Stored, Sequential, LatestSent, LogInOrder, [Next]_vars
    PROVE  LogInOrder'
<1> Control
  BY DEF Stored
<1> USE ControlFacts
<1>1. /\ LogInOrder' <=> Prefix(log', published') /\ Ascending(Cap', published')
      /\ Cap' = chan'[capture]
  BY DEF LogInOrder, Cap
<1>2. log \in Seq(Events) /\ published \in Seq(Events) /\ Cap \in Seq(Events)
  BY DEF Cap
<1>3. Prefix(log, published) /\ Ascending(Cap, published)
  BY DEF LogInOrder
<1>4. /\ Once(published) /\ OnePlace(published, log, Cap, Owed)
      /\ \A x : In(x, published) => Own(x)
  BY DEF Stored, PublishedOnce, Captured, Reached, Own
<1>5. CASE NothingMoves
  BY <1>1, <1>3, <1>5 DEF NothingMoves
<1>6. ASSUME NEW e \in Events, Announced(e) PROVE LogInOrder'
  <2>1. /\ log' = log /\ Cap' = Cap /\ published' = Append(published, e)
        /\ ~In(e, published) /\ Own(e)
    BY <1>1, <1>6 DEF Announced, Reached, Own
  <2>2. Prefix(log, Append(published, e))
    BY <1>2, <1>3, PrefixAppended
  <2>3. \A x : In(x, Cap) /\ Own(x) => In(x, published)
    BY <1>4 DEF OnePlace
  <2>4. Ascending(Cap, Append(published, e))
    BY <1>2, <1>3, <2>1, <2>3, AscendingAnnounced
  <2> QED
    BY <1>1, <2>1, <2>2, <2>4
<1>7. ASSUME NEW e \in Events, Delivered(e) PROVE LogInOrder'
  <2>1. /\ log' = log /\ Cap' = Append(Cap, e) /\ published' = published
        /\ Own(e) => e \in Owed
    BY <1>1, <1>7 DEF Delivered
  <2>2. Own(e) => published # <<>> /\ e = Latest /\ ~In(e, Cap)
    BY <1>4, <2>1 DEF Owed, Debtors, LatestSent, OnePlace
  <2>3. Ascending(Append(Cap, e), published)
    BY <1>2, <1>3, <1>4, <2>2, AscendingDelivered DEF Latest
  <2> QED
    BY <1>1, <1>3, <2>1, <2>3
<1>8. ASSUME NEW e \in Events, TakenUp(e) PROVE LogInOrder'
  <2>1. /\ Cap' = Tail(Cap) /\ published' = published /\ Cap # <<>>
        /\ log' = IF Own(e) THEN Append(log, e) ELSE log
    BY <1>1, <1>8 DEF TakenUp
  <2>2. Ascending(Tail(Cap), published)
    BY <1>2, <1>3, <2>1, AscendingTail
  <2>3. Own(e) => Prefix(Append(log, e), published)
    BY <1>2, <1>3, <1>8, TakenUpNext, PrefixAppended
  <2> QED
    BY <1>1, <1>3, <2>1, <2>2, <2>3
<1>9. ASSUME NEW e \in Events, Ensured(e) PROVE LogInOrder'
  <2>1. /\ log' = Append(log, e) /\ published' = Append(published, e)
        /\ Cap' = <<>> /\ Cap = <<>> /\ Owed = {}
    BY <1>1, <1>9 DEF Ensured
  <2>2. Prefix(Append(log, e), Append(published, e))
    BY <1>2, <1>3, <2>1, AllStored, PrefixAppended
  <2>3. Ascending(<<>>, Append(published, e))
    BY DEF Ascending
  <2> QED
    BY <1>1, <2>1, <2>2, <2>3
<1> QED
  BY <1>5, <1>6, <1>7, <1>8, <1>9, Moves

-----------------------------------------------------------------------------
(* The viewer *)

\* How a step looks from the viewer's side.
ViewerStays ==
    /\ UNCHANGED <<published, seen, replayed, skipped, early>>
    /\ chan'[viewer] = Live
    /\ dropped => dropped'
    /\ Coming' => Coming
    /\ vpc' \in {"joined", "live"} =>
          vpc \in {"joined", "live"} /\ (Coming => Coming' \/ dropped')
    /\ vpc' \notin {"joined", "live", "leaving"} =>
          vpc \notin {"joined", "live", "leaving"}

ViewerAwaits(e) ==
    /\ UNCHANGED <<vpc, seen, replayed, skipped, early, dropped>>
    /\ chan'[viewer] = Live
    /\ Own(e) /\ ~In(e, published) /\ published' = Append(published, e)
    /\ ~Coming
    /\ vpc \in {"joined", "live"} => Coming'

ViewerSent(e) ==
    /\ UNCHANGED <<published, vpc, seen, replayed, skipped, early>>
    /\ vpc \in {"joined", "live", "leaving"}
    /\ chan'[viewer] = Append(Live, e)
    /\ dropped => dropped'
    /\ IF Own(e) THEN published # <<>> /\ e = Latest /\ Coming /\ ~Coming'
                 ELSE Coming' <=> Coming

LEMMA ComingSame ==
    ASSUME Control, pc'[engine] = "ensure" <=> pc[engine] = "ensure",
           \A q \in Publishers \ {other} :
               /\ q \in sending' <=> q \in sending
               /\ Owes(q, viewer)' <=> Owes(q, viewer),
           sending' \subseteq Publishers
    PROVE  Coming' <=> Coming
<1> USE ControlFacts
<1>1. (\E q \in sending' : q # other /\ Owes(q, viewer)') <=>
          \E q \in sending : q # other /\ Owes(q, viewer)
  OBVIOUS
<1>2. engine \in sending' <=> engine \in sending
  OBVIOUS
<1> QED
  BY <1>1, <1>2 DEF Coming

LEMMA RLockViewer ==
    ASSUME Stored, Sequential, NEW p \in Publishers, RLock(p)
    PROVE  ViewerStays \/ \E e \in Events : ViewerAwaits(e)
<1> Control
  BY DEF Stored
<1> USE ControlFacts
<1>1. /\ p \notin sending /\ sending' = sending \cup {p}
      /\ \A q \in Publishers \ {p} : left'[q] = left[q]
      /\ left'[p] = subscribers
      /\ UNCHANGED <<pc, chan, dropped, vpc, seen, replayed, skipped, early>>
      /\ published' = IF p = other \/ pc[p] = "ensure" THEN published
                      ELSE Append(published, Event(p))
  BY DEF RLock, stream
<1>2. \A q \in Publishers \ {p} : /\ q \in sending' <=> q \in sending
                                  /\ Owes(q, viewer)' <=> Owes(q, viewer)
  BY <1>1 DEF Owes
<1>3. vpc \in {"joined", "live"} => In(viewer, subscribers)
  BY DEF Control, Lists
<1>4. vpc \in {"joined", "live"} => Owes(p, viewer)'
  BY <1>1, <1>3 DEF Owes
<1>5. sending' \subseteq Publishers
  BY <1>1
<1>6. CASE p = other
  <2>1. Coming' <=> Coming
    BY <1>1, <1>2, <1>5, <1>6, ComingSame
  <2> QED
    BY <1>1, <1>6, <2>1 DEF ViewerStays, Live
<1>7. CASE p # other /\ pc[p] = "ensure"
  <2>1. p = engine
    BY <1>7 DEF Control, Places
  <2>2. Coming
    BY <1>1, <1>7, <2>1 DEF Coming
  <2>3. vpc \in {"joined", "live"} => Coming'
    BY <1>1, <1>4, <1>7 DEF Coming
  <2> QED
    BY <1>1, <1>7, <2>2, <2>3 DEF ViewerStays, Live
<1>8. CASE p # other /\ pc[p] # "ensure"
  <2>1. \A q \in sending : q = other
    BY <1>8, AnnouncedAlone
  <2>2. pc[engine] # "ensure"
    BY <1>8 DEF RLock, Publishes, Control, Sending
  <2>3. ~Coming
    BY <2>1, <2>2 DEF Coming
  <2>4. vpc \in {"joined", "live"} => Coming'
    BY <1>1, <1>4, <1>8 DEF Coming
  <2>5. PICK e \in Events : Announced(e)
    <3>1. pc[p] \in Publishing
      BY DEF RLock, Publishes, Publishing
    <3>2. PICK x \in Events : x = Event(p)
      BY <3>1, EventFacts
    <3>3. Len(Append(published, x)) = Len(published) + 1 /\ Len(published) \in Nat
      BY AppendFacts
    <3>4. published' # published
      BY <1>1, <1>8, <3>2, <3>3
    <3> QED
      BY <3>4, RLockMoves DEF NothingMoves
  <2>6. Own(e) /\ ~In(e, published) /\ published' = Append(published, e)
    BY <2>5 DEF Announced, Reached, Own
  <2> QED
    BY <1>1, <2>3, <2>4, <2>6 DEF ViewerAwaits, Live
<1> QED
  BY <1>6, <1>7, <1>8

LEMMA DeliverViewer ==
    ASSUME Control, Sequential, LatestSent,
           NEW p \in Publishers, Deliver(p) \/ DeliverToNobody(p)
    PROVE  ViewerStays \/ \E e \in Events : ViewerSent(e)
<1> USE ControlFacts
<1>0. p \in sending
  BY DEF Deliver, DeliverToNobody
<1>1. /\ UNCHANGED <<published, vpc, seen, replayed, skipped, early>>
      /\ \A q \in Publishers \ {p} : left'[q] = left[q]
      /\ \A s \in Subscribers : Owes(p, s)' <=>
            Owes(p, s) /\ ~(Deliver(p) /\ s = Head(left[p]))
      /\ (Return(p) /\ left'[p] = <<>>) \/ UNCHANGED <<sending, pc>>
  BY <1>0, DeliverFacts
<1>2. /\ \A q \in Publishers \ {p} :
             (q \in sending' <=> q \in sending) /\ (Owes(q, viewer)' <=> Owes(q, viewer))
      /\ sending' \subseteq sending
      /\ Owes(p, viewer)' => p \in sending'
      /\ pc'[engine] = "ensure" =>
            pc[engine] = "ensure" /\ (p = engine => UNCHANGED <<sending, pc>>)
  <2>1. CASE Return(p) /\ left'[p] = <<>>
    <3>1. ~Owes(p, viewer)'
      BY <2>1 DEF Owes, In
    <3> QED
      BY <1>0, <1>1, <2>1, <3>1, ReturnFacts DEF Owes
  <2>2. CASE UNCHANGED <<sending, pc>>
    BY <1>0, <1>1, <2>2 DEF Owes
  <2> QED
    BY <1>1, <2>1, <2>2
<1>3. Coming' => Coming
  <2>1. ASSUME NEW q \in sending', q # other, Owes(q, viewer)'
        PROVE  Coming
    <3>1. q \in sending /\ Owes(q, viewer)
      BY <1>1, <1>2, <2>1
    <3> QED
      BY <2>1, <3>1 DEF Coming
  <2>2. ASSUME pc'[engine] = "ensure", engine \notin sending'
        PROVE  Coming
    BY <1>0, <1>2, <2>2 DEF Coming
  <2> QED
    BY <2>1, <2>2 DEF Coming
<1>4. dropped => dropped'
  BY DEF Deliver, DeliverToNobody
<1>5. CASE Deliver(p) /\ Head(left[p]) = viewer
  <2>0. PICK e \in Events : e = Event(p) /\ e.by = p
    BY <1>0, EventFacts
  <2>1. left[p] # <<>> /\ left[p] \in Seq(Subscribers)
    BY <1>5 DEF Deliver
  <2>2. Owes(p, viewer) /\ ~Owes(p, viewer)'
    <3>1. In(Head(left[p]), left[p])
      BY <2>1, TailIn
    <3>2. Owes(p, viewer)
      BY <1>5, <3>1 DEF Owes
    <3>3. Owes(p, viewer)' <=>
             Owes(p, viewer) /\ ~(Deliver(p) /\ viewer = Head(left[p]))
      BY <1>1
    <3> QED
      BY <1>5, <3>2, <3>3
  <2>3. vpc \in {"joined", "live", "leaving"}
    BY <2>2 DEF Control, Lists
  <2>4. CASE Len(chan[viewer]) >= Size(viewer)
    <3>1. chan' = [chan EXCEPT ![viewer] = chan[viewer]] /\ dropped'
      BY <1>5, <2>4 DEF Deliver
    <3> QED
      BY <1>1, <1>3, <3>1 DEF ViewerStays, Live
  <2>5. CASE ~(Len(chan[viewer]) >= Size(viewer))
    <3>1. chan' = [chan EXCEPT ![viewer] = Append(chan[viewer], e)]
      BY <1>5, <2>0, <2>5 DEF Deliver
    <3>2. chan'[viewer] = Append(Live, e)
      BY <3>1 DEF Live
    <3>3. CASE p = other
      <4>1. pc'[engine] = "ensure" <=> pc[engine] = "ensure"
        BY <1>0, <1>1, <3>3, ReturnFacts
      <4>2. Coming' <=> Coming
        BY <1>2, <3>3, <4>1, ComingSame
      <4> QED
        BY <1>1, <1>4, <2>0, <2>3, <3>2, <3>3, <4>2 DEF ViewerSent, Own
    <3>4. CASE p # other
      <4>1. Coming /\ published # <<>> /\ e = Latest
        BY <1>0, <2>0, <2>2, <3>4 DEF Coming, LatestSent
      <4>2. \A q \in sending' : q # other => ~Owes(q, viewer)'
        <5>1. \A q \in sending' : q # other => q = p
          BY <1>0, <1>2, <3>4, OneSender
        <5> QED
          BY <2>2, <5>1
      <4>3. ~(pc'[engine] = "ensure" /\ engine \notin sending')
        <5>1. p \in Steps => pc[engine] = "running"
          BY <1>0 DEF Control, Sending
        <5>2. p = engine \/ p \in Steps
          BY <3>4
        <5> QED
          BY <1>0, <1>2, <5>1, <5>2
      <4>4. ~Coming'
        BY <4>2, <4>3 DEF Coming
      <4> QED
        BY <1>1, <1>4, <2>0, <2>3, <3>2, <3>4, <4>1, <4>4 DEF ViewerSent, Own
    <3> QED
      BY <3>3, <3>4
  <2> QED
    BY <2>4, <2>5
<1>6. CASE ~(Deliver(p) /\ Head(left[p]) = viewer)
  <2>1. Owes(p, viewer)' <=> Owes(p, viewer)
    <3>1. Owes(p, viewer)' <=>
             Owes(p, viewer) /\ ~(Deliver(p) /\ viewer = Head(left[p]))
      BY <1>1
    <3> QED
      BY <1>6, <3>1
  <2>2. Coming => Coming'
    <3>1. ASSUME NEW q \in sending, q # other, Owes(q, viewer)
          PROVE  Coming'
      <4>1. q \in sending' /\ Owes(q, viewer)'
        BY <1>2, <2>1, <3>1
      <4> QED
        BY <3>1, <4>1 DEF Coming
    <3>2. ASSUME pc[engine] = "ensure", engine \notin sending
          PROVE  Coming'
      <4>1. pc'[engine] = pc[engine]
        BY <1>0, <1>1, <3>2, ReturnFacts
      <4> QED
        BY <1>2, <3>2, <4>1 DEF Coming
    <3> QED
      BY <3>1, <3>2 DEF Coming
  <2>3. chan'[viewer] = Live
    <3>1. CASE Deliver(p)
      <4>1. PICK c : chan' = [chan EXCEPT ![Head(left[p])] = c]
        BY <3>1 DEF Deliver
      <4> QED
        BY <1>6, <3>1, <4>1 DEF Live
    <3>2. CASE DeliverToNobody(p)
      BY <3>2 DEF DeliverToNobody, Live
    <3> QED
      BY <3>1, <3>2
  <2> QED
    BY <1>1, <1>3, <1>4, <2>2, <2>3 DEF ViewerStays
<1> QED
  BY <1>5, <1>6

LEMMA ExecutionViewer ==
    ASSUME Stored, Sequential, Execution \/ FailEarly
    PROVE  ViewerStays \/ \E e \in Events : ViewerAwaits(e)
<1> Control
  BY DEF Stored
<1> USE ControlFacts
<1>1. /\ UNCHANGED <<sending, left, chan, dropped, vpc, seen, replayed, skipped, early>>
      /\ engine \notin sending /\ pc[engine] # "ensure"
  BY DEF Execution, FailEarly, ExecuteReturns, StopCapture, UnsubscribeCapture,
         Drain, Ensure, bus, stream, Control, Sending
<1>2. CASE pc'[engine] # "ensure"
  <2>1. published' = published
    BY <1>2 DEF Execution, FailEarly, ExecuteReturns, StopCapture,
                UnsubscribeCapture, Drain, Ensure
  <2>2. Coming' <=> Coming
    BY <1>1, <1>2, ComingSame DEF Owes
  <2> QED
    BY <1>1, <2>1, <2>2 DEF ViewerStays, Live
<1>3. CASE pc'[engine] = "ensure"
  <2>1. Ensure /\ pc[engine] = "drained"
    BY <1>3 DEF Execution, FailEarly, ExecuteReturns, StopCapture,
                UnsubscribeCapture, Drain, Ensure
  <2>2. \A q \in sending : q = other
    BY <1>1, <2>1 DEF Control, Sending
  <2>3. ~Coming /\ Coming'
    BY <1>1, <1>3, <2>2 DEF Coming
  <2>4. PICK e \in Events : e = [by |-> engine, type |-> "workflow.completed"]
    BY DEF Events, Types
  <2>5. published' = Append(published, e)
    BY <1>3, <2>1, <2>4 DEF Ensure
  <2>6. published' # published
    <3>1. Len(Append(published, e)) = Len(published) + 1 /\ Len(published) \in Nat
      BY AppendFacts
    <3> QED
      BY <2>5, <3>1
  <2>7. PICK x \in Events : Ensured(x)
    BY <2>1, <2>6, EnsureMoves DEF NothingMoves
  <2>8. Own(x) /\ ~In(x, published) /\ published' = Append(published, x)
    BY <2>7 DEF Ensured, Own
  <2> QED
    BY <1>1, <2>3, <2>8 DEF ViewerAwaits, Live
<1> QED
  BY <1>2, <1>3

LEMMA ViewerMoves ==
    ASSUME Stored, Sequential, LatestSent, [Next]_vars
    PROVE  \/ ViewerStays
           \/ \E e \in Events : ViewerAwaits(e) \/ ViewerSent(e)
           \/ Subscribe \/ Replay \/ Receive \/ UnsubscribeViewer
<1> Control
  BY DEF Stored
<1> USE ControlFacts
<1>1. CASE Publish
  BY <1>1, RLockViewer, DeliverViewer DEF Publish
<1>2. CASE FailEarly \/ Execution
  BY <1>2, ExecutionViewer
<1>3. CASE Capture
  <2>1. UNCHANGED <<pc, sending, left, dropped, vpc, seen, replayed, skipped,
                    early, published>>
    BY <1>3 DEF Capture, stream
  <2>2. chan'[viewer] = Live
    BY <1>3 DEF Capture, Live
  <2> QED
    BY <2>1, <2>2, ComingSame DEF ViewerStays, Owes
<1>4. CASE Connect \/ ClientGone
  <2>1. /\ UNCHANGED <<pc, sending, left, dropped, chan, seen, replayed, skipped,
                       early, published>>
        /\ \/ vpc = "away" /\ vpc' = "joining"
           \/ vpc = "live" /\ vpc' = "leaving"
    BY <1>4 DEF Connect, ClientGone, Leave
  <2>2. Coming' <=> Coming
    BY <2>1, ComingSame DEF Owes
  <2> QED
    BY <2>1, <2>2 DEF ViewerStays, Live
<1>5. CASE UNCHANGED vars
  <2>1. UNCHANGED <<pc, sending, left, dropped, chan, vpc, seen, replayed,
                    skipped, early, published>>
    BY <1>5 DEF vars, bus, stream
  <2>2. Coming' <=> Coming
    BY <2>1, ComingSame DEF Owes
  <2> QED
    BY <2>1, <2>2 DEF ViewerStays, Live
<1> QED
  BY <1>1, <1>2, <1>3, <1>4, <1>5 DEF Next, Viewer, Finished

LEMMA ViewerFacts ==
    ASSUME Stored, Ordered
    PROVE  /\ DOMAIN published = 1..Len(published) /\ Len(published) \in Nat
           /\ DOMAIN seen = 1..Len(seen) /\ Len(seen) \in Nat
           /\ published \in Seq(Events) /\ seen \in Seq(Events)
           /\ Live \in Seq(Events)
           /\ Once(published) /\ \A x : In(x, published) => Own(x)
           /\ replayed \in Nat /\ skipped \in Nat /\ skipped <= replayed
           /\ replayed <= Len(seen) /\ Taken \in Nat
           /\ Len(seen) > replayed => Taken = Len(seen)
           /\ skipped = replayed => Taken = Len(seen)
           /\ \A k \in DOMAIN published : In(published[k], published)
<1>1. /\ published \in Seq(Events) /\ seen \in Seq(Events)
      /\ Live \in Seq(Events)
  BY ControlFacts DEF Stored, Live
<1>2. /\ DOMAIN published = 1..Len(published) /\ Len(published) \in Nat
      /\ DOMAIN seen = 1..Len(seen) /\ Len(seen) \in Nat
  BY <1>1, DomainOf
<1>3. Once(published) /\ \A x : In(x, published) => Own(x)
  BY DEF Stored, PublishedOnce, Reached, Own
<1>4. replayed \in Nat /\ skipped \in Nat /\ skipped <= replayed
  BY DEF Stored, Control, TypeOK
<1>5. /\ replayed <= Len(seen)
      /\ Len(seen) > replayed => skipped = replayed
  BY DEF Ordered, ViewerHas
<1>6. /\ Taken \in Nat
      /\ Len(seen) > replayed => Taken = Len(seen)
      /\ skipped = replayed => Taken = Len(seen)
  BY <1>2, <1>4, <1>5 DEF Taken
<1>7. \A k \in DOMAIN published : In(published[k], published)
  BY DEF In
<1> QED
  BY <1>1, <1>2, <1>3, <1>4, <1>5, <1>6, <1>7

LEMMA StaysOrdered ==
    ASSUME Stored, Ordered, ViewerStays
    PROVE  ViewerHas' /\ ViewerInOrder' /\ MissesNone'
<1> USE ViewerFacts
<1>1. /\ UNCHANGED <<published, seen, replayed, skipped, early>> /\ Live' = Live
      /\ Taken' = Taken /\ Latest' = Latest
      /\ Coming' => Coming
  BY DEF ViewerStays, Live, Taken, Latest
<1>2. ViewerHas'
  BY <1>1 DEF Ordered, ViewerHas, ViewerStays
<1>3. ViewerInOrder'
  BY <1>1 DEF Ordered, ViewerInOrder
<1>4. MissesNone'
  <2> SUFFICES ASSUME early', ~dropped'
               PROVE  /\ Prefix(seen', published')
                      /\ vpc' \in {"joined", "live"} =>
                            \A k \in (Taken' + 1)..Len(published') :
                               \/ In(published'[k], Live')
                               \/ k = Len(published') /\ Coming'
    BY DEF MissesNone
  <2>1. early /\ ~dropped
    BY <1>1 DEF ViewerStays
  <2>2. vpc' \in {"joined", "live"} =>
            vpc \in {"joined", "live"} /\ (Coming => Coming')
    BY DEF ViewerStays
  <2> QED
    BY <1>1, <2>1, <2>2 DEF Ordered, MissesNone
<1> QED
  BY <1>2, <1>3, <1>4

LEMMA AwaitsOrdered ==
    ASSUME Stored, Ordered, NEW e \in Events, ViewerAwaits(e)
    PROVE  ViewerHas' /\ ViewerInOrder' /\ MissesNone'
<1> USE ViewerFacts
<1>1. /\ UNCHANGED <<vpc, seen, replayed, skipped, early, dropped>>
      /\ Live' = Live /\ Taken' = Taken
      /\ Own(e) /\ ~In(e, published) /\ published' = Append(published, e)
      /\ ~Coming /\ (vpc \in {"joined", "live"} => Coming')
  BY DEF ViewerAwaits, Live, Taken
<1>2. /\ DOMAIN published' = 1..(Len(published) + 1)
      /\ Len(published') = Len(published) + 1
      /\ published'[Len(published) + 1] = e
      /\ \A k \in DOMAIN published : k \in DOMAIN published'
                                     /\ published'[k] = published[k]
  BY <1>1, AppendFacts, DomainOf
<1>3. \A x : In(x, published') <=> In(x, published) \/ x = e
  BY <1>1, AppendIn
<1>4. \A k \in DOMAIN published' : k \in DOMAIN published \/ k = Len(published) + 1
  BY <1>2
<1>5. \A x : \A k \in DOMAIN published' :
          In(x, published) /\ x = published'[k] =>
              k \in DOMAIN published /\ x = published[k]
  BY <1>1, <1>2, <1>4
<1>6. /\ \A x : In(x, Live) /\ Own(x) => In(x, published)
      /\ \A i \in DOMAIN seen : In(seen[i], published)
      /\ ~In(e, Live) /\ ~In(e, seen)
  BY <1>1 DEF Ordered, ViewerHas, In
<1>7. ViewerHas'
  BY <1>1, <1>3 DEF Ordered, ViewerHas
<1>8. ViewerInOrder'
  <2>1. Taken' <= Len(published')
    BY <1>1, <1>2 DEF Ordered, ViewerInOrder
  <2>2. \A i \in DOMAIN seen' : i <= replayed' =>
            i \in DOMAIN published' /\ seen'[i] = published'[i]
    BY <1>1, <1>2 DEF Ordered, ViewerInOrder
  <2>3. \A i \in DOMAIN seen : \A k \in DOMAIN published' :
            seen[i] = published'[k] => k \in DOMAIN published /\ seen[i] = published[k]
    BY <1>5, <1>6
  <2>4. \A i \in DOMAIN seen' : \A k \in DOMAIN published' :
            i > replayed' /\ seen'[i] = published'[k] => k > replayed'
    BY <1>1, <2>3 DEF Ordered, ViewerInOrder
  <2>5. \A i, j \in DOMAIN seen' : \A k, m \in DOMAIN published' :
            /\ replayed' < i /\ i < j
            /\ seen'[i] = published'[k] /\ seen'[j] = published'[m]
            => k < m
    BY <1>1, <2>3 DEF Ordered, ViewerInOrder
  <2>6. \A k \in DOMAIN published' : In(published'[k], Live') =>
            k \in DOMAIN published /\ In(published[k], Live)
    BY <1>1, <1>2, <1>4, <1>6
  <2>7. \A k \in DOMAIN published' : In(published'[k], Live') =>
            /\ k > Taken'
            /\ \A j \in DOMAIN seen' : \A m \in DOMAIN published' :
                  j > replayed' /\ seen'[j] = published'[m] => m < k
    BY <1>1, <2>3, <2>6 DEF Ordered, ViewerInOrder
  <2>8. Ascending(Live', published')
    BY <1>1, <1>6, AscendingAnnounced DEF Ordered, ViewerInOrder
  <2>9. Taken' < Len(published')
    BY <1>1, <1>2 DEF Ordered, ViewerInOrder
  <2>10. Latest' = e
    BY <1>1, LatestAppended
  <2>11. ~In(Latest', Live') /\ \A j \in DOMAIN seen' : seen'[j] # Latest'
    BY <1>1, <1>6, <2>10 DEF In
  <2> QED
    BY <2>1, <2>2, <2>4, <2>5, <2>7, <2>8, <2>9, <2>11 DEF ViewerInOrder
<1>9. MissesNone'
  <2> SUFFICES ASSUME early', ~dropped'
               PROVE  /\ Prefix(seen', published')
                      /\ vpc' \in {"joined", "live"} =>
                            \A k \in (Taken' + 1)..Len(published') :
                               \/ In(published'[k], Live')
                               \/ k = Len(published') /\ Coming'
    BY DEF MissesNone
  <2>1. early /\ ~dropped
    BY <1>1
  <2>2. Prefix(seen', published')
    BY <1>1, <2>1, PrefixAppended DEF Ordered, MissesNone
  <2>3. ASSUME vpc' \in {"joined", "live"},
               NEW k \in (Taken' + 1)..Len(published'), k # Len(published')
        PROVE  In(published'[k], Live')
    <3>1. k \in (Taken + 1)..Len(published) /\ k \in DOMAIN published
      BY <1>1, <1>2, <2>3
    <3>2. In(published[k], Live)
      BY <1>1, <2>1, <2>3, <3>1 DEF Ordered, MissesNone
    <3> QED
      BY <1>1, <1>2, <3>1, <3>2
  <2> QED
    BY <1>1, <2>2, <2>3
<1> QED
  BY <1>7, <1>8, <1>9

LEMMA SentOrdered ==
    ASSUME Stored, Ordered, NEW e \in Events, ViewerSent(e)
    PROVE  ViewerHas' /\ ViewerInOrder' /\ MissesNone'
<1> USE ViewerFacts
<1>1. /\ UNCHANGED <<published, vpc, seen, replayed, skipped, early>>
      /\ Live' = Append(Live, e) /\ Taken' = Taken /\ Latest' = Latest
      /\ vpc \in {"joined", "live", "leaving"}
      /\ dropped => dropped'
  BY DEF ViewerSent, Live, Taken, Latest
<1>2. \A x : In(x, Live') <=> In(x, Live) \/ x = e
  BY <1>1, AppendIn
<1>3. Own(e) => /\ published # <<>> /\ e = Latest /\ Coming /\ ~Coming'
                /\ Taken < Len(published) /\ ~In(e, Live)
                /\ Len(published) \in DOMAIN published
                /\ e = published[Len(published)]
  <2>1. Own(e) => published # <<>> /\ e = Latest /\ Coming /\ ~Coming'
    BY DEF ViewerSent
  <2>2. Coming => Taken < Len(published) /\ ~In(Latest, Live)
    BY DEF Ordered, ViewerInOrder
  <2>3. Taken < Len(published) => Len(published) \in DOMAIN published
    OBVIOUS
  <2> QED
    BY <2>1, <2>2, <2>3 DEF Latest
<1>4. ~Own(e) => (Coming' <=> Coming) /\ ~In(e, published)
  BY DEF ViewerSent
<1>5. ViewerHas'
  <2>1. \A x : In(x, Live') /\ Own(x) => In(x, published')
    BY <1>1, <1>2, <1>3 DEF Ordered, ViewerHas
  <2> QED
    BY <1>1, <2>1 DEF Ordered, ViewerHas
<1>6. ViewerInOrder'
  <2>1. \A k \in DOMAIN published : In(published[k], Live') =>
            In(published[k], Live) \/ (Own(e) /\ k = Len(published))
    <3> SUFFICES ASSUME NEW k \in DOMAIN published, published[k] = e
                 PROVE  Own(e) /\ k = Len(published)
      BY <1>2
    <3>1. Own(e)
      BY <1>4
    <3> QED
      BY <1>3, <3>1 DEF Once
  <2>2. Own(e) => \A j \in DOMAIN seen : \A m \in DOMAIN published :
            j > replayed /\ seen[j] = published[m] => m < Len(published)
    <3> SUFFICES ASSUME Own(e), NEW j \in DOMAIN seen, NEW m \in DOMAIN published,
                        j > replayed, seen[j] = published[m]
                 PROVE  m < Len(published)
      OBVIOUS
    <3>1. published[m] # e
      BY <1>3 DEF Ordered, ViewerInOrder
    <3>2. m # Len(published)
      BY <1>3, <3>1
    <3> QED
      BY <3>2
  <2>3. \A k \in DOMAIN published : In(published[k], Live') =>
            /\ k > Taken
            /\ \A j \in DOMAIN seen : \A m \in DOMAIN published :
                  j > replayed /\ seen[j] = published[m] => m < k
    BY <1>3, <2>1, <2>2 DEF Ordered, ViewerInOrder
  <2>4. Ascending(Live', published)
    <3>1. Ascending(Live, published)
      BY DEF Ordered, ViewerInOrder
    <3>2. Own(e) => published # <<>> /\ e = published[Len(published)] /\ ~In(e, Live)
      BY <1>3
    <3> QED
      BY <1>1, <3>1, <3>2, AscendingDelivered
  <2>5. Coming' =>
            /\ Taken < Len(published) /\ ~In(Latest, Live')
            /\ \A j \in DOMAIN seen : j > replayed => seen[j] # Latest
    <3> SUFFICES ASSUME Coming'
                 PROVE  /\ Taken < Len(published) /\ ~In(Latest, Live')
                        /\ \A j \in DOMAIN seen : j > replayed => seen[j] # Latest
      OBVIOUS
    <3>1. ~Own(e) /\ Coming /\ ~In(e, published)
      BY <1>3, <1>4
    <3>2. /\ Taken < Len(published) /\ ~In(Latest, Live)
          /\ \A j \in DOMAIN seen : j > replayed => seen[j] # Latest
      BY <3>1 DEF Ordered, ViewerInOrder
    <3>3. Len(published) \in DOMAIN published
      BY <3>2
    <3>4. In(Latest, published)
      BY <3>3 DEF Latest
    <3>5. Latest # e
      BY <3>1, <3>4
    <3> QED
      BY <1>2, <3>2, <3>5
  <2> QED
    BY <1>1, <2>3, <2>4, <2>5 DEF Ordered, ViewerInOrder
<1>7. MissesNone'
  <2> SUFFICES ASSUME early', ~dropped'
               PROVE  /\ Prefix(seen', published')
                      /\ vpc' \in {"joined", "live"} =>
                            \A k \in (Taken' + 1)..Len(published') :
                               \/ In(published'[k], Live')
                               \/ k = Len(published') /\ Coming'
    BY DEF MissesNone
  <2>1. early /\ ~dropped
    BY <1>1
  <2>2. ASSUME vpc \in {"joined", "live"}, NEW k \in (Taken + 1)..Len(published)
        PROVE  In(published[k], Live') \/ (k = Len(published) /\ Coming')
    <3>1. In(published[k], Live) \/ (k = Len(published) /\ Coming)
      BY <2>1, <2>2 DEF Ordered, MissesNone
    <3> QED
      BY <1>2, <1>3, <1>4, <3>1
  <2> QED
    BY <1>1, <2>1, <2>2 DEF Ordered, MissesNone
<1> QED
  BY <1>5, <1>6, <1>7

LEMMA SubscribeOrdered ==
    ASSUME Stored, Ordered, Subscribe
    PROVE  ViewerHas' /\ ViewerInOrder' /\ MissesNone'
<1> USE ViewerFacts
<1>0. Control
  BY DEF Stored
<1>1. /\ UNCHANGED <<pc, sending, left, chan, published, seen, replayed, skipped>>
      /\ vpc = "joining" /\ vpc' = "joined" /\ early' = (published = <<>>)
  BY DEF Subscribe
<1>2. Coming' <=> Coming
  BY <1>0, <1>1, ControlFacts, ComingSame DEF Owes
<1>3. Live' = Live /\ Taken' = Taken /\ Latest' = Latest
  BY <1>1 DEF Live, Taken, Latest
<1>4. seen = <<>>
  BY <1>0, <1>1 DEF Control, Fresh
<1>5. ViewerHas'
  BY <1>1, <1>3 DEF Ordered, ViewerHas
<1>6. ViewerInOrder'
  BY <1>1, <1>2, <1>3 DEF Ordered, ViewerInOrder
<1>7. MissesNone'
  <2>1. published = <<>> => Len(published) = 0 /\ Prefix(seen, published)
    BY <1>4 DEF Prefix
  <2>2. published = <<>> => ~ \E k \in (Taken + 1)..Len(published) : TRUE
    BY <2>1
  <2> QED
    BY <1>1, <1>3, <2>1, <2>2 DEF MissesNone
<1> QED
  BY <1>5, <1>6, <1>7

LEMMA ReplayOrdered ==
    ASSUME Stored, Ordered, Replay
    PROVE  ViewerHas' /\ ViewerInOrder' /\ MissesNone'
<1> USE ViewerFacts
<1>0. Control
  BY DEF Stored
<1>1. /\ UNCHANGED <<pc, sending, left, chan, dropped, published, skipped, early>>
      /\ vpc = "joined" /\ vpc' \in {"live", "leaving"}
  BY DEF Replay, Leave
<1>2. PICK n \in 0..Len(log) : seen' = SubSeq(log, 1, n) /\ replayed' = n
  BY DEF Replay
<1>3. Coming' <=> Coming
  BY <1>0, <1>1, ControlFacts, ComingSame DEF Owes
<1>4. seen = <<>> /\ replayed = 0 /\ skipped = 0
  BY <1>0, <1>1 DEF Control, Fresh
<1>5. /\ log \in Seq(Events) /\ Len(log) \in Nat /\ DOMAIN log = 1..Len(log)
  BY <1>0, ControlFacts, DomainOf
<1>6. /\ seen' \in Seq(Events) /\ Len(seen') = n /\ DOMAIN seen' = 1..n
      /\ \A i \in 1..n : seen'[i] = log[i]
  BY <1>2, <1>5
<1>7. Len(log) <= Len(published) /\ \A i \in 1..Len(log) : log[i] = published[i]
  BY <1>5 DEF Ordered, LogInOrder, Prefix
<1>8. \A i \in 1..n : i \in DOMAIN published /\ seen'[i] = published[i]
  BY <1>5, <1>6, <1>7
<1>9. Live' = Live /\ Latest' = Latest /\ Taken = 0 /\ Taken' = 0
  BY <1>1, <1>2, <1>4, <1>6 DEF Live, Latest, Taken
<1>10. ViewerHas'
  <2>1. \A x : In(x, seen') => In(x, published')
    BY <1>1, <1>6, <1>8 DEF In
  <2> QED
    BY <1>1, <1>2, <1>6, <1>9, <2>1 DEF Ordered, ViewerHas
<1>11. ViewerInOrder'
  <2>1. ~ \E i \in DOMAIN seen' : i > replayed'
    BY <1>2, <1>6
  <2> QED
    BY <1>1, <1>2, <1>3, <1>6, <1>8, <1>9, <2>1 DEF Ordered, ViewerInOrder
<1>12. MissesNone'
  <2>1. Prefix(seen', published')
    BY <1>1, <1>5, <1>6, <1>7, <1>8 DEF Prefix
  <2> QED
    BY <1>1, <1>3, <1>9, <2>1 DEF Ordered, MissesNone
<1> QED
  BY <1>10, <1>11, <1>12

LEMMA UnsubscribeViewerOrdered ==
    ASSUME Stored, Ordered, UnsubscribeViewer
    PROVE  ViewerHas' /\ ViewerInOrder' /\ MissesNone'
<1> USE ViewerFacts
<1>0. Control
  BY DEF Stored
<1>1. /\ UNCHANGED <<pc, sending, left, dropped, published, seen, replayed,
                     skipped, early>>
      /\ vpc' = "gone" /\ chan' = [chan EXCEPT ![viewer] = <<>>]
  BY DEF UnsubscribeViewer
<1>2. Live' = <<>> /\ Taken' = Taken /\ Latest' = Latest /\ \A x : ~In(x, Live')
  <2>1. Live' = <<>>
    BY <1>0, <1>1, ControlFacts DEF Live
  <2> QED
    BY <1>1, <2>1 DEF Taken, Latest, In
<1>3. Coming' <=> Coming
  BY <1>0, <1>1, ControlFacts, ComingSame DEF Owes
<1>4. ViewerHas'
  BY <1>1, <1>2 DEF Ordered, ViewerHas
<1>5. ViewerInOrder'
  <2>1. Ascending(Live', published')
    BY <1>2 DEF Ascending
  <2> QED
    BY <1>1, <1>2, <1>3, <2>1 DEF Ordered, ViewerInOrder
<1>6. MissesNone'
  BY <1>1 DEF Ordered, MissesNone
<1> QED
  BY <1>4, <1>5, <1>6

\* The head of the viewer's channel, and what it says of what follows.
LEMMA HeadFacts ==
    ASSUME Stored, Ordered, Receive
    PROVE  \E e \in Events :
              /\ e = Head(Live) /\ Live' = Tail(Live) /\ Live # <<>>
              /\ \A x : In(x, Live) <=> x = e \/ In(x, Live')
              /\ Ascending(Live', published)
              /\ \A k \in DOMAIN published : In(published[k], Live') => e # published[k]
              /\ ~Own(e) => ~In(e, published)
              /\ Own(e) => \E k \in DOMAIN published :
                     /\ e = published[k] /\ Taken < k
                     /\ \A m \in DOMAIN published : In(published[m], Live') => k < m
                     /\ Coming => k < Len(published)
<1> USE ViewerFacts
<1>1. Live # <<>>
  BY DEF Receive, Live
<1>2. Live' = Tail(Live)
  BY ControlFacts DEF Receive, Live, Stored
<1>3. PICK e \in Events : e = Head(Live)
  BY <1>1, TailFacts
<1>4. \A x : In(x, Live) <=> x = e \/ In(x, Live')
  BY <1>1, <1>2, <1>3, TailIn
<1>5. /\ Ascending(Live', published)
      /\ \A k, m \in DOMAIN published :
            e = published[k] /\ In(published[m], Live') => k < m
  BY <1>1, <1>2, <1>3, AscendingTail DEF Ordered, ViewerInOrder
<1>6. \A k \in DOMAIN published : In(published[k], Live') => e # published[k]
  BY <1>5
<1>7. ~Own(e) => ~In(e, published)
  OBVIOUS
<1>8. ASSUME Own(e)
      PROVE  \E k \in DOMAIN published :
                     /\ e = published[k] /\ Taken < k
                     /\ \A m \in DOMAIN published : In(published[m], Live') => k < m
                     /\ Coming => k < Len(published)
  <2>1. In(e, published)
    BY <1>4, <1>8 DEF Ordered, ViewerHas
  <2>2. PICK k \in DOMAIN published : published[k] = e
    BY <2>1 DEF In
  <2>3. Taken < k
    BY <1>4, <2>2 DEF Ordered, ViewerInOrder
  <2>4. Coming => k # Len(published)
    BY <1>4, <2>2 DEF Ordered, ViewerInOrder, Latest
  <2>5. k \in Nat /\ k <= Len(published)
    OBVIOUS
  <2>6. Coming => k < Len(published)
    BY <2>4, <2>5
  <2> QED
    BY <1>5, <2>2, <2>3, <2>6
<1> QED
  BY <1>1, <1>2, <1>3, <1>4, <1>5, <1>6, <1>7, <1>8

\* With nothing missed so far, the head is the event that is due.
LEMMA HeadIsNext ==
    ASSUME Stored, Ordered, Receive, early, ~dropped,
           NEW k \in DOMAIN published, Taken < k,
           \A m \in DOMAIN published : In(published[m], Live') => k < m,
           Coming => k < Len(published),
           \A x : In(x, Live) => x = published[k] \/ In(x, Live')
    PROVE  k = Taken + 1
<1> USE ViewerFacts
<1> DEFINE n == Taken + 1
<1>1. k \in 1..Len(published) /\ n \in 1..Len(published) /\ n <= k
  OBVIOUS
<1>2. n \in (Taken + 1)..Len(published) /\ n \in DOMAIN published
  BY <1>1
<1>3. vpc = "live"
  BY DEF Receive
<1> HIDE DEF n
<1>4. In(published[n], Live) \/ (n = Len(published) /\ Coming)
  BY <1>2, <1>3 DEF Ordered, MissesNone
<1>5. CASE n = Len(published) /\ Coming
  BY <1>1, <1>5
<1>6. CASE In(published[n], Live)
  <2>1. published[n] = published[k] \/ k < n
    BY <1>2, <1>6
  <2>2. published[n] = published[k]
    BY <1>1, <2>1
  <2> QED
    BY <1>2, <2>2 DEF Once, n
<1> QED
  BY <1>4, <1>5, <1>6

LEMMA ReceiveOrdered ==
    ASSUME Stored, Ordered, Receive
    PROVE  ViewerHas' /\ ViewerInOrder' /\ MissesNone'
<1> USE ViewerFacts
<1>0. Control
  BY DEF Stored
<1>1. /\ UNCHANGED <<pc, sending, left, dropped, published, replayed, early>>
      /\ vpc = "live" /\ vpc' \in {"live", "leaving"}
  BY DEF Receive, Leave
<1>2. Coming' <=> Coming
  BY <1>0, <1>1, ControlFacts, ComingSame DEF Owes
<1>3. PICK e \in Events :
          /\ e = Head(Live) /\ Live' = Tail(Live) /\ Live # <<>>
          /\ \A x : In(x, Live) <=> x = e \/ In(x, Live')
          /\ Ascending(Live', published)
          /\ \A k \in DOMAIN published : In(published[k], Live') => e # published[k]
          /\ ~Own(e) => ~In(e, published)
          /\ Own(e) => \E k \in DOMAIN published :
                 /\ e = published[k] /\ Taken < k
                 /\ \A m \in DOMAIN published : In(published[m], Live') => k < m
                 /\ Coming => k < Len(published)
  BY HeadFacts
<1>4. \/ ~Own(e) /\ UNCHANGED <<skipped, seen>>
      \/ Own(e) /\ skipped < replayed /\ skipped' = skipped + 1 /\ UNCHANGED seen
      \/ Own(e) /\ skipped = replayed /\ UNCHANGED skipped /\ seen' = Append(seen, e)
  BY <1>3 DEF Receive, Skipping, Own, Live
<1>5. Latest' = Latest
  BY <1>1 DEF Latest
<1>6. /\ \A x : In(x, Live') => In(x, Live)
      /\ \A x : In(x, Live') /\ Own(x) => In(x, published)
  BY <1>3 DEF Ordered, ViewerHas
<1>7. CASE ~Own(e) /\ UNCHANGED <<skipped, seen>>
  <2>1. Taken' = Taken
    BY <1>1, <1>7 DEF Taken
  <2>2. ViewerHas'
    BY <1>1, <1>6, <1>7 DEF Ordered, ViewerHas
  <2>3. ViewerInOrder'
    BY <1>1, <1>2, <1>3, <1>5, <1>6, <1>7, <2>1 DEF Ordered, ViewerInOrder
  <2>4. \A k \in DOMAIN published : In(published[k], Live) => In(published[k], Live')
    BY <1>3, <1>7
  <2>5. \A k \in (Taken + 1)..Len(published) : k \in DOMAIN published
    OBVIOUS
  <2>6. MissesNone'
    BY <1>1, <1>2, <1>7, <2>1, <2>4, <2>5 DEF Ordered, MissesNone
  <2> QED
    BY <2>2, <2>3, <2>6
<1>8. CASE Own(e)
  <2>1. PICK k \in DOMAIN published :
            /\ e = published[k] /\ Taken < k
            /\ \A m \in DOMAIN published : In(published[m], Live') => k < m
            /\ Coming => k < Len(published)
    BY <1>3, <1>8
  <2>2. /\ k \in Nat /\ k <= Len(published) /\ Taken + 1 <= k
        /\ Taken + 1 \in Nat
    BY <2>1
  <2>3. early /\ ~dropped => k = Taken + 1
    BY <1>3, <2>1, HeadIsNext
  <2>4. \A m \in DOMAIN published : In(published[m], Live') => m > Taken + 1
    BY <2>1, <2>2
  <2>5. early /\ ~dropped => \A m \in (Taken + 2)..Len(published) :
            In(published[m], Live') \/ (m = Len(published) /\ Coming)
    <3> SUFFICES ASSUME early, ~dropped, NEW m \in (Taken + 2)..Len(published)
                 PROVE  In(published[m], Live') \/ (m = Len(published) /\ Coming)
      OBVIOUS
    <3>1. m \in (Taken + 1)..Len(published) /\ m \in DOMAIN published /\ m # k
      BY <2>3
    <3>2. In(published[m], Live) \/ (m = Len(published) /\ Coming)
      BY <1>1, <3>1 DEF Ordered, MissesNone
    <3>3. published[m] # e
      BY <2>1, <3>1 DEF Once
    <3> QED
      BY <1>3, <3>2, <3>3
  <2>6. Coming => Taken + 1 < Len(published)
    BY <2>1, <2>2
  <2>7. CASE skipped < replayed /\ skipped' = skipped + 1 /\ UNCHANGED seen
    <3>1. Taken' = Taken + 1 /\ Len(seen) = replayed
      BY <1>1, <2>7 DEF Taken, Ordered, ViewerHas
    <3>2. ViewerHas'
      BY <1>1, <1>6, <2>7, <3>1 DEF Ordered, ViewerHas
    <3>3. ViewerInOrder'
      <4>1. Taken' <= Len(published)
        BY <2>2, <3>1
      <4>2. \A m \in DOMAIN published : In(published[m], Live') => m > Taken'
        BY <2>4, <3>1
      <4>3. Coming => Taken' < Len(published)
        BY <2>6, <3>1
      <4> QED
        BY <1>1, <1>2, <1>3, <1>5, <1>6, <2>7, <4>1, <4>2, <4>3
           DEF Ordered, ViewerInOrder
    <3>4. MissesNone'
      <4>1. (Taken' + 1)..Len(published) = (Taken + 2)..Len(published)
        BY <3>1
      <4> QED
        BY <1>1, <1>2, <2>5, <2>7, <4>1 DEF Ordered, MissesNone
    <3> QED
      BY <3>2, <3>3, <3>4
  <2>8. CASE skipped = replayed /\ UNCHANGED skipped /\ seen' = Append(seen, e)
    <3>1. /\ DOMAIN seen' = 1..(Len(seen) + 1) /\ Len(seen') = Len(seen) + 1
          /\ seen'[Len(seen) + 1] = e
          /\ \A i \in DOMAIN seen : seen'[i] = seen[i]
      BY <2>8, AppendFacts, DomainOf
    <3>2. \A i \in DOMAIN seen' : i \in DOMAIN seen \/ i = Len(seen) + 1
      BY <3>1
    <3>3. Taken = Len(seen) /\ Taken' = Taken + 1
      BY <1>1, <2>8, <3>1 DEF Taken
    <3>4. \A x : In(x, seen') <=> In(x, seen) \/ x = e
      BY <2>8, AppendIn
    <3>5. ViewerHas'
      <4>1. In(e, published)
        BY <2>1
      <4> QED
        BY <1>1, <1>6, <2>8, <3>1, <3>4, <4>1 DEF Ordered, ViewerHas
    <3>6. ViewerInOrder'
      <4>1. Taken' <= Len(published)
        BY <2>2, <3>3
      <4>2. \A i \in DOMAIN seen' : i <= replayed =>
                i \in DOMAIN published /\ seen'[i] = published[i]
        <5>1. \A i \in DOMAIN seen' : i <= replayed => i \in DOMAIN seen
          BY <3>1
        <5> QED
          BY <3>1, <5>1 DEF Ordered, ViewerInOrder
      <4>3. \A m \in DOMAIN published : e = published[m] => m = k
        BY <2>1 DEF Once
      <4>4. \A i \in DOMAIN seen' : \A m \in DOMAIN published :
                i > replayed /\ seen'[i] = published[m] => m > replayed
        <5>1. k > replayed
          BY <2>2, <3>3
        <5> QED
          BY <3>1, <3>2, <4>3, <5>1 DEF Ordered, ViewerInOrder
      <4>5. \A i \in DOMAIN seen : \A m \in DOMAIN published :
                i > replayed /\ seen[i] = published[m] => m < k
        BY <1>3, <2>1 DEF Ordered, ViewerInOrder
      <4>6. \A i, j \in DOMAIN seen' : \A m, n \in DOMAIN published :
                /\ replayed < i /\ i < j
                /\ seen'[i] = published[m] /\ seen'[j] = published[n]
                => m < n
        <5> SUFFICES ASSUME NEW i \in DOMAIN seen', NEW j \in DOMAIN seen',
                            NEW m \in DOMAIN published, NEW n \in DOMAIN published,
                            replayed < i, i < j,
                            seen'[i] = published[m], seen'[j] = published[n]
                     PROVE  m < n
          OBVIOUS
        <5>1. i \in DOMAIN seen
          BY <3>1
        <5>2. CASE j \in DOMAIN seen
          BY <3>1, <5>1, <5>2 DEF Ordered, ViewerInOrder
        <5>3. CASE j = Len(seen) + 1
          BY <3>1, <4>3, <4>5, <5>1, <5>3
        <5> QED
          BY <3>2, <5>2, <5>3
      <4>7. \A m \in DOMAIN published : In(published[m], Live') =>
                /\ m > Taken'
                /\ \A j \in DOMAIN seen' : \A n \in DOMAIN published :
                      j > replayed /\ seen'[j] = published[n] => n < m
        <5> SUFFICES ASSUME NEW m \in DOMAIN published, In(published[m], Live')
                     PROVE  /\ m > Taken'
                            /\ \A j \in DOMAIN seen' : \A n \in DOMAIN published :
                                  j > replayed /\ seen'[j] = published[n] => n < m
          OBVIOUS
        <5>1. m > Taken' /\ k < m
          BY <2>1, <2>4, <3>3
        <5>2. \A j \in DOMAIN seen : \A n \in DOMAIN published :
                  j > replayed /\ seen[j] = published[n] => n < m
          BY <1>6 DEF Ordered, ViewerInOrder
        <5> QED
          BY <3>1, <3>2, <4>3, <5>1, <5>2
      <4>8. Coming => /\ Taken' < Len(published) /\ ~In(Latest, Live')
                      /\ \A j \in DOMAIN seen' : j > replayed => seen'[j] # Latest
        <5> SUFFICES ASSUME Coming
                     PROVE  /\ Taken' < Len(published) /\ ~In(Latest, Live')
                            /\ \A j \in DOMAIN seen' :
                                  j > replayed => seen'[j] # Latest
          OBVIOUS
        <5>1. Taken' < Len(published)
          BY <2>6, <3>3
        <5>2. ~In(Latest, Live)
          BY DEF Ordered, ViewerInOrder
        <5>3. ~In(Latest, Live') /\ e # Latest
          BY <1>3, <5>2
        <5>4. \A j \in DOMAIN seen : j > replayed => seen[j] # Latest
          BY DEF Ordered, ViewerInOrder
        <5> QED
          BY <3>1, <3>2, <5>1, <5>3, <5>4
      <4> QED
        BY <1>1, <1>2, <1>3, <1>5, <4>1, <4>2, <4>4, <4>6, <4>7, <4>8
           DEF ViewerInOrder
    <3>7. MissesNone'
      <4>1. (Taken' + 1)..Len(published) = (Taken + 2)..Len(published)
        BY <3>3
      <4>2. early /\ ~dropped => Prefix(Append(seen, e), published)
        <5> SUFFICES ASSUME early, ~dropped
                     PROVE  Prefix(Append(seen, e), published)
          OBVIOUS
        <5>1. Len(seen) < Len(published) /\ e = published[Len(seen) + 1]
          BY <2>1, <2>2, <2>3, <3>3
        <5>2. Prefix(seen, published)
          BY DEF Ordered, MissesNone
        <5> QED
          BY <5>1, <5>2, PrefixAppended
      <4> QED
        BY <1>1, <1>2, <2>5, <2>8, <4>1, <4>2 DEF MissesNone
    <3> QED
      BY <3>5, <3>6, <3>7
  <2> QED
    BY <1>4, <1>8, <2>7, <2>8
<1> QED
  BY <1>4, <1>7, <1>8

LEMMA InitOrdered == Init => Ordered
<1> SUFFICES ASSUME Init PROVE Ordered
  OBVIOUS
<1>1. /\ log = <<>> /\ published = <<>> /\ seen = <<>> /\ Cap = <<>> /\ Live = <<>>
      /\ sending = {} /\ pc[engine] = "start" /\ replayed = 0 /\ skipped = 0
      /\ ~early
  BY InitControl, ControlFacts DEF Init, Cap, Live
<1>2. /\ Len(published) = 0 /\ Len(seen) = 0 /\ Len(log) = 0
      /\ DOMAIN log = {} /\ DOMAIN published = {} /\ DOMAIN seen = {}
      /\ DOMAIN Cap = {} /\ DOMAIN Live = {}
  BY <1>1
<1>3. \A e : ~In(e, seen) /\ ~In(e, Live)
  BY <1>2 DEF In
<1>4. LatestSent
  BY <1>1 DEF LatestSent
<1>5. LogInOrder
  BY <1>2 DEF LogInOrder, Prefix, Ascending
<1>6. ViewerHas
  BY <1>1, <1>2, <1>3 DEF ViewerHas
<1>7. ~Coming /\ Taken = 0
  BY <1>1, <1>2 DEF Coming, Taken
<1>8. ViewerInOrder
  BY <1>2, <1>7 DEF ViewerInOrder, Ascending
<1>9. MissesNone
  BY <1>1 DEF MissesNone
<1> QED
  BY <1>4, <1>5, <1>6, <1>8, <1>9 DEF Ordered

\* Nothing changes how the steps depend on each other.
LEMMA AfterStays ==
    ASSUME [Next]_vars
    PROVE  Sequential' <=> Sequential
<1>1. after' = after
  BY DEF Next, Publish, RLock, Deliver, DeliverToNobody, FailEarly, Execution,
         ExecuteReturns, StopCapture, UnsubscribeCapture, Drain, Ensure,
         Capture, Viewer, Subscribe, Replay, Receive, UnsubscribeViewer,
         Connect, ClientGone, Finished, vars
<1> QED
  BY <1>1 DEF Sequential

LEMMA NextOrdered ==
    Stored /\ (Sequential => Ordered) /\ [Next]_vars => (Sequential' => Ordered')
<1> SUFFICES ASSUME Stored, Sequential => Ordered, [Next]_vars, Sequential'
             PROVE  Ordered'
  OBVIOUS
<1>1. Sequential /\ Ordered
  BY AfterStays
<1>2. LatestSent /\ LogInOrder
  BY <1>1 DEF Ordered
<1>3. LatestSent'
  BY <1>1, <1>2, NextLatest
<1>4. LogInOrder'
  BY <1>1, <1>2, NextLogInOrder
<1>5. ViewerHas' /\ ViewerInOrder' /\ MissesNone'
  BY <1>1, <1>2, ViewerMoves, StaysOrdered, AwaitsOrdered, SentOrdered,
     SubscribeOrdered, ReplayOrdered, ReceiveOrdered, UnsubscribeViewerOrdered
<1> QED
  BY <1>3, <1>4, <1>5 DEF Ordered

\* Where steps run one after the other, the log is a prefix of what was
\* published, and what a viewer has seen, what is in its channel and what is
\* still to be sent follow each other: the inductive invariant of the order.
THEOREM OrderedHolds == Spec => [](Sequential => Ordered)
<1>1. Init => (Sequential => Ordered)
  BY InitOrdered
<1>2. Stored /\ (Sequential => Ordered) /\ [Next]_vars => (Sequential => Ordered)'
  BY NextOrdered
<1> QED
  BY <1>1, <1>2, StoredHolds, PTL DEF Spec

LEMMA PositionOf ==
    ASSUME Once(published), NEW k \in DOMAIN published
    PROVE  Position(published[k]) = k
  BY DEF Once, Position

\* A viewer sees no event twice and none out of order, where steps run one
\* after the other: what it passes over of its channel (sse.go, "skipped <
\* replayedCount") is what it replayed.
THEOREM SeenInOrderHolds == Spec => []SeenInOrder
<1>1. Stored /\ (Sequential => Ordered) => SeenInOrder
  <2> SUFFICES ASSUME Stored, Ordered, NEW i \in DOMAIN seen,
                      NEW j \in DOMAIN seen, i < j
               PROVE  Position(seen[i]) < Position(seen[j])
    BY DEF SeenInOrder
  <2> USE ViewerFacts
  <2>1. In(seen[i], published) /\ In(seen[j], published)
    BY DEF In, Ordered, ViewerHas
  <2>2. PICK k \in DOMAIN published : published[k] = seen[i]
    BY <2>1 DEF In
  <2>3. PICK m \in DOMAIN published : published[m] = seen[j]
    BY <2>1 DEF In
  <2>4. Position(seen[i]) = k /\ Position(seen[j]) = m
    BY <2>2, <2>3, PositionOf
  <2>5. i <= replayed => k = i
    BY <2>2 DEF Ordered, ViewerInOrder, Once
  <2>6. j <= replayed => m = j
    BY <2>3 DEF Ordered, ViewerInOrder, Once
  <2>7. j > replayed => m > replayed
    BY <2>3 DEF Ordered, ViewerInOrder
  <2>8. i > replayed => k < m
    BY <2>2, <2>3 DEF Ordered, ViewerInOrder
  <2>9. i \in Nat /\ j \in Nat /\ k \in Nat /\ m \in Nat
    OBVIOUS
  <2> QED
    BY <2>4, <2>5, <2>6, <2>7, <2>8, <2>9
<1> QED
  BY <1>1, StoredHolds, OrderedHolds, PTL

\* A viewer that subscribed before the first event has seen a prefix of what
\* was published, if nothing was dropped for it: replay and live stream leave
\* no gap between them.
THEOREM EarlySeesAllHolds == Spec => []EarlySeesAll
<1>1. Stored /\ (Sequential => Ordered) => EarlySeesAll
  <2> SUFFICES ASSUME Stored, Ordered, early, ~dropped
               PROVE  IsPrefix(seen, published)
    BY DEF EarlySeesAll
  <2> USE ViewerFacts
  <2>1. Len(seen) <= Len(published) /\ \A i \in DOMAIN seen : seen[i] = published[i]
    BY DEF Ordered, MissesNone, Prefix
  <2>2. SubSeq(seen, 1, Len(seen)) = SubSeq(published, 1, Len(seen))
    BY <2>1
  <2> QED
    BY <2>1, <2>2 DEF IsPrefix
<1> QED
  BY <1>1, StoredHolds, OrderedHolds, PTL
=============================================================================
