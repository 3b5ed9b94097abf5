--------------------------- MODULE Recovery_proofs ---------------------------
(***************************************************************************)
(* Proofs about Recovery, for every set of workflows whose gotos close     *)
(* their loops (LoopsClosed) and every number of crashes and shutdowns.    *)
(***************************************************************************)
EXTENDS Recovery, Dag_proofs, Channel_proofs

(***************************************************************************)
(* The channel of captureEvents, seen by what it says of one step: where   *)
(* the events about n stand in q, and what the last of them says; v is     *)
(* what the store has.                                                     *)
(***************************************************************************)
Positions(q, n) == {i \in DOMAIN q : n \in q[i].steps}

LastOn(q, n) ==
    q[CHOOSE i \in Positions(q, n) : \A j \in Positions(q, n) : j <= i].to

Replayed(q, v, n) == IF Positions(q, n) = {} THEN v ELSE LastOn(q, n)

(***************************************************************************)
(* The inductive invariant.  Graph order: what is past "pending" has all   *)
(* it depends on finished.                                                 *)
(***************************************************************************)
InOrder ==
    \A n \in Steps : phase[n] # "pending" =>
        \A p \in wf.parents[n] : phase[p] = "finished"

Settled == {"success", "skipped", "failed"}

AtWork(n) == phase[n] \in {"started", "acting", "waiting"}

\* What ended has a result, unless an error that leaves none stopped the
\* execution; what was dispatched before that error has settled parents.
ResultsIn ==
    /\ \A n \in Steps : phase[n] = "settled" => mem[n] \in Settled
    /\ \A n \in Steps : ~failed /\ phase[n] = "finished" => mem[n] \in Settled
    /\ \A n \in Steps : phase[n] \notin {"pending", "finished"} =>
          \A p \in wf.parents[n] : mem[p] \in Settled

\* A step at work has no old result, and only recovery puts a "running" in
\* memory.
NoOldResult ==
    /\ \A n \in Steps : AtWork(n) => mem[n] \notin {"success", "skipped", "running"}
    /\ \A n \in Steps : mem[n] = "running" => recovered[n] = "running"

\* NothingLost in every phase.
Kept ==
    agent = "up" =>
        \A n \in Steps :
            recovered[n] # "running" /\ mem[n] \in {"success", "skipped"}
            => Replay(n) = mem[n]

About(n) == Positions(queue, n)

\* A step this process has not started yet is in the store as it is in
\* memory, unless a loop that put it back is still to be captured.
Untouched ==
    agent = "up" /\ engine # "done" =>
        \A n \in Steps : phase[n] \in {"pending", "dispatched"} =>
            \/ About(n) = {} /\ stored[n] = mem[n]
            \/ mem[n] = "none" /\ Replay(n) = "pending"

\* What on_recovery keeps from running waits with its "running" in memory.
Withheld(n) ==
    /\ recovered[n] = "running"
    /\ wf.onRecovery[n] # "retry"
    /\ ~ \E g \in Gotos(wf) : rounds[g] > 0 /\ n \in LoopBody(wf, g)

WithheldWaits ==
    \A n \in Steps : Withheld(n) =>
        /\ ~ AtWork(n)
        /\ phase[n] \in {"pending", "dispatched"} => mem[n] = "running"

FinalMeansDone == status \in Final => engine = "done" /\ queue = <<>>

IInv ==
    /\ LoopsClosed(wf)
    /\ TypeOK
    /\ InOrder
    /\ ResultsIn
    /\ NoOldResult
    /\ Kept
    /\ Untouched
    /\ WithheldWaits
    /\ FinalMeansDone
-----------------------------------------------------------------------------
(* What is on its way to the store *)

LEMMA LastOnIs ==
    ASSUME NEW S, NEW q \in Seq(S), NEW n,
           NEW k \in Positions(q, n), \A j \in Positions(q, n) : j <= k
    PROVE  LastOn(q, n) = q[k].to
<1> DEFINE c == CHOOSE i \in Positions(q, n) : \A j \in Positions(q, n) : j <= i
<1>1. c \in Positions(q, n) /\ \A j \in Positions(q, n) : j <= c
  OBVIOUS
<1>2. Positions(q, n) \subseteq Nat
  BY DEF Positions
<1>3. c <= k /\ k <= c
  BY <1>1
<1>4. c = k
  <2> HIDE DEF c
  <2> QED
    BY <1>1, <1>2, <1>3
<1> QED
  BY <1>4 DEF LastOn

LEMMA LastOnExists ==
    ASSUME NEW S, NEW q \in Seq(S), NEW n, Positions(q, n) # {}
    PROVE  \E k \in Positions(q, n) :
              /\ \A j \in Positions(q, n) : j <= k
              /\ LastOn(q, n) = q[k].to
<1>1. Positions(q, n) \in SUBSET (1..Len(q)) /\ Len(q) \in Nat
  BY DEF Positions
<1>2. PICK k \in Positions(q, n) : \A j \in Positions(q, n) : j <= k
  BY <1>1, GreatestPosition
<1> QED
  BY <1>2, LastOnIs

\* Publish: the event is the last word on its steps and says nothing of others.
LEMMA ReplayedAppend ==
    ASSUME NEW S, NEW q \in Seq(S), NEW e \in S, NEW n, NEW v
    PROVE  /\ n \in e.steps => Replayed(Append(q, e), v, n) = e.to
           /\ n \notin e.steps =>
                 /\ Positions(Append(q, e), n) = Positions(q, n)
                 /\ Replayed(Append(q, e), v, n) = Replayed(q, v, n)
<1> DEFINE r == Append(q, e)
<1>1. /\ Len(q) \in Nat /\ r \in Seq(S)
      /\ Len(r) = Len(q) + 1 /\ r[Len(q) + 1] = e
      /\ \A i \in 1..Len(q) : r[i] = q[i]
  BY AppendFacts
<1>2. DOMAIN q = 1..Len(q) /\ DOMAIN r = 1..(Len(q) + 1)
  BY <1>1
<1> HIDE DEF r
<1>3. CASE n \in e.steps
  <2>1. Len(q) + 1 \in Positions(r, n)
    BY <1>1, <1>2, <1>3 DEF Positions
  <2>2. \A j \in Positions(r, n) : j <= Len(q) + 1
    BY <1>1, <1>2 DEF Positions
  <2>3. LastOn(r, n) = e.to
    BY <1>1, <2>1, <2>2, LastOnIs
  <2> QED
    BY <1>3, <2>1, <2>3 DEF Replayed, r
<1>4. CASE n \notin e.steps
  <2>1. Positions(r, n) = Positions(q, n)
    BY <1>1, <1>2, <1>4 DEF Positions
  <2>2. CASE Positions(q, n) = {}
    BY <1>4, <2>1, <2>2 DEF Replayed, r
  <2>3. CASE Positions(q, n) # {}
    <3>1. PICK k \in Positions(q, n) :
             (\A j \in Positions(q, n) : j <= k) /\ LastOn(q, n) = q[k].to
      BY <2>3, LastOnExists
    <3>2. LastOn(r, n) = r[k].to
      BY <1>1, <2>1, <3>1, LastOnIs
    <3>3. r[k] = q[k]
      BY <1>1, <1>2 DEF Positions
    <3> QED
      BY <1>4, <2>1, <2>3, <3>1, <3>2, <3>3 DEF Replayed, r
  <2> QED
    BY <2>2, <2>3
<1> QED
  BY <1>3, <1>4

Events(X) == [to : Statuses, steps : (SUBSET X) \ {{}}]

\* captureEvents takes one step m of the event at the front: the channel and
\* the store together still say the same of every step.
Shrunk(q, m) ==
    IF Head(q).steps = {m} THEN Tail(q) ELSE [q EXCEPT ![1].steps = @ \ {m}]

LEMMA ShrunkAway ==
    ASSUME NEW X, NEW q \in Seq(Events(X)), q # <<>>, NEW m,
           Head(q).steps = {m}
    PROVE  /\ Shrunk(q, m) \in Seq(Events(X))
           /\ Len(Shrunk(q, m)) = Len(q) - 1
           /\ \A i \in 1..(Len(q) - 1) : Shrunk(q, m)[i] = q[i + 1]
<1>1. /\ Tail(q) \in Seq(Events(X)) /\ Len(Tail(q)) = Len(q) - 1
      /\ \A i \in 1..Len(Tail(q)) : Tail(q)[i] = q[i + 1]
  BY TailFacts
<1> QED
  BY <1>1 DEF Shrunk

LEMMA ShrunkType ==
    ASSUME NEW X, NEW q \in Seq(Events(X)), q # <<>>, NEW m
    PROVE  Shrunk(q, m) \in Seq(Events(X))
<1>1. Len(q) \in Nat \ {0} /\ Head(q) = q[1] /\ q[1] \in Events(X)
  BY TailFacts
<1>2. CASE Head(q).steps = {m}
  BY <1>2, ShrunkAway
<1>3. CASE Head(q).steps # {m}
  <2>1. q[1].steps # {m} /\ q[1].steps # {}
    BY <1>1, <1>3 DEF Events
  <2>2. [q[1] EXCEPT !.steps = @ \ {m}] \in Events(X)
    BY <1>1, <2>1 DEF Events
  <2> QED
    BY <1>1, <1>3, <2>2 DEF Shrunk
<1> QED
  BY <1>2, <1>3

LEMMA ShrunkByOne ==
    ASSUME NEW X, NEW q \in Seq(Events(X)), q # <<>>, NEW m,
           Head(q).steps # {m}
    PROVE  /\ Len(Shrunk(q, m)) = Len(q)
           /\ Shrunk(q, m)[1].to = q[1].to
           /\ Shrunk(q, m)[1].steps = q[1].steps \ {m}
           /\ \A i \in 1..Len(q) : i # 1 => Shrunk(q, m)[i] = q[i]
<1> DEFINE e == [q[1] EXCEPT !.steps = @ \ {m}]
<1>1. Len(q) \in Nat \ {0} /\ Head(q) = q[1] /\ q[1] \in Events(X)
  BY TailFacts
<1>2. Shrunk(q, m) = [q EXCEPT ![1] = e]
  BY <1>1 DEF Shrunk
<1>3. e.to = q[1].to /\ e.steps = q[1].steps \ {m}
  BY <1>1 DEF Events
<1> HIDE DEF e
<1>4. /\ Len(Shrunk(q, m)) = Len(q)
      /\ Shrunk(q, m)[1] = e
      /\ \A i \in 1..Len(q) : i # 1 => Shrunk(q, m)[i] = q[i]
  BY <1>1, <1>2
<1> QED
  BY <1>3, <1>4

LEMMA ReplayedShrunk ==
    ASSUME NEW X, NEW q \in Seq(Events(X)), q # <<>>, NEW m \in Head(q).steps,
           NEW n, NEW v, NEW w, w = IF n = m THEN Head(q).to ELSE v
    PROVE  /\ Replayed(Shrunk(q, m), w, n) = Replayed(q, v, n)
           /\ Positions(q, n) = {} => Positions(Shrunk(q, m), n) = {} /\ n # m
<1> DEFINE r == Shrunk(q, m)
<1>1. /\ r \in Seq(Events(X)) /\ q[1] = Head(q) /\ Len(q) \in Nat \ {0}
      /\ DOMAIN q = 1..Len(q) /\ DOMAIN r = 1..Len(r)
      /\ q[1] \in Events(X)
  <2>1. q[1] = Head(q) /\ Len(q) \in Nat \ {0} /\ q[1] \in Events(X)
    BY TailFacts
  <2>2. r \in Seq(Events(X))
    BY ShrunkType
  <2> HIDE DEF r
  <2> QED
    BY <2>1, <2>2
<1>2. Positions(q, m) # {} /\ 1 \in Positions(q, m)
  BY <1>1 DEF Positions
<1>3. CASE Head(q).steps = {m}
  <2>1. Len(r) = Len(q) - 1 /\ \A i \in 1..(Len(q) - 1) : r[i] = q[i + 1]
    BY <1>3, ShrunkAway
  <2>2. \A i \in Positions(r, n) : i + 1 \in Positions(q, n)
    BY <1>1, <2>1 DEF Positions
  <2>3. \A i \in Positions(q, n) : i # 1 => i - 1 \in Positions(r, n)
    BY <1>1, <2>1 DEF Positions
  <2>4. 1 \in Positions(q, n) <=> n = m
    BY <1>1, <1>3 DEF Positions
  <2>5. CASE Positions(r, n) = {}
    <3>1. Positions(q, n) \subseteq {1}
      BY <2>3, <2>5
    <3>2. CASE n = m
      <4>1. LastOn(q, n) = q[1].to
        BY <1>1, <2>4, <3>1, <3>2, LastOnIs
      <4> QED
        BY <1>1, <2>4, <2>5, <3>2, <4>1 DEF Replayed
    <3>3. CASE n # m
      BY <2>4, <2>5, <3>1, <3>3 DEF Replayed
    <3> QED
      BY <3>2, <3>3
  <2>6. CASE Positions(r, n) # {}
    <3>1. PICK k \in Positions(r, n) :
             (\A j \in Positions(r, n) : j <= k) /\ LastOn(r, n) = r[k].to
      BY <1>1, <2>6, LastOnExists
    <3>2. k \in 1..(Len(q) - 1) /\ k + 1 \in Positions(q, n)
      BY <1>1, <2>1, <2>2 DEF Positions
    <3>3. \A j \in Positions(q, n) : j \in Nat /\ j <= k + 1
      BY <1>1, <2>3, <3>1, <3>2 DEF Positions
    <3>4. LastOn(q, n) = q[k + 1].to
      BY <3>2, <3>3, LastOnIs
    <3> QED
      BY <2>1, <2>6, <3>1, <3>2, <3>4 DEF Replayed
  <2> QED
    BY <1>2, <2>2, <2>5, <2>6
<1>4. CASE Head(q).steps # {m}
  <2>1. /\ Len(r) = Len(q) /\ r[1].to = q[1].to
        /\ r[1].steps = q[1].steps \ {m}
        /\ \A i \in 1..Len(q) : i # 1 => r[i] = q[i]
    BY <1>4, ShrunkByOne
  <2>2. \A i \in DOMAIN q : r[i].to = q[i].to /\ (i # 1 => r[i] = q[i])
    BY <1>1, <2>1
  <2> HIDE DEF r
  <2>3. Positions(r, n) = IF n = m THEN Positions(q, n) \ {1}
                                   ELSE Positions(q, n)
    <3>1. \A i \in DOMAIN q : i # 1 => (n \in r[i].steps <=> n \in q[i].steps)
      BY <2>2
    <3>2. n \in r[1].steps <=> n \in q[1].steps /\ n # m
      BY <2>1
    <3> QED
      BY <1>1, <2>1, <3>1, <3>2 DEF Positions
  <2>4. CASE Positions(r, n) = {}
    <3>1. CASE n = m
      <4>1. 1 \in Positions(q, n) /\ Positions(q, n) \subseteq {1}
        BY <1>2, <2>3, <2>4, <3>1
      <4>2. LastOn(q, n) = q[1].to
        BY <4>1, LastOnIs
      <4> QED
        BY <1>1, <2>4, <3>1, <4>1, <4>2 DEF Replayed, r
    <3>2. CASE n # m
      BY <2>3, <2>4, <3>2 DEF Replayed, r
    <3> QED
      BY <3>1, <3>2
  <2>5. CASE Positions(r, n) # {}
    <3>1. PICK k \in Positions(r, n) :
             (\A j \in Positions(r, n) : j <= k) /\ LastOn(r, n) = r[k].to
      BY <1>1, <2>5, LastOnExists
    <3>2. k \in Positions(q, n) /\ k \in DOMAIN q
      BY <2>3 DEF Positions
    <3>3. \A j \in Positions(q, n) : j <= k
      BY <1>1, <2>3, <3>1, <3>2
    <3>4. LastOn(q, n) = q[k].to
      BY <3>2, <3>3, LastOnIs
    <3> QED
      BY <2>2, <2>5, <3>1, <3>2, <3>4 DEF Replayed, r
  <2> QED
    BY <1>2, <2>3, <2>4, <2>5 DEF r
<1> QED
  BY <1>3, <1>4

LEMMA ReplayIsReplayed ==
    ASSUME NEW n \in Steps
    PROVE  /\ Replay(n) = Replayed(queue, stored[n], n)
           /\ Replay(n)' = Replayed(queue', stored'[n], n)
BY DEF Replay, Replayed, LastOn, Positions

LEMMA QueueType ==
    ASSUME TypeOK
    PROVE  queue \in Seq(Events(Steps))
BY DEF TypeOK, Events

\* Publish, seen by Replay.
LEMMA PublishFacts ==
    ASSUME TypeOK, stored' = stored,
           NEW to \in Statuses, NEW S \in (SUBSET Steps) \ {{}}, Publish(to, S)
    PROVE  /\ queue' \in Seq(Events(Steps))
           /\ \A n \in Steps :
                 IF n \in S THEN Replay(n)' = to
                 ELSE Replay(n)' = Replay(n) /\ About(n)' = About(n)
<1> DEFINE e == [to |-> to, steps |-> S]
<1>1. e \in Events(Steps) /\ e.to = to /\ e.steps = S
  BY DEF Events
<1>2. queue' = Append(queue, e) /\ queue \in Seq(Events(Steps))
  BY QueueType DEF Publish
<1>3. queue' \in Seq(Events(Steps))
  BY <1>1, <1>2
<1> HIDE DEF e
<1>4. ASSUME NEW n \in Steps
      PROVE  IF n \in S THEN Replay(n)' = to
             ELSE Replay(n)' = Replay(n) /\ About(n)' = About(n)
  <2>1. /\ n \in S => Replayed(queue', stored[n], n) = to
        /\ n \notin S =>
              /\ Positions(queue', n) = Positions(queue, n)
              /\ Replayed(queue', stored[n], n) = Replayed(queue, stored[n], n)
    BY <1>1, <1>2, ReplayedAppend
  <2> QED
    BY <2>1, ReplayIsReplayed DEF About, Positions
<1> QED
  BY <1>3, <1>4

\* What an execution knows of its workflow.
LEMMA WorkflowFacts ==
    ASSUME wf \in Workflows, LoopsClosed(wf)
    PROVE  /\ wf.parents \in [Steps -> SUBSET Steps]
           /\ wf.onRecovery \in [Steps -> {"retry", "skip", "fail"}]
           /\ \A g \in Gotos(wf) :
                 /\ g \in Steps
                 /\ g \in LoopBody(wf, g) /\ LoopBody(wf, g) \subseteq Steps
                 /\ \A b \in LoopBody(wf, g) \ {g} :
                       Children(wf, b) \subseteq LoopBody(wf, g)
<1>1. Buildable(wf) /\ wf.onRecovery \in [Steps -> {"retry", "skip", "fail"}]
  BY WorkflowsAssumption DEF Steps
<1>2. wf.parents \in [Steps -> SUBSET Steps] /\ Gotos(wf) \subseteq Steps
  BY <1>1 DEF Buildable, Steps
<1>3. \A g \in Gotos(wf) : LoopClosed(wf, g)
  BY DEF LoopsClosed
<1>4. \A g \in Gotos(wf) : g \in LoopBody(wf, g) /\ LoopBody(wf, g) \subseteq Steps
  BY <1>1, <1>3, GotoInBody DEF Steps
<1> QED
  BY <1>1, <1>2, <1>3, <1>4 DEF LoopClosed

-----------------------------------------------------------------------------
(* The initial states *)

LEMMA InitIInv ==
    ASSUME Init, \A w \in Workflows : LoopsClosed(w)
    PROVE  IInv
<1> USE DEF Init
<1>1. wf \in Workflows /\ LoopsClosed(wf)
  OBVIOUS
<1>2. TypeOK
  <2>1. crashes \in 0..MaxCrashes[wf]
    BY CrashesAssumption
  <2>2. queue \in Seq([to : Statuses, steps : (SUBSET Steps) \ {{}}])
    OBVIOUS
  <2>3. mem \in [Steps -> Statuses]
    BY DEF None, Statuses
  <2> QED
    BY <2>1, <2>2, <2>3 DEF TypeOK, None, Active, Final
<1>3. \A n \in Steps : /\ phase[n] = "pending" /\ ~ AtWork(n)
                       /\ mem[n] = "none" /\ recovered[n] = "none"
                       /\ stored[n] = "none" /\ About(n) = {}
  BY DEF None, AtWork, About, Positions
<1>4. InOrder /\ ResultsIn /\ NoOldResult /\ Kept /\ Untouched /\ WithheldWaits
  BY <1>3 DEF InOrder, ResultsIn, NoOldResult, Kept, Untouched, WithheldWaits,
              Withheld
<1>5. FinalMeansDone
  BY DEF FinalMeansDone, Final
<1> QED
  BY <1>1, <1>2, <1>4, <1>5 DEF IInv
-----------------------------------------------------------------------------
(* The steps of executeNode *)

Phases == {"pending", "dispatched", "started", "acting", "waiting", "settled",
           "finished"}

SameRun == UNCHANGED <<wf, agent, engine, cancelled, rounds, recovered, store,
                       crashes>>

\* Step n of a running execution goes to phase x with y in memory, and says
\* so with a step event or not at all.
Moves(n, x, y) ==
    /\ SameRun /\ Executing
    /\ phase' = [phase EXCEPT ![n] = x]
    /\ mem' = [mem EXCEPT ![n] = y]
    /\ failed' \in BOOLEAN /\ (failed => failed')
    /\ runs' \in [Steps -> Nat] /\ bypassed' \subseteq Steps

Silently(n, y) ==
    /\ queue' = queue
    /\ recovered[n] # "running" /\ y \in {"success", "skipped"} => mem[n] = y

Publicly(n, y) ==
    \E to \in Statuses : /\ Publish(to, {n})
                         /\ y \in {"success", "skipped"} => to = y

LEMMA MoveType ==
    ASSUME IInv, NEW n \in Steps, NEW x \in Phases, NEW y \in Statuses,
           Moves(n, x, y), Silently(n, y) \/ Publicly(n, y)
    PROVE  TypeOK'
<1>1. Steps' = Steps /\ TypeOK
  BY DEF Moves, SameRun, Steps, IInv
<1>2. queue' \in Seq([to : Statuses, steps : (SUBSET Steps) \ {{}}])
  <2>1. CASE Silently(n, y)
    BY <1>1, <2>1 DEF Silently, TypeOK
  <2>2. CASE Publicly(n, y)
    BY <1>1, <2>2, PublishFacts DEF Publicly, Moves, SameRun, store, Events
  <2> QED
    BY <2>1, <2>2
<1>3. phase' \in [Steps -> Phases] /\ mem' \in [Steps -> Statuses]
  BY <1>1 DEF Moves, TypeOK, Phases
<1>4. agent' # "down"
  BY DEF Moves, Executing, SameRun
<1> QED
  BY <1>1, <1>2, <1>3, <1>4 DEF TypeOK, Moves, SameRun, store, Phases

\* Such a move keeps the invariant when n may leave its phase, has what it
\* claims to have, and is not held back by on_recovery.
LEMMA Move ==
    ASSUME IInv, NEW n \in Steps,
           NEW x \in Phases \ {"pending"}, NEW y \in Statuses,
           Moves(n, x, y), Silently(n, y) \/ Publicly(n, y),
           phase[n] # "finished",
           \A p \in wf.parents[n] : phase[p] = "finished",
           x # "finished" => \A p \in wf.parents[n] : mem[p] \in Settled,
           x = "settled" => y \in Settled,
           ~failed' /\ x = "finished" => y \in Settled,
           x \in {"started", "acting", "waiting"} =>
               y \notin {"success", "skipped", "running"} /\ ~Withheld(n),
           y = "running" => mem[n] = "running",
           x = "dispatched" => /\ phase[n] = "pending" /\ queue' = queue
                               /\ y = mem[n]
    PROVE  IInv'
<1>1. /\ Steps' = Steps /\ TypeOK /\ wf' = wf /\ wf \in Workflows
      /\ LoopsClosed(wf) /\ wf.parents \in [Steps -> SUBSET Steps]
  BY WorkflowFacts DEF Moves, SameRun, Steps, IInv, TypeOK
<1>2. /\ phase \in [Steps -> Phases] /\ mem \in [Steps -> Statuses]
      /\ phase'[n] = x /\ mem'[n] = y
      /\ \A m \in Steps \ {n} : phase'[m] = phase[m] /\ mem'[m] = mem[m]
  BY <1>1 DEF Moves, TypeOK, Phases
<1>3. /\ \A p \in wf.parents[n] : p \in Steps \ {n}
      /\ \A m \in Steps \ {n} : phase[m] # "pending" => n \notin wf.parents[m]
  BY <1>1 DEF IInv, InOrder
<1>4. /\ \A m \in Steps \ {n} : Replay(m)' = Replay(m) /\ About(m)' = About(m)
      /\ Silently(n, y) => Replay(n)' = Replay(n) /\ About(n)' = About(n)
      /\ ~Silently(n, y) /\ y \in {"success", "skipped"} => Replay(n)' = y
  <2>1. stored' = stored
    BY DEF Moves, SameRun, store
  <2>2. CASE Silently(n, y)
    <3>1. \A m \in Steps : Replay(m)' = Replay(m)
      BY <2>1, <2>2, ReplayIsReplayed DEF Silently
    <3>2. \A m \in Steps : About(m)' = About(m)
      BY <2>2 DEF Silently, About
    <3> QED
      BY <3>1, <3>2, <2>2
  <2>3. CASE Publicly(n, y) /\ ~Silently(n, y)
    <3>1. PICK to \in Statuses : /\ Publish(to, {n})
                                 /\ y \in {"success", "skipped"} => to = y
      BY <2>3 DEF Publicly
    <3>2. \A m \in Steps :
             IF m \in {n} THEN Replay(m)' = to
             ELSE Replay(m)' = Replay(m) /\ About(m)' = About(m)
      BY <1>1, <2>1, <3>1, PublishFacts
    <3> QED
      BY <2>3, <3>1, <3>2
  <2> QED
    BY <2>2, <2>3
<1>5. InOrder'
  BY <1>1, <1>2, <1>3 DEF InOrder, IInv
<1>6. ResultsIn'
  BY <1>1, <1>2, <1>3 DEF ResultsIn, IInv, Moves
<1>7. NoOldResult'
  BY <1>1, <1>2 DEF NoOldResult, IInv, AtWork, Moves, SameRun
<1>8. Kept'
  BY <1>1, <1>2, <1>4 DEF Kept, IInv, Moves, SameRun, Silently
<1>9. Untouched'
  <2>1. x = "dispatched" => Silently(n, y)
    BY DEF Silently
  <2> QED
    BY <1>1, <1>2, <1>4, <2>1 DEF Untouched, IInv, Moves, SameRun, store
<1>10. WithheldWaits'
  BY <1>1, <1>2 DEF WithheldWaits, Withheld, AtWork, IInv, Moves, SameRun
<1>11. FinalMeansDone'
  BY DEF FinalMeansDone, IInv, Moves, SameRun, store, Executing
<1> QED
  BY <1>1, <1>5, <1>6, <1>7, <1>8, <1>9, <1>10, <1>11, MoveType DEF IInv


LEMMA DecideFacts ==
    ASSUME IInv, NEW n \in Steps
    PROVE  /\ Decide(n) = "pass" => mem[n] \in {"success", "skipped"}
           /\ Decide(n) \in {"skip", "fail"} => mem[n] = "running"
           /\ Decide(n) = "run" =>
                 /\ mem[n] \notin {"success", "skipped"}
                 /\ mem[n] = "running" => wf.onRecovery[n] = "retry"
<1>1. wf.onRecovery[n] \in {"retry", "skip", "fail"}
  BY WorkflowFacts DEF IInv, TypeOK
<1> QED
  BY <1>1 DEF Decide

\* Where executeNode is with a step, and what the step has by then.
LEMMA NodeFacts ==
    ASSUME IInv, NEW n \in Steps
    PROVE  /\ phase[n] \in Phases /\ mem[n] \in Statuses
           /\ mem \in [Steps -> Statuses] /\ phase \in [Steps -> Phases]
           /\ failed \in BOOLEAN /\ Steps' = Nodes(wf')
           /\ runs \in [Steps -> Nat] /\ bypassed \subseteq Steps
           /\ phase[n] # "pending" =>
                 \A p \in wf.parents[n] : phase[p] = "finished"
           /\ phase[n] \notin {"pending", "finished"} =>
                 \A p \in wf.parents[n] : mem[p] \in Settled
           /\ ~failed /\ (\A p \in wf.parents[n] : phase[p] = "finished") =>
                 \A p \in wf.parents[n] : mem[p] \in Settled
           /\ phase[n] = "settled" => mem[n] \in Settled
           /\ AtWork(n) => /\ mem[n] \notin {"success", "skipped", "running"}
                           /\ ~Withheld(n)
           /\ Withheld(n) /\ phase[n] \in {"pending", "dispatched"} =>
                 mem[n] = "running" /\ wf.onRecovery[n] # "retry"
           /\ mem[n] = "running" => recovered[n] = "running"
<1>1. wf.parents \in [Steps -> SUBSET Steps]
  BY WorkflowFacts DEF IInv, TypeOK
<1>2. /\ phase[n] \in Phases /\ mem[n] \in Statuses
      /\ mem \in [Steps -> Statuses] /\ phase \in [Steps -> Phases]
      /\ failed \in BOOLEAN /\ Steps' = Nodes(wf')
      /\ runs \in [Steps -> Nat] /\ bypassed \subseteq Steps
  BY DEF IInv, TypeOK, Phases, Steps
<1>3. phase[n] # "pending" => \A p \in wf.parents[n] : phase[p] = "finished"
  BY DEF IInv, InOrder
<1>4. /\ phase[n] \notin {"pending", "finished"} =>
            \A p \in wf.parents[n] : mem[p] \in Settled
      /\ ~failed /\ (\A p \in wf.parents[n] : phase[p] = "finished") =>
            \A p \in wf.parents[n] : mem[p] \in Settled
      /\ phase[n] = "settled" => mem[n] \in Settled
  BY <1>1 DEF IInv, ResultsIn
<1>5. /\ AtWork(n) => /\ mem[n] \notin {"success", "skipped", "running"}
                      /\ ~Withheld(n)
      /\ Withheld(n) /\ phase[n] \in {"pending", "dispatched"} =>
            mem[n] = "running" /\ wf.onRecovery[n] # "retry"
      /\ mem[n] = "running" => recovered[n] = "running"
  BY DEF IInv, NoOldResult, WithheldWaits, Withheld
<1> QED
  BY <1>2, <1>3, <1>4, <1>5

LEMMA NodeStep ==
    ASSUME IInv, NEW n \in Steps, StepOf(n), ~Rewind(n)
    PROVE  IInv'
<1> USE NodeFacts, DecideFacts
<1>1. CASE SkipNode(n)
  <2>1. Moves(n, "finished", "skipped") /\ Publicly(n, "skipped")
    BY <1>1 DEF SkipNode, Ready, Moves, SameRun, Executing, Publicly, Statuses
  <2>2. "finished" \in Phases \ {"pending"} /\ "skipped" \in Statuses
    BY DEF Phases, Statuses
  <2> QED
    BY <1>1, <2>1, <2>2, Move DEF SkipNode, Ready, Settled
<1>2. CASE Dispatch(n)
  <2>1. Moves(n, "dispatched", mem[n]) /\ Silently(n, mem[n])
    BY <1>2 DEF Dispatch, Ready, Moves, SameRun, Executing, aux, Silently
  <2>2. "dispatched" \in Phases \ {"pending"} /\ mem[n] \in Statuses
    BY DEF Phases, Statuses
  <2> QED
    BY <1>2, <2>1, <2>2, Move DEF Dispatch, Ready, Settled
<1>3. CASE PassOver(n)
  <2> DEFINE y == IF Decide(n) = "skip" THEN "success" ELSE mem[n]
  <2>1. Moves(n, "settled", y) /\ Silently(n, y)
    BY <1>3 DEF PassOver, Dispatched, Moves, SameRun, Executing, aux, Silently
  <2>2. "settled" \in Phases \ {"pending"} /\ y \in Statuses
    BY DEF Phases, Statuses
  <2> QED
    BY <1>3, <2>1, <2>2, Move DEF PassOver, Dispatched, Settled
<1>4. CASE FailRecovery(n)
  <2>1. Moves(n, "finished", "failed") /\ Silently(n, "failed")
    BY <1>4 DEF FailRecovery, Dispatched, Moves, SameRun, Executing, aux, Silently
  <2>2. "finished" \in Phases \ {"pending"} /\ "failed" \in Statuses
    BY DEF Phases, Statuses
  <2> QED
    BY <1>4, <2>1, <2>2, Move DEF FailRecovery, Dispatched, Settled
<1>5. CASE WhenFalse(n)
  <2>1. Moves(n, "settled", "skipped") /\ Publicly(n, "skipped")
    BY <1>5 DEF WhenFalse, Dispatched, Moves, SameRun, Executing, aux, Publicly, Statuses
  <2>2. "settled" \in Phases \ {"pending"} /\ "skipped" \in Statuses
    BY DEF Phases, Statuses
  <2> QED
    BY <1>5, <2>1, <2>2, Move DEF WhenFalse, Dispatched, Settled
<1>6. CASE WhenError(n)
  <2> DEFINE y == IF mem[n] = "running" THEN "none" ELSE mem[n]
  <2>1. Moves(n, "finished", y) /\ Silently(n, y)
    BY <1>6 DEF WhenError, Dispatched, Moves, SameRun, Executing, Cleared, aux, Silently
  <2>2. "finished" \in Phases \ {"pending"} /\ y \in Statuses
    BY DEF Phases, Statuses
  <2> QED
    BY <1>6, <2>1, <2>2, Move DEF WhenError, Dispatched, Settled, AtWork
<1>7. CASE Begin(n)
  <2> DEFINE y == IF mem[n] = "running" THEN "none" ELSE mem[n]
  <2>1. Moves(n, "started", y) /\ Publicly(n, y)
    BY <1>7 DEF Begin, Dispatched, Moves, SameRun, Executing, Cleared, aux, Publicly, Statuses
  <2>2. "started" \in Phases \ {"pending"} /\ y \in Statuses
    BY DEF Phases, Statuses
  <2> QED
    BY <1>7, <2>1, <2>2, Move DEF Begin, Dispatched, Settled, AtWork
<1>8. CASE Reject(n)
  <2>1. Moves(n, "finished", mem[n]) /\ Silently(n, mem[n])
    BY <1>8 DEF Reject, Moves, SameRun, Executing, aux, Silently
  <2>2. "finished" \in Phases \ {"pending"} /\ mem[n] \in Statuses
    BY DEF Phases, Statuses
  <2> QED
    BY <1>8, <2>1, <2>2, Move DEF Reject, Settled, AtWork
<1>9. CASE Act(n)
  <2>1. Moves(n, "acting", mem[n]) /\ Silently(n, mem[n])
    BY <1>9 DEF Act, Moves, SameRun, Executing, Silently
  <2>2. "acting" \in Phases \ {"pending"} /\ mem[n] \in Statuses
    BY DEF Phases, Statuses
  <2> QED
    BY <1>9, <2>1, <2>2, Move DEF Act, Settled, AtWork
<1>10. CASE Wait(n)
  <2>1. Moves(n, "waiting", mem[n]) /\ Publicly(n, mem[n])
    BY <1>10 DEF Wait, Moves, SameRun, Executing, aux, AtWork, Publicly, Statuses
  <2>2. "waiting" \in Phases \ {"pending"} /\ mem[n] \in Statuses
    BY DEF Phases, Statuses
  <2> QED
    BY <1>10, <2>1, <2>2, Move DEF Wait, Settled, AtWork
<1>11. CASE Succeed(n)
  <2>1. Moves(n, "settled", "success") /\ Publicly(n, "success")
    BY <1>11 DEF Succeed, Moves, SameRun, Executing, aux, Publicly, Statuses
  <2>2. "settled" \in Phases \ {"pending"} /\ "success" \in Statuses
    BY DEF Phases, Statuses
  <2> QED
    BY <1>11, <2>1, <2>2, Move DEF Succeed, Settled, AtWork
<1>12. CASE Fail(n)
  <2> DEFINE x == IF n \in wf.tolerant THEN "settled" ELSE "finished"
  <2>1. Moves(n, x, "failed") /\ Publicly(n, "failed")
    BY <1>12 DEF Fail, Moves, SameRun, Executing, aux, Publicly, Statuses
  <2>2. x \in Phases \ {"pending"} /\ "failed" \in Statuses
    BY DEF Phases, Statuses
  <2> QED
    BY <1>12, <2>1, <2>2, Move DEF Fail, Settled, AtWork
<1>13. CASE Finish(n)
  <2>1. Moves(n, "finished", mem[n]) /\ Silently(n, mem[n])
    BY <1>13 DEF Finish, Moves, SameRun, Executing, aux, Silently
  <2>2. "finished" \in Phases \ {"pending"} /\ mem[n] \in Statuses
    BY DEF Phases, Statuses
  <2> QED
    BY <1>13, <2>1, <2>2, Move DEF Finish, Settled
<1> QED
  BY <1>1, <1>2, <1>3, <1>4, <1>5, <1>6, <1>7, <1>8, <1>9, <1>10, <1>11, <1>12, <1>13 DEF StepOf

\* handleGoto: the body starts over, and with it whatever depended on it.
LEMMA RewindStep ==
    ASSUME IInv, NEW g \in Steps, Rewind(g)
    PROVE  IInv'
<1> DEFINE body == LoopBody(wf, g)
<1>1. /\ TypeOK /\ LoopsClosed(wf) /\ wf \in Workflows /\ g \in Gotos(wf)
      /\ UNCHANGED <<wf, agent, engine, failed, cancelled, recovered, stored,
                     status, runs, bypassed, crashes>>
      /\ agent # "down" /\ engine = "running" /\ phase[g] = "settled"
      /\ Publish("pending", body)
      /\ Steps' = Steps
  BY DEF Rewind, Executing, store, aux, IInv, TypeOK, Steps
<1>2. /\ body \in (SUBSET Steps) \ {{}} /\ g \in body
      /\ \A b \in body \ {g} : Children(wf, b) \subseteq body
      /\ wf.parents \in [Steps -> SUBSET Steps]
  BY <1>1, WorkflowFacts
<1>3. \A n \in Steps : n \notin body =>
         \A p \in wf.parents[n] : p \notin body \/ p = g
  BY <1>2 DEF Children, Steps
<1>4. /\ queue' \in Seq(Events(Steps))
      /\ \A n \in Steps :
            IF n \in body THEN Replay(n)' = "pending"
            ELSE Replay(n)' = Replay(n) /\ About(n)' = About(n)
  BY <1>1, <1>2, PublishFacts DEF Statuses
<1>5. /\ mem' = [n \in Steps |-> IF n \in body THEN "none" ELSE mem[n]]
      /\ phase' = [n \in Steps |-> IF n \in body THEN "pending" ELSE phase[n]]
      /\ rounds' = [rounds EXCEPT ![g] = @ + 1]
  BY DEF Rewind
<1> HIDE DEF body
<1>6. TypeOK'
  <2>1. rounds' \in [Gotos(wf) -> Nat]
    BY <1>1, <1>5 DEF TypeOK
  <2>2. mem' \in [Steps -> Statuses] /\ phase' \in [Steps -> Phases]
    BY <1>1, <1>5 DEF TypeOK, Statuses, Phases
  <2> QED
    BY <1>1, <1>4, <2>1, <2>2 DEF TypeOK, Events, Phases
<1>7. InOrder'
  BY <1>1, <1>2, <1>3, <1>5 DEF IInv, InOrder
<1>8. ResultsIn'
  <2>1. \A n \in Steps : phase[n] # "pending" => g \notin wf.parents[n]
    BY <1>1 DEF IInv, InOrder
  <2> QED
    BY <1>1, <1>2, <1>3, <1>5, <2>1 DEF IInv, ResultsIn
<1>9. NoOldResult'
  BY <1>1, <1>5 DEF IInv, NoOldResult, AtWork
<1>10. Kept'
  BY <1>1, <1>4, <1>5 DEF IInv, Kept
<1>11. Untouched'
  BY <1>1, <1>4, <1>5 DEF IInv, Untouched
<1>12. WithheldWaits'
  <2>1. \A n \in Steps : Withheld(n)' => Withheld(n) /\ n \notin body
    BY <1>1, <1>5 DEF TypeOK, Withheld, body
  <2> QED
    BY <1>1, <1>5, <2>1 DEF IInv, WithheldWaits, AtWork
<1>13. FinalMeansDone'
  BY <1>1 DEF IInv, FinalMeansDone
<1> QED
  BY <1>1, <1>6, <1>7, <1>8, <1>9, <1>10, <1>11, <1>12, <1>13 DEF IInv
-----------------------------------------------------------------------------
(* The steps of the capture, of finalizeExecution and of the agent *)

\* captureEvents writes one step of the event at the front.
LEMMA CaptureStep ==
    ASSUME IInv, Capture
    PROVE  IInv'
<1>1. /\ TypeOK /\ queue # <<>> /\ agent # "down"
      /\ UNCHANGED <<wf, agent, engine, mem, phase, failed, cancelled, rounds,
                     recovered, runs, bypassed, crashes>>
      /\ Steps' = Steps /\ queue \in Seq(Events(Steps))
  BY QueueType DEF Capture, aux, IInv, Steps
<1>2. PICK m \in Head(queue).steps :
         /\ queue' = Shrunk(queue, m)
         /\ IF agent = "up"
            THEN /\ stored' = [stored EXCEPT ![m] = Head(queue).to]
                 /\ status' = Derived(stored')
            ELSE UNCHANGED store
  BY DEF Capture, Shrunk
<1>3. m \in Steps /\ Head(queue).to \in Statuses
  <2>1. Head(queue) \in Events(Steps)
    BY <1>1, TailFacts
  <2> QED
    BY <2>1 DEF Events
<1>4. queue' \in Seq(Events(Steps))
  BY <1>1, <1>2, ShrunkType
<1>5. /\ stored' \in [Steps -> Statuses]
      /\ status' \in Active \cup Final
      /\ status \in Active \cup Final
      /\ status' \in Final => status \in Final
  BY <1>1, <1>2, <1>3 DEF TypeOK, store, Derived, Active, Final
<1>6. agent = "up" => \A n \in Steps :
         /\ Replay(n)' = Replay(n)
         /\ About(n) = {} => About(n)' = {} /\ stored'[n] = stored[n]
  <2> SUFFICES ASSUME agent = "up", NEW n \in Steps
               PROVE  /\ Replay(n)' = Replay(n)
                      /\ About(n) = {} => About(n)' = {} /\ stored'[n] = stored[n]
    OBVIOUS
  <2>1. stored'[n] = IF n = m THEN Head(queue).to ELSE stored[n]
    BY <1>1, <1>2 DEF TypeOK
  <2>2. /\ Replayed(Shrunk(queue, m), stored'[n], n) = Replayed(queue, stored[n], n)
        /\ Positions(queue, n) = {} => Positions(Shrunk(queue, m), n) = {} /\ n # m
    BY <1>1, <2>1, ReplayedShrunk
  <2>3. About(n)' = Positions(Shrunk(queue, m), n)
    BY <1>2 DEF About
  <2> QED
    BY <1>2, <2>1, <2>2, <2>3, ReplayIsReplayed DEF About
<1>7. TypeOK'
  BY <1>1, <1>4, <1>5 DEF TypeOK, Events
<1>8. InOrder' /\ ResultsIn' /\ NoOldResult' /\ WithheldWaits' /\ LoopsClosed(wf)'
  BY <1>1 DEF IInv, InOrder, ResultsIn, NoOldResult, AtWork, WithheldWaits,
              Withheld
<1>9. Kept'
  BY <1>1, <1>6 DEF IInv, Kept
<1>10. Untouched'
  BY <1>1, <1>6 DEF IInv, Untouched
<1>11. FinalMeansDone'
  BY <1>1, <1>5 DEF IInv, FinalMeansDone
<1> QED
  BY <1>7, <1>8, <1>9, <1>10, <1>11 DEF IInv

\* finalizeExecution: the channel is empty, so the row gets what the engine
\* has of every step it knows.
LEMMA FinalizeStep ==
    ASSUME IInv, Finalize
    PROVE  IInv'
<1>1. /\ TypeOK /\ agent # "down" /\ engine \in Final /\ queue = <<>>
      /\ engine' = "done"
      /\ UNCHANGED <<wf, agent, mem, phase, failed, cancelled, rounds,
                     recovered, queue, runs, bypassed, crashes>>
      /\ IF agent = "up" THEN status' = engine /\ stored' = Merged
                         ELSE UNCHANGED store
      /\ Steps' = Steps
  BY DEF Finalize, Drained, aux, IInv, Steps
<1>2. stored' \in [Steps -> Statuses] /\ status' \in Active \cup Final
  BY <1>1 DEF TypeOK, Merged, store
<1>3. TypeOK'
  BY <1>1, <1>2 DEF TypeOK
<1>4. InOrder' /\ ResultsIn' /\ NoOldResult' /\ WithheldWaits' /\ LoopsClosed(wf)'
  BY <1>1 DEF IInv, InOrder, ResultsIn, NoOldResult, AtWork, WithheldWaits,
              Withheld
<1>5. Kept'
  <2>1. \A n \in Steps : Positions(queue', n) = {}
    BY <1>1 DEF Positions
  <2>2. \A n \in Steps : Replay(n)' = stored'[n]
    BY <2>1, ReplayIsReplayed DEF Replayed
  <2>3. agent = "up" => \A n \in Steps :
           mem[n] \in {"success", "skipped"} => stored'[n] = mem[n]
    BY <1>1 DEF Merged
  <2> QED
    BY <1>1, <2>2, <2>3 DEF Kept
<1>6. Untouched' /\ FinalMeansDone'
  BY <1>1 DEF Untouched, FinalMeansDone
<1> QED
  BY <1>3, <1>4, <1>5, <1>6 DEF IInv

\* What Fresh hands to a process: nothing of the steps has begun, and memory
\* is what the store has.
LEMMA FreshStep ==
    ASSUME IInv, NEW rec \in [Steps -> Statuses], Fresh(rec),
           wf' = wf, UNCHANGED <<stored, status, runs, bypassed>>,
           crashes' \in 0..MaxCrashes[wf],
           \/ agent' = "down" /\ engine' = "done" /\ rec = None
           \/ agent' = "up" /\ engine' = "done" /\ rec = None
           \/ agent' = "up" /\ engine' = "running" /\ rec = stored
              /\ status \notin Final
    PROVE  IInv'
<1>1. /\ TypeOK /\ Steps' = Steps /\ None' = None
      /\ mem' = rec /\ recovered' = rec
      /\ phase' = [n \in Steps |-> "pending"]
      /\ failed' = FALSE /\ cancelled' = FALSE
      /\ rounds' = [g \in Gotos(wf) |-> 0]
      /\ queue' = <<>>
  BY DEF Fresh, IInv, Steps, None
<1>2. TypeOK'
  <2>1. queue' \in Seq([to : Statuses, steps : (SUBSET Steps) \ {{}}])
    BY <1>1
  <2>2. phase' \in [Steps -> Phases] /\ rounds' \in [Gotos(wf) -> Nat]
    BY <1>1 DEF Phases
  <2>3. agent' = "down" => mem' = None
    BY <1>1
  <2> QED
    BY <1>1, <2>1, <2>2, <2>3 DEF TypeOK, Phases
<1>3. \A n \in Steps : phase'[n] = "pending"
  BY <1>1
<1>4. \A n \in Steps : Positions(queue', n) = {} /\ About(n)' = {}
  BY <1>1 DEF Positions, About
<1>5. \A n \in Steps : Replay(n)' = stored[n]
  BY <1>1, <1>4, ReplayIsReplayed DEF Replayed
<1>6. InOrder' /\ ResultsIn' /\ NoOldResult' /\ LoopsClosed(wf)'
  BY <1>1, <1>3 DEF IInv, InOrder, ResultsIn, NoOldResult, AtWork
<1>7. WithheldWaits'
  <2>1. \A n \in Steps : Withheld(n)' => mem'[n] = "running"
    BY <1>1 DEF Withheld
  <2>2. \A n \in Steps : ~ AtWork(n)'
    BY <1>3 DEF AtWork
  <2> QED
    BY <1>1, <2>1, <2>2 DEF WithheldWaits
<1>8. Kept' /\ Untouched'
  <2>1. CASE rec = None
    BY <1>1, <1>4, <1>5, <2>1 DEF Kept, Untouched, None
  <2>2. CASE rec = stored
    BY <1>1, <1>4, <1>5, <2>2 DEF Kept, Untouched
  <2> QED
    BY <2>1, <2>2
<1>9. FinalMeansDone'
  BY <1>1 DEF FinalMeansDone
<1> QED
  BY <1>2, <1>6, <1>7, <1>8, <1>9 DEF IInv

LEMMA AgentStep ==
    ASSUME IInv, Cancel \/ Crash \/ Shutdown \/ Exit \/ Restart \/ Return
    PROVE  IInv'
<1>0. /\ TypeOK /\ None \in [Steps -> Statuses] /\ stored \in [Steps -> Statuses]
      /\ crashes \in 0..MaxCrashes[wf] /\ MaxCrashes[wf] \in Nat
  BY CrashesAssumption DEF IInv, TypeOK, None, Statuses
<1>1. CASE Crash \/ Exit
  <2>1. crashes' \in 0..MaxCrashes[wf]
    BY <1>0, <1>1 DEF Crash, Exit
  <2> QED
    BY <1>0, <1>1, <2>1, FreshStep DEF Crash, Exit, Gone, store, aux
<1>2. CASE Restart
  <2>1. status \in Recoverable => status \notin Final
    BY DEF Recoverable, Active, Final
  <2> QED
    BY <1>0, <1>2, <2>1, FreshStep DEF Restart, store, aux
<1>3. CASE Cancel \/ Shutdown \/ Return
  <2>1. /\ UNCHANGED <<wf, mem, phase, failed, rounds, recovered, queue, stored,
                       status, runs, bypassed>>
        /\ crashes' \in 0..MaxCrashes[wf] /\ cancelled' \in BOOLEAN
        /\ agent' = agent \/ (agent' = "stopping" /\ agent = "up")
        /\ engine' = engine \/ (engine = "running" /\ engine' \in Final)
        /\ Steps' = Steps
    <3>1. CASE Cancel
      BY <1>0, <3>1 DEF Cancel, store, aux, TypeOK, Steps
    <3>2. CASE Shutdown
      BY <1>0, <3>2 DEF Shutdown, memory, store, aux, TypeOK, Steps
    <3>3. CASE Return
      BY <1>0, <3>3 DEF Return, Executing, Outcome, Final, store, aux, TypeOK,
                        Steps
    <3> QED
      BY <1>3, <3>1, <3>2, <3>3
  <2>2. TypeOK'
    <3>1. None' = None
      BY <2>1 DEF None
    <3> QED
      BY <1>0, <2>1, <3>1 DEF TypeOK
  <2>3. \A n \in Steps : Replay(n)' = Replay(n) /\ About(n)' = About(n)
    <3>1. \A n \in Steps : Replay(n)' = Replay(n)
      BY <2>1, ReplayIsReplayed
    <3>2. \A n \in Steps : About(n)' = About(n)
      BY <2>1 DEF About
    <3> QED
      BY <3>1, <3>2
  <2>4. InOrder' /\ ResultsIn' /\ NoOldResult' /\ WithheldWaits' /\ LoopsClosed(wf)'
    BY <2>1 DEF IInv, InOrder, ResultsIn, NoOldResult, AtWork, WithheldWaits,
                Withheld
  <2>5. Kept' /\ Untouched'
    BY <2>1, <2>3 DEF IInv, Kept, Untouched
  <2>6. FinalMeansDone'
    BY <2>1 DEF IInv, FinalMeansDone, Final
  <2> QED
    BY <2>2, <2>4, <2>5, <2>6 DEF IInv
<1> QED
  BY <1>1, <1>2, <1>3

-----------------------------------------------------------------------------
(* The theorems *)

\* Every action of the engine, the capture and the agent keeps the invariant.
THEOREM NextIInv == IInv /\ [Next]_vars => IInv'
<1> SUFFICES ASSUME IInv, [Next]_vars PROVE IInv'
  OBVIOUS
<1>1. ASSUME NEW n \in Steps, StepOf(n) PROVE IInv'
  BY <1>1, NodeStep, RewindStep
<1>2. CASE Capture
  BY <1>2, CaptureStep
<1>3. CASE Finalize
  BY <1>3, FinalizeStep
<1>4. CASE Return \/ Cancel \/ Crash \/ Shutdown \/ Exit \/ Restart
  BY <1>4, AgentStep
<1>5. CASE UNCHANGED vars
  <2>1. /\ UNCHANGED <<wf, agent, engine, mem, phase, failed, cancelled, rounds,
                       recovered, queue, stored, status, runs, bypassed,
                       crashes>>
        /\ Steps' = Steps /\ None' = None
    BY <1>5 DEF vars, memory, store, aux, Steps, None
  <2>2. \A n \in Steps : Replay(n)' = Replay(n)
    BY <2>1, ReplayIsReplayed
  <2>3. \A n \in Steps : About(n)' = About(n)
    BY <2>1 DEF About
  <2>4. TypeOK'
    BY <2>1 DEF IInv, TypeOK
  <2>5. InOrder' /\ ResultsIn' /\ NoOldResult' /\ WithheldWaits' /\ LoopsClosed(wf)'
    BY <2>1 DEF IInv, InOrder, ResultsIn, NoOldResult, AtWork, WithheldWaits,
                Withheld
  <2>6. Kept' /\ Untouched' /\ FinalMeansDone'
    BY <2>1, <2>2, <2>3 DEF IInv, Kept, Untouched, FinalMeansDone
  <2> QED
    BY <2>4, <2>5, <2>6 DEF IInv
<1> QED
  BY <1>1, <1>2, <1>3, <1>4, <1>5 DEF Next, Finished

\* The inductive invariant holds of every execution of every workflow whose
\* gotos close their loops, however often the agent crashes or is shut down.
THEOREM Invariance ==
    ASSUME \A w \in Workflows : LoopsClosed(w)
    PROVE  Spec => []IInv
<1>1. Init => IInv
  BY InitIInv
<1>2. IInv /\ [Next]_vars => IInv'
  BY NextIInv
<1> QED
  BY <1>1, <1>2, PTL DEF Spec

\* The engine, processEvent and UpdateStep keep to the statuses of
\* runtime/status.go, and a step.goto on its way always names a step.
THEOREM TypeCorrect ==
    ASSUME \A w \in Workflows : LoopsClosed(w)
    PROVE  Spec => []TypeOK
<1>1. IInv => TypeOK
  BY DEF IInv
<1> QED
  BY <1>1, Invariance, PTL

\* No step's action runs before everything it depends on has a result in
\* memory, across handleGoto's resets and what handleRecovery passes over.
THEOREM RunsOnSettledHolds ==
    ASSUME \A w \in Workflows : LoopsClosed(w)
    PROVE  Spec => []RunsOnSettled
<1>1. IInv => RunsOnSettled
  BY DEF IInv, ResultsIn, RunsOnSettled, Settled
<1> QED
  BY <1>1, Invariance, PTL

\* What the engine has of a step is what captureEvents will have written of it
\* when its channel is empty.
THEOREM NothingLostHolds ==
    ASSUME \A w \in Workflows : LoopsClosed(w)
    PROVE  Spec => []NothingLost
<1>1. IInv => NothingLost
  BY DEF IInv, Kept, NothingLost
<1> QED
  BY <1>1, Invariance, PTL

\* Only step.started brings a step to "started".
LEMMA OnlyBeginStarts ==
    ASSUME IInv, Next, NEW n \in Steps,
           phase[n] # "started", phase'[n] = "started"
    PROVE  Begin(n)
<1>1. phase \in [Steps -> Phases]
  BY DEF IInv, TypeOK, Phases
<1>2. ASSUME NEW m \in Steps, StepOf(m) PROVE m = n /\ Begin(n)
  BY <1>1, <1>2 DEF StepOf, SkipNode, Dispatch, PassOver, FailRecovery,
       WhenFalse, WhenError, Begin, Reject, Act, Wait, Succeed, Fail, Finish,
       Rewind
<1>3. ASSUME Return \/ Capture \/ Finalize \/ Cancel \/ Crash \/ Shutdown
             \/ Exit \/ Restart \/ Finished
      PROVE  FALSE
  BY <1>3 DEF Return, Capture, Finalize, Cancel, Crash, Shutdown, Exit, Restart,
       Finished, Gone, Fresh, vars, memory
<1> QED
  BY <1>2, <1>3 DEF Next

\* handleRecovery does not start again what the store has as a success, unless
\* a step.goto that puts it back is on its way to the store.
THEOREM StoredSuccessKeptHolds ==
    ASSUME \A w \in Workflows : LoopsClosed(w)
    PROVE  Spec => StoredSuccessKept
<1> DEFINE A == \A n \in Steps :
                   phase[n] # "started" /\ phase'[n] = "started"
                       /\ agent = "up" /\ stored[n] = "success" =>
                       \E i \in DOMAIN queue :
                           queue[i].to = "pending" /\ n \in queue[i].steps
<1>1. IInv /\ [Next]_vars => [A]_vars
  <2> SUFFICES ASSUME IInv, Next, NEW n \in Steps,
                      phase[n] # "started", phase'[n] = "started",
                      agent = "up", stored[n] = "success"
               PROVE  \E i \in DOMAIN queue :
                          queue[i].to = "pending" /\ n \in queue[i].steps
    OBVIOUS
  <2>1. Begin(n)
    BY OnlyBeginStarts
  <2>2. /\ engine = "running" /\ phase[n] = "dispatched"
        /\ mem[n] \notin {"success", "skipped"}
    BY <2>1, DecideFacts DEF Begin, Dispatched, Executing
  <2>3. Replay(n) = "pending"
    BY <2>2 DEF IInv, Untouched
  <2>4. queue \in Seq(Events(Steps))
    BY QueueType DEF IInv
  <2>5. Positions(queue, n) # {} /\ LastOn(queue, n) = "pending"
    BY <2>3, ReplayIsReplayed DEF Replayed
  <2>6. PICK k \in Positions(queue, n) : LastOn(queue, n) = queue[k].to
    BY <2>4, <2>5, LastOnExists
  <2> QED
    BY <2>5, <2>6 DEF Positions
<1> QED
  BY <1>1, Invariance, PTL DEF Spec, StoredSuccessKept

\* A step found running with on_recovery skip or fail has its action called by
\* the resumed execution only after a loop put it back.
THEOREM OnRecoveryKeptHolds ==
    ASSUME \A w \in Workflows : LoopsClosed(w)
    PROVE  Spec => OnRecoveryKept
<1> DEFINE A == \A n \in Steps :
                   runs'[n] # runs[n] /\ recovered[n] = "running"
                       /\ wf.onRecovery[n] # "retry" =>
                       \E g \in Gotos(wf) : rounds[g] > 0 /\ n \in LoopBody(wf, g)
<1>1. IInv /\ [Next]_vars => [A]_vars
  <2> SUFFICES ASSUME IInv, Next, NEW n \in Steps, runs'[n] # runs[n]
               PROVE  ~Withheld(n)
    BY DEF Withheld
  <2>1. runs \in [Steps -> Nat]
    BY DEF IInv, TypeOK
  <2>2. ASSUME NEW m \in Steps, StepOf(m) PROVE Act(n)
    BY <2>1, <2>2 DEF StepOf, SkipNode, Dispatch, PassOver, FailRecovery,
         WhenFalse, WhenError, Begin, Reject, Act, Wait, Succeed, Fail, Finish,
         Rewind, aux
  <2>3. ASSUME Return \/ Capture \/ Finalize \/ Cancel \/ Crash \/ Shutdown
               \/ Exit \/ Restart \/ Finished
        PROVE  FALSE
    BY <2>3 DEF Return, Capture, Finalize, Cancel, Crash, Shutdown, Exit,
         Restart, Finished, Gone, vars, aux
  <2>4. Act(n)
    BY <2>2, <2>3 DEF Next
  <2> QED
    BY <2>4, NodeFacts DEF Act, AtWork
<1> QED
  BY <1>1, Invariance, PTL DEF Spec, OnRecoveryKept

\* After finalizeExecution nothing of the execution runs and its row stays as
\* it is: no event is left to be captured, and no restart takes it up again.
THEOREM FinalIsFinalHolds ==
    ASSUME \A w \in Workflows : LoopsClosed(w)
    PROVE  Spec => FinalIsFinal
<1> DEFINE A == (status \in Final) => UNCHANGED <<store, runs>>
<1>1. IInv /\ [Next]_vars => [A]_vars
  <2> SUFFICES ASSUME IInv, Next, status \in Final
               PROVE  UNCHANGED <<store, runs>>
    OBVIOUS
  <2>1. engine = "done" /\ queue = <<>> /\ engine \notin Final
    BY DEF IInv, FinalMeansDone, Final
  <2>2. ASSUME NEW n \in Steps PROVE ~StepOf(n)
    BY <2>1 DEF StepOf, SkipNode, Dispatch, PassOver, FailRecovery, WhenFalse,
         WhenError, Begin, Reject, Act, Wait, Succeed, Fail, Finish, Rewind,
         Ready, Dispatched, Executing
  <2>3. ~Return /\ ~Capture /\ ~Finalize /\ ~Cancel
    BY <2>1 DEF Return, Executing, Capture, Finalize, Cancel
  <2> QED
    BY <2>2, <2>3 DEF Next, Crash, Shutdown, Exit, Restart, Finished, Gone, vars,
         aux
<1> QED
  BY <1>1, Invariance, PTL DEF Spec, FinalIsFinal
=============================================================================
