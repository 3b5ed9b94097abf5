-------------------------- MODULE DagScheduler_proofs --------------------------
(***************************************************************************)
(* Proofs about DagScheduler, for every set of graphs whose gotos close    *)
(* their loops (LoopsClosed) and every number of slots.                    *)
(***************************************************************************)
EXTENDS DagScheduler, Dag_proofs, Channel_proofs, FiniteSetTheorems

(***************************************************************************)
(* The inductive invariant.  A step that was sent on its way and is not    *)
(* finished is in exactly one place: the channel, the out set of the       *)
(* process about to send it, or the hands of one process.                  *)
(***************************************************************************)
Queued(n) == \E i \in 1..Len(ready) : ready[i] = n

Outgoing(n) == \E p \in Procs : n \in out[p]

Started(n) == Queued(n) \/ Outgoing(n) \/ InHand(n) \/ n \in ended

OnePlace ==
    /\ \A i, j \in 1..Len(ready) : ready[i] = ready[j] => i = j
    /\ \A p, q \in Procs : Holding(p) /\ Holding(q) /\ node[p] = node[q] => p = q
    /\ \A p, q \in Procs : \A n \in out[p] : n \in out[q] => p = q
    /\ \A n \in Steps : Queued(n) => ~Outgoing(n) /\ ~InHand(n) /\ n \notin ended
    /\ \A n \in Steps : Outgoing(n) => ~InHand(n) /\ n \notin ended
    /\ \A n \in Steps : InHand(n) => n \notin ended

\* Who still has children to release: a process of a finished step, one per
\* step.
OneReleaser ==
    /\ \A p \in Procs : pc[p] # "enqueue" => todo[p] = {} /\ out[p] = {}
    /\ \A p \in Procs : \A c \in todo[p] :
          node[p] \in ended /\ node[p] \in dag.parents[c]
    /\ \A p, q \in Procs : \A c \in todo[p] :
          c \in todo[q] /\ node[p] = node[q] => p = q

StartedLetGo ==
    \A n \in Steps : Started(n) => \A m \in dag.parents[n] : LetGo(m, n)

DoneExact == done = IF ended = Steps THEN "closed" ELSE "open"

IInv ==
    /\ LoopsClosed(dag)
    /\ TypeOK
    /\ OnePlace
    /\ OneReleaser
    /\ StartedLetGo
    /\ InDegreeExact
    /\ CountMatches
    /\ DoneExact
-----------------------------------------------------------------------------
(* The channel *)

\* A channel whose entries are distinct steps other than c has room for c.
LEMMA RoomFor ==
    ASSUME NEW S, IsFiniteSet(S), NEW q \in Seq(S), NEW c \in S,
           \A i, j \in 1..Len(q) : q[i] = q[j] => i = j,
           \A i \in 1..Len(q) : q[i] # c
    PROVE  Len(q) < Cardinality(S)
<1>1. Len(q) \in Nat
  OBVIOUS
<1>2. IsFiniteSet(S \ {c}) /\ Cardinality(S \ {c}) = Cardinality(S) - 1
  BY FS_RemoveElement
<1>3. Cardinality(S) \in Nat
  BY FS_CardinalityType
<1>4. q \in [1..Len(q) -> S \ {c}]
  OBVIOUS
<1>5. IsFiniteSet(1..Len(q)) /\ Cardinality(1..Len(q)) = Len(q)
  <2>1. 1 \in Int /\ Len(q) \in Int
    BY <1>1
  <2>2. /\ IsFiniteSet(1..Len(q))
        /\ Cardinality(1..Len(q)) = IF 1 > Len(q) THEN 0 ELSE Len(q) - 1 + 1
    BY <2>1, FS_Interval
  <2> QED
    BY <1>1, <2>2
<1>6. ~ Cardinality(S \ {c}) < Cardinality(1..Len(q))
  <2>1. SUFFICES ASSUME Cardinality(S \ {c}) < Cardinality(1..Len(q))
                 PROVE  FALSE
    OBVIOUS
  <2>2. \E x, y \in 1..Len(q) : x # y /\ q[x] = q[y]
    BY <2>1, <1>2, <1>4, <1>5, FS_PigeonHole
  <2> QED
    BY <2>2
<1> QED
  BY <1>1, <1>2, <1>3, <1>5, <1>6
-----------------------------------------------------------------------------
(* The initial states *)

\* What an execution knows of its graph.
LEMMA DagFacts ==
    ASSUME dag \in Dags
    PROVE  /\ Buildable(dag)
           /\ NoNode \notin Steps
           /\ Steps # {} /\ IsFiniteSet(Steps)
           /\ dag.parents \in [Steps -> SUBSET Steps]
           /\ Total \in Nat \ {0}
           /\ \A n \in Steps : IsFiniteSet(dag.parents[n])
           /\ Gotos(dag) \subseteq Steps
<1>1. Buildable(dag) /\ NoNode \notin Steps
  BY DagsAssumption DEF Steps
<1>2. Steps # {} /\ IsFiniteSet(Steps)
  BY <1>1 DEF Buildable, Steps
<1>3. dag.parents \in [Steps -> SUBSET Steps] /\ Gotos(dag) \subseteq Steps
  BY <1>1 DEF Buildable, Steps
<1>4. Total \in Nat \ {0}
  BY <1>2, FS_CardinalityType, FS_EmptySet DEF Total
<1>5. \A n \in Steps : IsFiniteSet(dag.parents[n])
  BY <1>2, <1>3, FS_Subset
<1> QED
  BY <1>1, <1>2, <1>3, <1>4, <1>5

LEMMA InitReady ==
    ASSUME Init
    PROVE  /\ ready \in Seq(Steps)
           /\ \A i, j \in 1..Len(ready) : ready[i] = ready[j] => i = j
           /\ \A i \in 1..Len(ready) : ready[i] \in Roots(dag)
<1> DEFINE k == Cardinality(Roots(dag))
<1>1. ready \in [1..k -> Roots(dag)]
  BY DEF Init
<1>2. Roots(dag) \subseteq Steps /\ IsFiniteSet(Roots(dag))
  BY DagFacts, FS_Subset DEF Roots, Steps, Init
<1>3. k \in Nat
  BY <1>2, FS_CardinalityType
<1>4. Len(ready) = k /\ ready \in Seq(Steps) /\ DOMAIN ready = 1..k
  BY <1>1, <1>2, <1>3
<1> QED
  BY <1>1, <1>4 DEF Init

LEMMA InitIInv ==
    ASSUME Init, \A d \in Dags : LoopsClosed(d)
    PROVE  IInv
<1> USE DEF Init
<1>0. dagLoop \notin Slots /\ dagLoop \in Procs
  BY SlotsAssumption DEF Procs
<1>1. TypeOK
  <2>1. inDegree \in [Steps -> Int]
    BY DagFacts, FS_CardinalityType
  <2>2. completed \in 0..Total
    BY DagFacts
  <2>3. \A p \in Procs : ~Holding(p)
    BY DEF Holding
  <2>4. pc[dagLoop] = "recv" /\ \A s \in Slots : pc[s] = "free"
    BY <1>0 DEF Procs
  <2>5. pc \in [Procs -> PcValues]
    BY DEF PcValues
  <2>6. steps \in [Steps -> {"none", "recorded", "skipped"}]
    OBVIOUS
  <2>7. gotoIterations \in [Gotos(dag) -> Nat]
    OBVIOUS
  <2> QED
    BY InitReady, <2>1, <2>2, <2>3, <2>4, <2>5, <2>6, <2>7 DEF TypeOK, Types
<1>2. \A n : ~Outgoing(n) /\ ~InHand(n) /\ n \notin ended
  BY DEF Outgoing, InHand, Holding
<1>3. OnePlace
  <2>1. \A p, q \in Procs : \A n \in out[p] : n \in out[q] => p = q
    OBVIOUS
  <2>2. \A p \in Procs : ~Holding(p)
    BY DEF Holding
  <2> QED
    BY <1>2, <2>1, <2>2, InitReady DEF OnePlace
<1>4. OneReleaser
  BY DEF OneReleaser
<1>5. StartedLetGo
  <2>1. \A n \in Steps : Started(n) => dag.parents[n] = {}
    BY <1>2, InitReady DEF Started, Queued, Roots
  <2> QED
    BY <2>1 DEF StartedLetGo
<1>6. InDegreeExact
  <2>1. \A c : {p \in dag.parents[c] : ~LetGo(p, c)} = dag.parents[c]
    BY DEF LetGo
  <2> QED
    BY <2>1 DEF InDegreeExact
<1>7. CountMatches
  BY FS_EmptySet DEF CountMatches
<1>8. DoneExact
  BY DagFacts DEF DoneExact
<1> QED
  BY <1>1, <1>3, <1>4, <1>5, <1>6, <1>7, <1>8 DEF IInv
-----------------------------------------------------------------------------
(* Steps that finish no step and release no child *)

LEMMA LetGoFrame ==
    ASSUME ended' = ended, todo' = todo,
           \A p \in Procs : todo[p] # {} => node'[p] = node[p]
    PROVE  \A m, c : LetGo(m, c)' <=> LetGo(m, c)
BY DEF LetGo

LEMMA QuietStep ==
    ASSUME IInv,
           UNCHANGED <<dag, inDegree, completed, done, ended, todo>>,
           \A p \in Procs : todo[p] # {} => node'[p] = node[p],
           \A n \in Steps : Started(n)' => Started(n)
    PROVE  /\ LoopsClosed(dag)'
           /\ StartedLetGo'
           /\ InDegreeExact'
           /\ CountMatches'
           /\ DoneExact'
<1>1. \A m, c : LetGo(m, c)' <=> LetGo(m, c)
  BY LetGoFrame
<1>2. Steps' = Steps
  BY DEF Steps
<1>3. StartedLetGo'
  BY <1>1, <1>2 DEF StartedLetGo, IInv
<1>4. InDegreeExact'
  <2>1. \A c : {p \in dag.parents[c] : ~LetGo(p, c)}'
                 = {p \in dag.parents[c] : ~LetGo(p, c)}
    BY <1>1
  <2> QED
    BY <1>2, <2>1 DEF InDegreeExact, IInv
<1>5. CountMatches' /\ DoneExact' /\ LoopsClosed(dag)'
  BY <1>2 DEF CountMatches, DoneExact, IInv
<1> QED
  BY <1>3, <1>4, <1>5

\* A move of one process that keeps what it holds, if anything, in its hands.
LEMMA ProcFacts ==
    ASSUME IInv
    PROVE  /\ dag \in Dags
           /\ dagLoop \in Procs /\ dagLoop \notin Slots /\ Slots \subseteq Procs
           /\ Procs = Slots \cup {dagLoop}
           /\ \A p \in Procs : pc[p] # "enqueue" => todo[p] = {} /\ out[p] = {}
           /\ \A p \in Procs : Holding(p) => node[p] \in Steps
           /\ \A p \in Procs : Holding(p) => node[p] \notin ended
           /\ TypeOK /\ Types /\ OnePlace /\ OneReleaser /\ StartedLetGo
<1>1. dagLoop \in Procs /\ dagLoop \notin Slots /\ Slots \subseteq Procs
  BY SlotsAssumption DEF Procs
<1>2. \A p \in Procs : Holding(p) => node[p] \in Steps
  BY DEF IInv, TypeOK, Types
<1>3. \A p \in Procs : Holding(p) => node[p] \notin ended
  BY <1>2 DEF IInv, OnePlace, InHand
<1> QED
  BY <1>1, <1>2, <1>3 DEF IInv, TypeOK, Types, OneReleaser, Procs

LEMMA ReceiveIInv == IInv /\ Receive => IInv'
<1> SUFFICES ASSUME IInv, Receive PROVE IInv'
  OBVIOUS
<1> USE ProcFacts
<1> DEFINE h == Head(ready)
<1>1. /\ ready \in Seq(Steps) /\ ready # <<>>
      /\ h \in Steps /\ h = ready[1]
      /\ Len(ready) \in Nat \ {0}
      /\ ready' \in Seq(Steps)
      /\ Len(ready') = Len(ready) - 1
      /\ \A i \in 1..Len(ready') : ready'[i] = ready[i + 1]
  BY TailFacts DEF Types, Receive
<1>2. /\ Queued(h)
      /\ ~Outgoing(h) /\ ~InHand(h) /\ h \notin ended
  BY <1>1 DEF Queued, OnePlace
<1>3. /\ pc'[dagLoop] \in {"skip", "acquire"} /\ node'[dagLoop] = h
      /\ \A p \in Procs \ {dagLoop} : pc'[p] = pc[p] /\ node'[p] = node[p]
      /\ Steps' = Steps
  BY DEF Receive, ReceivedPc, Types, Steps
<1>4. TypeOK'
  <2>1. pc' \in [Procs -> PcValues] /\ node' \in [Procs -> Steps \cup {NoNode}]
    BY <1>1 DEF Receive, ReceivedPc, Types, PcValues
  <2>2. \A p \in Procs : Holding(p)' => node'[p] # NoNode
    BY <1>1, <1>3, DagFacts DEF Types, Holding
  <2>3. \A s \in Slots : pc'[s] = pc[s]
    BY <1>3
  <2> QED
    BY <1>1, <1>3, <2>1, <2>2, <2>3 DEF TypeOK, Types, Receive, Steps, Total, aux
<1>5. \A p \in Procs \ {dagLoop} : Holding(p)' <=> Holding(p)
  BY <1>3 DEF Holding
<1>6. ~Holding(dagLoop) /\ todo[dagLoop] = {} /\ out[dagLoop] = {}
  BY DEF Receive, Holding
<1>7. \A n \in Steps : InHand(n)' <=> InHand(n) \/ n = h
  BY <1>3, <1>5, <1>6 DEF InHand, Holding
<1>8. \A n \in Steps : Queued(n)' => Queued(n) /\ n # h
  <2>1. ASSUME NEW i \in 1..Len(ready') PROVE ready'[i] # h
    BY <2>1, <1>1 DEF OnePlace
  <2> QED
    BY <1>1, <2>1 DEF Queued
<1>9. out' = out /\ ended' = ended /\ todo' = todo /\ dag' = dag
  BY DEF Receive, aux
<1>10. \A n \in Steps : Outgoing(n)' <=> Outgoing(n)
  BY <1>9 DEF Outgoing
<1>11. OnePlace'
  <2>1. \A i, j \in 1..Len(ready') : ready'[i] = ready'[j] => i = j
    BY <1>1 DEF OnePlace
  <2>2. \A p, q \in Procs : Holding(p)' /\ Holding(q)' /\ node'[p] = node'[q] => p = q
    BY <1>2, <1>3, <1>5 DEF OnePlace, InHand
  <2>3. \A p, q \in Procs : \A n \in out'[p] : n \in out'[q] => p = q
    BY <1>9 DEF OnePlace
  <2>4. \A n \in Steps : Queued(n)' => ~Outgoing(n)' /\ ~InHand(n)' /\ n \notin ended'
    BY <1>7, <1>8, <1>9, <1>10 DEF OnePlace
  <2>5. \A n \in Steps : /\ Outgoing(n)' => ~InHand(n)' /\ n \notin ended'
                         /\ InHand(n)' => n \notin ended'
    BY <1>2, <1>7, <1>9, <1>10 DEF OnePlace
  <2> QED
    BY <1>3, <2>1, <2>2, <2>3, <2>4, <2>5 DEF OnePlace
<1>12. OneReleaser'
  BY <1>3, <1>6, <1>9 DEF OneReleaser
<1>13. \A n \in Steps : Started(n)' => Started(n)
  BY <1>2, <1>7, <1>8, <1>9, <1>10 DEF Started
<1>14. \A p \in Procs : todo[p] # {} => node'[p] = node[p]
  BY <1>3, <1>6
<1> QED
  BY <1>4, <1>9, <1>11, <1>12, <1>13, <1>14, QuietStep DEF IInv, Receive
LEMMA AcquireIInv == \A s \in Slots : IInv /\ Acquire(s) => IInv'
<1> SUFFICES ASSUME NEW s \in Slots, IInv, Acquire(s) PROVE IInv'
  OBVIOUS
<1> USE ProcFacts
<1>1. /\ pc[dagLoop] = "acquire" /\ pc[s] = "free" /\ s # dagLoop
      /\ pc'[dagLoop] = "recv" /\ pc'[s] = "exec"
      /\ node'[dagLoop] = NoNode /\ node'[s] = node[dagLoop]
      /\ \A p \in Procs \ {dagLoop, s} : pc'[p] = pc[p] /\ node'[p] = node[p]
  BY DEF Acquire, Types
<1>2. /\ UNCHANGED <<dag, ready, inDegree, completed, done, out, ended, todo>>
      /\ Steps' = Steps
  BY DEF Acquire, state, aux, Steps
<1>3. Holding(dagLoop) /\ ~Holding(s) /\ ~Holding(dagLoop)' /\ Holding(s)'
  BY <1>1 DEF Holding
<1>4. \A p \in Procs \ {dagLoop, s} : Holding(p)' <=> Holding(p)
  BY <1>1 DEF Holding
<1>5. TypeOK'
  <2>1. pc' \in [Procs -> PcValues] /\ node' \in [Procs -> Steps \cup {NoNode}]
    BY DEF Acquire, Types, PcValues
  <2>2. \A p \in Procs : Holding(p)' => node'[p] # NoNode
    BY <1>1, <1>3, <1>4 DEF Types
  <2>3. \A q \in Slots : pc'[q] \in {"free", "exec", "ok", "fail", "enqueue"}
    BY <1>1 DEF Types
  <2> QED
    BY <1>1, <1>2, <2>1, <2>2, <2>3
    DEF TypeOK, Types, Acquire, state, aux, Steps, Total
<1>6. \A n \in Steps : /\ InHand(n)' <=> InHand(n)
                       /\ Queued(n)' <=> Queued(n)
                       /\ Outgoing(n)' <=> Outgoing(n)
  <2>1. \A n \in Steps : InHand(n)' <=> InHand(n)
    BY <1>1, <1>3, <1>4 DEF InHand
  <2> QED
    BY <1>2, <2>1 DEF Queued, Outgoing
<1>7. OnePlace'
  <2>1. \A p, q \in Procs : Holding(p)' /\ Holding(q)' /\ node'[p] = node'[q] => p = q
    BY <1>1, <1>3, <1>4 DEF OnePlace
  <2> QED
    BY <1>2, <1>6, <2>1 DEF OnePlace
<1>8. OneReleaser'
  BY <1>1, <1>2 DEF OneReleaser
<1>9. \A n \in Steps : Started(n)' => Started(n)
  BY <1>2, <1>6 DEF Started
<1>10. \A p \in Procs : todo[p] # {} => node'[p] = node[p]
  BY <1>1
<1> QED
  BY <1>2, <1>5, <1>7, <1>8, <1>9, <1>10, QuietStep DEF IInv

LEMMA ExecuteIInv ==
    \A s \in Slots : IInv /\ (ExecuteOk(s) \/ ExecuteErr(s)) => IInv'
<1> SUFFICES ASSUME NEW s \in Slots, IInv, ExecuteOk(s) \/ ExecuteErr(s)
             PROVE  IInv'
  OBVIOUS
<1> USE ProcFacts
<1>1. /\ pc[s] = "exec" /\ pc'[s] \in {"ok", "fail"}
      /\ \A p \in Procs \ {s} : pc'[p] = pc[p]
  BY DEF ExecuteOk, ExecuteErr, Types
<1>2. /\ UNCHANGED <<dag, ready, inDegree, completed, done, node, out, ended, todo>>
      /\ Steps' = Steps
  BY DEF ExecuteOk, ExecuteErr, aux, Steps
<1>3. \A p \in Procs : Holding(p)' <=> Holding(p)
  BY <1>1 DEF Holding
<1>4. TypeOK'
  <2>1. pc' \in [Procs -> PcValues]
    BY DEF ExecuteOk, ExecuteErr, Types, PcValues
  <2>2. steps' \in [Steps -> {"none", "recorded", "skipped"}]
    <3>1. node[s] \in Steps
      BY <1>1 DEF Holding
    <3> QED
      BY <3>1 DEF ExecuteOk, ExecuteErr, Types
  <2>3. pc'[dagLoop] = pc[dagLoop]
    BY <1>1
  <2>4. \A q \in Slots : pc'[q] \in {"free", "exec", "ok", "fail", "enqueue"}
    BY <1>1 DEF Types
  <2>5. UNCHANGED <<firstErr, gotoIterations, returned, erred>>
    BY DEF ExecuteOk, ExecuteErr, aux
  <2> QED
    BY <1>2, <1>3, <2>1, <2>2, <2>3, <2>4, <2>5 DEF TypeOK, Types, Steps, Total
<1>5. \A n : /\ InHand(n)' <=> InHand(n)
             /\ Queued(n)' <=> Queued(n)
             /\ Outgoing(n)' <=> Outgoing(n)
  BY <1>2, <1>3 DEF InHand, Queued, Outgoing
<1>6. OnePlace'
  BY <1>2, <1>3, <1>5 DEF OnePlace
<1>7. OneReleaser'
  BY <1>1, <1>2 DEF OneReleaser
<1>8. \A n \in Steps : Started(n)' => Started(n)
  BY <1>2, <1>5 DEF Started
<1> QED
  BY <1>2, <1>4, <1>6, <1>7, <1>8, QuietStep DEF IInv

LEMMA LeaveIInv ==
    IInv /\ (LoopBack \/ \E s \in Slots : Leave(s)) => IInv'
<1> SUFFICES ASSUME IInv, NEW p \in Procs,
                    pc[p] = "enqueue", todo[p] = {}, out[p] = {},
                    pc' = [pc EXCEPT ![p] = IF p = dagLoop THEN "recv" ELSE "free"],
                    node' = [node EXCEPT ![p] = NoNode],
                    UNCHANGED <<state, todo, out, aux>>
             PROVE  IInv'
  BY ProcFacts DEF LoopBack, Leave
<1> USE ProcFacts
<1>1. /\ pc'[p] \in {"recv", "free"} /\ node'[p] = NoNode
      /\ \A q \in Procs \ {p} : pc'[q] = pc[q] /\ node'[q] = node[q]
  BY DEF Types
<1>2. /\ UNCHANGED <<dag, ready, inDegree, completed, done, out, ended, todo>>
      /\ Steps' = Steps
  BY DEF state, aux, Steps
<1>3. \A q \in Procs : Holding(q)' <=> Holding(q)
  BY <1>1 DEF Holding
<1>4. TypeOK'
  <2>1. pc' \in [Procs -> PcValues] /\ node' \in [Procs -> Steps \cup {NoNode}]
    BY DEF Types, PcValues
  <2>2. \A q \in Procs : Holding(q)' => node'[q] # NoNode
    BY <1>1, <1>3 DEF Types, Holding
  <2>3. /\ pc'[dagLoop] \in {"recv", "acquire", "skip", "enqueue"}
        /\ \A q \in Slots : pc'[q] \in {"free", "exec", "ok", "fail", "enqueue"}
    BY DEF Types
  <2> QED
    BY <1>2, <2>1, <2>2, <2>3 DEF TypeOK, Types, state, aux, Steps, Total
<1>5. \A n : /\ InHand(n)' <=> InHand(n)
             /\ Queued(n)' <=> Queued(n)
             /\ Outgoing(n)' <=> Outgoing(n)
  <2>1. \A q \in Procs : Holding(q) => node'[q] = node[q]
    BY <1>1 DEF Holding
  <2> QED
    BY <1>2, <1>3, <2>1 DEF InHand, Queued, Outgoing
<1>6. OnePlace'
  <2>1. \A q \in Procs : Holding(q) => node'[q] = node[q]
    BY <1>1 DEF Holding
  <2> QED
    BY <1>2, <1>3, <1>5, <2>1 DEF OnePlace
<1>7. OneReleaser'
  BY <1>1, <1>2 DEF OneReleaser
<1>8. \A n \in Steps : Started(n)' => Started(n)
  BY <1>2, <1>5 DEF Started
<1>9. \A q \in Procs : todo[q] # {} => node'[q] = node[q]
  BY <1>1
<1> QED
  BY <1>2, <1>4, <1>6, <1>7, <1>8, <1>9, QuietStep DEF IInv
LEMMA SendIInv == \A p \in Procs : IInv /\ Send(p) => IInv'
<1> SUFFICES ASSUME NEW p \in Procs, IInv, Send(p) PROVE IInv'
  OBVIOUS
<1> USE ProcFacts
<1>0. PICK c \in out[p] : /\ ready' = Append(ready, c)
                          /\ out' = [out EXCEPT ![p] = @ \ {c}]
  BY DEF Send
<1>1. c \in Steps /\ ready \in Seq(Steps)
  BY DEF Types
<1>2. /\ Len(ready) \in Nat /\ ready' \in Seq(Steps)
      /\ Len(ready') = Len(ready) + 1
      /\ \A i \in 1..Len(ready) : ready'[i] = ready[i]
      /\ ready'[Len(ready) + 1] = c
  BY <1>0, <1>1, AppendFacts
<1>3. /\ UNCHANGED <<dag, inDegree, completed, done, pc, node, ended, todo>>
      /\ Steps' = Steps
  BY DEF Send, aux, Steps
<1>4. /\ out' \in [Procs -> SUBSET Steps]
      /\ out'[p] = out[p] \ {c}
      /\ \A q \in Procs \ {p} : out'[q] = out[q]
  BY <1>0, <1>1 DEF Types
<1>5. Outgoing(c) /\ ~Queued(c) /\ ~InHand(c) /\ c \notin ended
  BY <1>1 DEF Outgoing, OnePlace
<1>6. \A n \in Steps : InHand(n)' <=> InHand(n)
  BY <1>3 DEF InHand, Holding
<1>7. \A n \in Steps : Queued(n)' => Queued(n) \/ n = c
  BY <1>2 DEF Queued
<1>8. \A n \in Steps : Outgoing(n)' => Outgoing(n) /\ n # c
  BY <1>4 DEF Outgoing, OnePlace
<1>9. TypeOK'
  <2>1. UNCHANGED <<firstErr, gotoIterations, steps, returned, erred>>
    BY DEF Send, aux
  <2> QED
    BY <1>2, <1>3, <1>4, <2>1 DEF TypeOK, Types, Steps, Total, Holding
<1>10. OnePlace'
  <2>1. \A i, j \in 1..Len(ready') : ready'[i] = ready'[j] => i = j
    <3>1. \A i \in 1..Len(ready) : ready[i] # c
      BY <1>5 DEF Queued
    <3> QED
      BY <1>2, <3>1 DEF OnePlace
  <2>2. \A q, r \in Procs : \A n \in out'[q] : n \in out'[r] => q = r
    BY <1>4 DEF OnePlace
  <2>3. \A n \in Steps : Queued(n)' => ~Outgoing(n)' /\ ~InHand(n)' /\ n \notin ended'
    BY <1>3, <1>5, <1>6, <1>7, <1>8 DEF OnePlace
  <2>4. \A n \in Steps : Outgoing(n)' => ~InHand(n)' /\ n \notin ended'
    BY <1>3, <1>6, <1>8 DEF OnePlace
  <2> QED
    BY <1>3, <1>6, <2>1, <2>2, <2>3, <2>4 DEF OnePlace, Holding
<1>11. OneReleaser'
  BY <1>3, <1>4 DEF OneReleaser
<1>12. \A n \in Steps : Started(n)' => Started(n)
  BY <1>3, <1>5, <1>6, <1>7, <1>8 DEF Started
<1> QED
  BY <1>3, <1>9, <1>10, <1>11, <1>12, QuietStep DEF IInv

LEMMA ReturnIInv == IInv /\ (Return \/ UNCHANGED vars) => IInv'
<1> SUFFICES ASSUME IInv, Return \/ UNCHANGED vars PROVE IInv'
  OBVIOUS
<1> USE ProcFacts
<1>1. UNCHANGED <<dag, ready, inDegree, completed, firstErr, done, gotoIterations,
                  steps, pc, node, todo, out, ended, erred>>
  BY DEF Return, vars, state, procs, aux
<1>2. returned' \in {"no", "ok", "error"} /\ Steps' = Steps
  BY <1>1 DEF Return, vars, state, Types, Steps
<1>3. \A n : /\ InHand(n)' <=> InHand(n)
             /\ Queued(n)' <=> Queued(n)
             /\ Outgoing(n)' <=> Outgoing(n)
  BY <1>1 DEF InHand, Holding, Queued, Outgoing
<1>4. TypeOK'
  BY <1>1, <1>2 DEF TypeOK, Types, Total, Steps, Holding
<1>5. OnePlace' /\ OneReleaser'
  BY <1>1, <1>2, <1>3 DEF OnePlace, OneReleaser, Holding
<1>6. \A n \in Steps : Started(n)' => Started(n)
  BY <1>1, <1>3 DEF Started
<1> QED
  BY <1>1, <1>4, <1>5, <1>6, QuietStep DEF IInv
-----------------------------------------------------------------------------
(* enqueueChildren: one decrement *)

LEMMA DecrementIInv == \A p \in Procs : IInv /\ Decrement(p) => IInv'
<1> SUFFICES ASSUME NEW p \in Procs, IInv, Decrement(p) PROVE IInv'
  OBVIOUS
<1> USE ProcFacts
<1> DEFINE Pending(x) == {m \in dag.parents[x] : ~LetGo(m, x)}
<1>0. PICK c \in todo[p] :
         /\ inDegree' = [inDegree EXCEPT ![c] = @ - 1]
         /\ todo' = [todo EXCEPT ![p] = @ \ {c}]
         /\ out' = [out EXCEPT ![p] = IF Released(c) THEN {c} ELSE {}]
  BY DEF Decrement
<1>1. /\ UNCHANGED <<dag, ready, completed, done, pc, node, ended>>
      /\ UNCHANGED <<firstErr, gotoIterations, steps, returned, erred>>
      /\ Steps' = Steps /\ out[p] = {} /\ pc[p] = "enqueue"
  BY DEF Decrement, aux, Steps
<1>2. c \in Steps /\ node[p] \in ended /\ node[p] \in dag.parents[c]
  BY DEF Types, OneReleaser
<1>3. /\ todo'[p] = todo[p] \ {c}
      /\ \A q \in Procs \ {p} : todo'[q] = todo[q] /\ out'[q] = out[q]
      /\ out'[p] = IF Released(c) THEN {c} ELSE {}
      /\ inDegree'[c] = inDegree[c] - 1
      /\ \A x \in Steps \ {c} : inDegree'[x] = inDegree[x]
  BY <1>0, <1>2 DEF Types
\* Exactly one pair becomes released.
<1>4. \A m, x : LetGo(m, x)' <=> LetGo(m, x) \/ (m = node[p] /\ x = c)
  <2>1. ASSUME NEW q \in Procs, node'[q] = node[p], c \in todo'[q] PROVE FALSE
    <3>1. q # p /\ node[q] = node[p]
      BY <1>1, <1>3, <2>1
    <3>2. c \in todo[q]
      BY <1>3, <2>1, <3>1
    <3> QED
      BY <3>1, <3>2 DEF OneReleaser
  <2>2. ASSUME NEW m, NEW x, LetGo(m, x) PROVE LetGo(m, x)'
    BY <1>1, <1>3, <2>2 DEF LetGo
  <2>3. ASSUME NEW m, NEW x, LetGo(m, x)', ~(m = node[p] /\ x = c)
        PROVE  LetGo(m, x)
    BY <1>1, <1>3, <2>3 DEF LetGo
  <2>4. ASSUME NEW m, NEW x, m = node[p], x = c PROVE LetGo(m, x)'
    BY <1>1, <1>2, <2>1, <2>4 DEF LetGo
  <2> QED
    BY <2>2, <2>3, <2>4
<1>5. ~LetGo(node[p], c)
  BY DEF LetGo
<1>6. ~Started(c)
  BY <1>2, <1>5 DEF StartedLetGo
<1>7. /\ Pending(c)' = Pending(c) \ {node[p]}
      /\ \A x \in Steps \ {c} : Pending(x)' = Pending(x)
  BY <1>1, <1>4
<1>8. inDegree[c] = Cardinality(Pending(c)) /\ IsFiniteSet(Pending(c))
  <2>1. IsFiniteSet(dag.parents[c])
    BY <1>2, DagFacts
  <2>2. IsFiniteSet(Pending(c))
    BY <2>1, FS_Subset
  <2> QED
    BY <1>2, <2>2 DEF InDegreeExact, IInv
<1>9. /\ IsFiniteSet(Pending(c)')
      /\ Cardinality(Pending(c)') = inDegree'[c]
  <2>1. node[p] \in Pending(c)
    BY <1>2, <1>5
  <2> HIDE DEF Pending
  <2>2. /\ IsFiniteSet(Pending(c) \ {node[p]})
        /\ Cardinality(Pending(c) \ {node[p]}) = Cardinality(Pending(c)) - 1
    BY <1>8, <2>1, FS_RemoveElement
  <2> QED
    BY <1>3, <1>7, <1>8, <2>2
<1>10. InDegreeExact'
  <2>1. ASSUME NEW x \in Steps PROVE inDegree'[x] = Cardinality(Pending(x)')
    <3>1. inDegree[x] = Cardinality(Pending(x))
      BY DEF InDegreeExact, IInv
    <3> HIDE DEF Pending
    <3> QED
      BY <1>3, <1>7, <1>9, <3>1
  <2> QED
    BY <1>1, <2>1 DEF InDegreeExact
<1>11. Released(c) => Pending(c)' = {}
  <2>1. Cardinality(Pending(c)') \in Nat
    BY <1>9, FS_CardinalityType
  <2>2. Released(c) => Cardinality(Pending(c)') = 0
    BY <1>3, <1>9, <2>1 DEF Released
  <2> QED
    BY <1>9, <2>2, FS_EmptySet
<1>12. \A n : /\ InHand(n)' <=> InHand(n)
              /\ Queued(n)' <=> Queued(n)
  BY <1>1 DEF InHand, Holding, Queued
<1>13. \A n : Outgoing(n)' <=> Outgoing(n) \/ (Released(c) /\ n = c)
  BY <1>1, <1>3 DEF Outgoing
<1>14. TypeOK'
  <2>1. /\ inDegree' \in [Steps -> Int]
        /\ todo' \in [Procs -> SUBSET Steps]
        /\ out' \in [Procs -> SUBSET Steps]
    BY <1>0, <1>2 DEF Types
  <2> QED
    BY <1>1, <2>1 DEF TypeOK, Types, Steps, Total, Holding
<1>15. OnePlace'
  <2>1. ~Queued(c) /\ ~Outgoing(c) /\ ~InHand(c) /\ c \notin ended
    BY <1>6 DEF Started
  <2>2. \A q, r \in Procs : \A n \in out'[q] : n \in out'[r] => q = r
    BY <1>1, <1>3, <2>1 DEF OnePlace, Outgoing
  <2>3. \A q \in Procs : Holding(q)' <=> Holding(q)
    BY <1>1 DEF Holding
  <2>4. \A n \in Steps : Queued(n)' => ~Outgoing(n)' /\ ~InHand(n)' /\ n \notin ended'
    BY <1>1, <1>12, <1>13, <2>1 DEF OnePlace
  <2>5. \A n \in Steps : Outgoing(n)' => ~InHand(n)' /\ n \notin ended'
    BY <1>1, <1>12, <1>13, <2>1 DEF OnePlace
  <2> QED
    BY <1>1, <1>12, <2>2, <2>3, <2>4, <2>5 DEF OnePlace
<1>16. OneReleaser'
  <2>1. \A q \in Procs : todo'[q] \subseteq todo[q]
    BY <1>3
  <2> QED
    BY <1>1, <1>3, <2>1 DEF OneReleaser
<1>17. StartedLetGo'
  <2>1. ASSUME NEW n \in Steps, Started(n)', NEW m \in dag.parents[n]
        PROVE  LetGo(m, n)'
    <3>1. CASE Started(n)
      BY <1>4, <2>1, <3>1 DEF StartedLetGo
    <3>2. CASE ~Started(n)
      <4>1. Released(c) /\ n = c
        BY <1>1, <1>12, <1>13, <2>1, <3>2 DEF Started
      <4> QED
        BY <1>1, <1>11, <2>1, <4>1
    <3> QED
      BY <3>1, <3>2
  <2> QED
    BY <1>1, <2>1 DEF StartedLetGo
<1>18. CountMatches' /\ DoneExact' /\ LoopsClosed(dag)'
  BY <1>1 DEF CountMatches, DoneExact, IInv
<1> QED
  BY <1>10, <1>14, <1>15, <1>16, <1>17, <1>18 DEF IInv
-----------------------------------------------------------------------------
(* Counting a step: skipNode and runDAGNode without a goto *)

LEMMA CountStepIInv ==
    ASSUME IInv, NEW p \in Procs, Holding(p), CountStep(p, node[p]),
           UNCHANGED <<dag, ready, inDegree, gotoIterations, returned, node>>,
           firstErr' \in Steps \cup {NoNode},
           steps' \in [Steps -> {"none", "recorded", "skipped"}],
           erred' \subseteq Steps
    PROVE  IInv'
<1> USE ProcFacts
<1> DEFINE n == node[p]
           allDone == completed + 1 >= Total
<1>1. /\ n \in Steps /\ n \notin ended /\ InHand(n)
      /\ ~Queued(n) /\ ~Outgoing(n)
      /\ todo[p] = {} /\ out[p] = {}
  BY DEF OnePlace, InHand, Holding
<1>2. /\ completed' = completed + 1
      /\ ended' = ended \cup {n}
      /\ pc'[p] = "enqueue"
      /\ \A q \in Procs \ {p} : pc'[q] = pc[q] /\ todo'[q] = todo[q]
      /\ out' = out
      /\ todo'[p] = IF allDone THEN {} ELSE Children(dag, n)
      /\ done' = IF allDone THEN CloseDone ELSE done
      /\ Steps' = Steps
  BY <1>1 DEF CountStep, Types, Steps
<1>3. /\ IsFiniteSet(Steps) /\ ended' \subseteq Steps /\ IsFiniteSet(ended')
      /\ Cardinality(ended') = completed'
      /\ completed' \in 0..Total
      /\ (allDone <=> ended' = Steps)
  <2>1. IsFiniteSet(Steps) /\ ended \subseteq Steps
    BY DagFacts DEF Types
  <2>2. IsFiniteSet(ended) /\ completed = Cardinality(ended)
    BY <2>1, FS_Subset DEF IInv, CountMatches
  <2>3. Cardinality(ended') = completed + 1 /\ IsFiniteSet(ended')
    BY <1>1, <1>2, <2>2, FS_AddElement
  <2>4. ended' \subseteq Steps
    BY <1>1, <1>2, <2>1
  <2>5. /\ Cardinality(ended') <= Total
        /\ Total = Cardinality(ended') => ended' = Steps
    BY <2>1, <2>4, FS_Subset DEF Total
  <2>6. completed \in Nat /\ Total \in Nat
    BY <2>2, FS_CardinalityType, DagFacts
  <2>7. ended' = Steps => Total = Cardinality(ended')
    BY DEF Total
  <2> QED
    BY <1>2, <2>1, <2>3, <2>4, <2>5, <2>6, <2>7
<1>4. done = "open"
  BY <1>1 DEF IInv, DoneExact
<1>5. DoneExact'
  BY <1>2, <1>3, <1>4 DEF DoneExact, CloseDone
<1>6. TypeOK'
  <2>1. pc' \in [Procs -> PcValues]
    BY DEF CountStep, Types, PcValues
  <2>2. /\ pc'[dagLoop] \in {"recv", "acquire", "skip", "enqueue"}
        /\ \A q \in Slots : pc'[q] \in {"free", "exec", "ok", "fail", "enqueue"}
    BY <1>2 DEF Types
  <2>3. \A q \in Procs : Holding(q)' => Holding(q)
    BY <1>2 DEF Holding
  <2>4. todo' \in [Procs -> SUBSET Steps] /\ out' \in [Procs -> SUBSET Steps]
    BY <1>2 DEF CountStep, Types, Children, Steps
  <2>5. done' \in {"open", "closed", "panic"}
    BY <1>2, <1>4 DEF CloseDone
  <2> QED
    BY <1>2, <1>3, <2>1, <2>2, <2>3, <2>4, <2>5
    DEF TypeOK, Types, Steps, Total
\* The step's children all wait for it, so with every step ended there are none.
<1>7. ASSUME NEW x \in Steps, n \in dag.parents[x] PROVE ~Started(x)
  BY <1>1, <1>7 DEF StartedLetGo, LetGo
<1>8. \A x \in Steps : \A m \in dag.parents[x] : LetGo(m, x)' <=> LetGo(m, x)
  <2>1. ASSUME NEW x \in Steps, NEW m \in dag.parents[x], m # n
        PROVE  LetGo(m, x)' <=> LetGo(m, x)
    BY <1>1, <1>2, <2>1 DEF LetGo
  <2>2. ASSUME NEW x \in Steps, n \in dag.parents[x]
        PROVE  x \in todo'[p]
    <3>1. x # n /\ x \notin ended
      BY <1>1, <1>7, <2>2 DEF Started
    <3>2. ~allDone
      BY <1>2, <1>3, <3>1
    <3> QED
      BY <1>2, <2>2, <3>2 DEF Children, Steps
  <2>3. ASSUME NEW x \in Steps, NEW m \in dag.parents[x], m = n
        PROVE  ~LetGo(m, x) /\ ~LetGo(m, x)'
    BY <1>1, <2>2, <2>3 DEF LetGo
  <2> QED
    BY <2>1, <2>3
<1>9. \A q \in Procs \ {p} : Holding(q)' <=> Holding(q)
  BY <1>2 DEF Holding
<1>10. \A x \in Steps : /\ InHand(x)' => InHand(x) /\ x # n
                        /\ Queued(x)' <=> Queued(x)
                        /\ Outgoing(x)' <=> Outgoing(x)
  <2>1. ~Holding(p)'
    BY <1>2 DEF Holding
  <2> QED
    BY <1>2, <1>9, <2>1 DEF InHand, Queued, Outgoing, OnePlace
<1>11. OnePlace'
  <2>1. \A q, r \in Procs : Holding(q)' /\ Holding(r)' /\ node'[q] = node'[r] => q = r
    <3>1. ~Holding(p)'
      BY <1>2 DEF Holding
    <3> QED
      BY <1>9, <3>1 DEF OnePlace
  <2>2. \A x \in Steps : Queued(x)' => ~Outgoing(x)' /\ ~InHand(x)' /\ x \notin ended'
    BY <1>1, <1>2, <1>10 DEF OnePlace
  <2>3. \A x \in Steps : /\ Outgoing(x)' => ~InHand(x)' /\ x \notin ended'
                         /\ InHand(x)' => x \notin ended'
    BY <1>1, <1>2, <1>10 DEF OnePlace
  <2> QED
    BY <1>2, <2>1, <2>2, <2>3 DEF OnePlace
<1>12. OneReleaser'
  <2>1. \A q \in Procs : pc'[q] # "enqueue" => todo'[q] = {} /\ out'[q] = {}
    BY <1>2
  <2>2. \A q \in Procs : \A c \in todo'[q] :
           node'[q] \in ended' /\ node'[q] \in dag'.parents[c]
    BY <1>2 DEF OneReleaser, Children
  <2>3. \A q, r \in Procs : \A c \in todo'[q] :
           c \in todo'[r] /\ node'[q] = node'[r] => q = r
    BY <1>1, <1>2 DEF OneReleaser
  <2> QED
    BY <2>1, <2>2, <2>3 DEF OneReleaser
<1>13. StartedLetGo'
  <2>1. \A x \in Steps : Started(x)' => Started(x)
    BY <1>1, <1>2, <1>10 DEF Started
  <2> QED
    BY <1>2, <1>8, <2>1 DEF StartedLetGo
<1>14. InDegreeExact'
  <2>1. ASSUME NEW x \in Steps
        PROVE  {m \in dag.parents[x] : ~LetGo(m, x)}'
                 = {m \in dag.parents[x] : ~LetGo(m, x)}
    BY <1>8
  <2> QED
    BY <1>2, <2>1 DEF InDegreeExact, IInv
<1>15. CountMatches' /\ LoopsClosed(dag)'
  BY <1>3 DEF CountMatches, IInv
<1> QED
  BY <1>5, <1>6, <1>11, <1>12, <1>13, <1>14, <1>15 DEF IInv

LEMMA SkipNodeIInv == IInv /\ SkipNode => IInv'
<1> SUFFICES ASSUME IInv, SkipNode PROVE IInv'
  OBVIOUS
<1>1. Holding(dagLoop) /\ dagLoop \in Procs /\ node[dagLoop] \in Steps
  BY ProcFacts DEF SkipNode, Holding
<1>2. steps' \in [Steps -> {"none", "recorded", "skipped"}]
  BY <1>1, ProcFacts DEF SkipNode, Types
<1>3. firstErr' \in Steps \cup {NoNode} /\ erred' \subseteq Steps
  BY ProcFacts DEF SkipNode, Types
<1> QED
  BY <1>1, <1>2, <1>3, CountStepIInv DEF SkipNode

LEMMA FinishIInv ==
    \A s \in Slots : IInv /\ (FinishOk(s) \/ FinishErr(s)) => IInv'
<1> SUFFICES ASSUME NEW s \in Slots, IInv, FinishOk(s) \/ FinishErr(s)
             PROVE  IInv'
  OBVIOUS
<1>1. Holding(s) /\ s \in Procs /\ node[s] \in Steps
  BY ProcFacts DEF FinishOk, FinishErr, Holding
<1>2. steps' \in [Steps -> {"none", "recorded", "skipped"}]
  BY ProcFacts DEF FinishOk, FinishErr, Types
<1>3. firstErr' \in Steps \cup {NoNode} /\ erred' \subseteq Steps
  BY <1>1, ProcFacts DEF FinishOk, FinishErr, Types
<1> QED
  BY <1>1, <1>2, <1>3, CountStepIInv DEF FinishOk, FinishErr
-----------------------------------------------------------------------------
(* handleGoto: putting a loop body back *)

\* Taking the body B of goto step g out of the finished steps E, g included.
LEMMA BodyUncounted ==
    ASSUME NEW E, IsFiniteSet(E), NEW g, g \notin E, NEW B, g \in B,
           B \subseteq E \cup {g}
    PROVE  /\ Cardinality(E \ B) = Cardinality(E) + 1 - Cardinality(B)
           /\ IsFiniteSet(E \ B)
<1>1. IsFiniteSet(E \cup {g}) /\ Cardinality(E \cup {g}) = Cardinality(E) + 1
  BY FS_AddElement
<1>2. /\ IsFiniteSet((E \cup {g}) \ B)
      /\ Cardinality((E \cup {g}) \ B)
           = Cardinality(E \cup {g}) - Cardinality((E \cup {g}) \cap B)
  BY <1>1, FS_Difference
<1>3. (E \cup {g}) \ B = E \ B /\ (E \cup {g}) \cap B = B
  OBVIOUS
<1>4. Cardinality(E \ B) = Cardinality(E \cup {g}) - Cardinality(B)
  BY <1>2, <1>3
<1>5. /\ Cardinality(E) \in Nat /\ Cardinality(B) \in Nat
      /\ Cardinality(E \cup {g}) \in Nat
  BY <1>1, FS_Subset, FS_CardinalityType
<1>6. IsFiniteSet(E \ B)
  BY <1>2, <1>3
<1> QED
  BY <1>1, <1>4, <1>5, <1>6

LEMMA FinishGotoIInv == \A s \in Slots : IInv /\ FinishGoto(s) => IInv'
<1> SUFFICES ASSUME NEW s \in Slots, IInv, FinishGoto(s) PROVE IInv'
  OBVIOUS
<1> USE ProcFacts
<1> DEFINE g == node[s]
           B == LoopBody(dag, g)
<1>1. /\ g \in Steps /\ g \notin ended /\ InHand(g) /\ g \in Gotos(dag)
      /\ ~Queued(g) /\ ~Outgoing(g)
      /\ todo[s] = {} /\ out[s] = {} /\ pc[s] = "ok"
  BY DEF FinishGoto, OnePlace, InHand, Holding
<1>2. /\ UNCHANGED <<dag, ready, firstErr, done, returned, node, todo, erred>>
      /\ Steps' = Steps
      /\ pc'[s] = "enqueue" /\ \A q \in Procs \ {s} : pc'[q] = pc[q]
      /\ out'[s] = {b \in B : LoopInDegree(g, b) = 0}
      /\ \A q \in Procs \ {s} : out'[q] = out[q]
  BY DEF FinishGoto, Types, Steps
<1>3. /\ Buildable(dag) /\ LoopClosed(dag, g)
      /\ g \in B /\ B \subseteq Steps
      /\ IsFiniteSet(Steps) /\ IsFiniteSet(B)
  <2>1. Buildable(dag) /\ IsFiniteSet(Steps)
    BY DagFacts
  <2>2. LoopClosed(dag, g)
    BY <1>1 DEF IInv, LoopsClosed
  <2>3. g \in B /\ B \subseteq Steps
    BY <1>1, <2>1, <2>2, GotoInBody DEF Steps
  <2> QED
    BY <2>1, <2>2, <2>3, FS_Subset
\* When the goto step runs, the rest of its body has ended.
<1>4. Backward(dag, g) \subseteq ended \cup {g}
  <2>1. UpClosed(dag, ended \cup {g})
    <3>1. ASSUME NEW x \in ended \cup {g}, NEW m \in dag.parents[x]
          PROVE  m \in ended
      <4>1. x \in Steps /\ Started(x)
        BY <1>1 DEF Types, Started
      <4> QED
        BY <3>1, <4>1 DEF StartedLetGo, LetGo
    <3> QED
      BY <3>1 DEF UpClosed
  <2>2. ended \cup {g} \in SUBSET Nodes(dag)
    BY <1>1 DEF Types, Steps
  <2> QED
    BY <2>1, <2>2, BackwardLeast
<1>5. B \subseteq ended \cup {g} /\ \A b \in B : Started(b)
  <2>1. B \subseteq ended \cup {g}
    BY <1>4 DEF LoopBody
  <2> QED
    BY <1>1, <2>1 DEF Started
<1>6. ended' = ended \ B
  BY <1>3 DEF FinishGoto
\* Only the goto step lets steps outside the body go, and it has not.
<1>7. ASSUME NEW x \in Steps, x \notin B, NEW m \in dag.parents[x], m \in B
      PROVE  m = g
  <2>1. x \in Children(dag, m)
    BY <1>7 DEF Children, Steps
  <2> QED
    BY <1>3, <1>7, <2>1 DEF LoopClosed
<1>8. ASSUME NEW q \in Procs, NEW c \in todo[q] PROVE node[q] \notin B
  <2> SUFFICES ASSUME node[q] \in B PROVE FALSE
    OBVIOUS
  <2>1. node[q] \in ended /\ node[q] \in dag.parents[c] /\ node[q] # g /\ c \in Steps
    BY <1>1, <1>8 DEF OneReleaser, Types
  <2>2. c \in B
    BY <1>7, <2>1
  <2>3. LetGo(node[q], c)
    BY <1>5, <2>1, <2>2 DEF StartedLetGo
  <2> QED
    BY <1>8, <2>3 DEF LetGo
<1>9. \A m, x : LetGo(m, x)' <=> LetGo(m, x) /\ m \notin B
  BY <1>2, <1>6 DEF LetGo
<1>10. /\ completed' \in 0..Total
       /\ completed' = Cardinality(ended')
  <2>1. ended \subseteq Steps /\ IsFiniteSet(ended) /\ completed = Cardinality(ended)
    BY <1>3, FS_Subset DEF Types, IInv, CountMatches
  <2>2. Cardinality(ended \ B) = Cardinality(ended) + 1 - Cardinality(B)
    <3> HIDE DEF B
    <3> QED
      BY <1>1, <1>3, <1>5, <2>1, BodyUncounted
  <2>3. completed' = completed + 1 - Cardinality(B)
    BY DEF FinishGoto, ResetCompleted
  <2>4. completed' = Cardinality(ended')
    <3> HIDE DEF B
    <3> QED
      BY ONLY <1>6, <2>1, <2>2, <2>3
  <2>5. ended' \subseteq Steps
    BY <1>6, <2>1
  <2>6. Cardinality(ended') \in Nat /\ Cardinality(ended') <= Total
    BY <1>3, <2>5, FS_Subset, FS_CardinalityType DEF Total
  <2>7. Total \in Nat
    BY DagFacts
  <2> QED
    BY <2>4, <2>6, <2>7
<1>11. DoneExact'
  <2>1. ended # Steps /\ ended' # Steps
    BY <1>1, <1>6
  <2> QED
    BY <1>2, <2>1 DEF DoneExact, IInv
<1>12. \A q \in Procs \ {s} : Holding(q)' <=> Holding(q)
  BY <1>2 DEF Holding
<1>13. ~Holding(s)' /\ Holding(s)
  BY <1>1, <1>2 DEF Holding
<1>14. \A x \in Steps : /\ InHand(x)' <=> InHand(x) /\ x # g
                        /\ Queued(x)' <=> Queued(x)
                        /\ Outgoing(x)' <=> Outgoing(x) \/ x \in out'[s]
  <2>1. \A x \in Steps : InHand(x)' <=> InHand(x) /\ x # g
    BY <1>2, <1>12, <1>13 DEF InHand, OnePlace
  <2>2. \A x \in Steps : Outgoing(x)' <=> Outgoing(x) \/ x \in out'[s]
    BY <1>1, <1>2 DEF Outgoing
  <2> QED
    BY <1>2, <2>1, <2>2 DEF Queued
<1>15. ASSUME NEW b \in B
       PROVE  ~Queued(b) /\ ~Outgoing(b) /\ ~InHand(b)' /\ b \notin ended'
  <2>1. b \in ended \/ b = g
    BY <1>5
  <2> QED
    BY <1>1, <1>3, <1>6, <1>14, <2>1 DEF OnePlace
<1>16. TypeOK'
  <2>1. pc' \in [Procs -> PcValues]
    BY DEF FinishGoto, Types, PcValues
  <2>2. /\ pc'[dagLoop] \in {"recv", "acquire", "skip", "enqueue"}
        /\ \A q \in Slots : pc'[q] \in {"free", "exec", "ok", "fail", "enqueue"}
    BY <1>2 DEF Types
  <2>3. \A q \in Procs : Holding(q)' => Holding(q)
    BY <1>12, <1>13
  <2>4. inDegree' \in [Steps -> Int]
    <3>1. ASSUME NEW b \in B PROVE LoopInDegree(g, b) \in Int
      <4>1. IsFiniteSet(dag.parents[b])
        BY <1>3, DagFacts
      <4>2. dag.parents[b] \cap B \in SUBSET dag.parents[b]
        OBVIOUS
      <4>3. IsFiniteSet(dag.parents[b] \cap B)
        BY <4>1, <4>2, FS_Subset
      <4> QED
        BY <4>3, FS_CardinalityType DEF LoopInDegree
    <3> QED
      BY <3>1 DEF FinishGoto, ResetInDegree, Types
  <2>5. out' \in [Procs -> SUBSET Steps]
    <3>1. {b \in B : LoopInDegree(g, b) = 0} \in SUBSET Steps
      BY <1>3
    <3> HIDE DEF B
    <3> QED
      BY <3>1 DEF FinishGoto, Types, B
  <2>6. gotoIterations' \in [Gotos(dag) -> Nat]
    BY DEF FinishGoto, Types
  <2>7. steps' \in [Steps -> {"none", "recorded", "skipped"}]
    BY DEF FinishGoto, Types
  <2>8. ended' \subseteq Steps
    BY <1>6 DEF Types
  <2> QED
    BY <1>2, <1>10, <2>1, <2>2, <2>3, <2>4, <2>5, <2>6, <2>7, <2>8
    DEF TypeOK, Types, Steps, Total
<1>17. OnePlace'
  <2>1. \A q, r \in Procs : Holding(q)' /\ Holding(r)' /\ node'[q] = node'[r] => q = r
    BY <1>2, <1>12, <1>13 DEF OnePlace
  <2>2. \A q, r \in Procs : \A x \in out'[q] : x \in out'[r] => q = r
    <3>1. \A b \in out'[s] : ~Outgoing(b)
      BY <1>2, <1>15
    <3> QED
      BY <1>2, <3>1 DEF OnePlace, Outgoing
  <2>3. \A x \in Steps : Queued(x)' => ~Outgoing(x)' /\ ~InHand(x)' /\ x \notin ended'
    BY <1>2, <1>6, <1>14, <1>15 DEF OnePlace
  <2>4. \A x \in Steps : Outgoing(x)' => ~InHand(x)' /\ x \notin ended'
    BY <1>2, <1>6, <1>14, <1>15 DEF OnePlace
  <2>5. \A x \in Steps : InHand(x)' => x \notin ended'
    BY <1>6, <1>14 DEF OnePlace
  <2> QED
    BY <1>2, <2>1, <2>2, <2>3, <2>4, <2>5 DEF OnePlace
<1>18. OneReleaser'
  <2>1. \A q \in Procs : pc'[q] # "enqueue" => todo'[q] = {} /\ out'[q] = {}
    BY <1>2
  <2>2. \A q \in Procs : \A c \in todo'[q] :
           node'[q] \in ended' /\ node'[q] \in dag'.parents[c]
    BY <1>2, <1>6, <1>8 DEF OneReleaser
  <2> QED
    BY <1>2, <2>1, <2>2 DEF OneReleaser
\* A step that is under way after the reset waits for nothing in the body.
<1>19. StartedLetGo'
  <2> SUFFICES ASSUME NEW x \in Steps, Started(x)', NEW m \in dag.parents[x]
               PROVE  LetGo(m, x)'
    BY <1>2 DEF StartedLetGo
  <2>1. CASE x \in B
    <3>1. x \in out'[s]
      BY <1>14, <1>15, <2>1 DEF Started
    <3>2. dag.parents[x] \cap B = {}
      <4>1. IsFiniteSet(dag.parents[x])
        BY DagFacts
      <4>2. dag.parents[x] \cap B \in SUBSET dag.parents[x]
        OBVIOUS
      <4>3. IsFiniteSet(dag.parents[x] \cap B)
        BY <4>1, <4>2, FS_Subset
      <4>4. Cardinality(dag.parents[x] \cap B) = 0
        BY <1>2, <3>1 DEF LoopInDegree
      <4> QED
        BY <4>3, <4>4, FS_EmptySet
    <3> QED
      BY <1>5, <1>9, <2>1, <3>2 DEF StartedLetGo
  <2>2. CASE x \notin B
    <3>1. Started(x)
      BY <1>2, <1>6, <1>14, <2>2 DEF Started
    <3>2. LetGo(m, x)
      BY <3>1 DEF StartedLetGo
    <3>3. m # g
      BY <1>1, <3>2 DEF LetGo
    <3> QED
      BY <1>7, <1>9, <2>2, <3>2, <3>3
  <2> QED
    BY <2>1, <2>2
<1>20. InDegreeExact'
  <2>1. ASSUME NEW x \in B
        PROVE  {m \in dag.parents[x] : ~LetGo(m, x)}' = dag.parents[x] \cap B
    <3>1. \A m \in dag.parents[x] : LetGo(m, x)
      BY <1>3, <1>5 DEF StartedLetGo
    <3> QED
      BY <1>2, <1>9, <3>1
  <2>2. ASSUME NEW x \in Steps, x \notin B
        PROVE  {m \in dag.parents[x] : ~LetGo(m, x)}'
                 = {m \in dag.parents[x] : ~LetGo(m, x)}
    <3>1. \A m \in dag.parents[x] : m \in B => ~LetGo(m, x)
      BY <1>1, <1>7, <2>2 DEF LetGo
    <3> QED
      BY <1>2, <1>9, <3>1
  <2>3. \A x \in Steps : inDegree'[x] = IF x \in B THEN Cardinality(dag.parents[x] \cap B)
                                                  ELSE inDegree[x]
    BY DEF FinishGoto, ResetInDegree, LoopInDegree
  <2>4. ASSUME NEW x \in Steps
        PROVE  inDegree'[x] = Cardinality({m \in dag.parents[x] : ~LetGo(m, x)}')
    <3>1. CASE x \in B
      <4>1. inDegree'[x] = Cardinality(dag.parents[x] \cap B)
        BY <2>3, <3>1
      <4> QED
        BY <2>1, <3>1, <4>1
    <3>2. CASE x \notin B
      <4>1. inDegree'[x] = inDegree[x]
        BY <2>3, <3>2
      <4>2. inDegree[x] = Cardinality({m \in dag.parents[x] : ~LetGo(m, x)})
        BY DEF InDegreeExact, IInv
      <4> QED
        BY <2>2, <3>2, <4>1, <4>2
    <3> QED
      BY <3>1, <3>2
  <2> QED
    BY <1>2, <2>4 DEF InDegreeExact
<1>21. CountMatches' /\ LoopsClosed(dag)'
  BY <1>2, <1>10 DEF CountMatches, IInv
<1> QED
  BY <1>11, <1>16, <1>17, <1>18, <1>19, <1>20, <1>21 DEF IInv
-----------------------------------------------------------------------------
(* The theorems *)

\* Every section of dagLoop, runDAGNode and executeDAG keeps the invariant: the
\* case split over Next, one lemma above per action.
THEOREM NextIInv == IInv /\ [Next]_vars => IInv'
<1> SUFFICES ASSUME IInv, [Next]_vars PROVE IInv'
  OBVIOUS
<1>1. CASE Receive
  BY <1>1, ReceiveIInv
<1>2. CASE SkipNode
  BY <1>2, SkipNodeIInv
<1>3. CASE LoopBack
  BY <1>3, LeaveIInv
<1>4. CASE Decrement(dagLoop) \/ Send(dagLoop)
  BY <1>4, DecrementIInv, SendIInv, ProcFacts
<1>5. ASSUME NEW s \in Slots, Acquire(s) PROVE IInv'
  BY <1>5, AcquireIInv
<1>6. ASSUME NEW s \in Slots, Worker(s) PROVE IInv'
  <2>1. CASE ExecuteOk(s) \/ ExecuteErr(s)
    BY <2>1, ExecuteIInv
  <2>2. CASE FinishOk(s) \/ FinishErr(s)
    BY <2>2, FinishIInv
  <2>3. CASE FinishGoto(s)
    BY <2>3, FinishGotoIInv
  <2>4. CASE Decrement(s) \/ Send(s)
    BY <2>4, DecrementIInv, SendIInv, ProcFacts
  <2>5. CASE Leave(s)
    BY <2>5, LeaveIInv
  <2> QED
    BY <1>6, <2>1, <2>2, <2>3, <2>4, <2>5 DEF Worker
<1>7. CASE Return \/ Finished \/ UNCHANGED vars
  BY <1>7, ReturnIInv DEF Finished
<1> QED
  BY <1>1, <1>2, <1>3, <1>4, <1>5, <1>6, <1>7 DEF Next, Loop

\* The inductive invariant holds of every execution of every workflow whose
\* gotos close their loops.
THEOREM Invariance ==
    ASSUME \A d \in Dags : LoopsClosed(d)
    PROVE  Spec => []IInv
<1>1. Init => IInv
  BY InitIInv
<1>2. IInv /\ [Next]_vars => IInv'
  BY NextIInv
<1> QED
  BY <1>1, <1>2, PTL DEF Spec

\* The counters and the tables of an execution stay in range: completed never
\* leaves 0..total though handleGoto subtracts from it.
THEOREM TypeCorrect ==
    ASSUME \A d \in Dags : LoopsClosed(d)
    PROVE  Spec => []TypeOK
<1>1. IInv => TypeOK
  BY DEF IInv
<1> QED
  BY <1>1, Invariance, PTL

\* No step is dispatched before all of its depends_on have finished in the
\* current round, however runDAGNode and handleGoto interleave.
THEOREM DependencyOrderHolds ==
    ASSUME \A d \in Dags : LoopsClosed(d)
    PROVE  Spec => []DependencyOrder
<1>1. ASSUME IInv PROVE DependencyOrder
  <2> SUFFICES ASSUME NEW n \in Steps, InHand(n), NEW m \in dag.parents[n]
               PROVE  m \in ended
    BY DEF DependencyOrder
  <2>1. Started(n)
    BY DEF Started
  <2> QED
    BY <1>1, <2>1 DEF IInv, StartedLetGo, LetGo
<1> QED
  BY <1>1, Invariance, PTL

\* ds.completed counts each step of the current round once, whatever
\* resetLoopBody has taken back.
THEOREM CountMatchesHolds ==
    ASSUME \A d \in Dags : LoopsClosed(d)
    PROVE  Spec => []CountMatches
<1>1. IInv => CountMatches
  BY DEF IInv
<1> QED
  BY <1>1, Invariance, PTL

\* ds.inDegree is exact: enqueueChildren loses no decrement and makes none
\* twice, across the resets of handleGoto.
THEOREM InDegreeExactHolds ==
    ASSUME \A d \in Dags : LoopsClosed(d)
    PROVE  Spec => []InDegreeExact
<1>1. IInv => InDegreeExact
  BY DEF IInv
<1> QED
  BY <1>1, Invariance, PTL

\* No send on ds.ready blocks, so dagLoop, its only receiver, never waits for
\* itself: the capacity len(dag.Nodes) of newDAGState is enough.
THEOREM NoBlockedSendHolds ==
    ASSUME \A d \in Dags : LoopsClosed(d)
    PROVE  Spec => []NoBlockedSend
<1>1. ASSUME IInv PROVE NoBlockedSend
  <2> USE <1>1, ProcFacts
  <2> SUFFICES ASSUME NEW p \in Procs, NEW c \in out[p]
               PROVE  Len(ready) < ReadyCap
    BY DEF NoBlockedSend
  <2>1. c \in Steps /\ ready \in Seq(Steps)
    BY DEF Types
  <2>2. ~Queued(c)
    BY <2>1 DEF OnePlace, Outgoing
  <2>3. /\ \A i \in 1..Len(ready) : ready[i] # c
        /\ \A i, j \in 1..Len(ready) : ready[i] = ready[j] => i = j
    BY <2>2 DEF Queued, OnePlace
  <2>4. IsFiniteSet(Steps)
    BY DagFacts
  <2> QED
    BY <2>1, <2>3, <2>4, RoomFor DEF ReadyCap
<1> QED
  BY <1>1, Invariance, PTL

\* Nothing of the execution is left when ds.done is closed, and it is closed
\* once: no process closes it while another step is queued or in hand.
THEOREM DoneMeansAllHolds ==
    ASSUME \A d \in Dags : LoopsClosed(d)
    PROVE  Spec => []DoneMeansAll
<1>1. ASSUME IInv PROVE DoneMeansAll
  <2> USE <1>1, ProcFacts
  <2> SUFFICES ASSUME done # "open"
               PROVE  /\ done = "closed"
                      /\ ended = Steps
                      /\ ready = <<>>
                      /\ \A p \in Procs : ~Holding(p) /\ todo[p] = {} /\ out[p] = {}
    BY DEF DoneMeansAll
  <2>1. done = "closed" /\ ended = Steps
    BY DEF IInv, DoneExact
  <2>2. ready = <<>>
    <3>1. \A i \in 1..Len(ready) : ready[i] \notin ended
      BY DEF OnePlace, Queued, Types
    <3>2. \A i \in 1..Len(ready) : ready[i] \in Steps
      BY DEF Types
    <3>3. Len(ready) \in Nat /\ ready \in Seq(Steps)
      BY DEF Types
    <3>4. Len(ready) = 0
      <4>1. SUFFICES ASSUME Len(ready) # 0 PROVE FALSE
        OBVIOUS
      <4>2. 1 \in 1..Len(ready)
        BY <3>3, <4>1
      <4> QED
        BY <2>1, <3>1, <3>2, <4>2
    <3> QED
      BY <3>3, <3>4
  <2>3. ASSUME NEW p \in Procs
        PROVE  ~Holding(p) /\ todo[p] = {} /\ out[p] = {}
    <3>1. ~Holding(p)
      BY <2>1
    <3>2. out[p] = {}
      BY <2>1 DEF OnePlace, Outgoing, Types
    <3>3. ASSUME NEW c \in todo[p] PROVE FALSE
      <4>1. c \in Steps /\ node[p] \in dag.parents[c]
        BY DEF Types, OneReleaser
      <4>2. LetGo(node[p], c)
        BY <2>1, <4>1 DEF StartedLetGo, Started
      <4> QED
        BY <3>3, <4>2 DEF LetGo
    <3> QED
      BY <3>1, <3>2, <3>3
  <2> QED
    BY <2>1, <2>2, <2>3
<1> QED
  BY <1>1, Invariance, PTL
-----------------------------------------------------------------------------
(* Failures and results *)

(***************************************************************************)
(* What the guarantees about failures need beyond IInv: a failed or skipped*)
(* step is never upstream of a step that was given to its action, and the  *)
(* result of every finished step is recorded unless its execution failed.  *)
(***************************************************************************)
Dirty == {m \in Steps : m \in erred \/ steps[m] = "skipped"}

Admitted(p) == pc[p] \in {"acquire", "exec", "ok", "fail"}

FailureKept ==
    /\ firstErr # NoNode <=> erred # {}
    /\ firstErr = NoNode => Dirty = {}
    /\ pc[dagLoop] = "skip" => firstErr # NoNode
    /\ \A p \in Procs : Admitted(p) => Ancestors(dag, node[p]) \cap Dirty = {}

ResultsKept ==
    /\ \A n \in ended : steps[n] = "none" => n \in erred
    /\ \A s \in Slots : pc[s] = "ok" => steps[node[s]] # "none"

ReturnedLate ==
    returned # "no" =>
        /\ done = "closed"
        /\ \A s \in Slots : pc[s] = "free"
        /\ (returned = "error") <=> (firstErr # NoNode)

FInv == IInv /\ FailureKept /\ ResultsKept /\ ReturnedLate

\* All upstream of a step in hand has finished.
LEMMA AncestorsEnded ==
    ASSUME IInv, NEW n \in Steps, Started(n), n \notin ended
    PROVE  Ancestors(dag, n) \subseteq ended
<1>1. ended \subseteq Steps /\ dag \in Dags
  BY DEF IInv, TypeOK, Types
<1>2. UpClosed(dag, ended \cup {n})
  <2>1. ASSUME NEW x \in ended \cup {n}, NEW m \in dag.parents[x]
        PROVE  m \in ended
    <3>1. x \in Steps /\ Started(x)
      BY <1>1 DEF Started
    <3> QED
      BY <2>1, <3>1 DEF IInv, StartedLetGo, LetGo
  <2> QED
    BY <2>1 DEF UpClosed
<1>3. ended \cup {n} \in SUBSET Nodes(dag)
  BY <1>1 DEF Steps
<1>4. Backward(dag, n) \subseteq ended \cup {n}
  BY <1>2, <1>3, BackwardLeast
<1> QED
  BY <1>4 DEF Ancestors
-----------------------------------------------------------------------------

\* A failed or skipped step is downstream of no other step in hand.
LEMMA HeldNotUpstream ==
    ASSUME IInv, NEW p \in Procs, Holding(p), NEW q \in Procs, Holding(q)
    PROVE  node[q] \notin Ancestors(dag, node[p])
<1>1. node[p] \in Steps /\ node[p] \notin ended /\ node[q] \notin ended
  BY ProcFacts
<1>2. Started(node[p])
  BY DEF Started, InHand
<1> QED
  BY <1>1, <1>2, AncestorsEnded

LEMMA ReceiveFInv == FInv /\ Receive => FInv'
<1> SUFFICES ASSUME FInv, Receive PROVE FInv'
  OBVIOUS
<1> USE DEF FInv
<1>0. IInv'
  BY ReceiveIInv
<1>1. /\ dagLoop \in Procs /\ dagLoop \notin Slots /\ Slots \subseteq Procs
      /\ \A p \in Procs \ {dagLoop} : pc'[p] = pc[p] /\ node'[p] = node[p]
      /\ pc'[dagLoop] = ReceivedPc
      /\ UNCHANGED <<dag, firstErr, steps, ended, erred, done, returned>>
  BY ProcFacts DEF Receive, Types, aux
<1>2. Dirty' = Dirty
  BY <1>1 DEF Dirty, Steps
<1>3. FailureKept'
  <2>1. pc'[dagLoop] = "skip" => firstErr # NoNode
    BY <1>1 DEF ReceivedPc
  <2>2. ASSUME NEW p \in Procs, Admitted(p)'
        PROVE  Ancestors(dag, node'[p]) \cap Dirty = {}
    <3>1. CASE p = dagLoop
      <4>1. firstErr = NoNode
        BY <1>1, <2>2, <3>1 DEF Admitted, ReceivedPc
      <4> QED
        BY <4>1 DEF FailureKept
    <3>2. CASE p # dagLoop
      BY <1>1, <2>2, <3>2 DEF FailureKept, Admitted
    <3> QED
      BY <3>1, <3>2
  <2> QED
    BY <1>1, <1>2, <2>1, <2>2 DEF FailureKept
<1>4. ResultsKept'
  BY <1>1 DEF ResultsKept
<1>5. ReturnedLate'
  BY <1>1 DEF ReturnedLate
<1> QED
  BY <1>0, <1>3, <1>4, <1>5

\* Whatever a process that is no longer Admitted does leaves the rest alone.
LEMMA MoveFInv ==
    ASSUME FInv, IInv',
           UNCHANGED <<dag, firstErr, steps, ended, erred, done, returned>>,
           pc[dagLoop]' = "skip" => pc[dagLoop] = "skip",
           \A p \in Procs : Admitted(p)' =>
              \E q \in Procs : Admitted(q) /\ node'[p] = node[q],
           \A s \in Slots : pc'[s] = "ok" => pc[s] = "ok" /\ node'[s] = node[s],
           returned # "no" => \A s \in Slots : pc'[s] = pc[s]
    PROVE  FInv'
<1>1. Dirty' = Dirty
  BY DEF Dirty, Steps
<1>2. FailureKept'
  <2>1. ASSUME NEW p \in Procs, Admitted(p)'
        PROVE  Ancestors(dag, node'[p]) \cap Dirty = {}
    BY <2>1 DEF FInv, FailureKept
  <2> QED
    BY <1>1, <2>1 DEF FInv, FailureKept
<1>3. ResultsKept'
  BY DEF FInv, ResultsKept
<1>4. ReturnedLate'
  BY DEF FInv, ReturnedLate
<1> QED
  BY <1>2, <1>3, <1>4 DEF FInv
LEMMA NotReturned ==
    ASSUME FInv, NEW p \in Procs, Holding(p)
    PROVE  returned = "no"
<1>1. node[p] \in Steps /\ node[p] \notin ended
  BY ProcFacts DEF FInv
<1>2. done # "closed"
  BY <1>1 DEF FInv, IInv, DoneExact
<1> QED
  BY <1>2, ProcFacts DEF FInv, ReturnedLate, Types

LEMMA LoopFInv ==
    FInv /\ (LoopBack \/ \E p \in Procs : Decrement(p) \/ Send(p)) => FInv'
<1> SUFFICES ASSUME FInv, LoopBack \/ \E p \in Procs : Decrement(p) \/ Send(p)
             PROVE  FInv'
  OBVIOUS
<1>0. IInv'
  BY LeaveIInv, DecrementIInv, SendIInv DEF FInv
<1>1. /\ UNCHANGED <<dag, firstErr, steps, ended, erred, done, returned>>
      /\ \A p \in Procs : \/ pc'[p] = pc[p] /\ node'[p] = node[p]
                          \/ p = dagLoop /\ pc'[p] = "recv"
  <2>1. CASE LoopBack
    BY <2>1, ProcFacts DEF LoopBack, FInv, Types, state, aux
  <2>2. CASE \E p \in Procs : Decrement(p) \/ Send(p)
    BY <2>2 DEF Decrement, Send, aux
  <2> QED
    BY <2>1, <2>2
<1>2. dagLoop \in Procs /\ dagLoop \notin Slots /\ Slots \subseteq Procs
  BY ProcFacts DEF FInv
<1>3. pc[dagLoop]' = "skip" => pc[dagLoop] = "skip"
  BY <1>1, <1>2
<1>4. \A p \in Procs : Admitted(p)' =>
         \E q \in Procs : Admitted(q) /\ node'[p] = node[q]
  BY <1>1 DEF Admitted
<1>5. \A s \in Slots : pc'[s] = pc[s] /\ node'[s] = node[s]
  BY <1>1, <1>2
<1> QED
  BY <1>0, <1>1, <1>3, <1>4, <1>5, MoveFInv

LEMMA AcquireFInv == \A s \in Slots : FInv /\ Acquire(s) => FInv'
<1> SUFFICES ASSUME NEW s \in Slots, FInv, Acquire(s) PROVE FInv'
  OBVIOUS
<1>0. IInv'
  BY AcquireIInv DEF FInv
<1>1. /\ dagLoop \in Procs /\ dagLoop # s /\ s \in Procs /\ Slots \subseteq Procs
      /\ pc[dagLoop] = "acquire"
      /\ pc'[dagLoop] = "recv" /\ pc'[s] = "exec" /\ node'[s] = node[dagLoop]
      /\ \A p \in Procs \ {dagLoop, s} : pc'[p] = pc[p] /\ node'[p] = node[p]
      /\ UNCHANGED <<dag, firstErr, steps, ended, erred, done, returned>>
  BY ProcFacts DEF FInv, Acquire, Types, state, aux
<1>2. \A p \in Procs : Admitted(p)' =>
         \E q \in Procs : Admitted(q) /\ node'[p] = node[q]
  <2> SUFFICES ASSUME NEW p \in Procs, Admitted(p)'
               PROVE  \E q \in Procs : Admitted(q) /\ node'[p] = node[q]
    OBVIOUS
  <2>1. CASE p = s
    BY <1>1, <2>1 DEF Admitted
  <2>2. CASE p # s
    <3>1. p # dagLoop
      BY <1>1 DEF Admitted
    <3> QED
      BY <1>1, <2>2, <3>1 DEF Admitted
  <2> QED
    BY <2>1, <2>2
<1>3. returned = "no"
  BY <1>1, NotReturned DEF Holding
<1>4. \A q \in Slots : pc'[q] = "ok" => pc[q] = "ok" /\ node'[q] = node[q]
  BY <1>1, ProcFacts DEF FInv
<1> QED
  BY <1>0, <1>1, <1>2, <1>3, <1>4, MoveFInv

LEMMA LeaveFInv == \A s \in Slots : FInv /\ Leave(s) => FInv'
<1> SUFFICES ASSUME NEW s \in Slots, FInv, Leave(s) PROVE FInv'
  OBVIOUS
<1>0. IInv'
  BY LeaveIInv DEF FInv
<1>1. /\ dagLoop \in Procs /\ dagLoop # s /\ s \in Procs /\ Slots \subseteq Procs
      /\ pc[s] = "enqueue" /\ pc'[s] = "free"
      /\ \A p \in Procs \ {s} : pc'[p] = pc[p] /\ node'[p] = node[p]
      /\ UNCHANGED <<dag, firstErr, steps, ended, erred, done, returned>>
  BY ProcFacts DEF FInv, Leave, Types, state, aux
<1>2. \A p \in Procs : Admitted(p)' => Admitted(p) /\ node'[p] = node[p]
  BY <1>1 DEF Admitted
<1>3. \A q \in Slots : pc'[q] = "ok" => pc[q] = "ok" /\ node'[q] = node[q]
  BY <1>1
<1>4. returned = "no"
  BY <1>1 DEF FInv, ReturnedLate
<1> QED
  BY <1>0, <1>1, <1>2, <1>3, <1>4, MoveFInv

LEMMA ExecuteFInv ==
    \A s \in Slots : FInv /\ (ExecuteOk(s) \/ ExecuteErr(s)) => FInv'
<1> SUFFICES ASSUME NEW s \in Slots, FInv, ExecuteOk(s) \/ ExecuteErr(s)
             PROVE  FInv'
  OBVIOUS
<1> USE DEF FInv
<1>0. IInv'
  BY ExecuteIInv
<1>1. /\ dagLoop \in Procs /\ dagLoop # s /\ s \in Procs /\ Slots \subseteq Procs
      /\ pc[s] = "exec" /\ pc'[s] \in {"ok", "fail"} /\ node[s] \in Steps
      /\ \A p \in Procs \ {s} : pc'[p] = pc[p]
      /\ UNCHANGED <<dag, node, firstErr, ended, erred, done, returned>>
      /\ \A n \in Steps \ {node[s]} : steps'[n] = steps[n]
      /\ steps'[node[s]] \in {"recorded", steps[node[s]]}
      /\ pc'[s] = "ok" => steps'[node[s]] = "recorded"
  BY ProcFacts DEF ExecuteOk, ExecuteErr, Types, aux, Holding
<1>2. Dirty' \subseteq Dirty /\ Steps' = Steps
  BY <1>1 DEF Dirty, Steps
<1>3. returned = "no"
  BY <1>1, NotReturned DEF Holding
<1>4. \A p \in Procs : Admitted(p)' => Admitted(p)
  BY <1>1 DEF Admitted
<1>5. FailureKept'
  <2>1. pc'[dagLoop] = "skip" => firstErr # NoNode
    BY <1>1 DEF FailureKept
  <2>2. firstErr = NoNode => Dirty' = {}
    BY <1>2 DEF FailureKept
  <2>3. \A p \in Procs : Admitted(p)' => Ancestors(dag, node[p]) \cap Dirty' = {}
    BY <1>2, <1>4 DEF FailureKept
  <2> QED
    BY <1>1, <2>1, <2>2, <2>3 DEF FailureKept
<1>6. ResultsKept'
  <2>1. node[s] \notin ended /\ ended \subseteq Steps
    BY <1>1, ProcFacts DEF Holding, Types
  <2>2. \A n \in ended : steps'[n] = "none" => n \in erred
    BY <1>1, <2>1 DEF ResultsKept
  <2>3. ASSUME NEW q \in Slots, pc'[q] = "ok" PROVE steps'[node[q]] # "none"
    <3>1. CASE q = s
      BY <1>1, <2>3, <3>1
    <3>2. CASE q # s
      <4>1. pc[q] = "ok" /\ node[q] \in Steps /\ node[q] # node[s]
        BY <1>1, <2>3, <3>2, ProcFacts DEF Holding, OnePlace
      <4> QED
        BY <1>1, <4>1 DEF ResultsKept
    <3> QED
      BY <3>1, <3>2
  <2> QED
    BY <1>1, <2>2, <2>3 DEF ResultsKept
<1>7. ReturnedLate'
  BY <1>1, <1>3 DEF ReturnedLate
<1> QED
  BY <1>0, <1>5, <1>6, <1>7
\* A step that is counted, failed or skipped, is upstream of none in hand.
LEMMA CountFInv ==
    ASSUME FInv, IInv', NEW p \in Procs, Holding(p),
           UNCHANGED <<dag, node, returned>>,
           \A q \in Procs \ {p} : pc'[q] = pc[q],
           pc'[p] = "enqueue",
           ended' = ended \cup {node[p]},
           \A n \in Steps \ {node[p]} : steps'[n] = steps[n],
           erred \subseteq erred', erred' \subseteq erred \cup {node[p]},
           firstErr # NoNode => firstErr' = firstErr,
           firstErr' # NoNode <=> erred' # {},
           node[p] \in Dirty' => firstErr' # NoNode,
           steps'[node[p]] = "none" => node[p] \in erred'
    PROVE  FInv'
<1> USE DEF FInv
<1>1. /\ dagLoop \in Procs /\ Slots \subseteq Procs
      /\ node[p] \in Steps /\ node[p] \notin ended
      /\ ended \subseteq Steps
  BY ProcFacts DEF Types
<1>2. Steps' = Steps /\ Dirty' \subseteq Dirty \cup {node[p]}
  BY DEF Dirty, Steps
<1>3. \A q \in Procs : Admitted(q)' => q # p /\ Admitted(q) /\ Holding(q)
  BY DEF Admitted, Holding
<1>4. FailureKept'
  <2>1. firstErr' = NoNode => Dirty' = {}
    <3> SUFFICES ASSUME firstErr' = NoNode PROVE Dirty' = {}
      OBVIOUS
    <3>1. firstErr = NoNode /\ Dirty = {}
      BY DEF FailureKept
    <3> QED
      BY <1>2, <3>1
  <2>2. pc'[dagLoop] = "skip" => firstErr' # NoNode
    <3> SUFFICES ASSUME pc'[dagLoop] = "skip" PROVE firstErr' # NoNode
      OBVIOUS
    <3>1. dagLoop # p
      OBVIOUS
    <3>2. pc[dagLoop] = "skip"
      BY <1>1, <3>1
    <3>3. firstErr # NoNode
      BY <3>2 DEF FailureKept
    <3> QED
      BY <3>3
  <2>3. ASSUME NEW q \in Procs, Admitted(q)'
        PROVE  Ancestors(dag, node[q]) \cap Dirty' = {}
    <3>1. Admitted(q) /\ Holding(q)
      BY <1>3, <2>3
    <3>2. Ancestors(dag, node[q]) \cap Dirty = {}
      BY <3>1 DEF FailureKept
    <3>3. node[p] \notin Ancestors(dag, node[q])
      BY <3>1, HeldNotUpstream
    <3> QED
      BY <1>2, <3>2, <3>3
  <2> QED
    BY <2>1, <2>2, <2>3 DEF FailureKept
<1>5. ResultsKept'
  <2>1. \A n \in ended' : steps'[n] = "none" => n \in erred'
    BY <1>1 DEF ResultsKept
  <2>2. ASSUME NEW s \in Slots, pc'[s] = "ok" PROVE steps'[node[s]] # "none"
    <3>1. s # p /\ s \in Procs /\ pc[s] = "ok" /\ Holding(s)
      BY <1>1, <2>2 DEF Holding
    <3>2. node[s] \in Steps /\ node[s] # node[p]
      BY <3>1, ProcFacts DEF OnePlace
    <3> QED
      BY <3>1, <3>2 DEF ResultsKept
  <2> QED
    BY <2>1, <2>2 DEF ResultsKept
<1>6. ReturnedLate'
  BY NotReturned DEF ReturnedLate
<1> QED
  BY <1>4, <1>5, <1>6

LEMMA FinishFInv ==
    \A s \in Slots : FInv /\ (FinishOk(s) \/ FinishErr(s)) => FInv'
<1> SUFFICES ASSUME NEW s \in Slots, FInv, FinishOk(s) \/ FinishErr(s)
             PROVE  FInv'
  OBVIOUS
<1> USE DEF FInv
<1>0. IInv'
  BY FinishIInv
<1>1. /\ s \in Procs /\ pc[s] \in {"ok", "fail"} /\ Holding(s)
      /\ node[s] \in Steps /\ NoNode \notin Steps
      /\ pc'[s] = "enqueue" /\ \A q \in Procs \ {s} : pc'[q] = pc[q]
      /\ ended' = ended \cup {node[s]}
      /\ UNCHANGED <<dag, node, returned, steps>>
  BY ProcFacts, DagFacts DEF FinishOk, FinishErr, CountStep, Types, Holding
<1>2. CASE FinishOk(s)
  <2>1. UNCHANGED <<firstErr, erred>> /\ steps[node[s]] # "none"
    BY <1>2 DEF FinishOk, ResultsKept
  <2>2. Dirty' = Dirty
    BY <1>1, <2>1 DEF Dirty, Steps
  <2>3. firstErr # NoNode <=> erred # {}
    BY DEF FailureKept
  <2>4. node[s] \in Dirty => firstErr # NoNode
    BY DEF FailureKept
  <2> QED
    BY <1>0, <1>1, <2>1, <2>2, <2>3, <2>4, CountFInv
<1>3. CASE FinishErr(s)
  <2>1. /\ firstErr' = IF firstErr = NoNode THEN node[s] ELSE firstErr
        /\ erred' = erred \cup {node[s]}
    BY <1>3 DEF FinishErr
  <2>2. firstErr' # NoNode
    BY <1>1, <2>1
  <2> QED
    BY <1>0, <1>1, <2>1, <2>2, CountFInv
<1> QED
  BY <1>2, <1>3

LEMMA SkipNodeFInv == FInv /\ SkipNode => FInv'
<1> SUFFICES ASSUME FInv, SkipNode PROVE FInv'
  OBVIOUS
<1> USE DEF FInv
<1>0. IInv'
  BY SkipNodeIInv
<1>1. /\ dagLoop \in Procs /\ pc[dagLoop] = "skip" /\ Holding(dagLoop)
      /\ node[dagLoop] \in Steps
      /\ pc'[dagLoop] = "enqueue" /\ \A q \in Procs \ {dagLoop} : pc'[q] = pc[q]
      /\ ended' = ended \cup {node[dagLoop]}
      /\ UNCHANGED <<dag, node, returned, firstErr, erred>>
      /\ steps' = [steps EXCEPT ![node[dagLoop]] = "skipped"]
  BY ProcFacts DEF SkipNode, CountStep, Types, Holding
<1>2. /\ \A n \in Steps \ {node[dagLoop]} : steps'[n] = steps[n]
      /\ steps'[node[dagLoop]] = "skipped"
  BY <1>1, ProcFacts DEF Types
<1>3. firstErr # NoNode /\ (firstErr # NoNode <=> erred # {})
  BY <1>1 DEF FailureKept
<1> QED
  BY <1>0, <1>1, <1>2, <1>3, CountFInv

LEMMA FinishGotoFInv == \A s \in Slots : FInv /\ FinishGoto(s) => FInv'
<1> SUFFICES ASSUME NEW s \in Slots, FInv, FinishGoto(s) PROVE FInv'
  OBVIOUS
<1> USE DEF FInv
<1> DEFINE g == node[s]
           B == LoopBody(dag, g)
<1>0. IInv'
  BY FinishGotoIInv
<1>1. /\ s \in Procs /\ pc[s] = "ok" /\ Holding(s) /\ Slots \subseteq Procs
      /\ dagLoop \in Procs /\ dagLoop # s
      /\ g \in Steps /\ g \in Gotos(dag)
      /\ pc'[s] = "enqueue" /\ \A q \in Procs \ {s} : pc'[q] = pc[q]
      /\ UNCHANGED <<dag, node, returned, firstErr, erred, done>>
      /\ steps' = [n \in Steps |-> IF n \in B THEN "none" ELSE steps[n]]
      /\ ended' = (ended \cup {g}) \ B
  BY ProcFacts DEF FinishGoto, Types, Holding
<1>2. g \in B
  <2>1. Buildable(dag) /\ LoopClosed(dag, g)
    BY <1>1, DagFacts, ProcFacts DEF IInv, LoopsClosed
  <2> QED
    BY <1>1, <2>1, GotoInBody
<1>3. Dirty' \subseteq Dirty /\ Steps' = Steps /\ ended' = ended \ B
  BY <1>1, <1>2 DEF Dirty, Steps
<1>4. \A q \in Procs : Admitted(q)' => Admitted(q)
  BY <1>1 DEF Admitted
<1>5. FailureKept'
  <2>1. \A q \in Procs : Admitted(q)' => Ancestors(dag, node[q]) \cap Dirty' = {}
    BY <1>3, <1>4 DEF FailureKept
  <2>2. firstErr = NoNode => Dirty' = {}
    BY <1>3 DEF FailureKept
  <2>3. pc'[dagLoop] = "skip" => firstErr # NoNode
    BY <1>1 DEF FailureKept
  <2> QED
    BY <1>1, <2>1, <2>2, <2>3 DEF FailureKept
<1>6. ResultsKept'
  <2>1. ASSUME NEW n \in ended', steps'[n] = "none" PROVE n \in erred
    <3>1. n \in ended /\ n \notin B /\ n \in Steps
      BY <1>3, <2>1, ProcFacts DEF Types
    <3> QED
      BY <1>1, <2>1, <3>1 DEF ResultsKept
  <2>2. ASSUME NEW q \in Slots, pc'[q] = "ok" PROVE steps'[node[q]] # "none"
    <3>1. q # s /\ q \in Procs /\ pc[q] = "ok" /\ Holding(q)
      BY <1>1, <2>2 DEF Holding
    <3>2. node[q] \in Steps /\ node[q] # g /\ node[q] \notin ended
      BY <1>1, <3>1, ProcFacts DEF OnePlace
    <3>3. node[q] \notin B
      <4>1. Started(g) /\ g \notin ended
        BY <1>1, ProcFacts DEF Started, InHand
      <4>2. Ancestors(dag, g) \subseteq ended
        BY <1>1, <4>1, AncestorsEnded
      <4> QED
        BY <3>2, <4>2 DEF LoopBody, Ancestors
    <3> QED
      BY <1>1, <3>1, <3>2, <3>3 DEF ResultsKept
  <2> QED
    BY <1>1, <2>1, <2>2 DEF ResultsKept
<1>7. ReturnedLate'
  BY <1>1, NotReturned DEF ReturnedLate
<1> QED
  BY <1>0, <1>5, <1>6, <1>7
LEMMA ReturnFInv == FInv /\ (Return \/ Finished \/ UNCHANGED vars) => FInv'
<1> SUFFICES ASSUME FInv, Return \/ Finished \/ UNCHANGED vars PROVE FInv'
  OBVIOUS
<1> USE DEF FInv
<1>0. IInv'
  BY ReturnIInv DEF Finished
<1>1. UNCHANGED <<dag, ready, inDegree, completed, firstErr, done,
                  gotoIterations, steps, pc, node, todo, out, ended, erred>>
  BY DEF Return, Finished, vars, state, procs, aux
<1>2. Dirty' = Dirty
  BY <1>1 DEF Dirty, Steps
<1>3. FailureKept' /\ ResultsKept'
  BY <1>1, <1>2 DEF FailureKept, ResultsKept, Admitted
<1>4. ReturnedLate'
  <2>1. CASE Return
    BY <1>1, <2>1 DEF Return, ReturnedLate, WaitGroupZero
  <2>2. CASE Finished \/ UNCHANGED vars
    BY <2>2 DEF Finished, ReturnedLate, vars, state, procs
  <2> QED
    BY <2>1, <2>2
<1> QED
  BY <1>0, <1>3, <1>4

LEMMA InitFInv == Init /\ IInv => FInv
<1> SUFFICES ASSUME Init, IInv PROVE FInv
  OBVIOUS
<1> USE DEF Init
<1>1. dagLoop \in Procs /\ dagLoop \notin Slots /\ Slots \subseteq Procs
  BY ProcFacts
<1>2. Dirty = {} /\ \A p \in Procs : ~Admitted(p)
  BY DEF Dirty, Admitted, Steps
<1>3. FailureKept
  BY <1>1, <1>2 DEF FailureKept
<1>4. ResultsKept /\ ReturnedLate
  BY <1>1 DEF ResultsKept, ReturnedLate
<1> QED
  BY <1>3, <1>4 DEF FInv

LEMMA NextFInv == FInv /\ [Next]_vars => FInv'
<1> SUFFICES ASSUME FInv, [Next]_vars PROVE FInv'
  OBVIOUS
<1>1. dagLoop \in Procs /\ Slots \subseteq Procs
  BY ProcFacts DEF FInv
<1>2. CASE Loop
  BY <1>1, <1>2, ReceiveFInv, SkipNodeFInv, LoopFInv DEF Loop
<1>3. ASSUME NEW s \in Slots, Acquire(s) \/ Worker(s) PROVE FInv'
  BY <1>1, <1>3, AcquireFInv, ExecuteFInv, FinishFInv, FinishGotoFInv, LoopFInv,
     LeaveFInv DEF Worker
<1>4. CASE Return \/ Finished \/ UNCHANGED vars
  BY <1>4, ReturnFInv
<1> QED
  BY <1>2, <1>3, <1>4 DEF Next

\* What runDAGNode and skipNode record of a failure stays until executeDAG has
\* returned: the invariant FInv holds of every execution.
THEOREM FailureInvariance ==
    ASSUME \A d \in Dags : LoopsClosed(d)
    PROVE  Spec => []FInv
<1>1. Init => FInv
  BY InitIInv, InitFInv
<1>2. FInv /\ [Next]_vars => FInv'
  BY NextFInv
<1> QED
  BY <1>1, <1>2, PTL DEF Spec

\* After a step failed, no step downstream of it is given to its action, also
\* when it was already in the channel or waiting for a slot.
THEOREM FailureStopsDependentsHolds ==
    ASSUME \A d \in Dags : LoopsClosed(d)
    PROVE  Spec => []FailureStopsDependents
<1>1. ASSUME FInv PROVE FailureStopsDependents
  <2> SUFFICES ASSUME NEW s \in Slots, pc[s] = "exec",
                      NEW m \in Ancestors(dag, node[s])
               PROVE  m \notin erred /\ steps[m] # "skipped"
    BY DEF FailureStopsDependents
  <2>1. s \in Procs /\ Admitted(s)
    BY <1>1, ProcFacts DEF FInv, Admitted
  <2>2. m \in Steps
    BY DEF Ancestors, Backward, Steps
  <2> QED
    BY <1>1, <2>1, <2>2 DEF FInv, FailureKept, Dirty
<1> QED
  BY <1>1, FailureInvariance, PTL

\* executeDAG returns when every goroutine of a step is gone, with an error
\* exactly if a step had one, and no step is without a result unless its own
\* execution failed before there was one.
THEOREM ReturnTellsAllHolds ==
    ASSUME \A d \in Dags : LoopsClosed(d)
    PROVE  Spec => []ReturnTellsAll
<1>1. ASSUME FInv PROVE ReturnTellsAll
  <2> SUFFICES ASSUME returned # "no"
               PROVE  /\ \A s \in Slots : pc[s] = "free"
                      /\ (returned = "error") <=> (erred # {})
                      /\ \A n \in Steps : steps[n] = "none" => n \in erred
    BY DEF ReturnTellsAll
  <2>1. done = "closed" /\ ended = Steps
    BY <1>1 DEF FInv, ReturnedLate, IInv, DoneExact
  <2> QED
    BY <1>1, <2>1 DEF FInv, ReturnedLate, FailureKept, ResultsKept
<1> QED
  BY <1>1, FailureInvariance, PTL
-----------------------------------------------------------------------------
(* The scheduler implements WorkflowOrder *)

OrderPhase == [n \in Steps |-> Phase(n)]

\* A process that keeps what it holds changes nothing in the promise.
LEMMA OrderStutter ==
    ASSUME UNCHANGED <<dag, ended, gotoIterations, returned>>,
           \A n \in Steps : InHand(n)' <=> InHand(n)
    PROVE  UNCHANGED Order!vars
<1>1. Steps' = Steps
  BY DEF Steps
<1>2. \A n \in Steps : Phase(n)' = Phase(n)
  BY DEF Phase
<1>3. OrderPhase' = OrderPhase
  BY <1>1, <1>2 DEF OrderPhase
<1> QED
  BY <1>3 DEF Order!vars, OrderPhase

LEMMA OrderInit == Init /\ IInv => Order!Init
<1> SUFFICES ASSUME Init, IInv PROVE Order!Init
  OBVIOUS
<1>1. \A n : Phase(n) = "pending"
  BY DEF Init, Phase, InHand, Holding
<1> QED
  BY <1>1 DEF Order!Init, Init, Steps, Order!Nodes, Order!Gotos, Nodes, Gotos
LEMMA SameGraph ==
    \A d, n : /\ Order!Nodes(d) = Nodes(d) /\ Order!Gotos(d) = Gotos(d)
              /\ Order!LoopBody(d, n) = LoopBody(d, n)
<1>1. \A d : Order!Nodes(d) = Nodes(d) /\ Order!Gotos(d) = Gotos(d)
  BY DEF Order!Nodes, Order!Gotos, Nodes, Gotos
<1>2. \A d, n : Order!Children(d, n) = Children(d, n)
  BY <1>1 DEF Order!Children, Children
<1>3. \A d, S : Order!UpClosed(d, S) = UpClosed(d, S)
  BY DEF Order!UpClosed, UpClosed
<1>4. \A d, S : Order!DownClosed(d, S) = DownClosed(d, S)
  BY <1>2 DEF Order!DownClosed, DownClosed
<1>5. \A d, n : Order!Backward(d, n) = Backward(d, n)
  BY <1>1, <1>3 DEF Order!Backward, Backward
<1>6. \A d, n : Order!Forward(d, n) = Forward(d, n)
  BY <1>1, <1>4 DEF Order!Forward, Forward
<1> QED
  BY <1>1, <1>5, <1>6 DEF Order!LoopBody, LoopBody

\* Receive takes a step that waits for nothing: the promise dispatches it.
LEMMA OrderReceive == FInv /\ Receive => Order!Dispatch(Head(ready))
<1> SUFFICES ASSUME FInv, Receive, NEW CONSTANT h, h = Head(ready)
             PROVE  Order!Dispatch(h)
  OBVIOUS
<1> USE ProcFacts DEF FInv
<1>1. /\ h \in Steps /\ h = ready[1] /\ 1 \in 1..Len(ready)
  BY TailFacts DEF Types, Receive
<1>2. Queued(h) /\ ~InHand(h) /\ h \notin ended
  BY <1>1 DEF Queued, OnePlace
<1>3. /\ ~Holding(dagLoop) /\ Holding(dagLoop)' /\ node'[dagLoop] = h
      /\ \A p \in Procs \ {dagLoop} : pc'[p] = pc[p] /\ node'[p] = node[p]
      /\ UNCHANGED <<dag, ended, gotoIterations, returned>>
      /\ Steps' = Steps
  BY DEF Receive, ReceivedPc, Types, Steps, Holding, aux
<1>4. \A n \in Steps : InHand(n)' <=> InHand(n) \/ n = h
  <2>1. \A p \in Procs \ {dagLoop} : Holding(p)' <=> Holding(p)
    BY <1>3 DEF Holding
  <2> QED
    BY <1>3, <2>1 DEF InHand
<1>5. Phase(h) = "pending" /\ Phase(h)' = "running"
  <2>1. Phase(h) = "pending"
    BY <1>2 DEF Phase
  <2>2. InHand(h)'
    BY <1>3 DEF InHand
  <2> QED
    BY <2>1, <2>2 DEF Phase
<1>6. \A n \in Steps \ {h} : Phase(n)' = Phase(n)
  BY <1>3, <1>4 DEF Phase
<1>7. ASSUME NEW m \in dag.parents[h] PROVE m \in Steps /\ Phase(m) = "finished"
  <2>1. Started(h)
    BY <1>2 DEF Started
  <2>2. m \in ended
    BY <1>1, <2>1 DEF StartedLetGo, LetGo
  <2> QED
    BY <2>2 DEF Types, OnePlace, Phase
<1>8. OrderPhase' = [OrderPhase EXCEPT ![h] = "running"]
  BY <1>1, <1>3, <1>5, <1>6 DEF OrderPhase
<1>9. /\ OrderPhase[h] = "pending"
      /\ \A m \in dag.parents[h] : OrderPhase[m] = "finished"
  BY <1>1, <1>5, <1>7 DEF OrderPhase
<1> QED
  BY <1>3, <1>8, <1>9 DEF Order!Dispatch, OrderPhase

LEMMA OrderCount ==
    ASSUME FInv, NEW p \in Procs, Holding(p), pc'[p] = "enqueue",
           \A q \in Procs \ {p} : pc'[q] = pc[q],
           UNCHANGED <<dag, node, gotoIterations, returned>>,
           ended' = ended \cup {node[p]}
    PROVE  Order!Finish(node[p])
<1> USE ProcFacts DEF FInv
<1> DEFINE n == node[p]
<1>1. n \in Steps /\ n \notin ended /\ InHand(n) /\ Steps' = Steps
  BY DEF InHand, Steps
<1>2. /\ ~Holding(p)'
      /\ \A q \in Procs \ {p} : Holding(q)' <=> Holding(q)
  BY DEF Holding
<1>3. \A m \in Steps : InHand(m)' <=> InHand(m) /\ m # n
  BY <1>2 DEF InHand, OnePlace
<1>4. Phase(n) = "running" /\ Phase(n)' = "finished"
  BY <1>1, <1>3 DEF Phase
<1>5. \A m \in Steps \ {n} : Phase(m)' = Phase(m)
  BY <1>3 DEF Phase
<1>6. OrderPhase' = [OrderPhase EXCEPT ![n] = "finished"] /\ OrderPhase[n] = "running"
  BY <1>1, <1>4, <1>5 DEF OrderPhase
<1> QED
  BY <1>6 DEF Order!Finish, OrderPhase

\* A goto that is taken rewinds its body: the rest of the body has finished,
\* and nothing that depends on it from outside has started.
LEMMA OrderGoto == \A s \in Slots : FInv /\ FinishGoto(s) => Order!Rewind(node[s])
<1> SUFFICES ASSUME NEW s \in Slots, FInv, FinishGoto(s) PROVE Order!Rewind(node[s])
  OBVIOUS
<1> USE ProcFacts DEF FInv
<1> DEFINE g == node[s]
           B == LoopBody(dag, g)
<1>1. /\ s \in Procs /\ Holding(s) /\ pc[s] = "ok"
      /\ g \in Steps /\ g \in Gotos(dag) /\ g \notin ended /\ InHand(g)
      /\ gotoIterations[g] < dag.goto[g].max
      /\ gotoIterations' = [gotoIterations EXCEPT ![g] = @ + 1]
      /\ pc'[s] = "enqueue" /\ \A q \in Procs \ {s} : pc'[q] = pc[q]
      /\ UNCHANGED <<dag, node, returned>>
      /\ ended' = (ended \cup {g}) \ B
      /\ Steps' = Steps
  BY DEF FinishGoto, Types, Holding, InHand, Steps
<1>2. Buildable(dag) /\ LoopClosed(dag, g) /\ g \in B /\ B \subseteq Steps
  <2>1. Buildable(dag) /\ LoopClosed(dag, g)
    BY <1>1, DagFacts DEF IInv, LoopsClosed
  <2> QED
    BY <1>1, <2>1, GotoInBody DEF Steps
<1>3. B \ {g} \subseteq ended
  BY <1>1, AncestorsEnded DEF Started, LoopBody, Ancestors
<1>4. \A m \in Steps : InHand(m)' <=> InHand(m) /\ m # g
  <2>1. ~Holding(s)' /\ \A q \in Procs \ {s} : Holding(q)' <=> Holding(q)
    BY <1>1 DEF Holding
  <2> QED
    BY <1>1, <2>1 DEF InHand, OnePlace
<1>5. \A m \in B \ {g} : Phase(m) = "finished"
  BY <1>2, <1>3 DEF Phase, OnePlace
<1>6. \A m \in B : Phase(m)' = "pending"
  BY <1>1, <1>2, <1>3, <1>4 DEF Phase, OnePlace
<1>7. \A m \in Steps \ B : Phase(m)' = Phase(m)
  BY <1>1, <1>2, <1>4 DEF Phase
<1>8. ASSUME NEW m \in Steps, m \notin B, NEW b \in dag.parents[m], b \in B
      PROVE  Phase(m) = "pending"
  <2>1. m \in Children(dag, b)
    BY <1>8 DEF Children, Steps
  <2>2. b = g
    BY <1>2, <1>8, <2>1 DEF LoopClosed
  <2>3. ~LetGo(b, m)
    BY <1>1, <2>2 DEF LetGo
  <2>4. ~Started(m)
    BY <1>8, <2>3 DEF StartedLetGo
  <2> QED
    BY <2>4 DEF Started, Phase
<1>9. /\ OrderPhase[g] = "running"
      /\ \A m \in B \ {g} : OrderPhase[m] = "finished"
      /\ \A m \in Order!Dependents(g) : OrderPhase[m] = "pending"
  <2>1. OrderPhase[g] = "running"
    BY <1>1 DEF OrderPhase, Phase
  <2>2. \A m \in B \ {g} : OrderPhase[m] = "finished"
    BY <1>2, <1>5 DEF OrderPhase
  <2>3. Order!Dependents(g) = {m \in Steps \ B : dag.parents[m] \cap B # {}}
    BY SameGraph DEF Order!Dependents, Steps
  <2>4. \A m \in Order!Dependents(g) : OrderPhase[m] = "pending"
    <3> HIDE DEF B
    <3> QED
      BY <1>8, <2>3 DEF OrderPhase
  <2> QED
    BY <2>1, <2>2, <2>4
<1>10. OrderPhase' = [m \in Steps |-> IF m \in B THEN "pending" ELSE OrderPhase[m]]
  BY <1>1, <1>6, <1>7 DEF OrderPhase
<1> QED
  <2> HIDE DEF B
  <2>1. B = Order!LoopBody(dag, g) /\ Steps = Order!Nodes(dag)
    BY SameGraph DEF B, Steps
  <2> QED
    BY <1>1, <1>9, <1>10, <2>1 DEF Order!Rewind, OrderPhase
LEMMA OrderReturn == FInv /\ Return => Order!Return
<1> SUFFICES ASSUME FInv, Return PROVE Order!Return
  OBVIOUS
<1>1. ended = Steps
  BY DEF FInv, IInv, DoneExact, Return
<1>2. \A n \in Steps : Phase(n) = "finished"
  BY <1>1 DEF FInv, IInv, OnePlace, Phase
<1>3. returned = "no" /\ returned' # "no"
  BY DEF Return
<1>4. UNCHANGED <<dag, ended, gotoIterations, pc, node>> /\ Steps' = Steps
  BY DEF Return, procs, aux, Steps
<1>5. OrderPhase' = OrderPhase
  BY <1>4 DEF OrderPhase, Phase, InHand, Holding
<1>6. \A n \in Order!Nodes(dag) : OrderPhase[n] = "finished"
  BY <1>2, SameGraph DEF OrderPhase, Steps
<1> QED
  BY <1>3, <1>4, <1>5, <1>6 DEF Order!Return, OrderPhase

LEMMA OrderNext == FInv /\ [Next]_vars => [Order!Next]_(Order!vars)
<1> SUFFICES ASSUME FInv, [Next]_vars PROVE Order!Next \/ UNCHANGED Order!vars
  OBVIOUS
<1> USE ProcFacts, SameGraph DEF FInv
<1>1. CASE Receive
  <2>1. Head(ready) \in Steps
    BY <1>1, TailFacts DEF Receive, Types
  <2> QED
    BY <1>1, <2>1, OrderReceive DEF Order!Next, Steps
<1>2. CASE SkipNode
  <2>1. Order!Finish(node[dagLoop])
    BY <1>2, OrderCount DEF SkipNode, CountStep, Holding, Types
  <2>2. node[dagLoop] \in Steps
    BY <1>2 DEF SkipNode, Holding
  <2> QED
    BY <2>1, <2>2 DEF Order!Next, Steps
<1>3. ASSUME NEW s \in Slots, FinishOk(s) \/ FinishErr(s)
      PROVE  Order!Next
  <2>1. Order!Finish(node[s])
    BY <1>3, OrderCount DEF FinishOk, FinishErr, CountStep, Holding, Types
  <2>2. node[s] \in Steps
    BY <1>3 DEF FinishOk, FinishErr, Holding
  <2> QED
    BY <2>1, <2>2 DEF Order!Next, Steps
<1>4. ASSUME NEW s \in Slots, FinishGoto(s) PROVE Order!Next
  BY <1>4, OrderGoto DEF Order!Next, FinishGoto
<1>5. CASE Return
  BY <1>5, OrderReturn DEF Order!Next
<1>6. CASE LoopBack
  <2>1. /\ UNCHANGED <<dag, ended, gotoIterations, returned>>
        /\ \A p \in Procs : Holding(p)' = Holding(p) /\ (Holding(p) => node'[p] = node[p])
    BY <1>6 DEF LoopBack, state, aux, Holding, Types
  <2> QED
    BY <2>1, OrderStutter DEF InHand
<1>7. ASSUME NEW p \in Procs, Decrement(p) \/ Send(p) PROVE UNCHANGED Order!vars
  <2>1. UNCHANGED <<dag, ended, gotoIterations, returned, pc, node>>
    BY <1>7 DEF Decrement, Send, aux
  <2> QED
    BY <2>1, OrderStutter DEF InHand, Holding
<1>8. ASSUME NEW s \in Slots, Acquire(s) PROVE UNCHANGED Order!vars
  <2>1. /\ UNCHANGED <<dag, ended, gotoIterations, returned>>
        /\ Holding(dagLoop) /\ ~Holding(s) /\ dagLoop # s
        /\ Holding(s)' /\ ~Holding(dagLoop)' /\ node'[s] = node[dagLoop]
        /\ \A p \in Procs \ {s, dagLoop} : pc'[p] = pc[p] /\ node'[p] = node[p]
    BY <1>8 DEF Acquire, state, aux, Holding, Types
  <2>2. \A p \in Procs \ {s, dagLoop} : Holding(p)' = Holding(p)
    BY <2>1 DEF Holding
  <2>3. \A n : InHand(n)' <=> InHand(n)
    BY <2>1, <2>2 DEF InHand
  <2> QED
    BY <2>1, <2>3, OrderStutter
<1>9. ASSUME NEW s \in Slots, ExecuteOk(s) \/ ExecuteErr(s) \/ Leave(s)
      PROVE  UNCHANGED Order!vars
  <2>1. /\ UNCHANGED <<dag, ended, gotoIterations, returned>>
        /\ \A p \in Procs : Holding(p)' = Holding(p) /\ (Holding(p) => node'[p] = node[p])
    BY <1>9 DEF ExecuteOk, ExecuteErr, Leave, state, aux, Holding, Types
  <2> QED
    BY <2>1, OrderStutter DEF InHand
<1>10. CASE Finished \/ UNCHANGED vars
  <2>1. UNCHANGED <<dag, ended, gotoIterations, returned, pc, node>>
    BY <1>10 DEF Finished, vars, state, procs, aux
  <2> QED
    BY <2>1, OrderStutter DEF InHand, Holding
<1> QED
  BY <1>1, <1>2, <1>3, <1>4, <1>5, <1>6, <1>7, <1>8, <1>9, <1>10
  DEF Next, Loop, Worker

\* The scheduler implements WorkflowOrder: queue, counters, goroutines and
\* loop resets of engine_dag.go and goto.go add no order of dispatch, finish
\* and return that the promise does not allow.
THEOREM ImplementsOrderHolds ==
    ASSUME \A d \in Dags : LoopsClosed(d)
    PROVE  Spec => ImplementsOrder
<1>1. Init => Order!Init
  BY InitIInv, OrderInit
<1>2. FInv /\ [Next]_vars => [Order!Next]_(Order!vars)
  BY OrderNext
<1> QED
  BY <1>1, <1>2, FailureInvariance, PTL DEF Spec, ImplementsOrder, Order!Spec
=============================================================================
