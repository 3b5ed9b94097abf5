------------------------------ MODULE Dag_proofs ------------------------------
(***************************************************************************)
(* What the searches of FindLoopBody compute on every graph BuildDAG       *)
(* accepts.                                                                *)
(***************************************************************************)
EXTENDS Dag, TLAPS

\* Backward(d, n), the backward search of FindLoopBody, is the least set
\* that holds n and the parents of its members.
LEMMA BackwardLeast ==
    ASSUME NEW d, NEW n, NEW S \in SUBSET Nodes(d), n \in S, UpClosed(d, S)
    PROVE  Backward(d, n) \subseteq S
BY DEF Backward

LEMMA BackwardClosed ==
    ASSUME NEW d, Buildable(d), NEW n \in Nodes(d)
    PROVE  /\ n \in Backward(d, n)
           /\ UpClosed(d, Backward(d, n))
           /\ Backward(d, n) \subseteq Nodes(d)
<1>1. n \in Backward(d, n) /\ Backward(d, n) \subseteq Nodes(d)
  BY DEF Backward
<1>2. ASSUME NEW x \in Backward(d, n), NEW y \in d.parents[x]
      PROVE  y \in Backward(d, n)
  <2>1. y \in Nodes(d)
    BY <1>1 DEF Buildable
  <2>2. ASSUME NEW S \in SUBSET Nodes(d), n \in S, UpClosed(d, S)
        PROVE  y \in S
    BY <2>2 DEF Backward, UpClosed
  <2> QED
    BY <2>1, <2>2 DEF Backward
<1> QED
  BY <1>1, <1>2 DEF UpClosed

\* With its target among its ancestors, a goto step is part of its own body:
\* resetLoopBody uncounts the step that handleGoto runs for.
LEMMA GotoInBody ==
    ASSUME NEW d, Buildable(d), NEW g \in Gotos(d), LoopClosed(d, g)
    PROVE  /\ g \in LoopBody(d, g)
           /\ LoopBody(d, g) \subseteq Nodes(d)
<1> DEFINE t == d.goto[g].target
<1>1. g \in Nodes(d) /\ t \in Nodes(d) /\ t \in Backward(d, g)
  BY DEF Buildable, ValidGotos, LoopClosed
<1>2. ASSUME NEW S \in SUBSET Nodes(d), t \in S, DownClosed(d, S)
      PROVE  g \in S
  <2> SUFFICES ASSUME g \notin S PROVE FALSE
    OBVIOUS
  <2>1. UpClosed(d, Nodes(d) \ S)
    <3>1. ASSUME NEW x \in Nodes(d) \ S, NEW y \in d.parents[x], y \in S
          PROVE  FALSE
      <4>1. x \in Children(d, y)
        BY <3>1 DEF Children
      <4> QED
        BY <4>1, <3>1, <1>2 DEF DownClosed
    <3>2. \A x \in Nodes(d) \ S : d.parents[x] \subseteq Nodes(d)
      BY DEF Buildable
    <3> QED
      BY <3>1, <3>2 DEF UpClosed
  <2>2. Backward(d, g) \subseteq Nodes(d) \ S
    BY <1>1, <2>1, BackwardLeast
  <2> QED
    BY <1>1, <1>2, <2>2
<1>3. g \in Forward(d, t)
  BY <1>1, <1>2 DEF Forward
<1> QED
  BY <1>1, <1>3, BackwardClosed DEF LoopBody
=============================================================================
