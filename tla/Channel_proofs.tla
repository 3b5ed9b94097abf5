---------------------------- MODULE Channel_proofs ----------------------------
(***************************************************************************)
(* Facts about sequences as Go's channels use them, shared by the proofs   *)
(* about the components that talk over one.                                *)
(***************************************************************************)
EXTENDS Integers, SequenceTheorems, WellFoundedInduction, TLAPS

LEMMA TailFacts ==
    ASSUME NEW S, NEW q \in Seq(S), q # <<>>
    PROVE  /\ Len(q) \in Nat \ {0}
           /\ Head(q) = q[1]
           /\ Head(q) \in S
           /\ Tail(q) \in Seq(S)
           /\ Len(Tail(q)) = Len(q) - 1
           /\ \A i \in 1..Len(Tail(q)) : Tail(q)[i] = q[i + 1]
BY HeadTailProperties

LEMMA AppendFacts ==
    ASSUME NEW S, NEW q \in Seq(S), NEW e \in S
    PROVE  /\ Len(q) \in Nat
           /\ Append(q, e) \in Seq(S)
           /\ Len(Append(q, e)) = Len(q) + 1
           /\ \A i \in 1..Len(q) : Append(q, e)[i] = q[i]
           /\ Append(q, e)[Len(q) + 1] = e
BY AppendProperties

\* What is in a channel has a last entry of its kind: a non-empty set of
\* positions has a greatest one.
LEMMA GreatestPosition ==
    ASSUME NEW m \in Nat, NEW A \in SUBSET (1..m), A # {}
    PROVE  \E k \in A : \A j \in A : j <= k
<1> DEFINE T == {x \in Nat : m - x \in A}
<1>1. PICK a \in A : TRUE
  OBVIOUS
<1>2. a \in 1..m /\ m - a \in Nat /\ m - (m - a) = a
  BY <1>1
<1>3. T \subseteq Nat /\ T # {}
  BY <1>1, <1>2
<1>4. \A j \in A : j \in 1..m /\ m - j \in Nat /\ m - (m - j) = j
  OBVIOUS
<1>5. \A j \in A : m - j \in T
  BY <1>4
<1> HIDE DEF T
<1>6. PICK x \in T : \A y \in T : ~(<<y, x>> \in OpToRel(<, Nat))
  BY <1>3, NatLessThanWellFounded, WFMin
<1>7. \A y \in T : ~(y < x)
  BY <1>3, <1>6 DEF OpToRel
<1> QED
  BY <1>3, <1>4, <1>5, <1>7 DEF T
===============================================================================
