------------------------ MODULE ExecutionStore_proofs ------------------------
(***************************************************************************)
(* Proofs about ExecutionStore: that ring and index hold the newest of the *)
(* executions that were added, for every capacity.                         *)
(***************************************************************************)
EXTENDS ExecutionStore, TLAPS

-----------------------------------------------------------------------------
(* Places of the ring *)

LEMMA Wrapped ==
    ASSUME NEW n \in Nat \ {0}, NEW a \in Nat, a < n + n
    PROVE  a % n = IF a < n THEN a ELSE a - n
  OBVIOUS

\* The place before a, i times, in a ring of n.
Back(a, i, n) == IF i <= a THEN a - i ELSE a - i + n

LEMMA BackIsModulo ==
    ASSUME NEW n \in Nat \ {0}, NEW a \in 0..(n - 1), NEW i \in 1..n
    PROVE  /\ (a - i + n) % n = Back(a, i, n)
           /\ Back(a, i, n) \in 0..(n - 1)
           /\ Back(a, i, n) = a <=> i = n
<1>1. PICK b \in Nat : b = a - i + n
  OBVIOUS
<1>2. b < n + n
  BY <1>1
<1>3. b % n = IF b < n THEN b ELSE b - n
  BY <1>2, Wrapped
<1> QED
  BY <1>1, <1>3 DEF Back

LEMMA BackOneMore ==
    ASSUME NEW n \in Nat \ {0}, NEW a \in 0..(n - 1), NEW i \in 1..n
    PROVE  /\ (a + 1) % n \in 0..(n - 1)
           /\ i = 1 => Back((a + 1) % n, i, n) = a
           /\ i > 1 => Back((a + 1) % n, i, n) = Back(a, i - 1, n)
<1>1. PICK b \in Nat : b = a + 1
  OBVIOUS
<1>2. b < n + n
  BY <1>1
<1>3. b % n = IF b < n THEN b ELSE b - n
  BY <1>2, Wrapped
<1> QED
  BY <1>1, <1>3 DEF Back

-----------------------------------------------------------------------------
(* The newest executions *)

\* The i-th newest of q.
Newer(q, i) == q[Len(q) + 1 - i]

Apart(q) == \A i, j \in 1..Len(q) : q[i] = q[j] => i = j

\* The ring and the index hold the newest of q, and no others.
Recent(q, hd, ct, buf, rs) ==
    /\ hd \in 0..(Capacity - 1)
    /\ ct = IF Len(q) < Capacity THEN Len(q) ELSE Capacity
    /\ DOMAIN buf = 0..(Capacity - 1)
    /\ \A i \in 1..ct : buf[Back(hd, i, Capacity)] = Newer(q, i)
    /\ DOMAIN rs = {Newer(q, i) : i \in 1..ct}

Ring(q) == Recent(q, head, count, buffer, rows)

LEMMA NewestOfAppend ==
    ASSUME NEW S, NEW q \in Seq(S), NEW e \in S, NEW i \in 1..(Len(q) + 1)
    PROVE  /\ i = 1 => Newer(Append(q, e), i) = e
           /\ i > 1 => Newer(Append(q, e), i) = Newer(q, i - 1)
<1>1. /\ Len(q) \in Nat /\ Len(Append(q, e)) = Len(q) + 1
      /\ Append(q, e)[Len(q) + 1] = e
      /\ \A j \in 1..Len(q) : Append(q, e)[j] = q[j]
  OBVIOUS
<1>2. CASE i = 1
  <2>1. Len(q) + 1 + 1 - i = Len(q) + 1
    BY <1>1, <1>2
  <2> QED
    BY <1>1, <1>2, <2>1 DEF Newer
<1>3. CASE i > 1
  <2>1. /\ Len(q) + 1 + 1 - i = Len(q) + 1 - (i - 1)
        /\ Len(q) + 1 - (i - 1) \in 1..Len(q)
    BY <1>1, <1>3
  <2> QED
    BY <1>1, <1>3, <2>1 DEF Newer
<1> QED
  BY <1>2, <1>3

\* Add puts the execution at the front and takes the one from the end that
\* there is no more room for (Add, execution.go).
LEMMA AddKeepsRecent ==
    ASSUME NEW S, NoRow \notin S, NEW q \in Seq(S), Apart(q), Ring(q),
           NEW e \in S, \A i \in 1..Len(q) : q[i] # e,
           NEW status, Add(e, status)
    PROVE  Recent(Append(q, e), head', count', buffer', rows')
<1> DEFINE p == Append(q, e)
<1>1. /\ Capacity \in Nat \ {0} /\ Len(q) \in Nat /\ Len(p) = Len(q) + 1
      /\ head \in 0..(Capacity - 1)
  BY CapacityAssumption DEF Ring, Recent
<1>2. /\ head' = (head + 1) % Capacity
      /\ buffer' = [buffer EXCEPT ![head] = e]
      /\ count' = IF count < Capacity THEN count + 1 ELSE count
      /\ count = IF Len(q) < Capacity THEN Len(q) ELSE Capacity
      /\ DOMAIN buffer = 0..(Capacity - 1)
  BY DEF Add, NextHead, Ring, Recent
<1>3. head' \in 0..(Capacity - 1)
  BY <1>1, <1>2, BackOneMore, 1 \in 1..Capacity
<1>4. /\ count' = IF Len(p) < Capacity THEN Len(p) ELSE Capacity
      /\ count' \in 1..Capacity /\ count' <= Len(q) + 1
  <2> HIDE DEF p
  <2> QED
    BY <1>1, <1>2
<1>5. ASSUME NEW i \in 1..count'
      PROVE  buffer'[Back(head', i, Capacity)] = Newer(p, i)
  <2>1. i \in 1..Capacity /\ i \in 1..(Len(q) + 1)
    BY <1>1, <1>4
  <2>2. CASE i = 1
    <3>1. Back(head', i, Capacity) = head
      BY <1>1, <1>2, <2>1, <2>2, BackOneMore
    <3>2. Newer(p, i) = e
      BY <2>1, <2>2, NewestOfAppend
    <3> QED
      BY <1>1, <1>2, <3>1, <3>2
  <2>3. CASE i > 1
    <3>1. i - 1 \in 1..Capacity /\ i - 1 # Capacity /\ i - 1 \in 1..count
      BY <1>1, <1>2, <2>1, <2>3
    <3>2. Back(head', i, Capacity) = Back(head, i - 1, Capacity)
      BY <1>1, <1>2, <2>1, <2>3, BackOneMore
    <3>3. /\ Back(head, i - 1, Capacity) \in 0..(Capacity - 1)
          /\ Back(head, i - 1, Capacity) # head
      BY <1>1, <3>1, BackIsModulo
    <3>4. buffer[Back(head, i - 1, Capacity)] = Newer(q, i - 1)
      BY <3>1 DEF Ring, Recent
    <3>5. Newer(p, i) = Newer(q, i - 1)
      BY <2>1, <2>3, NewestOfAppend
    <3> QED
      BY <1>2, <3>2, <3>3, <3>4, <3>5
  <2> QED
    BY <2>2, <2>3, <2>1
<1>6. ASSUME NEW f PROVE f \in DOMAIN rows' <=> \E i \in 1..count' : f = Newer(p, i)
  <2>1. DOMAIN rows' = (DOMAIN rows \ {Evicted}) \cup {e}
    BY DEF Add, Put, Drop, Restrict
  <2>2. f \in DOMAIN rows <=> \E i \in 1..count : f = Newer(q, i)
    BY DEF Ring, Recent
  <2>3. Newer(p, 1) = e /\ 1 \in 1..count' /\ 1 \in 1..(Len(q) + 1)
    BY <1>1, <1>4, NewestOfAppend
  <2>4. \A i \in 1..count : i + 1 \in 1..(Len(q) + 1)
    BY <1>1, <1>2
  <2>5. \A i \in 1..count : Newer(p, i + 1) = Newer(q, i)
    <3> SUFFICES ASSUME NEW i \in 1..count PROVE Newer(p, i + 1) = Newer(q, i)
      OBVIOUS
    <3>1. i + 1 \in 1..(Len(q) + 1) /\ i + 1 > 1 /\ (i + 1) - 1 = i
      BY <1>1, <1>2, <2>4
    <3> QED
      BY <3>1, NewestOfAppend
  <2>6. CASE count < Capacity
    <3>1. Evicted = NoRow /\ count' = count + 1
      BY <1>1, <1>2, <2>6 DEF Evicted
    <3>2. NoRow \notin DOMAIN rows
      <4>1. \A i \in 1..count : Len(q) + 1 - i \in 1..Len(q)
        BY <1>1, <1>2
      <4>2. \A i \in 1..count : Newer(q, i) \in S
        BY <4>1 DEF Newer
      <4> QED
        BY <4>2 DEF Ring, Recent
    <3>3. (\E i \in 1..count' : f = Newer(p, i)) <=>
             (f = e \/ \E i \in 1..count : f = Newer(q, i))
      <4> HIDE DEF p
      <4>1. \A i \in 1..count' : i = 1 \/ (i - 1 \in 1..count /\ i = (i - 1) + 1)
        BY <1>1, <1>2, <3>1
      <4>2. \A i \in 1..count : i + 1 \in 1..count'
        BY <1>1, <1>2, <3>1
      <4> QED
        BY <2>3, <2>5, <4>1, <4>2
    <3> QED
      BY <2>1, <2>2, <3>1, <3>2, <3>3
  <2>7. CASE count = Capacity
    <3>1. Evicted = buffer[head] /\ count' = count
      BY <1>1, <1>2, <2>7 DEF Evicted
    <3>2. Back(head, Capacity, Capacity) = head
      BY <1>1, BackIsModulo, Capacity \in 1..Capacity
    <3>3. Evicted = Newer(q, Capacity)
      <4>1. Capacity \in 1..count
        BY <1>1, <2>7
      <4> QED
        BY <3>1, <3>2, <4>1 DEF Ring, Recent
    <3>4. \A i \in 1..count : Newer(q, i) = Newer(q, Capacity) <=> i = Capacity
      <4>1. /\ \A i \in 1..count : Len(q) + 1 - i \in 1..Len(q)
            /\ Len(q) + 1 - Capacity \in 1..Len(q)
        BY <1>1, <1>2, <2>7
      <4>2. \A i \in 1..count :
                q[Len(q) + 1 - i] = q[Len(q) + 1 - Capacity] =>
                    Len(q) + 1 - i = Len(q) + 1 - Capacity
        BY <4>1 DEF Apart
      <4>3. \A i \in 1..count :
                Len(q) + 1 - i = Len(q) + 1 - Capacity => i = Capacity
        BY <1>1, <1>2
      <4> QED
        BY <4>2, <4>3 DEF Newer
    <3>5. e # Evicted
      <4>1. Len(q) + 1 - Capacity \in 1..Len(q)
        BY <1>1, <1>2, <2>7
      <4> QED
        BY <3>3, <4>1 DEF Newer
    <3>6. (\E i \in 1..count' : f = Newer(p, i)) <=>
             (f = e \/ \E i \in 1..count : i # Capacity /\ f = Newer(q, i))
      <4> HIDE DEF p
      <4>1. \A i \in 1..count' :
                i = 1 \/ (i - 1 \in 1..count /\ i - 1 # Capacity /\ i = (i - 1) + 1)
        BY <1>1, <2>7, <3>1
      <4>2. \A i \in 1..count : i # Capacity => i + 1 \in 1..count'
        BY <1>1, <2>7, <3>1
      <4> QED
        BY <2>3, <2>5, <4>1, <4>2
    <3> QED
      BY <2>1, <2>2, <3>3, <3>4, <3>5, <3>6
  <2> QED
    BY <1>1, <1>2, <2>6, <2>7
<1>7. DOMAIN rows' = {Newer(p, i) : i \in 1..count'}
  BY <1>6
<1>8. DOMAIN buffer' = 0..(Capacity - 1)
  BY <1>2
<1> HIDE DEF p
<1> QED
  BY <1>3, <1>4, <1>5, <1>7, <1>8 DEF Recent, p


\* List reads the ring backwards: the newest first.
LEMMA ListsNewest ==
    ASSUME NEW S, NEW q \in Seq(S), Ring(q)
    PROVE  List = [i \in 1..count |-> Newer(q, i)]
<1>1. head \in 0..(Capacity - 1) /\ count \in 0..Capacity
  BY CapacityAssumption DEF Ring, Recent
<1>2. ASSUME NEW i \in 1..count
      PROVE  buffer[(head - i + Capacity) % Capacity] = Newer(q, i)
  <2>1. i \in 1..Capacity
    BY <1>1, CapacityAssumption
  <2>2. (head - i + Capacity) % Capacity = Back(head, i, Capacity)
    BY <1>1, <2>1, CapacityAssumption, BackIsModulo
  <2> QED
    BY <2>2 DEF Ring, Recent
<1> QED
  BY <1>2 DEF List
=============================================================================
