----------------------------- MODULE LoopAction -----------------------------
(***************************************************************************)
(* The iterations of a loop action (action/loop.go): one goroutine per     *)
(* item, at most `width` at a time, each through the stages of a pipeline  *)
(* (one stage for a single action).  A stage that fails ends its iteration *)
(* and nothing else; the loop waits for all iterations and then looks at   *)
(* their errors.                                                           *)
(***************************************************************************)
EXTENDS Integers, FiniteSets

VARIABLE iter       \* caller -> iteration -> 0 before its start, the stage
                    \* it is in, Over, or Broken

Over == 100

Broken == -1

\* One loop: [items, stages, width, keep]; keep is error_policy continue.
IterInit(lp) == [i \in 1..lp.items |-> 0]

Running(c) == {i \in DOMAIN iter[c] : iter[c][i] \notin {0, Over, Broken}}

\* The semaphore is taken in the order of the items.
IterStart(c, lp, i) ==
    /\ iter[c][i] = 0
    /\ \A j \in 1..(i - 1) : iter[c][j] # 0
    /\ Cardinality(Running(c)) < lp.width
    /\ iter' = [iter EXCEPT ![c][i] = 1]

StageAfter(lp, st) == IF st = lp.stages THEN Over ELSE st + 1

IterStep(c, lp, i, ok) ==
    /\ i \in Running(c)
    /\ iter' = [iter EXCEPT ![c][i] = IF ok THEN StageAfter(lp, @) ELSE Broken]

\* wg.Wait.
AllBegun(c) == \A i \in DOMAIN iter[c] : iter[c][i] # 0

AllEnded(c) == AllBegun(c) /\ Running(c) = {}

\* buildLoopOutput: an error unless error_policy is continue.
LastIterationDecides(c, lp) ==
    \/ lp.keep
    \/ iter[c] = <<>>
    \/ iter[c][lp.items] # Broken

LoopOk(c, lp) == lp.keep \/ \A i \in DOMAIN iter[c] : iter[c][i] # Broken
=============================================================================
