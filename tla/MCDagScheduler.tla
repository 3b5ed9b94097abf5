--------------------------- MODULE MCDagScheduler ---------------------------
(***************************************************************************)
(* Graphs for model-checking DagScheduler.                                 *)
(***************************************************************************)
EXTENDS DagScheduler

CONSTANTS s1, s2

MCSlots == {s1, s2}

NoGoto == <<>>

Goto(target, max) == [target |-> target, max |-> max]

\* Two steps in parallel between two others.
Diamond ==
    [parents |-> [a |-> {}, b |-> {"a"}, c |-> {"a"}, d |-> {"b", "c"}],
     goto    |-> NoGoto,
     order   |-> <<"a", "b", "c", "d">>]

\* More roots than slots, one join, and a step that depends on one root.
Fan ==
    [parents |-> [a |-> {}, b |-> {}, c |-> {}, d |-> {"a", "b", "c"},
                  e |-> {"a"}],
     goto    |-> NoGoto,
     order   |-> <<"a", "b", "c", "e", "d">>]

\* The loop of goto_test.go with a root beside it that its body waits for.
Loop1 ==
    [parents |-> [work |-> {}, side |-> {}, save |-> {"work", "side"},
                  loop |-> {"save"}, end |-> {"loop", "side"}],
     goto    |-> [loop |-> Goto("work", 2)],
     order   |-> <<"work", "side", "save", "loop", "end">>]

\* A loop whose body runs in parallel.
Loop2 ==
    [parents |-> [t |-> {}, x |-> {"t"}, y |-> {"t"}, g |-> {"x", "y"},
                  e |-> {"g"}],
     goto    |-> [g |-> Goto("t", 1)],
     order   |-> <<"t", "x", "y", "g", "e">>]

\* A loop inside a loop, and two that overlap.
Nested ==
    [parents |-> [a |-> {}, b |-> {"a"}, g |-> {"b"}, h |-> {"g"}],
     goto    |-> [g |-> Goto("b", 1), h |-> Goto("a", 1)],
     order   |-> <<"a", "b", "g", "h">>]

Overlap ==
    [parents |-> [a |-> {}, b |-> {"a"}, g |-> {"b"}, h |-> {"g"}],
     goto    |-> [g |-> Goto("a", 1), h |-> Goto("b", 2)],
     order   |-> <<"a", "b", "g", "h">>]

\* Every graph of three steps, with every closed goto or pair of gotos.
Three == <<"a", "b", "c">>

EarlierThan == [a |-> {}, b |-> {"a"}, c |-> {"a", "b"}]

SmallParents == {f \in [{"a", "b", "c"} -> SUBSET {"a", "b"}] :
                    \A n \in DOMAIN f : f[n] \subseteq EarlierThan[n]}

SmallGotos ==
    UNION {{f \in [G -> [target : {"a", "b"}, max : {1}]] :
               \A g \in G : f[g].target \in EarlierThan[g]} :
           G \in SUBSET {"b", "c"}}

SmallDags == {[parents |-> f, goto |-> j, order |-> Three] :
                 f \in SmallParents, j \in SmallGotos}

ClosedSmallDags == {d \in SmallDags : LoopsClosed(d)}

ClosedDags ==
    {Diamond, Fan, Loop1, Loop2, Nested, Overlap} \cup ClosedSmallDags

ASSUME \A d \in ClosedDags : LoopsClosed(d)

\* A step of the loop body has a dependent outside: y also waits for z.
SideBranch ==
    [parents |-> [t |-> {}, z |-> {}, g |-> {"t"}, y |-> {"t", "z"}],
     goto    |-> [g |-> Goto("t", 1)],
     order   |-> <<"t", "z", "g", "y">>]

SideBranchDags == {SideBranch}

\* The goto target comes earlier in the order but is not an ancestor.
Stray ==
    [parents |-> [p |-> {}, q |-> {}, r |-> {"q"}],
     goto    |-> [r |-> Goto("p", 1)],
     order   |-> <<"p", "q", "r">>]

StrayDags == {Stray}
=============================================================================
