---------------------------- MODULE MCEventStream ----------------------------
(***************************************************************************)
(* Two steps, one after the other or in parallel, for model-checking       *)
(* EventStream.                                                            *)
(***************************************************************************)
EXTENDS EventStream

CONSTANTS a, b

MCSteps == {a, b}

MCSkipped == {b}

Parallel == [p \in MCSteps |-> {}]

Chain == [p \in MCSteps |-> IF p = b THEN {a} ELSE {}]

MCOrders == {Parallel, Chain}

ChainOnly == {Chain}

ParallelOnly == {Parallel}
=============================================================================
