---------------------------- MODULE WorkflowOrder ----------------------------
(***************************************************************************)
(* What the engine promises of one execution, without queue, counters,     *)
(* goroutines or locks: a step is dispatched when all it depends on has    *)
(* finished, once per round of the loops around it; a goto step that has   *)
(* not finished may instead put its loop body back, as long as nothing     *)
(* that depends on the body from outside has been dispatched; the          *)
(* execution returns when every step has finished, and nothing moves then. *)
(***************************************************************************)
EXTENDS Dag, Integers

CONSTANT Dags       \* the graphs an execution may be given

VARIABLES
    dag,            \* the graph of this execution
    phase,          \* [step -> "pending" | "running" | "finished"]
    rewinds,        \* [goto step -> rounds its goto has started]
    over            \* the execution has returned

vars == <<dag, phase, rewinds, over>>

Dependents(g) ==
    {n \in Nodes(dag) \ LoopBody(dag, g) :
        dag.parents[n] \cap LoopBody(dag, g) # {}}

Init ==
    /\ dag \in Dags
    /\ phase = [n \in Nodes(dag) |-> "pending"]
    /\ rewinds = [g \in Gotos(dag) |-> 0]
    /\ over = FALSE

Dispatch(n) ==
    /\ phase[n] = "pending"
    /\ \A p \in dag.parents[n] : phase[p] = "finished"
    /\ phase' = [phase EXCEPT ![n] = "running"]
    /\ UNCHANGED <<dag, rewinds, over>>

Finish(n) ==
    /\ phase[n] = "running"
    /\ phase' = [phase EXCEPT ![n] = "finished"]
    /\ UNCHANGED <<dag, rewinds, over>>

Rewind(g) ==
    /\ phase[g] = "running"
    /\ rewinds[g] < dag.goto[g].max
    /\ \A b \in LoopBody(dag, g) \ {g} : phase[b] = "finished"
    /\ \A n \in Dependents(g) : phase[n] = "pending"
    /\ phase' = [n \in Nodes(dag) |->
                    IF n \in LoopBody(dag, g) THEN "pending" ELSE phase[n]]
    /\ rewinds' = [rewinds EXCEPT ![g] = @ + 1]
    /\ UNCHANGED <<dag, over>>

Return ==
    /\ ~over
    /\ \A n \in Nodes(dag) : phase[n] = "finished"
    /\ over' = TRUE
    /\ UNCHANGED <<dag, phase, rewinds>>

Next ==
    \/ \E n \in Nodes(dag) : Dispatch(n) \/ Finish(n)
    \/ \E g \in Gotos(dag) : Rewind(g)
    \/ Return

Spec == Init /\ [][Next]_vars
=============================================================================
