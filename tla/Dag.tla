--------------------------------- MODULE Dag ---------------------------------
(***************************************************************************)
(* The dependency graph of a workflow: what engine/dag.go builds from the  *)
(* steps of the YAML file and what engine/goto.go computes on it.          *)
(*                                                                         *)
(* A graph is a record                                                     *)
(*   parents : [steps -> SUBSET steps]  DAGNode.Parents, from depends_on   *)
(*   goto    : a function from the steps that carry a goto to records      *)
(*             [target, max], max being GotoConfig.MaxIterations           *)
(*   order   : DAG.Order, the order Kahn's algorithm found                 *)
(* Parents and Children are slices in the code; a depends_on list that     *)
(* names a step twice is the only thing a set does not tell apart.         *)
(***************************************************************************)
EXTENDS Naturals, Sequences, FiniteSets

Nodes(d) == DOMAIN d.parents

Gotos(d) == DOMAIN d.goto

Children(d, n) == {m \in Nodes(d) : n \in d.parents[m]}

Roots(d) == {n \in Nodes(d) : d.parents[n] = {}}

(***************************************************************************)
(* The two searches of FindLoopBody, as least closed sets: n and all that  *)
(* is reached from it over Parents (Children).                             *)
(***************************************************************************)
UpClosed(d, S) == \A x \in S : d.parents[x] \subseteq S

DownClosed(d, S) == \A x \in S : Children(d, x) \subseteq S

Backward(d, n) ==
    {m \in Nodes(d) : \A S \in SUBSET Nodes(d) :
                         n \in S /\ UpClosed(d, S) => m \in S}

Forward(d, n) ==
    {m \in Nodes(d) : \A S \in SUBSET Nodes(d) :
                         n \in S /\ DownClosed(d, S) => m \in S}

\* The steps a goto of step g puts back: those between its target and g.
LoopBody(d, g) == Forward(d, d.goto[g].target) \cap Backward(d, g)

Ancestors(d, n) == Backward(d, n) \ {n}

(***************************************************************************)
(* What BuildDAG accepts: known dependencies, an order that respects them  *)
(* (so no cycle), and gotos whose target stands earlier in that order.     *)
(***************************************************************************)
Before(d, m, n) ==
    \E i, j \in DOMAIN d.order : i < j /\ d.order[i] = m /\ d.order[j] = n

IsTopologicalOrder(d) ==
    /\ Len(d.order) = Cardinality(Nodes(d))
    /\ \A n \in Nodes(d) : \E i \in DOMAIN d.order : d.order[i] = n
    /\ \A n \in Nodes(d) : \A m \in d.parents[n] : Before(d, m, n)

ValidGotos(d) ==
    \A g \in Gotos(d) : /\ d.goto[g].target \in Nodes(d)
                        /\ Before(d, d.goto[g].target, g)
                        /\ d.goto[g].max > 0

Buildable(d) ==
    /\ Nodes(d) # {} /\ IsFiniteSet(Nodes(d))
    /\ d.parents \in [Nodes(d) -> SUBSET Nodes(d)]
    /\ Gotos(d) \subseteq Nodes(d)
    /\ IsTopologicalOrder(d)
    /\ ValidGotos(d)

(***************************************************************************)
(* What BuildDAG does not ask of a goto, and its loop needs: the target is *)
(* an ancestor of the goto step, and only the goto step has dependents     *)
(* outside the body.                                                       *)
(***************************************************************************)
LoopClosed(d, g) ==
    /\ d.goto[g].target \in Backward(d, g)
    /\ \A b \in LoopBody(d, g) \ {g} : Children(d, b) \subseteq LoopBody(d, g)

LoopsClosed(d) == \A g \in Gotos(d) : LoopClosed(d, g)
=============================================================================
