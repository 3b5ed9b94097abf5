------------------------------ MODULE TreeView ------------------------------
(***************************************************************************)
(* From the steps of a workflow to the graph of engine/dag.go, and from    *)
(* the graph to what people look at: the tree of the command line and of   *)
(* the dashboard (server/handlers_tree.go) and the dashboard's graph       *)
(* (server/handlers_graph.go).                                             *)
(*                                                                         *)
(* Here Parents and Children are sequences, with the order and the         *)
(* repetitions of depends_on; module Dag, which the scheduler uses, has    *)
(* sets.  A row of the tree is [id, parent, depth, last], with parent ""   *)
(* for a root.  The characters a row is drawn with are left out.           *)
(***************************************************************************)
EXTENDS WorkflowChecks

Copies(deps, n) == Cardinality({k \in DOMAIN deps : deps[k] = n})

\* A child is appended once for each time it names the parent.
ChildrenOf(s, p) ==
    FlattenSeq([i \in DOMAIN s |-> [k \in 1..Copies(s[i].deps, p) |-> s[i].id]])

\* The children that a step lets go when Kahn's algorithm takes it out.
Freed(g, id, degree) ==
    SelectSeq(g.ids, LAMBDA c : Contains(g.children[id], c) /\ degree[c] = 0)

RECURSIVE topoSort(_, _, _, _)
topoSort(g, queue, degree, order) ==
    IF queue = <<>> THEN order
    ELSE LET id   == Head(queue)
             left == [c \in DOMAIN degree |-> degree[c] - Copies(g.children[id], c)]
         IN  topoSort(g, Tail(queue) \o Freed(g, id, left), left, Append(order, id))

Place(s, x) == CHOOSE i \in DOMAIN s : s[i] = x

validateGotosToItself(g) ==
    \A i \in DOMAIN g.steps : g.steps[i].goto # "" =>
        /\ Contains(g.ids, g.steps[i].goto)
        /\ Place(g.order, g.steps[i].goto) <= Place(g.order, g.steps[i].id)

validateGotos(g) ==
    \A i \in DOMAIN g.steps : g.steps[i].goto # "" =>
        /\ Contains(g.ids, g.steps[i].goto)
        /\ Place(g.order, g.steps[i].goto) < Place(g.order, g.steps[i].id)

\* The steps of an accepted workflow: their ids differ, their depends_on
\* name steps.  A dag without ok is the error BuildDAG returns.
BuildDAG(s) ==
    LET ids   == [i \in DOMAIN s |-> s[i].id]
        nodes == ToSet(ids)
        roots == SelectSeq(ids, LAMBDA n : s[Place(ids, n)].deps = <<>>)
        g     == [steps    |-> s, ids |-> ids, roots |-> roots,
                  parents  |-> [n \in nodes |-> s[Place(ids, n)].deps],
                  children |-> [n \in nodes |-> ChildrenOf(s, n)]]
        order == topoSort(g, roots, [n \in nodes |-> Len(g.parents[n])], <<>>)
        dag   == g @@ [order |-> order]
    IN  dag @@ [ok |-> Len(order) = Len(ids) /\ roots # <<>> /\ validateGotos(dag)]
-----------------------------------------------------------------------------
(* The tree *)

\* The calls of dfs over a list of nodes.
Calls(list, depth, parent) ==
    [i \in DOMAIN list |-> [id |-> list[i], parent |-> parent, depth |-> depth,
                            last |-> i = Len(list)]]

Shown(rows, id) == \E i \in DOMAIN rows : rows[i].id = id

At(rows, id) == CHOOSE i \in DOMAIN rows : rows[i].id = id

\* dfs, with the calls still to make as its stack.
RECURSIVE dfs(_, _, _)
dfs(g, calls, rows) ==
    IF calls = <<>> THEN rows
    ELSE LET c == Head(calls)
         IN  IF Shown(rows, c.id) THEN dfs(g, Tail(calls), rows)
             ELSE dfs(g, Calls(g.children[c.id], c.depth + 1, c.id) \o Tail(calls),
                      Append(rows, c))

Visited(g) == dfs(g, Calls(g.roots, 0, ""), <<>>)

RECURSIVE Reach(_, _)
Reach(g, from) ==
    LET more == from \cup UNION {ToSet(g.children[n]) : n \in from}
    IN  IF more = from THEN from ELSE Reach(g, more)

Joins(g, id) == Len(g.parents[id]) > 1

\* All parents of a step hang under one row of the tree.
Siblings(g, rows, id) ==
    \E p \in {r.parent : r \in ToSet(rows)} :
        \A q \in ToSet(g.parents[id]) : rows[At(rows, q)].parent = p

LastParent(g, rows, id) ==
    rows[Max({At(rows, q) : q \in ToSet(g.parents[id])})].id

\* The end of the block of rows that hang under row p.
BlockEnd(rows, p) ==
    Max({q \in p..Len(rows) : \A k \in (p + 1)..q : rows[k].depth > rows[p].depth})

\* The last child a block had is not the last any more.
Unlast(rows, p, q) ==
    LET kids == {k \in (p + 1)..q : rows[k].parent = rows[p].id}
    IN  IF kids = {} THEN rows ELSE [rows EXCEPT ![Max(kids)].last = FALSE]

\* Put a step and the others of desc after its last parent's block.
MoveBlock(g, rows, id, desc) ==
    LET rest == SelectSeq(rows, LAMBDA r : r.id \notin desc)
        sub  == SelectSeq(rows, LAMBDA r : r.id \in desc)
        p    == At(rest, LastParent(g, rows, id))
        q    == BlockEnd(rest, p)
        kept == Unlast(rest, p, q)
    IN  SubSeq(kept, 1, q)
        \o [sub EXCEPT ![At(sub, id)].parent = rest[p].id, ![At(sub, id)].last = TRUE]
        \o SubSeq(kept, q + 1, Len(kept))

MoveAlone(g, rows, id) == MoveBlock(g, rows, id, {id})

\* All that follows from a step goes with it.
Move(g, rows, id) == MoveBlock(g, rows, id, Reach(g, {id}))

\* Each round takes the first joining step that no round has looked at and
\* whose parents are siblings; the others it meets are not looked at again.
RECURSIVE resolveConvergent(_, _, _)
resolveConvergent(g, rows, processed) ==
    LET new   == {i \in DOMAIN rows : Joins(g, rows[i].id) /\ rows[i].id \notin processed}
        found == {i \in new : Siblings(g, rows, rows[i].id)}
        i     == Min(found)
    IN  IF found = {} THEN rows
        ELSE resolveConvergent(g, Move(g, rows, rows[i].id),
                               processed \cup {rows[j].id : j \in {j \in new : j <= i}})

\* A goto draws a bracket from its target's row to its own.
buildLoops(s, rows) ==
    {<<At(rows, g.goto), At(rows, g.id)>> :
        g \in {t \in ToSet(s) : Shown(rows, t.goto) /\ Shown(rows, t.id)}}

markLoopBodies(rows, loops) ==
    {rows[i].id : i \in UNION {l[1]..l[2] : l \in loops}}

buildTreeLines(w, g) ==
    LET rows == resolveConvergent(g, Visited(g), {})
    IN  [rows |-> rows, inLoop |-> markLoopBodies(rows, buildLoops(w.steps, rows))]

\* The walk of treePrefix and treeContinuation from a row up to a root: it
\* takes the row of each parent, which is a nil pointer if there is none.
RECURSIVE WalksUp(_, _, _)
WalksUp(rows, parent, d) ==
    d <= 0 \/ (Shown(rows, parent) /\ WalksUp(rows, rows[At(rows, parent)].parent, d - 1))
-----------------------------------------------------------------------------
(* The graph of the dashboard *)

\* From a goto's target along steps with a single child, to the goto.
RECURSIVE Chain(_, _, _, _)
Chain(g, goal, n, seen) ==
    IF n \in seen THEN seen
    ELSE IF n = goal \/ n \notin DOMAIN g.children THEN seen \cup {n}
    ELSE IF Len(g.children[n]) # 1 THEN seen \cup {n}
    ELSE Chain(g, goal, g.children[n][1], seen \cup {n})

buildLoopBodies(w, g) ==
    UNION {Chain(g, s.id, s.goto, {}) : s \in {t \in ToSet(w.steps) : t.goto # ""}}

buildStepEdges(s) ==
    [i \in DOMAIN s.deps |-> <<s.deps[i], s.id>>]
    \o (IF s.goto # "" THEN <<<<s.id, s.goto, "goto">>>> ELSE <<>>)

buildStageInfos(w) ==
    [i \in DOMAIN w.stages |->
        SelectSeq(Ids(w), LAMBDA n : w.steps[Place(Ids(w), n)].stage = w.stages[i])]

\* The walk follows the graph, and each step it meets is looked up in the
\* workflow; nodes in the order of the file, edges in that of the walk.
buildGraph(w, g) ==
    LET walked == Visited(g)
        own    == SelectSeq(Ids(w), LAMBDA n : Shown(walked, n))
    IN  [nodes  |-> [i \in DOMAIN own |-> walked[At(walked, own[i])]],
         inLoop |-> buildLoopBodies(w, g),
         edges  |-> FlattenSeq([i \in DOMAIN walked |->
                       buildStepEdges(w.steps[Place(Ids(w), walked[i].id)])]),
         stages |-> buildStageInfos(w),
         tree   |-> buildTreeLines(w, g)]
=============================================================================
