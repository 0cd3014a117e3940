----------------------------- MODULE GroupingInv -----------------------------
(***************************************************************************)
(* The inductive invariants of the three searches: for the connected       *)
(* components, for the layers, and for the independent sets.               *)
(***************************************************************************)
EXTENDS Grouping

\* No part of a set of vertices is without an edge to the rest of it.
Connected(set) ==
    \A part \in SUBSET set : part # {} /\ part # set =>
        \E t \in part, u \in set \ part : Conflict(t, u)

\* A component has all the neighbors of its vertices, but for those of a vertex
\* whose call of dfs is open.
Closed(set, open) == \A v \in set \ open : \A u \in Vertices \ set : ~Conflict(v, u)

ComponentsInv ==
    /\ visited \subseteq Vertices /\ stack \in Seq(component)
    /\ visited = component \cup UNION components
    /\ \A g \in components : g # {} /\ g \cap component = {} /\ Closed(g, {}) /\ Connected(g)
    /\ \A g, h \in components : g # h => g \cap h = {}
    /\ Closed(component, {stack[i] : i \in 1..Len(stack)}) /\ Connected(component)

Placed == UNION {ans[i] : i \in 1..Len(ans)}

\* Where the edges to v come from, and those of them still to be taken.
Earlier(v) == {u \in Vertices : u < v /\ Conflict(u, v)}
Waiting(v) == {u \in Earlier(v) : u \in Placed => <<u, v>> \in edges}

\* A vertex is placed when all its predecessors are, in a layer before; its
\* degree counts the edges to it still to be taken.
LayersInv ==
    /\ ans \in Seq(SUBSET Vertices) /\ Len(ans) > 0
    /\ edges \subseteq DZ!OutEdges(ans[Len(ans)]) /\ newDegreeZero \subseteq Vertices \ Placed
    /\ degree \in [Vertices -> Nat] /\ \A v \in Vertices : degree[v] = Cardinality(Waiting(v))
    /\ \A v \in Vertices : degree[v] = 0 <=> v \in Placed \cup newDegreeZero
    /\ \A i, j \in 1..Len(ans) : i # j => ans[i] \cap ans[j] = {}
    /\ \A j \in 1..Len(ans) : \A v \in ans[j] :
        /\ \A u \in Earlier(v) : \E i \in 1..(j - 1) : u \in ans[i]
        /\ j > 1 => ans[j - 1] \cap Earlier(v) # {}
    /\ \A v \in newDegreeZero : ans[Len(ans)] \cap Earlier(v) # {}

SearchInv == ComponentsInv /\ LayersInv

-----------------------------------------------------------------------------
(* The search for independent sets.                                         *)

Fields == {"vertices", "adjacent", "degree", "deleted", "set", "one", "two", "more", "stack", "pending"}

Present(g) == g.vertices \ g.deleted
OfDegree(g, n) == {v \in Present(g) : g.degree[v] = n}

\* The conflicts of what is left are among the edges; paths have added others.
EdgesInv(g) ==
    /\ g.adjacent \in [g.vertices -> SUBSET g.vertices]
    /\ \A v \in g.vertices : v \notin g.adjacent[v] /\ Neighbors(v) \cap g.vertices \subseteq g.adjacent[v]
    /\ \A v, u \in g.vertices : u \in g.adjacent[v] => v \in g.adjacent[u]
    /\ g.deleted \subseteq g.vertices /\ g.set \subseteq g.vertices /\ g.stack \in Seq(g.vertices)

Independent(g) == \A v \in g.set : g.adjacent[v] \cap g.set = {}

\* Vertices of degree two that no bucket holds.  They are come to from others:
\* there is no cycle of them alone.
Forgotten(g) == OfDegree(g, 2) \ (g.two \cup g.more)
Reached(g, set) == \A part \in SUBSET set : part # {} => \E v \in part : ~(MIS!Live(g, v) \subseteq part)

\* The degrees count the live neighbors.  The buckets hold live vertices, of
\* the right degree in the first two; only there may some be missing.  What is
\* in the set has no live neighbor.
Counted(g) ==
    /\ EdgesInv(g) /\ g.pending = {}
    /\ \A v \in Present(g) : g.degree[v] = Cardinality(MIS!Live(g, v))
    /\ g.one \subseteq OfDegree(g, 1) /\ g.two \subseteq OfDegree(g, 2) /\ g.more \subseteq Present(g)
    /\ \A v \in Present(g) : g.degree[v] > 2 => v \in g.more
    /\ OfDegree(g, 0) \subseteq g.set
    /\ \A v \in g.set : MIS!Live(g, v) = {}
    /\ Independent(g)

\* Between the reductions none is missing from the first bucket, and those
\* missing from the second will be reached.
Fit(g) ==
    /\ Counted(g) /\ OfDegree(g, 1) \subseteq g.one /\ Reached(g, Forgotten(g))
    /\ g.vertices # {} => g.set \cup Present(g) # {}

\* A deleted vertex in the third bucket, which never leaves it.
Stays(g, v) ==
    v \in g.vertices \cap g.deleted /\ v \in g.more \ (g.two \cup g.pending) /\ g.degree[v] \in 0..2

Stuck(g) == \E v \in g.vertices : Stays(g, v)

Shaped(g) == DOMAIN g = Fields /\ g.vertices \subseteq Vertices /\ DOMAIN g.degree = g.vertices

\* Either the reductions do as they should, or they never end.
MisInv ==
    /\ Shaped(solution)
    /\ step \in {"reduce", "pop", "done", "panic"}
    /\ step = "reduce" => Fit(solution) \/ Stuck(solution)
    /\ step = "panic" => Stuck(solution)
    /\ step # "reduce" => solution.pending = {}
    /\ step = "pop" => /\ EdgesInv(solution) /\ Independent(solution)
                       /\ solution.vertices # {} => solution.set # {}
    /\ step = "done" <=> rounds # <<>> /\ solution.vertices = {}

\* The rounds so far, and what is left for the others.
RoundsInv ==
    /\ rounds \in Seq(SUBSET Vertices)
    /\ Vertices = solution.vertices \cup UNION {rounds[i] : i \in 1..Len(rounds)}
    /\ \A i \in 1..Len(rounds) :
        /\ rounds[i] \cap solution.vertices = {}
        /\ \A v \in rounds[i] : Neighbors(v) \cap rounds[i] = {}
        /\ Vertices # {} => rounds[i] # {}
    /\ \A i, j \in 1..Len(rounds) : i # j => rounds[i] \cap rounds[j] = {}

MisRoundsInv == MisInv /\ RoundsInv
=============================================================================
