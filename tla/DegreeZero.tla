------------------------------ MODULE DegreeZero ------------------------------
(***************************************************************************)
(* GetDegreeZero of conflictGraph/directedGraph.go: the layers of the      *)
(* conflict graph, edges going from earlier to later transactions.  Each   *)
(* layer runs in parallel, one layer after the other.                      *)
(***************************************************************************)
EXTENDS ConflictGraph, Sequences

VARIABLES
    degree,         \* Vertex.Degree, the in-degree
    ans,            \* the layers
    edges,          \* the edges out of the last layer still to be taken
    newDegreeZero

layerVars == <<degree, ans, edges, newDegreeZero>>

InDegree(v) == Cardinality({u \in Vertices : <<u, v>> \in DirectedEdges})
OutEdges(layer) == {e \in DirectedEdges : e[1] \in layer}

Start ==
    /\ degree = [v \in Vertices |-> InDegree(v)]
    /\ newDegreeZero = {}
    /\ ans = <<{v \in Vertices : InDegree(v) = 0}>>
    /\ edges = OutEdges(ans[1])

\* Mutants: the degree is tested before it is lowered, or not at all.
TakeEdgeTestsEarly(e) ==
    /\ e \in edges
    /\ edges' = edges \ {e}
    /\ degree' = [degree EXCEPT ![e[2]] = @ - 1]
    /\ newDegreeZero' = IF degree[e[2]] = 0 THEN newDegreeZero \cup {e[2]} ELSE newDegreeZero
    /\ UNCHANGED ans
TakeEdgeUntested(e) ==
    /\ e \in edges
    /\ edges' = edges \ {e}
    /\ degree' = [degree EXCEPT ![e[2]] = @ - 1]
    /\ newDegreeZero' = newDegreeZero \cup {e[2]}
    /\ UNCHANGED ans

\* One neighbor of one vertex of the layer loses an edge.
TakeEdge(e) ==
    /\ e \in edges
    /\ edges' = edges \ {e}
    /\ degree' = [degree EXCEPT ![e[2]] = @ - 1]
    /\ newDegreeZero' = IF degree[e[2]] = 1 THEN newDegreeZero \cup {e[2]} ELSE newDegreeZero
    /\ UNCHANGED ans

NextLayer ==
    /\ edges = {} /\ newDegreeZero # {}
    /\ ans' = Append(ans, newDegreeZero)
    /\ edges' = OutEdges(newDegreeZero)
    /\ newDegreeZero' = {}
    /\ UNCHANGED degree

Next == (\E e \in DirectedEdges : TakeEdge(e)) \/ NextLayer

Done == edges = {} /\ newDegreeZero = {}
-----------------------------------------------------------------------------

Layers == {i \in 1..Len(ans) : ans[i] # {}}

\* A transaction's layer comes after those of all the earlier transactions it
\* conflicts with: two of one layer never conflict, and running the layers one
\* after the other keeps the block's order wherever it matters.
LayersKeepOrder ==
    \A j \in Layers : \A v \in ans[j] : \A u \in Vertices :
        u < v /\ Interfere(u, v) => \E i \in 1..(j - 1) : u \in ans[i]

\* No transaction waits longer than it must: one outside the first layer
\* conflicts with one of the layer just before.
LayersTight ==
    \A j \in Layers \ {1} : \A v \in ans[j] : \E u \in ans[j - 1] : u < v /\ Interfere(u, v)

\* Every predicted transaction is in exactly one layer in the end, and in at
\* most one before.
LayersPartition ==
    /\ \A i, j \in Layers : i # j => ans[i] \cap ans[j] = {}
    /\ Done => UNION {ans[i] : i \in Layers} = Vertices
=============================================================================
