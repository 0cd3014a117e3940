---------------------------- MODULE ConflictGraph ----------------------------
(***************************************************************************)
(* The conflict graph of a block's predicted RW sets: generateUndiGraph    *)
(* and generateDiGraph of utils/execute_env.go, HasConflict of             *)
(* accesslist/rw_accesslist.go.                                            *)
(***************************************************************************)
EXTENDS Integers, FiniteSets

CONSTANTS
    Txs,            \* the transactions of the block, by index
    Predictions,    \* the blocks: what may be predicted, tx -> [reads, writes]
    NoPrediction    \* nil: the transaction could not be predicted

ASSUME ConflictGraphAssumption ==
    Txs \subseteq Nat /\ IsFiniteSet(Txs) /\ \A block \in Predictions : DOMAIN block = Txs

VARIABLE predictions

\* Mutants: reads are overlooked; two reads conflict.
OverlooksReads(rw, other) == rw.writes \cap other.writes # {}
ReadsConflict(rw, other) == (rw.reads \cup rw.writes) \cap (other.writes \cup other.reads) # {}

HasConflict(rw, other) ==
    \/ rw.reads \cap other.writes # {}
    \/ rw.writes \cap (other.writes \cup other.reads) # {}

\* A transaction without a prediction is no vertex.
Vertices == {t \in Txs : predictions[t] # NoPrediction}

Conflict(i, j) == HasConflict(predictions[i], predictions[j])

\* AddEdge is called for i < j: to both adjacency lists of the undirected
\* graph, from the earlier to the later one in the directed graph.
DirectedEdges == {e \in Vertices \X Vertices : e[1] < e[2] /\ Conflict(e[1], e[2])}
Neighbors(v) == {u \in Vertices : <<u, v>> \in DirectedEdges \/ <<v, u>> \in DirectedEdges}

\* What the groups have to keep apart, or in order: two transactions of which
\* one is predicted to write a key that the other is predicted to touch.
Interfere(t, u) ==
    LET Touched(rw) == rw.reads \cup rw.writes
    IN  \E k \in Touched(predictions[t]) \cap Touched(predictions[u]) :
            k \in predictions[t].writes \cup predictions[u].writes

GraphInit == predictions \in Predictions
=============================================================================
