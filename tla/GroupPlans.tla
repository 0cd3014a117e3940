----------------------------- MODULE GroupPlans ------------------------------
(***************************************************************************)
(* The groups a driver takes from the conflict graph, and the rounds it    *)
(* runs them in: what module Grouping shows the three methods of the code  *)
(* to produce.                                                             *)
(***************************************************************************)
EXTENDS ConflictGraph, FiniteSetsExt

CONSTANT
    Methods

ASSUME MethodsAssumption == Methods \subseteq {"ConnectedComponents", "DegreeZero", "MIS"}

\* GenerateTxAndRWSetGroups: one round, of all the components.
Component(v) ==
    LET Closed(part) == \A u \in part : Neighbors(u) \subseteq part
    IN  {u \in Vertices : \A part \in SUBSET Vertices : v \in part /\ Closed(part) => u \in part}

ComponentPlans == {<<{Component(v) : v \in Vertices}>>}

\* Every transaction a group of its own, in the round given for it.
Singles(roundOf, last) == [i \in 1..last |-> {{v} : v \in {u \in Vertices : roundOf[u] = i}}]

\* GenerateDegreeZeroGroups: each in the layer after its latest predecessor's.
Layer[v \in Txs] ==
    1 + Max({0} \cup {Layer[u] : u \in {w \in Txs : w < v /\ <<w, v>> \in DirectedEdges}})

LayerPlans == {Singles(Layer, Max({1} \cup {Layer[v] : v \in Vertices}))}

\* GenerateMISGroups: rounds in which nothing conflicts.
RoundPlans ==
    LET Independent(roundOf) == \A e \in DirectedEdges : roundOf[e[1]] # roundOf[e[2]]
        Assignments(last) ==
            {roundOf \in [Vertices -> 1..last] :
                Independent(roundOf) /\ \A i \in 1..last : \E v \in Vertices : roundOf[v] = i}
    IN  UNION {{Singles(roundOf, last) : roundOf \in Assignments(last)} : last \in 0..Cardinality(Vertices)}

\* A plan is a sequence of rounds, a round a set of groups.
Plans(method) ==
    CASE method = "ConnectedComponents" -> ComponentPlans
      [] method = "DegreeZero" -> LayerPlans
      [] OTHER -> RoundPlans

\* What the grouping promises of some of the rounds, from which everything else
\* follows: each vertex is in one group of one round, the groups of a round do
\* not interfere, and where the block's order is to be kept, transactions that
\* interfere are in one group or in rounds in that order.
GoodPlan(p, indices, method) ==
    /\ \A i \in indices : \A g \in p[i] : g \subseteq Vertices
    /\ \A v \in Vertices : \E i \in indices : \E g \in p[i] : v \in g
    /\ \A i, j \in indices : \A g \in p[i], h \in p[j] : i # j \/ g # h => g \cap h = {}
    /\ \A i \in indices : \A g, h \in p[i] : g # h => \A t \in g, u \in h : ~Interfere(t, u)
    /\ method = "ConnectedComponents" => \A i, j \in indices : i = j
    /\ method # "ConnectedComponents" => \A i \in indices : \A g \in p[i] : \A t \in g : g = {t}
    /\ method = "DegreeZero" =>
        \A i, j \in indices : \A t, u \in Vertices :
            {t} \in p[i] /\ {u} \in p[j] /\ Interfere(t, u) /\ t < u => i < j
=============================================================================
