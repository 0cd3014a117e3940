------------------------------- MODULE Grouping -------------------------------
(***************************************************************************)
(* GenerateTxAndRWSetGroups, GenerateDegreeZeroGroups and                  *)
(* GenerateMISGroups of utils/execute_env.go: a driver turns the           *)
(* predictions of a block into groups by one of the methods.               *)
(***************************************************************************)
EXTENDS ConflictGraph, Sequences

CONSTANTS
    Methods,        \* of "ConnectedComponents", "DegreeZero", "MIS"
    MaxUint

VARIABLES
    method,         \* which driver of geth.go
    visited, stack, component, components,
    degree, ans, edges, newDegreeZero,
    solution, rounds, step

ASSUME GroupingAssumption == MaxUint \in Nat /\ Cardinality(Txs) <= MaxUint

CC == INSTANCE ConnectedComponents
DZ == INSTANCE DegreeZero
MIS == INSTANCE Mis

componentVars == <<visited, stack, component, components>>
layerVars == <<degree, ans, edges, newDegreeZero>>
misVars == <<solution, rounds, step>>
vars == <<predictions, method, componentVars, layerVars, misVars>>

Init ==
    /\ GraphInit
    /\ method \in Methods
    /\ CC!Start /\ DZ!Start /\ MIS!Start

Components ==
    /\ method = "ConnectedComponents" /\ CC!Next
    /\ UNCHANGED <<predictions, method, layerVars, misVars>>

DegreeZeroLayers ==
    /\ method = "DegreeZero" /\ DZ!Next
    /\ UNCHANGED <<predictions, method, componentVars, misVars>>

IndependentSets ==
    /\ method = "MIS" /\ MIS!Next
    /\ UNCHANGED <<predictions, method, componentVars, layerVars>>

Done ==
    \/ method = "ConnectedComponents" /\ CC!Done
    \/ method = "DegreeZero" /\ DZ!Done
    \/ method = "MIS" /\ MIS!Done

Grouped == Done /\ UNCHANGED vars

Next == Components \/ DegreeZeroLayers \/ IndependentSets \/ Grouped

\* Sequential loops, each in the thread of a driver: they go on as long as they
\* can.
Spec == Init /\ [][Next]_vars /\ WF_vars(Components) /\ WF_vars(DegreeZeroLayers)
MisSpec == Spec /\ WF_vars(IndependentSets)
-----------------------------------------------------------------------------

GroupsAreComponents == CC!GroupsAreComponents
GroupsPartition == CC!GroupsPartition
LayersKeepOrder == DZ!LayersKeepOrder
LayersTight == DZ!LayersTight
LayersPartition == DZ!LayersPartition
RoundsIndependent == MIS!RoundsIndependent
RoundsPartition == MIS!RoundsPartition
RoundsNonempty == MIS!RoundsNonempty
MisNeverPanics == MIS!MisNeverPanics

\* The search for components and the layers come to an end, whatever the
\* conflicts.
Ends == <>(Done \/ method = "MIS")

\* utils/mis.go:8 calls solveMISInTurn an algorithm, and the loop of
\* mis/mis_test.go:73 runs it until no vertex is left: it comes to an end.  A
\* path cut out between two neighbors leaves these in the wrong bucket, and a
\* vertex that is deleted already may then be deleted again and again.
MisEnds == <>(Done \/ method # "MIS")
=============================================================================
