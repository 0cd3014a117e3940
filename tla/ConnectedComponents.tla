------------------------- MODULE ConnectedComponents -------------------------
(***************************************************************************)
(* GetConnectedComponents and dfs of conflictGraph/undirectGraph.go, with  *)
(* the recursion of dfs as a stack; Go ranges over the vertices in any     *)
(* order.  No vertex is deleted when GenerateTxAndRWSetGroups calls it.    *)
(***************************************************************************)
EXTENDS ConflictGraph, Sequences

VARIABLES
    visited,
    stack,          \* the vertices whose dfs calls are open
    component,      \* the component being built
    components      \* the finished ones

componentVars == <<visited, stack, component, components>>

Start == visited = {} /\ stack = <<>> /\ component = {} /\ components = {}

\* dfs(v) is called.
Visit(v) ==
    /\ visited' = visited \cup {v}
    /\ component' = component \cup {v}
    /\ stack' = Append(stack, v)

NewComponent ==
    /\ stack = <<>> /\ component = {}
    /\ \E v \in Vertices \ visited : Visit(v)
    /\ UNCHANGED components

\* The innermost call of dfs goes on to a neighbor not visited yet ...
Unvisited == Neighbors(stack[Len(stack)]) \ visited

Descend ==
    /\ stack # <<>>
    /\ \E u \in Unvisited : Visit(u)
    /\ UNCHANGED components

\* ... and returns when there is none.
Return ==
    /\ stack # <<>> /\ Unvisited = {}
    /\ stack' = SubSeq(stack, 1, Len(stack) - 1)
    /\ UNCHANGED <<visited, component, components>>

\* Mutants: the finished component is not emptied; its vertices are not marked
\* for good.
EndComponentKeeps ==
    /\ stack = <<>> /\ component # {}
    /\ components' = components \cup {component}
    /\ UNCHANGED <<visited, stack, component>>
EndComponentUnmarks ==
    /\ stack = <<>> /\ component # {}
    /\ components' = components \cup {component}
    /\ component' = {} /\ visited' = visited \ component
    /\ UNCHANGED stack

EndComponent ==
    /\ stack = <<>> /\ component # {}
    /\ components' = components \cup {component}
    /\ component' = {}
    /\ UNCHANGED <<visited, stack>>

Next == NewComponent \/ Descend \/ Return \/ EndComponent

Done == stack = <<>> /\ component = {} /\ Vertices \subseteq visited
-----------------------------------------------------------------------------

\* Transactions of different groups do not conflict, so that the groups may run
\* in parallel; and no group could be split, so that nothing waits in vain.
GroupsAreComponents ==
    Done =>
        /\ \A g, h \in components : g # h => \A t \in g, u \in h : ~Interfere(t, u)
        /\ \A g \in components : \A part \in SUBSET g :
            part # {} /\ part # g => \E t \in part, u \in g \ part : Interfere(t, u)

\* Every predicted transaction is in exactly one group, at every moment in at
\* most one of the groups built so far.
GroupsPartition ==
    /\ \A g \in components : g # {} /\ g \cap component = {}
    /\ \A g, h \in components : g # h => g \cap h = {}
    /\ visited = component \cup UNION components
    /\ Done => UNION components = Vertices
=============================================================================
