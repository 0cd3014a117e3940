---------------------------- MODULE GroupingProofs ----------------------------
(***************************************************************************)
(* The theorems about the conflict graph's connected components, its       *)
(* layers, and then the rounds of independent sets: the reductions either  *)
(* keep the degrees and the buckets right, or have deleted a vertex that   *)
(* never leaves its bucket, and then no round is ever returned.            *)
(***************************************************************************)
EXTENDS GroupingInv, FiniteSetTheorems, SequenceTheorems, TLAPS

(***************************************************************************)
(* The graph.                                                              *)
(***************************************************************************)

LEMMA VerticesAreNumbers == Vertices \subseteq Txs /\ Vertices \subseteq Nat /\ IsFiniteSet(Vertices)
  <1>1. Vertices \subseteq Txs
    BY DEF Vertices
  <1> QED
    BY <1>1, ConflictGraphAssumption, FS_Subset

\* The test of the code is symmetric, and finds exactly the transactions that
\* interfere.
LEMMA ConflictIsInterference ==
    ASSUME NEW t, NEW u
    PROVE  /\ Conflict(t, u) <=> Conflict(u, t)
           /\ Interfere(t, u) <=> Conflict(t, u)
  BY DEF Conflict, HasConflict, Interfere

\* Two conflicting transactions have an edge from the earlier one.
LEMMA EdgesAreConflicts ==
    ASSUME NEW t \in Vertices, NEW u \in Vertices
    PROVE  /\ <<t, u>> \in DirectedEdges <=> t < u /\ Conflict(t, u)
           /\ t # u => (u \in Neighbors(t) <=> Conflict(t, u))
  <1>1. t \in Nat /\ u \in Nat
    BY VerticesAreNumbers
  <1>2. /\ <<t, u>> \in DirectedEdges <=> t < u /\ Conflict(t, u)
        /\ <<u, t>> \in DirectedEdges <=> u < t /\ Conflict(u, t)
    BY DEF DirectedEdges
  <1> QED
    BY <1>1, <1>2, ConflictIsInterference DEF Neighbors

\* The block is given once and for all.
LEMMA SameGraph ==
    ASSUME predictions' = predictions
    PROVE  /\ Vertices' = Vertices /\ DirectedEdges' = DirectedEdges
           /\ \A t, u : Conflict(t, u)' <=> Conflict(t, u)
  BY DEF Vertices, DirectedEdges, Conflict

\* The instances speak of the same graph.
LEMMA InstanceGraphs ==
    /\ CC!Vertices = Vertices /\ \A v : CC!Neighbors(v) = Neighbors(v)
    /\ DZ!Vertices = Vertices /\ DZ!DirectedEdges = DirectedEdges
    /\ \A t, u : /\ CC!Interfere(t, u) <=> Interfere(t, u)
                 /\ DZ!Interfere(t, u) <=> Interfere(t, u)
  BY DEF CC!Vertices, Vertices, CC!Neighbors, Neighbors, CC!DirectedEdges, DirectedEdges,
      CC!Conflict, Conflict, CC!HasConflict, HasConflict, DZ!Vertices, DZ!DirectedEdges,
      DZ!Conflict, DZ!HasConflict, CC!Interfere, DZ!Interfere, Interfere

(***************************************************************************)
(* The connected components.                                               *)
(***************************************************************************)

\* A vertex with a neighbor in a connected set extends it.
LEMMA ConnectedExtends ==
    ASSUME NEW set, Connected(set), NEW v, v \notin set,
           set = {} \/ \E w \in set : Conflict(w, v)
    PROVE  Connected(set \cup {v})
  <1> SUFFICES ASSUME NEW part \in SUBSET (set \cup {v}), part # {}, part # set \cup {v}
               PROVE  \E t \in part, u \in (set \cup {v}) \ part : Conflict(t, u)
    BY DEF Connected
  <1>1. PICK w \in set : Conflict(w, v)
    OBVIOUS
  <1>2. Conflict(v, w)
    BY <1>1, ConflictIsInterference
  <1>3. CASE part \cap set = {}
    BY <1>1, <1>2, <1>3
  <1>4. CASE part \cap set = set
    BY <1>1, <1>4
  <1>5. CASE part \cap set # {} /\ part \cap set # set
    <2>1. PICK t \in part \cap set, u \in set \ (part \cap set) : Conflict(t, u)
      BY <1>5 DEF Connected
    <2> QED
      BY <2>1
  <1> QED
    BY <1>3, <1>4, <1>5

\* What holds of the components that are finished stays true.
Finished(sets) ==
    /\ \A g \in sets : g # {} /\ Closed(g, {}) /\ Connected(g)
    /\ \A g, h \in sets : g # h => g \cap h = {}

LEMMA FinishedStay ==
    ASSUME predictions' = predictions, NEW sets, Finished(sets)
    PROVE  Finished(sets)'
  BY SameGraph DEF Finished, Closed, Connected

LEMMA VisitKeeps ==
    ASSUME ComponentsInv, predictions' = predictions, components' = components,
           NEW v \in Vertices \ visited, CC!Visit(v),
           component = {} \/ \E w \in component : Conflict(w, v)
    PROVE  ComponentsInv'
  <1>1. /\ visited' = visited \cup {v} /\ component' = component \cup {v}
        /\ stack' = Append(stack, v) /\ stack \in Seq(component)
    BY DEF CC!Visit, ComponentsInv
  <1>2. stack' \in Seq(component') /\ Len(stack') = Len(stack) + 1 /\ Len(stack) \in Nat
        /\ \A i \in 1..Len(stack) : stack'[i] = stack[i]
        /\ stack'[Len(stack')] = v
    BY <1>1
  <1>3. visited' \subseteq Vertices' /\ visited' = component' \cup UNION components'
    BY <1>1, SameGraph DEF ComponentsInv
  <1>4. Finished(components)'
    BY FinishedStay DEF ComponentsInv, Finished
  <1>5. \A g \in components : g \cap component' = {}
    BY <1>1 DEF ComponentsInv
  <1>6. Closed(component, {stack[i] : i \in 1..Len(stack)})'
    <2> SUFFICES ASSUME NEW w \in component', \A i \in 1..Len(stack') : stack'[i] # w,
                        NEW u \in Vertices \ component'
                 PROVE  ~Conflict(w, u)
      BY SameGraph DEF Closed
    <2>1. w \in component /\ \A i \in 1..Len(stack) : stack[i] # w
      BY <1>1, <1>2
    <2> QED
      BY <1>1, <2>1 DEF ComponentsInv, Closed
  <1>7. Connected(component)'
    <2>1. v \notin component /\ Connected(component)
      BY DEF ComponentsInv
    <2>2. Connected(component \cup {v})
      BY <2>1, ConnectedExtends
    <2> QED
      BY <1>1, <2>2, SameGraph DEF Connected
  <1> QED
    BY <1>2, <1>3, <1>4, <1>5, <1>6, <1>7 DEF ComponentsInv, Finished

LEMMA NewComponentKeeps ==
    ASSUME ComponentsInv, predictions' = predictions, CC!NewComponent
    PROVE  ComponentsInv'
  BY VisitKeeps, InstanceGraphs DEF CC!NewComponent

LEMMA DescendKeeps ==
    ASSUME ComponentsInv, predictions' = predictions, CC!Descend
    PROVE  ComponentsInv'
  <1>1. PICK u \in CC!Unvisited : CC!Visit(u)
    BY DEF CC!Descend
  <1>2. PICK top : top = stack[Len(stack)]
    OBVIOUS
  <1>3. top \in component
    BY <1>2 DEF ComponentsInv, CC!Descend
  <1>4. u \in Neighbors(top) /\ u \notin visited /\ u \in Vertices
    BY <1>2, InstanceGraphs DEF CC!Unvisited, Neighbors
  <1>5. Conflict(top, u)
    <2>1. component \subseteq visited /\ visited \subseteq Vertices
      BY DEF ComponentsInv
    <2>2. top \in Vertices /\ top # u
      BY <1>3, <1>4, <2>1
    <2> QED
      BY <1>4, <2>2, EdgesAreConflicts
  <1> QED
    BY <1>1, <1>3, <1>4, <1>5, VisitKeeps DEF CC!Descend

\* A stack without its top.
LEMMA Popped ==
    ASSUME NEW S, NEW s \in Seq(S), s # <<>>, NEW n, n = Len(s), NEW rest, rest = SubSeq(s, 1, n - 1)
    PROVE  /\ n \in Nat \ {0} /\ s[n] \in S
           /\ rest \in Seq(S) /\ Len(rest) = n - 1 /\ \A i \in 1..(n - 1) : rest[i] = s[i]
  <1>1. n \in Nat /\ n # 0 /\ s[n] \in S
    OBVIOUS
  <1>2. \A i \in 1..(n - 1) : s[i] \in S
    BY <1>1
  <1>3. n - 1 \in Nat /\ Len(rest) = n - 1 /\ \A i \in 1..(n - 1) : rest[i] = s[i]
    BY <1>1
  <1>4. rest = [i \in 1..(n - 1) |-> s[i]]
    BY <1>1
  <1> QED
    BY <1>1, <1>2, <1>3, <1>4

LEMMA ReturnKeeps ==
    ASSUME ComponentsInv, predictions' = predictions, CC!Return
    PROVE  ComponentsInv'
  <1>1. PICK top : top = stack[Len(stack)]
    OBVIOUS
  <1>2. PICK n : n = Len(stack)
    OBVIOUS
  <1>3. /\ UNCHANGED <<visited, component, components>> /\ stack' = SubSeq(stack, 1, n - 1)
        /\ stack \in Seq(component) /\ stack # <<>> /\ Neighbors(top) \subseteq visited
    BY <1>1, <1>2, InstanceGraphs DEF CC!Return, CC!Unvisited, ComponentsInv
  <1>4. /\ n \in Nat \ {0} /\ Len(stack') = n - 1 /\ stack' \in Seq(component)
        /\ \A i \in 1..(n - 1) : stack'[i] = stack[i]
        /\ top \in component
    <2>1. PICK rest, S, s : rest = stack' /\ S = component /\ s = stack
      OBVIOUS
    <2>2. /\ n \in Nat \ {0} /\ s[n] \in S
          /\ rest \in Seq(S) /\ Len(rest) = n - 1 /\ \A i \in 1..(n - 1) : rest[i] = s[i]
      <3>1. s \in Seq(S) /\ s # <<>> /\ n = Len(s) /\ rest = SubSeq(s, 1, n - 1)
        BY <1>2, <1>3, <2>1
      <3> QED
        BY <3>1, Popped
    <2> QED
      BY <1>1, <1>2, <2>1, <2>2
  <1>5. Finished(components)'
    BY <1>3, FinishedStay DEF ComponentsInv, Finished
  <1>6. Closed(component, {stack[i] : i \in 1..Len(stack)})'
    <2> SUFFICES ASSUME NEW w \in component, \A i \in 1..(n - 1) : stack[i] # w,
                        NEW u \in Vertices \ component, Conflict(w, u)
                 PROVE  FALSE
      BY <1>3, <1>4, SameGraph DEF Closed
    <2>1. CASE w = top
      <3>1. u \in visited
        BY <1>3, <1>4, <2>1, EdgesAreConflicts DEF ComponentsInv
      <3>2. PICK g \in components : u \in g
        BY <3>1 DEF ComponentsInv
      <3>3. w \in Vertices \ g /\ Closed(g, {})
        BY DEF ComponentsInv
      <3> QED
        BY <3>2, <3>3, ConflictIsInterference DEF Closed
    <2>2. CASE w # top
      <3>1. \A i \in 1..Len(stack) : stack[i] # w
        BY <1>1, <1>2, <1>4, <2>2
      <3> QED
        BY <3>1 DEF ComponentsInv, Closed
    <2> QED
      BY <2>1, <2>2
  <1>7. Connected(component)'
    BY <1>3, SameGraph DEF Connected, ComponentsInv
  <1> QED
    BY <1>3, <1>4, <1>5, <1>6, <1>7, SameGraph DEF ComponentsInv, Finished

LEMMA EndComponentKeeps ==
    ASSUME ComponentsInv, predictions' = predictions, CC!EndComponent
    PROVE  ComponentsInv'
  <1>1. /\ stack = <<>> /\ component # {} /\ components' = components \cup {component}
        /\ component' = {} /\ UNCHANGED <<visited, stack>>
    BY DEF CC!EndComponent
  <1>2. Closed(component, {})
    BY <1>1 DEF ComponentsInv, Closed
  <1>3. Finished(components \cup {component})
    BY <1>1, <1>2 DEF ComponentsInv, Finished
  <1>4. PICK sets : sets = components \cup {component}
    OBVIOUS
  <1>5. Finished(sets)'
    BY <1>3, <1>4, FinishedStay
  <1>6. /\ visited' \subseteq Vertices' /\ visited' = component' \cup UNION components'
        /\ stack' \in Seq(component')
    BY <1>1, SameGraph DEF ComponentsInv
  <1>7. Closed(component, {stack[i] : i \in 1..Len(stack)})' /\ Connected(component)'
    BY <1>1 DEF Closed, Connected
  <1> QED
    BY <1>1, <1>4, <1>5, <1>6, <1>7 DEF ComponentsInv, Finished

LEMMA ComponentsStep ==
    ASSUME ComponentsInv, [Next]_vars
    PROVE  ComponentsInv'
  <1>1. ASSUME CC!Next, predictions' = predictions
        PROVE  ComponentsInv'
    BY <1>1, NewComponentKeeps, DescendKeeps, ReturnKeeps, EndComponentKeeps DEF CC!Next
  <1>2. ASSUME UNCHANGED <<predictions, componentVars>>
        PROVE  ComponentsInv'
    BY <1>2, SameGraph DEF componentVars, ComponentsInv, Closed, Connected
  <1> QED
    BY <1>1, <1>2 DEF Next, Components, DegreeZeroLayers, IndependentSets, Grouped, vars

THEOREM ComponentsAreSound == Spec => []ComponentsInv
  <1>1. Init => ComponentsInv
    BY DEF Init, CC!Start, ComponentsInv, Closed, Connected
  <1> QED
    BY <1>1, ComponentsStep, PTL DEF Spec

\* Every predicted transaction is in exactly one group.
THEOREM GroupsArePartition == Spec => []GroupsPartition
  <1>1. ComponentsInv => GroupsPartition
    BY InstanceGraphs DEF ComponentsInv, GroupsPartition, CC!GroupsPartition, CC!Done
  <1> QED
    BY <1>1, ComponentsAreSound, PTL

\* Transactions of two groups do not conflict, and no group could be split.
THEOREM GroupsAreTheComponents == Spec => []GroupsAreComponents
  <1>1. ASSUME ComponentsInv, NEW g \in components
        PROVE  /\ \A h \in components : g # h => \A t \in g, u \in h : ~Interfere(t, u)
               /\ \A part \in SUBSET g :
                    part # {} /\ part # g => \E t \in part, u \in g \ part : Interfere(t, u)
    <2>1. ASSUME NEW h \in components, g # h, NEW t \in g, NEW u \in h
          PROVE  ~Interfere(t, u)
      <3>1. u \in Vertices \ g /\ Closed(g, {})
        BY <1>1, <2>1 DEF ComponentsInv
      <3> QED
        BY <3>1, ConflictIsInterference DEF Closed
    <2>2. ASSUME NEW part \in SUBSET g, part # {}, part # g
          PROVE  \E t \in part, u \in g \ part : Interfere(t, u)
      <3>1. Connected(g)
        BY <1>1 DEF ComponentsInv
      <3>2. PICK t \in part, u \in g \ part : Conflict(t, u)
        BY <2>2, <3>1 DEF Connected
      <3> QED
        BY <3>2, ConflictIsInterference
    <2> QED
      BY <2>1, <2>2
  <1>2. ComponentsInv => GroupsAreComponents
    BY <1>1, InstanceGraphs DEF GroupsAreComponents, CC!GroupsAreComponents
  <1> QED
    BY <1>2, ComponentsAreSound, PTL

(***************************************************************************)
(* The layers.                                                             *)
(***************************************************************************)

LEMMA EarlierVertices ==
    ASSUME NEW v \in Vertices
    PROVE  /\ Earlier(v) = {u \in Vertices : <<u, v>> \in DirectedEdges}
           /\ IsFiniteSet(Earlier(v)) /\ IsFiniteSet(Waiting(v))
           /\ Cardinality(Waiting(v)) \in Nat
           /\ Cardinality(Waiting(v)) = 0 <=> Waiting(v) = {}
  <1>1. Earlier(v) = {u \in Vertices : <<u, v>> \in DirectedEdges}
    BY EdgesAreConflicts DEF Earlier
  <1>2. IsFiniteSet(Earlier(v)) /\ IsFiniteSet(Waiting(v))
    BY VerticesAreNumbers, FS_Subset DEF Earlier, Waiting
  <1> QED
    BY <1>1, <1>2, FS_EmptySet, FS_CardinalityType

\* Of some transactions one is the first.
LEMMA LowestVertex ==
    ASSUME NEW set \in SUBSET Vertices, set # {}
    PROVE  \E v \in set : \A u \in set : ~(u < v)
  <1>1. set \subseteq Nat
    BY VerticesAreNumbers
  <1>2. \E v \in set : \A u \in set : ~(<<u, v>> \in OpToRel(<, Nat))
    BY <1>1, NatLessThanWellFounded, WFMin
  <1> QED
    BY <1>1, <1>2 DEF OpToRel

LEMMA InstanceCardinality == \A S : DZ!Cardinality(S) = Cardinality(S)
  BY DEF DZ!Cardinality, Cardinality

LEMMA InitLayers ==
    ASSUME DZ!Start
    PROVE  LayersInv
  <1> DEFINE first == {v \in Vertices : Cardinality(Earlier(v)) = 0}
  <1>1. \A v \in Vertices : DZ!InDegree(v) = Cardinality(Earlier(v))
    BY EarlierVertices, InstanceGraphs, InstanceCardinality DEF DZ!InDegree
  <1>2. /\ ans = <<first>> /\ degree = [v \in Vertices |-> Cardinality(Earlier(v))]
        /\ newDegreeZero = {} /\ edges = DZ!OutEdges(first)
    BY <1>1, InstanceGraphs DEF DZ!Start
  <1>3. Placed = first
    BY <1>2 DEF Placed
  <1>4. \A v \in Vertices : Waiting(v) = Earlier(v)
    <2> SUFFICES ASSUME NEW v \in Vertices, NEW u \in Earlier(v), u \in first
                 PROVE  <<u, v>> \in edges
      BY <1>3 DEF Waiting
    <2>1. <<u, v>> \in DirectedEdges
      BY EarlierVertices
    <2> QED
      BY <1>2, <2>1, InstanceGraphs DEF DZ!OutEdges
  <1>5. \A v \in Vertices : Cardinality(Earlier(v)) \in Nat
    BY <1>4, EarlierVertices
  <1>6. \A v \in first : Earlier(v) = {}
    BY <1>4, EarlierVertices
  <1>7. /\ ans \in Seq(SUBSET Vertices) /\ Len(ans) = 1 /\ ans[1] = first
        /\ edges = DZ!OutEdges(ans[Len(ans)])
    BY <1>2
  <1>8. degree \in [Vertices -> Nat] /\ \A v \in Vertices : degree[v] = Cardinality(Waiting(v))
    BY <1>2, <1>4, <1>5
  <1>9. \A v \in Vertices : degree[v] = 0 <=> v \in Placed \cup newDegreeZero
    BY <1>2, <1>3
  <1> QED
    BY <1>2, <1>6, <1>7, <1>8, <1>9 DEF LayersInv

LEMMA TakeEdgeKeeps ==
    ASSUME LayersInv, predictions' = predictions, NEW e, DZ!TakeEdge(e)
    PROVE  LayersInv'
  <1>1. /\ e \in edges /\ edges' = edges \ {e} /\ ans' = ans
        /\ degree' = [degree EXCEPT ![e[2]] = @ - 1]
        /\ newDegreeZero' = IF degree[e[2]] = 1 THEN newDegreeZero \cup {e[2]} ELSE newDegreeZero
    BY DEF DZ!TakeEdge
  <1>2. PICK from \in Vertices, to \in Vertices :
            e = <<from, to>> /\ <<from, to>> \in DirectedEdges /\ from \in ans[Len(ans)]
    <2>1. e \in DirectedEdges /\ e[1] \in ans[Len(ans)]
      BY <1>1, InstanceGraphs DEF LayersInv, DZ!OutEdges
    <2> QED
      BY <2>1 DEF DirectedEdges
  <1>3. Vertices' = Vertices /\ Placed' = Placed /\ \A v : Earlier(v)' = Earlier(v)
    BY <1>1, SameGraph DEF Placed, Earlier
  <1>4. from \in Placed /\ from \in Earlier(to) /\ from \in Waiting(to)
    <2>1. from \in Placed
      BY <1>2 DEF Placed, LayersInv
    <2> QED
      BY <1>1, <1>2, <2>1, EarlierVertices DEF Waiting
  <1>5. Waiting(to)' = Waiting(to) \ {from}
    BY <1>1, <1>2, <1>3, <1>4 DEF Waiting
  <1>6. \A v \in Vertices : v # to => Waiting(v)' = Waiting(v)
    BY <1>1, <1>2, <1>3 DEF Waiting
  <1>7. Cardinality(Waiting(to) \ {from}) = Cardinality(Waiting(to)) - 1
    BY <1>4, EarlierVertices, FS_RemoveElement
  <1>8. degree[to] \in Nat \ {0} /\ degree[to] = Cardinality(Waiting(to))
    BY <1>4, EarlierVertices DEF LayersInv
  <1>9. to \notin Placed /\ to \notin newDegreeZero
    BY <1>8 DEF LayersInv
  <1>10. /\ degree' \in [Vertices -> Nat]
         /\ degree'[to] = degree[to] - 1 /\ \A v \in Vertices : v # to => degree'[v] = degree[v]
    BY <1>1, <1>2, <1>8 DEF LayersInv
  <1>11. \A v \in Vertices : degree'[v] = Cardinality(Waiting(v)')
    BY <1>5, <1>6, <1>7, <1>8, <1>10 DEF LayersInv
  <1>12. newDegreeZero' = IF degree[to] = 1 THEN newDegreeZero \cup {to} ELSE newDegreeZero
    BY <1>1, <1>2
  <1>13. \A v \in Vertices : degree'[v] = 0 <=> v \in Placed \cup newDegreeZero'
    <2> SUFFICES ASSUME NEW v \in Vertices
                 PROVE  degree'[v] = 0 <=> v \in Placed \cup newDegreeZero'
      OBVIOUS
    <2>1. CASE v = to
      BY <1>8, <1>9, <1>10, <1>12, <2>1
    <2>2. CASE v # to
      <3>1. degree[v] = 0 <=> v \in Placed \cup newDegreeZero
        BY DEF LayersInv
      <3> QED
        BY <1>10, <1>12, <2>2, <3>1
    <2> QED
      BY <2>1, <2>2
  <1>14. newDegreeZero' \subseteq Vertices \ Placed
    BY <1>9, <1>12 DEF LayersInv
  <1>15. \A v \in newDegreeZero' : ans[Len(ans)] \cap Earlier(v) # {}
    BY <1>2, <1>4, <1>12 DEF LayersInv
  <1>16. edges' \subseteq DZ!OutEdges(ans[Len(ans)])'
    <2>1. edges' \subseteq DZ!OutEdges(ans[Len(ans)])
      BY <1>1 DEF LayersInv
    <2>2. DZ!DirectedEdges' = DZ!DirectedEdges
      BY DEF DZ!DirectedEdges, DZ!Vertices, DZ!Conflict
    <2> QED
      BY <1>1, <2>1, <2>2 DEF DZ!OutEdges
  <1>17. \A j \in 1..Len(ans) : \A v \in ans[j] :
            /\ \A u \in Earlier(v) : \E i \in 1..(j - 1) : u \in ans[i]
            /\ j > 1 => ans[j - 1] \cap Earlier(v) # {}
    BY DEF LayersInv
  <1>18. /\ ans \in Seq(SUBSET Vertices) /\ Len(ans) > 0
         /\ \A i, j \in 1..Len(ans) : i # j => ans[i] \cap ans[j] = {}
    BY DEF LayersInv
  <1> QED
    BY <1>1, <1>3, <1>10, <1>11, <1>13, <1>14, <1>15, <1>16, <1>17, <1>18 DEF LayersInv

LEMMA NextLayerKeeps ==
    ASSUME LayersInv, predictions' = predictions, DZ!NextLayer
    PROVE  LayersInv'
  <1>1. PICK n, new : n = Len(ans) /\ new = newDegreeZero
    OBVIOUS
  <1>2. /\ edges = {} /\ ans' = Append(ans, new) /\ newDegreeZero' = {} /\ degree' = degree
        /\ edges' = DZ!OutEdges(new)
    BY <1>1 DEF DZ!NextLayer
  <1>3. /\ ans \in Seq(SUBSET Vertices) /\ n \in Nat \ {0} /\ new \subseteq Vertices \ Placed
        /\ \A v \in Vertices : degree[v] = 0 <=> v \in Placed \cup new
    BY <1>1 DEF LayersInv
  <1>4. /\ ans' \in Seq(SUBSET Vertices) /\ Len(ans') = n + 1 /\ ans'[n + 1] = new
        /\ \A i \in 1..n : ans'[i] = ans[i]
    BY <1>1, <1>2, <1>3
  <1>5. Vertices' = Vertices /\ \A v : Earlier(v)' = Earlier(v)
    BY SameGraph DEF Earlier
  <1>6. Placed' = Placed \cup new
    <2>1. 1..(n + 1) = 1..n \cup {n + 1}
      BY <1>3
    <2> QED
      BY <1>1, <1>4, <2>1 DEF Placed
  <1>7. \A v \in Vertices : Waiting(v)' = Waiting(v)
    <2> SUFFICES ASSUME NEW v \in Vertices, NEW u \in Earlier(v)
                 PROVE  (u \in Placed \cup new => <<u, v>> \in edges') <=> u \notin Placed
      BY <1>2, <1>5, <1>6 DEF Waiting
    <2>1. <<u, v>> \in edges' <=> u \in new
      BY <1>2, EarlierVertices, InstanceGraphs DEF DZ!OutEdges
    <2> QED
      BY <1>3, <2>1
  <1>8. \A v \in new : Earlier(v) \subseteq Placed /\ ans[n] \cap Earlier(v) # {}
    <2> SUFFICES ASSUME NEW v \in new
                 PROVE  Earlier(v) \subseteq Placed /\ ans[n] \cap Earlier(v) # {}
      OBVIOUS
    <2>1. v \in Vertices /\ degree[v] = 0 /\ degree[v] = Cardinality(Waiting(v))
      BY <1>3 DEF LayersInv
    <2>2. Waiting(v) = {}
      BY <2>1, EarlierVertices
    <2> QED
      BY <1>1, <1>2, <2>2 DEF Waiting, LayersInv
  <1>9. ASSUME NEW j \in 1..(n + 1), NEW v \in ans'[j]
        PROVE  /\ \A u \in Earlier(v) : \E i \in 1..(j - 1) : u \in ans'[i]
               /\ j > 1 => ans'[j - 1] \cap Earlier(v) # {}
    <2>1. CASE j = n + 1
      <3>1. v \in new
        BY <1>4, <2>1
      <3>2. \A u \in Earlier(v) : \E i \in 1..n : u \in ans[i]
        BY <1>1, <1>8, <3>1 DEF Placed
      <3>3. n + 1 - 1 = n /\ n \in 1..n
        BY <1>3
      <3> QED
        BY <1>4, <1>8, <2>1, <3>1, <3>2, <3>3
    <2>2. CASE j # n + 1
      <3>1. j \in 1..n /\ v \in ans[j]
        BY <1>3, <1>4, <2>2
      <3>2. /\ \A u \in Earlier(v) : \E i \in 1..(j - 1) : u \in ans[i]
            /\ j > 1 => ans[j - 1] \cap Earlier(v) # {}
        BY <1>1, <3>1 DEF LayersInv
      <3>3. /\ \A i \in 1..(j - 1) : i \in 1..n
            /\ j > 1 => j - 1 \in 1..n
        BY <1>3, <3>1
      <3> QED
        BY <1>4, <3>2, <3>3
    <2> QED
      BY <2>1, <2>2
  <1>10. ASSUME NEW i \in 1..(n + 1), NEW j \in 1..(n + 1), i # j
         PROVE  ans'[i] \cap ans'[j] = {}
    <2>1. ASSUME NEW k \in 1..n
          PROVE  ans[k] \cap new = {}
      BY <1>1, <1>3 DEF Placed
    <2>2. CASE i = n + 1
      BY <1>3, <1>4, <1>10, <2>1, <2>2
    <2>3. CASE j = n + 1
      BY <1>3, <1>4, <1>10, <2>1, <2>3
    <2>4. CASE i \in 1..n /\ j \in 1..n
      BY <1>1, <1>4, <1>10, <2>4 DEF LayersInv
    <2> QED
      BY <1>3, <2>2, <2>3, <2>4
  <1>11. edges' \subseteq DZ!OutEdges(ans[Len(ans)])'
    <2>1. DZ!DirectedEdges' = DZ!DirectedEdges
      BY DEF DZ!DirectedEdges, DZ!Vertices, DZ!Conflict
    <2> QED
      BY <1>2, <1>4, <2>1 DEF DZ!OutEdges
  <1>12. /\ degree' \in [Vertices' -> Nat]
         /\ \A v \in Vertices' : degree'[v] = Cardinality(Waiting(v)')
         /\ \A v \in Vertices' : degree'[v] = 0 <=> v \in Placed' \cup newDegreeZero'
    BY <1>2, <1>3, <1>5, <1>6, <1>7 DEF LayersInv
  <1>13. Len(ans') > 0
    BY <1>3, <1>4
  <1> QED
    BY <1>2, <1>4, <1>5, <1>9, <1>10, <1>11, <1>12, <1>13 DEF LayersInv

LEMMA LayersStep ==
    ASSUME LayersInv, [Next]_vars
    PROVE  LayersInv'
  <1>1. ASSUME DZ!Next, predictions' = predictions
        PROVE  LayersInv'
    BY <1>1, TakeEdgeKeeps, NextLayerKeeps DEF DZ!Next
  <1>2. ASSUME UNCHANGED <<predictions, layerVars>>
        PROVE  LayersInv'
    <2>1. /\ UNCHANGED <<ans, edges, degree, newDegreeZero>>
          /\ Vertices' = Vertices /\ \A v : Earlier(v)' = Earlier(v)
      BY <1>2, SameGraph DEF layerVars, Earlier
    <2>2. Placed' = Placed /\ \A v : Waiting(v)' = Waiting(v)
      BY <2>1 DEF Placed, Waiting
    <2>3. DZ!OutEdges(ans[Len(ans)])' = DZ!OutEdges(ans[Len(ans)])
      BY <1>2, <2>1 DEF DZ!OutEdges, DZ!DirectedEdges, DZ!Vertices, DZ!Conflict
    <2> QED
      BY <2>1, <2>2, <2>3 DEF LayersInv
  <1> QED
    BY <1>1, <1>2 DEF Next, Components, DegreeZeroLayers, IndependentSets, Grouped, vars

THEOREM LayersAreSound == Spec => []LayersInv
  <1>1. Init => LayersInv
    BY InitLayers DEF Init
  <1> QED
    BY <1>1, LayersStep, PTL DEF Spec

\* The two searches together, which the runs check.
THEOREM SearchesAreSound == Spec => []SearchInv
  <1>1. ComponentsInv /\ LayersInv => SearchInv
    BY DEF SearchInv
  <1> QED
    BY <1>1, ComponentsAreSound, LayersAreSound, PTL

\* Two transactions of one layer do not conflict, and the layers come in the
\* order of the block wherever it matters.
THEOREM LayersAreOrdered == Spec => []LayersKeepOrder
  <1>1. ASSUME LayersInv, NEW j \in DZ!Layers, NEW v \in ans[j], NEW u \in Vertices,
               u < v, Interfere(u, v)
        PROVE  \E i \in 1..(j - 1) : u \in ans[i]
    <2>1. j \in 1..Len(ans)
      BY DEF DZ!Layers
    <2>2. u \in Earlier(v)
      BY <1>1, ConflictIsInterference DEF Earlier
    <2> QED
      BY <1>1, <2>1, <2>2 DEF LayersInv
  <1>2. LayersInv => LayersKeepOrder
    BY <1>1, InstanceGraphs DEF LayersKeepOrder, DZ!LayersKeepOrder
  <1> QED
    BY <1>2, LayersAreSound, PTL

\* Outside the first layer, everybody has a conflict in the layer before.
THEOREM LayersAreTight == Spec => []LayersTight
  <1>1. ASSUME LayersInv, NEW j \in DZ!Layers \ {1}, NEW v \in ans[j]
        PROVE  \E u \in ans[j - 1] : u < v /\ Interfere(u, v)
    <2>1. j \in 1..Len(ans) /\ j > 1
      BY <1>1 DEF DZ!Layers, LayersInv
    <2>2. PICK u \in ans[j - 1] : u \in Earlier(v)
      BY <1>1, <2>1 DEF LayersInv
    <2> QED
      BY <2>2, ConflictIsInterference DEF Earlier
  <1>2. LayersInv => LayersTight
    BY <1>1, InstanceGraphs DEF LayersTight, DZ!LayersTight
  <1> QED
    BY <1>2, LayersAreSound, PTL

\* Every predicted transaction is in exactly one layer in the end: of those
\* left over, the first would have nothing to wait for.
THEOREM LayersArePartition == Spec => []LayersPartition
  <1>1. ASSUME LayersInv, edges = {}, newDegreeZero = {}
        PROVE  Placed = Vertices
    <2>1. Placed \subseteq Vertices
      BY <1>1 DEF LayersInv, Placed
    <2>2. ASSUME Vertices \ Placed # {}
          PROVE  FALSE
      <3>1. PICK v \in Vertices \ Placed : \A u \in Vertices \ Placed : ~(u < v)
        BY <2>2, LowestVertex
      <3>2. degree[v] # 0 /\ degree[v] = Cardinality(Waiting(v))
        BY <1>1 DEF LayersInv
      <3>3. PICK u : u \in Waiting(v)
        BY <3>2, EarlierVertices
      <3> QED
        BY <1>1, <3>1, <3>3 DEF Waiting, Earlier
    <2> QED
      BY <2>1, <2>2
  <1>2. ASSUME LayersInv
        PROVE  /\ \A i, j \in DZ!Layers : i # j => ans[i] \cap ans[j] = {}
               /\ UNION {ans[i] : i \in DZ!Layers} = Placed
    BY <1>2 DEF LayersInv, DZ!Layers, Placed
  <1>3. LayersInv => LayersPartition
    BY <1>1, <1>2, InstanceGraphs DEF LayersPartition, DZ!LayersPartition, DZ!Done
  <1> QED
    BY <1>3, LayersAreSound, PTL

(***************************************************************************)
(* The graph.                                                              *)
(***************************************************************************)

LEMMA MisGraph ==
    /\ MIS!Vertices = Vertices /\ \A v : MIS!Neighbors(v) = Neighbors(v)
    /\ \A t, u : MIS!Interfere(t, u) <=> Interfere(t, u)
    /\ \A set : MIS!Cardinality(set) = Cardinality(set)
  <1>1. \A set : MIS!Cardinality(set) = Cardinality(set)
    BY DEF MIS!Cardinality, Cardinality
  <1>2. MIS!Vertices = Vertices /\ MIS!DirectedEdges = DirectedEdges
    BY DEF MIS!Vertices, Vertices, MIS!DirectedEdges, DirectedEdges, MIS!Conflict, Conflict,
        MIS!HasConflict, HasConflict
  <1>3. \A t, u : MIS!Interfere(t, u) <=> Interfere(t, u)
    BY DEF MIS!Interfere, Interfere
  <1> QED
    BY <1>1, <1>2, <1>3 DEF MIS!Neighbors, Neighbors

LEMMA NeighborsAreMutual ==
    ASSUME NEW v \in Vertices
    PROVE  /\ Neighbors(v) \subseteq Vertices /\ v \notin Neighbors(v)
           /\ \A u \in Neighbors(v) : v \in Neighbors(u)
           /\ \A u \in Vertices : u # v => (u \in Neighbors(v) <=> Interfere(v, u))
  <1>1. v \notin Neighbors(v)
    <2>1. v \in Nat /\ ~(v < v)
      BY VerticesAreNumbers
    <2> QED
      BY <2>1 DEF Neighbors, DirectedEdges
  <1>2. \A u \in Vertices : u # v => (u \in Neighbors(v) <=> Interfere(v, u))
    BY EdgesAreConflicts, ConflictIsInterference
  <1> QED
    BY <1>1, <1>2 DEF Neighbors

\* There are fewer neighbors than a uint can count.
LEMMA FewNeighbors ==
    ASSUME NEW v \in Vertices, NEW set \in SUBSET (Vertices \ {v})
    PROVE  IsFiniteSet(set) /\ Cardinality(set) \in Nat /\ Cardinality(set) + 1 <= MaxUint
  <1>1. /\ IsFiniteSet(Vertices) /\ IsFiniteSet(Txs) /\ Vertices \subseteq Txs
        /\ Cardinality(Vertices) \in Nat /\ Cardinality(Txs) \in Nat
    BY VerticesAreNumbers, ConflictGraphAssumption, FS_CardinalityType
  <1>2. Cardinality(Vertices) <= Cardinality(Txs)
    BY <1>1, FS_Subset
  <1>3. IsFiniteSet(Vertices \ {v}) /\ Cardinality(Vertices \ {v}) = Cardinality(Vertices) - 1
    BY <1>1, FS_RemoveElement
  <1>4. IsFiniteSet(set) /\ Cardinality(set) <= Cardinality(Vertices \ {v})
    BY <1>3, FS_Subset
  <1>5. Cardinality(set) \in Nat
    BY <1>4, FS_CardinalityType
  <1> QED
    BY <1>1, <1>2, <1>3, <1>4, <1>5, GroupingAssumption

\* A degree that is neither none nor too large goes up and down by one.
LEMMA UpAndDown ==
    ASSUME NEW d \in Nat, d <= MaxUint
    PROVE  /\ MIS!Decrement(d, 0) = d
           /\ d # 0 => MIS!Decrement(d, 1) = d - 1 /\ MIS!Increment(d - 1) = d
  BY GroupingAssumption DEF MIS!Decrement, MIS!Increment

\* Sets of two.
LEMMA Two ==
    ASSUME NEW set, IsFiniteSet(set), Cardinality(set) = 2, NEW a \in set, NEW b \in set, a # b
    PROVE  set = {a, b}
  <1>1. SUFFICES ASSUME NEW c \in set, c # a, c # b
                 PROVE  FALSE
    OBVIOUS
  <1>2. IsFiniteSet(set \ {a}) /\ Cardinality(set \ {a}) = 1
    BY FS_RemoveElement
  <1>3. IsFiniteSet((set \ {a}) \ {b}) /\ Cardinality((set \ {a}) \ {b}) = 0
    BY <1>2, FS_RemoveElement
  <1> QED
    BY <1>1, <1>3, FS_EmptySet

\* The neighbors that are still there.
LEMMA LiveNeighbors ==
    ASSUME NEW g, g.vertices \subseteq Vertices, EdgesInv(g), NEW v \in g.vertices
    PROVE  /\ MIS!Live(g, v) = g.adjacent[v] \cap Present(g)
           /\ v \notin MIS!Live(g, v)
           /\ \A u \in Present(g) : u \in MIS!Live(g, v) <=> v \in g.adjacent[u]
           /\ v \in Present(g) => \A u \in g.vertices : v \in MIS!Live(g, u) <=> u \in g.adjacent[v]
           /\ IsFiniteSet(MIS!Live(g, v)) /\ Cardinality(MIS!Live(g, v)) \in Nat
           /\ Cardinality(MIS!Live(g, v)) + 1 <= MaxUint
           /\ Cardinality(MIS!Live(g, v)) = 0 <=> MIS!Live(g, v) = {}
  <1>1. MIS!Live(g, v) = g.adjacent[v] \cap Present(g) /\ v \notin MIS!Live(g, v)
    BY DEF EdgesInv, MIS!Live, Present
  <1>2. \A u \in Present(g) : u \in MIS!Live(g, v) <=> v \in g.adjacent[u]
    BY <1>1 DEF EdgesInv, Present
  <1>3. v \in Present(g) => \A u \in g.vertices : v \in MIS!Live(g, u) <=> u \in g.adjacent[v]
    BY DEF EdgesInv, MIS!Live, Present
  <1>4. MIS!Live(g, v) \in SUBSET (Vertices \ {v})
    BY <1>1 DEF Present
  <1>5. /\ IsFiniteSet(MIS!Live(g, v)) /\ Cardinality(MIS!Live(g, v)) \in Nat
        /\ Cardinality(MIS!Live(g, v)) + 1 <= MaxUint
    BY <1>4, FewNeighbors
  <1> QED
    BY <1>1, <1>2, <1>3, <1>5, FS_EmptySet
(***************************************************************************)
(* DeleteVertex.                                                           *)
(***************************************************************************)

\* What a deletion of x does to each field: hit are the neighbors that it hits.
Deletes(g, x, h, hit) ==
    /\ DOMAIN h = Fields /\ DOMAIN h.degree = h.vertices
    /\ h.vertices = g.vertices /\ h.adjacent = g.adjacent
    /\ h.stack = g.stack /\ h.pending = g.pending
    /\ h.deleted = g.deleted \cup {x}
    /\ \A u \in g.vertices :
         h.degree[u] = IF u \in hit THEN MIS!Decrement(g.degree[u], 1) ELSE g.degree[u]
    /\ h.set = g.set \cup {u \in hit : h.degree[u] = 0}
    /\ h.one = ((IF g.degree[x] = 1 THEN g.one \ {x} ELSE g.one)
                 \ {u \in hit : h.degree[u] = 0}) \cup {u \in hit : h.degree[u] = 1}
    /\ h.two = ((IF g.degree[x] = 2 THEN g.two \ {x} ELSE g.two)
                 \ {u \in hit : h.degree[u] = 1}) \cup {u \in hit : h.degree[u] = 2}
    /\ h.more = (IF g.degree[x] = 1 \/ g.degree[x] = 2 THEN g.more ELSE g.more \ {x})
                 \ {u \in hit : h.degree[u] = 2}

LEMMA DeleteEffect ==
    ASSUME NEW g, DOMAIN g = Fields, DOMAIN g.degree = g.vertices, NEW x,
           NEW h, h = MIS!DeleteVertex(g, x),
           NEW hit, hit = IF g.degree[x] = 0 THEN {} ELSE MIS!Live(g, x)
    PROVE  Deletes(g, x, h, hit)
  <1> DEFINE lowered == IF hit = {} THEN g.degree ELSE MIS!Lowered(g, x)
             Reach(n) == {u \in hit : lowered[u] = n}
             Without(bucket, set) == IF MIS!In(bucket, g.degree[x]) THEN set \ {x} ELSE set
  <1>1. h = [g EXCEPT !.deleted = @ \cup {x}, !.degree = lowered, !.set = @ \cup Reach(0),
                !.one = (Without("one", @) \ Reach(0)) \cup Reach(1),
                !.two = (Without("two", @) \ Reach(1)) \cup Reach(2),
                !.more = Without("more", @) \ Reach(2)]
    BY DEF MIS!DeleteVertex
  <1>2. /\ DOMAIN lowered = g.vertices
        /\ \A u \in g.vertices :
            lowered[u] = IF u \in hit THEN MIS!Decrement(g.degree[u], 1) ELSE g.degree[u]
    BY DEF MIS!Lowered
  <1>3. \A set : /\ Without("one", set) = IF g.degree[x] = 1 THEN set \ {x} ELSE set
                 /\ Without("two", set) = IF g.degree[x] = 2 THEN set \ {x} ELSE set
                 /\ Without("more", set) = IF g.degree[x] = 1 \/ g.degree[x] = 2 THEN set ELSE set \ {x}
    BY DEF MIS!In
  <1> HIDE DEF lowered, Without
  <1>4. /\ DOMAIN h = Fields /\ h.degree = lowered
        /\ h.vertices = g.vertices /\ h.adjacent = g.adjacent
        /\ h.stack = g.stack /\ h.pending = g.pending
        /\ h.deleted = g.deleted \cup {x} /\ h.set = g.set \cup Reach(0)
        /\ h.one = (Without("one", g.one) \ Reach(0)) \cup Reach(1)
        /\ h.two = (Without("two", g.two) \ Reach(1)) \cup Reach(2)
        /\ h.more = Without("more", g.more) \ Reach(2)
    BY <1>1 DEF Fields
  <1> QED
    BY <1>2, <1>3, <1>4 DEF Deletes

\* The deleted vertex is the one that was counted wrong, if any: afterwards the
\* graph fits, or the vertex never leaves the third bucket.
OnesAt(g, x) == \A v \in OfDegree(g, 1) : v \in g.one \/ x \in MIS!Live(g, v)

LEMMA DeleteFit ==
    ASSUME NEW g, DOMAIN g = Fields, DOMAIN g.degree = g.vertices, g.vertices \subseteq Vertices,
           Counted(g), NEW x \in Present(g), g.degree[x] # 0,
           OnesAt(g, x), Reached(g, Forgotten(g) \ {x}),
           NEW h, h = MIS!DeleteVertex(g, x)
    PROVE  (x \in h.more /\ Stuck(h)) \/ Fit(h)
  <1>0. PICK hit : hit = IF g.degree[x] = 0 THEN {} ELSE MIS!Live(g, x)
    OBVIOUS
  <1>1. hit = MIS!Live(g, x)
    BY <1>0
  <1>2. Deletes(g, x, h, hit)
    BY <1>0, DeleteEffect
  <1> USE DEF Deletes
  <1>3. /\ EdgesInv(g) /\ x \in g.vertices /\ x \notin hit
        /\ hit = g.adjacent[x] \cap Present(g) /\ Present(h) = Present(g) \ {x}
        /\ Present(g) \subseteq g.vertices
    BY <1>1, <1>2, LiveNeighbors DEF Counted, Present
  <1>4. \A v \in g.vertices : /\ MIS!Live(h, v) = MIS!Live(g, v) \ {x}
                              /\ x \in MIS!Live(g, v) <=> v \in g.adjacent[x]
    BY <1>2, <1>3, LiveNeighbors DEF MIS!Live
  <1>5. \A v \in Present(g) : g.degree[v] = Cardinality(MIS!Live(g, v)) /\ g.degree[v] \in Nat
    BY <1>3, LiveNeighbors DEF Counted
  <1>6. \A v \in Present(h) : /\ h.degree[v] = Cardinality(MIS!Live(h, v))
                              /\ v \in hit => g.degree[v] # 0 /\ h.degree[v] = g.degree[v] - 1
                              /\ v \notin hit => MIS!Live(h, v) = MIS!Live(g, v) /\ h.degree[v] = g.degree[v]
    <2> SUFFICES ASSUME NEW v \in Present(h)
                 PROVE  /\ h.degree[v] = Cardinality(MIS!Live(h, v))
                        /\ v \in hit => g.degree[v] # 0 /\ h.degree[v] = g.degree[v] - 1
                        /\ v \notin hit => MIS!Live(h, v) = MIS!Live(g, v) /\ h.degree[v] = g.degree[v]
      OBVIOUS
    <2>1. v \in Present(g) /\ v \in g.vertices
      BY <1>3
    <2>2. CASE v \in hit
      <3>1. x \in MIS!Live(g, v) /\ IsFiniteSet(MIS!Live(g, v))
        BY <1>3, <1>4, <2>1, <2>2, LiveNeighbors
      <3>2. Cardinality(MIS!Live(g, v) \ {x}) = Cardinality(MIS!Live(g, v)) - 1
        BY <3>1, FS_RemoveElement
      <3>3. Cardinality(MIS!Live(g, v)) # 0
        BY <3>1, <1>3, <2>1, LiveNeighbors
      <3>4. h.degree[v] = g.degree[v] - 1
        BY <1>2, <1>5, <2>1, <2>2, <3>3 DEF MIS!Decrement
      <3> QED
        BY <1>4, <1>5, <2>1, <2>2, <3>2, <3>3, <3>4
    <2>3. CASE v \notin hit
      <3>1. h.degree[v] = g.degree[v]
        BY <1>2, <2>1, <2>3
      <3>2. MIS!Live(h, v) = MIS!Live(g, v)
        BY <1>3, <1>4, <2>1, <2>3
      <3> QED
        BY <1>5, <2>1, <2>3, <3>1, <3>2
    <2> QED
      BY <2>2, <2>3
  <1>7. CASE x \in h.more
    <2>1. g.degree[x] \in 0..2 /\ h.degree[x] = g.degree[x]
      BY <1>2, <1>3, <1>7
    <2>2. x \notin h.two
      BY <1>2, <1>3, <2>1 DEF Counted, OfDegree
    <2> QED
      BY <1>2, <1>3, <1>7, <2>1, <2>2 DEF Stuck, Stays, Counted
  <1>8. CASE x \notin h.more
    <2>1. EdgesInv(h)
      BY <1>2, <1>3 DEF EdgesInv
    <2>2. h.one = OfDegree(h, 1)
      <3>1. g.one \subseteq OfDegree(g, 1)
        BY DEF Counted
      <3>2. \A v \in OfDegree(g, 1) : v \in g.one \/ v \in hit
        BY <1>3, <1>4 DEF OfDegree, OnesAt
      <3> QED
        BY <1>2, <1>3, <1>5, <1>6, <3>1, <3>2 DEF OfDegree
    <2>3. h.two \subseteq OfDegree(h, 2)
      <3>1. g.two \subseteq OfDegree(g, 2)
        BY DEF Counted
      <3> QED
        BY <1>2, <1>3, <1>5, <1>6, <3>1 DEF OfDegree
    <2>4. h.more \subseteq Present(h) /\ \A v \in Present(h) : h.degree[v] > 2 => v \in h.more
      BY <1>2, <1>3, <1>5, <1>6, <1>8 DEF Counted
    <2>5. OfDegree(h, 0) \subseteq h.set
      BY <1>2, <1>3, <1>6 DEF OfDegree, Counted
    <2>6. \A v \in h.set : v \in g.vertices /\ MIS!Live(h, v) = {}
      <3>1. \A v \in g.set : v \in g.vertices /\ MIS!Live(g, v) = {}
        BY DEF Counted, EdgesInv
      <3>2. ASSUME NEW v \in hit, h.degree[v] = 0
            PROVE  MIS!Live(h, v) = {}
        <4>1. v \in Present(h) /\ v \in h.vertices
          BY <1>2, <1>3, <3>2
        <4> QED
          BY <1>2, <1>6, <2>1, <3>2, <4>1, LiveNeighbors
      <3> QED
        BY <1>2, <1>3, <1>4, <3>1, <3>2
    <2>7. Independent(h)
      <3>1. SUFFICES ASSUME NEW v \in h.set, NEW u \in h.set, u \in h.adjacent[v]
                     PROVE  FALSE
        BY DEF Independent
      <3>2. v \in h.adjacent[u] /\ u # v
        BY <2>1, <2>6, <3>1, <1>2 DEF EdgesInv
      <3>3. CASE v \in hit
        BY <1>2, <1>3, <2>1, <2>6, <3>2, <3>3, LiveNeighbors
      <3>4. CASE u \in hit
        BY <1>2, <1>3, <2>1, <2>6, <3>1, <3>4, LiveNeighbors
      <3>5. CASE v \in g.set /\ u \in g.set
        BY <1>2, <3>1, <3>5 DEF Counted, Independent
      <3> QED
        BY <1>2, <3>3, <3>4, <3>5
    <2>8. Reached(h, Forgotten(h))
      <3>1. \A v \in Forgotten(h) : v \in Forgotten(g) \ {x} /\ MIS!Live(h, v) = MIS!Live(g, v)
        BY <1>2, <1>3, <1>5, <1>6 DEF Forgotten, OfDegree
      <3> QED
        BY <3>1 DEF Reached
    <2>9. h.set \cup Present(h) # {}
      <3>1. hit # {}
        BY <1>1, <1>3, <1>5, LiveNeighbors
      <3> QED
        BY <1>3, <3>1
    <2>10. h.pending = {} /\ \A v \in Present(h) : h.degree[v] = Cardinality(MIS!Live(h, v))
      BY <1>2, <1>6 DEF Counted
    <2> QED
      BY <2>1, <2>2, <2>3, <2>4, <2>5, <2>6, <2>7, <2>8, <2>9, <2>10 DEF Fit, Counted
  <1> QED
    BY <1>7, <1>8

\* A vertex that stays in the third bucket stays there.
LEMMA DeleteStays ==
    ASSUME NEW g, DOMAIN g = Fields, DOMAIN g.degree = g.vertices, NEW z, Stays(g, z),
           NEW x, x # z \/ g.degree[x] = 1 \/ g.degree[x] = 2,
           NEW h, h = MIS!DeleteVertex(g, x)
    PROVE  Stays(h, z)
  <1>1. PICK hit : hit = IF g.degree[x] = 0 THEN {} ELSE MIS!Live(g, x)
    OBVIOUS
  <1>2. Deletes(g, x, h, hit)
    BY <1>1, DeleteEffect
  <1>3. z \notin hit
    BY <1>1 DEF MIS!Live, Stays
  <1> QED
    BY <1>2, <1>3 DEF Stays, Deletes

(***************************************************************************)
(* Cutting out a path.                                                     *)
(***************************************************************************)

LEMMA ReversedOnStack ==
    ASSUME NEW S, NEW s \in Seq(S), NEW t \in Seq(S)
    PROVE  s \o MIS!Reverse(t) \in Seq(S)
  <1>1. Len(t) \in Nat /\ \A i \in 1..Len(t) : t[Len(t) - i + 1] \in S
    OBVIOUS
  <1>2. MIS!Reverse(t) \in [1..Len(t) -> S]
    BY <1>1 DEF MIS!Reverse
  <1>3. [1..Len(t) -> S] \in {[1..n -> S] : n \in Nat}
    BY <1>1
  <1>4. MIS!Reverse(t) \in Seq(S)
    BY <1>2, <1>3, SeqDef
  <1> QED
    BY <1>4, ConcatProperties

LEMMA MisSequences == \A s : MIS!Range(s) = {s[i] : i \in DOMAIN s}
  BY DEF MIS!Range

\* What remains of a degree after the path has gone.
Fallen(g, cut, u) == MIS!Decrement(g.degree[u], Cardinality(g.adjacent[u] \cap MIS!UpTo(cut, u)))

\* What happens to each field when a path is cut out and a and w are joined.
Joins(g, cut, a, w, h) ==
    /\ DOMAIN h = Fields /\ DOMAIN h.degree = h.vertices
    /\ h.vertices = g.vertices /\ h.set = g.set /\ h.one = g.one /\ h.more = g.more
    /\ h.pending = g.pending /\ h.stack = g.stack \o MIS!Reverse(cut)
    /\ h.deleted = g.deleted \cup MIS!Range(cut) /\ h.two = g.two \ MIS!Range(cut)
    /\ h.adjacent = IF w \in g.adjacent[a] THEN g.adjacent
                    ELSE [g.adjacent EXCEPT ![a] = @ \cup {w}, ![w] = @ \cup {a}]
    /\ \A u \in g.vertices :
        h.degree[u] = LET left == IF u \in g.deleted THEN g.degree[u] ELSE Fallen(g, cut, u)
                      IN  IF w \notin g.adjacent[a] /\ (u = a \/ u = w) THEN MIS!Increment(left) ELSE left

Joined(g, cut, a, w) ==
    [MIS!AddEdge(MIS!RemovePath(g, cut), a, w) EXCEPT !.stack = @ \o MIS!Reverse(cut)]

LEMMA JoinEffect ==
    ASSUME NEW g, DOMAIN g = Fields, DOMAIN g.degree = g.vertices,
           NEW cut, NEW a \in g.vertices, NEW w \in g.vertices, a # w,
           {a, w} \cap (g.deleted \cup MIS!Range(cut)) = {},
           NEW h, h = Joined(g, cut, a, w)
    PROVE  Joins(g, cut, a, w, h)
  <1>1. PICK r : r = MIS!RemovePath(g, cut)
    OBVIOUS
  <1>2. /\ DOMAIN r = Fields /\ r.vertices = g.vertices /\ r.set = g.set /\ r.one = g.one
        /\ r.more = g.more /\ r.pending = g.pending /\ r.stack = g.stack
        /\ r.adjacent = g.adjacent
        /\ r.deleted = g.deleted \cup MIS!Range(cut) /\ r.two = g.two \ MIS!Range(cut)
        /\ r.degree = [u \in g.vertices |-> IF u \in g.deleted THEN g.degree[u] ELSE Fallen(g, cut, u)]
    BY <1>1, MisGraph DEF MIS!RemovePath, Fields, Fallen
  <1>3. PICK s : s = MIS!AddEdge(r, a, w)
    OBVIOUS
  <1>4. h = [s EXCEPT !.stack = @ \o MIS!Reverse(cut)]
    BY <1>1, <1>3 DEF Joined
  <1>5. CASE w \in g.adjacent[a]
    <2>1. s = r
      BY <1>2, <1>3, <1>5 DEF MIS!AddEdge, MIS!HasEdge
    <2>2. /\ DOMAIN h = Fields /\ h.vertices = r.vertices /\ h.set = r.set /\ h.one = r.one
          /\ h.more = r.more /\ h.pending = r.pending /\ h.stack = r.stack \o MIS!Reverse(cut)
          /\ h.deleted = r.deleted /\ h.two = r.two /\ h.adjacent = r.adjacent /\ h.degree = r.degree
      BY <1>2, <1>4, <2>1 DEF Fields
    <2> QED
      BY <1>2, <1>5, <2>2 DEF Joins
  <1>6. CASE w \notin g.adjacent[a]
    <2>1. s = [r EXCEPT !.adjacent[a] = @ \cup {w}, !.adjacent[w] = @ \cup {a},
                        !.degree[a] = MIS!Increment(@), !.degree[w] = MIS!Increment(@)]
      BY <1>2, <1>3, <1>6 DEF MIS!AddEdge, MIS!HasEdge
    <2>2. /\ DOMAIN s = Fields /\ s.vertices = g.vertices /\ s.set = g.set /\ s.one = g.one
          /\ s.more = g.more /\ s.pending = g.pending /\ s.stack = g.stack
          /\ s.deleted = r.deleted /\ s.two = r.two
          /\ s.adjacent = [r.adjacent EXCEPT ![a] = @ \cup {w}, ![w] = @ \cup {a}]
          /\ s.degree = [r.degree EXCEPT ![a] = MIS!Increment(@), ![w] = MIS!Increment(@)]
      BY <1>2, <2>1 DEF Fields
    <2>3. /\ DOMAIN h = Fields /\ h.vertices = s.vertices /\ h.set = s.set /\ h.one = s.one
          /\ h.more = s.more /\ h.pending = s.pending /\ h.stack = s.stack \o MIS!Reverse(cut)
          /\ h.deleted = s.deleted /\ h.two = s.two /\ h.adjacent = s.adjacent /\ h.degree = s.degree
      BY <1>4, <2>2 DEF Fields
    <2>4. /\ DOMAIN s.degree = g.vertices
          /\ \A u \in g.vertices :
                s.degree[u] = IF u = a \/ u = w THEN MIS!Increment(r.degree[u]) ELSE r.degree[u]
      BY <1>2, <2>2
    <2> QED
      BY <1>2, <1>6, <2>2, <2>3, <2>4 DEF Joins
  <1> QED
    BY <1>5, <1>6

\* K is a part of the graph whose only neighbors outside are a, of p, and w, of q.
Hangs(g, K, a, w, p, q) ==
    /\ K \subseteq OfDegree(g, 2) /\ a \in Present(g) \ K /\ w \in Present(g) \ K /\ a # w
    /\ MIS!Live(g, a) \cap K = {p} /\ MIS!Live(g, w) \cap K = {q}
    /\ \A y \in Present(g) \ (K \cup {a, w}) : MIS!Live(g, y) \cap K = {}

\* How far the degrees fall.
LEMMA Falls ==
    ASSUME NEW g, g.vertices \subseteq Vertices, Counted(g),
           NEW K, NEW cut \in Seq(K), MIS!Range(cut) = K, K \subseteq OfDegree(g, 2), NEW v \in Present(g)
    PROVE  /\ v \notin K => Fallen(g, cut, v) = MIS!Decrement(g.degree[v], Cardinality(MIS!Live(g, v) \cap K))
           /\ v \in K => Fallen(g, cut, v) \in 0..2
  <1>1. K \subseteq Present(g) /\ K = {cut[i] : i \in DOMAIN cut} /\ v \in g.vertices /\ EdgesInv(g)
    BY MisSequences DEF OfDegree, Present, Counted
  <1>2. MIS!UpTo(cut, v) \subseteq K
    BY <1>1 DEF MIS!UpTo
  <1>3. g.adjacent[v] \cap MIS!UpTo(cut, v) \subseteq MIS!Live(g, v) \cap K
    BY <1>1, <1>2 DEF MIS!Live, Present
  <1>4. ASSUME v \notin K
        PROVE  g.adjacent[v] \cap MIS!UpTo(cut, v) = MIS!Live(g, v) \cap K
    <2>1. \A j \in DOMAIN cut : cut[j] \in MIS!UpTo(cut, v)
      <3>1. ASSUME NEW j \in DOMAIN cut
            PROVE  \A i \in 1..j : cut[i] # v
        BY <1>1, <1>4
      <3> QED
        BY <3>1 DEF MIS!UpTo
    <2> QED
      BY <1>1, <1>2, <2>1 DEF MIS!Live, Present
  <1>5. ASSUME v \in K
        PROVE  Fallen(g, cut, v) \in 0..2
    <2>1. g.degree[v] = 2 /\ Cardinality(MIS!Live(g, v)) = 2 /\ IsFiniteSet(MIS!Live(g, v))
      BY <1>1, <1>5, LiveNeighbors DEF OfDegree, Counted
    <2>2. PICK lost : lost = g.adjacent[v] \cap MIS!UpTo(cut, v)
      OBVIOUS
    <2>3. IsFiniteSet(lost) /\ Cardinality(lost) <= 2
      BY <1>3, <2>1, <2>2, FS_Subset
    <2>4. Cardinality(lost) \in 0..2
      BY <2>3, FS_CardinalityType
    <2> QED
      BY <2>1, <2>2, <2>4 DEF Fallen, MIS!Decrement
  <1> QED
    BY <1>4, <1>5 DEF Fallen

\* The degrees around the path are counted anew, but the buckets are left as
\* they are: a vertex of the path in the third bucket stays there.
LEMMA JoinFit ==
    ASSUME NEW g, DOMAIN g = Fields, DOMAIN g.degree = g.vertices, g.vertices \subseteq Vertices, Fit(g),
           NEW K, NEW cut \in Seq(K), MIS!Range(cut) = K,
           NEW a, NEW w, NEW p, NEW q, Hangs(g, K, a, w, p, q),
           g.degree[w] > 2, g.degree[a] > 2 \/ (g.degree[a] = 2 /\ w \notin g.adjacent[a]),
           NEW h, Joins(g, cut, a, w, h)
    PROVE  Stuck(h) \/ Fit(h)
  <1>1. /\ EdgesInv(g) /\ Counted(g) /\ Present(g) \subseteq g.vertices
        /\ K \subseteq OfDegree(g, 2) /\ K \subseteq Present(g)
        /\ a \in Present(g) \ K /\ w \in Present(g) \ K /\ a # w
        /\ a \in g.vertices /\ w \in g.vertices
    BY DEF Fit, Counted, Present, Hangs, OfDegree
  <1>2. /\ h.vertices = g.vertices /\ h.set = g.set /\ h.one = g.one /\ h.more = g.more
        /\ h.pending = g.pending /\ h.deleted = g.deleted \cup K /\ h.two = g.two \ K
        /\ Present(h) = Present(g) \ K
    BY DEF Joins, Present
  <1>3. /\ MaxUint \in Nat
        /\ \A v \in Present(g) : /\ g.degree[v] = Cardinality(MIS!Live(g, v))
                                 /\ g.degree[v] \in Nat /\ g.degree[v] <= MaxUint
    BY <1>1, LiveNeighbors, GroupingAssumption DEF Counted
  <1>4. CASE K \cap g.more # {}
    <2>1. PICK z \in K : z \in g.more
      BY <1>4
    <2>2. h.degree[z] \in 0..2
      <3>1. Fallen(g, cut, z) \in 0..2
        BY <1>1, <2>1, Falls
      <3> QED
        BY <1>1, <2>1, <3>1 DEF Joins, Present
    <2> QED
      BY <1>1, <1>2, <2>1, <2>2 DEF Stuck, Stays, Counted
  <1>5. CASE K \cap g.more = {}
    <2>1. /\ h.adjacent \in [g.vertices -> SUBSET g.vertices]
          /\ \A v \in g.vertices : v # a /\ v # w => h.adjacent[v] = g.adjacent[v]
          /\ h.adjacent[a] = g.adjacent[a] \cup {w} /\ h.adjacent[w] = g.adjacent[w] \cup {a}
      <3>1. g.adjacent \in [g.vertices -> SUBSET g.vertices]
        BY <1>1 DEF EdgesInv
      <3>2. CASE w \in g.adjacent[a]
        <4>1. a \in g.adjacent[w] /\ h.adjacent = g.adjacent
          BY <1>1, <3>2 DEF Joins, EdgesInv
        <4> QED
          BY <3>1, <3>2, <4>1
      <3>3. CASE w \notin g.adjacent[a]
        <4>1. h.adjacent = [g.adjacent EXCEPT ![a] = @ \cup {w}, ![w] = @ \cup {a}]
          BY <3>3 DEF Joins
        <4> QED
          BY <1>1, <3>1, <4>1
      <3> QED
        BY <3>2, <3>3
    <2>2. EdgesInv(h)
      <3>1. \A v \in g.vertices : v \notin h.adjacent[v] /\ Neighbors(v) \cap g.vertices \subseteq h.adjacent[v]
        BY <1>1, <2>1 DEF EdgesInv
      <3>2. \A v, u \in g.vertices : u \in h.adjacent[v] => v \in h.adjacent[u]
        BY <1>1, <2>1 DEF EdgesInv
      <3>3. h.deleted \subseteq h.vertices /\ h.set \subseteq h.vertices
        BY <1>1, <1>2 DEF EdgesInv
      <3>4. h.stack \in Seq(h.vertices)
        <4>1. cut \in Seq(g.vertices) /\ g.stack \in Seq(g.vertices)
          BY <1>1 DEF EdgesInv
        <4>2. g.stack \o MIS!Reverse(cut) \in Seq(g.vertices)
          BY <4>1, ReversedOnStack
        <4>3. h.stack = g.stack \o MIS!Reverse(cut)
          BY DEF Joins
        <4> QED
          BY <1>2, <4>2, <4>3
      <3> QED
        BY <1>2, <2>1, <3>1, <3>2, <3>3, <3>4 DEF EdgesInv
    <2>3. /\ MIS!Live(h, a) = (MIS!Live(g, a) \ {p}) \cup {w} /\ p \in MIS!Live(g, a)
          /\ MIS!Live(h, w) = (MIS!Live(g, w) \ {q}) \cup {a} /\ q \in MIS!Live(g, w)
          /\ p # w /\ q # a
      BY <1>1, <1>2, <2>1 DEF Hangs, MIS!Live, Present
    <2>4. \A v \in g.vertices : v # a /\ v # w => MIS!Live(h, v) = MIS!Live(g, v) \ K
      BY <1>2, <2>1 DEF MIS!Live
    <2>5. \A v \in Present(h) : v # a /\ v # w => MIS!Live(h, v) = MIS!Live(g, v) /\ h.degree[v] = g.degree[v]
      <3> SUFFICES ASSUME NEW v \in Present(h), v # a, v # w
                   PROVE  MIS!Live(h, v) = MIS!Live(g, v) /\ h.degree[v] = g.degree[v]
        OBVIOUS
      <3>1. v \in Present(g) \ K /\ v \in g.vertices /\ v \notin g.deleted
        BY <1>1, <1>2 DEF Present
      <3>2. MIS!Live(g, v) \cap K = {}
        BY <3>1 DEF Hangs
      <3>3. Fallen(g, cut, v) = MIS!Decrement(g.degree[v], 0)
        BY <1>1, <3>1, <3>2, Falls, FS_EmptySet
      <3>4. Fallen(g, cut, v) = g.degree[v]
        BY <1>3, <3>1, <3>3, UpAndDown
      <3>5. MIS!Live(h, v) = MIS!Live(g, v) \ K
        BY <2>4, <3>1
      <3>6. h.degree[v] = Fallen(g, cut, v)
        BY <3>1 DEF Joins
      <3> QED
        BY <3>2, <3>4, <3>5, <3>6
    <2>6. IsFiniteSet(MIS!Live(g, a)) /\ IsFiniteSet(MIS!Live(g, w))
      BY <1>1, LiveNeighbors
    <2>7. Fallen(g, cut, a) = g.degree[a] - 1 /\ Fallen(g, cut, w) = g.degree[w] - 1
      <3>1. /\ Fallen(g, cut, a) = MIS!Decrement(g.degree[a], Cardinality({p}))
            /\ Fallen(g, cut, w) = MIS!Decrement(g.degree[w], Cardinality({q}))
        BY <1>1, Falls DEF Hangs
      <3>2. Cardinality({p}) = 1 /\ Cardinality({q}) = 1
        BY FS_Singleton
      <3> QED
        BY <1>1, <1>3, <3>1, <3>2 DEF MIS!Decrement
    <2>8. h.degree[a] = Cardinality(MIS!Live(h, a)) /\ h.degree[w] = Cardinality(MIS!Live(h, w))
      <3>1. /\ Cardinality(MIS!Live(g, a) \ {p}) = g.degree[a] - 1 /\ IsFiniteSet(MIS!Live(g, a) \ {p})
            /\ Cardinality(MIS!Live(g, w) \ {q}) = g.degree[w] - 1 /\ IsFiniteSet(MIS!Live(g, w) \ {q})
        <4>1. /\ Cardinality(MIS!Live(g, a) \ {p}) = Cardinality(MIS!Live(g, a)) - 1
              /\ IsFiniteSet(MIS!Live(g, a) \ {p})
          BY <2>3, <2>6, FS_RemoveElement
        <4>2. /\ Cardinality(MIS!Live(g, w) \ {q}) = Cardinality(MIS!Live(g, w)) - 1
              /\ IsFiniteSet(MIS!Live(g, w) \ {q})
          BY <2>3, <2>6, FS_RemoveElement
        <4> QED
          BY <1>1, <1>3, <4>1, <4>2
      <3>2. a \notin g.deleted /\ w \notin g.deleted
        BY <1>1 DEF Present
      <3>3. CASE w \in g.adjacent[a]
        <4>1. MIS!Live(h, a) = MIS!Live(g, a) \ {p} /\ MIS!Live(h, w) = MIS!Live(g, w) \ {q}
          BY <1>1, <2>3, <3>2, <3>3 DEF MIS!Live, EdgesInv
        <4> QED
          BY <1>1, <2>7, <3>1, <3>2, <3>3, <4>1 DEF Joins
      <3>4. CASE w \notin g.adjacent[a]
        <4>1. w \notin MIS!Live(g, a) \ {p} /\ a \notin MIS!Live(g, w) \ {q}
          BY <1>1, <3>4 DEF MIS!Live, EdgesInv
        <4>2. Cardinality(MIS!Live(h, a)) = g.degree[a] /\ Cardinality(MIS!Live(h, w)) = g.degree[w]
          <5>1. Cardinality(MIS!Live(h, a)) = Cardinality(MIS!Live(g, a) \ {p}) + 1
            BY <2>3, <3>1, <4>1, FS_AddElement
          <5>2. Cardinality(MIS!Live(h, w)) = Cardinality(MIS!Live(g, w) \ {q}) + 1
            BY <2>3, <3>1, <4>1, FS_AddElement
          <5> QED
            BY <1>1, <1>3, <3>1, <5>1, <5>2
        <4>3. /\ h.degree[a] = MIS!Increment(g.degree[a] - 1)
              /\ h.degree[w] = MIS!Increment(g.degree[w] - 1)
          BY <1>1, <2>7, <3>2, <3>4 DEF Joins
        <4> QED
          BY <1>1, <1>3, <4>2, <4>3, UpAndDown
      <3> QED
        BY <3>3, <3>4
    <2>9. /\ h.degree[w] <= g.degree[w] /\ h.degree[w] >= 2 /\ h.degree[w] \in Nat
          /\ h.degree[a] <= g.degree[a] /\ h.degree[a] >= 2 /\ h.degree[a] \in Nat
          /\ g.degree[a] = 2 => h.degree[a] = 2
      <3>1. a \notin g.deleted /\ w \notin g.deleted
        BY <1>1 DEF Present
      <3>2. /\ h.degree[a] = g.degree[a] - 1 \/ h.degree[a] = MIS!Increment(g.degree[a] - 1)
            /\ h.degree[w] = g.degree[w] - 1 \/ h.degree[w] = MIS!Increment(g.degree[w] - 1)
            /\ w \notin g.adjacent[a] => h.degree[a] = MIS!Increment(g.degree[a] - 1)
        BY <1>1, <2>7, <3>1 DEF Joins
      <3>3. /\ g.degree[a] # 0 /\ MIS!Increment(g.degree[a] - 1) = g.degree[a]
            /\ g.degree[w] # 0 /\ MIS!Increment(g.degree[w] - 1) = g.degree[w]
        BY <1>1, <1>3, UpAndDown
      <3> QED
        BY <1>1, <1>3, <3>2, <3>3
    <2>10. \A v \in Present(h) : /\ h.degree[v] = Cardinality(MIS!Live(h, v))
                                 /\ h.degree[v] \in Nat /\ h.degree[v] <= g.degree[v]
                                 /\ v = a \/ v = w \/ h.degree[v] = g.degree[v]
      BY <1>2, <1>3, <2>5, <2>8, <2>9
    <2>11. h.one \subseteq OfDegree(h, 1) /\ OfDegree(h, 1) \subseteq h.one
      BY <1>1, <1>2, <1>3, <2>9, <2>10 DEF OfDegree, Fit, Counted
    <2>12. h.two \subseteq OfDegree(h, 2)
      BY <1>1, <1>2, <1>3, <2>9, <2>10 DEF OfDegree, Counted
    <2>13. h.more \subseteq Present(h) /\ \A v \in Present(h) : h.degree[v] > 2 => v \in h.more
      BY <1>1, <1>2, <1>3, <1>5, <2>10 DEF Counted
    <2>14. OfDegree(h, 0) \subseteq h.set
      BY <1>1, <1>2, <1>3, <2>9, <2>10 DEF OfDegree, Counted
    <2>15. a \notin g.set /\ w \notin g.set
      BY <1>1, <2>3 DEF Counted
    <2>16. \A v \in h.set : MIS!Live(h, v) = {}
      BY <1>1, <1>2, <2>4, <2>15 DEF Counted, EdgesInv
    <2>17. Independent(h)
      BY <1>1, <1>2, <2>1, <2>15 DEF Counted, EdgesInv, Independent
    <2>18. Reached(h, Forgotten(h))
      <3>1. w \in h.more /\ (g.degree[a] > 2 => a \in h.more)
        BY <1>1, <1>2 DEF Counted
      <3>2. \A v \in Forgotten(h) : v \in Forgotten(g) /\ v # w
        BY <1>1, <1>2, <1>3, <2>9, <2>10, <3>1 DEF Forgotten, OfDegree
      <3>3. SUFFICES ASSUME NEW part \in SUBSET Forgotten(h), part # {}
                     PROVE  \E v \in part : ~(MIS!Live(h, v) \subseteq part)
        BY DEF Reached
      <3>4. PICK v \in part : ~(MIS!Live(g, v) \subseteq part)
        BY <3>2, <3>3 DEF Fit, Reached
      <3>5. v # w /\ w \notin part /\ v \in Present(h)
        BY <3>2, <3>3 DEF Forgotten, OfDegree
      <3>6. CASE v = a
        BY <2>3, <3>5, <3>6
      <3>7. CASE v # a
        BY <2>5, <3>4, <3>5, <3>7
      <3> QED
        BY <3>6, <3>7
    <2>19. Present(h) # {}
      BY <1>1, <1>2
    <2>20. h.pending = {}
      BY <1>1, <1>2 DEF Counted
    <2>21. Counted(h)
      BY <2>2, <2>10, <2>11, <2>12, <2>13, <2>14, <2>16, <2>17, <2>20 DEF Counted
    <2> QED
      BY <2>11, <2>18, <2>19, <2>21 DEF Fit
  <1> QED
    BY <1>4, <1>5

(***************************************************************************)
(* The paths of vertices of degree two.                                    *)
(***************************************************************************)

\* A set with all the neighbors of degree two of its vertices.
Whole(g, part) == \A v \in part : MIS!Live(g, v) \cap OfDegree(g, 2) \subseteq part

LEMMA PathIsClosed ==
    ASSUME NEW g, NEW u \in OfDegree(g, 2), NEW path, path = MIS!TwoPath(g, u)
    PROVE  /\ path \subseteq OfDegree(g, 2) /\ u \in path
           /\ Whole(g, path)
           /\ \A part \in SUBSET OfDegree(g, 2) : u \in part /\ Whole(g, part) => path \subseteq part
  <1> DEFINE inner == {v \in g.vertices \ g.deleted : g.degree[v] = 2} \cup {u}
             Closing(part) == \A v \in part : MIS!Live(g, v) \cap inner \subseteq part
  <1>1. inner = OfDegree(g, 2)
    BY DEF OfDegree, Present
  <1>2. path = {v \in inner : \A part \in SUBSET inner : u \in part /\ Closing(part) => v \in part}
    BY DEF MIS!TwoPath
  <1>3. ASSUME NEW v \in path, NEW y \in MIS!Live(g, v) \cap inner
        PROVE  y \in path
    BY <1>2, <1>3
  <1>4. \A part : Closing(part) <=> Whole(g, part)
    BY <1>1 DEF Whole
  <1> HIDE DEF inner, Closing
  <1> QED
    BY <1>1, <1>2, <1>3, <1>4 DEF Whole

\* Taking u from the second bucket leaves the rest as it is, ...
PopsTwo(s, u, g) ==
    /\ DOMAIN g = Fields /\ DOMAIN g.degree = g.vertices
    /\ g.vertices = s.vertices /\ g.adjacent = s.adjacent /\ g.degree = s.degree
    /\ g.deleted = s.deleted /\ g.set = s.set /\ g.one = s.one /\ g.two = s.two \ {u}
    /\ g.more = s.more /\ g.stack = s.stack /\ g.pending = s.pending

LEMMA PopTwoEffect ==
    ASSUME NEW s, DOMAIN s = Fields, DOMAIN s.degree = s.vertices, NEW u
    PROVE  PopsTwo(s, u, MIS!WithoutTwo(s, u))
  BY DEF PopsTwo, Fields, MIS!WithoutTwo

LEMMA PopTwo ==
    ASSUME NEW s, s.vertices \subseteq Vertices, Fit(s), NEW u \in s.two, NEW g, PopsTwo(s, u, g)
    PROVE  /\ u \in OfDegree(g, 2) /\ Counted(g) /\ OfDegree(g, 1) \subseteq g.one
           /\ Reached(g, Forgotten(g) \ {u}) /\ (g.vertices # {} => g.set \cup Present(g) # {})
  <1>1. Present(g) = Present(s) /\ \A v : MIS!Live(g, v) = MIS!Live(s, v)
    BY DEF PopsTwo, Present, MIS!Live
  <1>2. \A n : OfDegree(g, n) = OfDegree(s, n)
    BY <1>1 DEF PopsTwo, OfDegree
  <1>3. EdgesInv(g) /\ Independent(g)
    BY DEF PopsTwo, Fit, Counted, EdgesInv, Independent
  <1>4. Counted(g)
    BY <1>1, <1>2, <1>3 DEF PopsTwo, Fit, Counted
  <1>5. u \in OfDegree(g, 2) /\ Forgotten(g) \subseteq Forgotten(s) \cup {u}
    BY <1>2 DEF PopsTwo, Fit, Counted, Forgotten
  <1> QED
    BY <1>1, <1>2, <1>4, <1>5 DEF PopsTwo, Fit, Reached

\* ... and the vertex to be reached from its path, if the path has an end.
LEMMA PathIsReached ==
    ASSUME NEW g, NEW u \in OfDegree(g, 2), Reached(g, Forgotten(g) \ {u}),
           NEW path, path = MIS!TwoPath(g, u), NEW v \in path, ~(MIS!Live(g, v) \subseteq path)
    PROVE  Reached(g, Forgotten(g))
  <1>1. /\ Whole(g, path)
        /\ \A part \in SUBSET OfDegree(g, 2) : u \in part /\ Whole(g, part) => path \subseteq part
    BY PathIsClosed
  <1>2. SUFFICES ASSUME NEW part \in SUBSET Forgotten(g), part # {},
                        \A y \in part : MIS!Live(g, y) \subseteq part
                 PROVE  FALSE
    BY DEF Reached
  <1>3. part \subseteq OfDegree(g, 2)
    BY <1>2 DEF Forgotten
  <1>4. CASE u \notin part
    BY <1>2, <1>4 DEF Reached
  <1>5. CASE u \in part
    <2>1. Whole(g, part)
      BY <1>2 DEF Whole
    <2>2. path \subseteq part
      BY <1>1, <1>3, <1>5, <2>1
    <2>3. PICK y \in MIS!Live(g, v) : y \notin path
      OBVIOUS
    <2>4. y \in OfDegree(g, 2)
      BY <1>2, <1>3, <2>2, <2>3
    <2> QED
      BY <1>1, <2>3, <2>4 DEF Whole
  <1> QED
    BY <1>4, <1>5

(***************************************************************************)
(* The walks: a path is walked from one end to the other.                  *)
(***************************************************************************)

LEMMA LeastNumber ==
    ASSUME NEW set \in SUBSET Nat, set # {}
    PROVE  \E i \in set : \A j \in set : ~(j < i)
  <1>1. \E i \in set : \A j \in set : ~(<<j, i>> \in OpToRel(<, Nat))
    BY NatLessThanWellFounded, WFMin
  <1> QED
    BY <1>1 DEF OpToRel

\* Each vertex of the path is passed once.
Passes(walk, path) ==
    /\ walk \in Seq(path) /\ Len(walk) \in Nat
    /\ \A i, j \in 1..Len(walk) : walk[i] = walk[j] => i = j
    /\ \A v \in path : \E i \in 1..Len(walk) : walk[i] = v

LEMMA WalkPasses ==
    ASSUME NEW path \in SUBSET Vertices, NEW walk \in MIS!SetToSeqs(path)
    PROVE  Passes(walk, path)
  <1>1. IsFiniteSet(path) /\ Cardinality(path) \in Nat
    BY VerticesAreNumbers, FS_Subset, FS_CardinalityType
  <1>2. PICK n : n = Cardinality(path)
    OBVIOUS
  <1>3. /\ walk \in [1..n -> path]
        /\ \A i, j \in 1..n : i # j => walk[i] # walk[j]
    BY <1>2, MisGraph DEF MIS!SetToSeqs
  <1>4. walk \in Injection(1..n, path)
    BY <1>3 DEF Injection, IsInjective
  <1>5. Cardinality(1..n) = n
    BY <1>1, <1>2, FS_Interval
  <1>6. walk \in Surjection(1..n, path)
    BY <1>1, <1>2, <1>4, <1>5, FS_Injection
  <1>7. walk \in Seq(path) /\ Len(walk) = n
    BY <1>1, <1>2, <1>3, SeqDef
  <1> QED
    BY <1>1, <1>2, <1>3, <1>6, <1>7 DEF Passes, Surjection

\* After its first vertex, each is a neighbor of one passed before.
Branches(g, walk) ==
    \A m \in 1..(Len(walk) - 1) : \E j \in 1..m : walk[m + 1] \in MIS!Live(g, walk[j])

LEMMA WalkBranches ==
    ASSUME NEW g, g.vertices \subseteq Vertices, NEW path \in SUBSET OfDegree(g, 2), path # {},
           NEW walk \in MIS!Walks(g, path)
    PROVE  /\ Passes(walk, path) /\ Len(walk) > 0 /\ MIS!Outer(g, walk[1]) # {}
           /\ Branches(g, walk)
  <1> DEFINE Unvisited(w, v) == MIS!Live(g, v) \cap (path \ MIS!Range(w))
             Branch(w) == {v \in path : \E j \in DOMAIN w :
                            /\ v \in Unvisited(w, w[j])
                            /\ \A k \in (j + 1)..Len(w) : Unvisited(w, w[k]) = {}}
  <1>1. path \subseteq Vertices
    BY DEF OfDegree, Present
  <1>2. /\ walk \in MIS!SetToSeqs(path) /\ MIS!Outer(g, walk[1]) # {}
        /\ \A n \in 2..Len(walk) : walk[n] \in Branch(SubSeq(walk, 1, n - 1))
    BY DEF MIS!Walks
  <1>3. Passes(walk, path) /\ Len(walk) > 0
    BY <1>1, <1>2, WalkPasses DEF Passes
  <1>4. ASSUME NEW m \in 1..(Len(walk) - 1)
        PROVE  \E j \in 1..m : walk[m + 1] \in MIS!Live(g, walk[j])
    <2>1. m + 1 \in 2..Len(walk) /\ m \in 0..Len(walk) /\ (m + 1) - 1 = m /\ walk \in Seq(path)
      BY <1>3 DEF Passes
    <2>2. PICK part : part = SubSeq(walk, 1, m)
      OBVIOUS
    <2>3. DOMAIN part = 1..m /\ \A j \in 1..m : part[j] = walk[j]
      BY <2>1, <2>2
    <2>4. walk[m + 1] \in Branch(part)
      BY <1>2, <2>1, <2>2
    <2>5. PICK j \in DOMAIN part : walk[m + 1] \in MIS!Live(g, part[j])
      BY <2>4
    <2> QED
      BY <2>3, <2>5
  <1> QED
    BY <1>2, <1>3, <1>4 DEF Branches

LEMMA LiveIsMutual ==
    ASSUME NEW g, EdgesInv(g), NEW v \in Present(g), NEW u \in Present(g)
    PROVE  u \in MIS!Live(g, v) <=> v \in MIS!Live(g, u)
  BY DEF EdgesInv, MIS!Live, Present

\* The two neighbors of a vertex of degree two.
LEMMA TwoNeighbors ==
    ASSUME NEW g, g.vertices \subseteq Vertices, Counted(g), NEW v \in OfDegree(g, 2),
           NEW a \in MIS!Live(g, v), NEW b \in MIS!Live(g, v), a # b
    PROVE  MIS!Live(g, v) = {a, b}
  <1>1. v \in g.vertices /\ EdgesInv(g) /\ Cardinality(MIS!Live(g, v)) = 2
    BY DEF OfDegree, Present, Counted
  <1>2. IsFiniteSet(MIS!Live(g, v))
    BY <1>1, LiveNeighbors
  <1> QED
    BY <1>1, <1>2, Two

LEMMA WalkIsLine ==
    ASSUME NEW g, g.vertices \subseteq Vertices, Counted(g),
           NEW path \in SUBSET OfDegree(g, 2), path # {}, NEW walk \in MIS!Walks(g, path)
    PROVE  \A m \in 1..(Len(walk) - 1) : walk[m + 1] \in MIS!Live(g, walk[m])
  <1>1. PICK n : n = Len(walk)
    OBVIOUS
  <1>2. /\ n \in Nat /\ n > 0 /\ \A i \in 1..n : walk[i] \in path
        /\ \A i, j \in 1..n : walk[i] = walk[j] => i = j
        /\ \A m \in 1..(n - 1) : \E j \in 1..m : walk[m + 1] \in MIS!Live(g, walk[j])
    <2>1. Passes(walk, path) /\ Len(walk) > 0 /\ Branches(g, walk)
      BY WalkBranches
    <2>2. /\ n \in Nat /\ n > 0 /\ \A i \in 1..n : walk[i] \in path
          /\ \A i, j \in 1..n : walk[i] = walk[j] => i = j
      BY <1>1, <2>1 DEF Passes
    <2> QED
      BY <1>1, <2>1, <2>2 DEF Branches
  <1>3. PICK v \in MIS!Live(g, walk[1]) : g.degree[v] # 2
    <2>1. MIS!Outer(g, walk[1]) # {}
      BY WalkBranches
    <2> QED
      BY <2>1 DEF MIS!Outer
  <1>4. path \subseteq Present(g) /\ EdgesInv(g) /\ v \notin path
    BY <1>3 DEF OfDegree, Counted
  <1>5. ASSUME NEW m \in 1..(n - 1), walk[m + 1] \notin MIS!Live(g, walk[m]),
               \A i \in 1..(m - 1) : walk[i + 1] \in MIS!Live(g, walk[i])
        PROVE  FALSE
    <2>1. PICK j \in 1..m : walk[m + 1] \in MIS!Live(g, walk[j])
      BY <1>2
    <2>2. j \in 1..(m - 1) /\ j \in 1..n /\ j + 1 \in 1..n /\ m + 1 \in 1..n
      BY <1>2, <1>5, <2>1
    <2>3. walk[j + 1] \in MIS!Live(g, walk[j]) /\ walk[j] \in OfDegree(g, 2)
      BY <1>2, <1>5, <2>2
    <2>4. walk[m + 1] # walk[j + 1]
      BY <1>2, <2>2
    <2>5. CASE j = 1
      <3>1. MIS!Live(g, walk[j]) = {v, walk[j + 1]}
        BY <1>2, <1>3, <1>4, <2>2, <2>3, <2>5, TwoNeighbors
      <3> QED
        BY <1>2, <1>4, <2>1, <2>2, <2>4, <3>1
    <2>6. CASE j # 1
      <3>1. j - 1 \in 1..(m - 1) /\ j - 1 \in 1..n /\ (j - 1) + 1 = j
        BY <1>2, <2>2, <2>6
      <3>2. walk[j] \in MIS!Live(g, walk[j - 1])
        BY <1>5, <3>1
      <3>3. walk[j - 1] \in MIS!Live(g, walk[j])
        BY <1>2, <1>4, <2>2, <3>1, <3>2, LiveIsMutual
      <3>4. walk[j - 1] # walk[j + 1] /\ walk[j - 1] # walk[m + 1]
        BY <1>2, <2>2, <3>1
      <3>5. MIS!Live(g, walk[j]) = {walk[j - 1], walk[j + 1]}
        BY <2>3, <3>3, <3>4, TwoNeighbors
      <3> QED
        BY <2>1, <2>4, <3>4, <3>5
    <2> QED
      BY <2>5, <2>6
  <1>6. ASSUME {m \in 1..(n - 1) : walk[m + 1] \notin MIS!Live(g, walk[m])} # {}
        PROVE  FALSE
    <2>1. PICK bad : bad = {m \in 1..(n - 1) : walk[m + 1] \notin MIS!Live(g, walk[m])}
      OBVIOUS
    <2>2. bad \in SUBSET Nat /\ bad # {}
      BY <1>6, <2>1
    <2>3. PICK m \in bad : \A j \in bad : ~(j < m)
      BY <2>2, LeastNumber
    <2>4. m \in 1..(n - 1) /\ walk[m + 1] \notin MIS!Live(g, walk[m])
      BY <2>1
    <2>5. \A i \in 1..(m - 1) : walk[i + 1] \in MIS!Live(g, walk[i])
      BY <1>2, <2>1, <2>3, <2>4
    <2> QED
      BY <1>5, <2>4, <2>5
  <1> QED
    BY <1>1, <1>6

\* The path is a line with an end on either side.
Ends2(g, path, walk, v, w) ==
    /\ Passes(walk, path) /\ Len(walk) > 0
    /\ v \in Present(g) \ path /\ w \in Present(g) \ path
    /\ g.degree[v] > 2 /\ g.degree[w] > 2
    /\ v \in MIS!Live(g, walk[1]) /\ w \in MIS!Live(g, walk[Len(walk)])
    /\ Len(walk) = 1 => v # w
    /\ Len(walk) > 1 => /\ MIS!Live(g, walk[1]) = {v, walk[2]}
                        /\ MIS!Live(g, walk[Len(walk)]) = {walk[Len(walk) - 1], w}
    /\ \A i \in 2..(Len(walk) - 1) : MIS!Live(g, walk[i]) = {walk[i - 1], walk[i + 1]}

\* With no vertex of degree one left, a path ends at vertices of a higher degree.
LEMMA OuterDegree ==
    ASSUME NEW g, g.vertices \subseteq Vertices, Fit(g), g.one = {},
           NEW z \in OfDegree(g, 2), NEW y \in MIS!Outer(g, z)
    PROVE  y \in Present(g) /\ y \in MIS!Live(g, z) /\ g.degree[y] > 2 /\ g.degree[y] # 2
  <1>1. EdgesInv(g) /\ z \in Present(g) /\ z \in g.vertices
    BY DEF Fit, Counted, OfDegree, Present
  <1>2. y \in MIS!Live(g, z) /\ g.degree[y] # 2 /\ y \in Present(g) /\ y \in g.vertices
    BY <1>1, LiveNeighbors DEF MIS!Outer, Present
  <1>3. z \in MIS!Live(g, y)
    BY <1>1, <1>2, LiveIsMutual
  <1>4. g.degree[y] = Cardinality(MIS!Live(g, y)) /\ g.degree[y] \in Nat /\ g.degree[y] # 0
    BY <1>1, <1>2, <1>3, LiveNeighbors DEF Fit, Counted
  <1>5. g.degree[y] # 1
    BY <1>2 DEF Fit, OfDegree
  <1> QED
    BY <1>2, <1>4, <1>5

\* Every vertex of the walk has those before and after it as neighbors, and no
\* others if it has both.
Inside(g, path, walk) ==
    /\ Passes(walk, path) /\ Len(walk) > 0
    /\ \A i \in 2..Len(walk) : walk[i - 1] \in MIS!Live(g, walk[i])
    /\ \A i \in 1..(Len(walk) - 1) : walk[i + 1] \in MIS!Live(g, walk[i])
    /\ \A i \in 2..(Len(walk) - 1) : MIS!Live(g, walk[i]) = {walk[i - 1], walk[i + 1]}

LEMMA WalkInside ==
    ASSUME NEW g, g.vertices \subseteq Vertices, Counted(g),
           NEW path \in SUBSET OfDegree(g, 2), path # {}, NEW walk \in MIS!Walks(g, path)
    PROVE  Inside(g, path, walk)
  <1>1. Passes(walk, path) /\ Len(walk) > 0
    BY WalkBranches
  <1>2. PICK n : n = Len(walk)
    OBVIOUS
  <1>3. /\ n \in Nat /\ n > 0 /\ \A i \in 1..n : walk[i] \in path
        /\ \A i, j \in 1..n : walk[i] = walk[j] => i = j
    BY <1>1, <1>2 DEF Passes
  <1>4. \A i \in 1..(n - 1) : walk[i + 1] \in MIS!Live(g, walk[i])
    BY <1>2, WalkIsLine
  <1>5. path \subseteq Present(g) /\ EdgesInv(g)
    BY DEF OfDegree, Counted
  <1>6. ASSUME NEW i \in 2..n
        PROVE  walk[i - 1] \in MIS!Live(g, walk[i])
    <2>1. i - 1 \in 1..(n - 1) /\ (i - 1) + 1 = i /\ i \in 1..n /\ i - 1 \in 1..n
      BY <1>3
    <2>2. walk[i] \in MIS!Live(g, walk[i - 1]) /\ walk[i] \in Present(g) /\ walk[i - 1] \in Present(g)
      BY <1>3, <1>4, <1>5, <2>1
    <2> QED
      BY <1>5, <2>2, LiveIsMutual
  <1>7. ASSUME NEW i \in 2..(n - 1)
        PROVE  MIS!Live(g, walk[i]) = {walk[i - 1], walk[i + 1]}
    <2>1. i \in 1..n /\ i - 1 \in 1..n /\ i + 1 \in 1..n /\ i \in 2..n /\ i \in 1..(n - 1)
      BY <1>3
    <2>2. /\ walk[i] \in OfDegree(g, 2) /\ walk[i - 1] # walk[i + 1]
          /\ walk[i - 1] \in MIS!Live(g, walk[i]) /\ walk[i + 1] \in MIS!Live(g, walk[i])
      BY <1>3, <1>4, <1>6, <2>1
    <2> QED
      BY <2>2, TwoNeighbors
  <1> QED
    BY <1>1, <1>2, <1>4, <1>6, <1>7 DEF Inside

LEMMA WalkEnds ==
    ASSUME NEW g, g.vertices \subseteq Vertices, Fit(g), g.one = {},
           NEW path \in SUBSET OfDegree(g, 2), path # {}, NEW walk \in MIS!Walks(g, path),
           NEW e \in MIS!Around(g, walk)
    PROVE  Ends2(g, path, walk, e[1], e[2])
  <1>1. Counted(g)
    BY DEF Fit
  <1>2. Inside(g, path, walk)
    BY <1>1, WalkInside
  <1>3. PICK n : n = Len(walk)
    OBVIOUS
  <1>4. n \in Nat /\ n > 0 /\ \A i \in 1..n : walk[i] \in path /\ walk[i] \in OfDegree(g, 2)
    BY <1>2, <1>3 DEF Inside, Passes
  <1>5. PICK v, w : v = e[1] /\ w = e[2]
    OBVIOUS
  <1>6. v \in MIS!Outer(g, walk[1]) /\ w \in MIS!Outer(g, walk[n]) /\ (n = 1 => v # w)
    BY <1>3, <1>5 DEF MIS!Around
  <1>7. /\ v \in Present(g) /\ v \in MIS!Live(g, walk[1]) /\ g.degree[v] > 2 /\ g.degree[v] # 2
        /\ w \in Present(g) /\ w \in MIS!Live(g, walk[n]) /\ g.degree[w] > 2 /\ g.degree[w] # 2
    BY <1>4, <1>6, OuterDegree
  <1>8. v \notin path /\ w \notin path
    BY <1>7 DEF OfDegree
  <1>9. ASSUME n > 1
        PROVE  MIS!Live(g, walk[1]) = {v, walk[2]} /\ MIS!Live(g, walk[n]) = {walk[n - 1], w}
    <2>1. walk[2] \in MIS!Live(g, walk[1]) /\ walk[2] # v
      BY <1>2, <1>3, <1>4, <1>8, <1>9 DEF Inside
    <2>2. walk[n - 1] \in MIS!Live(g, walk[n]) /\ walk[n - 1] # w
      BY <1>2, <1>3, <1>4, <1>8, <1>9 DEF Inside
    <2>3. MIS!Live(g, walk[1]) = {v, walk[2]}
      BY <1>1, <1>4, <1>7, <2>1, TwoNeighbors
    <2>4. MIS!Live(g, walk[n]) = {walk[n - 1], w}
      BY <1>1, <1>4, <1>7, <2>2, TwoNeighbors
    <2> QED
      BY <2>3, <2>4
  <1>10. Ends2(g, path, walk, v, w)
    BY <1>2, <1>3, <1>6, <1>7, <1>8, <1>9 DEF Inside, Ends2
  <1> QED
    BY <1>5, <1>10

\* From outside, only the ends of the path are touched.
LEMMA OnlyEndsTouched ==
    ASSUME NEW g, NEW path \in SUBSET OfDegree(g, 2), NEW walk, NEW v, NEW w,
           Ends2(g, path, walk, v, w), Len(walk) > 1,
           NEW i \in 1..Len(walk), NEW y \in MIS!Live(g, walk[i]) \ path
    PROVE  (i = 1 /\ y = v) \/ (i = Len(walk) /\ y = w)
  <1>1. PICK n : n = Len(walk)
    OBVIOUS
  <1>2. n \in Nat /\ \A j \in 1..n : walk[j] \in path
    BY <1>1 DEF Ends2, Passes
  <1>3. /\ MIS!Live(g, walk[1]) = {v, walk[2]} /\ MIS!Live(g, walk[n]) = {walk[n - 1], w}
        /\ \A j \in 2..(n - 1) : MIS!Live(g, walk[j]) = {walk[j - 1], walk[j + 1]}
    BY <1>1 DEF Ends2
  <1>4. CASE i = 1
    <2>1. walk[2] \in path
      BY <1>1, <1>2
    <2> QED
      BY <1>3, <1>4, <2>1
  <1>5. CASE i = n
    <2>1. walk[n - 1] \in path
      BY <1>1, <1>2
    <2> QED
      BY <1>1, <1>3, <1>5, <2>1
  <1>6. CASE i # 1 /\ i # n
    <2>1. i \in 2..(n - 1) /\ i - 1 \in 1..n /\ i + 1 \in 1..n
      BY <1>1, <1>2, <1>6
    <2> QED
      BY <1>2, <1>3, <2>1
  <1> QED
    BY <1>4, <1>5, <1>6

LEMMA PathHangs ==
    ASSUME NEW g, EdgesInv(g), NEW path \in SUBSET OfDegree(g, 2), NEW walk, NEW v, NEW w,
           Ends2(g, path, walk, v, w), Len(walk) > 1, v # w
    PROVE  Hangs(g, path, v, w, walk[1], walk[Len(walk)])
  <1>1. PICK n : n = Len(walk)
    OBVIOUS
  <1>2. /\ n \in Nat /\ n > 1 /\ \A j \in 1..n : walk[j] \in path
        /\ \A z \in path : \E i \in 1..n : walk[i] = z
    BY <1>1 DEF Ends2, Passes
  <1>3. v \in Present(g) \ path /\ w \in Present(g) \ path /\ path \subseteq Present(g)
    BY DEF Ends2, OfDegree
  <1>4. ASSUME NEW y \in Present(g) \ path, NEW z \in MIS!Live(g, y) \cap path
        PROVE  (z = walk[1] /\ y = v) \/ (z = walk[n] /\ y = w)
    <2>1. PICK i \in 1..n : walk[i] = z
      BY <1>2
    <2>2. y \in MIS!Live(g, walk[i])
      BY <1>3, <2>1, LiveIsMutual
    <2> QED
      BY <1>1, <2>1, <2>2, OnlyEndsTouched
  <1>5. walk[1] \in MIS!Live(g, v) /\ walk[n] \in MIS!Live(g, w)
    <2>1. v \in MIS!Live(g, walk[1]) /\ w \in MIS!Live(g, walk[n])
      BY <1>1 DEF Ends2
    <2> QED
      BY <1>2, <1>3, <2>1, LiveIsMutual
  <1>6. walk[1] \in path /\ walk[n] \in path
    BY <1>2
  <1>7. MIS!Live(g, v) \cap path = {walk[1]} /\ MIS!Live(g, w) \cap path = {walk[n]}
    BY <1>3, <1>4, <1>5, <1>6
  <1> QED
    BY <1>1, <1>3, <1>4, <1>7 DEF Hangs

LEMMA TailHangs ==
    ASSUME NEW g, EdgesInv(g), NEW path \in SUBSET OfDegree(g, 2), NEW walk, NEW v, NEW w,
           Ends2(g, path, walk, v, w), Len(walk) > 1, v # w
    PROVE  /\ Hangs(g, path \ {walk[1]}, walk[1], w, walk[2], walk[Len(walk)])
           /\ w \notin g.adjacent[walk[1]]
  <1>1. PICK n : n = Len(walk)
    OBVIOUS
  <1>2. /\ n \in Nat /\ n > 1 /\ \A j \in 1..n : walk[j] \in path
        /\ \A z \in path : \E i \in 1..n : walk[i] = z
        /\ \A i, j \in 1..n : walk[i] = walk[j] => i = j
    BY <1>1 DEF Ends2, Passes
  <1>3. v \in Present(g) \ path /\ w \in Present(g) \ path /\ path \subseteq Present(g)
    BY DEF Ends2, OfDegree
  <1>4. ASSUME NEW y \in Present(g) \ path, NEW z \in MIS!Live(g, y) \cap (path \ {walk[1]})
        PROVE  z = walk[n] /\ y = w
    <2>1. PICK i \in 1..n : walk[i] = z
      BY <1>2
    <2>2. y \in MIS!Live(g, walk[i]) /\ i # 1
      BY <1>3, <2>1, LiveIsMutual
    <2> QED
      BY <1>1, <2>1, <2>2, OnlyEndsTouched
  <1>5. walk[1] \in path /\ walk[2] \in path /\ walk[n] \in path /\ walk[2] # walk[1] /\ walk[n] # walk[1]
    BY <1>2
  <1>6. MIS!Live(g, walk[1]) = {v, walk[2]}
    BY <1>1, <1>2 DEF Ends2
  <1>7. walk[n] \in MIS!Live(g, w)
    <2>1. w \in MIS!Live(g, walk[n])
      BY <1>1 DEF Ends2
    <2> QED
      BY <1>3, <1>5, <2>1, LiveIsMutual
  <1>8. MIS!Live(g, w) \cap (path \ {walk[1]}) = {walk[n]}
    BY <1>3, <1>4, <1>5, <1>7
  <1>9. MIS!Live(g, walk[1]) \cap (path \ {walk[1]}) = {walk[2]}
    BY <1>3, <1>5, <1>6
  <1>10. w \notin g.adjacent[walk[1]]
    <2>1. w \notin MIS!Live(g, walk[1])
      BY <1>3, <1>5, <1>6
    <2> QED
      BY <1>3, <2>1 DEF MIS!Live, Present
  <1>11. \A y \in Present(g) \ ((path \ {walk[1]}) \cup {walk[1], w}) :
            MIS!Live(g, y) \cap (path \ {walk[1]}) = {}
    BY <1>4
  <1> QED
    BY <1>1, <1>3, <1>5, <1>8, <1>9, <1>10, <1>11 DEF Hangs

\* With nothing in the path but its first vertex, nothing is cut out.
LEMMA JoinNothing ==
    ASSUME NEW g, g.vertices \subseteq Vertices, Fit(g), NEW cut \in Seq({}), NEW a, NEW w, w \in g.adjacent[a],
           NEW h, Joins(g, cut, a, w, h)
    PROVE  Fit(h)
  <1>1. MIS!Range(cut) = {} /\ MIS!Reverse(cut) = <<>>
    <2>1. cut = <<>> /\ Len(cut) = 0 /\ DOMAIN cut = {}
      OBVIOUS
    <2>2. MIS!Reverse(cut) = <<>>
      BY <2>1 DEF MIS!Reverse
    <2> QED
      BY <2>1, <2>2, MisSequences
  <1>2. /\ h.vertices = g.vertices /\ h.set = g.set /\ h.one = g.one /\ h.more = g.more
        /\ h.pending = g.pending /\ h.deleted = g.deleted /\ h.two = g.two /\ h.adjacent = g.adjacent
        /\ h.stack = g.stack \o MIS!Reverse(cut)
    BY <1>1 DEF Joins
  <1>3. Present(h) = Present(g) /\ \A v : MIS!Live(h, v) = MIS!Live(g, v)
    BY <1>2 DEF Present, MIS!Live
  <1>4. \A v \in Present(g) : h.degree[v] = g.degree[v]
    <2> SUFFICES ASSUME NEW v \in Present(g)
                 PROVE  h.degree[v] = g.degree[v]
      OBVIOUS
    <2>1. v \in g.vertices /\ v \notin g.deleted /\ Counted(g) /\ EdgesInv(g)
      BY DEF Present, Fit, Counted
    <2>2. h.degree[v] = Fallen(g, cut, v)
      BY <2>1 DEF Joins
    <2>3. MIS!UpTo(cut, v) = {}
      BY <1>1, MisSequences DEF MIS!UpTo
    <2>4. Cardinality(g.adjacent[v] \cap MIS!UpTo(cut, v)) = 0
      BY <2>3, FS_EmptySet
    <2>5. g.degree[v] \in Nat /\ g.degree[v] <= MaxUint
      BY <2>1, LiveNeighbors, GroupingAssumption DEF Counted
    <2> QED
      BY <2>2, <2>4, <2>5, UpAndDown DEF Fallen
  <1>5. \A n : OfDegree(h, n) = OfDegree(g, n)
    BY <1>3, <1>4 DEF OfDegree
  <1>6. EdgesInv(h)
    <2>1. g.stack \in Seq(g.vertices)
      BY DEF Fit, Counted, EdgesInv
    <2>2. h.stack = g.stack
      BY <1>1, <1>2, <2>1, ConcatEmptySeq
    <2> QED
      BY <1>2, <2>2 DEF Fit, Counted, EdgesInv
  <1>7. Counted(h)
    BY <1>2, <1>3, <1>4, <1>5, <1>6 DEF Fit, Counted, Independent
  <1> QED
    BY <1>2, <1>3, <1>5, <1>7 DEF Fit, Reached, Forgotten

\* What is cut out, in the order of the walk.
LEMMA WalkRanges ==
    ASSUME NEW path, NEW walk, Passes(walk, path), Len(walk) > 0
    PROVE  /\ walk \in Seq(path) /\ MIS!Range(walk) = path /\ walk[1] \in path
           /\ Tail(walk) \in Seq(path \ {walk[1]}) /\ MIS!Range(Tail(walk)) = path \ {walk[1]}
  <1>1. PICK n : n = Len(walk)
    OBVIOUS
  <1>2. /\ walk \in Seq(path) /\ n \in Nat /\ n > 0 /\ \A i \in 1..n : walk[i] \in path
        /\ \A i, j \in 1..n : walk[i] = walk[j] => i = j
        /\ \A v \in path : \E i \in 1..n : walk[i] = v
        /\ DOMAIN walk = 1..n
    <2>1. /\ walk \in Seq(path) /\ n \in Nat /\ n > 0
          /\ \A i, j \in 1..n : walk[i] = walk[j] => i = j
          /\ \A v \in path : \E i \in 1..n : walk[i] = v
      BY <1>1 DEF Passes
    <2>2. DOMAIN walk = 1..n /\ walk \in [1..n -> path]
      BY <1>1, <2>1, LenProperties
    <2> QED
      BY <2>1, <2>2
  <1>3. MIS!Range(walk) = path
    <2>1. MIS!Range(walk) = {walk[i] : i \in 1..n}
      BY <1>2, MisSequences
    <2> QED
      BY <1>2, <2>1
  <1>4. PICK tail : tail = Tail(walk)
    OBVIOUS
  <1>5. /\ tail \in Seq(path) /\ Len(tail) = n - 1 /\ DOMAIN tail = 1..(n - 1)
        /\ \A i \in 1..(n - 1) : tail[i] = walk[i + 1]
    <2>1. walk # <<>>
      BY <1>1, <1>2
    <2>2. /\ tail \in Seq(path) /\ Len(tail) = n - 1
          /\ \A i \in 1..Len(tail) : tail[i] = walk[i + 1]
      BY <1>1, <1>2, <1>4, <2>1, HeadTailProperties
    <2> QED
      BY <2>2, LenProperties
  <1>6. \A i \in 1..(n - 1) : tail[i] \in path \ {walk[1]}
    <2>1. ASSUME NEW i \in 1..(n - 1)
          PROVE  tail[i] \in path \ {walk[1]}
      <3>1. i + 1 \in 1..n /\ i + 1 # 1 /\ 1 \in 1..n
        BY <1>2
      <3> QED
        BY <1>2, <1>5, <3>1
    <2> QED
      BY <2>1
  <1>7. MIS!Range(tail) = path \ {walk[1]}
    <2>1. ASSUME NEW v \in path, v # walk[1]
          PROVE  \E i \in 1..(n - 1) : tail[i] = v
      <3>1. PICK i \in 1..n : walk[i] = v
        BY <1>2
      <3>2. i - 1 \in 1..(n - 1) /\ (i - 1) + 1 = i
        BY <1>2, <2>1, <3>1
      <3> QED
        BY <1>5, <3>1, <3>2
    <2>2. MIS!Range(tail) = {tail[i] : i \in 1..(n - 1)}
      BY <1>5, MisSequences
    <2> QED
      BY <1>6, <2>1, <2>2
  <1>8. tail \in Seq(path \ {walk[1]})
    <2>1. n - 1 \in Nat /\ tail \in [1..(n - 1) -> path \ {walk[1]}]
      BY <1>2, <1>5, <1>6, LenProperties
    <2> QED
      BY <2>1, SeqDef
  <1> QED
    BY <1>2, <1>3, <1>4, <1>7, <1>8

(***************************************************************************)
(* What the reductions do, case by case.                                   *)
(***************************************************************************)

LEMMA CutOutFit ==
    ASSUME NEW g, DOMAIN g = Fields, DOMAIN g.degree = g.vertices, g.vertices \subseteq Vertices, Fit(g),
           NEW path \in SUBSET OfDegree(g, 2), NEW walk, NEW v, NEW w,
           Ends2(g, path, walk, v, w), v # w, NEW h, h = MIS!CutOut(g, walk, v, w)
    PROVE  Stuck(h) \/ Fit(h)
  <1> DEFINE odd == Len(walk) % 2 = 1
  <1>1. PICK cut : cut = IF odd THEN Tail(walk) ELSE walk
    OBVIOUS
  <1>2. PICK a : a = IF odd THEN walk[1] ELSE v
    OBVIOUS
  <1>3. h = Joined(g, cut, a, w)
    BY <1>1, <1>2 DEF MIS!CutOut, Joined
  <1>4. /\ Passes(walk, path) /\ Len(walk) > 0 /\ Len(walk) \in Nat
        /\ v \in Present(g) \ path /\ w \in Present(g) \ path /\ g.degree[v] > 2 /\ g.degree[w] > 2
        /\ EdgesInv(g) /\ Present(g) \subseteq g.vertices /\ path \subseteq Present(g)
    BY DEF Ends2, Passes, Fit, Counted, Present, OfDegree
  <1>5. /\ walk \in Seq(path) /\ MIS!Range(walk) = path /\ walk[1] \in path
        /\ Tail(walk) \in Seq(path \ {walk[1]}) /\ MIS!Range(Tail(walk)) = path \ {walk[1]}
    BY <1>4, WalkRanges
  <1>6. Joins(g, cut, a, w, h)
    <2>1. a \in g.vertices /\ w \in g.vertices /\ a # w
      BY <1>2, <1>4, <1>5
    <2>2. a \notin MIS!Range(cut) /\ w \notin MIS!Range(cut)
      <3>1. CASE odd
        BY <1>1, <1>2, <1>4, <1>5, <3>1
      <3>2. CASE ~odd
        BY <1>1, <1>2, <1>4, <1>5, <3>2
      <3> QED
        BY <3>1, <3>2
    <2>3. a \notin g.deleted /\ w \notin g.deleted
      BY <1>2, <1>4, <1>5 DEF Present
    <2> QED
      BY <1>3, <2>1, <2>2, <2>3, JoinEffect
  <1>7. CASE Len(walk) = 1
    <2>1. odd
      BY <1>7
    <2>2. cut = Tail(walk) /\ walk # <<>> /\ cut \in Seq(path \ {walk[1]})
      BY <1>1, <1>4, <1>5, <1>7, <2>1
    <2>3. cut \in Seq({})
      <3>1. Len(cut) = 0
        BY <1>5, <1>7, <2>2, HeadTailProperties
      <3>2. cut = <<>>
        BY <2>2, <3>1, EmptySeq
      <3> QED
        BY <3>2, EmptySeq
    <2>4. w \in g.adjacent[a]
      <3>1. w \in MIS!Live(g, walk[1])
        BY <1>7 DEF Ends2
      <3> QED
        BY <1>2, <2>1, <3>1 DEF MIS!Live
    <2> QED
      BY <1>6, <2>3, <2>4, JoinNothing
  <1>8. CASE Len(walk) > 1 /\ odd
    <2>1. Hangs(g, path \ {walk[1]}, a, w, walk[2], walk[Len(walk)]) /\ w \notin g.adjacent[a]
      BY <1>2, <1>4, <1>8, TailHangs
    <2>2. g.degree[a] = 2
      BY <1>2, <1>5, <1>8 DEF OfDegree
    <2>3. cut \in Seq(path \ {walk[1]}) /\ MIS!Range(cut) = path \ {walk[1]}
      BY <1>1, <1>5, <1>8
    <2> QED
      BY <1>4, <1>6, <2>1, <2>2, <2>3, JoinFit
  <1>9. CASE Len(walk) > 1 /\ ~odd
    <2>1. Hangs(g, path, a, w, walk[1], walk[Len(walk)]) /\ g.degree[a] > 2
      BY <1>2, <1>4, <1>9, PathHangs
    <2>2. cut \in Seq(path) /\ MIS!Range(cut) = path
      BY <1>1, <1>5, <1>9
    <2> QED
      BY <1>4, <1>6, <2>1, <2>2, JoinFit
  <1>10. Len(walk) = 1 \/ Len(walk) > 1
    <2>1. \A n \in Nat : n > 0 => n = 1 \/ n > 1
      OBVIOUS
    <2> QED
      BY <1>4, <2>1
  <1> QED
    BY <1>7, <1>8, <1>9, <1>10

\* A vertex of a higher degree leaves the third bucket when it is deleted.
LEMMA DeleteHubFit ==
    ASSUME NEW g, DOMAIN g = Fields, DOMAIN g.degree = g.vertices, g.vertices \subseteq Vertices, Fit(g),
           NEW x \in Present(g), g.degree[x] # 0,
           NEW h, h = MIS!DeleteVertex(g, x)
    PROVE  /\ Stuck(h) \/ Fit(h)
           /\ g.degree[x] > 2 => Fit(h)
  <1>1. Reached(g, Forgotten(g) \ {x}) /\ Counted(g) /\ OnesAt(g, x)
    BY DEF Fit, Reached, OnesAt
  <1>2. (x \in h.more /\ Stuck(h)) \/ Fit(h)
    BY <1>1, DeleteFit
  <1>3. g.degree[x] > 2 => x \notin h.more
    <2>1. PICK hit : hit = IF g.degree[x] = 0 THEN {} ELSE MIS!Live(g, x)
      OBVIOUS
    <2>2. Deletes(g, x, h, hit)
      BY <2>1, DeleteEffect
    <2> QED
      BY <2>2 DEF Deletes
  <1> QED
    BY <1>2, <1>3

LEMMA DeleteBothFit ==
    ASSUME NEW g, DOMAIN g = Fields, DOMAIN g.degree = g.vertices, g.vertices \subseteq Vertices, Fit(g),
           NEW v \in Present(g), NEW w \in Present(g), v # w, g.degree[v] > 2, g.degree[w] > 2,
           NEW h, h = MIS!DeleteVertex(MIS!DeleteVertex(g, v), w)
    PROVE  Stuck(h) \/ Fit(h)
  <1>1. PICK r : r = MIS!DeleteVertex(g, v)
    OBVIOUS
  <1>2. PICK hit : hit = IF g.degree[v] = 0 THEN {} ELSE MIS!Live(g, v)
    OBVIOUS
  <1>3. Deletes(g, v, r, hit)
    BY <1>1, <1>2, DeleteEffect
  <1>4. Fit(r)
    BY <1>1, DeleteHubFit
  <1>5. w \in Present(r) /\ DOMAIN r = Fields /\ DOMAIN r.degree = r.vertices /\ r.vertices \subseteq Vertices
    BY <1>3 DEF Deletes, Present
  <1>6. r.degree[w] # 0
    <2>1. g.degree[w] \in Nat /\ w \in g.vertices
      BY LiveNeighbors DEF Fit, Counted, Present
    <2> QED
      BY <1>3, <2>1 DEF Deletes, MIS!Decrement
  <1> QED
    BY <1>1, <1>4, <1>5, <1>6, DeleteHubFit

(***************************************************************************)
(* The reductions.                                                         *)
(***************************************************************************)

\* Shape and all, one graph becomes another.
Keeps(s, h) == Shaped(h) /\ h.vertices = s.vertices /\ (Fit(h) \/ Stuck(h))

LEMMA DeleteShape ==
    ASSUME NEW g, Shaped(g), NEW x, NEW h, h = MIS!DeleteVertex(g, x)
    PROVE  Shaped(h) /\ h.vertices = g.vertices
  <1>1. PICK hit : hit = IF g.degree[x] = 0 THEN {} ELSE MIS!Live(g, x)
    OBVIOUS
  <1>2. Deletes(g, x, h, hit)
    BY <1>1, DeleteEffect DEF Shaped
  <1> QED
    BY <1>2 DEF Deletes, Shaped

\* Taking u from the first bucket, with pending neighbors.
PopsOne(s, u, pending, g) ==
    /\ DOMAIN g = Fields /\ DOMAIN g.degree = g.vertices
    /\ g.vertices = s.vertices /\ g.adjacent = s.adjacent /\ g.degree = s.degree
    /\ g.deleted = s.deleted /\ g.set = s.set /\ g.one = s.one \ {u} /\ g.two = s.two
    /\ g.more = s.more /\ g.stack = s.stack /\ g.pending = pending

LEMMA PopOneEffect ==
    ASSUME NEW s, Shaped(s), NEW u
    PROVE  PopsOne(s, u, s.pending, MIS!WithoutOne(s, u))
  BY DEF PopsOne, Shaped, Fields, MIS!WithoutOne

LEMMA PendingEffect ==
    ASSUME NEW s, NEW u, NEW g, PopsOne(s, u, s.pending, g), NEW pending
    PROVE  PopsOne(s, u, pending, MIS!WithPending(g, pending))
  BY DEF PopsOne, Fields, MIS!WithPending

\* The neighbor of a vertex of degree one: the only one there is.
LEMMA OneFit ==
    ASSUME NEW s, Shaped(s), Fit(s), NEW u \in s.one, NEW v \in MIS!Live(s, u),
           NEW g, PopsOne(s, u, MIS!Live(s, u) \ {v}, g), NEW h, h = MIS!DeleteVertex(g, v)
    PROVE  Fit(h) \/ Stuck(h)
  <1>1. /\ EdgesInv(s) /\ u \in OfDegree(s, 1) /\ u \in Present(s) /\ u \in s.vertices
        /\ s.vertices \subseteq Vertices
    BY DEF Fit, Counted, OfDegree, Present, Shaped
  <1>2. MIS!Live(s, u) = {v} /\ v \in Present(s)
    <2>1. IsFiniteSet(MIS!Live(s, u)) /\ Cardinality(MIS!Live(s, u)) = 1
      BY <1>1, LiveNeighbors DEF Fit, Counted, OfDegree
    <2>2. \E x : MIS!Live(s, u) = {x}
      BY <2>1, FS_Singleton
    <2>3. MIS!Live(s, u) \subseteq Present(s)
      BY <1>1, LiveNeighbors
    <2> QED
      BY <2>2, <2>3
  <1>3. Present(g) = Present(s) /\ \A x : MIS!Live(g, x) = MIS!Live(s, x)
    BY DEF PopsOne, Present, MIS!Live
  <1>4. \A n : OfDegree(g, n) = OfDegree(s, n)
    BY <1>3 DEF PopsOne, OfDegree
  <1>5. EdgesInv(g) /\ Independent(g)
    BY DEF PopsOne, Fit, Counted, EdgesInv, Independent
  <1>6. Counted(g)
    BY <1>2, <1>3, <1>4, <1>5 DEF PopsOne, Fit, Counted
  <1>7. OnesAt(g, v)
    BY <1>2, <1>3, <1>4 DEF OnesAt, PopsOne, Fit
  <1>8. Reached(g, Forgotten(g) \ {v})
    BY <1>3, <1>4 DEF PopsOne, Fit, Reached, Forgotten
  <1>9. g.degree[v] # 0
    <2>1. u \in MIS!Live(s, v) /\ v \in s.vertices
      BY <1>1, <1>2, LiveIsMutual DEF Present
    <2>2. Cardinality(MIS!Live(s, v)) # 0
      BY <1>1, <2>1, LiveNeighbors
    <2> QED
      BY <1>2, <2>2 DEF Fit, Counted, PopsOne
  <1>10. DOMAIN g = Fields /\ DOMAIN g.degree = g.vertices /\ g.vertices \subseteq Vertices /\ v \in Present(g)
    BY <1>1, <1>2, <1>3 DEF PopsOne
  <1> QED
    BY <1>6, <1>7, <1>8, <1>9, <1>10, DeleteFit

LEMMA OneKeeps ==
    ASSUME NEW s, Shaped(s), Fit(s) \/ Stuck(s), NEW u \in s.one, s.pending = {},
           NEW g, g = MIS!WithoutOne(s, u), NEW h,
           \/ MIS!Live(g, u) = {} /\ h = g
           \/ \E v \in MIS!Live(g, u) : h = MIS!DeleteVertex(MIS!WithPending(g, MIS!Live(g, u) \ {v}), v)
    PROVE  Keeps(s, h)
  <1>1. PopsOne(s, u, s.pending, g)
    BY PopOneEffect
  <1>2. MIS!Live(g, u) = MIS!Live(s, u)
    BY <1>1 DEF PopsOne, MIS!Live
  <1>3. CASE MIS!Live(g, u) = {} /\ h = g
    <2>1. ~Fit(s)
      <3>1. SUFFICES ASSUME Fit(s)
                     PROVE  FALSE
        OBVIOUS
      <3>2. s.degree[u] = 1 /\ s.degree[u] = Cardinality(MIS!Live(s, u))
        BY <3>1 DEF Fit, Counted, OfDegree
      <3>3. Cardinality(MIS!Live(s, u)) = 0
        BY <1>2, <1>3, FS_EmptySet
      <3> QED
        BY <3>2, <3>3
    <2>2. PICK z \in s.vertices : Stays(s, z)
      BY <2>1 DEF Stuck
    <2>3. Stays(h, z) /\ z \in h.vertices
      BY <1>1, <1>3, <2>2 DEF PopsOne, Stays
    <2> QED
      BY <1>1, <1>3, <2>3 DEF Keeps, Stuck, PopsOne, Shaped
  <1>4. ASSUME NEW v \in MIS!Live(g, u), h = MIS!DeleteVertex(MIS!WithPending(g, MIS!Live(g, u) \ {v}), v)
        PROVE  Keeps(s, h)
    <2>1. PICK r : r = MIS!WithPending(g, MIS!Live(g, u) \ {v})
      OBVIOUS
    <2>2. PopsOne(s, u, MIS!Live(s, u) \ {v}, r) /\ h = MIS!DeleteVertex(r, v)
      BY <1>1, <1>2, <1>4, <2>1, PendingEffect
    <2>3. Shaped(r) /\ r.vertices = s.vertices
      BY <2>2 DEF PopsOne, Shaped
    <2>4. Shaped(h) /\ h.vertices = s.vertices
      BY <2>2, <2>3, DeleteShape
    <2>5. CASE Fit(s)
      BY <1>2, <1>4, <2>2, <2>4, <2>5, OneFit DEF Keeps
    <2>6. CASE Stuck(s)
      <3>1. PICK z \in s.vertices : Stays(s, z)
        BY <2>6 DEF Stuck
      <3>2. Stays(r, z) /\ v # z
        BY <1>2, <1>4, <2>2, <3>1 DEF Stays, PopsOne, MIS!Live
      <3>3. Stays(h, z)
        BY <2>2, <2>3, <3>2, DeleteStays DEF Shaped
      <3> QED
        BY <2>4, <3>1, <3>3 DEF Keeps, Stuck
    <2> QED
      BY <2>5, <2>6
  <1> QED
    BY <1>3, <1>4

LEMMA SecondNeighbor ==
    ASSUME NEW g, g.vertices \subseteq Vertices, Counted(g), NEW v \in OfDegree(g, 2), NEW a
    PROVE  \E b \in MIS!Live(g, v) : b # a
  <1>1. v \in g.vertices /\ EdgesInv(g) /\ Cardinality(MIS!Live(g, v)) = 2
    BY DEF OfDegree, Present, Counted
  <1>2. PICK live : live = MIS!Live(g, v)
    OBVIOUS
  <1>3. IsFiniteSet(live) /\ Cardinality(live) = 2
    BY <1>1, <1>2, LiveNeighbors
  <1>4. Cardinality(live \ {a}) = 1 \/ Cardinality(live \ {a}) = 2
    BY <1>3, FS_RemoveElement
  <1>5. live \ {a} # {}
    BY <1>4, FS_EmptySet
  <1> QED
    BY <1>2, <1>5

\* A path that has one end has two, and the walk ends at the other.
LEMMA WalkHasEnds ==
    ASSUME NEW g, g.vertices \subseteq Vertices, Counted(g), NEW path \in SUBSET OfDegree(g, 2), path # {},
           Whole(g, path), NEW walk \in MIS!Walks(g, path)
    PROVE  MIS!Around(g, walk) # {}
  <1>1. Inside(g, path, walk)
    BY WalkInside
  <1>2. PICK n : n = Len(walk)
    OBVIOUS
  <1>3. /\ n \in Nat /\ n > 0 /\ \A i \in 1..n : walk[i] \in path
        /\ \A i, j \in 1..n : walk[i] = walk[j] => i = j
        /\ \A z \in path : \E i \in 1..n : walk[i] = z
    <2>1. /\ n \in Nat /\ n > 0 /\ walk \in Seq(path)
          /\ \A i, j \in 1..n : walk[i] = walk[j] => i = j
          /\ \A z \in path : \E i \in 1..n : walk[i] = z
      BY <1>1, <1>2 DEF Inside, Passes
    <2>2. \A i \in 1..n : walk[i] \in path
      BY <1>2, <2>1
    <2> QED
      BY <2>1, <2>2
  <1>4. PICK v : v \in MIS!Outer(g, walk[1])
    <2>1. MIS!Outer(g, walk[1]) # {}
      BY WalkBranches
    <2> QED
      BY <2>1
  <1>5. v \in MIS!Live(g, walk[1]) /\ v \notin path /\ walk[1] \in OfDegree(g, 2) /\ walk[n] \in OfDegree(g, 2)
    BY <1>3, <1>4 DEF MIS!Outer, OfDegree
  <1>6. ASSUME NEW z \in path, NEW y \in MIS!Live(g, z), y \notin path
        PROVE  y \in MIS!Outer(g, z)
    <2>1. EdgesInv(g) /\ z \in g.vertices /\ z \in Present(g)
      BY DEF Counted, OfDegree, Present
    <2>2. y \in Present(g) /\ y \notin OfDegree(g, 2)
      BY <1>6, <2>1, LiveNeighbors DEF Whole
    <2> QED
      BY <2>2 DEF MIS!Outer, OfDegree
  <1>7. path \subseteq Present(g) /\ EdgesInv(g)
    BY DEF Counted, OfDegree
  <1>8. CASE n = 1
    <2>1. PICK w \in MIS!Live(g, walk[1]) : w # v
      BY <1>5, SecondNeighbor
    <2>2. w \notin path
      <3>1. walk[1] \notin MIS!Live(g, walk[1])
        BY <1>3, <1>7, LiveNeighbors DEF Present
      <3> QED
        BY <1>3, <1>8, <2>1, <3>1
    <2>3. w \in MIS!Outer(g, walk[1])
      BY <1>3, <1>6, <2>1, <2>2
    <2>4. <<v, w>> \in MIS!Around(g, walk)
      BY <1>2, <1>4, <1>8, <2>1, <2>3 DEF MIS!Around
    <2> QED
      BY <2>4
  <1>9. CASE n > 1
    <2>1. PICK w \in MIS!Live(g, walk[n]) : w # walk[n - 1]
      <3>1. PICK x, y : x = walk[n] /\ y = walk[n - 1]
        OBVIOUS
      <3>2. \E b \in MIS!Live(g, x) : b # y
        BY <1>5, <3>1, SecondNeighbor
      <3> QED
        BY <3>1, <3>2
    <2>2. ASSUME NEW k \in 1..n, w = walk[k]
          PROVE  FALSE
      <3>1. walk[n] \in path /\ walk[k] \in path /\ k # n - 1
        BY <1>3, <2>1, <2>2
      <3>2. k # n
        BY <1>7, <2>1, <2>2, <3>1, LiveNeighbors DEF Present
      <3>3. walk[n] \in MIS!Live(g, walk[k])
        BY <1>7, <2>1, <2>2, <3>1, LiveIsMutual
      <3>4. CASE k = 1
        <4>1. walk[2] \in MIS!Live(g, walk[1]) /\ walk[2] # v
          BY <1>1, <1>2, <1>3, <1>5, <1>9 DEF Inside
        <4>2. MIS!Live(g, walk[1]) = {v, walk[2]}
          BY <1>5, <4>1, TwoNeighbors
        <4>3. walk[n] = walk[2]
          BY <1>5, <3>1, <3>3, <3>4, <4>2
        <4> QED
          BY <1>3, <1>9, <3>1, <3>4, <4>3
      <3>5. CASE k # 1
        <4>1. k \in 2..(n - 1)
          BY <1>3, <3>2, <3>5
        <4>2. walk[n] = walk[k - 1] \/ walk[n] = walk[k + 1]
          BY <1>1, <1>2, <3>3, <4>1 DEF Inside
        <4>3. k - 1 \in 1..n /\ k + 1 \in 1..n /\ n \in 1..n /\ k - 1 # n /\ k + 1 # n
          BY <1>3, <3>1, <4>1
        <4> QED
          BY <1>3, <4>2, <4>3
      <3> QED
        BY <3>4, <3>5
    <2>3. w \notin path
      BY <1>3, <2>2
    <2>4. w \in MIS!Outer(g, walk[n])
      BY <1>3, <1>6, <2>1, <2>3
    <2>5. <<v, w>> \in MIS!Around(g, walk)
      BY <1>2, <1>4, <1>9, <2>4 DEF MIS!Around
    <2> QED
      BY <2>5
  <1> QED
    BY <1>3, <1>8, <1>9

(***************************************************************************)
(* What the reduction of a path keeps.                                     *)
(***************************************************************************)

\* A deleted vertex in the third bucket stays there, whatever is cut out and joined.
LEMMA JoinStays ==
    ASSUME NEW g, Shaped(g), NEW cut, NEW a, NEW w, NEW h, h = Joined(g, cut, a, w)
    PROVE  /\ Shaped(h) /\ h.vertices = g.vertices
           /\ \A z : Stays(g, z) /\ z # a /\ z # w => Stays(h, z)
  <1>1. PICK r : r = MIS!RemovePath(g, cut)
    OBVIOUS
  <1>2. DOMAIN g = Fields /\ DOMAIN g.degree = g.vertices /\ g.vertices \subseteq Vertices
    BY DEF Shaped
  <1>3. /\ DOMAIN r = Fields /\ r.vertices = g.vertices /\ r.more = g.more /\ r.pending = g.pending
        /\ r.deleted = g.deleted \cup MIS!Range(cut) /\ r.two = g.two \ MIS!Range(cut)
        /\ r.degree = [u \in g.vertices |-> IF u \in g.deleted THEN g.degree[u] ELSE Fallen(g, cut, u)]
    BY <1>1, <1>2, MisGraph DEF MIS!RemovePath, Fields, Fallen
  <1>4. PICK s : s = MIS!AddEdge(r, a, w)
    OBVIOUS
  <1>5. \/ s = r
        \/ s = [r EXCEPT !.adjacent[a] = @ \cup {w}, !.adjacent[w] = @ \cup {a},
                         !.degree[a] = MIS!Increment(@), !.degree[w] = MIS!Increment(@)]
    BY <1>4 DEF MIS!AddEdge
  <1>6. /\ DOMAIN s = Fields /\ s.vertices = r.vertices /\ s.more = r.more /\ s.pending = r.pending
        /\ s.deleted = r.deleted /\ s.two = r.two /\ DOMAIN s.degree = DOMAIN r.degree
        /\ \A u \in DOMAIN r.degree : u # a /\ u # w => s.degree[u] = r.degree[u]
    <2>1. CASE s = r
      BY <1>3, <2>1
    <2>2. CASE s # r
      <3>1. s = [r EXCEPT !.adjacent[a] = @ \cup {w}, !.adjacent[w] = @ \cup {a},
                          !.degree[a] = MIS!Increment(@), !.degree[w] = MIS!Increment(@)]
        BY <1>5, <2>2
      <3>2. /\ DOMAIN s = Fields /\ s.vertices = r.vertices /\ s.more = r.more /\ s.pending = r.pending
            /\ s.deleted = r.deleted /\ s.two = r.two
        BY <1>3, <3>1 DEF Fields
      <3>3. s.degree = [r.degree EXCEPT ![a] = MIS!Increment(@), ![w] = MIS!Increment(@)]
        BY <1>3, <3>1 DEF Fields
      <3>4. DOMAIN s.degree = DOMAIN r.degree
        BY <3>3
      <3>5. \A x \in DOMAIN r.degree : x # a /\ x # w => s.degree[x] = r.degree[x]
        BY <3>3
      <3> QED
        BY <3>2, <3>4, <3>5
    <2> QED
      BY <2>1, <2>2
  <1>7. h = [s EXCEPT !.stack = @ \o MIS!Reverse(cut)]
    BY <1>1, <1>4 DEF Joined
  <1>8. /\ DOMAIN h = Fields /\ h.vertices = s.vertices /\ h.more = s.more /\ h.pending = s.pending
        /\ h.deleted = s.deleted /\ h.two = s.two /\ h.degree = s.degree
    BY <1>6, <1>7 DEF Fields
  <1>9. Shaped(h) /\ h.vertices = g.vertices
    BY <1>2, <1>3, <1>6, <1>8 DEF Shaped
  <1>10. ASSUME NEW z, Stays(g, z), z # a, z # w
         PROVE  Stays(h, z)
    <2>1. h.degree[z] = g.degree[z]
      BY <1>3, <1>6, <1>8, <1>10 DEF Stays
    <2> QED
      BY <1>3, <1>6, <1>8, <1>10, <2>1 DEF Stays
  <1> QED
    BY <1>9, <1>10

\* A path holds the vertex it was found from, and otherwise none that is deleted.
LEMMA PathIsLive ==
    ASSUME NEW g, NEW u, NEW path, path = MIS!TwoPath(g, u)
    PROVE  u \in path /\ path \subseteq Present(g) \cup {u}
  BY DEF MIS!TwoPath, Present

LEMMA WalkStarts ==
    ASSUME NEW g, g.vertices \subseteq Vertices, NEW u, NEW path \in SUBSET (Present(g) \cup {u}), u \in path,
           NEW walk \in MIS!Walks(g, path)
    PROVE  walk[1] \in path
  <1>1. IsFiniteSet(Vertices)
    BY VerticesAreNumbers
  <1>2. Present(g) \subseteq Vertices
    BY DEF Present
  <1>3. IsFiniteSet(Present(g))
    BY <1>1, <1>2, FS_Subset
  <1>4. IsFiniteSet(Present(g) \cup {u})
    BY <1>3, FS_AddElement
  <1>5. IsFiniteSet(path)
    BY <1>4, FS_Subset
  <1>6. PICK n : n = Cardinality(path)
    OBVIOUS
  <1>7. n \in Nat /\ n # 0
    BY <1>5, <1>6, FS_CardinalityType, FS_EmptySet
  <1>8. walk \in MIS!SetToSeqs(path)
    BY DEF MIS!Walks
  <1>9. walk \in [1..n -> path]
    BY <1>6, <1>8, MisGraph DEF MIS!SetToSeqs
  <1> QED
    BY <1>7, <1>9

\* What is done with the walk of a path and a pair of vertices around it.
Reduces(g, walk, v, w, h) ==
    h = IF v = w THEN MIS!DeleteVertex(g, v)
        ELSE IF Len(walk) % 2 = 1 /\ MIS!HasEdge(g, v, w) THEN MIS!DeleteVertex(MIS!DeleteVertex(g, v), w)
        ELSE MIS!CutOut(g, walk, v, w)

LEMMA AroundIsLive ==
    ASSUME NEW g, NEW walk, NEW e \in MIS!Around(g, walk)
    PROVE  e[1] \notin g.deleted /\ e[2] \notin g.deleted
  <1>1. e \in MIS!Outer(g, walk[1]) \X MIS!Outer(g, walk[1]) \/ e \in MIS!Outer(g, walk[1]) \X MIS!Outer(g, walk[Len(walk)])
    BY DEF MIS!Around
  <1>2. \A x : MIS!Outer(g, x) \cap g.deleted = {}
    BY DEF MIS!Outer, MIS!Live
  <1> QED
    BY <1>1, <1>2

LEMMA ReducesShape ==
    ASSUME NEW g, Shaped(g), NEW walk, NEW v, NEW w, NEW h, Reduces(g, walk, v, w, h)
    PROVE  /\ Shaped(h) /\ h.vertices = g.vertices
           /\ \A z : Stays(g, z) /\ z # v /\ z # w /\ z # walk[1] => Stays(h, z)
  <1>1. ASSUME NEW f, Shaped(f), NEW x, NEW r, r = MIS!DeleteVertex(f, x)
        PROVE  Shaped(r) /\ r.vertices = f.vertices /\ \A z : Stays(f, z) /\ z # x => Stays(r, z)
    <2>1. Shaped(r) /\ r.vertices = f.vertices
      BY <1>1, DeleteShape
    <2>2. \A z : Stays(f, z) /\ z # x => Stays(r, z)
      BY <1>1, DeleteStays DEF Shaped
    <2> QED
      BY <2>1, <2>2
  <1>2. CASE h = MIS!DeleteVertex(g, v)
    BY <1>1, <1>2
  <1>3. CASE h = MIS!DeleteVertex(MIS!DeleteVertex(g, v), w)
    <2>1. PICK r : r = MIS!DeleteVertex(g, v)
      OBVIOUS
    <2>2. Shaped(r) /\ r.vertices = g.vertices /\ \A z : Stays(g, z) /\ z # v => Stays(r, z)
      BY <1>1, <2>1
    <2>3. h = MIS!DeleteVertex(r, w)
      BY <1>3, <2>1
    <2>4. Shaped(h) /\ h.vertices = r.vertices /\ \A z : Stays(r, z) /\ z # w => Stays(h, z)
      BY <1>1, <2>2, <2>3
    <2> QED
      BY <2>2, <2>4
  <1>4. CASE h = MIS!CutOut(g, walk, v, w)
    <2> DEFINE odd == Len(walk) % 2 = 1
    <2>1. PICK cut : cut = IF odd THEN Tail(walk) ELSE walk
      OBVIOUS
    <2>2. PICK a : a = IF odd THEN walk[1] ELSE v
      OBVIOUS
    <2>3. h = Joined(g, cut, a, w) /\ (a = v \/ a = walk[1])
      BY <1>4, <2>1, <2>2 DEF MIS!CutOut, Joined
    <2>4. /\ Shaped(h) /\ h.vertices = g.vertices
          /\ \A z : Stays(g, z) /\ z # a /\ z # w => Stays(h, z)
      BY <2>3, JoinStays
    <2> QED
      BY <2>3, <2>4
  <1> QED
    BY <1>2, <1>3, <1>4 DEF Reduces

LEMMA ReducesFit ==
    ASSUME NEW g, Shaped(g), Fit(g), g.one = {},
           NEW path \in SUBSET OfDegree(g, 2), path # {}, NEW walk \in MIS!Walks(g, path),
           NEW e \in MIS!Around(g, walk), NEW h, Reduces(g, walk, e[1], e[2], h)
    PROVE  Fit(h) \/ Stuck(h)
  <1>1. DOMAIN g = Fields /\ DOMAIN g.degree = g.vertices /\ g.vertices \subseteq Vertices
    BY DEF Shaped
  <1>2. PICK v, w : v = e[1] /\ w = e[2]
    OBVIOUS
  <1>3. Ends2(g, path, walk, v, w)
    BY <1>1, <1>2, WalkEnds
  <1>4. v \in Present(g) /\ w \in Present(g) /\ g.degree[v] > 2 /\ g.degree[w] > 2 /\ g.degree[v] # 0
    BY <1>3 DEF Ends2
  <1>5. CASE v = w /\ h = MIS!DeleteVertex(g, v)
    BY <1>1, <1>4, <1>5, DeleteHubFit
  <1>6. CASE v # w /\ h = MIS!DeleteVertex(MIS!DeleteVertex(g, v), w)
    BY <1>1, <1>4, <1>6, DeleteBothFit
  <1>7. CASE v # w /\ h = MIS!CutOut(g, walk, v, w)
    BY <1>1, <1>3, <1>7, CutOutFit
  <1> QED
    BY <1>2, <1>5, <1>6, <1>7 DEF Reduces

LEMMA TwoKeeps ==
    ASSUME NEW s, Shaped(s), Fit(s) \/ Stuck(s), s.one = {}, NEW u \in s.two,
           NEW g, g = MIS!WithoutTwo(s, u), NEW path, path = MIS!TwoPath(g, u), NEW h,
           \/ (\A v \in path : MIS!Live(g, v) \subseteq path) /\ h = MIS!DeleteVertex(g, u)
           \/ /\ ~(\A v \in path : MIS!Live(g, v) \subseteq path)
              /\ \E walk \in MIS!Walks(g, path) :
                    \/ MIS!Around(g, walk) = {} /\ h = g
                    \/ \E e \in MIS!Around(g, walk) : Reduces(g, walk, e[1], e[2], h)
    PROVE  /\ Keeps(s, h)
           /\ Fit(s) /\ ~(\A v \in path : MIS!Live(g, v) \subseteq path)
                => \A walk \in MIS!Walks(g, path) : MIS!Around(g, walk) # {}
  <1> DEFINE isCycle == \A v \in path : MIS!Live(g, v) \subseteq path
  <1>1. PopsTwo(s, u, g)
    BY PopTwoEffect DEF Shaped
  <1>2. /\ Shaped(g) /\ g.vertices = s.vertices /\ g.one = {} /\ DOMAIN g = Fields
        /\ DOMAIN g.degree = g.vertices /\ g.vertices \subseteq Vertices
    BY <1>1 DEF PopsTwo, Shaped
  <1>3. u \in path /\ path \subseteq Present(g) \cup {u}
    BY PathIsLive
  <1>4. CASE Fit(s)
    <2>1. /\ u \in OfDegree(g, 2) /\ Counted(g) /\ OfDegree(g, 1) \subseteq g.one
          /\ Reached(g, Forgotten(g) \ {u}) /\ (g.vertices # {} => g.set \cup Present(g) # {})
      BY <1>1, <1>2, <1>4, PopTwo
    <2>2. path \subseteq OfDegree(g, 2) /\ Whole(g, path)
      BY <2>1, PathIsClosed
    <2>3. ~isCycle => Fit(g)
      <3>1. SUFFICES ASSUME NEW v \in path, ~(MIS!Live(g, v) \subseteq path)
                     PROVE  Fit(g)
        OBVIOUS
      <3>2. Reached(g, Forgotten(g))
        BY <2>1, <3>1, PathIsReached
      <3> QED
        BY <2>1, <3>2 DEF Fit
    <2>4. \A walk \in MIS!Walks(g, path) : MIS!Around(g, walk) # {}
      BY <1>2, <1>3, <2>1, <2>2, WalkHasEnds
    <2>5. CASE isCycle /\ h = MIS!DeleteVertex(g, u)
      <3>1. u \in Present(g) /\ g.degree[u] # 0
        BY <2>1 DEF OfDegree
      <3>2. OnesAt(g, u)
        BY <2>1 DEF OnesAt
      <3>3. Fit(h) \/ Stuck(h)
        BY <1>2, <2>1, <2>5, <3>1, <3>2, DeleteFit
      <3>4. Shaped(h) /\ h.vertices = g.vertices
        BY <1>2, <2>5, DeleteShape
      <3> QED
        BY <1>2, <2>4, <3>3, <3>4 DEF Keeps
    <2>6. CASE ~isCycle
      <3>1. PICK walk \in MIS!Walks(g, path) : \E e \in MIS!Around(g, walk) : Reduces(g, walk, e[1], e[2], h)
        BY <2>4, <2>6
      <3>2. PICK e \in MIS!Around(g, walk) : Reduces(g, walk, e[1], e[2], h)
        BY <3>1
      <3>3. Fit(g) /\ path # {}
        BY <1>3, <2>3, <2>6
      <3>4. Fit(h) \/ Stuck(h)
        BY <1>2, <2>2, <3>1, <3>2, <3>3, ReducesFit
      <3>5. Shaped(h) /\ h.vertices = g.vertices
        BY <1>2, <3>2, ReducesShape
      <3> QED
        BY <1>2, <2>4, <3>4, <3>5 DEF Keeps
    <2> QED
      BY <2>5, <2>6
  <1>5. CASE ~Fit(s) /\ Stuck(s)
    <2>1. PICK z \in s.vertices : Stays(s, z)
      BY <1>5 DEF Stuck
    <2>2. Stays(g, z) /\ z # u /\ z \in g.deleted /\ z \in g.vertices
      BY <1>1, <2>1 DEF Stays, PopsTwo
    <2>3. CASE h = MIS!DeleteVertex(g, u)
      <3>1. Shaped(h) /\ h.vertices = g.vertices
        BY <1>2, <2>3, DeleteShape
      <3>2. Stays(h, z)
        BY <1>2, <2>2, <2>3, DeleteStays
      <3> QED
        BY <1>2, <1>5, <2>2, <3>1, <3>2 DEF Keeps, Stuck
    <2>4. CASE h = g
      BY <1>2, <1>5, <2>2, <2>4 DEF Keeps, Stuck
    <2>5. ASSUME NEW walk \in MIS!Walks(g, path), NEW e \in MIS!Around(g, walk), Reduces(g, walk, e[1], e[2], h)
          PROVE  Keeps(s, h)
      <3>1. z # e[1] /\ z # e[2]
        BY <2>2, AroundIsLive
      <3>2. z # walk[1]
        BY <1>2, <1>3, <2>2, WalkStarts DEF Present
      <3>3. Shaped(h) /\ h.vertices = g.vertices /\ Stays(h, z)
        BY <1>2, <2>2, <2>5, <3>1, <3>2, ReducesShape
      <3> QED
        BY <1>2, <2>2, <3>3 DEF Keeps, Stuck
    <2> QED
      BY <1>5, <2>3, <2>4, <2>5
  <1> QED
    BY <1>4, <1>5

(***************************************************************************)
(* The other steps of a round.                                             *)
(***************************************************************************)

\* Only when a vertex stays in its bucket are neighbors left to come to.
LEMMA PendingKeeps ==
    ASSUME NEW s, Shaped(s), Fit(s) \/ Stuck(s), NEW v \in s.pending,
           NEW g, g = MIS!WithPending(s, s.pending \ {v}), NEW h, h = MIS!DeleteVertex(g, v)
    PROVE  Keeps(s, h)
  <1>1. ~Fit(s)
    BY DEF Fit, Counted
  <1>2. PICK z \in s.vertices : Stays(s, z)
    BY <1>1 DEF Stuck
  <1>3. /\ DOMAIN g = Fields /\ g.vertices = s.vertices /\ g.degree = s.degree
        /\ g.deleted = s.deleted /\ g.two = s.two /\ g.more = s.more /\ g.pending = s.pending \ {v}
    BY DEF MIS!WithPending, Shaped, Fields
  <1>4. Shaped(g) /\ Stays(g, z) /\ v # z
    BY <1>2, <1>3 DEF Shaped, Stays
  <1>5. Shaped(h) /\ h.vertices = g.vertices
    BY <1>4, DeleteShape
  <1>6. Stays(h, z)
    BY <1>4, DeleteStays DEF Shaped
  <1> QED
    BY <1>2, <1>3, <1>5, <1>6 DEF Keeps, Stuck

\* The choice of a vertex of the highest degree.
LEMMA InexactKeeps ==
    ASSUME NEW s, Shaped(s), Fit(s) \/ Stuck(s), NEW v \in s.more, s.degree[v] > 0,
           NEW h, h = MIS!DeleteVertex(s, v)
    PROVE  Keeps(s, h)
  <1>1. Shaped(h) /\ h.vertices = s.vertices
    BY DeleteShape
  <1>2. CASE Fit(s)
    <2>1. v \in Present(s) /\ s.degree[v] \in Nat
      <3>1. v \in Present(s) /\ EdgesInv(s) /\ s.vertices \subseteq Vertices /\ v \in s.vertices
        BY <1>2 DEF Fit, Counted, Shaped, Present
      <3>2. s.degree[v] = Cardinality(MIS!Live(s, v)) /\ Cardinality(MIS!Live(s, v)) \in Nat
        BY <1>2, <3>1, LiveNeighbors DEF Fit, Counted
      <3> QED
        BY <3>1, <3>2
    <2>2. s.degree[v] # 0
      BY <2>1
    <2>3. Stuck(h) \/ Fit(h)
      BY <1>2, <2>1, <2>2, DeleteHubFit DEF Shaped
    <2> QED
      BY <1>1, <2>3 DEF Keeps
  <1>3. CASE Stuck(s)
    <2>1. PICK z \in s.vertices : Stays(s, z)
      BY <1>3 DEF Stuck
    <2>2. v = z => s.degree[v] = 1 \/ s.degree[v] = 2
      <3>1. \A d : d \in 0..2 /\ d > 0 => d = 1 \/ d = 2
        OBVIOUS
      <3> QED
        BY <2>1, <3>1 DEF Stays
    <2>3. Stays(h, z)
      BY <2>1, <2>2, DeleteStays DEF Shaped
    <2> QED
      BY <1>1, <2>1, <2>3 DEF Keeps, Stuck
  <1> QED
    BY <1>2, <1>3

\* With the buckets empty, what is left of the graph is in the set.
LEMMA ReducedFits ==
    ASSUME NEW s, Shaped(s), Fit(s) \/ Stuck(s), s.one = {}, s.two = {}, s.more = {}
    PROVE  /\ EdgesInv(s) /\ Independent(s)
           /\ s.vertices # {} => s.set # {}
  <1>1. Fit(s)
    BY DEF Stuck, Stays
  <1>2. EdgesInv(s) /\ Independent(s) /\ s.vertices \subseteq Vertices
    BY <1>1 DEF Fit, Counted, Shaped
  <1>3. OfDegree(s, 1) = {} /\ OfDegree(s, 0) \subseteq s.set
    BY <1>1 DEF Fit, Counted
  <1>4. ASSUME NEW v \in Present(s)
        PROVE  v \in s.set \/ v \in OfDegree(s, 2)
    <2>1. s.degree[v] \in Nat /\ ~(s.degree[v] > 2)
      <3>1. s.degree[v] = Cardinality(MIS!Live(s, v)) /\ v \in s.vertices
        BY <1>1 DEF Fit, Counted, Present
      <3>2. Cardinality(MIS!Live(s, v)) \in Nat
        BY <1>2, <3>1, LiveNeighbors
      <3>3. ~(s.degree[v] > 2)
        BY <1>1 DEF Fit, Counted
      <3> QED
        BY <3>1, <3>2, <3>3
    <2>2. s.degree[v] = 0 \/ s.degree[v] = 1 \/ s.degree[v] = 2
      BY <2>1
    <2> QED
      BY <1>3, <2>2 DEF OfDegree
  <1>5. OfDegree(s, 2) = {}
    <2>1. SUFFICES ASSUME OfDegree(s, 2) # {}
                   PROVE  FALSE
      OBVIOUS
    <2>2. Forgotten(s) = OfDegree(s, 2)
      BY DEF Forgotten
    <2>3. PICK v \in OfDegree(s, 2) : ~(MIS!Live(s, v) \subseteq OfDegree(s, 2))
      BY <1>1, <2>1, <2>2 DEF Fit, Reached
    <2>4. PICK u \in MIS!Live(s, v) : u \notin OfDegree(s, 2)
      BY <2>3
    <2>5. v \in Present(s) /\ v \in s.vertices
      BY DEF OfDegree, Present
    <2>6. u \in Present(s)
      BY <1>2, <2>4, <2>5, LiveNeighbors
    <2>7. u \in s.set
      BY <1>4, <2>4, <2>6
    <2>8. v \in MIS!Live(s, u)
      BY <1>2, <2>4, <2>5, <2>6, LiveIsMutual
    <2> QED
      BY <1>1, <2>7, <2>8 DEF Fit, Counted
  <1>6. Present(s) \subseteq s.set
    BY <1>4, <1>5
  <1> QED
    BY <1>1, <1>2, <1>6 DEF Fit

LEMMA FrontIsSequence ==
    ASSUME NEW S, NEW q \in Seq(S), Len(q) > 0
    PROVE  MIS!Front(q) \in Seq(S)
  <1>1. PICK n : n = Len(q) - 1
    OBVIOUS
  <1>2. Len(q) \in Nat
    BY LenProperties
  <1>3. 1 \in Int /\ n \in Int /\ \A i \in 1..n : q[i] \in S
    BY <1>1, <1>2
  <1>4. /\ SubSeq(q, 1, n) \in Seq(S)
        /\ Len(SubSeq(q, 1, n)) = IF 1 <= n THEN n - 1 + 1 ELSE 0
        /\ \A i \in 1..(n - 1 + 1) : SubSeq(q, 1, n)[i] = q[1 + i - 1]
    BY <1>3, SubSeqProperties
  <1> QED
    BY <1>1, <1>4 DEF MIS!Front

AfterPop(s, v) ==
    [s EXCEPT !.stack = MIS!Front(@),
              !.set = IF s.adjacent[v] \cap (s.deleted \cup s.set) = {} THEN @ \cup {v} ELSE @]

LEMMA PopKeeps ==
    ASSUME NEW s, Shaped(s), EdgesInv(s), Independent(s), s.vertices # {} => s.set # {}, s.stack # <<>>,
           NEW h, h = AfterPop(s, MIS!Last(s.stack))
    PROVE  /\ Shaped(h) /\ EdgesInv(h) /\ Independent(h) /\ h.vertices = s.vertices /\ h.pending = s.pending
           /\ h.vertices # {} => h.set # {}
  <1>1. PICK v : v = MIS!Last(s.stack)
    OBVIOUS
  <1>2. /\ DOMAIN h = Fields /\ h.vertices = s.vertices /\ h.adjacent = s.adjacent /\ h.degree = s.degree
        /\ h.deleted = s.deleted /\ h.pending = s.pending /\ h.stack = MIS!Front(s.stack)
        /\ h.set = IF s.adjacent[v] \cap (s.deleted \cup s.set) = {} THEN s.set \cup {v} ELSE s.set
    BY <1>1 DEF AfterPop, Shaped, Fields
  <1>3. s.stack \in Seq(s.vertices) /\ Len(s.stack) \in Nat /\ Len(s.stack) > 0
    <2>1. s.stack \in Seq(s.vertices)
      BY DEF EdgesInv
    <2> QED
      BY <2>1, EmptySeq
  <1>4. v \in s.vertices
    BY <1>1, <1>3 DEF MIS!Last
  <1>5. MIS!Front(s.stack) \in Seq(s.vertices)
    BY <1>3, FrontIsSequence
  <1>6. h.set \subseteq h.vertices
    BY <1>2, <1>4 DEF EdgesInv
  <1>7. EdgesInv(h)
    BY <1>2, <1>5, <1>6 DEF EdgesInv
  <1>8. Independent(h)
    <2>1. CASE h.set = s.set
      BY <1>2, <2>1 DEF Independent
    <2>2. CASE h.set # s.set
      <3>1. h.set = s.set \cup {v} /\ s.adjacent[v] \cap s.set = {} /\ v \notin s.adjacent[v]
        BY <1>2, <1>4, <2>2 DEF EdgesInv
      <3>2. \A u \in s.set : v \notin s.adjacent[u]
        BY <1>4, <3>1 DEF EdgesInv
      <3> QED
        BY <1>2, <3>1, <3>2 DEF Independent
    <2> QED
      BY <2>1, <2>2
  <1>9. h.vertices # {} => h.set # {}
    BY <1>2
  <1> QED
    BY <1>2, <1>7, <1>8, <1>9 DEF Shaped

\* The graph of a round: its edges are mutual and hold the conflicts.
Graph(set, adjacent) ==
    /\ set \subseteq Vertices /\ adjacent \in [set -> SUBSET set]
    /\ \A v \in set : v \notin adjacent[v] /\ Neighbors(v) \cap set \subseteq adjacent[v]
    /\ \A v, u \in set : u \in adjacent[v] => v \in adjacent[u]

\* The buckets of a new graph.
Filled(set, adjacent, h) ==
    /\ DOMAIN h = Fields /\ h.vertices = set /\ h.adjacent = adjacent /\ h.pending = {} /\ h.stack = <<>>
    /\ DOMAIN h.degree = set /\ \A v \in set : h.degree[v] = Cardinality(adjacent[v])
    /\ h.deleted = {v \in set : h.degree[v] = 0} /\ h.set = h.deleted
    /\ h.one = {v \in set : h.degree[v] = 1} /\ h.two = {v \in set : h.degree[v] = 2}
    /\ h.more = {v \in set : h.degree[v] > 2}

LEMMA NewEffect ==
    ASSUME NEW set, NEW adjacent, NEW h, h = MIS!NewSolution(set, adjacent)
    PROVE  Filled(set, adjacent, h)
  <1>1. PICK count : count = [v \in set |-> MIS!Cardinality(adjacent[v])]
    OBVIOUS
  <1>2. h = [vertices |-> set, adjacent |-> adjacent, degree |-> count,
             deleted |-> {v \in set : count[v] = 0}, set |-> {v \in set : count[v] = 0},
             one |-> {v \in set : count[v] = 1}, two |-> {v \in set : count[v] = 2},
             more |-> {v \in set : count[v] > 2}, stack |-> <<>>, pending |-> {}]
    BY <1>1 DEF MIS!NewSolution
  <1>3. DOMAIN count = set /\ \A v \in set : count[v] = Cardinality(adjacent[v])
    BY <1>1, MisGraph
  <1>4. /\ DOMAIN h = Fields /\ h.vertices = set /\ h.adjacent = adjacent /\ h.pending = {} /\ h.stack = <<>>
        /\ h.degree = count
        /\ h.deleted = {v \in set : count[v] = 0} /\ h.set = {v \in set : count[v] = 0}
        /\ h.one = {v \in set : count[v] = 1} /\ h.two = {v \in set : count[v] = 2}
        /\ h.more = {v \in set : count[v] > 2}
    BY <1>2 DEF Fields
  <1> QED
    BY <1>3, <1>4 DEF Filled

LEMMA NewFits ==
    ASSUME NEW set, NEW adjacent, Graph(set, adjacent), NEW h, h = MIS!NewSolution(set, adjacent)
    PROVE  Shaped(h) /\ Fit(h) /\ h.vertices = set
  <1>1. Filled(set, adjacent, h)
    BY NewEffect
  <1>2. Shaped(h) /\ h.vertices = set
    BY <1>1 DEF Filled, Graph, Shaped
  <1>3. EdgesInv(h)
    <2>1. h.deleted \subseteq h.vertices /\ h.set \subseteq h.vertices /\ h.stack \in Seq(h.vertices)
      BY <1>1, EmptySeq DEF Filled
    <2> QED
      BY <1>1, <2>1 DEF Filled, Graph, EdgesInv
  <1>4. ASSUME NEW v \in set
        PROVE  /\ IsFiniteSet(adjacent[v]) /\ h.degree[v] \in Nat
               /\ h.degree[v] = 0 <=> adjacent[v] = {}
    <2>1. adjacent[v] \in SUBSET (Vertices \ {v}) /\ v \in Vertices
      BY DEF Graph
    <2>2. IsFiniteSet(adjacent[v]) /\ Cardinality(adjacent[v]) \in Nat
      BY <2>1, FewNeighbors
    <2> QED
      BY <1>1, <2>2, FS_EmptySet DEF Filled
  <1>5. \A v \in set : MIS!Live(h, v) = adjacent[v]
    <2>1. SUFFICES ASSUME NEW v \in set, NEW u \in adjacent[v]
                   PROVE  u \notin h.deleted
      BY <1>1 DEF Filled, MIS!Live
    <2>2. u \in set /\ v \in adjacent[u]
      BY DEF Graph
    <2>3. h.degree[u] # 0
      BY <1>4, <2>2
    <2> QED
      BY <1>1, <2>3 DEF Filled
  <1>6. /\ Present(h) \subseteq set /\ Present(h) \cap h.deleted = {}
        /\ \A v \in Present(h) : h.degree[v] = Cardinality(MIS!Live(h, v)) /\ h.degree[v] # 0
    BY <1>1, <1>5 DEF Filled, Present
  <1>7. /\ h.one \subseteq OfDegree(h, 1) /\ OfDegree(h, 1) \subseteq h.one
        /\ h.two \subseteq OfDegree(h, 2) /\ OfDegree(h, 2) \subseteq h.two
        /\ OfDegree(h, 0) = {}
    BY <1>1, <1>6 DEF Filled, OfDegree, Present
  <1>8. h.more \subseteq Present(h) /\ \A v \in Present(h) : h.degree[v] > 2 => v \in h.more
    BY <1>1 DEF Filled, Present
  <1>9. \A v \in h.set : adjacent[v] = {} /\ MIS!Live(h, v) = {}
    BY <1>1, <1>4, <1>5 DEF Filled
  <1>10. Independent(h)
    BY <1>1, <1>9 DEF Filled, Independent
  <1>11. Reached(h, Forgotten(h))
    BY <1>7 DEF Reached, Forgotten
  <1>12. h.vertices # {} => h.set \cup Present(h) # {}
    BY <1>1 DEF Filled, Present
  <1>13. Counted(h)
    BY <1>1, <1>3, <1>6, <1>7, <1>8, <1>9, <1>10 DEF Filled, Counted
  <1> QED
    BY <1>2, <1>7, <1>11, <1>12, <1>13 DEF Fit

(***************************************************************************)
(* The steps.                                                              *)
(***************************************************************************)

\* The block stays the same: what is said of the next solution is said of it later.
LEMMA Carried ==
    ASSUME predictions' = predictions, NEW h, h = solution'
    PROVE  /\ Shaped(h) => Shaped(solution)'
           /\ Fit(h) => Fit(solution)'
           /\ Stuck(h) => Stuck(solution)'
           /\ EdgesInv(h) => EdgesInv(solution)'
           /\ Independent(h) => Independent(solution)'
  <1>1. Vertices' = Vertices /\ \A v : Neighbors(v)' = Neighbors(v)
    BY SameGraph DEF Neighbors
  <1>2. EdgesInv(h) => EdgesInv(solution)'
    BY <1>1 DEF EdgesInv
  <1>3. Independent(h) => Independent(solution)'
    BY DEF Independent
  <1>4. Stuck(h) => Stuck(solution)'
    BY DEF Stuck, Stays
  <1>5. Shaped(h) => Shaped(solution)'
    BY <1>1 DEF Shaped
  <1>6. /\ Present(solution)' = Present(h) /\ \A v : MIS!Live(solution, v)' = MIS!Live(h, v)
        /\ OfDegree(solution, 0)' = OfDegree(h, 0) /\ OfDegree(solution, 1)' = OfDegree(h, 1)
        /\ OfDegree(solution, 2)' = OfDegree(h, 2) /\ Forgotten(solution)' = Forgotten(h)
    BY DEF Present, MIS!Live, OfDegree, Forgotten
  <1>7. Reached(h, Forgotten(h)) => Reached(solution, Forgotten(solution))'
    BY <1>6 DEF Reached
  <1>8. Counted(h) => Counted(solution)'
    BY <1>2, <1>3, <1>6 DEF Counted
  <1>9. Fit(h) => Fit(solution)'
    BY <1>6, <1>7, <1>8 DEF Fit
  <1> QED
    BY <1>2, <1>3, <1>4, <1>5, <1>9

LEMMA RoundsCarried ==
    ASSUME RoundsInv, predictions' = predictions, rounds' = rounds, solution.vertices' = solution.vertices
    PROVE  RoundsInv'
  <1>1. Vertices' = Vertices /\ \A v : Neighbors(v)' = Neighbors(v)
    BY SameGraph DEF Neighbors
  <1> QED
    BY <1>1 DEF RoundsInv

\* A reduction that keeps the graph as it should be keeps the invariant.
LEMMA ReductionKeeps ==
    ASSUME MisRoundsInv, predictions' = predictions, rounds' = rounds, step = "reduce",
           NEW h, h = solution', Keeps(solution, h),
           step' = step \/ (step' = "panic" /\ Stuck(h) /\ h.pending = {})
    PROVE  MisRoundsInv'
  <1>1. Shaped(h) /\ h.vertices = solution.vertices /\ (Fit(h) \/ Stuck(h))
    BY DEF Keeps
  <1>2. RoundsInv'
    BY <1>1, RoundsCarried DEF MisRoundsInv
  <1>3. Shaped(solution)' /\ (Fit(solution)' \/ Stuck(solution)') /\ (Stuck(h) => Stuck(solution)')
    BY <1>1, Carried
  <1>4. ~(rounds' # <<>> /\ solution.vertices' = {})
    BY <1>1 DEF MisRoundsInv, MisInv
  <1>5. MisInv'
    BY <1>3, <1>4 DEF MisInv
  <1> QED
    BY <1>2, <1>5 DEF MisRoundsInv

LEMMA DegreeOneStep ==
    ASSUME MisRoundsInv, predictions' = predictions, MIS!DegreeOneReduction
    PROVE  MisRoundsInv'
  <1>1. PICK h : h = solution'
    OBVIOUS
  <1>2. /\ step = "reduce" /\ solution.pending = {} /\ rounds' = rounds /\ step' = step
        /\ Shaped(solution) /\ (Fit(solution) \/ Stuck(solution))
    BY DEF MIS!DegreeOneReduction, MisRoundsInv, MisInv
  <1>3. PICK u \in solution.one :
            LET g == MIS!WithoutOne(solution, u)
            IN  \/ MIS!Live(g, u) = {} /\ h = g
                \/ \E v \in MIS!Live(g, u) : h = MIS!DeleteVertex(MIS!WithPending(g, MIS!Live(g, u) \ {v}), v)
    BY <1>1 DEF MIS!DegreeOneReduction
  <1>4. PICK g : g = MIS!WithoutOne(solution, u)
    OBVIOUS
  <1>5. \/ MIS!Live(g, u) = {} /\ h = g
        \/ \E v \in MIS!Live(g, u) : h = MIS!DeleteVertex(MIS!WithPending(g, MIS!Live(g, u) \ {v}), v)
    BY <1>3, <1>4
  <1>6. PICK s : s = solution
    OBVIOUS
  <1>7. Keeps(s, h)
    BY <1>2, <1>4, <1>5, <1>6, OneKeeps
  <1> QED
    BY <1>1, <1>2, <1>6, <1>7, ReductionKeeps

LEMMA PendingStep ==
    ASSUME MisRoundsInv, predictions' = predictions, MIS!DeletePending
    PROVE  MisRoundsInv'
  <1>1. PICK h, s : h = solution' /\ s = solution
    OBVIOUS
  <1>2. PICK v \in s.pending : h = MIS!DeleteVertex(MIS!WithPending(s, s.pending \ {v}), v)
    BY <1>1 DEF MIS!DeletePending
  <1>3. /\ step = "reduce" /\ rounds' = rounds /\ step' = step
        /\ Shaped(s) /\ (Fit(s) \/ Stuck(s))
    BY <1>1, <1>2 DEF MIS!DeletePending, MisRoundsInv, MisInv
  <1>4. PICK g : g = MIS!WithPending(s, s.pending \ {v})
    OBVIOUS
  <1>5. Keeps(s, h)
    BY <1>2, <1>3, <1>4, PendingKeeps
  <1> QED
    BY <1>1, <1>3, <1>5, ReductionKeeps

LEMMA DegreeTwoStep ==
    ASSUME MisRoundsInv, predictions' = predictions, MIS!DegreeTwoPathReduction
    PROVE  MisRoundsInv'
  <1>1. PICK h, s : h = solution' /\ s = solution
    OBVIOUS
  <1>2. /\ step = "reduce" /\ rounds' = rounds /\ s.one = {} /\ s.pending = {}
        /\ Shaped(s) /\ (Fit(s) \/ Stuck(s))
    BY <1>1 DEF MIS!DegreeTwoPathReduction, MisRoundsInv, MisInv
  <1>3. PICK u \in s.two :
            LET g == MIS!WithoutTwo(s, u)
                path == MIS!TwoPath(g, u)
                isCycle == \A v \in path : MIS!Live(g, v) \subseteq path
            IN  \/ isCycle /\ solution' = MIS!DeleteVertex(g, u) /\ step' = step
                \/ ~isCycle /\ \E walk \in MIS!Walks(g, path) : MIS!ReducePath(g, walk)
    BY <1>1 DEF MIS!DegreeTwoPathReduction
  <1>4. PICK g : g = MIS!WithoutTwo(s, u)
    OBVIOUS
  <1>5. PICK path : path = MIS!TwoPath(g, u)
    OBVIOUS
  <1> DEFINE isCycle == \A v \in path : MIS!Live(g, v) \subseteq path
  <1>6. \/ isCycle /\ h = MIS!DeleteVertex(g, u) /\ step' = step
        \/ ~isCycle /\ \E walk \in MIS!Walks(g, path) : MIS!ReducePath(g, walk)
    BY <1>1, <1>3, <1>4, <1>5
  <1>7. CASE isCycle /\ h = MIS!DeleteVertex(g, u) /\ step' = step
    <2>1. Keeps(s, h)
      BY <1>2, <1>4, <1>5, <1>7, TwoKeeps
    <2> QED
      BY <1>1, <1>2, <1>7, <2>1, ReductionKeeps
  <1>8. ASSUME ~isCycle, NEW walk \in MIS!Walks(g, path), MIS!Around(g, walk) = {},
               step' = "panic", h = g
        PROVE  MisRoundsInv'
    <2>1. Keeps(s, h) /\ ~Fit(s)
      <3>1. /\ Keeps(s, h)
            /\ Fit(s) /\ ~isCycle => \A w \in MIS!Walks(g, path) : MIS!Around(g, w) # {}
        BY <1>2, <1>4, <1>5, <1>8, TwoKeeps
      <3> QED
        BY <1>8, <3>1
    <2>2. PopsTwo(s, u, g)
      BY <1>2, <1>4, PopTwoEffect DEF Shaped
    <2>3. Stuck(h) /\ h.pending = {}
      BY <1>2, <1>8, <2>1, <2>2 DEF PopsTwo, Stuck, Stays
    <2> QED
      BY <1>1, <1>2, <1>8, <2>1, <2>3, ReductionKeeps
  <1>9. ASSUME ~isCycle, NEW walk \in MIS!Walks(g, path), NEW e \in MIS!Around(g, walk),
               step' = step, Reduces(g, walk, e[1], e[2], h)
        PROVE  MisRoundsInv'
    <2>1. Keeps(s, h)
      BY <1>2, <1>4, <1>5, <1>9, TwoKeeps
    <2> QED
      BY <1>1, <1>2, <1>9, <2>1, ReductionKeeps
  <1>10. ASSUME NEW walk \in MIS!Walks(g, path), MIS!ReducePath(g, walk)
         PROVE  \/ MIS!Around(g, walk) = {} /\ step' = "panic" /\ h = g
                \/ step' = step /\ \E e \in MIS!Around(g, walk) : Reduces(g, walk, e[1], e[2], h)
    BY <1>1, <1>10 DEF MIS!ReducePath, Reduces
  <1> QED
    BY <1>6, <1>7, <1>8, <1>9, <1>10

LEMMA InexactStep ==
    ASSUME MisRoundsInv, predictions' = predictions, MIS!InexactReduction
    PROVE  MisRoundsInv'
  <1>1. PICK h, s : h = solution' /\ s = solution
    OBVIOUS
  <1>2. /\ step = "reduce" /\ rounds' = rounds /\ step' = step /\ Shaped(s) /\ (Fit(s) \/ Stuck(s))
    BY <1>1 DEF MIS!InexactReduction, MisRoundsInv, MisInv
  <1>3. h = s \/ \E v \in s.more : s.degree[v] > 0 /\ h = MIS!DeleteVertex(s, v)
    BY <1>1 DEF MIS!InexactReduction
  <1>4. Keeps(s, h)
    <2>1. CASE h = s
      BY <1>2, <2>1 DEF Keeps
    <2>2. ASSUME NEW v \in s.more, s.degree[v] > 0, h = MIS!DeleteVertex(s, v)
          PROVE  Keeps(s, h)
      BY <1>2, <2>2, InexactKeeps
    <2> QED
      BY <1>3, <2>1, <2>2
  <1> QED
    BY <1>1, <1>2, <1>4, ReductionKeeps

LEMMA ReducedStep ==
    ASSUME MisRoundsInv, predictions' = predictions, MIS!Reduced
    PROVE  MisRoundsInv'
  <1>1. PICK h, s : h = solution' /\ s = solution
    OBVIOUS
  <1>2. /\ step = "reduce" /\ step' = "pop" /\ rounds' = rounds /\ h = s /\ s.pending = {}
        /\ s.one = {} /\ s.two = {} /\ s.more = {} /\ Shaped(s) /\ (Fit(s) \/ Stuck(s))
        /\ ~(rounds # <<>> /\ s.vertices = {})
    BY <1>1 DEF MIS!Reduced, MisRoundsInv, MisInv
  <1>3. EdgesInv(h) /\ Independent(h) /\ (h.vertices # {} => h.set # {})
    BY <1>2, ReducedFits
  <1>4. Shaped(solution)' /\ EdgesInv(solution)' /\ Independent(solution)'
    BY <1>1, <1>2, <1>3, Carried
  <1>5. RoundsInv'
    BY <1>1, <1>2, RoundsCarried DEF MisRoundsInv
  <1> QED
    BY <1>1, <1>2, <1>3, <1>4, <1>5 DEF MisRoundsInv, MisInv

LEMMA PopStep ==
    ASSUME MisRoundsInv, predictions' = predictions, MIS!PopStack
    PROVE  MisRoundsInv'
  <1>1. PICK h, s : h = solution' /\ s = solution
    OBVIOUS
  <1>2. /\ step = "pop" /\ step' = step /\ rounds' = rounds /\ s.stack # <<>> /\ s.pending = {}
        /\ Shaped(s) /\ EdgesInv(s) /\ Independent(s) /\ (s.vertices # {} => s.set # {})
        /\ ~(rounds # <<>> /\ s.vertices = {})
    BY <1>1 DEF MIS!PopStack, MisRoundsInv, MisInv
  <1>3. h = AfterPop(s, MIS!Last(s.stack))
    BY <1>1 DEF MIS!PopStack, AfterPop
  <1>4. /\ Shaped(h) /\ EdgesInv(h) /\ Independent(h) /\ h.vertices = s.vertices /\ h.pending = s.pending
        /\ h.vertices # {} => h.set # {}
    BY <1>2, <1>3, PopKeeps
  <1>5. Shaped(solution)' /\ EdgesInv(solution)' /\ Independent(solution)'
    BY <1>1, <1>4, Carried
  <1>6. RoundsInv'
    BY <1>1, <1>2, <1>4, RoundsCarried DEF MisRoundsInv
  <1> QED
    BY <1>1, <1>2, <1>4, <1>5, <1>6 DEF MisRoundsInv, MisInv

\* A found set is a round, and what is left the graph of the next.
LEMMA NextRoundStep ==
    ASSUME MisRoundsInv, predictions' = predictions, MIS!NextRound
    PROVE  MisRoundsInv'
  <1>1. PICK h, s : h = solution' /\ s = solution
    OBVIOUS
  <1>2. PICK left : left = s.vertices \ s.set
    OBVIOUS
  <1>3. PICK adjacent : adjacent = [v \in left |-> s.adjacent[v] \cap left]
    OBVIOUS
  <1>4. /\ step = "pop" /\ rounds' = Append(rounds, s.set) /\ h = MIS!NewSolution(left, adjacent)
        /\ step' = IF left = {} THEN "done" ELSE "reduce"
    BY <1>1, <1>2, <1>3 DEF MIS!NextRound, MIS!Left
  <1>5. /\ Shaped(s) /\ EdgesInv(s) /\ Independent(s) /\ (s.vertices # {} => s.set # {})
        /\ ~(rounds # <<>> /\ s.vertices = {})
    BY <1>1, <1>4 DEF MisRoundsInv, MisInv
  <1>6. Vertices' = Vertices /\ \A v : Neighbors(v)' = Neighbors(v)
    BY SameGraph DEF Neighbors
  <1>7. Graph(left, adjacent)
    <2>1. left \subseteq Vertices /\ left \subseteq s.vertices
      BY <1>2, <1>5 DEF Shaped
    <2>2. adjacent \in [left -> SUBSET left] /\ \A v \in left : adjacent[v] = s.adjacent[v] \cap left
      BY <1>3
    <2>3. \A v \in left : v \notin adjacent[v] /\ Neighbors(v) \cap left \subseteq adjacent[v]
      BY <1>5, <2>1, <2>2 DEF EdgesInv
    <2>4. \A v, u \in left : u \in adjacent[v] => v \in adjacent[u]
      BY <1>5, <2>1, <2>2 DEF EdgesInv
    <2> QED
      BY <2>1, <2>2, <2>3, <2>4 DEF Graph
  <1>8. Shaped(h) /\ Fit(h) /\ h.vertices = left
    BY <1>4, <1>7, NewFits
  <1>9. Shaped(solution)' /\ Fit(solution)' /\ solution.vertices' = left /\ solution.pending' = {}
    BY <1>1, <1>8, Carried DEF Fit, Counted
  <1>10. /\ rounds \in Seq(SUBSET Vertices) /\ Len(rounds) \in Nat
         /\ Vertices = s.vertices \cup UNION {rounds[i] : i \in 1..Len(rounds)}
         /\ \A i \in 1..Len(rounds) :
                /\ rounds[i] \cap s.vertices = {}
                /\ \A v \in rounds[i] : Neighbors(v) \cap rounds[i] = {}
                /\ Vertices # {} => rounds[i] # {}
         /\ \A i, j \in 1..Len(rounds) : i # j => rounds[i] \cap rounds[j] = {}
    BY <1>1 DEF MisRoundsInv, RoundsInv
  <1>11. s.set \subseteq s.vertices /\ s.set \in SUBSET Vertices
    BY <1>5 DEF EdgesInv, Shaped
  <1>12. PICK n : n = Len(rounds)
    OBVIOUS
  <1>13. /\ n \in Nat /\ rounds' \in Seq(SUBSET Vertices) /\ Len(rounds') = n + 1 /\ rounds' # <<>>
         /\ rounds'[n + 1] = s.set /\ \A i \in 1..n : rounds'[i] = rounds[i]
    BY <1>4, <1>10, <1>11, <1>12
  <1>14. \A i \in 1..(n + 1) : i = n + 1 \/ i \in 1..n
    BY <1>13
  <1>15. \A v \in s.set : Neighbors(v) \cap s.set = {}
    BY <1>5, <1>11 DEF EdgesInv, Independent
  <1>16. Vertices # {} => s.set # {}
    <2>1. CASE rounds = <<>>
      BY <1>5, <1>10, <2>1
    <2>2. CASE rounds # <<>>
      BY <1>5, <2>2
    <2> QED
      BY <2>1, <2>2
  <1>17. Vertices = left \cup UNION {rounds'[i] : i \in 1..(n + 1)}
    <2>1. \A x : x \in UNION {rounds'[i] : i \in 1..(n + 1)} <=> x \in s.set \/ \E i \in 1..n : x \in rounds[i]
      <3>1. \A i \in 1..n : i \in 1..(n + 1)
        BY <1>13
      <3>2. n + 1 \in 1..(n + 1)
        BY <1>13
      <3> QED
        BY <1>13, <1>14, <3>1, <3>2
    <2>2. \A x : x \in Vertices <=> x \in s.vertices \/ \E i \in 1..n : x \in rounds[i]
      BY <1>10, <1>12
    <2> QED
      BY <1>2, <1>11, <2>1, <2>2
  <1>18. \A i \in 1..(n + 1) : /\ rounds'[i] \cap left = {}
                               /\ \A v \in rounds'[i] : Neighbors(v) \cap rounds'[i] = {}
                               /\ Vertices # {} => rounds'[i] # {}
    BY <1>2, <1>10, <1>12, <1>13, <1>14, <1>15, <1>16
  <1>19. \A i, j \in 1..(n + 1) : i # j => rounds'[i] \cap rounds'[j] = {}
    BY <1>10, <1>11, <1>12, <1>13, <1>14
  <1>20. RoundsInv'
    BY <1>6, <1>9, <1>13, <1>17, <1>18, <1>19 DEF RoundsInv
  <1>21. MisInv'
    BY <1>4, <1>9, <1>13 DEF MisInv
  <1> QED
    BY <1>20, <1>21 DEF MisRoundsInv

LEMMA MisStart ==
    ASSUME MIS!Start
    PROVE  MisRoundsInv
  <1>1. PICK h : h = solution
    OBVIOUS
  <1>2. PICK adjacent : adjacent = [v \in Vertices |-> Neighbors(v)]
    BY Zenon
  <1>3. h = MIS!NewSolution(Vertices, adjacent) /\ rounds = <<>> /\ step = "reduce"
    BY <1>1, <1>2, MisGraph DEF MIS!Start
  <1>4. Graph(Vertices, adjacent)
    <2>1. \A v \in Vertices : /\ adjacent[v] = Neighbors(v) /\ Neighbors(v) \subseteq Vertices
                              /\ v \notin Neighbors(v) /\ \A u \in Neighbors(v) : v \in Neighbors(u)
      BY <1>2, NeighborsAreMutual
    <2>2. adjacent \in [Vertices -> SUBSET Vertices]
      BY <1>2, <2>1
    <2> QED
      BY <2>1, <2>2 DEF Graph
  <1>5. Shaped(h) /\ Fit(h) /\ h.vertices = Vertices
    BY <1>3, <1>4, NewFits
  <1>6. rounds \in Seq(SUBSET Vertices) /\ 1..Len(rounds) = {}
    BY <1>3
  <1>7. RoundsInv
    BY <1>1, <1>5, <1>6 DEF RoundsInv
  <1>8. MisInv
    BY <1>1, <1>3, <1>5 DEF MisInv
  <1> QED
    BY <1>7, <1>8 DEF MisRoundsInv

LEMMA MisStep == MisRoundsInv /\ [Next]_vars => MisRoundsInv'
  <1> SUFFICES ASSUME MisRoundsInv, [Next]_vars
               PROVE  MisRoundsInv'
    OBVIOUS
  <1>1. ASSUME MIS!Next, predictions' = predictions
        PROVE  MisRoundsInv'
    BY <1>1, DegreeOneStep, PendingStep, DegreeTwoStep, InexactStep, ReducedStep, PopStep, NextRoundStep
        DEF MIS!Next
  <1>2. ASSUME UNCHANGED <<predictions, misVars>>
        PROVE  MisRoundsInv'
    <2>1. solution' = solution /\ rounds' = rounds /\ step' = step /\ predictions' = predictions
      BY <1>2 DEF misVars
    <2>2. PICK h : h = solution
      OBVIOUS
    <2>3. /\ Shaped(h) => Shaped(solution)'
          /\ Fit(h) => Fit(solution)'
          /\ Stuck(h) => Stuck(solution)'
          /\ EdgesInv(h) => EdgesInv(solution)'
          /\ Independent(h) => Independent(solution)'
      BY <2>1, <2>2, Carried
    <2>4. MisInv'
      BY <2>1, <2>2, <2>3 DEF MisRoundsInv, MisInv
    <2>5. RoundsInv'
      BY <2>1, RoundsCarried DEF MisRoundsInv
    <2> QED
      BY <2>4, <2>5 DEF MisRoundsInv
  <1> QED
    BY <1>1, <1>2 DEF Next, Components, DegreeZeroLayers, IndependentSets, Grouped, vars

\* Whatever the reductions do to the graph: what they put in the set has no
\* conflicts in it, or they go on for ever.
THEOREM RoundsAreSound == Spec => []MisRoundsInv
  <1>1. Init => MisRoundsInv
    BY MisStart DEF Init
  <1> QED
    BY <1>1, MisStep, PTL DEF Spec

\* No two transactions of one round conflict.
THEOREM RoundsAreIndependent == Spec => []RoundsIndependent
  <1>1. ASSUME RoundsInv, NEW i \in DOMAIN rounds, NEW t \in rounds[i], NEW u \in rounds[i], t # u
        PROVE  ~Interfere(t, u)
    <2>1. i \in 1..Len(rounds) /\ rounds[i] \in SUBSET Vertices
      BY <1>1 DEF RoundsInv
    <2>2. t \in Vertices /\ u \in Vertices /\ u \notin Neighbors(t)
      BY <1>1, <2>1 DEF RoundsInv
    <2> QED
      BY <1>1, <2>2, NeighborsAreMutual
  <1>2. MisRoundsInv => RoundsIndependent
    BY <1>1, MisGraph DEF MisRoundsInv, RoundsIndependent, MIS!RoundsIndependent
  <1> QED
    BY <1>2, RoundsAreSound, PTL

\* Every predicted transaction is in one round at most, is never lost, and is
\* in one when the search has ended.
THEOREM RoundsArePartition == Spec => []RoundsPartition
  <1>1. ASSUME MisRoundsInv
        PROVE  RoundsPartition
    <2>1. /\ rounds \in Seq(SUBSET Vertices) /\ DOMAIN rounds = 1..Len(rounds)
          /\ Vertices = solution.vertices \cup UNION {rounds[i] : i \in 1..Len(rounds)}
          /\ \A i, j \in 1..Len(rounds) : i # j => rounds[i] \cap rounds[j] = {}
          /\ step = "done" => solution.vertices = {}
      BY <1>1 DEF MisRoundsInv, MisInv, RoundsInv
    <2>2. MIS!Range(rounds) = {rounds[i] : i \in 1..Len(rounds)}
      BY <2>1 DEF MIS!Range
    <2> QED
      BY <2>1, <2>2, MisGraph DEF RoundsPartition, MIS!RoundsPartition, MIS!Done
  <1> QED
    BY <1>1, RoundsAreSound, PTL

\* No round is empty, so that each takes something from what is left.
THEOREM RoundsAreNonempty == Spec => []RoundsNonempty
  <1>1. MisRoundsInv => RoundsNonempty
    BY MisGraph DEF MisRoundsInv, RoundsInv, RoundsNonempty, MIS!RoundsNonempty
  <1> QED
    BY <1>1, RoundsAreSound, PTL
=============================================================================
