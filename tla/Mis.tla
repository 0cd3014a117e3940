--------------------------------- MODULE Mis ---------------------------------
(***************************************************************************)
(* solveMISInTurn of utils/mis.go and LinearTime of mis/linear.go: the     *)
(* transactions run in rounds, each an independent set of what is left of  *)
(* the conflict graph.  The set is found by reductions: the neighbor of a  *)
(* vertex of degree one is deleted, a path of vertices of degree two is    *)
(* cut out, or else a vertex of the highest degree is deleted.  Go pops    *)
(* any element of a set, and the lists of neighbors are in any order from  *)
(* the second round on, whose graph is built in map order.                 *)
(***************************************************************************)
EXTENDS ConflictGraph, SequencesExt

CONSTANT MaxUint        \* the largest uint: degrees wrap around

VARIABLES
    (***********************************************************************)
    (* LinearTime: the graph [vertices, adjacent, deleted, degree], the    *)
    (* buckets one, two and more (VerticesOne, VerticesTwo,                *)
    (* VerticesGreaterThanThree), the IndependentSet and the Stack; and    *)
    (* the neighbors that degreeOneReduction has still to come to.         *)
    (***********************************************************************)
    solution,
    rounds,         \* the independent sets found so far
    step            \* "reduce", "pop", "done" or "panic"

misVars == <<solution, rounds, step>>

Live(g, v) == g.adjacent[v] \ g.deleted

Increment(d) == IF d = MaxUint THEN 0 ELSE d + 1
Decrement(d, n) == IF n <= d THEN d - n ELSE d - n + MaxUint + 1

\* Mutant: an isolated vertex is overlooked.
NewSolutionOverlooksIsolated(vertices, adjacent) ==
    LET degree == [v \in vertices |-> Cardinality(adjacent[v])]
        OfDegree(n) == {v \in vertices : degree[v] = n}
    IN  [vertices |-> vertices, adjacent |-> adjacent, degree |-> degree,
         deleted |-> OfDegree(0), set |-> {}, one |-> OfDegree(1), two |-> OfDegree(2),
         more |-> {v \in vertices : degree[v] > 2}, stack |-> <<>>, pending |-> {}]

\* The buckets by degree; an isolated vertex is in the set at once.
NewSolution(vertices, adjacent) ==
    LET degree == [v \in vertices |-> Cardinality(adjacent[v])]
        OfDegree(n) == {v \in vertices : degree[v] = n}
    IN  [vertices |-> vertices, adjacent |-> adjacent, degree |-> degree,
         deleted |-> OfDegree(0), set |-> OfDegree(0), one |-> OfDegree(1), two |-> OfDegree(2),
         more |-> {v \in vertices : degree[v] > 2}, stack |-> <<>>, pending |-> {}]

Start ==
    /\ solution = NewSolution(Vertices, [v \in Vertices |-> Neighbors(v)])
    /\ rounds = <<>> /\ step = "reduce"

-----------------------------------------------------------------------------
(* The graph operations.                                                    *)

\* The degrees after v has gone.
Lowered(g, v) ==
    LET hit == Live(g, v)
    IN  [u \in g.vertices |-> IF u \in hit THEN Decrement(g.degree[u], 1) ELSE g.degree[u]]

\* The bucket that a vertex of this degree is removed from.
In(bucket, degree) ==
    bucket = CASE degree = 1 -> "one" [] degree = 2 -> "two" [] OTHER -> "more"

\* Mutant: a neighbor that comes down to degree one stays in its bucket.
DeleteVertexMissesOne(g, v) ==
    LET hit == IF g.degree[v] = 0 THEN {} ELSE Live(g, v)
        degree == IF hit = {} THEN g.degree ELSE Lowered(g, v)
        Reach(n) == {u \in hit : degree[u] = n}
        Without(bucket, set) == IF In(bucket, g.degree[v]) THEN set \ {v} ELSE set
    IN  [g EXCEPT !.deleted = @ \cup {v}, !.degree = degree, !.set = @ \cup Reach(0),
            !.one = Without("one", @) \ Reach(0),
            !.two = Without("two", @) \cup Reach(2),
            !.more = Without("more", @) \ Reach(2)]

\* The vertex leaves the bucket of its degree; its neighbors change theirs, and
\* one that becomes isolated is in the set.
DeleteVertex(g, v) ==
    LET hit == IF g.degree[v] = 0 THEN {} ELSE Live(g, v)
        degree == IF hit = {} THEN g.degree ELSE Lowered(g, v)
        Reach(n) == {u \in hit : degree[u] = n}
        Without(bucket, set) == IF In(bucket, g.degree[v]) THEN set \ {v} ELSE set
    IN  [g EXCEPT !.deleted = @ \cup {v}, !.degree = degree, !.set = @ \cup Reach(0),
            !.one = (Without("one", @) \ Reach(0)) \cup Reach(1),
            !.two = (Without("two", @) \ Reach(1)) \cup Reach(2),
            !.more = Without("more", @) \ Reach(2)]

\* The vertices of a sequence up to u.
UpTo(cut, u) == {cut[j] : j \in {j \in DOMAIN cut : \A i \in 1..j : cut[i] # u}}

\* Graph.RemoveVertex and VerticesTwo.Remove for one vertex after the other: each
\* takes a degree from its neighbors still there, but leaves their buckets.
RemovePath(g, cut) ==
    [g EXCEPT !.deleted = @ \cup Range(cut), !.two = @ \ Range(cut),
        !.degree = [u \in g.vertices |->
            IF u \in g.deleted THEN @[u]
            ELSE Decrement(@[u], Cardinality(g.adjacent[u] \cap UpTo(cut, u)))]]

HasEdge(g, u, v) == {u, v} \cap g.deleted = {} /\ v \in g.adjacent[u]

AddEdge(g, u, v) ==
    IF HasEdge(g, u, v) THEN g
    ELSE [g EXCEPT !.adjacent[u] = @ \cup {v}, !.adjacent[v] = @ \cup {u},
                   !.degree[u] = Increment(@), !.degree[v] = Increment(@)]

-----------------------------------------------------------------------------
(* Solve: the reductions, in the order in which they are tried.             *)

WithoutOne(g, u) == [g EXCEPT !.one = @ \ {u}]
WithoutTwo(g, u) == [g EXCEPT !.two = @ \ {u}]
WithPending(g, vertices) == [g EXCEPT !.pending = vertices]

\* A vertex is popped and its first live neighbor deleted, ...
DegreeOneReduction ==
    /\ step = "reduce" /\ solution.pending = {} /\ solution.one # {}
    /\ \E u \in solution.one :
        LET g == WithoutOne(solution, u)
        IN  \/ Live(g, u) = {} /\ solution' = g
            \/ \E v \in Live(g, u) :
                solution' = DeleteVertex(WithPending(g, Live(g, u) \ {v}), v)
    /\ UNCHANGED <<rounds, step>>

\* ... then the others.
DeletePending ==
    /\ \E v \in solution.pending :
        solution' = DeleteVertex(WithPending(solution, solution.pending \ {v}), v)
    /\ UNCHANGED <<rounds, step>>

\* dfsToFindDegreeTwoPath: the vertices reached from u through live ones of
\* degree two.
TwoPath(g, u) ==
    LET inner == {v \in g.vertices \ g.deleted : g.degree[v] = 2} \cup {u}
        Closed(part) == \A v \in part : Live(g, v) \cap inner \subseteq part
    IN  {v \in inner : \A part \in SUBSET inner : u \in part /\ Closed(part) => v \in part}

\* The neighbors at which a path may end.
Outer(g, v) == {w \in Live(g, v) : g.degree[w] # 2}

\* pathReOrg: the path in the order of a depth-first search from a vertex that
\* has such a neighbor.
Walks(g, path) ==
    LET Unvisited(walk, v) == Live(g, v) \cap (path \ Range(walk))
        Branch(walk) == \* where the search goes on: from the latest vertex it can
            {v \in path : \E j \in DOMAIN walk :
                /\ v \in Unvisited(walk, walk[j])
                /\ \A k \in (j + 1)..Len(walk) : Unvisited(walk, walk[k]) = {}}
    IN  {walk \in SetToSeqs(path) :
            /\ Outer(g, walk[1]) # {}
            /\ \A n \in 2..Len(walk) : walk[n] \in Branch(SubSeq(walk, 1, n - 1))}

\* The path, or all of it but its first vertex, is cut out and put on the
\* stack, and what was around it is joined.
CutOut(g, walk, v, w) ==
    LET odd == Len(walk) % 2 = 1
        cut == IF odd THEN Tail(walk) ELSE walk
    IN  [AddEdge(RemovePath(g, cut), IF odd THEN walk[1] ELSE v, w) EXCEPT !.stack = @ \o Reverse(cut)]

\* The pairs v, w of vertices around a path; with only one of them the code
\* looks up the edge to a vertex that does not exist.
Around(g, walk) ==
    LET first == Outer(g, walk[1])
        last == Outer(g, walk[Len(walk)])
    IN  IF Len(walk) = 1 THEN {e \in first \X first : e[1] # e[2]} ELSE first \X last

ReducePath(g, walk) ==
    IF Around(g, walk) = {} THEN step' = "panic" /\ solution' = g
    ELSE /\ step' = step
         /\ \E e \in Around(g, walk) :
            LET v == e[1]
                w == e[2]
            IN  solution' = IF v = w THEN DeleteVertex(g, v)
                            ELSE IF Len(walk) % 2 = 1 /\ HasEdge(g, v, w)
                            THEN DeleteVertex(DeleteVertex(g, v), w)
                            ELSE CutOut(g, walk, v, w)

DegreeTwoPathReduction ==
    /\ step = "reduce" /\ solution.pending = {} /\ solution.one = {}
    /\ \E u \in solution.two :
        LET g == WithoutTwo(solution, u)
            path == TwoPath(g, u)
            isCycle == \A v \in path : Live(g, v) \subseteq path
        IN  \/ isCycle /\ solution' = DeleteVertex(g, u) /\ step' = step
            \/ ~isCycle /\ \E walk \in Walks(g, path) : ReducePath(g, walk)
    /\ UNCHANGED rounds

\* A vertex of degree 0 is never chosen; if there is no other, nothing happens.
InexactReduction ==
    /\ step = "reduce" /\ solution.pending = {} /\ solution.one = {} /\ solution.two = {} /\ solution.more # {}
    /\ LET g == solution
           highest == {v \in g.more : g.degree[v] > 0 /\ \A u \in g.more : g.degree[u] <= g.degree[v]}
       IN  IF highest = {} THEN solution' = g ELSE \E v \in highest : solution' = DeleteVertex(g, v)
    /\ UNCHANGED <<rounds, step>>

Reduced ==
    /\ step = "reduce" /\ solution.pending = {} /\ solution.one = {} /\ solution.two = {} /\ solution.more = {}
    /\ step' = "pop"
    /\ UNCHANGED <<solution, rounds>>

\* Mutant: the neighbors are not looked at.
PopStackUnchecked ==
    /\ step = "pop" /\ solution.stack # <<>>
    /\ solution' = [solution EXCEPT !.stack = Front(@), !.set = @ \cup {Last(solution.stack)}]
    /\ UNCHANGED <<rounds, step>>

\* A vertex of a path joins the set if no neighbor is deleted or in the set;
\* by now every vertex is one or the other.
PopStack ==
    /\ step = "pop" /\ solution.stack # <<>>
    /\ LET v == Last(solution.stack)
           canAdd == solution.adjacent[v] \cap (solution.deleted \cup solution.set) = {}
       IN  solution' = [solution EXCEPT !.stack = Front(@), !.set = IF canAdd THEN @ \cup {v} ELSE @]
    /\ UNCHANGED <<rounds, step>>

-----------------------------------------------------------------------------
(* solveMISInTurn: the next round is solved on the graph without the set,   *)
(* with the edges that paths have left in it.                               *)

\* Mutant: what Solve deleted is not put back.
LeftWithoutDeleted == solution.vertices \ solution.deleted

Left == solution.vertices \ solution.set

NextRound ==
    /\ step = "pop" /\ solution.stack = <<>>
    /\ rounds' = Append(rounds, solution.set)
    /\ solution' = NewSolution(Left, [v \in Left |-> solution.adjacent[v] \cap Left])
    /\ step' = IF Left = {} THEN "done" ELSE "reduce"

Next ==
    \/ DegreeOneReduction \/ DeletePending \/ DegreeTwoPathReduction \/ InexactReduction
    \/ Reduced \/ PopStack \/ NextRound

Done == step = "done"
-----------------------------------------------------------------------------

\* No two transactions of a round conflict, whatever was cut out of the graph
\* and joined in it, in this round or an earlier one.
RoundsIndependent ==
    \A i \in DOMAIN rounds : \A t, u \in rounds[i] : t # u => ~Interfere(t, u)

\* Every predicted transaction is in exactly one round in the end, and in at
\* most one before; what is left is never lost.
RoundsPartition ==
    /\ \A i, j \in DOMAIN rounds : i # j => rounds[i] \cap rounds[j] = {}
    /\ ~Done => Vertices = solution.vertices \cup UNION Range(rounds)
    /\ Done => Vertices = UNION Range(rounds)

\* A round always runs something: an empty set would leave the graph as it is
\* and the rounds would never end.
RoundsNonempty == \A i \in DOMAIN rounds : Vertices # {} => rounds[i] # {}

\* No path lacks an end and none starts at a vertex that is gone, although the
\* degrees around a path that was cut out no longer fit their buckets.
MisNeverPanics ==
    step # "panic" /\ (solution.one \cup solution.two) \cap solution.deleted = {}
=============================================================================
