--------------------------- MODULE GroupPlansProofs ---------------------------
(***************************************************************************)
(* What the proofs about the block drivers share.  Lemmas about sequences  *)
(* of transactions: induction on numbers, sorting a finite set, and what a *)
(* serial execution leaves, key by key.  Lemmas about the plans: whatever  *)
(* the method, the groups of a round do not interfere, each vertex is in   *)
(* one of them, and the layers keep the order of the block.                *)
(***************************************************************************)
EXTENDS GroupPlans, Execution, FiniteSetTheorems, WellFoundedInduction, TLAPS

LEMMA SmallestNumber ==
    ASSUME NEW set \in SUBSET Nat, set # {}
    PROVE  \E i \in set : \A j \in set : i <= j
  <1>1. \E i \in set : \A j \in set : ~(<<j, i>> \in OpToRel(<, Nat))
    BY NatLessThanWellFounded, WFMin
  <1>2. \E i \in set : \A j \in set : ~(j < i)
    BY <1>1 DEF OpToRel
  <1> QED
    BY <1>2

\* Induction on a number, for a set instead of a predicate.
LEMMA NumbersUpTo ==
    ASSUME NEW n \in Nat, NEW set, 0 \in set,
           \A i \in 0..(n - 1) : i \in set => i + 1 \in set
    PROVE  \A i \in 0..n : i \in set
  <1> DEFINE bad == {i \in 0..n : i \notin set}
  <1> SUFFICES ASSUME bad # {}
               PROVE  FALSE
    OBVIOUS
  <1>1. bad \in SUBSET Nat
    OBVIOUS
  <1>2. PICK i \in bad : \A j \in bad : i <= j
    BY <1>1, SmallestNumber
  <1>3. i # 0 /\ i - 1 \in 0..(n - 1) /\ i - 1 \notin bad
    BY <1>2
  <1> QED
    BY <1>2, <1>3

(***************************************************************************)
(* A serial execution is a fold: its states, one for each prefix.          *)
(***************************************************************************)
LEMMA GreatestOfInterval ==
    ASSUME NEW k \in Nat, NEW s \in SUBSET (1..k), k \in s
    PROVE  Max(s) = k
  <1>1. \A x \in s : (\A y \in s : x >= y) <=> x = k
    OBVIOUS
  <1> QED
    BY <1>1 DEF Max

\* The equation of the fold on the sets of a sequence's positions.
Folds(it, positions, order, rwSet, store) ==
    it = [s \in SUBSET positions |->
            IF s = {} THEN store ELSE Written(order[Max(s)], rwSet[order[Max(s)]], it[s \ {Max(s)}])]

LEMMA FoldGrows ==
    ASSUME NEW order, NEW rwSet, NEW store, NEW k \in Nat, NEW it,
           Folds(it, 1..k, order, rwSet, store)
    PROVE  \E more : Folds(more, 1..(k + 1), order, rwSet, store)
  <1> DEFINE last == k + 1
             more == [s \in SUBSET (1..last) |->
                        IF last \in s THEN Written(order[last], rwSet[order[last]], it[s \ {last}])
                        ELSE it[s]]
             step(s) == IF s = {} THEN store
                        ELSE Written(order[Max(s)], rwSet[order[Max(s)]], more[s \ {Max(s)}])
  <1>1. ASSUME NEW s \in SUBSET (1..last), last \in s
        PROVE  more[s] = step(s)
    <2>1. Max(s) = last /\ s # {}
      BY <1>1, GreatestOfInterval
    <2>2. s \ {last} \in SUBSET (1..last) /\ last \notin s \ {last}
      OBVIOUS
    <2>3. more[s \ {last}] = it[s \ {last}]
      BY <2>2
    <2>4. more[s] = Written(order[last], rwSet[order[last]], it[s \ {last}])
      BY <1>1
    <2> QED
      BY <2>1, <2>3, <2>4
  <1>2. ASSUME NEW s \in SUBSET (1..last), last \notin s
        PROVE  more[s] = step(s)
    <2>1. s \in SUBSET (1..k)
      <3>1. \A i \in s : i \in 1..last /\ i # last
        BY <1>2
      <3> QED
        BY <3>1
    <2>4. s \ {Max(s)} \in SUBSET (1..last) /\ last \notin s \ {Max(s)}
      BY <1>2
    <2>2. it[s] = IF s = {} THEN store
                  ELSE Written(order[Max(s)], rwSet[order[Max(s)]], it[s \ {Max(s)}])
      BY <2>1 DEF Folds
    <2>3. more[s] = it[s] /\ more[s \ {Max(s)}] = it[s \ {Max(s)}]
      BY <1>2, <2>4
    <2> QED
      BY <2>2, <2>3
  <1>3. \A s \in SUBSET (1..last) : more[s] = step(s)
    BY <1>1, <1>2
  <1>4. more = [s \in SUBSET (1..last) |-> step(s)]
    BY <1>3
  <1> QED
    BY <1>4 DEF Folds

LEMMA FoldExists ==
    ASSUME NEW order, NEW rwSet, NEW store, NEW n \in Nat
    PROVE  \E it : Folds(it, 1..n, order, rwSet, store)
  <1> DEFINE good == {i \in 0..n : \E it : Folds(it, 1..i, order, rwSet, store)}
  <1>1. 0 \in good
    <2>1. 1..0 = {} /\ SUBSET (1..0) = {{}}
      OBVIOUS
    <2>2. Folds([s \in SUBSET (1..0) |-> store], 1..0, order, rwSet, store)
      BY <2>1 DEF Folds
    <2> QED
      BY <2>2
  <1>2. \A i \in 0..(n - 1) : i \in good => i + 1 \in good
    BY FoldGrows
  <1> HIDE DEF good
  <1>3. n \in good
    BY <1>1, <1>2, NumbersUpTo
  <1> QED
    BY <1>3 DEF good

\* The stores between the executions.
StoresBetween(run, order, rwSet, store) ==
    /\ run[0] = store
    /\ \A i \in 1..Len(order) : run[i] = Written(order[i], rwSet[order[i]], run[i - 1])

LEMMA SerialPrefixes ==
    ASSUME NEW txs, NEW order \in Seq(txs), NEW rwSet, NEW store
    PROVE  \E run : StoresBetween(run, order, rwSet, store) /\ SerialStore(order, rwSet, store) = run[Len(order)]
  <1> DEFINE it == CHOOSE it : Folds(it, DOMAIN order, order, rwSet, store)
             run == [i \in 0..Len(order) |-> it[1..i]]
  <1>1. SerialStore(order, rwSet, store) = it[DOMAIN order]
    BY DEF SerialStore, FoldLeft, MapThenFoldSet, Folds
  <1>2. Len(order) \in Nat /\ DOMAIN order = 1..Len(order)
    OBVIOUS
  <1>3. Folds(it, 1..Len(order), order, rwSet, store)
    BY <1>2, FoldExists
  <1> HIDE DEF it
  <1>4. run[0] = store
    <2>1. 1..0 = {} /\ {} \in SUBSET (1..Len(order))
      OBVIOUS
    <2> QED
      BY <1>2, <1>3, <2>1 DEF Folds
  <1>5. ASSUME NEW i \in 1..Len(order)
        PROVE  run[i] = Written(order[i], rwSet[order[i]], run[i - 1])
    <2>1. 1..i \in SUBSET (1..Len(order)) /\ i \in Nat /\ i \in 1..i
      BY <1>2
    <2>2. Max(1..i) = i /\ 1..i # {} /\ (1..i) \ {i} = 1..(i - 1)
      <3>1. PICK set : set = 1..i
        OBVIOUS
      <3>2. Max(set) = i
        BY <2>1, <3>1, GreatestOfInterval
      <3> QED
        BY <2>1, <3>1, <3>2
    <2>3. it[1..i] = Written(order[i], rwSet[order[i]], it[1..(i - 1)])
      BY <1>3, <2>1, <2>2 DEF Folds
    <2> QED
      BY <1>2, <2>3
  <1>6. SerialStore(order, rwSet, store) = run[Len(order)]
    BY <1>1, <1>2
  <1> QED
    BY <1>4, <1>5, <1>6 DEF StoresBetween

(***************************************************************************)
(* Sorting a finite set.                                                   *)
(***************************************************************************)
LEMMA OneOut ==
    ASSUME NEW S, IsFiniteSet(S), NEW m \in S, NEW rest, rest = S \ {m}
    PROVE  /\ IsFiniteSet(rest) /\ Cardinality(rest) \in Nat /\ Cardinality(S) \in Nat
           /\ Cardinality(S) = Cardinality(rest) + 1
  <1>1. /\ IsFiniteSet(S \ {m})
        /\ Cardinality(S \ {m}) = IF m \in S THEN Cardinality(S) - 1 ELSE Cardinality(S)
    BY FS_RemoveElement
  <1>2. IsFiniteSet(rest) /\ Cardinality(rest) = Cardinality(S) - 1
    BY <1>1
  <1>3. Cardinality(rest) \in Nat /\ Cardinality(S) \in Nat
    BY <1>2, FS_CardinalityType
  <1> QED
    BY <1>2, <1>3

\* A finite set has a last element in any order that is total and transitive.
LEMMA LastElement ==
    ASSUME NEW S, IsFiniteSet(S), S # {}, NEW less,
           \A t, u \in S : t # u => <<t, u>> \in less \/ <<u, t>> \in less,
           \A t, u, v \in S : <<t, u>> \in less /\ <<u, v>> \in less => <<t, v>> \in less
    PROVE  \E m \in S : \A u \in S : u = m \/ <<u, m>> \in less
  <1> DEFINE n == Cardinality(S)
             Tops(T) == {m \in T : \A u \in T : u = m \/ <<u, m>> \in less}
             good == {i \in 0..n : \A T \in SUBSET S : Cardinality(T) = i => T = {} \/ Tops(T) # {}}
  <1>1. n \in Nat
    BY FS_CardinalityType
  <1>2. 0 \in good
    <2>1. \A T \in SUBSET S : Cardinality(T) = 0 => T = {}
      BY FS_Subset, FS_EmptySet
    <2> QED
      BY <1>1, <2>1
  <1>3. ASSUME NEW i \in 0..(n - 1), i \in good
        PROVE  i + 1 \in good
    <2>1. ASSUME NEW T \in SUBSET S, Cardinality(T) = i + 1
          PROVE  Tops(T) # {}
      <3>1. IsFiniteSet(T) /\ T # {}
        BY <1>1, <2>1, FS_Subset, FS_EmptySet
      <3>2. PICK x \in T : TRUE
        BY <3>1
      <3>3. PICK rest : rest = T \ {x}
        OBVIOUS
      <3>6. rest \in SUBSET S /\ Cardinality(rest) = i
        BY <1>1, <2>1, <3>1, <3>2, <3>3, OneOut
      <3>4. CASE rest = {}
        <4>1. \A u \in T : u = x
          BY <3>3, <3>4
        <4> QED
          BY <3>2, <4>1
      <3>5. CASE rest # {}
        <4>1. PICK m \in T : m # x /\ \A u \in T : u = x \/ u = m \/ <<u, m>> \in less
          <5>1. Tops(rest) # {}
            BY <1>3, <3>5, <3>6
          <5> QED
            BY <3>3, <5>1
        <4>3. CASE <<x, m>> \in less
          BY <4>1, <4>3
        <4>4. CASE <<m, x>> \in less
          <5>1. \A u \in T : u = x \/ <<u, x>> \in less
            BY <3>2, <4>1, <4>4
          <5> QED
            BY <3>2, <5>1
        <4> QED
          BY <3>2, <4>1, <4>3, <4>4
      <3> QED
        BY <3>4, <3>5
    <2> QED
      BY <1>1, <1>3, <2>1
  <1> HIDE DEF good
  <1>4. n \in good
    BY <1>1, <1>2, <1>3, NumbersUpTo
  <1> QED
    BY <1>4, S \in SUBSET S DEF good

LEMMA HighestRank ==
    ASSUME NEW S, IsFiniteSet(S), S # {}, NEW rank \in [S -> Int]
    PROVE  \E m \in S : \A u \in S : rank[u] <= rank[m]
  <1>1. PICK less : \A t, u \in S : <<t, u>> \in less <=> rank[t] <= rank[u]
    <2>1. \A t, u \in S : <<t, u>> \in {e \in S \X S : rank[e[1]] <= rank[e[2]]} <=> rank[t] <= rank[u]
      OBVIOUS
    <2> QED
      BY <2>1
  <1>2. \A t \in S : rank[t] \in Int
    OBVIOUS
  <1>3. \A t, u \in S : t # u => <<t, u>> \in less \/ <<u, t>> \in less
    BY <1>1, <1>2
  <1>4. \A t, u, v \in S : <<t, u>> \in less /\ <<u, v>> \in less => <<t, v>> \in less
    BY <1>1, <1>2
  <1>5. PICK m \in S : \A u \in S : u = m \/ <<u, m>> \in less
    <2>1. PICK set : set = S
      OBVIOUS
    <2>2. \A t, u \in set : t # u => <<t, u>> \in less \/ <<u, t>> \in less
      BY <1>3, <2>1
    <2>3. \A t, u, v \in set : <<t, u>> \in less /\ <<u, v>> \in less => <<t, v>> \in less
      BY <1>4, <2>1
    <2>4. IsFiniteSet(set) /\ set # {}
      BY <2>1
    <2>5. \E m \in set : \A u \in set : u = m \/ <<u, m>> \in less
      BY <2>2, <2>3, <2>4, LastElement, SMTT(60)
    <2> QED
      BY <2>1, <2>5
  <1>6. rank[m] <= rank[m]
    BY <1>2
  <1> QED
    BY <1>1, <1>2, <1>5, <1>6

Sorted(order, less) == \A i, j \in 1..Len(order) : i < j => <<order[i], order[j]>> \in less

\* What SetToSeqs gives: every element, once.
LEMMA ListsEach ==
    ASSUME NEW S, IsFiniteSet(S), NEW order \in SetToSeqs(S)
    PROVE  /\ order \in Seq(S) /\ Len(order) = Cardinality(S) /\ Len(order) \in Nat
           /\ DOMAIN order = 1..Len(order)
           /\ \A i, j \in 1..Len(order) : order[i] = order[j] => i = j
           /\ \A t \in S : \E i \in 1..Len(order) : order[i] = t
  <1> DEFINE n == Cardinality(S)
  <1>1. n \in Nat
    BY FS_CardinalityType
  <1>2. order \in [1..n -> S] /\ \A i, j \in 1..n : order[i] = order[j] => i = j
    BY DEF SetToSeqs
  <1>3. order \in Seq(S) /\ Len(order) = n
    BY <1>1, <1>2
  <1>4. order \in Injection(1..n, S)
    BY <1>2 DEF Injection, IsInjective
  <1>5. Cardinality(1..n) = n
    BY <1>1, FS_Interval
  <1>6. order \in Surjection(1..n, S)
    BY <1>4, <1>5, FS_Injection
  <1> QED
    BY <1>1, <1>2, <1>3, <1>6 DEF Surjection

LEMMA SortedAppend ==
    ASSUME NEW S, IsFiniteSet(S), NEW m \in S, NEW less,
           \A u \in S : u = m \/ <<u, m>> \in less, NEW rest, rest = S \ {m},
           NEW order \in SetToSeqs(rest), Sorted(order, less)
    PROVE  \E more \in SetToSeqs(S) : Sorted(more, less)
  <1> DEFINE n == Cardinality(rest)
             more == [i \in 1..(n + 1) |-> IF i = n + 1 THEN m ELSE order[i]]
  <1>1. IsFiniteSet(rest) /\ Cardinality(S) = n + 1 /\ n \in Nat
    BY OneOut
  <1>2. /\ Len(order) = n /\ \A i, j \in 1..n : order[i] = order[j] => i = j
        /\ \A i \in 1..n : order[i] \in S /\ order[i] # m
    <2>1. /\ order \in Seq(rest) /\ Len(order) = Cardinality(rest) /\ DOMAIN order = 1..Len(order)
          /\ \A i, j \in 1..Len(order) : order[i] = order[j] => i = j
      BY <1>1, ListsEach
    <2>2. \A i \in DOMAIN order : order[i] \in rest
      BY <2>1
    <2> QED
      BY <2>1, <2>2
  <1>3. \A i \in 1..(n + 1) : i = n + 1 \/ i \in 1..n
    BY <1>1
  <1>4. more \in [1..Cardinality(S) -> S]
    BY <1>1, <1>2, <1>3
  <1>5. \A i, j \in 1..Cardinality(S) : i # j => more[i] # more[j]
    BY <1>1, <1>2, <1>3
  <1>6. more \in SetToSeqs(S)
    BY <1>4, <1>5 DEF SetToSeqs
  <1>7. Len(more) = n + 1
    BY <1>1
  <1>8. ASSUME NEW i \in 1..(n + 1), NEW j \in 1..(n + 1), i < j
        PROVE  <<more[i], more[j]>> \in less
    <2>1. i \in 1..n /\ more[i] = order[i]
      BY <1>1, <1>8
    <2>2. CASE j = n + 1
      BY <1>1, <1>2, <2>1, <2>2
    <2>3. CASE j \in 1..n
      BY <1>1, <1>2, <1>8, <2>1, <2>3 DEF Sorted
    <2> QED
      BY <1>3, <2>2, <2>3
  <1> QED
    BY <1>6, <1>7, <1>8 DEF Sorted

LEMMA SortedList ==
    ASSUME NEW S, IsFiniteSet(S), NEW less,
           \A t, u \in S : t # u => <<t, u>> \in less \/ <<u, t>> \in less,
           \A t, u, v \in S : <<t, u>> \in less /\ <<u, v>> \in less => <<t, v>> \in less
    PROVE  \E order \in SetToSeqs(S) : Sorted(order, less)
  <1> DEFINE n == Cardinality(S)
             Good(T) == \E order \in SetToSeqs(T) : Sorted(order, less)
             good == {i \in 0..n : \A T \in SUBSET S : Cardinality(T) = i => Good(T)}
  <1>1. n \in Nat
    BY FS_CardinalityType
  <1>2. 0 \in good
    <2>1. ASSUME NEW T \in SUBSET S, Cardinality(T) = 0
          PROVE  Good(T)
      <3>1. << >> \in SetToSeqs(T)
        BY <2>1 DEF SetToSeqs
      <3> QED
        BY <3>1 DEF Sorted
    <2> QED
      BY <1>1, <2>1
  <1>3. ASSUME NEW i \in 0..(n - 1), i \in good
        PROVE  i + 1 \in good
    <2>1. ASSUME NEW T \in SUBSET S, Cardinality(T) = i + 1
          PROVE  Good(T)
      <3>1. IsFiniteSet(T) /\ T # {}
        BY <1>1, <2>1, FS_Subset, FS_EmptySet
      <3>2. PICK m \in T : \A u \in T : u = m \/ <<u, m>> \in less
        BY <3>1, LastElement
      <3>3. PICK rest : rest = T \ {m}
        OBVIOUS
      <3>4. rest \in SUBSET S /\ Cardinality(rest) = i /\ IsFiniteSet(rest)
        BY <1>1, <2>1, <3>1, <3>3, OneOut
      <3>5. PICK order \in SetToSeqs(rest) : Sorted(order, less)
        BY <1>3, <3>4
      <3> QED
        BY <3>1, <3>2, <3>3, <3>5, SortedAppend
    <2> QED
      BY <1>1, <1>3, <2>1
  <1> HIDE DEF good
  <1>4. n \in good
    BY <1>1, <1>2, <1>3, NumbersUpTo
  <1> QED
    BY <1>4, S \in SUBSET S DEF good

(***************************************************************************)
(* Serial executions, key by key.                                          *)
(***************************************************************************)
LEMMA WrittenStore ==
    ASSUME NEW t, NEW rw, NEW store, IsStore(store)
    PROVE  /\ IsStore(Written(t, rw, store))
           /\ \A k \in Keys : k \notin rw.writes => Written(t, rw, store)[k] = store[k]
           /\ \A other : IsStore(other) /\ (\A k \in rw.reads : other[k] = store[k]) =>
                \A k \in Keys : k \in rw.writes => Written(t, rw, other)[k] = Written(t, rw, store)[k]
  <1>1. ASSUME NEW other, \A k \in rw.reads : other[k] = store[k]
        PROVE  [k \in rw.reads |-> other[k]] = [k \in rw.reads |-> store[k]]
    BY <1>1
  <1>2. ASSUME NEW other, IsStore(other), \A k \in rw.reads : other[k] = store[k], NEW k \in Keys, k \in rw.writes
        PROVE  Written(t, rw, other)[k] = Written(t, rw, store)[k]
    <2>1. [r \in rw.reads |-> other[r]] = [r \in rw.reads |-> store[r]]
      BY <1>1, <1>2
    <2> QED
      BY <1>2, <2>1 DEF Written, IsStore
  <1>3. IsStore(Written(t, rw, store))
    BY DEF IsStore, Written
  <1>4. \A k \in Keys : k \notin rw.writes => Written(t, rw, store)[k] = store[k]
    BY DEF Written, IsStore
  <1> QED
    BY <1>2, <1>3, <1>4

\* The value of a key after some of a sequence's transactions, of which each is
\* said to have seen something: that of the last that writes the key.
LeftAfter(i, k, value, order, rwSet, store, seen) ==
    LET writes == {j \in 1..i : k \in rwSet[order[j]].writes}
    IN  /\ writes = {} => value = store[k]
        /\ \A j \in writes :
            (\A l \in writes : l <= j) => value = [tx |-> order[j], saw |-> seen[order[j]]]

LEMMA OneLeftAfter ==
    ASSUME NEW i \in Nat, NEW k, NEW v, NEW w, NEW order, NEW rwSet, NEW store, NEW seen,
           LeftAfter(i, k, v, order, rwSet, store, seen), LeftAfter(i, k, w, order, rwSet, store, seen)
    PROVE  v = w
  <1>1. PICK writes : writes = {j \in 1..i : k \in rwSet[order[j]].writes}
    OBVIOUS
  <1>2. CASE writes = {}
    BY <1>1, <1>2 DEF LeftAfter
  <1>3. CASE writes # {}
    <2>1. writes \subseteq 1..i /\ IsFiniteSet(writes) /\ \A j \in writes : j \in Int
      BY <1>1, FS_Interval, FS_Subset
    <2>2. PICK rank : rank = [j \in writes |-> j]
      OBVIOUS
    <2>3. rank \in [writes -> Int]
      BY <2>1, <2>2
    <2>4. PICK j \in writes : \A l \in writes : rank[l] <= rank[j]
      BY <1>3, <2>1, <2>3, HighestRank
    <2>5. \A l \in writes : l <= j
      BY <2>2, <2>4
    <2> QED
      BY <1>1, <2>5 DEF LeftAfter
  <1> QED
    BY <1>2, <1>3

\* It is known what each has read.
HasSeen(txs, rwSet, seen) ==
    \A t \in txs : /\ rwSet[t].reads \subseteq Keys
                   /\ seen[t] = [r \in rwSet[t].reads |-> seen[t][r]]

\* Each has read what those before it in the list leave.
SeenInTurn(order, rwSet, store, seen) ==
    \A i \in 1..Len(order) : \A r \in rwSet[order[i]].reads :
        LeftAfter(i - 1, r, seen[order[i]][r], order, rwSet, store, seen)

\* If each has seen what those before it leave, a serial execution leaves the
\* same.
LEMMA SerialIsKnown ==
    ASSUME NEW txs, NEW order \in Seq(txs), NEW rwSet, NEW store, IsStore(store), NEW seen,
           HasSeen(txs, rwSet, seen), SeenInTurn(order, rwSet, store, seen),
           NEW left, left = SerialStore(order, rwSet, store)
    PROVE  /\ IsStore(left)
           /\ \A k \in Keys : \A v :
                LeftAfter(Len(order), k, v, order, rwSet, store, seen) => v = left[k]
  <1> USE DEF HasSeen, SeenInTurn
  <1>1. PICK run, n : /\ n = Len(order) /\ n \in Nat
                      /\ StoresBetween(run, order, rwSet, store) /\ left = run[n]
    BY SerialPrefixes
  <1> DEFINE Known(i, k, v) == LeftAfter(i, k, v, order, rwSet, store, seen)
             Holds(i) == IsStore(run[i]) /\ \A k \in Keys : Known(i, k, run[i][k])
             good == {i \in 0..n : Holds(i)}
  <1>2. 0 \in good
    <2>1. run[0] = store /\ 1..0 = {}
      BY <1>1 DEF StoresBetween
    <2>2. \A k \in Keys : Known(0, k, run[0][k])
      BY <2>1 DEF LeftAfter
    <2> QED
      BY <1>1, <2>1, <2>2
  <1>3. ASSUME NEW i \in 0..(n - 1), Holds(i)
        PROVE  Holds(i + 1)
    <2>1. i + 1 \in 1..n /\ (i + 1) - 1 = i /\ i \in Nat
      BY <1>1
    <2>2. PICK t, rw : t = order[i + 1] /\ rw = rwSet[t]
      OBVIOUS
    <2>3. t \in txs
      BY <1>1, <2>1, <2>2
    <2>4. run[i + 1] = Written(t, rw, run[i])
      BY <1>1, <2>1, <2>2 DEF StoresBetween
    <2>5. rw.reads \subseteq Keys /\ seen[t] = [r \in rw.reads |-> seen[t][r]]
      BY <2>2, <2>3
    <2>6. ASSUME NEW r \in rw.reads
          PROVE  run[i][r] = seen[t][r]
      <3>1. Known(i, r, run[i][r])
        BY <1>3, <2>5, <2>6
      <3>2. Known(i, r, seen[t][r])
        BY <1>1, <2>1, <2>2, <2>6
      <3> QED
        BY <2>1, <3>1, <3>2, OneLeftAfter
    <2>7. [r \in rw.reads |-> run[i][r]] = seen[t]
      BY <2>5, <2>6
    <2>8. ASSUME NEW k \in Keys
          PROVE  Known(i + 1, k, run[i + 1][k])
      <3>1. PICK old, new : /\ old = {j \in 1..i : k \in rwSet[order[j]].writes}
                            /\ new = {j \in 1..(i + 1) : k \in rwSet[order[j]].writes}
        OBVIOUS
      <3>2. CASE k \in rw.writes
        <4>1. run[i + 1][k] = [tx |-> t, saw |-> seen[t]]
          BY <1>3, <2>4, <2>7, <2>8, <3>2 DEF Written, IsStore
        <4>2. i + 1 \in new
          BY <2>1, <2>2, <3>1, <3>2
        <4>3. \A j \in new : i + 1 <= j => j = i + 1
          BY <2>1, <3>1
        <4>4. \A j \in new : (\A l \in new : l <= j) => run[i + 1][k] = [tx |-> order[j], saw |-> seen[order[j]]]
          BY <2>2, <4>1, <4>2, <4>3
        <4> QED
          BY <3>1, <4>2, <4>4 DEF LeftAfter
      <3>3. CASE k \notin rw.writes
        <4>1. run[i + 1][k] = run[i][k]
          BY <1>3, <2>4, <2>8, <3>3, WrittenStore
        <4>2. new = old
          <5>1. \A j \in 1..(i + 1) : j \in 1..i \/ j = i + 1
            BY <2>1
          <5>2. \A j \in 1..i : j \in 1..(i + 1)
            BY <2>1
          <5> QED
            BY <2>2, <3>1, <3>3, <5>1, <5>2
        <4>3. Known(i, k, run[i][k])
          BY <1>3, <2>8
        <4> QED
          BY <3>1, <4>1, <4>2, <4>3 DEF LeftAfter
      <3> QED
        BY <3>2, <3>3
    <2>9. IsStore(run[i + 1])
      BY <1>3, <2>4, WrittenStore
    <2> QED
      BY <2>8, <2>9
  <1>4. \A i \in 0..(n - 1) : i \in good => i + 1 \in good
    BY <1>1, <1>3
  <1> HIDE DEF good
  <1>5. n \in good
    BY <1>1, <1>2, <1>4, NumbersUpTo, n \in 0..n
  <1>6. Holds(n)
    BY <1>5 DEF good
  <1>7. ASSUME NEW k \in Keys, NEW v, Known(n, k, v)
        PROVE  v = left[k]
    <2>1. Known(n, k, run[n][k])
      BY <1>6, <1>7
    <2>2. v = run[n][k]
      BY <1>1, <1>7, <2>1, OneLeftAfter
    <2> QED
      BY <1>1, <2>2
  <1> QED
    BY <1>1, <1>6, <1>7

(***************************************************************************)
(* The conflict graph and the three groupings.                             *)
(***************************************************************************)
LEMMA VerticesAreNumbers ==
    /\ Txs \subseteq Nat /\ IsFiniteSet(Txs)
    /\ Vertices \subseteq Txs /\ Vertices \subseteq Nat /\ IsFiniteSet(Vertices)
  <1>1. Vertices \subseteq Txs
    BY DEF Vertices
  <1> QED
    BY <1>1, ConflictGraphAssumption, FS_Subset

LEMMA ConflictIsInterference ==
    ASSUME NEW t, NEW u
    PROVE  /\ Conflict(t, u) <=> Conflict(u, t)
           /\ Interfere(t, u) <=> Conflict(t, u)
  BY DEF Conflict, HasConflict, Interfere

\* Vertices that interfere are neighbors, the earlier before the later.
LEMMA InterferenceIsEdge ==
    ASSUME NEW t \in Vertices, NEW u \in Vertices, Interfere(t, u), t # u
    PROVE  /\ t \in Neighbors(u) /\ u \in Neighbors(t)
           /\ t < u => <<t, u>> \in DirectedEdges
           /\ u < t => <<u, t>> \in DirectedEdges
  <1>1. t \in Nat /\ u \in Nat
    BY VerticesAreNumbers
  <1>2. Conflict(t, u) /\ Conflict(u, t)
    BY ConflictIsInterference
  <1> QED
    BY <1>1, <1>2 DEF DirectedEdges, Neighbors

Closed(part) == \A u \in part : Neighbors(u) \subseteq part

LEMMA ComponentIsClosed ==
    ASSUME NEW v \in Vertices
    PROVE  Component(v) \subseteq Vertices /\ v \in Component(v) /\ Closed(Component(v))
  <1>1. \A u \in Component(v) : \A w \in Neighbors(u) : w \in Component(v)
    BY DEF Component, Neighbors
  <1> QED
    BY <1>1 DEF Component, Closed

LEMMA NeighborsAreMutual ==
    ASSUME NEW t \in Vertices, NEW u \in Neighbors(t)
    PROVE  t \in Neighbors(u) /\ u \in Vertices
  BY DEF Neighbors

LEMMA SameComponent ==
    ASSUME NEW v \in Vertices, NEW u \in Component(v)
    PROVE  Component(u) = Component(v)
  <1>1. u \in Vertices
    BY ComponentIsClosed
  <1>2. Component(u) \subseteq Component(v)
    <2>1. Component(v) \in SUBSET Vertices /\ \A w \in Component(v) : Neighbors(w) \subseteq Component(v)
      BY ComponentIsClosed DEF Closed
    <2> QED
      BY <2>1 DEF Component
  <1>3. v \in Component(u)
    <2>1. SUFFICES ASSUME v \notin Component(u)
                   PROVE  FALSE
      OBVIOUS
    <2>2. PICK part : part = Component(v) \ Component(u)
      OBVIOUS
    <2>3. part \in SUBSET Vertices /\ v \in part /\ u \notin part
      BY <1>1, <2>1, <2>2, ComponentIsClosed
    <2>4. ASSUME NEW t \in part, NEW w \in Neighbors(t)
          PROVE  w \in part
      <3>1. w \in Component(v)
        BY <2>2, <2>4, ComponentIsClosed DEF Closed
      <3>2. t \in Neighbors(w) /\ w \in Vertices
        BY <2>3, <2>4, NeighborsAreMutual
      <3>3. w \notin Component(u)
        BY <1>1, <2>2, <2>4, <3>2, ComponentIsClosed DEF Closed
      <3> QED
        BY <2>2, <3>1, <3>3
    <2>5. u \in part
      BY <2>3, <2>4 DEF Component
    <2> QED
      BY <2>3, <2>5
  <1>4. Component(v) \subseteq Component(u)
    <2>1. Component(u) \in SUBSET Vertices /\ \A w \in Component(u) : Neighbors(w) \subseteq Component(u)
      BY <1>1, ComponentIsClosed DEF Closed
    <2> QED
      BY <1>3, <2>1 DEF Component
  <1> QED
    BY <1>2, <1>4

LEMMA ComponentPlansAreGood ==
    ASSUME NEW p \in ComponentPlans
    PROVE  p \in Seq(SUBSET SUBSET Txs) /\ GoodPlan(p, DOMAIN p, "ConnectedComponents")
  <1>1. PICK groups : groups = {Component(v) : v \in Vertices}
    OBVIOUS
  <1>2. p = <<groups>> /\ DOMAIN p = {1} /\ p[1] = groups
    BY <1>1 DEF ComponentPlans
  <1>3. ASSUME NEW g \in groups
        PROVE  g \subseteq Vertices /\ \A v \in g : Component(v) = g
    <2>1. PICK v \in Vertices : g = Component(v)
      BY <1>1
    <2> QED
      BY <2>1, ComponentIsClosed, SameComponent
  <1>4. \A v \in Vertices : \E g \in groups : v \in g
    BY <1>1, ComponentIsClosed
  <1>5. \A g, h \in groups : g # h => g \cap h = {}
    BY <1>3
  <1>6. ASSUME NEW g \in groups, NEW h \in groups, g # h, NEW t \in g, NEW u \in h, Interfere(t, u)
        PROVE  FALSE
    <2>1. t \in Vertices /\ u \in Vertices /\ t # u /\ Component(t) = g /\ Component(u) = h
      BY <1>3, <1>6
    <2>2. u \in Neighbors(t)
      BY <1>6, <2>1, InterferenceIsEdge
    <2>3. u \in g
      BY <2>1, <2>2, ComponentIsClosed DEF Closed
    <2> QED
      BY <1>5, <1>6, <2>3
  <1>7. groups \in SUBSET SUBSET Txs
    BY <1>3, VerticesAreNumbers
  <1> QED
    BY <1>2, <1>3, <1>4, <1>5, <1>6, <1>7 DEF GoodPlan

LEMMA SinglesAreGood ==
    ASSUME NEW roundOf, NEW last \in Nat, \A v \in Vertices : roundOf[v] \in 1..last,
           \A e \in DirectedEdges : roundOf[e[1]] # roundOf[e[2]],
           NEW p, p = Singles(roundOf, last)
    PROVE  /\ p \in Seq(SUBSET SUBSET Txs) /\ GoodPlan(p, DOMAIN p, "MIS")
           /\ DOMAIN p = 1..last
           /\ (\A e \in DirectedEdges : roundOf[e[1]] < roundOf[e[2]]) => GoodPlan(p, DOMAIN p, "DegreeZero")
  <1>1. DOMAIN p = 1..last /\ \A i \in 1..last : p[i] = {{v} : v \in {u \in Vertices : roundOf[u] = i}}
    BY DEF Singles
  <1>2. \A i \in 1..last : \A g \in p[i] : \E v \in Vertices : g = {v} /\ roundOf[v] = i
    BY <1>1
  <1>3. \A v \in Vertices : {v} \in p[roundOf[v]]
    BY <1>1
  <1>4. p \in Seq(SUBSET SUBSET Txs)
    <2>1. \A i \in 1..last : p[i] \in SUBSET SUBSET Txs
      BY <1>2, VerticesAreNumbers
    <2>2. p = [i \in 1..last |-> p[i]]
      BY DEF Singles
    <2> QED
      BY <2>1, <2>2
  <1>5. ASSUME NEW i \in 1..last, NEW g \in p[i], NEW h \in p[i], g # h, NEW t \in g, NEW u \in h, Interfere(t, u)
        PROVE  FALSE
    <2>1. t \in Vertices /\ u \in Vertices /\ t # u /\ roundOf[t] = i /\ roundOf[u] = i
      <3>1. (\E v \in Vertices : g = {v} /\ roundOf[v] = i) /\ (\E v \in Vertices : h = {v} /\ roundOf[v] = i)
        BY <1>2, <1>5
      <3> QED
        BY <1>5, <3>1
    <2>2. t \in Nat /\ u \in Nat
      BY <2>1, VerticesAreNumbers
    <2>3. <<t, u>> \in DirectedEdges \/ <<u, t>> \in DirectedEdges
      BY <1>5, <2>1, <2>2, InterferenceIsEdge
    <2> QED
      BY <2>1, <2>3
  <1>6. \A i, j \in 1..last : \A g \in p[i], h \in p[j] : i # j \/ g # h => g \cap h = {}
    <2>1. ASSUME NEW i \in 1..last, NEW j \in 1..last, NEW g \in p[i], NEW h \in p[j], NEW v \in g \cap h
          PROVE  i = j /\ g = h
      <3>1. (\E w \in Vertices : g = {w} /\ roundOf[w] = i) /\ (\E w \in Vertices : h = {w} /\ roundOf[w] = j)
        BY <1>2, <2>1
      <3> QED
        BY <2>1, <3>1
    <2> QED
      BY <2>1
  <1>7. \A i \in 1..last : \A g \in p[i] : g \subseteq Vertices /\ \A t \in g : g = {t}
    BY <1>2
  <1>8. \A v \in Vertices : \E i \in 1..last : \E g \in p[i] : v \in g
    BY <1>3
  <1>9. GoodPlan(p, 1..last, "MIS")
    BY <1>5, <1>6, <1>7, <1>8 DEF GoodPlan
  <1>10. ASSUME \A e \in DirectedEdges : roundOf[e[1]] < roundOf[e[2]],
                NEW i \in 1..last, NEW j \in 1..last, NEW t \in Vertices, NEW u \in Vertices,
                {t} \in p[i], {u} \in p[j], Interfere(t, u), t < u
         PROVE  i < j
    <2>1. roundOf[t] = i /\ roundOf[u] = j
      <3>1. \E v \in Vertices : {t} = {v} /\ roundOf[v] = i
        BY <1>2, <1>10
      <3>2. \E v \in Vertices : {u} = {v} /\ roundOf[v] = j
        BY <1>2, <1>10
      <3> QED
        BY <3>1, <3>2
    <2>2. t # u
      BY <1>10, VerticesAreNumbers
    <2>3. <<t, u>> \in DirectedEdges
      BY <1>10, <2>2, InterferenceIsEdge
    <2> QED
      BY <1>10, <2>1, <2>3
  <1>11. (\A e \in DirectedEdges : roundOf[e[1]] < roundOf[e[2]]) => GoodPlan(p, 1..last, "DegreeZero")
    BY <1>5, <1>6, <1>7, <1>8, <1>10 DEF GoodPlan
  <1> QED
    BY <1>1, <1>4, <1>9, <1>11

LEMMA RoundPlansAreGood ==
    ASSUME NEW p \in RoundPlans
    PROVE  p \in Seq(SUBSET SUBSET Txs) /\ GoodPlan(p, DOMAIN p, "MIS")
  <1>1. PICK last, roundOf :
            /\ last \in 0..Cardinality(Vertices) /\ roundOf \in [Vertices -> 1..last] /\ p = Singles(roundOf, last)
            /\ \A e \in DirectedEdges : roundOf[e[1]] # roundOf[e[2]]
    BY DEF RoundPlans
  <1>2. last \in Nat
    BY <1>1, FS_CardinalityType, VerticesAreNumbers
  <1> QED
    BY <1>1, <1>2, SinglesAreGood

\* What the recursion of Layer says, of the transactions below a number.
IsLayering(f, set) ==
    f = [v \in set |-> 1 + Max({0} \cup {f[u] : u \in {w \in Txs : w < v /\ <<w, v>> \in DirectedEdges}})]

LEMMA TxsAreBounded == \E n \in Nat : \A t \in Txs : t < n
  <1>1. CASE Txs = {}
    BY <1>1, 0 \in Nat
  <1>2. CASE Txs # {}
    <2>1. PICK rank : rank = [t \in Txs |-> t]
      OBVIOUS
    <2>2. rank \in [Txs -> Int]
      BY <2>1, VerticesAreNumbers
    <2>3. PICK m \in Txs : \A t \in Txs : rank[t] <= rank[m]
      BY <1>2, <2>2, HighestRank, VerticesAreNumbers
    <2>4. m + 1 \in Nat /\ \A t \in Txs : t < m + 1
      BY <2>1, <2>3, VerticesAreNumbers
    <2> QED
      BY <2>4
  <1> QED
    BY <1>1, <1>2

LEMMA LayeringExists == \E f : IsLayering(f, Txs)
  <1>1. PICK n \in Nat : \A t \in Txs : t < n
    BY TxsAreBounded
  <1> DEFINE Below(i) == {t \in Txs : t < i}
             good == {i \in 0..n : \E f : IsLayering(f, Below(i))}
  <1>2. 0 \in good
    <2>1. \A t \in Txs : ~(t < 0)
      BY VerticesAreNumbers
    <2>2. Below(0) = {}
      BY <2>1
    <2>3. IsLayering([v \in {} |-> 0], {})
      BY DEF IsLayering
    <2>4. \E f : IsLayering(f, Below(0))
      BY <2>2, <2>3
    <2>5. 0 \in 0..n
      BY <1>1
    <2> HIDE DEF Below
    <2> QED
      BY <2>4, <2>5
  <1>3. ASSUME NEW i \in 0..(n - 1), i \in good
        PROVE  i + 1 \in good
    <2>1. PICK f : IsLayering(f, Below(i))
      BY <1>3
    <2> DEFINE Earlier(v) == {w \in Txs : w < v /\ <<w, v>> \in DirectedEdges}
               Step(h, v) == 1 + Max({0} \cup {h[u] : u \in Earlier(v)})
               more == [v \in Below(i + 1) |-> IF v = i THEN Step(f, i) ELSE f[v]]
    <2>2. f = [v \in Below(i) |-> Step(f, v)]
      BY <2>1 DEF IsLayering
    <2>3. \A v \in Below(i + 1) : v = i \/ v \in Below(i)
      BY VerticesAreNumbers
    <2>4. ASSUME NEW v \in Below(i + 1)
          PROVE  more[v] = Step(more, v)
      <3>1. \A u \in Earlier(v) : u \in Below(i + 1) /\ u # i
        BY <2>4, VerticesAreNumbers
      <3>2. \A u \in Earlier(v) : more[u] = f[u]
        BY <3>1
      <3>3. {more[u] : u \in Earlier(v)} = {f[u] : u \in Earlier(v)}
        BY <3>2
      <3>4. Step(more, v) = Step(f, v)
        BY <3>3
      <3>5. more[v] = Step(f, v)
        <4>1. CASE v = i
          BY <2>4, <4>1
        <4>2. CASE v # i
          <5>1. v \in Below(i) /\ more[v] = f[v]
            BY <2>3, <2>4, <4>2
          <5>2. f[v] = Step(f, v)
            BY <2>2, <5>1
          <5> QED
            BY <5>1, <5>2
        <4> QED
          BY <4>1, <4>2
      <3> QED
        BY <3>4, <3>5
    <2>5. more = [v \in Below(i + 1) |-> Step(more, v)]
      BY <2>4
    <2>6. IsLayering(more, Below(i + 1))
      BY <2>5 DEF IsLayering
    <2> QED
      BY <1>1, <1>3, <2>6
  <1> HIDE DEF good
  <1>4. n \in good
    BY <1>1, <1>2, <1>3, NumbersUpTo
  <1>5. Below(n) = Txs
    BY <1>1
  <1> QED
    BY <1>4, <1>5 DEF good

LEMMA FiniteImage ==
    ASSUME NEW S, IsFiniteSet(S), NEW f, NEW image, image = {f[x] : x \in S}
    PROVE  IsFiniteSet(image)
  <1>1. [x \in S |-> f[x]] \in Surjection(S, image)
    BY DEF Surjection
  <1> QED
    BY <1>1, FS_Surjection

LEMMA MaxOfNumbers ==
    ASSUME NEW S, IsFiniteSet(S), S \subseteq Int, S # {}
    PROVE  Max(S) \in S /\ \A x \in S : x <= Max(S)
  <1>1. PICK rank : rank = [x \in S |-> x]
    OBVIOUS
  <1>2. rank \in [S -> Int]
    BY <1>1
  <1>3. PICK m \in S : \A x \in S : rank[x] <= rank[m]
    BY <1>2, HighestRank
  <1>4. \A x \in S : m >= x
    BY <1>1, <1>3
  <1>5. Max(S) \in S /\ \A x \in S : Max(S) >= x
    BY <1>4 DEF Max
  <1> QED
    BY <1>5

LEMMA LayersIncrease ==
    /\ \A v \in Vertices : Layer[v] \in Nat \ {0}
    /\ \A e \in DirectedEdges : Layer[e[1]] < Layer[e[2]]
  <1> DEFINE Earlier(v) == {w \in Txs : w < v /\ <<w, v>> \in DirectedEdges}
             Found(v) == {0} \cup {Layer[u] : u \in Earlier(v)}
  <1>1. Layer = [v \in Txs |-> 1 + Max(Found(v))]
    <2>1. Layer = CHOOSE f : f = [v \in Txs |-> 1 + Max({0} \cup {f[u] : u \in Earlier(v)})]
      BY DEF Layer
    <2>2. \E f : f = [v \in Txs |-> 1 + Max({0} \cup {f[u] : u \in Earlier(v)})]
      BY LayeringExists DEF IsLayering
    <2> QED
      BY <2>1, <2>2
  <1>2. ASSUME NEW v \in Txs, \A u \in Earlier(v) : Layer[u] \in Nat
        PROVE  /\ Layer[v] \in Nat \ {0}
               /\ \A u \in Earlier(v) : Layer[u] < Layer[v]
    <2>1. IsFiniteSet(Earlier(v))
      BY VerticesAreNumbers, FS_Subset
    <2>2. IsFiniteSet({Layer[u] : u \in Earlier(v)})
      BY <2>1, FiniteImage
    <2>3. PICK found : found = Found(v)
      OBVIOUS
    <2>4. IsFiniteSet(found)
      BY <2>2, <2>3, FS_Singleton, FS_Union
    <2>5. found \subseteq Nat /\ found # {}
      <3>1. \A u \in Earlier(v) : Layer[u] \in Nat
        BY <1>2
      <3> HIDE DEF Earlier
      <3>2. \A x \in found : x \in Nat
        BY <2>3, <3>1
      <3>3. 0 \in found
        BY <2>3
      <3> QED
        BY <3>2, <3>3
    <2>6. Max(found) \in found /\ \A x \in found : x <= Max(found)
      <3>1. found \subseteq Int
        BY <2>5
      <3> QED
        BY <2>4, <2>5, <3>1, MaxOfNumbers
    <2>7. Layer[v] = 1 + Max(found)
      BY <1>1, <2>3
    <2>8. \A u \in Earlier(v) : Layer[u] \in found
      BY <2>3
    <2>9. PICK max : max = Max(found)
      OBVIOUS
    <2>10. max \in Nat /\ \A x \in found : x \in Nat /\ x <= max
      BY <2>5, <2>6, <2>9
    <2>11. Layer[v] \in Nat \ {0}
      BY <2>7, <2>9, <2>10
    <2>12. \A u \in Earlier(v) : Layer[u] < Layer[v]
      BY <2>7, <2>8, <2>9, <2>10
    <2> QED
      BY <2>11, <2>12
  <1>3. \A v \in Txs : Layer[v] \in Nat
    <2> DEFINE bad == {v \in Txs : Layer[v] \notin Nat}
    <2>1. SUFFICES ASSUME bad # {}
                   PROVE  FALSE
      OBVIOUS
    <2>2. PICK v \in bad : \A u \in bad : v <= u
      BY <2>1, SmallestNumber, VerticesAreNumbers
    <2>3. \A u \in Earlier(v) : u \in Txs /\ u \notin bad
      BY <2>2, VerticesAreNumbers
    <2> QED
      BY <1>2, <2>2, <2>3
  <1>4. \A v \in Txs : Layer[v] \in Nat \ {0} /\ \A u \in Earlier(v) : Layer[u] < Layer[v]
    BY <1>2, <1>3
  <1>5. ASSUME NEW e \in DirectedEdges
        PROVE  e[2] \in Txs /\ e[1] \in Earlier(e[2])
    BY VerticesAreNumbers DEF DirectedEdges
  <1> HIDE DEF Earlier
  <1> QED
    BY <1>4, <1>5, VerticesAreNumbers

LEMMA LayerPlansAreGood ==
    ASSUME NEW p \in LayerPlans
    PROVE  p \in Seq(SUBSET SUBSET Txs) /\ GoodPlan(p, DOMAIN p, "DegreeZero")
  <1>1. PICK layers : layers = {1} \cup {Layer[v] : v \in Vertices}
    OBVIOUS
  <1>2. PICK last : last = Max(layers) /\ p = Singles(Layer, last)
    BY <1>1 DEF LayerPlans
  <1>3. IsFiniteSet(layers)
    <2>1. IsFiniteSet({Layer[v] : v \in Vertices})
      BY FiniteImage, VerticesAreNumbers
    <2> QED
      BY <1>1, <2>1, FS_Singleton, FS_Union
  <1>4. layers \subseteq Nat \ {0} /\ layers # {}
    BY <1>1, LayersIncrease
  <1>5. last \in Nat /\ \A x \in layers : x <= last
    <2>1. layers \subseteq Int
      BY <1>4
    <2>2. Max(layers) \in layers /\ \A x \in layers : x <= Max(layers)
      BY <1>3, <1>4, <2>1, MaxOfNumbers
    <2> QED
      BY <1>2, <1>4, <2>2
  <1>6. \A v \in Vertices : Layer[v] \in 1..last
    BY <1>1, <1>4, <1>5
  <1>7. \A e \in DirectedEdges : Layer[e[1]] # Layer[e[2]]
    <2>1. ASSUME NEW e \in DirectedEdges
          PROVE  Layer[e[1]] # Layer[e[2]]
      <3>1. e[1] \in Vertices /\ e[2] \in Vertices
        BY DEF DirectedEdges
      <3>2. Layer[e[1]] < Layer[e[2]] /\ Layer[e[1]] \in Nat /\ Layer[e[2]] \in Nat
        BY <3>1, LayersIncrease
      <3> QED
        BY <3>2
    <2> QED
      BY <2>1
  <1> QED
    BY <1>2, <1>5, <1>6, <1>7, LayersIncrease, SinglesAreGood

LEMMA PlansAreGood ==
    \A method \in Methods : \A p \in Plans(method) :
        p \in Seq(SUBSET SUBSET Txs) /\ GoodPlan(p, DOMAIN p, method)
  <1> SUFFICES ASSUME NEW method \in Methods, NEW p \in Plans(method)
               PROVE  p \in Seq(SUBSET SUBSET Txs) /\ GoodPlan(p, DOMAIN p, method)
    OBVIOUS
  <1>1. CASE method = "ConnectedComponents"
    BY <1>1, ComponentPlansAreGood DEF Plans
  <1>2. CASE method = "DegreeZero"
    BY <1>2, LayerPlansAreGood DEF Plans
  <1>3. CASE method = "MIS"
    BY <1>3, RoundPlansAreGood DEF Plans
  <1> QED
    BY <1>1, <1>2, <1>3, MethodsAssumption
===============================================================================
