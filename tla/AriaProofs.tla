------------------------------ MODULE AriaProofs ------------------------------
(***************************************************************************)
(* The theorems about Aria's rounds.  They come after lemmas about         *)
(* sequences of transactions, which do not depend on Aria: induction on    *)
(* numbers, sorting a finite set, and what a serial execution leaves, key  *)
(* by key.                                                                 *)
(***************************************************************************)
EXTENDS AriaInv, FiniteSetTheorems, WellFoundedInduction, TLAPS

LEMMA SmallestNumber ==
    ASSUME NEW set \in SUBSET Nat, set # {}
    PROVE  \E i \in set : \A j \in set : i <= j
  <1>1. \E i \in set : \A j \in set : ~(<<j, i>> \in OpToRel(<, Nat))
    BY NatLessThanWellFounded, WFMin
  <1>2. \E i \in set : \A j \in set : ~(j < i)
    BY <1>1 DEF OpToRel
  <1> QED
    BY <1>2

\* Induction on a number, for a set instead of a predicate.
LEMMA NumbersUpTo ==
    ASSUME NEW n \in Nat, NEW set, 0 \in set,
           \A i \in 0..(n - 1) : i \in set => i + 1 \in set
    PROVE  \A i \in 0..n : i \in set
  <1> DEFINE bad == {i \in 0..n : i \notin set}
  <1> SUFFICES ASSUME bad # {}
               PROVE  FALSE
    OBVIOUS
  <1>1. bad \in SUBSET Nat
    OBVIOUS
  <1>2. PICK i \in bad : \A j \in bad : i <= j
    BY <1>1, SmallestNumber
  <1>3. i # 0 /\ i - 1 \in 0..(n - 1) /\ i - 1 \notin bad
    BY <1>2
  <1> QED
    BY <1>2, <1>3

(***************************************************************************)
(* A serial execution is a fold: its states, one for each prefix.          *)
(***************************************************************************)
LEMMA GreatestOfInterval ==
    ASSUME NEW k \in Nat, NEW s \in SUBSET (1..k), k \in s
    PROVE  Max(s) = k
  <1>1. \A x \in s : (\A y \in s : x >= y) <=> x = k
    OBVIOUS
  <1> QED
    BY <1>1 DEF Max

\* The equation of the fold on the sets of a sequence's positions.
Folds(it, positions, order, rwSets, store) ==
    it = [s \in SUBSET positions |->
            IF s = {} THEN store ELSE Written(order[Max(s)], rwSets[order[Max(s)]], it[s \ {Max(s)}])]

LEMMA FoldGrows ==
    ASSUME NEW order, NEW rwSets, NEW store, NEW k \in Nat, NEW it,
           Folds(it, 1..k, order, rwSets, store)
    PROVE  \E more : Folds(more, 1..(k + 1), order, rwSets, store)
  <1> DEFINE last == k + 1
             more == [s \in SUBSET (1..last) |->
                        IF last \in s THEN Written(order[last], rwSets[order[last]], it[s \ {last}])
                        ELSE it[s]]
             step(s) == IF s = {} THEN store
                        ELSE Written(order[Max(s)], rwSets[order[Max(s)]], more[s \ {Max(s)}])
  <1>1. ASSUME NEW s \in SUBSET (1..last), last \in s
        PROVE  more[s] = step(s)
    <2>1. Max(s) = last /\ s # {}
      BY <1>1, GreatestOfInterval
    <2>2. s \ {last} \in SUBSET (1..last) /\ last \notin s \ {last}
      OBVIOUS
    <2>3. more[s \ {last}] = it[s \ {last}]
      BY <2>2
    <2>4. more[s] = Written(order[last], rwSets[order[last]], it[s \ {last}])
      BY <1>1
    <2> QED
      BY <2>1, <2>3, <2>4
  <1>2. ASSUME NEW s \in SUBSET (1..last), last \notin s
        PROVE  more[s] = step(s)
    <2>1. s \in SUBSET (1..k)
      <3>1. \A i \in s : i \in 1..last /\ i # last
        BY <1>2
      <3> QED
        BY <3>1
    <2>4. s \ {Max(s)} \in SUBSET (1..last) /\ last \notin s \ {Max(s)}
      BY <1>2
    <2>2. it[s] = IF s = {} THEN store
                  ELSE Written(order[Max(s)], rwSets[order[Max(s)]], it[s \ {Max(s)}])
      BY <2>1 DEF Folds
    <2>3. more[s] = it[s] /\ more[s \ {Max(s)}] = it[s \ {Max(s)}]
      BY <1>2, <2>4
    <2> QED
      BY <2>2, <2>3
  <1>3. \A s \in SUBSET (1..last) : more[s] = step(s)
    BY <1>1, <1>2
  <1>4. more = [s \in SUBSET (1..last) |-> step(s)]
    BY <1>3
  <1> QED
    BY <1>4 DEF Folds

LEMMA FoldExists ==
    ASSUME NEW order, NEW rwSets, NEW store, NEW n \in Nat
    PROVE  \E it : Folds(it, 1..n, order, rwSets, store)
  <1> DEFINE good == {i \in 0..n : \E it : Folds(it, 1..i, order, rwSets, store)}
  <1>1. 0 \in good
    <2>1. 1..0 = {} /\ SUBSET (1..0) = {{}}
      OBVIOUS
    <2>2. Folds([s \in SUBSET (1..0) |-> store], 1..0, order, rwSets, store)
      BY <2>1 DEF Folds
    <2> QED
      BY <2>2
  <1>2. \A i \in 0..(n - 1) : i \in good => i + 1 \in good
    BY FoldGrows
  <1> HIDE DEF good
  <1>3. n \in good
    BY <1>1, <1>2, NumbersUpTo
  <1> QED
    BY <1>3 DEF good

\* The stores between the executions.
StoresBetween(run, order, rwSets, store) ==
    /\ run[0] = store
    /\ \A i \in 1..Len(order) : run[i] = Written(order[i], rwSets[order[i]], run[i - 1])

LEMMA SerialPrefixes ==
    ASSUME NEW txs, NEW order \in Seq(txs), NEW rwSets, NEW store
    PROVE  \E run : StoresBetween(run, order, rwSets, store) /\ SerialStore(order, rwSets, store) = run[Len(order)]
  <1> DEFINE it == CHOOSE it : Folds(it, DOMAIN order, order, rwSets, store)
             run == [i \in 0..Len(order) |-> it[1..i]]
  <1>1. SerialStore(order, rwSets, store) = it[DOMAIN order]
    BY DEF SerialStore, FoldLeft, MapThenFoldSet, Folds
  <1>2. Len(order) \in Nat /\ DOMAIN order = 1..Len(order)
    OBVIOUS
  <1>3. Folds(it, 1..Len(order), order, rwSets, store)
    BY <1>2, FoldExists
  <1> HIDE DEF it
  <1>4. run[0] = store
    <2>1. 1..0 = {} /\ {} \in SUBSET (1..Len(order))
      OBVIOUS
    <2> QED
      BY <1>2, <1>3, <2>1 DEF Folds
  <1>5. ASSUME NEW i \in 1..Len(order)
        PROVE  run[i] = Written(order[i], rwSets[order[i]], run[i - 1])
    <2>1. 1..i \in SUBSET (1..Len(order)) /\ i \in Nat /\ i \in 1..i
      BY <1>2
    <2>2. Max(1..i) = i /\ 1..i # {} /\ (1..i) \ {i} = 1..(i - 1)
      <3>1. PICK set : set = 1..i
        OBVIOUS
      <3>2. Max(set) = i
        BY <2>1, <3>1, GreatestOfInterval
      <3> QED
        BY <2>1, <3>1, <3>2
    <2>3. it[1..i] = Written(order[i], rwSets[order[i]], it[1..(i - 1)])
      BY <1>3, <2>1, <2>2 DEF Folds
    <2> QED
      BY <1>2, <2>3
  <1>6. SerialStore(order, rwSets, store) = run[Len(order)]
    BY <1>1, <1>2
  <1> QED
    BY <1>4, <1>5, <1>6 DEF StoresBetween

(***************************************************************************)
(* Sorting a finite set.                                                   *)
(***************************************************************************)
LEMMA OneOut ==
    ASSUME NEW S, IsFiniteSet(S), NEW m \in S, NEW rest, rest = S \ {m}
    PROVE  /\ IsFiniteSet(rest) /\ Cardinality(rest) \in Nat /\ Cardinality(S) \in Nat
           /\ Cardinality(S) = Cardinality(rest) + 1
  <1>1. /\ IsFiniteSet(S \ {m})
        /\ Cardinality(S \ {m}) = IF m \in S THEN Cardinality(S) - 1 ELSE Cardinality(S)
    BY FS_RemoveElement
  <1>2. IsFiniteSet(rest) /\ Cardinality(rest) = Cardinality(S) - 1
    BY <1>1
  <1>3. Cardinality(rest) \in Nat /\ Cardinality(S) \in Nat
    BY <1>2, FS_CardinalityType
  <1> QED
    BY <1>2, <1>3

\* A finite set has a last element in any order that is total and transitive.
LEMMA LastElement ==
    ASSUME NEW S, IsFiniteSet(S), S # {}, NEW less,
           \A t, u \in S : t # u => <<t, u>> \in less \/ <<u, t>> \in less,
           \A t, u, v \in S : <<t, u>> \in less /\ <<u, v>> \in less => <<t, v>> \in less
    PROVE  \E m \in S : \A u \in S : u = m \/ <<u, m>> \in less
  <1> DEFINE n == Cardinality(S)
             Tops(T) == {m \in T : \A u \in T : u = m \/ <<u, m>> \in less}
             good == {i \in 0..n : \A T \in SUBSET S : Cardinality(T) = i => T = {} \/ Tops(T) # {}}
  <1>1. n \in Nat
    BY FS_CardinalityType
  <1>2. 0 \in good
    <2>1. \A T \in SUBSET S : Cardinality(T) = 0 => T = {}
      BY FS_Subset, FS_EmptySet
    <2> QED
      BY <1>1, <2>1
  <1>3. ASSUME NEW i \in 0..(n - 1), i \in good
        PROVE  i + 1 \in good
    <2>1. ASSUME NEW T \in SUBSET S, Cardinality(T) = i + 1
          PROVE  Tops(T) # {}
      <3>1. IsFiniteSet(T) /\ T # {}
        BY <1>1, <2>1, FS_Subset, FS_EmptySet
      <3>2. PICK x \in T : TRUE
        BY <3>1
      <3>3. PICK rest : rest = T \ {x}
        OBVIOUS
      <3>6. rest \in SUBSET S /\ Cardinality(rest) = i
        BY <1>1, <2>1, <3>1, <3>2, <3>3, OneOut
      <3>4. CASE rest = {}
        <4>1. \A u \in T : u = x
          BY <3>3, <3>4
        <4> QED
          BY <3>2, <4>1
      <3>5. CASE rest # {}
        <4>1. PICK m \in T : m # x /\ \A u \in T : u = x \/ u = m \/ <<u, m>> \in less
          <5>1. Tops(rest) # {}
            BY <1>3, <3>5, <3>6
          <5> QED
            BY <3>3, <5>1
        <4>3. CASE <<x, m>> \in less
          BY <4>1, <4>3
        <4>4. CASE <<m, x>> \in less
          <5>1. \A u \in T : u = x \/ <<u, x>> \in less
            BY <3>2, <4>1, <4>4
          <5> QED
            BY <3>2, <5>1
        <4> QED
          BY <3>2, <4>1, <4>3, <4>4
      <3> QED
        BY <3>4, <3>5
    <2> QED
      BY <1>1, <1>3, <2>1
  <1> HIDE DEF good
  <1>4. n \in good
    BY <1>1, <1>2, <1>3, NumbersUpTo
  <1> QED
    BY <1>4, S \in SUBSET S DEF good

Sorted(order, less) == \A i, j \in 1..Len(order) : i < j => <<order[i], order[j]>> \in less

\* What SetToSeqs gives: every element, once.
LEMMA ListsEach ==
    ASSUME NEW S, IsFiniteSet(S), NEW order \in SetToSeqs(S)
    PROVE  /\ order \in Seq(S) /\ Len(order) = Cardinality(S) /\ Len(order) \in Nat
           /\ DOMAIN order = 1..Len(order)
           /\ \A i, j \in 1..Len(order) : order[i] = order[j] => i = j
           /\ \A t \in S : \E i \in 1..Len(order) : order[i] = t
  <1> DEFINE n == Cardinality(S)
  <1>1. n \in Nat
    BY FS_CardinalityType
  <1>2. order \in [1..n -> S] /\ \A i, j \in 1..n : order[i] = order[j] => i = j
    BY DEF SetToSeqs
  <1>3. order \in Seq(S) /\ Len(order) = n
    BY <1>1, <1>2
  <1>4. order \in Injection(1..n, S)
    BY <1>2 DEF Injection, IsInjective
  <1>5. Cardinality(1..n) = n
    BY <1>1, FS_Interval
  <1>6. order \in Surjection(1..n, S)
    BY <1>4, <1>5, FS_Injection
  <1> QED
    BY <1>1, <1>2, <1>3, <1>6 DEF Surjection

LEMMA SortedAppend ==
    ASSUME NEW S, IsFiniteSet(S), NEW m \in S, NEW less,
           \A u \in S : u = m \/ <<u, m>> \in less, NEW rest, rest = S \ {m},
           NEW order \in SetToSeqs(rest), Sorted(order, less)
    PROVE  \E more \in SetToSeqs(S) : Sorted(more, less)
  <1> DEFINE n == Cardinality(rest)
             more == [i \in 1..(n + 1) |-> IF i = n + 1 THEN m ELSE order[i]]
  <1>1. IsFiniteSet(rest) /\ Cardinality(S) = n + 1 /\ n \in Nat
    BY OneOut
  <1>2. /\ Len(order) = n /\ \A i, j \in 1..n : order[i] = order[j] => i = j
        /\ \A i \in 1..n : order[i] \in S /\ order[i] # m
    <2>1. /\ order \in Seq(rest) /\ Len(order) = Cardinality(rest) /\ DOMAIN order = 1..Len(order)
          /\ \A i, j \in 1..Len(order) : order[i] = order[j] => i = j
      BY <1>1, ListsEach
    <2>2. \A i \in DOMAIN order : order[i] \in rest
      BY <2>1
    <2> QED
      BY <2>1, <2>2
  <1>3. \A i \in 1..(n + 1) : i = n + 1 \/ i \in 1..n
    BY <1>1
  <1>4. more \in [1..Cardinality(S) -> S]
    BY <1>1, <1>2, <1>3
  <1>5. \A i, j \in 1..Cardinality(S) : i # j => more[i] # more[j]
    BY <1>1, <1>2, <1>3
  <1>6. more \in SetToSeqs(S)
    BY <1>4, <1>5 DEF SetToSeqs
  <1>7. Len(more) = n + 1
    BY <1>1
  <1>8. ASSUME NEW i \in 1..(n + 1), NEW j \in 1..(n + 1), i < j
        PROVE  <<more[i], more[j]>> \in less
    <2>1. i \in 1..n /\ more[i] = order[i]
      BY <1>1, <1>8
    <2>2. CASE j = n + 1
      BY <1>1, <1>2, <2>1, <2>2
    <2>3. CASE j \in 1..n
      BY <1>1, <1>2, <1>8, <2>1, <2>3 DEF Sorted
    <2> QED
      BY <1>3, <2>2, <2>3
  <1> QED
    BY <1>6, <1>7, <1>8 DEF Sorted

LEMMA SortedList ==
    ASSUME NEW S, IsFiniteSet(S), NEW less,
           \A t, u \in S : t # u => <<t, u>> \in less \/ <<u, t>> \in less,
           \A t, u, v \in S : <<t, u>> \in less /\ <<u, v>> \in less => <<t, v>> \in less
    PROVE  \E order \in SetToSeqs(S) : Sorted(order, less)
  <1> DEFINE n == Cardinality(S)
             Good(T) == \E order \in SetToSeqs(T) : Sorted(order, less)
             good == {i \in 0..n : \A T \in SUBSET S : Cardinality(T) = i => Good(T)}
  <1>1. n \in Nat
    BY FS_CardinalityType
  <1>2. 0 \in good
    <2>1. ASSUME NEW T \in SUBSET S, Cardinality(T) = 0
          PROVE  Good(T)
      <3>1. << >> \in SetToSeqs(T)
        BY <2>1 DEF SetToSeqs
      <3> QED
        BY <3>1 DEF Sorted
    <2> QED
      BY <1>1, <2>1
  <1>3. ASSUME NEW i \in 0..(n - 1), i \in good
        PROVE  i + 1 \in good
    <2>1. ASSUME NEW T \in SUBSET S, Cardinality(T) = i + 1
          PROVE  Good(T)
      <3>1. IsFiniteSet(T) /\ T # {}
        BY <1>1, <2>1, FS_Subset, FS_EmptySet
      <3>2. PICK m \in T : \A u \in T : u = m \/ <<u, m>> \in less
        BY <3>1, LastElement
      <3>3. PICK rest : rest = T \ {m}
        OBVIOUS
      <3>4. rest \in SUBSET S /\ Cardinality(rest) = i /\ IsFiniteSet(rest)
        BY <1>1, <2>1, <3>1, <3>3, OneOut
      <3>5. PICK order \in SetToSeqs(rest) : Sorted(order, less)
        BY <1>3, <3>4
      <3> QED
        BY <3>1, <3>2, <3>3, <3>5, SortedAppend
    <2> QED
      BY <1>1, <1>3, <2>1
  <1> HIDE DEF good
  <1>4. n \in good
    BY <1>1, <1>2, <1>3, NumbersUpTo
  <1> QED
    BY <1>4, S \in SUBSET S DEF good

(***************************************************************************)
(* Serial executions, key by key.                                          *)
(***************************************************************************)
LEMMA WrittenStore ==
    ASSUME NEW t, NEW rw, NEW store, IsStore(store)
    PROVE  /\ IsStore(Written(t, rw, store))
           /\ \A k \in Keys : k \notin rw.writes => Written(t, rw, store)[k] = store[k]
           /\ \A other : IsStore(other) /\ (\A k \in rw.reads : other[k] = store[k]) =>
                \A k \in Keys : k \in rw.writes => Written(t, rw, other)[k] = Written(t, rw, store)[k]
  <1>1. ASSUME NEW other, \A k \in rw.reads : other[k] = store[k]
        PROVE  [k \in rw.reads |-> other[k]] = [k \in rw.reads |-> store[k]]
    BY <1>1
  <1>2. ASSUME NEW other, IsStore(other), \A k \in rw.reads : other[k] = store[k], NEW k \in Keys, k \in rw.writes
        PROVE  Written(t, rw, other)[k] = Written(t, rw, store)[k]
    <2>1. [r \in rw.reads |-> other[r]] = [r \in rw.reads |-> store[r]]
      BY <1>1, <1>2
    <2> QED
      BY <1>2, <2>1 DEF Written, IsStore
  <1>3. IsStore(Written(t, rw, store))
    BY DEF IsStore, Written
  <1>4. \A k \in Keys : k \notin rw.writes => Written(t, rw, store)[k] = store[k]
    BY DEF Written, IsStore
  <1> QED
    BY <1>2, <1>3, <1>4

\* The RW sets of a round: they name keys of the store, no two write the same key, and
\* nobody reads what an earlier one of a sequence writes.
Readable(txs, rwSets) == \A t \in txs : rwSets[t].reads \subseteq Keys
WrittenOnce(txs, rwSets) == \A t, u \in txs : t # u => rwSets[t].writes \cap rwSets[u].writes = {}
ReadBeforeWritten(order, rwSets) ==
    \A i, j \in 1..Len(order) : i < j => rwSets[order[j]].reads \cap rwSets[order[i]].writes = {}

\* What is left is the store, but for what each has written having seen that store.
WrittenFrom(left, txs, rwSets, store) ==
    \A k \in Keys :
        /\ (\A t \in txs : k \notin rwSets[t].writes) => left[k] = store[k]
        /\ \A t \in txs : k \in rwSets[t].writes => left[k] = Written(t, rwSets[t], store)[k]

\* Transactions that share no write and come before those that write what they
\* read leave what each of them would leave alone.
LEMMA SnapshotIsSerial ==
    ASSUME NEW txs, IsFiniteSet(txs), NEW order \in SetToSeqs(txs), NEW rwSets, NEW store, IsStore(store),
           Readable(txs, rwSets), WrittenOnce(txs, rwSets), ReadBeforeWritten(order, rwSets),
           NEW left, left = SerialStore(order, rwSets, store)
    PROVE  IsStore(left) /\ WrittenFrom(left, txs, rwSets, store)
  <1> USE DEF Readable, WrittenOnce, ReadBeforeWritten, WrittenFrom
  <1> DEFINE n == Len(order)
  <1>1. /\ order \in Seq(txs) /\ n \in Nat
        /\ \A i \in 1..n : order[i] \in txs
        /\ \A i, j \in 1..n : order[i] = order[j] => i = j
        /\ \A t \in txs : \E i \in 1..n : order[i] = t
    <2>1. /\ order \in Seq(txs) /\ n \in Nat /\ DOMAIN order = 1..n
          /\ \A i, j \in 1..n : order[i] = order[j] => i = j
          /\ \A t \in txs : \E i \in 1..n : order[i] = t
      BY ListsEach
    <2> QED
      BY <2>1
  <1>2. PICK run : /\ StoresBetween(run, order, rwSets, store)
                   /\ SerialStore(order, rwSets, store) = run[n]
    BY <1>1, SerialPrefixes
  <1> HIDE DEF n
  <1> DEFINE Quiet(i, k) == \A j \in 1..i : k \notin rwSets[order[j]].writes
             Holds(i) ==
                /\ IsStore(run[i])
                /\ \A k \in Keys :
                    /\ Quiet(i, k) => run[i][k] = store[k]
                    /\ \A j \in 1..i : k \in rwSets[order[j]].writes =>
                            run[i][k] = Written(order[j], rwSets[order[j]], store)[k]
             good == {i \in 0..n : Holds(i)}
  <1>3. 0 \in good
    <2>1. run[0] = store /\ 1..0 = {}
      BY <1>2 DEF StoresBetween
    <2> QED
      BY <1>1, <2>1
  <1>4. ASSUME NEW i \in 0..(n - 1), Holds(i)
        PROVE  Holds(i + 1)
    <2>1. i + 1 \in 1..n /\ (i + 1) - 1 = i /\ i \in Nat
      BY <1>1
    <2>2. PICK t : t = order[i + 1]
      OBVIOUS
    <2>3. run[i + 1] = Written(t, rwSets[t], run[i])
      BY <1>2, <2>1, <2>2 DEF StoresBetween, n
    <2>4. \A j \in 1..(i + 1) : j = i + 1 \/ (j \in 1..i /\ j \in 1..n /\ j < i + 1)
      BY <1>1, <2>1
    <2>5. \A j \in 1..i : j \in 1..(i + 1) /\ j \in 1..n /\ j < i + 1 /\ order[j] # t /\ order[j] \in txs
      BY <1>1, <2>1, <2>2
    <2>6. t \in txs
      BY <1>1, <2>1, <2>2
    <2>7. ASSUME NEW k \in rwSets[t].reads
          PROVE  run[i][k] = store[k]
      <3>1. Quiet(i, k)
        BY <2>1, <2>2, <2>5, <2>7 DEF n
      <3> QED
        BY <1>4, <2>6, <2>7, <3>1
    <2>8. ASSUME NEW k \in Keys, Quiet(i + 1, k)
          PROVE  run[i + 1][k] = store[k]
      <3>1. Quiet(i, k) /\ k \notin rwSets[t].writes
        BY <2>1, <2>2, <2>5, <2>8
      <3> QED
        BY <1>4, <2>3, <3>1, WrittenStore
    <2>9. ASSUME NEW k \in Keys, NEW j \in 1..(i + 1), k \in rwSets[order[j]].writes
          PROVE  run[i + 1][k] = Written(order[j], rwSets[order[j]], store)[k]
      <3>1. CASE j = i + 1
        BY <1>4, <2>2, <2>3, <2>7, <2>9, <3>1, WrittenStore
      <3>2. CASE j \in 1..i
        <4>1. k \notin rwSets[t].writes
          BY <2>5, <2>6, <2>9, <3>2
        <4> QED
          BY <1>4, <2>3, <2>9, <3>2, <4>1, WrittenStore
      <3> QED
        BY <2>4, <3>1, <3>2
    <2>10. IsStore(run[i + 1])
      BY <1>4, <2>3, WrittenStore
    <2> QED
      BY <2>8, <2>9, <2>10
  <1>5. \A i \in 0..(n - 1) : i \in good => i + 1 \in good
    BY <1>1, <1>4
  <1> HIDE DEF good
  <1>6. n \in good
    <2>1. n \in Nat /\ n \in 0..n
      BY <1>1
    <2>2. \A i \in 0..n : i \in good
      BY <1>3, <1>5, <2>1, NumbersUpTo
    <2> QED
      BY <2>1, <2>2
  <1>7. Holds(n)
    BY <1>6 DEF good
  <1> QED
    BY <1>1, <1>2, <1>7

(***************************************************************************)
(* The two tables.                                                         *)
(***************************************************************************)
ReadTable == INSTANCE ReserveSetProofs WITH Tids <- Txs, Workers <- Cardinality(Txs),
                innerMap <- readInnerMap, maps <- readMaps, loop <- readLoop, raced <- readRaced
WriteTable == INSTANCE ReserveSetProofs WITH Tids <- Txs, Workers <- Cardinality(Txs),
                innerMap <- writeInnerMap, maps <- writeMaps, loop <- writeLoop, raced <- writeRaced

LEMMA TablesAssumed == ReadTable!ReserveSetAssumption /\ WriteTable!ReserveSetAssumption
  <1>1. Cardinality(Txs) \in Nat
    BY AriaAssumption, FS_CardinalityType
  <1>2. ReadTable!IsFiniteSet(Txs) /\ WriteTable!IsFiniteSet(Txs)
    BY AriaAssumption DEF IsFiniteSet, ReadTable!IsFiniteSet, WriteTable!IsFiniteSet
  <1> QED
    BY <1>1, <1>2, AriaAssumption
        DEF ReadTable!ReserveSetAssumption, WriteTable!ReserveSetAssumption

(***************************************************************************)
(* The read table: its lemmas, in the words of the model.                 *)
(***************************************************************************)
LEMMA ReadNames ==
    /\ readReserve!TypeOK <=> ReadTable!TypeOK
    /\ readReserve!TypeOK' <=> ReadTable!TypeOK'
    /\ \A t, set : readReserve!Begin(t, set) <=> ReadTable!Begin(t, set)
    /\ \A t : readReserve!Step(t) <=> ReadTable!Step(t)
    /\ \A k : readReserve!Reserved(k) = ReadTable!Reserved(k)
    /\ \A k : readReserve!Reserved(k)' = ReadTable!Reserved(k)'
  <1>1. (readReserve!TypeOK <=> ReadTable!TypeOK) /\ (readReserve!TypeOK' <=> ReadTable!TypeOK')
    BY DEF readReserve!TypeOK, ReadTable!TypeOK, readReserve!Loop, ReadTable!Loop,
            readReserve!Keys, ReadTable!Keys
  <1>2. ASSUME NEW t, NEW set
        PROVE  readReserve!Begin(t, set) <=> ReadTable!Begin(t, set)
    BY DEF readReserve!Begin, ReadTable!Begin, readReserve!Waiting, ReadTable!Waiting
  <1>3. ASSUME NEW t
        PROVE  readReserve!Step(t) <=> ReadTable!Step(t)
    BY DEF readReserve!Step, ReadTable!Step, readReserve!GetOuter, ReadTable!GetOuter,
            readReserve!RacedFor, ReadTable!RacedFor, readReserve!RacesWith, ReadTable!RacesWith,
            readReserve!Inside, ReadTable!Inside, readReserve!GetInner, ReadTable!GetInner,
            readReserve!SetOuter, ReadTable!SetOuter, readReserve!Publish, ReadTable!Publish,
            readReserve!Store, ReadTable!Store, readReserve!Keys, ReadTable!Keys, readReserve!Loses,
            ReadTable!Loses, readReserve!Waiting, ReadTable!Waiting
  <1>4. ASSUME NEW k
        PROVE  readReserve!Reserved(k) = ReadTable!Reserved(k) /\ readReserve!Reserved(k)' = ReadTable!Reserved(k)'
    BY DEF readReserve!Reserved, ReadTable!Reserved
  <1> QED
    BY <1>1, <1>2, <1>3, <1>4

LEMMA ReadInvNames ==
    /\ \A asked : readReserve!Honest(asked) <=> ReadTable!Honest(asked)
    /\ \A asked : readReserve!Honest(asked)' <=> ReadTable!Honest(asked)'
    /\ \A asked : readReserve!Lowest(asked) <=> ReadTable!Lowest(asked)
    /\ \A asked : readReserve!Lowest(asked)' <=> ReadTable!Lowest(asked)'
    /\ readReserve!CalmInv <=> ReadTable!CalmInv
    /\ readReserve!CalmInv' <=> ReadTable!CalmInv'
  <1>1. ASSUME NEW asked
        PROVE  /\ readReserve!Honest(asked) <=> ReadTable!Honest(asked)
               /\ readReserve!Honest(asked)' <=> ReadTable!Honest(asked)'
    BY DEF readReserve!Honest, ReadTable!Honest
  <1>2. ASSUME NEW asked
        PROVE  /\ readReserve!Lowest(asked) <=> ReadTable!Lowest(asked)
               /\ readReserve!Lowest(asked)' <=> ReadTable!Lowest(asked)'
    BY DEF readReserve!Lowest, ReadTable!Lowest, readReserve!Reserved, ReadTable!Reserved
  <1>3. /\ readReserve!CalmInv <=> ReadTable!CalmInv
        /\ readReserve!CalmInv' <=> ReadTable!CalmInv'
    <2>1. /\ readReserve!Apart <=> ReadTable!Apart
          /\ readReserve!Apart' <=> ReadTable!Apart'
      BY DEF readReserve!Apart, ReadTable!Apart, readReserve!Inside, ReadTable!Inside,
            readReserve!Calm, ReadTable!Calm
    <2>2. /\ readReserve!NothingHidden <=> ReadTable!NothingHidden
          /\ readReserve!NothingHidden' <=> ReadTable!NothingHidden'
      BY DEF readReserve!NothingHidden, ReadTable!NothingHidden, readReserve!Keys, ReadTable!Keys
    <2>3. ASSUME NEW t
          PROVE  /\ readReserve!Fresh(t) <=> ReadTable!Fresh(t)
                 /\ readReserve!Fresh(t)' <=> ReadTable!Fresh(t)'
      BY DEF readReserve!Fresh, ReadTable!Fresh, readReserve!Loses, ReadTable!Loses,
            readReserve!Reserved, ReadTable!Reserved, readReserve!Inside, ReadTable!Inside,
            readReserve!Calm, ReadTable!Calm
    <2> QED
      BY <2>1, <2>2, <2>3, ReadNames DEF readReserve!CalmInv, ReadTable!CalmInv
  <1> QED
    BY <1>1, <1>2, <1>3

LEMMA ReadStep ==
    ASSUME readReserve!TypeOK, NEW t \in Txs, readReserve!Step(t)
    PROVE  /\ readReserve!TypeOK'
           /\ readLoop[t].todo # {} /\ \A u \in Txs : u # t => readLoop'[u].todo = readLoop[u].todo
           /\ \A asked : readReserve!Honest(asked) => readReserve!Honest(asked)'
           /\ readReserve!CalmInv =>
                /\ readReserve!CalmInv'
                /\ \A asked : readReserve!Lowest(asked) /\ (\A u \in Txs : asked[u] \subseteq Keys)
                              => readReserve!Lowest(asked)'
  <1>1. ReadTable!TypeOK /\ ReadTable!Step(t) /\ ReadTable!ReserveSetAssumption
    BY ReadNames, TablesAssumed
  <1>2. readReserve!TypeOK'
    BY <1>1, ReadNames, ReadTable!StepType
  <1>3. \A u \in Txs : u # t => readLoop'[u].todo = readLoop[u].todo
    BY DEF readReserve!Step, readReserve!GetOuter, readReserve!GetInner, readReserve!SetOuter, readReserve!Publish,
        readReserve!Store, readReserve!TypeOK
  <1>4. readLoop[t].todo # {}
    BY DEF readReserve!Step, readReserve!GetOuter, readReserve!GetInner, readReserve!SetOuter, readReserve!Publish,
        readReserve!Store, readReserve!TypeOK
  <1>5. \A asked : readReserve!Honest(asked) => readReserve!Honest(asked)'
    BY <1>1, ReadInvNames, ReadTable!StepHonest
  <1>6. ASSUME readReserve!CalmInv
        PROVE  readReserve!CalmInv'
    BY <1>1, <1>6, ReadInvNames, ReadTable!StepSound DEF ReadTable!Implements
  <1>7. ASSUME readReserve!CalmInv, NEW asked, readReserve!Lowest(asked),
               \A u \in Txs : asked[u] \subseteq Keys
        PROVE  readReserve!Lowest(asked)'
    <2>1. ReadTable!CalmInv /\ ReadTable!Lowest(asked)
      BY <1>7, ReadInvNames
    <2>2. \A u \in Txs : asked[u] \subseteq ReadTable!Keys
      BY <1>7 DEF Keys, ReadTable!Keys
    <2>3. ReadTable!Lowest(asked)'
      BY <1>1, <2>1, <2>2, ReadTable!StepLowest
    <2> QED
      BY <2>3, ReadInvNames
  <1> QED
    BY <1>2, <1>3, <1>4, <1>5, <1>6, <1>7

LEMMA ReadBegin ==
    ASSUME readReserve!TypeOK, NEW t \in Txs, NEW set \in SUBSET Keys, readReserve!Begin(t, set),
           NEW asked, NEW more, asked[t] = {}, more[t] = set,
           \A u \in Txs : u # t => more[u] = asked[u], readReserve!Honest(asked)
    PROVE  /\ readReserve!TypeOK' /\ readReserve!Honest(more)'
           /\ readLoop'[t].todo = set /\ \A u \in Txs : u # t => readLoop'[u].todo = readLoop[u].todo
           /\ readReserve!CalmInv /\ readReserve!Lowest(asked) => readReserve!CalmInv' /\ readReserve!Lowest(more)'
  <1>1. ReadTable!TypeOK /\ ReadTable!Begin(t, set) /\ ReadTable!ReserveSetAssumption /\ ReadTable!Honest(asked)
    BY ReadNames, ReadInvNames, TablesAssumed
  <1>2. set \in SUBSET ReadTable!Keys
    BY DEF Keys, ReadTable!Keys
  <1>3. readReserve!TypeOK' /\ readReserve!Honest(more)'
    BY <1>1, <1>2, ReadNames, ReadInvNames, ReadTable!BeginType, ReadTable!BeginHonest
  <1>4. readLoop'[t].todo = set /\ \A u \in Txs : u # t => readLoop'[u].todo = readLoop[u].todo
    BY DEF readReserve!Begin, readReserve!TypeOK, readReserve!Waiting
  <1>5. ASSUME readReserve!CalmInv, readReserve!Lowest(asked)
        PROVE  readReserve!CalmInv' /\ readReserve!Lowest(more)'
    <2>1. ReadTable!CalmInv /\ ReadTable!Lowest(asked)
      BY <1>5, ReadInvNames
    <2>2. ReadTable!CalmInv' /\ ReadTable!Lowest(more)'
      BY <1>1, <1>2, <2>1, ReadTable!BeginSound, ReadTable!BeginLowest
    <2> QED
      BY <2>2, ReadInvNames
  <1> QED
    BY <1>3, <1>4, <1>5

LEMMA ReadNew ==
    ASSUME readReserve!TypeOK, readLoop' = readLoop, \A t \in Txs : readLoop[t].todo = {},
           readInnerMap' = [a \in Addresses |-> NoTid],
           readMaps' = [m \in Addresses \X Txs |-> [s \in Slots |-> NoTid]], readRaced' = {},
           NEW asked, \A t \in Txs : asked[t] = {}
    PROVE  readReserve!TypeOK' /\ readReserve!CalmInv' /\ readReserve!Honest(asked)' /\ readReserve!Lowest(asked)'
  <1>1. ReadTable!TypeOK /\ ReadTable!ReserveSetAssumption
    BY ReadNames, TablesAssumed
  <1>2. ReadTable!CalmInv' /\ ReadTable!Honest(asked)' /\ ReadTable!Lowest(asked)'
    BY <1>1, ReadTable!NewTables
  <1>3. readReserve!CalmInv' /\ readReserve!Honest(asked)' /\ readReserve!Lowest(asked)'
    BY <1>2, ReadInvNames
  <1>4. readReserve!TypeOK'
    BY <1>3 DEF readReserve!CalmInv
  <1> QED
    BY <1>3, <1>4

LEMMA ReadSame ==
    ASSUME UNCHANGED readVars
    PROVE  /\ readReserve!TypeOK => readReserve!TypeOK'
           /\ readReserve!CalmInv => readReserve!CalmInv'
           /\ \A asked : readReserve!Honest(asked) => readReserve!Honest(asked)'
           /\ \A asked : readReserve!Lowest(asked) => readReserve!Lowest(asked)'
  <1>1. /\ readInnerMap' = readInnerMap /\ readMaps' = readMaps /\ readLoop' = readLoop
        /\ readRaced' = readRaced
    BY DEF readVars
  <1>2. readReserve!TypeOK => readReserve!TypeOK'
    BY <1>1 DEF readReserve!TypeOK
  <1>3. readReserve!CalmInv => readReserve!CalmInv'
    BY <1>1, ReadInvNames, TablesAssumed, ReadTable!StutterSound DEF ReadTable!reserveVars
  <1>4. \A asked : readReserve!Honest(asked) => readReserve!Honest(asked)'
    BY <1>1 DEF readReserve!Honest
  <1>5. \A asked : readReserve!Lowest(asked) => readReserve!Lowest(asked)'
    BY <1>1 DEF readReserve!Lowest, readReserve!Reserved
  <1> QED
    BY <1>2, <1>3, <1>4, <1>5

\* Who holds a key has asked for it.
LEMMA ReadHeld ==
    ASSUME readReserve!TypeOK, NEW asked, readReserve!Honest(asked), NEW k \in Keys, readReserve!Reserved(k) # NoTid
    PROVE  readReserve!Reserved(k) \in Txs /\ k \in asked[readReserve!Reserved(k)]
  <1>1. readReserve!Reserved(k) \in Txs
    BY ReadNames, TablesAssumed, ReadTable!ReservedType DEF Keys, ReadTable!Keys
  <1>2. k[1] \in Addresses /\ k[2] \in Slots /\ k = <<k[1], k[2]>>
    BY DEF Keys
  <1>3. readInnerMap[k[1]] \in Txs /\ readReserve!Reserved(k) = readMaps[<<k[1], readInnerMap[k[1]]>>][k[2]]
    BY <1>2 DEF readReserve!TypeOK, readReserve!Reserved
  <1> QED
    BY <1>1, <1>2, <1>3 DEF readReserve!Honest

(***************************************************************************)
(* The write table: its lemmas, in the words of the model.                 *)
(***************************************************************************)
LEMMA WriteNames ==
    /\ writeReserve!TypeOK <=> WriteTable!TypeOK
    /\ writeReserve!TypeOK' <=> WriteTable!TypeOK'
    /\ \A t, set : writeReserve!Begin(t, set) <=> WriteTable!Begin(t, set)
    /\ \A t : writeReserve!Step(t) <=> WriteTable!Step(t)
    /\ \A k : writeReserve!Reserved(k) = WriteTable!Reserved(k)
    /\ \A k : writeReserve!Reserved(k)' = WriteTable!Reserved(k)'
  <1>1. (writeReserve!TypeOK <=> WriteTable!TypeOK) /\ (writeReserve!TypeOK' <=> WriteTable!TypeOK')
    BY DEF writeReserve!TypeOK, WriteTable!TypeOK, writeReserve!Loop, WriteTable!Loop,
            writeReserve!Keys, WriteTable!Keys
  <1>2. ASSUME NEW t, NEW set
        PROVE  writeReserve!Begin(t, set) <=> WriteTable!Begin(t, set)
    BY DEF writeReserve!Begin, WriteTable!Begin, writeReserve!Waiting, WriteTable!Waiting
  <1>3. ASSUME NEW t
        PROVE  writeReserve!Step(t) <=> WriteTable!Step(t)
    BY DEF writeReserve!Step, WriteTable!Step, writeReserve!GetOuter, WriteTable!GetOuter,
            writeReserve!RacedFor, WriteTable!RacedFor, writeReserve!RacesWith, WriteTable!RacesWith,
            writeReserve!Inside, WriteTable!Inside, writeReserve!GetInner, WriteTable!GetInner,
            writeReserve!SetOuter, WriteTable!SetOuter, writeReserve!Publish, WriteTable!Publish,
            writeReserve!Store, WriteTable!Store, writeReserve!Keys, WriteTable!Keys,
            writeReserve!Loses, WriteTable!Loses, writeReserve!Waiting, WriteTable!Waiting
  <1>4. ASSUME NEW k
        PROVE  writeReserve!Reserved(k) = WriteTable!Reserved(k) /\ writeReserve!Reserved(k)' = WriteTable!Reserved(k)'
    BY DEF writeReserve!Reserved, WriteTable!Reserved
  <1> QED
    BY <1>1, <1>2, <1>3, <1>4

LEMMA WriteInvNames ==
    /\ \A asked : writeReserve!Honest(asked) <=> WriteTable!Honest(asked)
    /\ \A asked : writeReserve!Honest(asked)' <=> WriteTable!Honest(asked)'
    /\ \A asked : writeReserve!Lowest(asked) <=> WriteTable!Lowest(asked)
    /\ \A asked : writeReserve!Lowest(asked)' <=> WriteTable!Lowest(asked)'
    /\ writeReserve!CalmInv <=> WriteTable!CalmInv
    /\ writeReserve!CalmInv' <=> WriteTable!CalmInv'
  <1>1. ASSUME NEW asked
        PROVE  /\ writeReserve!Honest(asked) <=> WriteTable!Honest(asked)
               /\ writeReserve!Honest(asked)' <=> WriteTable!Honest(asked)'
    BY DEF writeReserve!Honest, WriteTable!Honest
  <1>2. ASSUME NEW asked
        PROVE  /\ writeReserve!Lowest(asked) <=> WriteTable!Lowest(asked)
               /\ writeReserve!Lowest(asked)' <=> WriteTable!Lowest(asked)'
    BY DEF writeReserve!Lowest, WriteTable!Lowest, writeReserve!Reserved,
            WriteTable!Reserved
  <1>3. /\ writeReserve!CalmInv <=> WriteTable!CalmInv
        /\ writeReserve!CalmInv' <=> WriteTable!CalmInv'
    <2>1. /\ writeReserve!Apart <=> WriteTable!Apart
          /\ writeReserve!Apart' <=> WriteTable!Apart'
      BY DEF writeReserve!Apart, WriteTable!Apart, writeReserve!Inside, WriteTable!Inside,
            writeReserve!Calm, WriteTable!Calm
    <2>2. /\ writeReserve!NothingHidden <=> WriteTable!NothingHidden
          /\ writeReserve!NothingHidden' <=> WriteTable!NothingHidden'
      BY DEF writeReserve!NothingHidden, WriteTable!NothingHidden, writeReserve!Keys, WriteTable!Keys
    <2>3. ASSUME NEW t
          PROVE  /\ writeReserve!Fresh(t) <=> WriteTable!Fresh(t)
                 /\ writeReserve!Fresh(t)' <=> WriteTable!Fresh(t)'
      BY DEF writeReserve!Fresh, WriteTable!Fresh, writeReserve!Loses, WriteTable!Loses,
            writeReserve!Reserved, WriteTable!Reserved, writeReserve!Inside, WriteTable!Inside,
            writeReserve!Calm, WriteTable!Calm
    <2> QED
      BY <2>1, <2>2, <2>3, WriteNames DEF writeReserve!CalmInv, WriteTable!CalmInv
  <1> QED
    BY <1>1, <1>2, <1>3

LEMMA WriteStep ==
    ASSUME writeReserve!TypeOK, NEW t \in Txs, writeReserve!Step(t)
    PROVE  /\ writeReserve!TypeOK'
           /\ writeLoop[t].todo # {} /\ \A u \in Txs : u # t => writeLoop'[u].todo = writeLoop[u].todo
           /\ \A asked : writeReserve!Honest(asked) => writeReserve!Honest(asked)'
           /\ writeReserve!CalmInv =>
                /\ writeReserve!CalmInv'
                /\ \A asked : writeReserve!Lowest(asked) /\ (\A u \in Txs : asked[u] \subseteq Keys)
                              => writeReserve!Lowest(asked)'
  <1>1. WriteTable!TypeOK /\ WriteTable!Step(t) /\ WriteTable!ReserveSetAssumption
    BY WriteNames, TablesAssumed
  <1>2. writeReserve!TypeOK'
    BY <1>1, WriteNames, WriteTable!StepType
  <1>3. \A u \in Txs : u # t => writeLoop'[u].todo = writeLoop[u].todo
    BY DEF writeReserve!Step, writeReserve!GetOuter, writeReserve!GetInner, writeReserve!SetOuter, writeReserve!Publish,
        writeReserve!Store, writeReserve!TypeOK
  <1>4. writeLoop[t].todo # {}
    BY DEF writeReserve!Step, writeReserve!GetOuter, writeReserve!GetInner, writeReserve!SetOuter, writeReserve!Publish,
        writeReserve!Store, writeReserve!TypeOK
  <1>5. \A asked : writeReserve!Honest(asked) => writeReserve!Honest(asked)'
    BY <1>1, WriteInvNames, WriteTable!StepHonest
  <1>6. ASSUME writeReserve!CalmInv
        PROVE  writeReserve!CalmInv'
    BY <1>1, <1>6, WriteInvNames, WriteTable!StepSound DEF WriteTable!Implements
  <1>7. ASSUME writeReserve!CalmInv, NEW asked, writeReserve!Lowest(asked),
               \A u \in Txs : asked[u] \subseteq Keys
        PROVE  writeReserve!Lowest(asked)'
    <2>1. WriteTable!CalmInv /\ WriteTable!Lowest(asked)
      BY <1>7, WriteInvNames
    <2>2. \A u \in Txs : asked[u] \subseteq WriteTable!Keys
      BY <1>7 DEF Keys, WriteTable!Keys
    <2>3. WriteTable!Lowest(asked)'
      BY <1>1, <2>1, <2>2, WriteTable!StepLowest
    <2> QED
      BY <2>3, WriteInvNames
  <1> QED
    BY <1>2, <1>3, <1>4, <1>5, <1>6, <1>7

LEMMA WriteBegin ==
    ASSUME writeReserve!TypeOK, NEW t \in Txs, NEW set \in SUBSET Keys, writeReserve!Begin(t, set),
           NEW asked, NEW more, asked[t] = {}, more[t] = set,
           \A u \in Txs : u # t => more[u] = asked[u], writeReserve!Honest(asked)
    PROVE  /\ writeReserve!TypeOK' /\ writeReserve!Honest(more)'
           /\ writeLoop'[t].todo = set /\ \A u \in Txs : u # t => writeLoop'[u].todo = writeLoop[u].todo
           /\ writeReserve!CalmInv /\ writeReserve!Lowest(asked) => writeReserve!CalmInv' /\ writeReserve!Lowest(more)'
  <1>1. WriteTable!TypeOK /\ WriteTable!Begin(t, set) /\ WriteTable!ReserveSetAssumption /\ WriteTable!Honest(asked)
    BY WriteNames, WriteInvNames, TablesAssumed
  <1>2. set \in SUBSET WriteTable!Keys
    BY DEF Keys, WriteTable!Keys
  <1>3. writeReserve!TypeOK' /\ writeReserve!Honest(more)'
    BY <1>1, <1>2, WriteNames, WriteInvNames, WriteTable!BeginType, WriteTable!BeginHonest
  <1>4. writeLoop'[t].todo = set /\ \A u \in Txs : u # t => writeLoop'[u].todo = writeLoop[u].todo
    BY DEF writeReserve!Begin, writeReserve!TypeOK, writeReserve!Waiting
  <1>5. ASSUME writeReserve!CalmInv, writeReserve!Lowest(asked)
        PROVE  writeReserve!CalmInv' /\ writeReserve!Lowest(more)'
    <2>1. WriteTable!CalmInv /\ WriteTable!Lowest(asked)
      BY <1>5, WriteInvNames
    <2>2. WriteTable!CalmInv' /\ WriteTable!Lowest(more)'
      BY <1>1, <1>2, <2>1, WriteTable!BeginSound, WriteTable!BeginLowest
    <2> QED
      BY <2>2, WriteInvNames
  <1> QED
    BY <1>3, <1>4, <1>5

LEMMA WriteNew ==
    ASSUME writeReserve!TypeOK, writeLoop' = writeLoop, \A t \in Txs : writeLoop[t].todo = {},
           writeInnerMap' = [a \in Addresses |-> NoTid],
           writeMaps' = [m \in Addresses \X Txs |-> [s \in Slots |-> NoTid]], writeRaced' = {},
           NEW asked, \A t \in Txs : asked[t] = {}
    PROVE  writeReserve!TypeOK' /\ writeReserve!CalmInv' /\ writeReserve!Honest(asked)' /\ writeReserve!Lowest(asked)'
  <1>1. WriteTable!TypeOK /\ WriteTable!ReserveSetAssumption
    BY WriteNames, TablesAssumed
  <1>2. WriteTable!CalmInv' /\ WriteTable!Honest(asked)' /\ WriteTable!Lowest(asked)'
    BY <1>1, WriteTable!NewTables
  <1>3. writeReserve!CalmInv' /\ writeReserve!Honest(asked)' /\ writeReserve!Lowest(asked)'
    BY <1>2, WriteInvNames
  <1>4. writeReserve!TypeOK'
    BY <1>3 DEF writeReserve!CalmInv
  <1> QED
    BY <1>3, <1>4

LEMMA WriteSame ==
    ASSUME UNCHANGED writeVars
    PROVE  /\ writeReserve!TypeOK => writeReserve!TypeOK'
           /\ writeReserve!CalmInv => writeReserve!CalmInv'
           /\ \A asked : writeReserve!Honest(asked) => writeReserve!Honest(asked)'
           /\ \A asked : writeReserve!Lowest(asked) => writeReserve!Lowest(asked)'
  <1>1. /\ writeInnerMap' = writeInnerMap /\ writeMaps' = writeMaps /\ writeLoop' = writeLoop
        /\ writeRaced' = writeRaced
    BY DEF writeVars
  <1>2. writeReserve!TypeOK => writeReserve!TypeOK'
    BY <1>1 DEF writeReserve!TypeOK
  <1>3. writeReserve!CalmInv => writeReserve!CalmInv'
    BY <1>1, WriteInvNames, TablesAssumed, WriteTable!StutterSound DEF WriteTable!reserveVars
  <1>4. \A asked : writeReserve!Honest(asked) => writeReserve!Honest(asked)'
    BY <1>1 DEF writeReserve!Honest
  <1>5. \A asked : writeReserve!Lowest(asked) => writeReserve!Lowest(asked)'
    BY <1>1 DEF writeReserve!Lowest, writeReserve!Reserved
  <1> QED
    BY <1>2, <1>3, <1>4, <1>5

\* Who holds a key has asked for it.
LEMMA WriteHeld ==
    ASSUME writeReserve!TypeOK, NEW asked, writeReserve!Honest(asked), NEW k \in Keys, writeReserve!Reserved(k) # NoTid
    PROVE  writeReserve!Reserved(k) \in Txs /\ k \in asked[writeReserve!Reserved(k)]
  <1>1. writeReserve!Reserved(k) \in Txs
    BY WriteNames, TablesAssumed, WriteTable!ReservedType DEF Keys, WriteTable!Keys
  <1>2. k[1] \in Addresses /\ k[2] \in Slots /\ k = <<k[1], k[2]>>
    BY DEF Keys
  <1>3. writeInnerMap[k[1]] \in Txs /\ writeReserve!Reserved(k) = writeMaps[<<k[1], writeInnerMap[k[1]]>>][k[2]]
    BY <1>2 DEF writeReserve!TypeOK, writeReserve!Reserved
  <1> QED
    BY <1>1, <1>2, <1>3 DEF writeReserve!Honest

(***************************************************************************)
(* The rounds, however many workers there are.                             *)
(***************************************************************************)

\* Of the tables, the state with which a round begins and ends: nobody is in
\* Reserve.
LEMMA AtRest ==
    ASSUME AtWork, NEW t \in Txs, task[t] \in {"queued", "finished"}
    PROVE  readLoop[t].todo = {} /\ writeLoop[t].todo = {}
  BY DEF AtWork

LEMMA InitRound ==
    ASSUME Init
    PROVE  TasksInv
  <1>1. \A t \in Txs : /\ readLoop[t] = readReserve!Waiting({})
                       /\ writeLoop[t] = writeReserve!Waiting({})
    BY DEF Init, readReserve!Init, writeReserve!Init
  <1>2. readReserve!TypeOK
    BY <1>1 DEF Init, readReserve!Init, readReserve!TypeOK, readReserve!Waiting, readReserve!Loop
  <1>3. writeReserve!TypeOK
    BY <1>1 DEF Init, writeReserve!Init, writeReserve!TypeOK, writeReserve!Waiting,
        writeReserve!Loop
  <1>4. TypeOK
    BY <1>2, <1>3 DEF Init, TypeOK, Queued, RWSets, Empty
  <1>5. AtWork
    BY <1>1 DEF Init, AtWork, Queued, readReserve!Waiting, writeReserve!Waiting
  <1>6. TablesHonest /\ OneRoundInv /\ RunsOnce /\ OneRoundLosesOnlyFalse
    BY DEF Init, TablesHonest, OneRoundInv, RunsOnce, OneRoundLosesOnlyFalse
  <1> QED
    BY <1>4, <1>5, <1>6 DEF TasksInv

\* A step of a task changes nothing of the round but its own state.
LEMMA SameRound ==
    ASSUME TasksInv, UNCHANGED <<setup, list, phase, committed, effective>>,
           phase = "execute" \/ errs' = errs
    PROVE  OneRoundInv' /\ RunsOnce' /\ OneRoundLosesOnlyFalse'
  <1>1. UNCHANGED MultiRound
    BY DEF MultiRound
  <1> QED
    BY <1>1 DEF TasksInv, OneRoundInv, RunsOnce, OneRoundLosesOnlyFalse

\* What the tables hold, if the keys asked for stay the same.
LEMMA SameAsked ==
    ASSUME task' = task, rwSet' = rwSet
    PROVE  ReadsAsked' = ReadsAsked /\ WritesAsked' = WritesAsked
  BY DEF ReadsAsked, WritesAsked

\* The outcomes of an execution.
LEMMA OutcomeType ==
    ASSUME TypeOK, NEW t \in Txs, NEW behaviour \in Behaviours[t],
           NEW outcome \in Outcomes(t, behaviour)
    PROVE  /\ outcome.rw \in RWSets /\ outcome.err \in {"nil", "ErrFalsePredict", "rejected"}
           /\ outcome.rw.reads \in SUBSET Keys /\ outcome.rw.writes \in SUBSET Keys
  <1>1. Behaviours \in [Txs -> SUBSET RWSets]
    BY AriaAssumption DEF TypeOK, Behaviours
  <1>2. behaviour \in RWSets /\ Empty \in RWSets
    BY <1>1 DEF RWSets, Empty
  <1>3. outcome.rw \in RWSets /\ outcome.err \in {"nil", "ErrFalsePredict", "rejected"}
    BY <1>2 DEF Outcomes
  <1> QED
    BY <1>3 DEF RWSets

\* The keys asked for, of a type that the tables know.
LEMMA AskedType ==
    ASSUME TypeOK
    PROVE  \A t \in Txs : /\ ReadsAsked[t] \in SUBSET Keys /\ WritesAsked[t] \in SUBSET Keys
                          /\ rwSet[t].reads \in SUBSET Keys /\ rwSet[t].writes \in SUBSET Keys
  BY DEF TypeOK, RWSets, ReadsAsked, WritesAsked

LEMMA PrefetchTables ==
    ASSUME TasksInv, Prefetch, setup' = setup
    PROVE  /\ TypeOK' /\ AtWork' /\ TablesHonest'
           /\ readReserve!CalmInv' /\ readReserve!Lowest(ReadsAsked)'
           /\ writeReserve!CalmInv' /\ writeReserve!Lowest(WritesAsked)'
  <1>1. /\ readReserve!TypeOK /\ writeReserve!TypeOK /\ list \subseteq Txs
        /\ \A t \in Txs : readLoop[t].todo = {} /\ writeLoop[t].todo = {}
    BY DEF TasksInv, TypeOK, AtWork, Prefetch
  <1>2. PICK asked : asked = [t \in Txs |-> {}]
    OBVIOUS
  <1>3. \A t \in Txs : task'[t] \in {"queued", "finished"} /\ rwSet'[t] = Empty
    BY DEF Prefetch, Queued
  <1>4. ReadsAsked' = asked /\ WritesAsked' = asked
    BY <1>2, <1>3 DEF ReadsAsked, WritesAsked, Empty
  <1>5. /\ readReserve!TypeOK' /\ readReserve!CalmInv'
        /\ readReserve!Honest(asked)' /\ readReserve!Lowest(asked)'
    BY <1>1, <1>2, ReadNew DEF Prefetch
  <1>6. /\ writeReserve!TypeOK' /\ writeReserve!CalmInv'
        /\ writeReserve!Honest(asked)' /\ writeReserve!Lowest(asked)'
    BY <1>1, <1>2, WriteNew DEF Prefetch
  <1>7. TypeOK'
    BY <1>1, <1>5, <1>6 DEF TasksInv, TypeOK, Prefetch, Queued, RWSets, Empty
  <1>8. AtWork'
    BY <1>1, <1>3 DEF AtWork, Prefetch, Queued
  <1>9. /\ readReserve!Honest(ReadsAsked)' /\ readReserve!Lowest(ReadsAsked)'
        /\ writeReserve!Honest(WritesAsked)' /\ writeReserve!Lowest(WritesAsked)'
    BY <1>4, <1>5, <1>6 DEF readReserve!Honest, readReserve!Lowest, writeReserve!Honest,
        writeReserve!Lowest
  <1> QED
    BY <1>5, <1>6, <1>7, <1>8, <1>9 DEF TablesHonest

LEMMA PrefetchRound ==
    ASSUME TasksInv, Prefetch, setup' = setup
    PROVE  TasksInv'
  <1>1. OneRoundInv' /\ RunsOnce' /\ OneRoundLosesOnlyFalse'
    BY DEF TasksInv, Prefetch, OneRoundInv, RunsOnce, OneRoundLosesOnlyFalse, MultiRound
  <1> QED
    BY <1>1, PrefetchTables DEF TasksInv

\* The keys asked for keep their reservations when nothing of a table changes.
LEMMA SameReads ==
    ASSUME TasksInv, phase = "execute", UNCHANGED readVars, ReadsAsked' = ReadsAsked
    PROVE  /\ readReserve!TypeOK' /\ readReserve!Honest(ReadsAsked)'
           /\ readReserve!CalmInv => readReserve!CalmInv'
           /\ readReserve!Lowest(ReadsAsked) => readReserve!Lowest(ReadsAsked)'
  <1>1. readReserve!TypeOK /\ readReserve!Honest(ReadsAsked)
    BY DEF TasksInv, TypeOK, TablesHonest
  <1>2. PICK asked : asked = ReadsAsked
    OBVIOUS
  <1>3. /\ readReserve!TypeOK' /\ readReserve!Honest(asked)'
        /\ readReserve!CalmInv => readReserve!CalmInv'
        /\ readReserve!Lowest(asked) => readReserve!Lowest(asked)'
    BY <1>1, <1>2, ReadSame
  <1> QED
    BY <1>2, <1>3 DEF readReserve!Honest, readReserve!Lowest

LEMMA SameWrites ==
    ASSUME TasksInv, phase = "execute", UNCHANGED writeVars, WritesAsked' = WritesAsked
    PROVE  /\ writeReserve!TypeOK' /\ writeReserve!Honest(WritesAsked)'
           /\ writeReserve!CalmInv => writeReserve!CalmInv'
           /\ writeReserve!Lowest(WritesAsked) => writeReserve!Lowest(WritesAsked)'
  <1>1. writeReserve!TypeOK /\ writeReserve!Honest(WritesAsked)
    BY DEF TasksInv, TypeOK, TablesHonest
  <1>2. PICK asked : asked = WritesAsked
    OBVIOUS
  <1>3. /\ writeReserve!TypeOK' /\ writeReserve!Honest(asked)'
        /\ writeReserve!CalmInv => writeReserve!CalmInv'
        /\ writeReserve!Lowest(asked) => writeReserve!Lowest(asked)'
    BY <1>1, <1>2, WriteSame
  <1> QED
    BY <1>2, <1>3 DEF writeReserve!Honest, writeReserve!Lowest

(***************************************************************************)
(* Each step of a task.                                                    *)
(***************************************************************************)

\* What a step of a task keeps.
Keeps == TasksInv' /\ (TablesExact => TablesExact')

LEMMA TaskKeeps ==
    ASSUME TasksInv, phase = "execute", UNCHANGED <<setup, list, phase, committed, effective>>,
           TypeOK', AtWork', readReserve!Honest(ReadsAsked)', writeReserve!Honest(WritesAsked)',
           TablesExact =>
                /\ readReserve!CalmInv' /\ writeReserve!CalmInv'
                /\ readReserve!Lowest(ReadsAsked)' /\ writeReserve!Lowest(WritesAsked)'
    PROVE  Keeps
  BY SameRound DEF Keeps, TasksInv, TablesHonest, TablesExact

LEMMA ReserveReadsKeeps ==
    ASSUME TasksInv, NEW t \in Txs, ReserveReads(t), setup' = setup
    PROVE  Keeps
  <1>1. /\ phase = "execute" /\ readReserve!TypeOK /\ writeReserve!TypeOK
        /\ readReserve!Honest(ReadsAsked)
    BY DEF TasksInv, AtWork, ReserveReads, TypeOK, TablesHonest
  <1>2. PICK asked : asked = ReadsAsked
    OBVIOUS
  <1>3. ReadsAsked' = ReadsAsked /\ WritesAsked' = WritesAsked
    BY SameAsked DEF ReserveReads, runVars
  <1>4. readReserve!Honest(asked)
    BY <1>1, <1>2
  <1>5. /\ readReserve!TypeOK' /\ readReserve!Honest(asked)'
        /\ readLoop[t].todo # {} /\ \A u \in Txs : u # t => readLoop'[u].todo = readLoop[u].todo
    BY <1>1, <1>4, ReadStep DEF ReserveReads
  <1>6. readReserve!Honest(ReadsAsked)'
    BY <1>2, <1>3, <1>5 DEF readReserve!Honest
  <1>7. /\ writeReserve!TypeOK' /\ writeReserve!Honest(WritesAsked)'
        /\ writeReserve!CalmInv => writeReserve!CalmInv'
        /\ writeReserve!Lowest(WritesAsked) => writeReserve!Lowest(WritesAsked)'
    BY <1>1, <1>3, SameWrites DEF ReserveReads
  <1>8. TypeOK' /\ AtWork'
    BY <1>1, <1>5, <1>7 DEF TasksInv, TypeOK, AtWork, ReserveReads, runVars, historyVars,
        writeVars
  <1>9. ASSUME TablesExact
        PROVE  readReserve!CalmInv' /\ readReserve!Lowest(ReadsAsked)'
    <2>1. /\ readReserve!CalmInv /\ readReserve!Lowest(asked)
          /\ \A u \in Txs : asked[u] \subseteq Keys
      BY <1>1, <1>2, <1>9, AskedType DEF TasksInv, TablesExact
    <2>2. readReserve!CalmInv' /\ readReserve!Lowest(asked)'
      BY <1>1, <2>1, ReadStep DEF ReserveReads
    <2> QED
      BY <1>2, <1>3, <2>2 DEF readReserve!Lowest
  <1> QED
    BY <1>1, <1>6, <1>7, <1>8, <1>9, TaskKeeps DEF ReserveReads, historyVars, TablesExact

LEMMA ReserveWritesKeeps ==
    ASSUME TasksInv, NEW t \in Txs, ReserveWrites(t), setup' = setup
    PROVE  Keeps
  <1>1. /\ phase = "execute" /\ readReserve!TypeOK /\ writeReserve!TypeOK
        /\ writeReserve!Honest(WritesAsked)
    BY DEF TasksInv, AtWork, ReserveWrites, TypeOK, TablesHonest
  <1>2. PICK asked : asked = WritesAsked
    OBVIOUS
  <1>3. ReadsAsked' = ReadsAsked /\ WritesAsked' = WritesAsked
    BY SameAsked DEF ReserveWrites, runVars
  <1>4. writeReserve!Honest(asked)
    BY <1>1, <1>2
  <1>5. /\ writeReserve!TypeOK' /\ writeReserve!Honest(asked)'
        /\ writeLoop[t].todo # {} /\ \A u \in Txs : u # t => writeLoop'[u].todo = writeLoop[u].todo
    BY <1>1, <1>4, WriteStep DEF ReserveWrites
  <1>6. writeReserve!Honest(WritesAsked)'
    BY <1>2, <1>3, <1>5 DEF writeReserve!Honest
  <1>7. /\ readReserve!TypeOK' /\ readReserve!Honest(ReadsAsked)'
        /\ readReserve!CalmInv => readReserve!CalmInv'
        /\ readReserve!Lowest(ReadsAsked) => readReserve!Lowest(ReadsAsked)'
    BY <1>1, <1>3, SameReads DEF ReserveWrites
  <1>8. TypeOK' /\ AtWork'
    BY <1>1, <1>5, <1>7 DEF TasksInv, TypeOK, AtWork, ReserveWrites, runVars,
        historyVars, readVars
  <1>9. ASSUME TablesExact
        PROVE  writeReserve!CalmInv' /\ writeReserve!Lowest(WritesAsked)'
    <2>1. /\ writeReserve!CalmInv /\ writeReserve!Lowest(asked)
          /\ \A u \in Txs : asked[u] \subseteq Keys
      BY <1>1, <1>2, <1>9, AskedType DEF TasksInv, TablesExact
    <2>2. writeReserve!CalmInv' /\ writeReserve!Lowest(asked)'
      BY <1>1, <2>1, WriteStep DEF ReserveWrites
    <2> QED
      BY <1>2, <1>3, <2>2 DEF writeReserve!Lowest
  <1> QED
    BY <1>1, <1>6, <1>7, <1>8, <1>9, TaskKeeps DEF ReserveWrites, historyVars, TablesExact

LEMMA FinishTaskKeeps ==
    ASSUME TasksInv, NEW t \in Txs, FinishTask(t), setup' = setup
    PROVE  Keeps
  <1>1. phase = "execute" /\ writeLoop[t].todo = {} /\ readLoop[t].todo = {}
    BY DEF TasksInv, AtWork, FinishTask, writeReserve!Finished
  <1>2. ReadsAsked' = ReadsAsked /\ WritesAsked' = WritesAsked
    BY DEF FinishTask, runVars, ReadsAsked, WritesAsked, TasksInv, TypeOK
  <1>3. /\ readReserve!TypeOK' /\ readReserve!Honest(ReadsAsked)'
        /\ readReserve!CalmInv => readReserve!CalmInv'
        /\ readReserve!Lowest(ReadsAsked) => readReserve!Lowest(ReadsAsked)'
    BY <1>1, <1>2, SameReads DEF FinishTask
  <1>4. /\ writeReserve!TypeOK' /\ writeReserve!Honest(WritesAsked)'
        /\ writeReserve!CalmInv => writeReserve!CalmInv'
        /\ writeReserve!Lowest(WritesAsked) => writeReserve!Lowest(WritesAsked)'
    BY <1>1, <1>2, SameWrites DEF FinishTask
  <1>5. TypeOK' /\ AtWork'
    BY <1>1, <1>3, <1>4 DEF TasksInv, TypeOK, AtWork, FinishTask, runVars, historyVars,
        readVars, writeVars
  <1> QED
    BY <1>1, <1>3, <1>4, <1>5, TaskKeeps DEF FinishTask, historyVars, TablesExact

LEMMA ThenWritesKeeps ==
    ASSUME TasksInv, NEW t \in Txs, ThenWrites(t), setup' = setup
    PROVE  Keeps
  <1>1. /\ phase = "execute" /\ task[t] = "reads" /\ readLoop[t].todo = {}
        /\ writeReserve!TypeOK /\ writeReserve!Honest(WritesAsked)
    BY DEF TasksInv, AtWork, ThenWrites, readReserve!Finished, TypeOK, TablesHonest
  <1>2. PICK asked, more : asked = WritesAsked /\ more = WritesAsked'
    OBVIOUS
  <1>3. PICK set : set = rwSet[t].writes
    OBVIOUS
  <1>4. ReadsAsked' = ReadsAsked
    BY DEF ThenWrites, runVars, ReadsAsked, TasksInv, TypeOK
  <1>5. /\ asked[t] = {} /\ more[t] = set /\ set \in SUBSET Keys
        /\ \A u \in Txs : u # t => more[u] = asked[u]
    BY <1>1, <1>2, <1>3, AskedType DEF ThenWrites, runVars, WritesAsked, TasksInv, TypeOK
  <1>6. writeReserve!Honest(asked) /\ writeReserve!Begin(t, set)
    BY <1>1, <1>2, <1>3 DEF ThenWrites
  <1>7. /\ writeReserve!TypeOK' /\ writeReserve!Honest(more)'
        /\ writeLoop'[t].todo = set /\ \A u \in Txs : u # t => writeLoop'[u].todo = writeLoop[u].todo
    BY <1>1, <1>5, <1>6, WriteBegin
  <1>8. writeReserve!Honest(WritesAsked)'
    BY <1>2, <1>7 DEF writeReserve!Honest
  <1>9. /\ readReserve!TypeOK' /\ readReserve!Honest(ReadsAsked)'
        /\ readReserve!CalmInv => readReserve!CalmInv'
        /\ readReserve!Lowest(ReadsAsked) => readReserve!Lowest(ReadsAsked)'
    BY <1>1, <1>4, SameReads DEF ThenWrites
  <1>10. TypeOK' /\ AtWork'
    BY <1>1, <1>7, <1>9 DEF TasksInv, TypeOK, AtWork, ThenWrites, runVars, historyVars,
        readVars
  <1>11. ASSUME TablesExact
         PROVE  writeReserve!CalmInv' /\ writeReserve!Lowest(WritesAsked)'
    <2>1. writeReserve!CalmInv /\ writeReserve!Lowest(asked)
      BY <1>1, <1>2, <1>11 DEF TablesExact
    <2>2. writeReserve!CalmInv' /\ writeReserve!Lowest(more)'
      BY <1>1, <1>5, <1>6, <2>1, WriteBegin
    <2> QED
      BY <1>2, <2>2 DEF writeReserve!Lowest
  <1> QED
    BY <1>1, <1>8, <1>9, <1>10, <1>11, TaskKeeps DEF ThenWrites, historyVars, TablesExact

LEMMA ExecuteKeeps ==
    ASSUME TasksInv, NEW t \in Txs, Execute(t), setup' = setup
    PROVE  Keeps
  <1>1. /\ phase = "execute" /\ task[t] = "queued" /\ t \in list
        /\ readReserve!TypeOK /\ readReserve!Honest(ReadsAsked)
        /\ readLoop[t].todo = {} /\ writeLoop[t].todo = {}
    BY DEF TasksInv, AtWork, Execute, TypeOK, TablesHonest
  <1>2. PICK rw \in RWSets, err \in {"nil", "ErrFalsePredict", "rejected"} :
            /\ rw.reads \in SUBSET Keys /\ rw.writes \in SUBSET Keys
            /\ rwSet' = [rwSet EXCEPT ![t] = rw] /\ errs' = [errs EXCEPT ![t] = err]
            /\ readReserve!Begin(t, rw.reads)
    <2>1. PICK behaviour \in Behaviours[t] : \E outcome \in Outcomes(t, behaviour) :
            /\ rwSet' = [rwSet EXCEPT ![t] = outcome.rw]
            /\ errs' = [errs EXCEPT ![t] = outcome.err]
            /\ readReserve!Begin(t, outcome.rw.reads)
      BY DEF Execute
    <2>2. PICK outcome \in Outcomes(t, behaviour) :
            /\ rwSet' = [rwSet EXCEPT ![t] = outcome.rw]
            /\ errs' = [errs EXCEPT ![t] = outcome.err]
            /\ readReserve!Begin(t, outcome.rw.reads)
      BY <2>1
    <2>3. /\ outcome.rw \in RWSets /\ outcome.err \in {"nil", "ErrFalsePredict", "rejected"}
          /\ outcome.rw.reads \in SUBSET Keys /\ outcome.rw.writes \in SUBSET Keys
      BY OutcomeType DEF TasksInv
    <2> QED
      BY <2>2, <2>3
  <1>3. PICK asked, more : asked = ReadsAsked /\ more = ReadsAsked'
    OBVIOUS
  <1>4. task' = [task EXCEPT ![t] = "reads"]
    BY DEF Execute
  <1>5. WritesAsked' = WritesAsked
    BY <1>1, <1>2, <1>4 DEF WritesAsked, TasksInv, TypeOK
  <1>6. /\ asked[t] = {} /\ more[t] = rw.reads
        /\ \A u \in Txs : u # t => more[u] = asked[u]
    BY <1>1, <1>2, <1>3, <1>4 DEF ReadsAsked, TasksInv, TypeOK
  <1>7. readReserve!Honest(asked)
    BY <1>1, <1>3
  <1>8. /\ readReserve!TypeOK' /\ readReserve!Honest(more)'
        /\ \A u \in Txs : u # t => readLoop'[u].todo = readLoop[u].todo
    BY <1>1, <1>2, <1>6, <1>7, ReadBegin
  <1>9. readReserve!Honest(ReadsAsked)'
    BY <1>3, <1>8 DEF readReserve!Honest
  <1>10. /\ writeReserve!TypeOK' /\ writeReserve!Honest(WritesAsked)'
         /\ writeReserve!CalmInv => writeReserve!CalmInv'
         /\ writeReserve!Lowest(WritesAsked) => writeReserve!Lowest(WritesAsked)'
    BY <1>1, <1>5, SameWrites DEF Execute
  <1>11. TypeOK'
    BY <1>2, <1>4, <1>8, <1>10 DEF TasksInv, TypeOK, Execute, historyVars
  <1>12. AtWork'
    BY <1>1, <1>2, <1>4, <1>8 DEF TasksInv, TypeOK, AtWork, Execute, writeVars
  <1>13. ASSUME TablesExact
         PROVE  readReserve!CalmInv' /\ readReserve!Lowest(ReadsAsked)'
    <2>1. readReserve!CalmInv /\ readReserve!Lowest(asked)
      BY <1>1, <1>3, <1>13 DEF TablesExact
    <2>2. readReserve!CalmInv' /\ readReserve!Lowest(more)'
      BY <1>1, <1>2, <1>6, <1>7, <2>1, ReadBegin
    <2> QED
      BY <1>3, <2>2 DEF readReserve!Lowest
  <1> QED
    BY <1>1, <1>9, <1>10, <1>11, <1>12, <1>13, TaskKeeps DEF Execute, historyVars, TablesExact

(***************************************************************************)
(* The verdicts, the merge and the end of a round.                         *)
(***************************************************************************)

\* In the merge and between rounds the tables rest.
LEMMA RestKeeps ==
    ASSUME TasksInv, TasksInv', UNCHANGED <<setup, task, rwSet, readVars, writeVars>>,
           phase' # "execute", phase' = "merge" => phase \in {"execute", "merge"}
    PROVE  Keeps
  <1>1. PICK readsAsked, writesAsked : readsAsked = ReadsAsked /\ writesAsked = WritesAsked
    OBVIOUS
  <1>2. ReadsAsked' = readsAsked /\ WritesAsked' = writesAsked
    BY <1>1, SameAsked
  <1>3. ASSUME TablesExact
        PROVE  TablesExact'
    <2>1. readReserve!CalmInv' /\ writeReserve!CalmInv'
      BY <1>3, ReadSame, WriteSame DEF TablesExact
    <2>2. ASSUME phase' = "merge"
          PROVE  readReserve!Lowest(readsAsked)' /\ writeReserve!Lowest(writesAsked)'
      BY <1>1, <1>3, <2>2, ReadSame, WriteSame DEF TablesExact
    <2> QED
      BY <1>2, <2>1, <2>2 DEF TablesExact, readReserve!Lowest, writeReserve!Lowest
  <1> QED
    BY <1>3 DEF Keeps

LEMMA RestTables ==
    ASSUME TasksInv, UNCHANGED <<readVars, writeVars>>
    PROVE  /\ readReserve!TypeOK' /\ writeReserve!TypeOK'
           /\ readLoop' = readLoop /\ writeLoop' = writeLoop
  BY ReadSame, WriteSame DEF TasksInv, TypeOK, readVars, writeVars

LEMMA DecideKeeps ==
    ASSUME TasksInv, Decide, setup' = setup
    PROVE  Keeps
  <1>1. /\ phase = "execute" /\ phase' = "merge" /\ list' \subseteq list /\ list \subseteq Txs
        /\ \A t \in Txs : task[t] = "finished"
        /\ \A t \in Txs : t \in committed' <=> t \in list /\ Commits(t)
        /\ \A t \in Txs : t \in list' <=> t \in list /\ Repeats(t)
        /\ committed' \subseteq Txs
    BY DEF TasksInv, TypeOK, AtWork, Decide
  <1>2. TypeOK' /\ AtWork'
    BY <1>1, RestTables DEF TasksInv, TypeOK, AtWork, Decide, runVars
  <1>3. OneRoundInv'
    BY <1>1 DEF TasksInv, TypeOK, OneRoundInv, Commits, Repeats, OneRoundRepeats, MultiRound, Decide,
        runVars
  <1>4. \A t \in Txs : ~(Commits(t) /\ Repeats(t))
    BY DEF Commits, Repeats, MultiRoundCommits, MultiRoundRepeats
  <1>5. RunsOnce' /\ OneRoundLosesOnlyFalse' /\ TablesHonest'
    BY <1>1, <1>4 DEF TasksInv, TypeOK, RunsOnce, OneRoundLosesOnlyFalse, TablesHonest, Decide
  <1> QED
    BY <1>1, <1>2, <1>3, <1>5, RestKeeps DEF TasksInv, Decide, runVars

LEMMA MergeKeyKeeps ==
    ASSUME TasksInv, NEW t \in Txs, NEW k \in Keys, MergeKey(t, k), setup' = setup
    PROVE  Keeps
  <1>1. phase = "merge" /\ phase' = "merge"
    BY DEF MergeKey
  <1>2. TypeOK' /\ AtWork' /\ TablesHonest'
    BY <1>1, RestTables DEF TasksInv, TypeOK, AtWork, TablesHonest, MergeKey, runVars, historyVars
  <1>3. OneRoundInv' /\ RunsOnce' /\ OneRoundLosesOnlyFalse'
    BY SameRound DEF MergeKey, runVars, historyVars
  <1> QED
    BY <1>1, <1>2, <1>3, RestKeeps DEF TasksInv, MergeKey, runVars

LEMMA EndRoundKeeps ==
    ASSUME TasksInv, EndRound, setup' = setup
    PROVE  Keeps
  <1>1. /\ phase = "merge" /\ phase' \in {"prefetch", "done"}
        /\ ~MultiRound => phase' = "done"
    BY DEF EndRound, MergeDone
  <1>2. TypeOK' /\ AtWork' /\ TablesHonest'
    BY <1>1, RestTables DEF TasksInv, TypeOK, AtWork, TablesHonest, EndRound, runVars
  <1>3. OneRoundInv' /\ RunsOnce' /\ OneRoundLosesOnlyFalse'
    BY <1>1 DEF TasksInv, OneRoundInv, RunsOnce, OneRoundLosesOnlyFalse, MultiRound, EndRound,
        runVars
  <1> QED
    BY <1>1, <1>2, <1>3, RestKeeps DEF TasksInv, EndRound, runVars

LEMMA PrefetchKeeps ==
    ASSUME TasksInv, Prefetch, setup' = setup
    PROVE  Keeps
  BY PrefetchRound, PrefetchTables DEF Keeps, TablesExact

LEMMA StutterKeeps ==
    ASSUME TasksInv, UNCHANGED vars
    PROVE  Keeps
  <1>1. /\ UNCHANGED <<setup, list, phase, task, rwSet, errs, committed, effective>>
        /\ UNCHANGED <<readVars, writeVars>>
    BY DEF vars, runVars, historyVars
  <1>2. TypeOK' /\ AtWork'
    BY <1>1, RestTables DEF TasksInv, TypeOK, AtWork
  <1>3. OneRoundInv' /\ RunsOnce' /\ OneRoundLosesOnlyFalse'
    BY <1>1, SameRound
  <1>4. CASE phase = "execute"
    BY <1>1, <1>2, <1>4, SameAsked, SameReads, SameWrites, TaskKeeps DEF TablesExact
  <1>5. CASE phase # "execute"
    BY <1>1, <1>2, <1>3, <1>5, RestKeeps DEF TasksInv, TablesHonest
  <1> QED
    BY <1>4, <1>5

LEMMA NextKeeps ==
    ASSUME TasksInv, [Next]_vars
    PROVE  Keeps
  <1>1. ASSUME NEW t \in Txs, setup' = setup,
               \/ Execute(t) \/ ReserveReads(t) \/ ThenWrites(t) \/ ReserveWrites(t)
               \/ FinishTask(t)
        PROVE  Keeps
    BY <1>1, ExecuteKeeps, ReserveReadsKeeps, ThenWritesKeeps, ReserveWritesKeeps, FinishTaskKeeps
  <1>2. ASSUME setup' = setup, Prefetch \/ Decide \/ EndRound
        PROVE  Keeps
    BY <1>2, PrefetchKeeps, DecideKeeps, EndRoundKeeps
  <1>3. ASSUME NEW t \in Txs, NEW k \in Keys, setup' = setup, MergeKey(t, k)
        PROVE  Keeps
    BY <1>3, MergeKeyKeeps
  <1>4. CASE UNCHANGED vars
    BY <1>4, StutterKeeps
  <1> QED
    BY <1>1, <1>2, <1>3, <1>4 DEF Next, Returned

LEMMA InitExact ==
    ASSUME Init
    PROVE  TablesExact
  <1>1. readReserve!CalmInv
    BY ReadInvNames, TablesAssumed, ReadTable!InitSound
        DEF Init, readReserve!Init, ReadTable!Init, readReserve!Waiting, ReadTable!Waiting
  <1>2. writeReserve!CalmInv
    BY WriteInvNames, TablesAssumed, WriteTable!InitSound
        DEF Init, writeReserve!Init, WriteTable!Init, writeReserve!Waiting, WriteTable!Waiting
  <1> QED
    BY <1>1, <1>2 DEF Init, TablesExact

(***************************************************************************)
(* The theorems.                                                           *)
(***************************************************************************)

\* What holds of the rounds however many workers race.
THEOREM TasksAreInvariant == Spec => []TasksInv
  <1>1. TasksInv /\ [Next]_vars => TasksInv'
    BY NextKeeps DEF Keeps
  <1> QED
    BY <1>1, InitRound, PTL DEF Spec

\* The one-round driver loses only transactions with a false prediction.
THEOREM OneRoundLoses == Spec => []OneRoundLosesOnlyFalse
  <1>1. TasksInv => OneRoundLosesOnlyFalse
    BY DEF TasksInv
  <1> QED
    BY <1>1, TasksAreInvariant, PTL

\* However many workers reserve at once, both tables hold every key for the
\* lowest task that has asked for it, but for the keys that tasks have raced for.
THEOREM TablesAreExact == Spec => []TablesExact
  <1>1. TasksInv /\ TablesExact /\ [Next]_vars => TablesExact'
    BY NextKeeps DEF Keeps
  <1> QED
    BY <1>1, InitExact, TasksAreInvariant, PTL DEF Spec

\* A conflict that is found is one.
LEMMA ConflictsAreReal ==
    ASSUME TasksInv, phase = "execute", NEW t \in list
    PROVE  /\ WAW(t) => \E u \in list : u < t /\ rwSet[t].writes \cap rwSet[u].writes # {}
           /\ WAR(t) => \E u \in list : u < t /\ rwSet[t].writes \cap rwSet[u].reads # {}
           /\ RAW(t) => \E u \in list : u < t /\ rwSet[t].reads \cap rwSet[u].writes # {}
  <1>1. /\ readReserve!TypeOK /\ writeReserve!TypeOK /\ t \in Txs
        /\ readReserve!Honest(ReadsAsked) /\ writeReserve!Honest(WritesAsked)
    BY DEF TasksInv, TypeOK, TablesHonest
  <1>2. /\ rwSet[t].reads \subseteq Keys /\ rwSet[t].writes \subseteq Keys
        /\ \A u \in Txs : /\ ReadsAsked[u] \subseteq rwSet[u].reads
                          /\ WritesAsked[u] \subseteq rwSet[u].writes
    BY <1>1, AskedType DEF TasksInv, ReadsAsked, WritesAsked
  <1>3. \A u \in Txs : u \notin list => rwSet[u].reads = {} /\ rwSet[u].writes = {}
    BY DEF TasksInv, AtWork, Empty
  <1>4. PICK readsAsked, writesAsked : readsAsked = ReadsAsked /\ writesAsked = WritesAsked
    OBVIOUS
  <1>5. ASSUME NEW k \in Keys, writeReserve!Reserved(k) # NoTid
        PROVE  writeReserve!Reserved(k) \in list /\ k \in rwSet[writeReserve!Reserved(k)].writes
    <2>1. writeReserve!Honest(writesAsked)
      BY <1>1, <1>4
    <2>2. /\ writeReserve!Reserved(k) \in Txs
          /\ k \in writesAsked[writeReserve!Reserved(k)]
      BY <1>1, <1>5, <2>1, WriteHeld
    <2> QED
      BY <1>2, <1>3, <1>4, <2>2
  <1>6. ASSUME NEW k \in Keys, readReserve!Reserved(k) # NoTid
        PROVE  readReserve!Reserved(k) \in list /\ k \in rwSet[readReserve!Reserved(k)].reads
    <2>1. readReserve!Honest(readsAsked)
      BY <1>1, <1>4
    <2>2. /\ readReserve!Reserved(k) \in Txs
          /\ k \in readsAsked[readReserve!Reserved(k)]
      BY <1>1, <1>6, <2>1, ReadHeld
    <2> QED
      BY <1>2, <1>3, <1>4, <2>2
  <1>7. ASSUME WAW(t)
        PROVE  \E u \in list : u < t /\ rwSet[t].writes \cap rwSet[u].writes # {}
    <2>1. PICK k \in rwSet[t].writes : /\ writeReserve!Reserved(k) # NoTid
                                       /\ writeReserve!Reserved(k) < t
      BY <1>7 DEF WAW, writeReserve!HasConflict
    <2> QED
      BY <1>2, <1>5, <2>1
  <1>8. ASSUME WAR(t)
        PROVE  \E u \in list : u < t /\ rwSet[t].writes \cap rwSet[u].reads # {}
    <2>1. PICK k \in rwSet[t].writes : /\ readReserve!Reserved(k) # NoTid
                                       /\ readReserve!Reserved(k) < t
      BY <1>8 DEF WAR, readReserve!HasConflict
    <2> QED
      BY <1>2, <1>6, <2>1
  <1>9. ASSUME RAW(t)
        PROVE  \E u \in list : u < t /\ rwSet[t].reads \cap rwSet[u].writes # {}
    <2>1. PICK k \in rwSet[t].reads : /\ writeReserve!Reserved(k) # NoTid
                                      /\ writeReserve!Reserved(k) < t
      BY <1>9 DEF RAW, writeReserve!HasConflict
    <2> QED
      BY <1>2, <1>5, <2>1
  <1> QED
    BY <1>7, <1>8, <1>9

\* However the reservations race, a transaction that meets no lower one of the
\* round is committed.
THEOREM UnconflictedAreCommitted == Spec => UnconflictedCommits
  <1> DEFINE A == phase = "execute" /\ phase' = "merge" =>
                    \A t \in list :
                        errs[t] = "nil" /\ (\A u \in list : u < t => ~Overlap(t, u))
                        => t \in committed'
  <1>1. TasksInv /\ [Next]_vars => [A]_vars
    <2> SUFFICES ASSUME TasksInv, Next, phase = "execute", phase' = "merge", NEW t \in list,
                        errs[t] = "nil", \A u \in list : u < t => ~Overlap(t, u)
                 PROVE  t \in committed'
      OBVIOUS
    <2>1. Decide
      BY DEF Next, Prefetch, Execute, ReserveReads, ThenWrites, ReserveWrites, FinishTask, MergeKey,
          EndRound, MergeDone, Returned, vars
    <2>2. ~WAW(t) /\ ~WAR(t) /\ ~RAW(t)
      BY ConflictsAreReal DEF Overlap
    <2>3. Commits(t)
      BY <2>2 DEF Commits, MultiRoundCommits, OneRoundRepeats
    <2> QED
      BY <2>1, <2>3 DEF Decide
  <1> QED
    BY <1>1, TasksAreInvariant, PTL DEF Spec, UnconflictedCommits

\* However the reservations race, a transaction of a round is committed, and then
\* never run again, or run again in the next round, or dropped by the multi-round
\* driver, having both a RAW and a WAR conflict that are real.
THEOREM TransactionsGoOneWay == Spec => OneWayOut
  <1> DEFINE A == phase = "execute" /\ phase' = "merge" =>
                    \A t \in list :
                        /\ t \notin effective
                        /\ t \in committed' => t \notin list'
                        /\ t \notin committed' \cup list' =>
                            /\ MultiRound
                            /\ \E u \in list : u < t /\ rwSet[t].reads \cap rwSet[u].writes # {}
                            /\ \E u \in list : u < t /\ rwSet[t].writes \cap rwSet[u].reads # {}
  <1>1. TasksInv /\ [Next]_vars => [A]_vars
    <2> SUFFICES ASSUME TasksInv, Next, phase = "execute", phase' = "merge", NEW t \in list
                 PROVE  /\ t \notin effective
                        /\ t \in committed' => t \notin list'
                        /\ t \notin committed' \cup list' =>
                            /\ MultiRound
                            /\ \E u \in list : u < t /\ rwSet[t].reads \cap rwSet[u].writes # {}
                            /\ \E u \in list : u < t /\ rwSet[t].writes \cap rwSet[u].reads # {}
      OBVIOUS
    <2>1. Decide
      BY DEF Next, Prefetch, Execute, ReserveReads, ThenWrites, ReserveWrites, FinishTask, MergeKey,
          EndRound, MergeDone, Returned, vars
    <2>2. t \notin effective
      BY DEF TasksInv, RunsOnce
    <2>3. (t \in committed' <=> Commits(t)) /\ (t \in list' <=> Repeats(t))
      BY <2>1 DEF Decide
    <2>4. ~(Commits(t) /\ Repeats(t))
      BY DEF Commits, Repeats, MultiRoundCommits, MultiRoundRepeats
    <2>5. ~Commits(t) /\ ~Repeats(t) => MultiRound /\ WAR(t) /\ RAW(t)
      BY DEF Commits, Repeats, MultiRoundCommits, MultiRoundRepeats
    <2> QED
      BY <2>2, <2>3, <2>4, <2>5, ConflictsAreReal
  <1> QED
    BY <1>1, TasksAreInvariant, PTL DEF Spec, OneWayOut

(***************************************************************************)
(* The committed transactions of a round are ordered by every key that no  *)
(* race was about.                                                         *)
(***************************************************************************)

\* When all tasks have finished, a key that a lower one has touched is found,
\* unless there has been a race for it.
LEMMA LowerIsFound ==
    ASSUME TasksInv, TablesExact, phase = "execute", NEW t \in Txs, NEW u \in Txs,
           task[u] = "finished", u < t, NEW k, k \notin readRaced \cup writeRaced, NEW set, k \in set
    PROVE  /\ k \in rwSet[u].writes => writeReserve!HasConflict(t, set)
           /\ k \in rwSet[u].reads => readReserve!HasConflict(t, set)
  <1>1. /\ readReserve!TypeOK /\ writeReserve!TypeOK /\ t \in Nat /\ u \in Nat
        /\ readReserve!Honest(ReadsAsked) /\ writeReserve!Honest(WritesAsked)
        /\ readReserve!Lowest(ReadsAsked) /\ writeReserve!Lowest(WritesAsked)
        /\ readLoop[u].todo = {} /\ writeLoop[u].todo = {}
    BY AriaAssumption DEF TasksInv, TypeOK, TablesHonest, TablesExact, AtWork
  <1>2. /\ ReadsAsked[u] = rwSet[u].reads /\ WritesAsked[u] = rwSet[u].writes
        /\ rwSet[u].reads \subseteq Keys /\ rwSet[u].writes \subseteq Keys
    BY AskedType DEF TasksInv, ReadsAsked, WritesAsked
  <1>3. PICK readsAsked, writesAsked : readsAsked = ReadsAsked /\ writesAsked = WritesAsked
    OBVIOUS
  <1>4. ASSUME k \in rwSet[u].writes
        PROVE  writeReserve!HasConflict(t, set)
    <2>1. writeReserve!Reserved(k) # NoTid /\ writeReserve!Reserved(k) <= u
      BY <1>1, <1>2, <1>4 DEF writeReserve!Lowest
    <2>2. writeReserve!Honest(writesAsked) /\ k \in Keys
      BY <1>1, <1>2, <1>3, <1>4
    <2>3. writeReserve!Reserved(k) \in Nat
      BY <1>1, <2>1, <2>2, WriteHeld, AriaAssumption
    <2> QED
      BY <1>1, <2>1, <2>3 DEF writeReserve!HasConflict
  <1>5. ASSUME k \in rwSet[u].reads
        PROVE  readReserve!HasConflict(t, set)
    <2>1. readReserve!Reserved(k) # NoTid /\ readReserve!Reserved(k) <= u
      BY <1>1, <1>2, <1>5 DEF readReserve!Lowest
    <2>2. readReserve!Honest(readsAsked) /\ k \in Keys
      BY <1>1, <1>2, <1>3, <1>5
    <2>3. readReserve!Reserved(k) \in Nat
      BY <1>1, <2>1, <2>2, ReadHeld, AriaAssumption
    <2> QED
      BY <1>1, <2>1, <2>3 DEF readReserve!HasConflict
  <1> QED
    BY <1>4, <1>5

\* The verdicts order what they commit.
LEMMA VerdictsOrder ==
    ASSUME TasksInv, TablesExact, phase = "execute", \A t \in list : task[t] = "finished",
           NEW t \in list, NEW u \in list, t # u, Commits(t), Commits(u),
           NEW k, k \notin readRaced \cup writeRaced
    PROVE  /\ ~(k \in rwSet[t].writes /\ k \in rwSet[u].writes)
           /\ k \in rwSet[t].reads /\ k \in rwSet[u].writes => Rank(t) < Rank(u)
  <1>1. t \in Txs /\ u \in Txs /\ t \in Nat /\ u \in Nat
    BY AriaAssumption DEF TasksInv, TypeOK
  <1>2. ~WAW(t) /\ ~WAW(u) /\ ~(WAR(u) /\ RAW(u))
    BY DEF Commits, MultiRoundCommits, OneRoundRepeats
  <1>3. ASSUME k \in rwSet[t].writes, k \in rwSet[u].writes
        PROVE  FALSE
    BY <1>1, <1>2, <1>3, LowerIsFound DEF WAW
  <1>4. ASSUME k \in rwSet[t].reads, k \in rwSet[u].writes
        PROVE  Rank(t) < Rank(u)
    <2>1. CASE u < t
      <3>1. RAW(t)
        BY <1>1, <1>4, <2>1, LowerIsFound DEF RAW
      <3> QED
        BY <1>1, <2>1, <3>1 DEF Rank
    <2>2. CASE t < u
      <3>1. WAR(u)
        BY <1>1, <1>4, <2>2, LowerIsFound DEF WAR
      <3> QED
        BY <1>1, <1>2, <2>2, <3>1 DEF Rank
    <2> QED
      BY <1>1, <2>1, <2>2
  <1> QED
    BY <1>3, <1>4

\* However many workers reserve at once, no key has two committed writers, and in
\* Aria's order every transaction reads what the snapshot holds before another
\* one writes it, unless tasks have raced for the key.
THEOREM CommitsAreOrdered == Spec => []CommitsInOrder
  <1>1. Init => CommitsInOrder
    BY DEF Init, CommitsInOrder
  <1>2. TasksInv /\ TablesExact /\ CommitsInOrder /\ [Next]_vars => CommitsInOrder'
    <2> SUFFICES ASSUME TasksInv, TablesExact, CommitsInOrder, [Next]_vars
                 PROVE  CommitsInOrder'
      OBVIOUS
    <2>1. ASSUME UNCHANGED <<setup, rwSet, readVars, writeVars>>
          PROVE  /\ readRaced' = readRaced /\ writeRaced' = writeRaced
                 /\ \A t : Rank(t)' = Rank(t)
      BY <2>1 DEF Rank, RAW, writeReserve!HasConflict, writeReserve!Reserved, readVars, writeVars
    <2>2. CASE Decide /\ setup' = setup
      <3>1. /\ UNCHANGED <<setup, rwSet, readVars, writeVars>>
            /\ phase = "execute" /\ \A t \in list : task[t] = "finished"
            /\ \A t \in committed' : t \in list /\ Commits(t)
        BY <2>2 DEF Decide, runVars
      <3>2. ASSUME NEW t \in committed', NEW u \in committed', t # u,
                   NEW k \in Keys \ (readRaced \cup writeRaced)
            PROVE  /\ ~(k \in rwSet[t].writes /\ k \in rwSet[u].writes)
                   /\ k \in rwSet[t].reads /\ k \in rwSet[u].writes => Rank(t) < Rank(u)
        BY <3>1, <3>2, VerdictsOrder
      <3> QED
        BY <2>1, <3>1, <3>2 DEF CommitsInOrder
    <2>3. CASE UNCHANGED <<setup, phase, committed, rwSet, readVars, writeVars>>
      BY <2>1, <2>3 DEF CommitsInOrder
    <2>4. CASE phase' # "merge"
      BY <2>4 DEF CommitsInOrder
    <2>5. ASSUME phase' = "merge"
          PROVE  \/ Decide /\ setup' = setup
                 \/ UNCHANGED <<setup, phase, committed, rwSet, readVars, writeVars>>
      <3>1. ASSUME NEW t \in Txs, Execute(t) \/ ReserveReads(t) \/ ThenWrites(t)
                                  \/ ReserveWrites(t) \/ FinishTask(t)
            PROVE  FALSE
        BY <2>5, <3>1 DEF Execute, ReserveReads, ThenWrites, ReserveWrites, FinishTask,
            TasksInv, AtWork
      <3>2. ASSUME NEW t \in Txs, NEW k \in Keys, MergeKey(t, k), setup' = setup
            PROVE  UNCHANGED <<setup, phase, committed, rwSet, readVars, writeVars>>
        BY <3>2 DEF MergeKey, runVars, historyVars
      <3>3. ~Prefetch /\ ~EndRound
        BY <2>5 DEF Prefetch, EndRound
      <3>4. ASSUME UNCHANGED vars
            PROVE  UNCHANGED <<setup, phase, committed, rwSet, readVars, writeVars>>
        BY <3>4 DEF vars, runVars, historyVars
      <3> QED
        BY <3>1, <3>2, <3>3, <3>4 DEF Next, Returned
    <2> QED
      BY <2>2, <2>3, <2>4, <2>5
  <1> QED
    BY <1>1, <1>2, TasksAreInvariant, TablesAreExact, PTL DEF Spec

(***************************************************************************)
(* What the caches and the full cache hold.                                *)
(***************************************************************************)
LEMMA SameNames ==
    ASSUME UNCHANGED <<setup, errs, rwSet, cache, before>>
    PROVE  \A t : MergedKeys(t)' = MergedKeys(t) /\ RanOnSnapshot(t)' = RanOnSnapshot(t)
  BY DEF MergedKeys, RanOnSnapshot, Predicted

LEMMA InitSnapshot ==
    ASSUME Init
    PROVE  SnapshotInv
  BY DEF Init, SnapshotInv, IsStore

LEMMA PrefetchSnapshot ==
    ASSUME TasksInv, SnapshotInv, Prefetch, setup' = setup
    PROVE  SnapshotInv'
  <1>1. list' = list /\ full' = full /\ before' = full /\ phase' = "execute" /\ toMerge' = toMerge
    BY DEF Prefetch
  <1>2. list \subseteq Txs
    BY DEF TasksInv, TypeOK
  <1>3. DOMAIN cache' = Txs /\ \A t \in list : cache'[t] = full /\ task'[t] = "queued"
    BY <1>2 DEF Prefetch, Queued
  <1> QED
    BY <1>1, <1>3 DEF SnapshotInv

LEMMA ExecuteSnapshot ==
    ASSUME TasksInv, SnapshotInv, NEW t \in Txs, Execute(t), setup' = setup
    PROVE  SnapshotInv'
  <1>1. /\ UNCHANGED <<list, phase, full, toMerge, before, committed>>
        /\ phase = "execute" /\ t \in list /\ task[t] = "queued"
    BY DEF Execute, TasksInv, AtWork, historyVars
  <1>2. /\ task' = [task EXCEPT ![t] = "reads"] /\ list \subseteq Txs
        /\ DOMAIN task = Txs /\ DOMAIN rwSet = Txs /\ DOMAIN errs = Txs /\ DOMAIN cache = Txs
    BY DEF Execute, TasksInv, TypeOK, SnapshotInv
  <1>3. PICK behaviour \in Behaviours[t] : \E outcome \in Outcomes(t, behaviour) :
            /\ rwSet' = [rwSet EXCEPT ![t] = outcome.rw]
            /\ errs' = [errs EXCEPT ![t] = outcome.err]
            /\ cache' = [cache EXCEPT ![t] =
                            IF outcome.err = "nil" THEN Written(t, outcome.rw, @) ELSE @]
    BY DEF Execute
  <1>4. PICK outcome \in Outcomes(t, behaviour) :
            /\ rwSet' = [rwSet EXCEPT ![t] = outcome.rw]
            /\ errs' = [errs EXCEPT ![t] = outcome.err]
            /\ cache' = [cache EXCEPT ![t] =
                            IF outcome.err = "nil" THEN Written(t, outcome.rw, @) ELSE @]
    BY <1>3
  <1>5. PICK rw, err : rw = outcome.rw /\ err = outcome.err
    OBVIOUS
  <1>6. err = "nil" => rw.reads \cup rw.writes \subseteq Predicted[t]
    <2>1. PICK judged : judged = IF behaviour.reads \cup behaviour.writes \subseteq Predicted[t]
                                 THEN "nil" ELSE "ErrFalsePredict"
      OBVIOUS
    <2>2. outcome = [rw |-> behaviour, err |-> judged] \/ outcome = [rw |-> Empty, err |-> "rejected"]
      BY <2>1 DEF Outcomes
    <2>3. (rw = behaviour /\ err = judged) \/ err = "rejected"
      BY <1>5, <2>2
    <2> QED
      BY <2>1, <2>3
  <1>7. cache[t] = before
    BY <1>1 DEF SnapshotInv
  <1>8. /\ rwSet'[t] = rw /\ errs'[t] = err /\ task'[t] = "reads" /\ DOMAIN cache' = Txs
        /\ cache'[t] = IF err = "nil" THEN Written(t, rw, before) ELSE before
        /\ \A u \in list : u # t => rwSet'[u] = rwSet[u] /\ errs'[u] = errs[u]
                                    /\ cache'[u] = cache[u] /\ task'[u] = task[u]
    BY <1>2, <1>4, <1>5, <1>7
  <1>9. RanOnSnapshot(t)'
    BY <1>1, <1>6, <1>8 DEF RanOnSnapshot, Predicted
  <1>10. \A u \in list : u # t => RanOnSnapshot(u)' = RanOnSnapshot(u)
    BY <1>1, <1>8 DEF RanOnSnapshot, Predicted
  <1> QED
    BY <1>1, <1>8, <1>9, <1>10 DEF SnapshotInv

\* The steps of the reservations.
LEMMA ReserveSnapshot ==
    ASSUME TasksInv, SnapshotInv, NEW t \in Txs, setup' = setup,
           ReserveReads(t) \/ ThenWrites(t) \/ ReserveWrites(t) \/ FinishTask(t)
    PROVE  SnapshotInv'
  <1>1. /\ UNCHANGED <<list, phase, runVars, full, toMerge, historyVars>> /\ phase = "execute"
        /\ \A u \in Txs : task'[u] = "queued" <=> task[u] = "queued"
    BY DEF ReserveReads, ThenWrites, ReserveWrites, FinishTask, TasksInv, TypeOK, AtWork
  <1>2. list \subseteq Txs /\ UNCHANGED <<errs, rwSet, cache, before>>
    BY <1>1 DEF TasksInv, TypeOK, runVars, historyVars
  <1> QED
    BY <1>1, <1>2, SameNames DEF SnapshotInv, runVars, historyVars

LEMMA DecideSnapshot ==
    ASSUME TasksInv, SnapshotInv, Decide, setup' = setup
    PROVE  SnapshotInv'
  <1>1. /\ UNCHANGED <<errs, rwSet, cache, before, full>> /\ phase = "execute" /\ phase' = "merge"
        /\ \A t \in list : task[t] = "finished"
        /\ committed' \subseteq list /\ list \subseteq Txs
        /\ DOMAIN toMerge' = Txs
        /\ \A t \in committed' : toMerge'[t] = MergedKeys(t)
        /\ \A t \in Txs \ committed' : toMerge'[t] = {}
    BY DEF Decide, runVars, TasksInv, TypeOK
  <1>2. \A t \in committed' : RanOnSnapshot(t)' /\ toMerge'[t] \subseteq MergedKeys(t)'
    BY <1>1, SameNames DEF SnapshotInv
  <1>3. HalfMerged'
    <2>1. ASSUME NEW k \in Keys
          PROVE  {t \in committed' : k \in MergedKeys(t)' \ toMerge'[t]} = {} /\ full'[k] = before'[k]
      BY <1>1, SameNames DEF SnapshotInv
    <2> QED
      BY <2>1 DEF HalfMerged
  <1> QED
    BY <1>1, <1>2, <1>3 DEF SnapshotInv

LEMMA MergeKeySnapshot ==
    ASSUME TasksInv, SnapshotInv, NEW t \in Txs, NEW k \in Keys, MergeKey(t, k), setup' = setup
    PROVE  SnapshotInv'
  <1>1. /\ UNCHANGED <<list, phase, task, errs, rwSet, cache, before, committed>>
        /\ phase = "merge" /\ k \in toMerge[t] /\ t \in committed
        /\ full' = [full EXCEPT ![k] = cache[t][k]]
        /\ toMerge' = [toMerge EXCEPT ![t] = @ \ {k}]
        /\ DOMAIN toMerge = Txs /\ committed \subseteq Txs
    BY DEF MergeKey, runVars, historyVars, SnapshotInv, TasksInv, TypeOK
  <1>2. IsStore(full') /\ full'[k] = cache[t][k] /\ \A l \in Keys : l # k => full'[l] = full[l]
    BY <1>1 DEF SnapshotInv, IsStore
  <1>3. /\ DOMAIN toMerge' = Txs /\ toMerge'[t] = toMerge[t] \ {k}
        /\ \A u \in Txs : u # t => toMerge'[u] = toMerge[u]
    BY <1>1
  <1>4. HalfMerged'
    <2> DEFINE Merged(l) == {u \in committed : l \in MergedKeys(u) \ toMerge[u]}
               Then(l) == {u \in committed : l \in MergedKeys(u) \ toMerge'[u]}
    <2>1. ASSUME NEW l \in Keys, l # k
          PROVE  Then(l) = Merged(l)
      BY <1>1, <1>3, <2>1
    <2>2. ASSUME NEW l \in Keys
          PROVE  IF Then(l) = {} THEN full'[l] = before[l] ELSE \E u \in Then(l) : full'[l] = cache[u][l]
      <3>1. CASE l # k
        BY <1>1, <1>2, <2>1, <3>1 DEF SnapshotInv, HalfMerged
      <3>2. CASE l = k /\ k \in MergedKeys(t)
        <4>1. t \in Then(k)
          BY <1>1, <1>3, <3>2
        <4> QED
          BY <1>2, <3>2, <4>1
      <3>3. CASE k \notin MergedKeys(t)
        BY <1>1, <3>3 DEF SnapshotInv
      <3> QED
        BY <3>1, <3>2, <3>3
    <2> QED
      BY <1>1, <2>2, SameNames DEF HalfMerged
  <1>5. \A u \in committed : RanOnSnapshot(u)' /\ toMerge'[u] \subseteq MergedKeys(u)'
    <2>1. \A u \in committed : toMerge'[u] \subseteq toMerge[u]
      BY <1>1, <1>3
    <2> QED
      BY <1>1, <2>1, SameNames DEF SnapshotInv
  <1>6. \A u \in Txs \ committed : toMerge'[u] = {}
    BY <1>1, <1>3 DEF SnapshotInv
  <1> QED
    BY <1>1, <1>2, <1>3, <1>4, <1>5, <1>6 DEF SnapshotInv


LEMMA RestSnapshot ==
    ASSUME TasksInv, SnapshotInv, EndRound \/ UNCHANGED vars
    PROVE  SnapshotInv'
  <1>1. CASE EndRound
    <2>1. /\ UNCHANGED <<cache, full, toMerge, before>>
          /\ phase' # "execute" /\ phase' # "merge"
      BY <1>1 DEF EndRound, runVars
    <2> QED
      BY <2>1 DEF SnapshotInv
  <1>2. CASE UNCHANGED vars
    <2>1. /\ UNCHANGED <<setup, list, phase, task, cache, rwSet, errs, full, toMerge, before>>
          /\ UNCHANGED committed
      BY <1>2 DEF vars, runVars, historyVars
    <2>2. HalfMerged' = HalfMerged
      BY <2>1, SameNames DEF HalfMerged
    <2> QED
      BY <2>1, <2>2, SameNames DEF SnapshotInv
  <1> QED
    BY <1>1, <1>2

\* What holds of the rounds however many workers race: who is at work, which
\* reservations there may be, where each transaction stands, and what its cache
\* and the full cache hold.
THEOREM RoundIsInvariant == Spec => []RoundInv
  <1>1. TasksInv /\ SnapshotInv /\ [Next]_vars => SnapshotInv'
    <2> SUFFICES ASSUME TasksInv, SnapshotInv, [Next]_vars
                 PROVE  SnapshotInv'
      OBVIOUS
    <2>1. ASSUME NEW t \in Txs, setup' = setup,
                 Execute(t) \/ ReserveReads(t) \/ ThenWrites(t) \/ ReserveWrites(t) \/ FinishTask(t)
          PROVE  SnapshotInv'
      BY <2>1, ExecuteSnapshot, ReserveSnapshot
    <2>2. ASSUME setup' = setup, Prefetch \/ Decide \/ EndRound
          PROVE  SnapshotInv'
      BY <2>2, PrefetchSnapshot, DecideSnapshot, RestSnapshot
    <2>3. ASSUME NEW t \in Txs, NEW k \in Keys, setup' = setup, MergeKey(t, k)
          PROVE  SnapshotInv'
      BY <2>3, MergeKeySnapshot
    <2>4. CASE UNCHANGED vars
      BY <2>4, RestSnapshot
    <2> QED
      BY <2>1, <2>2, <2>3, <2>4 DEF Next, Returned
  <1>2. TasksInv /\ SnapshotInv => RoundInv
    BY DEF RoundInv
  <1> QED
    BY <1>1, <1>2, InitSnapshot, TasksAreInvariant, PTL DEF Spec

(***************************************************************************)
(* A round leaves what a serial execution leaves.                          *)
(***************************************************************************)

\* The committed transactions whose execution left something.
Run == {t \in committed : errs[t] = "nil"}

\* Of the keys that one of them writes and another touches, none was raced for.
Unraced ==
    \A k \in readRaced \cup writeRaced : \A t \in {v \in Run : k \in rwSet[v].writes} :
        {u \in Run : k \in rwSet[u].reads \cup rwSet[u].writes} = {t}

\* Then one order goes for all keys.
LEMMA RunIsOrdered ==
    ASSUME TasksInv, CommitsInOrder, phase = "merge", Unraced,
           NEW t \in Run, NEW u \in Run, t # u
    PROVE  /\ rwSet[t].writes \cap rwSet[u].writes = {}
           /\ rwSet[t].reads \cap rwSet[u].writes # {} => Rank(t) < Rank(u)
  <1>1. t \in committed /\ u \in committed /\ rwSet[u].writes \subseteq Keys
    BY DEF Run, TasksInv, TypeOK, RWSets
  <1>2. ASSUME NEW k \in rwSet[u].writes, k \in rwSet[t].reads \cup rwSet[t].writes
        PROVE  k \in Keys \ (readRaced \cup writeRaced)
    <2>1. ASSUME k \in readRaced \cup writeRaced
          PROVE  FALSE
      <3>1. {v \in Run : k \in rwSet[v].reads \cup rwSet[v].writes} = {u}
        BY <2>1 DEF Unraced
      <3> QED
        BY <1>2, <3>1
    <2> QED
      BY <1>1, <2>1
  <1> QED
    BY <1>1, <1>2 DEF CommitsInOrder

LEMMA RunIsSerial ==
    ASSUME TasksInv, SnapshotInv, CommitsInOrder, phase = "merge", Unraced
    PROVE  \E left \in SerialStores(Run, before) :
                /\ IsStore(left)
                /\ \A k \in Keys :
                    /\ (\A t \in Run : k \notin rwSet[t].writes) => left[k] = before[k]
                    /\ \A t \in Run : k \in rwSet[t].writes => left[k] = cache[t][k]
  <1> DEFINE rank == [t \in Run |-> Rank(t)]
  <1>1. Run \subseteq committed /\ Run \subseteq Txs /\ IsFiniteSet(Run) /\ Run \subseteq Nat
    BY AriaAssumption, FS_Subset DEF Run, TasksInv, TypeOK
  <1>2. rank \in [Run -> Int] /\ \A t, u \in Run : t # u => rank[t] # rank[u]
    BY <1>1 DEF Rank
  <1>0. PICK less : \A t, u \in Run : <<t, u>> \in less <=> rank[t] < rank[u]
    <2>1. \A t, u \in Run : <<t, u>> \in {e \in Run \X Run : rank[e[1]] < rank[e[2]]} <=> rank[t] < rank[u]
      OBVIOUS
    <2> QED
      BY <2>1
  <1>3. PICK order \in SetToSeqs(Run) : Sorted(order, less)
    <2>1. PICK set : set = Run
      OBVIOUS
    <2>2. \A t \in set : rank[t] \in Int
      BY <1>2, <2>1
    <2> HIDE DEF rank
    <2>3. \A t, u \in set : t # u => <<t, u>> \in less \/ <<u, t>> \in less
      BY <1>2, <1>0, <2>1, <2>2
    <2>4. \A t, u, v \in set : <<t, u>> \in less /\ <<u, v>> \in less => <<t, v>> \in less
      BY <1>0, <2>1, <2>2
    <2>5. \E order \in SetToSeqs(set) : Sorted(order, less)
      BY <1>1, <2>1, <2>3, <2>4, SortedList
    <2> QED
      BY <2>1, <2>5
  <1>4. \A t \in Run : rwSet[t].reads \subseteq Keys
    BY <1>1 DEF TasksInv, TypeOK, RWSets
  <1>5. \A t, u \in Run : t # u => rwSet[t].writes \cap rwSet[u].writes = {}
    BY RunIsOrdered
  <1>6. ASSUME NEW i \in 1..Len(order), NEW j \in 1..Len(order), i < j
        PROVE  rwSet[order[j]].reads \cap rwSet[order[i]].writes = {}
    <2>1. /\ order \in Seq(Run) /\ Len(order) \in Nat /\ DOMAIN order = 1..Len(order)
          /\ \A m, n \in 1..Len(order) : order[m] = order[n] => m = n
      BY <1>1, <1>3, ListsEach
    <2>2. PICK t, u : t = order[j] /\ u = order[i]
      OBVIOUS
    <2>3. t \in Run /\ u \in Run /\ t # u
      BY <1>6, <2>1, <2>2
    <2>4. rank[u] < rank[t]
      BY <1>3, <1>0, <1>6, <2>2, <2>3 DEF Sorted
    <2>5. ~(Rank(t) < Rank(u))
      BY <1>2, <2>3, <2>4
    <2> QED
      BY <2>2, <2>3, <2>5, RunIsOrdered
  <1>7. PICK left : left = SerialStore(order, rwSet, before)
    OBVIOUS
  <1>8. /\ IsStore(left)
        /\ \A k \in Keys :
            /\ (\A t \in Run : k \notin rwSet[t].writes) => left[k] = before[k]
            /\ \A t \in Run : k \in rwSet[t].writes => left[k] = Written(t, rwSet[t], before)[k]
    <2>1. PICK txs, sets, store : txs = Run /\ sets = rwSet /\ store = before
      OBVIOUS
    <2>2. /\ IsFiniteSet(txs) /\ order \in SetToSeqs(txs) /\ IsStore(store)
          /\ left = SerialStore(order, sets, store)
      BY <1>1, <1>3, <1>7, <2>1 DEF SnapshotInv
    <2>3. Readable(txs, sets) /\ WrittenOnce(txs, sets)
      BY <1>4, <1>5, <2>1 DEF Readable, WrittenOnce
    <2>4. ReadBeforeWritten(order, sets)
      BY <1>6, <2>1 DEF ReadBeforeWritten
    <2>5. IsStore(left) /\ WrittenFrom(left, txs, sets, store)
      BY <2>2, <2>3, <2>4, SnapshotIsSerial
    <2> QED
      BY <2>1, <2>5 DEF WrittenFrom
  <1>9. \A t \in Run : cache[t] = Written(t, rwSet[t], before)
    BY <1>1 DEF SnapshotInv, RanOnSnapshot, Run
  <1>10. left \in SerialStores(Run, before)
    BY <1>3, <1>7 DEF SerialStores
  <1> QED
    BY <1>8, <1>9, <1>10

\* When the merge is over and none has written back what it had only read, a
\* key holds what its one writer has left, or what it held.
LEMMA MergedExactly ==
    ASSUME TasksInv, SnapshotInv, MergeDone, NEW k \in Keys,
           \A t, u \in Run : t # u /\ k \in rwSet[t].writes => k \notin MergedKeys(u)
    PROVE  /\ (\A t \in Run : k \notin rwSet[t].writes) => full[k] = before[k]
           /\ \A t \in Run : k \in rwSet[t].writes => full[k] = cache[t][k]
  <1>1. phase = "merge" /\ committed \subseteq Txs /\ \A t \in committed : toMerge[t] = {}
    BY DEF MergeDone, TasksInv, TypeOK
  <1>2. \A t \in committed : k \in MergedKeys(t) => t \in Run
    BY DEF Run, MergedKeys
  <1> DEFINE merged == {t \in committed : k \in MergedKeys(t) \ toMerge[t]}
  <1>3. IF merged = {} THEN full[k] = before[k] ELSE \E t \in merged : full[k] = cache[t][k]
    BY <1>1 DEF SnapshotInv, HalfMerged
  <1>4. merged = {t \in Run : k \in MergedKeys(t)}
    BY <1>1, <1>2 DEF Run
  <1> HIDE DEF merged
  <1>5. \A t \in Run : /\ errs[t] = "nil" /\ cache[t] = Written(t, rwSet[t], before)
                       /\ rwSet[t].writes \subseteq Predicted[t]
    BY <1>1 DEF Run, SnapshotInv, RanOnSnapshot
  <1>6. ASSUME \A t \in Run : k \notin rwSet[t].writes
        PROVE  full[k] = before[k]
    <2>1. \A t \in Run : cache[t][k] = before[k]
      BY <1>1, <1>5, <1>6, WrittenStore DEF SnapshotInv
    <2> QED
      BY <1>3, <1>4, <2>1
  <1>7. ASSUME NEW t \in Run, k \in rwSet[t].writes
        PROVE  full[k] = cache[t][k]
    <2>1. k \in MergedKeys(t)
      BY <1>5, <1>7 DEF MergedKeys, DirtyAccounts
    <2>2. \A u \in Run : k \in MergedKeys(u) => u = t
      BY <1>7
    <2> QED
      BY <1>3, <1>4, <1>7, <2>1, <2>2
  <1> QED
    BY <1>6, <1>7

\* Aria's promise, however many workers run the round: unless tasks have raced for
\* a key that one of them writes and another touches, the transactions that it
\* commits are a serial execution, and their merge leaves its result unless it
\* writes back a slot that another one has written.
THEOREM RoundsAreSerializable == Spec => []RoundSerializable
  <1>1. RoundInv /\ CommitsInOrder => RoundSerializable
    <2> SUFFICES ASSUME TasksInv, SnapshotInv, CommitsInOrder, MergeDone, Unraced
                 PROVE  RoundSerializable
      BY DEF RoundInv, RoundSerializable, Unraced, Run
    <2> DEFINE Writers(k) == {t \in Run : k \in rwSet[t].writes}
               decided == [k \in Keys |-> IF Writers(k) = {} THEN before[k]
                                          ELSE LET t == CHOOSE t \in Writers(k) : TRUE
                                               IN  cache[t][k]]
    <2>1. phase = "merge"
      BY DEF MergeDone
    <2>2. PICK left \in SerialStores(Run, before) :
                /\ IsStore(left)
                /\ \A k \in Keys :
                    /\ (\A t \in Run : k \notin rwSet[t].writes) => left[k] = before[k]
                    /\ \A t \in Run : k \in rwSet[t].writes => left[k] = cache[t][k]
      BY <2>1, RunIsSerial
    <2>3. ASSUME NEW k \in Keys
          PROVE  decided[k] = left[k]
      <3>1. CASE Writers(k) = {}
        BY <2>2, <3>1
      <3>2. CASE Writers(k) # {}
        <4>1. PICK t : t = CHOOSE u \in Writers(k) : TRUE
          OBVIOUS
        <4>2. t \in Run /\ k \in rwSet[t].writes
          BY <3>2, <4>1
        <4> QED
          BY <2>2, <3>2, <4>1, <4>2
      <3> QED
        BY <3>1, <3>2
    <2>4. decided = left
      BY <2>2, <2>3 DEF IsStore
    <2>5. ASSUME ~ \E k \in Keys : \E t \in Writers(k), u \in Run : t # u /\ k \in MergedKeys(u)
          PROVE  full = decided
      <3>1. ASSUME NEW k \in Keys
            PROVE  full[k] = left[k]
        <4>1. \A t, u \in Run : t # u /\ k \in rwSet[t].writes => k \notin MergedKeys(u)
          BY <2>5, <3>1
        <4>2. /\ (\A t \in Run : k \notin rwSet[t].writes) => full[k] = before[k]
              /\ \A t \in Run : k \in rwSet[t].writes => full[k] = cache[t][k]
          BY <4>1, MergedExactly
        <4> QED
          BY <2>2, <4>2
      <3> QED
        BY <2>2, <2>4, <3>1 DEF SnapshotInv, IsStore
    <2> QED
      BY <2>2, <2>4, <2>5 DEF RoundSerializable, Run
  <1> QED
    BY <1>1, RoundIsInvariant, CommitsAreOrdered, PTL

=============================================================================
