--------------------------- MODULE ReserveSetProofs ---------------------------
(***************************************************************************)
(* The theorems about a reserve table, and what one step of Reserve keeps, *)
(* on which the proofs about Aria build.                                   *)
(***************************************************************************)
EXTENDS ReserveSetInv, FiniteSetTheorems, TLAPS

(***************************************************************************)
(* Each step in terms of the fields of the loop.                           *)
(***************************************************************************)

\* Only the loop of one task changes.
Moves(t, l) ==
    /\ loop' \in [Tids -> Loop] /\ loop'[t] = l
    /\ \A u \in Tids : u # t => loop'[u] = loop[u]

LEMMA MovesTo ==
    ASSUME TypeOK, NEW t \in Tids, NEW l \in Loop, loop' = [loop EXCEPT ![t] = l]
    PROVE  Moves(t, l)
  BY DEF TypeOK, Moves

\* A task that is inside Reserve has a key at hand, of those to do.
LEMMA KeyAtHand ==
    ASSUME TypeOK, NEW t \in Tids
    PROVE  /\ loop[t] \in Loop
           /\ loop[t].step \in {"next", "get", "set", "publish", "store"}
           /\ loop[t].todo \subseteq Keys /\ loop[t].at \in Tids \cup {NoTid}
           /\ loop[t].step # "next" =>
                /\ loop[t].key \in loop[t].todo /\ loop[t].key \in Keys
                /\ loop[t].key[1] \in Addresses /\ loop[t].key[2] \in Slots
  <1>1. loop[t] \in Loop
    BY DEF TypeOK
  <1>2. /\ loop[t].step \in {"next", "get", "set", "publish", "store"}
        /\ loop[t].todo \subseteq Keys /\ loop[t].at \in Tids \cup {NoTid}
    BY <1>1 DEF Loop
  <1>3. loop[t].step # "next" => loop[t].key \in loop[t].todo
    BY DEF TypeOK
  <1> QED
    BY <1>1, <1>2, <1>3 DEF Keys

LEMMA GetOuterMoves ==
    ASSUME TypeOK, NEW t \in Tids, NEW k \in Keys, GetOuter(t, k)
    PROVE  \E l : /\ Moves(t, l) /\ l.todo = loop[t].todo /\ l.key = k /\ l.at = innerMap[k[1]]
                  /\ l.step = IF innerMap[k[1]] = NoTid THEN "set" ELSE "get"
  <1> DEFINE l == [loop[t] EXCEPT !.key = k, !.at = innerMap[k[1]],
                    !.step = IF innerMap[k[1]] = NoTid THEN "set" ELSE "get"]
  <1>1. loop[t] \in Loop /\ k[1] \in Addresses /\ innerMap[k[1]] \in Tids \cup {NoTid}
    BY DEF TypeOK, Keys
  <1>2. /\ l \in Loop /\ l.todo = loop[t].todo /\ l.key = k /\ l.at = innerMap[k[1]]
        /\ l.step = IF innerMap[k[1]] = NoTid THEN "set" ELSE "get"
    BY <1>1 DEF Loop
  <1>3. loop' = [loop EXCEPT ![t] = l]
    BY DEF GetOuter
  <1> HIDE DEF l
  <1> QED
    BY <1>2, <1>3, MovesTo

\* The two ways in which a task is done with a key.
LEMMA WaitingType ==
    ASSUME NEW set \in SUBSET Keys
    PROVE  /\ Waiting(set) \in Loop
           /\ Waiting(set).todo = set /\ Waiting(set).step = "next"
  BY DEF Waiting, Loop

LEMMA GetInnerMoves ==
    ASSUME TypeOK, NEW t \in Tids, GetInner(t), NEW k, k = loop[t].key,
           NEW found, found = maps[<<k[1], loop[t].at>>][k[2]]
    PROVE  \/ Loses(t, found) /\ Moves(t, Waiting(loop[t].todo \ {k}))
           \/ ~Loses(t, found) /\ \E l : /\ Moves(t, l) /\ l.todo = loop[t].todo
                                         /\ l.key = k /\ l.at = loop[t].at /\ l.step = "set"
  <1>1. loop[t] \in Loop /\ loop[t].todo \subseteq Keys
    BY KeyAtHand
  <1>2. CASE Loses(t, found)
    <2>1. loop' = [loop EXCEPT ![t] = Waiting(loop[t].todo \ {k})]
      BY <1>2 DEF GetInner
    <2>2. Waiting(loop[t].todo \ {k}) \in Loop
      BY <1>1, WaitingType
    <2> QED
      BY <1>2, <2>1, <2>2, MovesTo
  <1>3. CASE ~Loses(t, found)
    <2> DEFINE l == [loop[t] EXCEPT !.step = "set"]
    <2>1. loop' = [loop EXCEPT ![t] = l]
      BY <1>3 DEF GetInner
    <2>2. /\ l \in Loop /\ l.todo = loop[t].todo /\ l.key = k /\ l.at = loop[t].at
          /\ l.step = "set"
      BY <1>1 DEF Loop
    <2> HIDE DEF l
    <2> QED
      BY <1>3, <2>1, <2>2, MovesTo
  <1> QED
    BY <1>2, <1>3

LEMMA SetOuterMoves ==
    ASSUME TypeOK, NEW t \in Tids, SetOuter(t), NEW a, a = loop[t].key[1]
    PROVE  \E l : /\ Moves(t, l) /\ l.todo = loop[t].todo /\ l.key = loop[t].key
                  /\ l.at = IF innerMap[a] = NoTid THEN t ELSE innerMap[a]
                  /\ l.step = IF innerMap[a] = NoTid THEN "publish" ELSE "store"
  <1> DEFINE l == [loop[t] EXCEPT !.at = IF innerMap[a] = NoTid THEN t ELSE innerMap[a],
                    !.step = IF innerMap[a] = NoTid THEN "publish" ELSE "store"]
  <1>1. loop[t] \in Loop /\ a \in Addresses /\ innerMap[a] \in Tids \cup {NoTid}
    BY KeyAtHand DEF SetOuter, TypeOK
  <1>2. /\ l \in Loop /\ l.todo = loop[t].todo /\ l.key = loop[t].key
        /\ l.at = IF innerMap[a] = NoTid THEN t ELSE innerMap[a]
        /\ l.step = IF innerMap[a] = NoTid THEN "publish" ELSE "store"
    BY <1>1 DEF Loop
  <1>3. loop' = [loop EXCEPT ![t] = l]
    BY DEF SetOuter
  <1> HIDE DEF l
  <1> QED
    BY <1>2, <1>3, MovesTo

LEMMA PublishMoves ==
    ASSUME TypeOK, NEW t \in Tids, Publish(t)
    PROVE  \E l : /\ Moves(t, l) /\ l.todo = loop[t].todo /\ l.key = loop[t].key
                  /\ l.at = loop[t].at /\ l.step = "store"
  <1> DEFINE l == [loop[t] EXCEPT !.step = "store"]
  <1>1. loop[t] \in Loop
    BY KeyAtHand
  <1>2. /\ l \in Loop /\ l.todo = loop[t].todo /\ l.key = loop[t].key
        /\ l.at = loop[t].at /\ l.step = "store"
    BY <1>1 DEF Loop
  <1>3. loop' = [loop EXCEPT ![t] = l]
    BY DEF Publish
  <1> HIDE DEF l
  <1> QED
    BY <1>2, <1>3, MovesTo

LEMMA StoreMoves ==
    ASSUME TypeOK, NEW t \in Tids, Store(t), NEW k, k = loop[t].key
    PROVE  /\ Moves(t, Waiting(loop[t].todo \ {k}))
           /\ k \in loop[t].todo /\ k[1] \in Addresses /\ k[2] \in Slots /\ k = <<k[1], k[2]>>
  <1>1. loop[t].step = "store"
    BY DEF Store
  <1>2. /\ loop[t].todo \subseteq Keys /\ k \in loop[t].todo
        /\ k[1] \in Addresses /\ k[2] \in Slots /\ k = <<k[1], k[2]>>
    BY <1>1, KeyAtHand DEF Keys
  <1>3. loop' = [loop EXCEPT ![t] = Waiting(loop[t].todo \ {k})]
    BY DEF Store
  <1>4. Waiting(loop[t].todo \ {k}) \in Loop
    BY <1>2, WaitingType
  <1> QED
    BY <1>2, <1>3, <1>4, MovesTo

LEMMA BeginMoves ==
    ASSUME TypeOK, NEW t \in Tids, NEW set \in SUBSET Keys, Begin(t, set)
    PROVE  Moves(t, Waiting(set)) /\ loop[t].todo = {}
  BY WaitingType, MovesTo DEF Begin

\* The one entry of the inner maps that a reservation changes.
Stores(t, k, at) ==
    \A a \in Addresses, c \in Tids, s \in Slots :
        /\ a = k[1] /\ c = at /\ s = k[2] => maps'[<<a, c>>][s] = t
        /\ ~(a = k[1] /\ c = at /\ s = k[2]) => maps'[<<a, c>>][s] = maps[<<a, c>>][s]

LEMMA StoreMaps ==
    ASSUME TypeOK, NEW t \in Tids, Store(t), NEW k, k = loop[t].key
    PROVE  /\ maps' \in [Addresses \X Tids -> [Slots -> Tids \cup {NoTid}]]
           /\ Stores(t, k, loop[t].at)
  <1>1. /\ maps' = [maps EXCEPT ![<<k[1], loop[t].at>>][k[2]] = t]
        /\ maps \in [Addresses \X Tids -> [Slots -> Tids \cup {NoTid}]]
    BY DEF Store, TypeOK
  <1>2. k[1] \in Addresses /\ k[2] \in Slots
    BY StoreMoves
  <1> QED
    BY <1>1, <1>2 DEF Stores

(***************************************************************************)
(* What a step of Reserve keeps, however many tasks are in it.             *)
(***************************************************************************)

LEMMA RacedForKeys ==
    ASSUME NEW t \in Tids, NEW k \in Keys
    PROVE  RacedFor(t, k) \subseteq Keys
  BY DEF RacedFor, Keys

\* A race that there has been is not forgotten.
LEMMA StepRaces ==
    ASSUME TypeOK, NEW t \in Tids, Step(t)
    PROVE  raced \subseteq raced' /\ raced' \subseteq Keys
  <1>1. raced \subseteq Keys
    BY DEF TypeOK
  <1>2. ASSUME NEW k \in Keys, GetOuter(t, k)
        PROVE  raced \subseteq raced' /\ raced' \subseteq Keys
    BY <1>1, <1>2, RacedForKeys DEF GetOuter
  <1> QED
    BY <1>1, <1>2 DEF Step, GetInner, SetOuter, Publish, Store

\* The type invariant: the key at hand is one of those to do.
LEMMA StepType ==
    ASSUME TypeOK, NEW t \in Tids, Step(t)
    PROVE  TypeOK'
  <1>1. /\ innerMap \in [Addresses -> Tids \cup {NoTid}]
        /\ maps \in [Addresses \X Tids -> [Slots -> Tids \cup {NoTid}]]
        /\ \A u \in Tids : loop[u].step # "next" => loop[u].key \in loop[u].todo
    BY DEF TypeOK
  <1>2. ASSUME NEW l, Moves(t, l), l.step # "next" => l.key \in l.todo,
               innerMap' \in [Addresses -> Tids \cup {NoTid}],
               maps' \in [Addresses \X Tids -> [Slots -> Tids \cup {NoTid}]]
        PROVE  TypeOK'
    BY <1>1, <1>2, StepRaces DEF Moves, TypeOK
  <1>3. ASSUME NEW k \in Keys, GetOuter(t, k)
        PROVE  TypeOK'
    <2>1. k \in loop[t].todo /\ innerMap' = innerMap /\ maps' = maps
      BY <1>3 DEF GetOuter
    <2>2. PICK l : Moves(t, l) /\ l.todo = loop[t].todo /\ l.key = k
      BY <1>3, GetOuterMoves
    <2> QED
      BY <1>1, <1>2, <2>1, <2>2
  <1>4. CASE GetInner(t)
    <2>1. loop[t].key \in loop[t].todo
      BY <1>1, <1>4 DEF GetInner
    <2>2. loop[t].todo \ {loop[t].key} \in SUBSET Keys
      BY KeyAtHand
    <2>3. innerMap' = innerMap /\ maps' = maps
      BY <1>4 DEF GetInner
    <2>4. \/ Moves(t, Waiting(loop[t].todo \ {loop[t].key}))
          \/ \E l : Moves(t, l) /\ l.todo = loop[t].todo /\ l.key = loop[t].key
      <3>1. PICK k, found : k = loop[t].key /\ found = maps[<<k[1], loop[t].at>>][k[2]]
        OBVIOUS
      <3> QED
        BY <1>4, <3>1, GetInnerMoves
    <2>5. CASE Moves(t, Waiting(loop[t].todo \ {loop[t].key}))
      BY <1>1, <1>2, <2>2, <2>3, <2>5, WaitingType
    <2>6. ASSUME NEW l, Moves(t, l), l.todo = loop[t].todo, l.key = loop[t].key
          PROVE  TypeOK'
      BY <1>1, <1>2, <2>1, <2>3, <2>6
    <2> QED
      BY <2>4, <2>5, <2>6
  <1>5. CASE SetOuter(t)
    <2>1. loop[t].key \in loop[t].todo
      BY <1>1, <1>5 DEF SetOuter
    <2> QED
      BY <1>1, <1>2, <1>5, <2>1, SetOuterMoves DEF SetOuter
  <1>6. CASE Publish(t)
    <2>1. loop[t].key \in loop[t].todo
      BY <1>1, <1>6 DEF Publish
    <2>2. innerMap' \in [Addresses -> Tids \cup {NoTid}] /\ maps' = maps
      BY <1>1, <1>6 DEF Publish
    <2> QED
      BY <1>1, <1>2, <1>6, <2>1, <2>2, PublishMoves
  <1>7. CASE Store(t)
    <2>1. loop[t].todo \ {loop[t].key} \in SUBSET Keys
      BY KeyAtHand
    <2>2. Moves(t, Waiting(loop[t].todo \ {loop[t].key})) /\ innerMap' = innerMap
      BY <1>7, StoreMoves DEF Store
    <2>3. maps' \in [Addresses \X Tids -> [Slots -> Tids \cup {NoTid}]]
      BY <1>7, StoreMaps
    <2> QED
      BY <1>1, <1>2, <2>1, <2>2, <2>3, WaitingType
  <1> QED
    BY <1>3, <1>4, <1>5, <1>6, <1>7 DEF Step

\* No reservation is made up, and none is left to do that was not asked for.
LEMMA StepHonest ==
    ASSUME TypeOK, NEW sets, Honest(sets), NEW t \in Tids, Step(t)
    PROVE  Honest(sets)'
  <1>1. /\ \A u \in Tids : loop[u].todo \subseteq sets[u]
        /\ \A a \in Addresses, c \in Tids, s \in Slots :
            maps[<<a, c>>][s] # NoTid => <<a, s>> \in sets[maps[<<a, c>>][s]]
    BY DEF Honest
  <1>2. ASSUME NEW l, Moves(t, l), l.todo \subseteq loop[t].todo, maps' = maps
        PROVE  Honest(sets)'
    BY <1>1, <1>2 DEF Moves, Honest
  <1>3. ASSUME NEW k \in Keys, GetOuter(t, k)
        PROVE  Honest(sets)'
    BY <1>2, <1>3, GetOuterMoves DEF GetOuter
  <1>4. loop[t].todo \ {loop[t].key} \in SUBSET Keys
    BY KeyAtHand
  <1>5. CASE GetInner(t)
    BY <1>2, <1>4, <1>5, GetInnerMoves, WaitingType DEF GetInner
  <1>6. CASE SetOuter(t)
    BY <1>2, <1>6, SetOuterMoves DEF SetOuter
  <1>7. CASE Publish(t)
    BY <1>2, <1>7, PublishMoves DEF Publish
  <1>8. CASE Store(t)
    <2>1. PICK k : k = loop[t].key
      OBVIOUS
    <2>2. /\ Moves(t, Waiting(loop[t].todo \ {k}))
          /\ k \in loop[t].todo /\ k = <<k[1], k[2]>>
      BY <1>8, <2>1, StoreMoves
    <2>3. Stores(t, k, loop[t].at)
      BY <1>8, <2>1, StoreMaps
    <2>4. Waiting(loop[t].todo \ {k}).todo = loop[t].todo \ {k}
      BY <1>4, <2>1, WaitingType
    <2>5. \A u \in Tids : loop'[u].todo \subseteq sets[u]
      BY <1>1, <2>2, <2>4 DEF Moves
    <2>6. <<k[1], k[2]>> \in sets[t]
      BY <1>1, <2>2
    <2>7. ASSUME NEW a \in Addresses, NEW c \in Tids, NEW s \in Slots,
                 maps'[<<a, c>>][s] # NoTid
          PROVE  <<a, s>> \in sets[maps'[<<a, c>>][s]]
      <3>1. CASE a = k[1] /\ c = loop[t].at /\ s = k[2]
        <4>1. maps'[<<a, c>>][s] = t
          BY <2>3, <3>1 DEF Stores
        <4> QED
          BY <2>6, <3>1, <4>1
      <3>2. CASE ~(a = k[1] /\ c = loop[t].at /\ s = k[2])
        <4>1. maps'[<<a, c>>][s] = maps[<<a, c>>][s]
          BY <2>3, <3>2 DEF Stores
        <4> QED
          BY <1>1, <2>7, <4>1
      <3> QED
        BY <3>1, <3>2
    <2> QED
      BY <2>5, <2>7 DEF Honest
  <1> QED
    BY <1>3, <1>5, <1>6, <1>7, <1>8 DEF Step

LEMMA BeginType ==
    ASSUME TypeOK, NEW t \in Tids, NEW set \in SUBSET Keys, Begin(t, set)
    PROVE  TypeOK'
  <1>1. Moves(t, Waiting(set)) /\ Waiting(set).step = "next"
    BY BeginMoves, WaitingType
  <1>2. innerMap' = innerMap /\ maps' = maps
    BY DEF Begin
  <1>3. raced' = raced /\ raced \subseteq Keys
    BY DEF Begin, TypeOK
  <1> QED
    BY <1>1, <1>2, <1>3 DEF Moves, TypeOK

\* A task asks for keys when it has asked for none.
LEMMA BeginHonest ==
    ASSUME TypeOK, NEW t \in Tids, NEW set \in SUBSET Keys, Begin(t, set),
           NEW sets, Honest(sets), sets[t] = {},
           NEW more, more[t] = set, \A u \in Tids : u # t => more[u] = sets[u]
    PROVE  Honest(more)'
  <1>1. Moves(t, Waiting(set)) /\ Waiting(set).todo = set /\ maps' = maps
    BY BeginMoves, WaitingType DEF Begin
  <1>2. \A u \in Tids : loop'[u].todo \subseteq more[u]
    BY <1>1 DEF Moves, Honest
  <1>3. ASSUME NEW a \in Addresses, NEW c \in Tids, NEW s \in Slots, maps[<<a, c>>][s] # NoTid
        PROVE  <<a, s>> \in more[maps[<<a, c>>][s]]
    <2>1. maps[<<a, c>>][s] \in Tids /\ <<a, s>> \in sets[maps[<<a, c>>][s]]
      BY <1>3 DEF TypeOK, Honest
    <2>2. maps[<<a, c>>][s] # t
      BY <2>1
    <2> QED
      BY <2>1, <2>2
  <1> QED
    BY <1>1, <1>2, <1>3 DEF Honest

\* A key at hand is always one of those to do, whatever the number of workers.
THEOREM ReserveSetType == Spec => []TypeOK
  <1>1. Init => TypeOK
    <2> SUFFICES ASSUME Init
                 PROVE  TypeOK
      OBVIOUS
    <2>1. Waiting({}) \in Loop /\ Waiting({}).step = "next"
      BY WaitingType
    <2> QED
      BY <2>1 DEF Init, TypeOK
  <1>2. TypeOK /\ [Next]_reserveVars => TypeOK'
    <2> SUFFICES ASSUME TypeOK, [Next]_reserveVars
                 PROVE  TypeOK'
      OBVIOUS
    <2>1. CASE Next
      BY <2>1, StepType, BeginType DEF Next
    <2>2. CASE UNCHANGED reserveVars
      BY <2>2 DEF reserveVars, TypeOK
    <2> QED
      BY <2>1, <2>2
  <1> QED
    BY <1>1, <1>2, PTL DEF Spec

(***************************************************************************)
(* Where no race has been.                                                 *)
(***************************************************************************)

\* What get finds through the inner map in hand is what the table shows.
LEMMA FreshIsReserved ==
    ASSUME TypeOK, NEW t \in Tids, Fresh(t), loop[t].step \in {"get", "store"},
           NEW k, k = loop[t].key, Calm(k[1])
    PROVE  Reserved(k) = maps[<<k[1], loop[t].at>>][k[2]]
  BY DEF Fresh, Reserved, Inside

\* A key over which no race has been is one of a calm address.
LEMMA CalmKey ==
    ASSUME NEW k \in Keys, k \notin raced
    PROVE  Calm(k[1])
  BY DEF Keys, Calm

LEMMA CalmBefore ==
    ASSUME TypeOK, NEW t \in Tids, Step(t), NEW a, Calm(a)'
    PROVE  Calm(a)
  BY StepRaces DEF Calm

\* A step of Reserve leaves the keys as they are reserved, or makes one
\* reservation whole: the task gets the key unless a lower one has it.
Unnoticed(t) ==
    /\ \A k \in Keys \ raced' : Reserved(k)' = Reserved(k)
    /\ loop'[t].todo = loop[t].todo
Reserves(t, k) ==
    /\ k \in loop[t].todo /\ loop'[t].todo = loop[t].todo \ {k} /\ raced' = raced
    /\ k \notin raced =>
        Reserved(k)' = IF Reserved(k) = NoTid \/ t < Reserved(k) THEN t ELSE Reserved(k)
    /\ \A other \in Keys \ raced : other # k => Reserved(other)' = Reserved(other)

\* What one step does: it keeps the invariant, and is one of those two.
Implements(t) ==
    /\ CalmInv'
    /\ Unnoticed(t) \/ \E k \in Keys : Reserves(t, k)

\* Of the other tasks nothing changes: what they have found holds still, for
\* they are at other keys.
LEMMA OthersFresh ==
    ASSUME CalmInv, NEW t \in Tids, Step(t), NEW u \in Tids, u # t, loop'[u] = loop[u],
           Inside(u) /\ Calm(loop[u].key[1])' => innerMap'[loop[u].key[1]] = innerMap[loop[u].key[1]],
           Inside(u) /\ loop[u].key \notin raced' => Reserved(loop[u].key)' = Reserved(loop[u].key)
    PROVE  Fresh(u)'
  <1>1. Fresh(u) /\ TypeOK /\ raced \subseteq raced'
    BY StepRaces DEF CalmInv
  <1>2. CASE ~Inside(u)
    <2>1. loop'[u].step = "next"
      BY <1>2 DEF Inside
    <2> QED
      BY <2>1 DEF Fresh, Inside
  <1>3. CASE Inside(u)
    <2>1. PICK k : k = loop[u].key
      OBVIOUS
    <2>2. Calm(k[1])' => Calm(k[1]) /\ innerMap'[k[1]] = innerMap[k[1]]
      BY <1>1, <1>3, <2>1, CalmBefore
    <2>3. k \notin raced' => k \notin raced /\ Reserved(k)' = Reserved(k)
      BY <1>1, <1>3, <2>1
    <2>4. /\ Calm(k[1]) =>
                /\ loop[u].step \in {"get", "store"} => loop[u].at = innerMap[k[1]] /\ innerMap[k[1]] # NoTid
                /\ loop[u].step = "publish" => loop[u].at = u /\ innerMap[k[1]] = NoTid
          /\ loop[u].step \in {"set", "publish", "store"} /\ k \notin raced => ~Loses(u, Reserved(k))
      BY <1>1, <1>3, <2>1 DEF Fresh
    <2>5. k \notin raced' /\ loop[u].step \in {"set", "publish", "store"} => ~Loses(u, Reserved(k)')
      BY <2>3, <2>4
    <2> QED
      BY <2>1, <2>2, <2>4, <2>5 DEF Fresh
  <1> QED
    BY <1>2, <1>3

\* Tasks that were apart stay apart in the steps that come to no new key.
LEMMA StayApart ==
    ASSUME CalmInv, NEW t \in Tids, raced' = raced, NEW l, Moves(t, l),
           l.step # "next" => Inside(t) /\ l.key = loop[t].key,
           \A a \in Addresses : innerMap'[a] = innerMap[a] \/ innerMap'[a] # NoTid
    PROVE  Apart'
  <1>1. ASSUME NEW u \in Tids, Inside(u)'
        PROVE  Inside(u) /\ loop'[u].key = loop[u].key /\ loop[u].key[1] \in Addresses
    <2>1. Inside(u) /\ loop'[u].key = loop[u].key
      BY <1>1 DEF Moves, Inside
    <2>2. loop[u].key[1] \in Addresses
      BY <2>1, KeyAtHand DEF CalmInv, Inside
    <2> QED
      BY <2>1, <2>2
  <1>2. SUFFICES ASSUME NEW u \in Tids, NEW v \in Tids, u # v, Inside(u)', Inside(v)',
                        loop'[v].key[1] = loop'[u].key[1], Calm(loop[u].key[1])'
                 PROVE  /\ innerMap'[loop'[u].key[1]] # NoTid
                        /\ loop'[v].key = loop'[u].key => loop'[u].key \in raced'
    BY DEF Apart
  <1>3. PICK k : k = loop[u].key
    OBVIOUS
  <1>4. /\ Inside(u) /\ Inside(v) /\ loop'[u].key = k /\ loop'[v].key = loop[v].key
        /\ k[1] \in Addresses /\ loop[v].key[1] = k[1] /\ Calm(k[1])
    BY <1>1, <1>2, <1>3 DEF Calm
  <1>5. innerMap[k[1]] # NoTid /\ (loop[v].key = k => k \in raced)
    BY <1>2, <1>3, <1>4 DEF CalmInv, Apart
  <1> QED
    BY <1>4, <1>5

\* A task that comes to a key is apart from the others, or that is a race.
LEMMA ComesApart ==
    ASSUME CalmInv, NEW t \in Tids, NEW k \in Keys, GetOuter(t, k), NEW l, Moves(t, l), l.key = k
    PROVE  Apart'
  <1>1. /\ innerMap' = innerMap /\ raced' = raced \cup RacedFor(t, k)
        /\ k[1] \in Addresses /\ k[2] \in Slots
    BY DEF GetOuter, Keys
  \* The task against another.
  <1>2. ASSUME NEW u \in Tids, u # t, Inside(u), loop[u].key[1] = k[1], Calm(k[1])'
        PROVE  innerMap[k[1]] # NoTid /\ (loop[u].key = k => k \in raced')
    <2>1. u \in RacesWith(t, k)
      BY <1>2 DEF RacesWith
    <2>2. CASE innerMap[k[1]] = NoTid
      <3>1. RacedFor(t, k) = {k[1]} \X Slots
        BY <2>1, <2>2 DEF RacedFor
      <3>2. \A s \in Slots : <<k[1], s>> \in raced'
        BY <1>1, <3>1
      <3> QED
        BY <1>2, <3>2 DEF Calm
    <2>3. CASE innerMap[k[1]] # NoTid
      <3>1. RacedFor(t, k) = {loop[v].key : v \in RacesWith(t, k)} \cap {k}
        BY <2>3 DEF RacedFor
      <3> QED
        BY <1>1, <2>1, <2>3, <3>1
    <2> QED
      BY <2>2, <2>3
  <1>3. SUFFICES ASSUME NEW u \in Tids, NEW v \in Tids, u # v, Inside(u)', Inside(v)',
                        loop'[v].key[1] = loop'[u].key[1], Calm(loop[u].key[1])'
                 PROVE  /\ innerMap'[loop'[u].key[1]] # NoTid
                        /\ loop'[v].key = loop'[u].key => loop'[u].key \in raced'
    BY DEF Apart
  <1>4. loop'[t].key = k /\ \A w \in Tids : w # t => loop'[w] = loop[w]
    BY DEF Moves
  <1>5. CASE u = t
    <2>1. Inside(v) /\ loop'[v] = loop[v] /\ loop'[u].key = k
      BY <1>3, <1>4, <1>5 DEF Inside
    <2>2. v # t /\ loop[v].key[1] = k[1] /\ Calm(k[1])'
      BY <1>3, <1>5, <2>1 DEF Calm
    <2> QED
      BY <1>1, <1>2, <2>1, <2>2
  <1>6. CASE v = t
    <2>1. Inside(u) /\ loop'[u] = loop[u] /\ loop'[v].key = k
      BY <1>3, <1>4, <1>6 DEF Inside
    <2>2. u # t /\ loop[u].key[1] = k[1] /\ Calm(k[1])'
      BY <1>3, <1>6, <2>1 DEF Calm
    <2> QED
      BY <1>1, <1>2, <2>1, <2>2
  <1>7. CASE u # t /\ v # t
    <2>1. Inside(u) /\ loop'[u] = loop[u] /\ Inside(v) /\ loop'[v] = loop[v]
      BY <1>3, <1>4, <1>7 DEF Inside
    <2>2. PICK j : j = loop[u].key
      OBVIOUS
    <2>3. Calm(j[1]) /\ loop[v].key[1] = j[1]
      BY <1>1, <1>3, <2>1, <2>2 DEF Calm
    <2>4. innerMap[j[1]] # NoTid /\ (loop[v].key = j => j \in raced)
      BY <1>3, <2>1, <2>2, <2>3 DEF CalmInv, Apart
    <2> QED
      BY <1>1, <2>1, <2>2, <2>4
  <1> QED
    BY <1>5, <1>6, <1>7

\* What is left to show of a step, when it shows nothing of the inner maps.
LEMMA QuietMove ==
    ASSUME CalmInv, NEW t \in Tids, Step(t), NEW l, Moves(t, l), Fresh(t)', Apart',
           innerMap' = innerMap, maps' = maps
    PROVE  CalmInv' /\ \A k \in Keys : Reserved(k)' = Reserved(k)
  <1>1. TypeOK' /\ raced \subseteq raced'
    BY StepType, StepRaces DEF CalmInv
  <1>2. \A k : Reserved(k)' = Reserved(k)
    BY DEF Reserved
  <1>3. ASSUME NEW u \in Tids
        PROVE  Fresh(u)'
    <2>1. u # t => loop'[u] = loop[u]
      BY DEF Moves
    <2> QED
      BY <1>2, <2>1, OthersFresh
  <1>4. NothingHidden'
    BY <1>1 DEF CalmInv, NothingHidden
  <1> QED
    BY <1>1, <1>2, <1>3, <1>4 DEF CalmInv

LEMMA GetOuterSound ==
    ASSUME CalmInv, NEW t \in Tids, NEW k \in Keys, GetOuter(t, k)
    PROVE  Implements(t)
  <1>1. TypeOK /\ Step(t) /\ innerMap' = innerMap /\ maps' = maps
    BY DEF CalmInv, Step, GetOuter
  <1>2. PICK l : /\ Moves(t, l) /\ l.todo = loop[t].todo /\ l.key = k /\ l.at = innerMap[k[1]]
                 /\ l.step = IF innerMap[k[1]] = NoTid THEN "set" ELSE "get"
    BY <1>1, GetOuterMoves
  <1>3. Apart'
    BY <1>2, ComesApart
  <1>4. Fresh(t)'
    <2>1. loop'[t] = l
      BY <1>2 DEF Moves
    <2>2. CASE innerMap[k[1]] = NoTid
      <3>1. Reserved(k)' = NoTid
        BY <1>1, <2>2 DEF Reserved
      <3>2. ~Loses(t, Reserved(k))'
        BY <3>1 DEF Loses
      <3> QED
        BY <1>2, <2>1, <2>2, <3>2 DEF Fresh
    <2>3. CASE innerMap[k[1]] # NoTid
      BY <1>1, <1>2, <2>1, <2>3 DEF Fresh
    <2> QED
      BY <2>2, <2>3
  <1>5. CalmInv' /\ \A j \in Keys : Reserved(j)' = Reserved(j)
    BY <1>1, <1>2, <1>3, <1>4, QuietMove
  <1> QED
    BY <1>2, <1>5 DEF Implements, Unnoticed, Moves

LEMMA GetInnerSound ==
    ASSUME CalmInv, NEW t \in Tids, GetInner(t)
    PROVE  Implements(t)
  <1>1. TypeOK /\ Step(t) /\ innerMap' = innerMap /\ maps' = maps /\ raced' = raced /\ Inside(t)
    BY DEF CalmInv, Step, GetInner, Inside
  <1>2. PICK k : k = loop[t].key
    OBVIOUS
  <1>3. PICK found : found = maps[<<k[1], loop[t].at>>][k[2]]
    OBVIOUS
  <1>4. k \in loop[t].todo /\ k \in Keys
    BY <1>1, <1>2, KeyAtHand DEF GetInner
  <1>5. k \notin raced => Reserved(k) = found
    BY <1>1, <1>2, <1>3, <1>4, CalmKey, FreshIsReserved DEF CalmInv, GetInner
  <1>6. CASE Loses(t, found) /\ Moves(t, Waiting(loop[t].todo \ {k}))
    <2>1. loop[t].todo \ {k} \in SUBSET Keys
      BY <1>1, KeyAtHand
    <2>2. /\ loop'[t].todo = loop[t].todo \ {k} /\ loop'[t].step = "next"
          /\ Waiting(loop[t].todo \ {k}).step = "next"
      BY <1>6, <2>1, WaitingType DEF Moves
    <2>3. Fresh(t)'
      BY <2>2 DEF Fresh, Inside
    <2>4. Apart'
      BY <1>1, <1>6, <2>2, StayApart
    <2>5. CalmInv' /\ \A j \in Keys : Reserved(j)' = Reserved(j)
      BY <1>1, <1>6, <2>3, <2>4, QuietMove
    <2>6. Reserves(t, k)
      BY <1>1, <1>4, <1>5, <1>6, <2>2, <2>5 DEF Reserves, Loses
    <2> QED
      BY <1>4, <2>5, <2>6 DEF Implements
  <1>7. ASSUME ~Loses(t, found), NEW l, Moves(t, l), l.todo = loop[t].todo,
               l.key = k, l.step = "set"
        PROVE  Implements(t)
    <2>1. Reserved(k)' = Reserved(k)
      BY <1>1 DEF Reserved
    <2>2. k \notin raced' => ~Loses(t, Reserved(k)')
      BY <1>1, <1>5, <1>7, <2>1
    <2>3. Fresh(t)'
      BY <1>7, <2>2 DEF Fresh, Moves
    <2>4. Apart'
      BY <1>1, <1>2, <1>7, StayApart
    <2>5. CalmInv' /\ \A j \in Keys : Reserved(j)' = Reserved(j)
      BY <1>1, <1>7, <2>3, <2>4, QuietMove
    <2> QED
      BY <1>7, <2>5 DEF Implements, Unnoticed, Moves
  <1> QED
    BY <1>1, <1>2, <1>3, <1>6, <1>7, GetInnerMoves

LEMMA SetOuterSound ==
    ASSUME CalmInv, NEW t \in Tids, SetOuter(t)
    PROVE  Implements(t)
  <1>1. TypeOK /\ Step(t) /\ innerMap' = innerMap /\ maps' = maps /\ raced' = raced /\ Inside(t)
    BY DEF CalmInv, Step, SetOuter, Inside
  <1>2. PICK k : k = loop[t].key
    OBVIOUS
  <1>3. PICK l : /\ Moves(t, l) /\ l.todo = loop[t].todo /\ l.key = k
                 /\ l.at = IF innerMap[k[1]] = NoTid THEN t ELSE innerMap[k[1]]
                 /\ l.step = IF innerMap[k[1]] = NoTid THEN "publish" ELSE "store"
    BY <1>1, <1>2, SetOuterMoves
  <1>4. Reserved(k)' = Reserved(k)
    BY <1>1 DEF Reserved
  <1>5. k \notin raced' => ~Loses(t, Reserved(k)')
    BY <1>1, <1>2, <1>4 DEF CalmInv, Fresh, SetOuter
  <1>6. Fresh(t)'
    BY <1>1, <1>3, <1>5 DEF Fresh, Moves
  <1>7. Apart'
    BY <1>1, <1>2, <1>3, StayApart
  <1>8. CalmInv' /\ \A j \in Keys : Reserved(j)' = Reserved(j)
    BY <1>1, <1>3, <1>6, <1>7, QuietMove
  <1> QED
    BY <1>3, <1>8 DEF Implements, Unnoticed, Moves

\* Who publishes an inner map for a calm address has it for himself.
LEMMA PublishSound ==
    ASSUME CalmInv, NEW t \in Tids, Publish(t)
    PROVE  Implements(t)
  <1>1. /\ TypeOK /\ Step(t) /\ maps' = maps /\ raced' = raced /\ Inside(t)
        /\ loop[t].step = "publish" /\ Fresh(t) /\ Apart /\ NothingHidden
    BY DEF CalmInv, Step, Publish, Inside
  <1>2. PICK k : k = loop[t].key
    OBVIOUS
  <1>3. PICK l : /\ Moves(t, l) /\ l.todo = loop[t].todo /\ l.key = k
                 /\ l.at = loop[t].at /\ l.step = "store"
    BY <1>1, <1>2, PublishMoves
  <1>4. k[1] \in Addresses /\ k \in Keys /\ t # NoTid
    BY <1>1, <1>2, KeyAtHand, ReserveSetAssumption
  <1>5. Calm(k[1]) => loop[t].at = t /\ innerMap[k[1]] = NoTid
    BY <1>1, <1>2 DEF Fresh
  <1>6. /\ innerMap \in [Addresses -> Tids \cup {NoTid}]
        /\ innerMap' = [innerMap EXCEPT ![k[1]] = t]
    BY <1>1, <1>2 DEF Publish, TypeOK
  <1>7. \A a \in Addresses : innerMap'[a] = IF a = k[1] THEN t ELSE innerMap[a]
    BY <1>4, <1>6
  <1>8. ASSUME NEW other \in Keys, other \notin raced
        PROVE  Reserved(other)' = Reserved(other)
    <2>1. other[1] \in Addresses /\ other[2] \in Slots /\ Calm(other[1])
      BY <1>8, CalmKey DEF Keys
    <2>2. CASE other[1] = k[1]
      <3>1. innerMap[k[1]] = NoTid
        BY <1>5, <2>1, <2>2
      <3>2. Reserved(other)' = maps[<<k[1], t>>][other[2]] /\ Reserved(other) = NoTid
        BY <1>1, <1>4, <1>7, <2>2, <3>1 DEF Reserved
      <3>3. maps[<<other[1], t>>][other[2]] = NoTid
        BY <1>1, <1>4, <1>8, <2>2, <3>1 DEF NothingHidden
      <3> QED
        BY <2>2, <3>2, <3>3
    <2>3. CASE other[1] # k[1]
      BY <1>1, <1>7, <2>1, <2>3 DEF Reserved
    <2> QED
      BY <2>2, <2>3
  <1>9. NothingHidden'
    <2> SUFFICES ASSUME NEW j \in Keys, j \notin raced, NEW c \in Tids, innerMap'[j[1]] # c
                 PROVE  maps[<<j[1], c>>][j[2]] = NoTid
      BY <1>1 DEF NothingHidden
    <2>1. Calm(j[1]) /\ j[1] \in Addresses
      BY CalmKey DEF Keys
    <2>2. innerMap[j[1]] # c
      BY <1>5, <1>7, <2>1, ReserveSetAssumption
    <2> QED
      BY <1>1, <2>2 DEF NothingHidden
  <1>10. Fresh(t)'
    <2>1. k \notin raced => ~Loses(t, Reserved(k)')
      BY <1>1, <1>2, <1>4, <1>8 DEF Fresh
    <2>2. Calm(k[1])' => Calm(k[1])
      BY <1>1 DEF Calm
    <2> QED
      BY <1>1, <1>3, <1>4, <1>5, <1>7, <2>1, <2>2 DEF Fresh, Moves
  <1>11. ASSUME NEW u \in Tids, u # t
         PROVE  Fresh(u)'
    <2>1. loop'[u] = loop[u]
      BY <1>3, <1>11 DEF Moves
    <2>2. ASSUME Inside(u)
          PROVE  loop[u].key \in Keys /\ loop[u].key[1] \in Addresses
      BY <1>1, <2>2, KeyAtHand DEF Inside
    <2>3. ASSUME Inside(u), Calm(loop[u].key[1])'
          PROVE  innerMap'[loop[u].key[1]] = innerMap[loop[u].key[1]]
      <3>1. PICK a : a = loop[u].key[1]
        OBVIOUS
      <3>2. Calm(a) /\ a \in Addresses
        BY <1>1, <2>1, <2>2, <2>3, <3>1 DEF Calm
      <3>3. a # k[1]
        <4>1. SUFFICES ASSUME a = k[1]
                       PROVE  FALSE
          OBVIOUS
        <4>2. innerMap[k[1]] # NoTid
          BY <1>1, <1>2, <1>11, <2>3, <3>1, <3>2, <4>1 DEF Apart
        <4> QED
          BY <1>5, <3>2, <4>1, <4>2
      <3> QED
        BY <1>7, <3>1, <3>2, <3>3
    <2>4. Inside(u) /\ loop[u].key \notin raced' => Reserved(loop[u].key)' = Reserved(loop[u].key)
      <3>1. PICK j : j = loop[u].key
        OBVIOUS
      <3>2. Inside(u) /\ j \notin raced => Reserved(j)' = Reserved(j)
        BY <1>8, <2>2, <3>1
      <3> QED
        BY <1>1, <2>1, <3>1, <3>2 DEF Reserved
    <2> QED
      BY <1>1, <1>11, <2>1, <2>3, <2>4, OthersFresh
  <1>12. Apart'
    BY <1>1, <1>2, <1>3, <1>4, <1>7, StayApart
  <1>13. TypeOK'
    BY <1>1, StepType
  <1>14. Unnoticed(t)
    BY <1>1, <1>3, <1>8 DEF Unnoticed, Moves
  <1> QED
    BY <1>9, <1>10, <1>11, <1>12, <1>13, <1>14 DEF Implements, CalmInv

LEMMA StoreSound ==
    ASSUME CalmInv, NEW t \in Tids, Store(t)
    PROVE  Implements(t)
  <1>1. /\ TypeOK /\ Step(t) /\ innerMap' = innerMap /\ raced' = raced /\ Inside(t)
        /\ loop[t].step = "store" /\ Fresh(t) /\ Apart /\ NothingHidden
    BY DEF CalmInv, Step, Store, Inside
  <1>2. PICK k : k = loop[t].key
    OBVIOUS
  <1>3. /\ Moves(t, Waiting(loop[t].todo \ {k}))
        /\ k \in loop[t].todo /\ k[1] \in Addresses /\ k[2] \in Slots /\ k = <<k[1], k[2]>>
    BY <1>1, <1>2, StoreMoves
  <1>4. Stores(t, k, loop[t].at)
    BY <1>1, <1>2, StoreMaps
  <1>5. k \in Keys /\ loop[t].todo \ {k} \in SUBSET Keys /\ loop[t].at \in Tids \cup {NoTid}
    BY <1>1, <1>2, KeyAtHand
  <1>6. /\ loop'[t].todo = loop[t].todo \ {k} /\ loop'[t].step = "next"
        /\ Waiting(loop[t].todo \ {k}).step = "next"
    BY <1>3, <1>5, WaitingType DEF Moves
  <1>7. k \notin raced => /\ loop[t].at = innerMap[k[1]] /\ innerMap[k[1]] # NoTid
                          /\ loop[t].at \in Tids /\ ~Loses(t, Reserved(k))
    BY <1>1, <1>2, <1>5, CalmKey DEF Fresh
  <1>8. k \notin raced => Reserved(k)' = t
    BY <1>1, <1>3, <1>4, <1>7 DEF Reserved, Stores
  <1>9. ASSUME NEW other \in Keys, other # k
        PROVE  Reserved(other)' = Reserved(other)
    <2>1. other[1] \in Addresses /\ other[2] \in Slots /\ other = <<other[1], other[2]>>
      BY DEF Keys
    <2>2. CASE innerMap[other[1]] = NoTid
      BY <1>1, <2>2 DEF Reserved
    <2>3. CASE innerMap[other[1]] # NoTid
      <3>1. innerMap[other[1]] \in Tids
        BY <1>1, <2>1, <2>3 DEF TypeOK
      <3>2. ~(other[1] = k[1] /\ other[2] = k[2])
        BY <1>3, <1>9, <2>1
      <3>3. maps'[<<other[1], innerMap[other[1]]>>][other[2]]
                = maps[<<other[1], innerMap[other[1]]>>][other[2]]
        BY <1>4, <2>1, <3>1, <3>2 DEF Stores
      <3> QED
        BY <1>1, <2>3, <3>3 DEF Reserved
    <2> QED
      BY <2>2, <2>3
  <1>10. Reserves(t, k)
    BY <1>1, <1>3, <1>6, <1>7, <1>8, <1>9 DEF Reserves, Loses
  <1>11. NothingHidden'
    <2> SUFFICES ASSUME NEW j \in Keys, j \notin raced, NEW c \in Tids, innerMap[j[1]] # c
                 PROVE  maps'[<<j[1], c>>][j[2]] = NoTid
      BY <1>1 DEF NothingHidden
    <2>1. j[1] \in Addresses /\ j[2] \in Slots /\ j = <<j[1], j[2]>>
      BY DEF Keys
    <2>2. ~(j[1] = k[1] /\ c = loop[t].at /\ j[2] = k[2])
      BY <1>3, <1>7, <2>1
    <2>3. maps'[<<j[1], c>>][j[2]] = maps[<<j[1], c>>][j[2]]
      BY <1>4, <2>1, <2>2 DEF Stores
    <2> QED
      BY <1>1, <2>3 DEF NothingHidden
  <1>12. Fresh(t)'
    BY <1>6 DEF Fresh, Inside
  <1>13. ASSUME NEW u \in Tids, u # t
         PROVE  Fresh(u)'
    <2>1. loop'[u] = loop[u]
      BY <1>3, <1>13 DEF Moves
    <2>2. PICK j : j = loop[u].key
      OBVIOUS
    <2>3. ASSUME Inside(u), j \notin raced
          PROVE  Reserved(j)' = Reserved(j)
      <3>1. j \in Keys /\ Calm(j[1])
        BY <1>1, <2>2, <2>3, KeyAtHand, CalmKey DEF Inside
      <3>2. j # k
        BY <1>1, <1>2, <1>13, <2>2, <2>3, <3>1 DEF Apart
      <3> QED
        BY <1>9, <3>1, <3>2
    <2>4. Inside(u) /\ loop[u].key \notin raced' => Reserved(loop[u].key)' = Reserved(loop[u].key)
      BY <1>1, <2>1, <2>2, <2>3 DEF Reserved
    <2>5. Inside(u) /\ Calm(loop[u].key[1])' => innerMap'[loop[u].key[1]] = innerMap[loop[u].key[1]]
      BY <1>1
    <2> QED
      BY <1>1, <1>13, <2>1, <2>4, <2>5, OthersFresh
  <1>14. Apart'
    BY <1>1, <1>3, <1>6, StayApart
  <1>15. TypeOK'
    BY <1>1, StepType
  <1> QED
    BY <1>5, <1>10, <1>11, <1>12, <1>13, <1>14, <1>15 DEF Implements, CalmInv

LEMMA StepSound ==
    ASSUME CalmInv, NEW t \in Tids, Step(t)
    PROVE  Implements(t)
  BY GetOuterSound, GetInnerSound, SetOuterSound, PublishSound, StoreSound DEF Step

\* Steps in which nothing is found or reserved: the loops outside and inside
\* Reserve stay where they are, but for one that begins.
LEMMA OutsideSound ==
    ASSUME CalmInv, TypeOK', innerMap' = innerMap, maps' = maps, raced' = raced,
           \A u \in Tids : loop'[u] = loop[u] \/ (loop[u].step = "next" /\ loop'[u].step = "next")
    PROVE  CalmInv' /\ \A k : Reserved(k)' = Reserved(k)
  <1>1. \A k : Reserved(k)' = Reserved(k)
    BY DEF Reserved
  <1>2. \A a : Calm(a)' <=> Calm(a)
    BY DEF Calm
  <1>3. ASSUME NEW u \in Tids
        PROVE  Fresh(u)'
    <2>1. CASE loop'[u].step = "next"
      BY <2>1 DEF Fresh, Inside
    <2>2. CASE loop'[u].step # "next"
      <3>1. loop'[u] = loop[u] /\ Fresh(u)
        BY <2>2 DEF CalmInv
      <3>2. PICK k : k = loop[u].key
        OBVIOUS
      <3>3. Calm(k[1])' <=> Calm(k[1])
        BY <1>2
      <3>4. ~Loses(u, Reserved(k)) => ~Loses(u, Reserved(k)')
        BY <1>1
      <3> QED
        BY <3>1, <3>2, <3>3, <3>4 DEF Fresh, Inside
    <2> QED
      BY <2>1, <2>2
  <1>4. Apart'
    <2> SUFFICES ASSUME NEW u \in Tids, NEW v \in Tids, u # v, Inside(u)', Inside(v)',
                        loop'[v].key[1] = loop'[u].key[1], Calm(loop[u].key[1])'
                 PROVE  /\ innerMap[loop'[u].key[1]] # NoTid
                        /\ loop'[v].key = loop'[u].key => loop'[u].key \in raced
      BY DEF Apart
    <2>1. loop'[u] = loop[u] /\ loop'[v] = loop[v] /\ Inside(u) /\ Inside(v)
      BY DEF Inside
    <2>2. PICK k : k = loop[u].key
      OBVIOUS
    <2>3. Calm(k[1]) /\ loop[v].key[1] = k[1]
      BY <2>1, <2>2 DEF Calm
    <2> QED
      BY <2>1, <2>2, <2>3 DEF CalmInv, Apart
  <1>5. NothingHidden'
    BY DEF CalmInv, NothingHidden
  <1> QED
    BY <1>1, <1>3, <1>4, <1>5 DEF CalmInv

\* A call of Reserve.
LEMMA BeginSound ==
    ASSUME CalmInv, NEW t \in Tids, NEW set \in SUBSET Keys, Begin(t, set)
    PROVE  /\ CalmInv'
           /\ \A k : Reserved(k)' = Reserved(k)
  <1>1. TypeOK /\ innerMap' = innerMap /\ maps' = maps /\ raced' = raced
    BY DEF CalmInv, Begin
  <1>2. TypeOK'
    BY <1>1, BeginType
  <1>3. Moves(t, Waiting(set)) /\ Waiting(set).step = "next" /\ loop[t].todo = {}
    BY <1>1, BeginMoves, WaitingType
  <1>4. loop[t].step = "next" /\ loop'[t].step = "next"
    BY <1>1, <1>3, KeyAtHand DEF Moves
  <1> QED
    BY <1>1, <1>2, <1>3, <1>4, OutsideSound DEF Moves

LEMMA InitSound ==
    ASSUME Init
    PROVE  CalmInv
  <1>1. \A t \in Tids : loop[t] = Waiting({})
    BY DEF Init
  <1>2. Waiting({}) \in Loop /\ Waiting({}).step = "next"
    BY WaitingType
  <1>3. TypeOK
    BY <1>1, <1>2 DEF Init, TypeOK
  <1>4. Apart /\ \A t \in Tids : Fresh(t)
    BY <1>1, <1>2 DEF Apart, Fresh, Inside
  <1>5. NothingHidden
    BY DEF Init, NothingHidden, Keys
  <1> QED
    BY <1>3, <1>4, <1>5 DEF CalmInv

LEMMA StutterSound ==
    ASSUME CalmInv, UNCHANGED reserveVars
    PROVE  CalmInv' /\ \A k : Reserved(k)' = Reserved(k)
  <1>1. innerMap' = innerMap /\ maps' = maps /\ loop' = loop /\ raced' = raced
    BY DEF reserveVars
  <1>2. TypeOK'
    BY <1>1 DEF CalmInv, TypeOK
  <1> QED
    BY <1>1, <1>2, OutsideSound

\* However many tasks are in Reserve, nothing that one has found changes under
\* it before it acts, but for the keys over which they have got into a race: two
\* at one key, or two at an address that has no inner map yet.
THEOREM CalmIsInvariant == Spec => []CalmInv
  <1>1. Init => CalmInv
    BY InitSound
  <1>2. CalmInv /\ [Next]_reserveVars => CalmInv'
    <2>1. ASSUME CalmInv, Next
          PROVE  CalmInv'
      BY <2>1, StepSound, BeginSound DEF Next, Implements
    <2> QED
      BY <2>1, StutterSound
  <1> QED
    BY <1>1, <1>2, PTL DEF Spec

(***************************************************************************)
(* The refinement: Begin is Begin, the step that gives a key up or stores  *)
(* it is Reserve, the one that gets into a race is Contend, and the other  *)
(* steps stutter.                                                          *)
(***************************************************************************)

\* The other tasks want what they wanted.
LEMMA OthersWant ==
    ASSUME TypeOK, NEW t \in Tids, Step(t)
    PROVE  \A u \in Tids : u # t => loop'[u].todo = loop[u].todo
  BY DEF Step, GetOuter, GetInner, SetOuter, Publish, Store, TypeOK

\* Who gets into a race wants a key of an address of which another wants one.
LEMMA RaceIsContend ==
    ASSUME TypeOK, NEW t \in Tids, Step(t), raced' # raced
    PROVE  \E u \in Tids, j \in loop[t].todo, k \in Keys :
                /\ t # u /\ k \in loop[u].todo /\ j[1] = k[1]
                /\ \E lost \in SUBSET {key \in Keys : key[1] = k[1]} : raced' = raced \cup lost
  <1>1. PICK j \in Keys : GetOuter(t, j)
    BY DEF Step, GetInner, SetOuter, Publish, Store
  <1>2. j \in loop[t].todo /\ raced' = raced \cup RacedFor(t, j) /\ j[1] \in Addresses
    BY <1>1 DEF GetOuter, Keys
  <1>3. PICK u : u \in RacesWith(t, j)
    BY <1>2 DEF RacedFor
  <1>4. u \in Tids /\ u # t /\ Inside(u) /\ loop[u].key[1] = j[1]
    BY <1>3 DEF RacesWith
  <1>5. loop[u].key \in loop[u].todo /\ loop[u].key \in Keys
    BY <1>4, KeyAtHand DEF Inside
  <1>6. RacedFor(t, j) \in SUBSET {key \in Keys : key[1] = loop[u].key[1]}
    BY <1>2, <1>4, RacedForKeys DEF RacedFor
  <1> QED
    BY <1>2, <1>4, <1>5, <1>6

THEOREM TableReservesLowest == Spec => ReservesLowest
  <1> DEFINE reserved == [k \in Keys \ raced |-> Reserved(k)]
             wanted == [t \in Tids |-> loop[t].todo]
  <1>1. Init => Table!Init
    <2> SUFFICES ASSUME Init
                 PROVE  Table!Init
      OBVIOUS
    <2>1. raced = {} /\ \A k \in Keys : Reserved(k) = NoTid
      BY DEF Init, Keys, Reserved
    <2>2. \A t \in Tids : loop[t].todo = {}
      BY WaitingType DEF Init
    <2> QED
      BY <2>1, <2>2 DEF Table!Init
  <1>2. ASSUME CalmInv, NEW t \in Tids, Step(t)
        PROVE  Table!Next \/ UNCHANGED <<reserved, wanted>>
    <2>1. Implements(t) /\ TypeOK
      BY <1>2, StepSound DEF CalmInv
    <2>2. \A u \in Tids : u # t => loop'[u].todo = loop[u].todo
      BY <1>2, <2>1, OthersWant
    <2>3. CASE Unnoticed(t) /\ raced' = raced
      BY <2>2, <2>3 DEF Unnoticed
    <2>4. CASE Unnoticed(t) /\ raced' # raced
      <3>1. PICK u \in Tids, j \in loop[t].todo, k \in Keys :
                /\ t # u /\ k \in loop[u].todo /\ j[1] = k[1]
                /\ \E lost \in SUBSET {key \in Keys : key[1] = k[1]} : raced' = raced \cup lost
        BY <1>2, <2>1, <2>4, RaceIsContend
      <3>2. PICK lost \in SUBSET {key \in Keys : key[1] = k[1]} : raced' = raced \cup lost
        BY <3>1
      <3>3. wanted' = wanted
        BY <2>2, <2>4 DEF Unnoticed
      <3>4. reserved' = [key \in DOMAIN reserved \ lost |-> reserved[key]]
        BY <2>4, <3>2 DEF Unnoticed
      <3>5. j \in wanted[t] /\ k \in wanted[u]
        BY <3>1
      <3>6. Table!Contend(t, u)
        BY <3>1, <3>3, <3>4, <3>5 DEF Table!Contend
      <3> QED
        BY <3>6 DEF Table!Next
    <2>5. ASSUME NEW k \in Keys, Reserves(t, k)
          PROVE  Table!Next
      <3>1. wanted' = [wanted EXCEPT ![t] = wanted[t] \ {k}]
        BY <2>2, <2>5 DEF Reserves
      <3>2. reserved' = [j \in DOMAIN reserved |->
                IF j = k /\ (reserved[j] = NoTid \/ t < reserved[j]) THEN t ELSE reserved[j]]
        BY <2>5 DEF Reserves
      <3>3. Table!Reserve(t, k)
        BY <2>5, <3>1, <3>2 DEF Table!Reserve, Reserves
      <3> QED
        BY <3>3 DEF Table!Next
    <2> QED
      BY <2>1, <2>3, <2>4, <2>5 DEF Implements
  <1>3. ASSUME CalmInv, NEW t \in Tids, NEW set \in SUBSET Keys, Begin(t, set)
        PROVE  Table!Next
    <2>1. /\ Moves(t, Waiting(set)) /\ loop[t].todo = {} /\ Waiting(set).todo = set
          /\ raced' = raced /\ \A k \in Keys : Reserved(k)' = Reserved(k)
      BY <1>3, BeginMoves, BeginSound, WaitingType DEF CalmInv, Begin
    <2>2. wanted' = [wanted EXCEPT ![t] = set] /\ reserved' = reserved
      BY <2>1 DEF Moves
    <2>3. Table!Begin(t, set)
      BY <2>1, <2>2 DEF Table!Begin
    <2> QED
      BY <2>3 DEF Table!Next
  <1>4. CalmInv /\ [Next]_reserveVars => [Table!Next]_<<reserved, wanted>>
    <2>1. ASSUME CalmInv, Next
          PROVE  Table!Next \/ UNCHANGED <<reserved, wanted>>
      BY <1>2, <1>3, <2>1 DEF Next
    <2>2. ASSUME CalmInv, UNCHANGED reserveVars
          PROVE  UNCHANGED <<reserved, wanted>>
      BY <2>2, StutterSound DEF reserveVars
    <2> QED
      BY <2>1, <2>2
  <1> QED
    BY <1>1, <1>4, CalmIsInvariant, PTL DEF Spec, ReservesLowest, Table!Spec

(***************************************************************************)
(* What Aria needs besides: the keys asked for are in the end reserved for *)
(* the lowest task, and new tables are sound.                              *)
(***************************************************************************)
LEMMA ReservedType ==
    ASSUME TypeOK, NEW k \in Keys
    PROVE  Reserved(k) \in Tids \cup {NoTid}
  <1>1. k[1] \in Addresses /\ k[2] \in Slots /\ innerMap[k[1]] \in Tids \cup {NoTid}
    BY DEF Keys, TypeOK
  <1> QED
    BY <1>1 DEF Reserved, TypeOK

LEMMA StepLowest ==
    ASSUME CalmInv, NEW sets, Lowest(sets), NEW t \in Tids, Step(t),
           \A u \in Tids : sets[u] \subseteq Keys
    PROVE  Lowest(sets)'
  <1>1. Implements(t) /\ TypeOK /\ raced \subseteq raced'
    BY StepSound, StepRaces DEF CalmInv
  <1>2. \A u \in Tids : u # t => loop'[u].todo = loop[u].todo
    BY <1>1, OthersWant
  <1>3. \A k \in Keys : Reserved(k) = NoTid \/ Reserved(k) \in Nat
    BY <1>1, ReservedType, ReserveSetAssumption
  <1>4. NoTid \notin Nat /\ \A u \in Tids : u \in Nat
    BY ReserveSetAssumption
  <1>5. CASE Unnoticed(t)
    <2> SUFFICES ASSUME NEW u \in Tids, NEW k \in (sets[u] \ loop'[u].todo) \ raced'
                 PROVE  Reserved(k)' # NoTid /\ Reserved(k)' <= u
      BY DEF Lowest
    <2>1. k \in (sets[u] \ loop[u].todo) \ raced /\ k \in Keys \ raced'
      BY <1>1, <1>2, <1>5 DEF Unnoticed
    <2> QED
      BY <1>5, <2>1 DEF Unnoticed, Lowest
  <1>6. ASSUME NEW mine \in Keys, Reserves(t, mine)
        PROVE  Lowest(sets)'
    <2> SUFFICES ASSUME NEW u \in Tids, NEW k \in (sets[u] \ loop'[u].todo) \ raced'
                 PROVE  Reserved(k)' # NoTid /\ Reserved(k)' <= u
      BY DEF Lowest
    <2>1. k \in Keys \ raced
      BY <1>1
    <2>2. CASE k = mine /\ u = t
      BY <1>3, <1>4, <1>6, <2>1, <2>2 DEF Reserves
    <2>3. CASE ~(k = mine /\ u = t)
      <3>1. k \in (sets[u] \ loop[u].todo) \ raced
        BY <1>2, <1>6, <2>1, <2>3 DEF Reserves
      <3>2. Reserved(k) # NoTid /\ Reserved(k) <= u
        BY <3>1 DEF Lowest
      <3>3. Reserved(k)' = Reserved(k) \/ (Reserved(k)' = t /\ t < Reserved(k))
        BY <1>6, <2>1, <3>2 DEF Reserves
      <3> QED
        BY <1>3, <1>4, <2>1, <3>2, <3>3
    <2> QED
      BY <2>2, <2>3
  <1> QED
    BY <1>1, <1>5, <1>6 DEF Implements

LEMMA BeginLowest ==
    ASSUME CalmInv, NEW t \in Tids, NEW set \in SUBSET Keys, Begin(t, set),
           NEW sets, Lowest(sets),
           NEW more, more[t] = set, \A u \in Tids : u # t => more[u] = sets[u]
    PROVE  Lowest(more)'
  <1>1. Moves(t, Waiting(set)) /\ Waiting(set).todo = set /\ raced' = raced
    BY BeginMoves, WaitingType DEF CalmInv, Begin
  <1>2. \A k : Reserved(k)' = Reserved(k)
    BY BeginSound
  <1> SUFFICES ASSUME NEW u \in Tids, NEW k \in (more[u] \ loop'[u].todo) \ raced'
               PROVE  Reserved(k)' # NoTid /\ Reserved(k)' <= u
    BY DEF Lowest
  <1>3. u # t
    BY <1>1 DEF Moves
  <1>4. k \in (sets[u] \ loop[u].todo) \ raced
    BY <1>1, <1>3 DEF Moves
  <1> QED
    BY <1>2, <1>4 DEF Lowest

\* New tables, made while no task is in Reserve.
LEMMA NewTables ==
    ASSUME TypeOK, loop' = loop, \A t \in Tids : loop[t].todo = {},
           innerMap' = [a \in Addresses |-> NoTid],
           maps' = [m \in Addresses \X Tids |-> [s \in Slots |-> NoTid]],
           raced' = {},
           NEW sets, \A t \in Tids : sets[t] = {}
    PROVE  CalmInv' /\ Honest(sets)' /\ Lowest(sets)'
  <1>1. TypeOK' /\ \A t \in Tids : loop'[t].step = "next"
    BY DEF TypeOK
  <1>2. Apart' /\ \A t \in Tids : Fresh(t)'
    BY <1>1 DEF Apart, Fresh, Inside
  <1>3. NothingHidden'
    BY DEF NothingHidden, Keys
  <1>4. Honest(sets)' /\ Lowest(sets)'
    BY DEF Honest, Lowest
  <1> QED
    BY <1>1, <1>2, <1>3, <1>4 DEF CalmInv
=============================================================================
