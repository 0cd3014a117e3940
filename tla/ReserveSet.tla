------------------------------ MODULE ReserveSet ------------------------------
(***************************************************************************)
(* accesslist/reserve.go: a concurrent map of concurrent maps, in which    *)
(* the tasks of an Aria round reserve the keys they read, or those they    *)
(* write.  Each Get and Set of a map is atomic (github.com/orcaman/        *)
(* concurrent-map); Reserve is a sequence of them, so the steps of two     *)
(* tasks interleave.                                                       *)
(***************************************************************************)
EXTENDS Integers, FiniteSets

CONSTANTS
    Tids,           \* the tasks, by the index of their transaction
    Addresses,
    Slots,          \* the keys of an address
    NoTid,          \* a key absent from an inner map, an address absent from the outer
    Workers         \* the pool runs at most so many tasks at a time

Keys == Addresses \X Slots

ASSUME ReserveSetAssumption ==
    /\ Tids \subseteq Nat /\ IsFiniteSet(Tids) /\ NoTid \notin Nat
    /\ Workers \in Nat

VARIABLES
    innerMap,       \* address -> the inner map published for it: its creator
    maps,           \* <<address, creator>> -> the inner map that task has made
    loop,           \* task -> where it stands in Reserve
    raced           \* History: the keys over which tasks have got into a race

reserveVars == <<innerMap, maps, loop, raced>>

\* todo: the keys of the set not reserved yet; addr, hash: the key at hand;
\* at: the inner map in hand, by its creator.
Loop == [step : {"next", "get", "set", "publish", "store"}, todo : SUBSET Keys,
         key : Keys \cup {<<>>}, at : Tids \cup {NoTid}]

Waiting(set) == [step |-> "next", todo |-> set, key |-> <<>>, at |-> NoTid]

Init ==
    /\ innerMap = [a \in Addresses |-> NoTid]
    /\ maps = [m \in Addresses \X Tids |-> [s \in Slots |-> NoTid]]
    /\ loop = [t \in Tids |-> Waiting({})]
    /\ raced = {}

\* The table as get sees it.
Reserved(k) == IF innerMap[k[1]] = NoTid THEN NoTid ELSE maps[<<k[1], innerMap[k[1]]>>][k[2]]

\* A call of Reserve, by a task that is not in one.
Begin(t, set) ==
    /\ loop[t].todo = {}
    /\ loop' = [loop EXCEPT ![t] = Waiting(set)]
    /\ UNCHANGED <<innerMap, maps, raced>>

\* A task that comes to a key races with those between get and the store: over
\* the key, if it is the same, and, as long as the address has no inner map, over
\* all keys of the address, for one of them will publish its map over the other's.
Inside(t) == loop[t].step # "next"
RacesWith(t, k) == {u \in Tids \ {t} : Inside(u) /\ loop[u].key[1] = k[1]}
RacedFor(t, k) ==
    IF innerMap[k[1]] = NoTid /\ RacesWith(t, k) # {} THEN {k[1]} \X Slots
    ELSE {loop[u].key : u \in RacesWith(t, k)} \cap {k}

\* Mutant: the key is struck from the list before it is reserved.
GetOuterStrikesKey(t, k) ==
    LET a == k[1] IN
    /\ loop[t].step = "next" /\ k \in loop[t].todo
    /\ loop' = [loop EXCEPT ![t] = [@ EXCEPT !.key = k, !.at = innerMap[a], !.todo = @ \ {k},
                    !.step = IF innerMap[a] = NoTid THEN "set" ELSE "get"]]
    /\ raced' = raced \cup RacedFor(t, k)
    /\ UNCHANGED <<innerMap, maps>>

\* get: look the address up; when it is absent, so is the key.
GetOuter(t, k) ==
    LET a == k[1] IN
    /\ loop[t].step = "next" /\ k \in loop[t].todo
    /\ loop' = [loop EXCEPT ![t] = [@ EXCEPT !.key = k, !.at = innerMap[a],
                    !.step = IF innerMap[a] = NoTid THEN "set" ELSE "get"]]
    /\ raced' = raced \cup RacedFor(t, k)
    /\ UNCHANGED <<innerMap, maps>>

\* Mutants: first come, first served; the last one gets it.
AlwaysLoses(t, found) == found # NoTid
NeverLoses(t, found) == FALSE

\* Is the reservation found kept from a task?
Loses(t, found) == found # NoTid /\ ~(t < found)

\* get: look the key up in the inner map; a lower reservation stands.
GetInner(t) ==
    LET k == loop[t].key
        found == maps[<<k[1], loop[t].at>>][k[2]]
    IN  /\ loop[t].step = "get"
        /\ loop' = [loop EXCEPT ![t] = IF Loses(t, found) THEN Waiting(@.todo \ {k})
                                                          ELSE [@ EXCEPT !.step = "set"]]
        /\ UNCHANGED <<innerMap, maps, raced>>

\* Mutant: an inner map is made without looking for one.
SetOuterMakesAnother(t) ==
    /\ loop[t].step = "set"
    /\ loop' = [loop EXCEPT ![t] = [@ EXCEPT !.at = t, !.step = "publish"]]
    /\ UNCHANGED <<innerMap, maps, raced>>

\* set: look the address up again; when it is absent, make an inner map ...
SetOuter(t) ==
    LET a == loop[t].key[1] IN
    /\ loop[t].step = "set"
    /\ loop' = [loop EXCEPT ![t] = [@ EXCEPT !.at = IF innerMap[a] = NoTid THEN t ELSE innerMap[a],
                    !.step = IF innerMap[a] = NoTid THEN "publish" ELSE "store"]]
    /\ UNCHANGED <<innerMap, maps, raced>>

\* ... and publish it, over whatever was published in the meantime ...
Publish(t) ==
    /\ loop[t].step = "publish"
    /\ innerMap' = [innerMap EXCEPT ![loop[t].key[1]] = t]
    /\ loop' = [loop EXCEPT ![t].step = "store"]
    /\ UNCHANGED <<maps, raced>>

\* ... and store the reservation in the inner map in hand.
Store(t) ==
    LET k == loop[t].key IN
    /\ loop[t].step = "store"
    /\ maps' = [maps EXCEPT ![<<k[1], loop[t].at>>][k[2]] = t]
    /\ loop' = [loop EXCEPT ![t] = Waiting(@.todo \ {k})]
    /\ UNCHANGED <<innerMap, raced>>

Step(t) ==
    \/ \E k \in Keys : GetOuter(t, k)
    \/ GetInner(t) \/ SetOuter(t) \/ Publish(t) \/ Store(t)

Finished(t) == loop[t].todo = {}
Working == {t \in Tids : ~Finished(t)}

Next ==
    \E t \in Tids :
        \/ /\ Cardinality(Working \cup {t}) <= Workers
           /\ \E set \in SUBSET Keys : Begin(t, set)
        \/ Step(t)

Spec == Init /\ [][Next]_reserveVars

\* Mutant: a task conflicts with itself.
ConflictsWithItself(t, set) == \E k \in set : Reserved(k) # NoTid /\ Reserved(k) <= t

\* HasConflict: a key of the set is reserved for a lower task.
HasConflict(t, set) == \E k \in set : Reserved(k) # NoTid /\ Reserved(k) < t
-----------------------------------------------------------------------------

TypeOK ==
    /\ innerMap \in [Addresses -> Tids \cup {NoTid}]
    /\ maps \in [Addresses \X Tids -> [Slots -> Tids \cup {NoTid}]]
    /\ loop \in [Tids -> Loop]
    /\ \A t \in Tids : loop[t].step # "next" => loop[t].key \in loop[t].todo
    /\ raced \subseteq Keys

\* However many workers there are, the two-level table and its read-compare-write
\* loop implement a table that gives a key to the lowest task that asks for it,
\* except for the keys over which tasks have got into a race.
Table == INSTANCE Reservations WITH
            reserved <- [k \in Keys \ raced |-> Reserved(k)],
            wanted <- [t \in Tids |-> loop[t].todo]

ReservesLowest == Table!Spec
=============================================================================
