---------------------------- MODULE ReserveSetInv ----------------------------
(***************************************************************************)
(* What holds of a reserve table between the steps of Reserve: what any    *)
(* number of racing tasks cannot spoil, and what holds where they have not *)
(* got into a race.                                                        *)
(***************************************************************************)
EXTENDS ReserveSet

\* Given the keys that each task asked for: only what was asked for is left to
\* do, and a key is reserved, in whatever inner map, only for a task that asked.
Honest(sets) ==
    /\ \A t \in Tids : loop[t].todo \subseteq sets[t]
    /\ \A a \in Addresses, c \in Tids, s \in Slots :
        LET holder == maps[<<a, c>>][s] IN holder # NoTid => <<a, s>> \in sets[holder]

\* Where a key of the address is left that no race was about.
Calm(a) == \E s \in Slots : <<a, s>> \notin raced

\* What a task has found still holds when it acts on it.
Fresh(t) ==
    LET k == loop[t].key
        step == loop[t].step
    IN  /\ Inside(t) /\ Calm(k[1]) =>
            /\ step \in {"get", "store"} => loop[t].at = innerMap[k[1]] /\ innerMap[k[1]] # NoTid
            /\ step = "publish" => loop[t].at = t /\ innerMap[k[1]] = NoTid
        /\ step \in {"set", "publish", "store"} /\ k \notin raced => ~Loses(t, Reserved(k))

\* Two tasks that are at keys of one address at once are at different keys of a
\* published inner map, and an inner map holds nothing before it is published.
Apart ==
    \A t, u \in Tids :
        LET k == loop[t].key IN
        t # u /\ Inside(t) /\ Inside(u) /\ loop[u].key[1] = k[1] /\ Calm(k[1]) =>
            /\ innerMap[k[1]] # NoTid
            /\ loop[u].key = k => k \in raced
NothingHidden ==
    \A k \in Keys \ raced, c \in Tids : innerMap[k[1]] # c => maps[<<k[1], c>>][k[2]] = NoTid

CalmInv == TypeOK /\ Apart /\ NothingHidden /\ \A t \in Tids : Fresh(t)

\* What has been asked for and done is reserved for the task or a lower one, but
\* for what was lost in a race.
Lowest(sets) ==
    \A t \in Tids : \A k \in (sets[t] \ loop[t].todo) \ raced : Reserved(k) # NoTid /\ Reserved(k) <= t
=============================================================================
