----------------------------- MODULE Reservations -----------------------------
(***************************************************************************)
(* What a reserve table promises to Aria: a key that several tasks reserve *)
(* belongs to the lowest of them, in whatever order they come.  The        *)
(* promise lapses for the keys of an address that two tasks want at once.  *)
(***************************************************************************)
EXTENDS Integers

CONSTANTS
    Tids,           \* the tasks, which are numbers
    Keys,           \* <<address, slot>>
    NoTid           \* nobody has reserved the key

VARIABLES
    reserved,       \* key -> the task it is reserved for, where the promise holds
    wanted          \* task -> the keys it has still to reserve

Init ==
    /\ reserved = [k \in Keys |-> NoTid]
    /\ wanted = [t \in Tids |-> {}]

Begin(t, set) ==
    /\ wanted[t] = {}
    /\ wanted' = [wanted EXCEPT ![t] = set]
    /\ UNCHANGED reserved

Reserve(t, k) ==
    /\ k \in wanted[t]
    /\ wanted' = [wanted EXCEPT ![t] = @ \ {k}]
    /\ reserved' = [j \in DOMAIN reserved |->
            IF j = k /\ (reserved[j] = NoTid \/ t < reserved[j]) THEN t ELSE reserved[j]]

Contend(t, u) ==
    /\ t # u
    /\ \E j \in wanted[t], k \in wanted[u] :
        /\ j[1] = k[1]
        /\ \E lost \in SUBSET {key \in Keys : key[1] = k[1]} :
            reserved' = [key \in DOMAIN reserved \ lost |-> reserved[key]]
    /\ UNCHANGED wanted

Next ==
    \E t \in Tids :
        \/ \E set \in SUBSET Keys : Begin(t, set)
        \/ \E k \in Keys : Reserve(t, k)
        \/ \E u \in Tids : Contend(t, u)

Spec == Init /\ [][Next]_<<reserved, wanted>>
=============================================================================
