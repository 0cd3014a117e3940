---------------------------- MODULE MC_CacheState ----------------------------
(***************************************************************************)
(* A contract a1 with code and storage and a plain account a2, predicted   *)
(* in full, in part, or not at all.                                        *)
(***************************************************************************)
EXTENDS CacheStateInv

CONSTANTS a1, a2, k1, v0, v1, c1

MCInitialDB ==
    [a \in Addresses |->
        IF a = a1
        THEN [Balance |-> 1, Nonce |-> 1, CodeHash |-> Keccak256(c1), ByteCode |-> c1,
              IsAlive |-> TRUE, CacheStorage |-> [k \in Slots |-> v1]]
        ELSE [Balance |-> 2, Nonce |-> 0, CodeHash |-> Keccak256(NoCode), ByteCode |-> NoCode,
              IsAlive |-> TRUE, CacheStorage |-> [k \in Slots |-> v0]]]

\* A group that is predicted to read the contract and call it, or to write one
\* of its slots and pay the other account; the first leaves a2 out of the cache.
MCPredictions ==
    {{<<a1, "CODE">>, <<a1, "CODEHASH">>, <<a1, k1>>},
     {<<a1, k1>>, <<a2, "BALANCE">>, <<a2, "NONCE">>, <<a2, "ALIVE">>}}
=============================================================================
