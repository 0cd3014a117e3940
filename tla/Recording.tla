------------------------------ MODULE Recording ------------------------------
(***************************************************************************)
(* The two ways of finding the RW set of a transaction: StateWithRwSets,   *)
(* which records what the EVM asks of the state, and RW_AccessListsTracer, *)
(* which looks at each instruction before it is executed.  An instruction  *)
(* is [op, account, slot, skip]; self is the account whose code is run,    *)
(* asked the fields of a callee that the EVM asks for.                     *)
(***************************************************************************)
EXTENDS Integers, FiniteSets

NoTouch == [reads |-> {}, writes |-> {}]

Add(rw, more) == [reads |-> rw.reads \cup more.reads, writes |-> rw.writes \cup more.writes]

\* RWSet.Equal, by which IterateBlock counts the false predictions: it goes
\* through the one set only, and the length it compares is that of the outer map.
Equal(rw, other) ==
    LET Named(keys) == Cardinality({k[1] : k \in keys})
    IN  /\ Named(rw.reads) = Named(other.reads) /\ rw.reads \subseteq other.reads
        /\ Named(rw.writes) = Named(other.writes) /\ rw.writes \subseteq other.writes

Key(i) == <<i.account, i.slot>>

\* Mutant: GetState records nothing for an SLOAD.
RecordedButLoads(i, self, asked) ==
    [reads |->
        CASE i.op \in {"SSTORE", "CLEAR"} -> {Key(i)}
          [] i.op \in {"CALL", "STATICCALL"} -> {i.account} \X asked
          [] OTHER -> {},
     writes |->
        CASE i.op \in {"SSTORE", "CLEAR"} -> {Key(i)}
          [] i.op = "SELFDESTRUCT" -> {self} \X {"ALIVE", "BALANCE"}
          [] OTHER -> {}]

\* StateWithRwSets.  An SSTORE also reads the slot, for its price.  Balances and
\* nonces are not recorded, but for the balance that a self-destruct clears.
Recorded(i, self, asked) ==
    [reads |->
        CASE i.op \in {"SLOAD", "SSTORE", "CLEAR"} -> {Key(i)}
          [] i.op \in {"CALL", "STATICCALL"} -> {i.account} \X asked
          [] OTHER -> {},
     writes |->
        CASE i.op \in {"SSTORE", "CLEAR"} -> {Key(i)}
          [] i.op = "SELFDESTRUCT" -> {self} \X {"ALIVE", "BALANCE"}
          [] OTHER -> {}]

\* Mutant: a STATICCALL is overlooked.
CalleeOfCall(i) == IF i.op = "CALL" THEN {i.account} \X {"CODE", "CODEHASH"} ELSE {}

Callee(i) ==
    IF i.op \in {"CALL", "STATICCALL"} THEN {i.account} \X {"CODE", "CODEHASH"} ELSE {}

\* CaptureState, and addCall for the call that a transaction begins with; no
\* call here carries a value.
Traced(i, self) ==
    [reads |->
        Callee(i) \cup
        CASE i.op = "SLOAD" -> {Key(i)}
          [] i.op \in {"BALANCE", "SELFDESTRUCT"} -> {<<i.account, "BALANCE">>}
          [] i.op = "CALL" -> {self} \X {"BALANCE", "NONCE"}
          [] OTHER -> {},
     writes |->
        CASE i.op \in {"SSTORE", "CLEAR"} -> {Key(i)}
          [] i.op = "CALL" -> {self} \X {"BALANCE", "NONCE"}
          [] i.op = "SELFDESTRUCT" -> {<<i.account, "BALANCE">>} \cup {self} \X {"ALIVE", "BALANCE"}
          [] OTHER -> {}]
=============================================================================
