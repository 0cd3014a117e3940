------------------------------ MODULE Execution ------------------------------
(***************************************************************************)
(* What the execution of a transaction does to a store, its effects        *)
(* abstracted: it reads some keys and writes some.  Which ones is recorded *)
(* in its RW set; what it writes is named by the transaction and by what   *)
(* it has read.                                                            *)
(***************************************************************************)
EXTENDS Storage, Integers, FiniteSets, SequencesExt

CONSTANT
    StaticCalled    \* the accounts that are read through STATICCALLs

InitialValue == [tx |-> -1, saw |-> <<>>]
IsStore(store) == store = [k \in Keys |-> store[k]]
RWSets == [reads : SUBSET Keys, writes : SUBSET Keys]
Empty == [reads |-> {}, writes |-> {}]

Written(t, rw, store) ==
    LET value == [tx |-> t, saw |-> [k \in rw.reads |-> store[k]]]
    IN  [k \in DOMAIN store |-> IF k \in rw.writes THEN value ELSE store[k]]

\* The accounts that an execution leaves in the journal of its cache: those it
\* has written to, and those it has only read through a STATICCALL, by which
\* the EVM adds nothing to their balance.
DirtyAccounts(rw) == {k[1] : k \in rw.writes \cup {r \in rw.reads : r[1] \in StaticCalled}}

\* The store that the transactions of a sequence leave, one after the other.
SerialStore(order, rwSet, store) ==
    LET Run(s, t) == Written(t, rwSet[t], s) IN FoldLeft(Run, store, order)
=============================================================================
