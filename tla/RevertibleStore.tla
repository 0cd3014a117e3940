--------------------------- MODULE RevertibleStore ---------------------------
(***************************************************************************)
(* What a journaled cache promises to the code that runs on it: a store    *)
(* that can be written at will, with a stack of saved contents.  A frame   *)
(* that ends well keeps what was written in it; a frame that is rolled     *)
(* back leaves exactly what the store held when the frame was opened, and  *)
(* nobody sees the store while the rollback is under way.                  *)
(***************************************************************************)
EXTENDS Sequences, Integers

CONSTANT Busy           \* the store while a rollback is under way

VARIABLES store, saves

Init == store # Busy /\ saves = <<>>

Drop == saves # <<>> /\ saves' = SubSeq(saves, 1, Len(saves) - 1)

Write == store # Busy /\ store' # Busy /\ saves' = saves

Open == store # Busy /\ saves' = Append(saves, store) /\ store' = store

Keep == store # Busy /\ Drop /\ store' = store

BeginRollback == store # Busy /\ saves # <<>> /\ store' = Busy /\ saves' = saves

EndRollback == store = Busy /\ Drop /\ store' = saves[Len(saves)]

Next == Write \/ Open \/ Keep \/ BeginRollback \/ EndRollback

Spec == Init /\ [][Next]_<<store, saves>>
=============================================================================
