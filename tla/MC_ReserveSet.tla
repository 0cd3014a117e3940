---------------------------- MODULE MC_ReserveSet ----------------------------
(***************************************************************************)
(* Three tasks, two of them at a time, that reserve the two keys of an     *)
(* account, in any sets and as often as they like.                         *)
(***************************************************************************)
EXTENDS ReserveSetInv, TLC

Symmetry == Permutations(Slots)
=============================================================================
