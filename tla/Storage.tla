------------------------------- MODULE Storage -------------------------------
(***************************************************************************)
(* The keys of contract storage: an address and a slot.                    *)
(***************************************************************************)
CONSTANTS Addresses, Slots

Keys == Addresses \X Slots
=============================================================================
