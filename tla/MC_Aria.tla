------------------------------- MODULE MC_Aria -------------------------------
(***************************************************************************)
(* Blocks of two or three transactions over one or two accounts.           *)
(***************************************************************************)
EXTENDS AriaInv

CONSTANTS a1, a2, x, y

Always(behaviours) == [t \in Txs |-> behaviours]

\* Any RW set over a slot of each account; one transaction may touch a slot
\* that was not predicted for it, one may be refused.
AnyRW == [reads : SUBSET (Addresses \X {x}), writes : SUBSET (Addresses \X {x})]
SomePredicted == [t \in Txs |-> IF t = 1 THEN {<<a1, x>>} ELSE Addresses \X {x}]

\* Two slots of one account: one written blindly, or one after a read of the
\* other.
Racing ==
    {[reads |-> {}, writes |-> {<<a1, x>>}],
     [reads |-> {<<a1, x>>}, writes |-> {<<a1, y>>}],
     [reads |-> {<<a1, y>>}, writes |-> {<<a1, x>>}]}

\* Each reads the slot that the other writes.
Crossed == [t \in Txs |->
    {IF t = 0 THEN [reads |-> {<<a1, x>>}, writes |-> {<<a2, x>>}]
              ELSE [reads |-> {<<a2, x>>}, writes |-> {<<a1, x>>}]}]

Setup(workers, multiRound, behaviours, predicted, refusable) ==
    [workers |-> workers, multiRound |-> multiRound, behaviours |-> behaviours,
     predicted |-> predicted, refusable |-> refusable]

MCSetups == [
    anything |-> Setup(1, FALSE, Always(AnyRW), SomePredicted, {2}),
    rounds |-> Setup(2, TRUE, Always(Racing), Always({a1} \X Slots), {}),
    oneRound |-> Setup(2, FALSE, Always(Racing), [t \in Txs |-> IF t = 1 THEN {<<a1, x>>} ELSE {a1} \X Slots], {2})]

MCRaceSetup == [rounds |-> MCSetups.rounds]
MCSerialSetup == [rounds |-> Setup(1, TRUE, Always(Racing), Always({a1} \X Slots), {})]
MCCrossedSetup == [rounds |-> Setup(1, TRUE, Crossed, Always(Addresses \X {x}), {})]
=============================================================================
