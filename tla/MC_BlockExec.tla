----------------------------- MODULE MC_BlockExec -----------------------------
(***************************************************************************)
(* Blocks of three transactions over two slots of one account, so that     *)
(* every merge writes back what its cache has only read.                   *)
(***************************************************************************)
EXTENDS BlockExecInv

CONSTANTS a1, x, y

RW(reads, writes) == [reads |-> {a1} \X reads, writes |-> {a1} \X writes]

MCPredictions ==
    [Txs -> {RW({}, {x}), RW({x}, {y}), RW({x, y}, {}), NoPrediction}]

MCBehaviours == {RW({}, {x}), RW({x}, {y}), RW({y}, {}), RW({y}, {x})}
=============================================================================
