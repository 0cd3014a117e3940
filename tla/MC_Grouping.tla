----------------------------- MODULE MC_Grouping -----------------------------
(***************************************************************************)
(* Small blocks.  Over two keys, with reads, writes and missing            *)
(* predictions; and, one key to each conflict, every conflict graph over   *)
(* the first transactions, and every one over the first four of which two  *)
(* are also joined by a path through the others, so that there are long    *)
(* paths for the reductions to cut out.                                    *)
(***************************************************************************)
EXTENDS GroupingInv

CONSTANTS x, y,
    Mixed,      \* the transactions of the blocks over two keys
    First,      \* those of the graphs
    Joined       \* those of the graphs with a path

MCRWSets ==
    {[reads |-> {x}, writes |-> {}], [reads |-> {y}, writes |-> {x}],
     [reads |-> {}, writes |-> {x}], [reads |-> {}, writes |-> {y}],
     [reads |-> {}, writes |-> {}]}

MixedBlocks ==
    {[t \in Txs |-> IF t \in Mixed THEN block[t] ELSE NoPrediction] :
        block \in [Mixed -> MCRWSets \cup {NoPrediction}]}

Pairs(txs) == {pair \in SUBSET txs : Cardinality(pair) = 2}
Path == {{0, 4}, {4, 5}, {5, 6}, {6, 1}}

Block(graph, txs) ==
    [t \in Txs |-> IF t \in txs THEN [reads |-> {}, writes |-> {e \in graph : t \in e}]
                   ELSE NoPrediction]

MCPredictions ==
    MixedBlocks
    \cup {Block(graph, First) : graph \in SUBSET Pairs(First)}
    \cup {Block(graph \cup Path, Txs) : graph \in SUBSET Pairs(Joined)}
=============================================================================
