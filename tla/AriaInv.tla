------------------------------- MODULE AriaInv -------------------------------
(***************************************************************************)
(* The inductive invariants of Aria's rounds: what holds between any two   *)
(* steps, however many workers race.                                       *)
(***************************************************************************)
EXTENDS Aria

TypeOK ==
    /\ setup \in DOMAIN Setups
    /\ list \subseteq Txs /\ committed \subseteq Txs /\ effective \subseteq Txs
    /\ phase \in {"prefetch", "execute", "merge", "done"}
    /\ task \in [Txs -> {"queued", "reads", "writes", "finished"}]
    /\ rwSet \in [Txs -> RWSets]
    /\ errs \in [Txs -> {"nil", "ErrFalsePredict", "rejected"}]
    /\ readReserve!TypeOK /\ writeReserve!TypeOK

\* Who is at work: only the listed transactions of a round that executes, each
\* in one table at a time.
AtWork ==
    \A t \in Txs :
        /\ readLoop[t].todo # {} => task[t] = "reads"
        /\ writeLoop[t].todo # {} => task[t] = "writes"
        /\ phase # "execute" => task[t] \in {"queued", "finished"}
        /\ phase = "execute" /\ task[t] = "queued" => rwSet[t] = Empty
        /\ phase = "execute" /\ t \notin list => task[t] = "finished" /\ rwSet[t] = Empty

\* The keys that each task has asked for in the two tables.
ReadsAsked == [t \in Txs |-> IF task[t] = "queued" THEN {} ELSE rwSet[t].reads]
WritesAsked == [t \in Txs |-> IF task[t] \in {"queued", "reads"} THEN {} ELSE rwSet[t].writes]

\* Lost or not, a reservation is for a key that its task has touched.
TablesHonest ==
    phase = "execute" => readReserve!Honest(ReadsAsked) /\ writeReserve!Honest(WritesAsked)

\* Where the one round stands with each transaction.
OneRoundInv ==
    ~MultiRound =>
        /\ phase \in {"prefetch", "execute"} => list = Txs /\ effective = {}
        /\ phase = "merge" =>
            \A t \in Txs \ list : t \in committed /\ errs[t] \in {"nil", "ErrFalsePredict"}

\* What has been committed is not run again.
RunsOnce == effective \cap list = {} /\ (phase = "merge" => committed \cap (list \cup effective) = {})

TasksInv ==
    /\ TypeOK /\ AtWork /\ TablesHonest /\ OneRoundInv
    /\ RunsOnce /\ OneRoundLosesOnlyFalse

\* A task works on its own copy of the full cache: in the end it holds the
\* writes of a transaction that touched only what was predicted for it, or
\* nothing new.
RanOnSnapshot(t) ==
    /\ errs[t] = "nil" => rwSet[t].reads \cup rwSet[t].writes \subseteq Predicted[t]
    /\ cache[t] = IF errs[t] = "nil" THEN Written(t, rwSet[t], before) ELSE before

\* Halfway through the merges the full cache holds of every key what one of the
\* caches merged so far does, or what it held before the round.
HalfMerged ==
    \A k \in Keys :
        LET merged == {t \in committed : k \in MergedKeys(t) \ toMerge[t]}
        IN  IF merged = {} THEN full[k] = before[k] ELSE \E t \in merged : full[k] = cache[t][k]

SnapshotInv ==
    /\ DOMAIN cache = Txs /\ DOMAIN toMerge = Txs /\ IsStore(full) /\ IsStore(before)
    /\ phase = "execute" =>
        /\ full = before
        /\ \A t \in list : IF task[t] = "queued" THEN cache[t] = before ELSE RanOnSnapshot(t)
    /\ phase = "merge" =>
        /\ \A t \in committed : RanOnSnapshot(t) /\ toMerge[t] \subseteq MergedKeys(t)
        /\ \A t \in Txs \ committed : toMerge[t] = {}
        /\ HalfMerged

RoundInv == TasksInv /\ SnapshotInv

-----------------------------------------------------------------------------
(* The order in which what a round commits is serializable.                 *)

\* The tables hold every key for the lowest task that has asked for it, but for
\* those over which tasks have got into a race.
TablesExact ==
    /\ readReserve!CalmInv /\ writeReserve!CalmInv
    /\ phase \in {"execute", "merge"} => readReserve!Lowest(ReadsAsked) /\ writeReserve!Lowest(WritesAsked)

\* Aria's deterministic order: first the committed transactions that have read
\* what a lower one writes, backwards, then the others.
Rank(t) == IF RAW(t) THEN -1 - t ELSE t

\* However many workers reserve at once, what a round commits is serializable as
\* far as no race was about it: such a key has not two writers, and in Aria's
\* order everybody reads it before it is written, as reading the snapshot
\* requires.
CommitsInOrder ==
    phase = "merge" =>
        \A t, u \in committed : t # u =>
            \A k \in Keys \ (readRaced \cup writeRaced) :
                /\ ~(k \in rwSet[t].writes /\ k \in rwSet[u].writes)
                /\ k \in rwSet[t].reads /\ k \in rwSet[u].writes => Rank(t) < Rank(u)
=============================================================================
