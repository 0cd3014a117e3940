------------------------------ MODULE BlockExec ------------------------------
(***************************************************************************)
(* The drivers of geth.go that run a block by connected components, by     *)
(* degree-zero layers or by independent sets, on CacheStates, in the       *)
(* concurrent versions, in the older ones that prefetch and merge in a     *)
(* single thread, and in those that first give all transactions to one     *)
(* Aria round and then group what it returns.  The groups are what module  *)
(* Grouping shows the three methods to produce, an Aria round decides as   *)
(* module Aria has it when no reservation is lost, and a cache does what   *)
(* module CacheState shows: a transaction that touches a slot that is not  *)
(* in it leaves no trace.                                                  *)
(*                                                                         *)
(* In each round every group has a cache, prefetched from the full cache;  *)
(* the tasks of the pool run the groups, each the transactions of its own  *)
(* in the order of the block; when all are done the caches are merged.     *)
(* Storage slots only; caches being private, the pool's size only makes    *)
(* fewer interleavings, and a merge in one thread is one of those of the   *)
(* concurrent merge.  A call that fails leaves nothing here: an RW set is  *)
(* that of the calls that return.                                          *)
(***************************************************************************)
EXTENDS GroupPlans, Execution

CONSTANT
    Behaviours      \* the RW sets that an execution may show

ASSUME BlockExecAssumption ==
    /\ Behaviours \subseteq RWSets
    /\ Predictions \subseteq [Txs -> RWSets \cup {NoPrediction}]
    /\ NoPrediction \notin RWSets

VARIABLES
    driver,         \* [method, kind]: which of the drivers
    plan,           \* the rounds: a sequence of sets of groups
    round,          \* the one at hand
    phase,          \* "start", "prefetch", "execute", "merge", "done" or "panic"
    cache,          \* group -> its CacheState: the keys in it -> value
    rwSet, errs,    \* tx -> what its execution touched and returned
    toMerge,        \* group -> the keys its MergeState has still to write
    full,           \* the full cache, or the database itself: the keys in it -> value
    state,          \* the database
    (***********************************************************************)
    (* History: whether the Aria round merges a slot that a cache has only *)
    (* read and another has written, and what each execution has read.     *)
    (***********************************************************************)
    wroteBack, saw

planVars == <<predictions, driver, plan>>
historyVars == <<wroteBack, saw>>
vars == <<planVars, round, phase, cache, rwSet, errs, toMerge, full, state, historyVars>>

Aria == driver.kind = "aria"

Init ==
    /\ GraphInit
    /\ driver \in [method : Methods, kind : {"concurrent", "older", "aria"}]
    /\ IF Aria THEN plan = <<{{t} : t \in Txs}>> ELSE plan \in Plans(driver.method)
    /\ round = 1 /\ phase = "start"
    /\ cache = <<>> /\ toMerge = <<>>
    /\ rwSet = [t \in Txs |-> Empty] /\ errs = [t \in Txs |-> "none"]
    /\ state = [k \in Keys |-> InitialValue] /\ full = state
    /\ wroteBack = FALSE /\ saw = [t \in Txs |-> <<>>]

-----------------------------------------------------------------------------
(* The rounds.                                                              *)

Predicted(group) == UNION {predictions[t].reads \cup predictions[t].writes : t \in group}
PredictedWrites(group) == UNION {predictions[t].writes : t \in group}

\* What a Prefetch of these keys takes from a store.  A full cache answers for
\* a slot that it does not hold with the empty hash.
NoHash == [tx |-> -2, saw |-> <<>>]
Fetched(keys, store) ==
    [k \in keys |-> IF k \in DOMAIN store THEN store[k] ELSE NoHash]

OnDatabase == driver.method = "ConnectedComponents" /\ driver.kind = "older"

\* The full cache is prefetched with all predictions, and a missing one is a
\* nil pointer; the older driver for components works on the database.
MakeFull ==
    /\ phase = "start"
    /\ IF OnDatabase THEN phase' = "prefetch" /\ full' = state
       ELSE IF Vertices # Txs THEN phase' = "panic" /\ full' = full
       ELSE phase' = "prefetch" /\ full' = Fetched(Predicted(Vertices), state)
    /\ UNCHANGED <<planVars, round, cache, rwSet, errs, toMerge, state, historyVars>>

\* The caches of all groups; nothing else is under way.
Prefetch ==
    /\ phase = "prefetch" /\ round \in DOMAIN plan
    /\ cache' = [g \in plan[round] |-> Fetched(Predicted(g), full)]
    /\ phase' = "execute"
    /\ UNCHANGED <<planVars, round, rwSet, errs, toMerge, full, state, historyVars>>

NextTx(group) == CHOOSE t \in group : errs[t] = "none" /\ \A u \in group : u < t => errs[u] # "none"

\* Mutant: what a falsely predicted transaction has written stays.
WrittenAnyway(t, rw, err, store) ==
    LET held == [reads |-> rw.reads \cap DOMAIN store, writes |-> rw.writes]
    IN  Written(t, held, store)

\* A group's cache after an execution: only one without an error leaves a trace.
WrittenIfAccepted(t, rw, err, store) == IF err = "nil" THEN Written(t, rw, store) ELSE store

\* executeTx, of the next transaction of a group: it fails before it touches
\* anything, or it runs, and its prediction is false if it has touched a slot
\* that is not in the cache.
Execute(g) ==
    /\ phase = "execute" /\ \E t \in g : errs[t] = "none"
    /\ LET t == NextTx(g)
           Touched(rw) == rw.reads \cup rw.writes
           Judgement(rw) == IF Touched(rw) \subseteq DOMAIN cache[g] THEN "nil" ELSE "ErrFalsePredict"
       IN  \E rw \in Behaviours \cup {Empty} :
            \E err \in {Judgement(rw)} \cup (IF rw = Empty THEN {"rejected"} ELSE {}) :
                /\ rwSet' = [rwSet EXCEPT ![t] = rw]
                /\ errs' = [errs EXCEPT ![t] = err]
                /\ cache' = [cache EXCEPT ![g] = WrittenIfAccepted(t, rw, err, @)]
                /\ saw' = [saw EXCEPT ![t] = [k \in rw.reads \cap DOMAIN cache[g] |-> cache[g][k]]]
    /\ UNCHANGED <<planVars, round, phase, toMerge, full, state, wroteBack>>

Accepted == {t \in Txs : errs[t] = "nil"}

Dirty(group) == UNION {DirtyAccounts(rwSet[t]) : t \in group \cap Accepted}

\* MergeState writes every slot of a dirty account that its cache holds.
MergedKeys(group) == {k \in DOMAIN cache[group] : k[1] \in Dirty(group)}

AllExecuted == phase = "execute" /\ \A g \in plan[round] : \A t \in g : errs[t] # "none"

InAriaRound == Aria /\ round = 1

\* wg.Wait has returned, in a round of groups.
Executed ==
    /\ AllExecuted /\ ~InAriaRound
    /\ phase' = "merge"
    /\ toMerge' = [g \in plan[round] |-> MergedKeys(g)]
    /\ UNCHANGED <<planVars, round, cache, rwSet, errs, full, state, historyVars>>

\* AriaOneRound: which transactions it returns rather than commits, when every
\* key is reserved by the lowest that touched it.
Returned(t) ==
    LET Earlier(set, other) == \E u \in Txs : u < t /\ set \cap other[u] # {}
        reads == [u \in Txs |-> rwSet[u].reads]
        writes == [u \in Txs |-> rwSet[u].writes]
    IN  \/ errs[t] \notin {"nil", "ErrFalsePredict"}
        \/ Earlier(writes[t], writes)
        \/ Earlier(writes[t], reads) /\ Earlier(reads[t], writes)

\* The transactions returned, with the RW sets recorded in the round for
\* predictions, are a block of their own, to be grouped.
AriaDecide ==
    LET rest == {t \in Txs : Returned(t)}
        committed == Accepted \ rest
    IN  /\ AllExecuted /\ InAriaRound
        /\ UNCHANGED <<driver, round, cache, rwSet, full, state, saw>>
        /\ phase' = "merge"
        /\ toMerge' = [g \in plan[1] |-> IF g \subseteq rest THEN {} ELSE MergedKeys(g)]
        /\ wroteBack' = \E t, u \in committed : t # u /\ rwSet[t].writes \cap MergedKeys({u}) # {}
        /\ predictions' = [t \in Txs |-> IF t \in rest THEN rwSet[t] ELSE NoPrediction]
        /\ errs' = [t \in Txs |-> IF t \in rest THEN "none" ELSE errs[t]]
        /\ \E p \in Plans(driver.method)' : plan' = plan \o p

\* One SetState of a MergeState, in any order; the full cache takes no slot
\* that it does not hold.
MergeKey(g, k) ==
    /\ phase = "merge" /\ k \in toMerge[g]
    /\ toMerge' = [toMerge EXCEPT ![g] = @ \ {k}]
    /\ full' = IF k \in DOMAIN full THEN [full EXCEPT ![k] = cache[g][k]] ELSE full
    /\ UNCHANGED <<planVars, round, phase, cache, rwSet, errs, state, historyVars>>

\* Mutant: the next round starts before the merge is over.
EndRoundEarly ==
    /\ phase = "merge"
    /\ round' = round + 1 /\ phase' = "prefetch"
    /\ UNCHANGED <<planVars, cache, rwSet, errs, toMerge, full, state, historyVars>>

EndRound ==
    /\ phase = "merge" /\ \A g \in plan[round] : toMerge[g] = {}
    /\ round' = round + 1 /\ phase' = "prefetch"
    /\ UNCHANGED <<planVars, cache, rwSet, errs, toMerge, full, state, historyVars>>

\* The older drivers merge the full cache, whose journal has the accounts of
\* all merges, into the database; for the others it stands for the database.
Finish ==
    /\ phase = "prefetch" /\ round > Len(plan)
    /\ phase' = "done"
    /\ state' = [k \in Keys |->
            IF k \in DOMAIN full /\ (OnDatabase \/ (driver.kind = "older" /\ k[1] \in Dirty(Txs)))
            THEN full[k] ELSE state[k]]
    /\ UNCHANGED <<planVars, round, cache, rwSet, errs, toMerge, full, historyVars>>

Stopped == phase \in {"done", "panic"} /\ UNCHANGED vars

Next ==
    \/ MakeFull \/ Prefetch
    \/ phase = "execute" /\ \E g \in plan[round] : Execute(g)
    \/ Executed \/ AriaDecide
    \/ phase = "merge" /\ \E g \in plan[round], k \in Keys : MergeKey(g, k)
    \/ EndRound \/ Finish \/ Stopped

Spec == Init /\ [][Next]_vars
-----------------------------------------------------------------------------
(* Properties.                                                              *)

GroupRounds == IF Aria THEN 2..Len(plan) ELSE DOMAIN plan

\* The order a driver runs its groups in: the block's own, or that of the rounds.
Before(t, u) ==
    IF driver.method # "MIS" THEN t < u
    ELSE \E i, j \in GroupRounds :
            {t} \in plan[i] /\ {u} \in plan[j] /\ (i < j \/ (i = j /\ t < u))

\* What an Aria round has committed comes before, in an order of its own.
Orders ==
    LET MayPrecede(t, u) == t \in Vertices => u \in Vertices /\ Before(t, u)
    IN  {order \in SetToSeqs(Accepted) :
            \A i, j \in DOMAIN order : i < j => MayPrecede(order[i], order[j])}

\* The cache only notices that a slot was not predicted at all, not that it was
\* predicted to be read and has been written.
WritesForeseen ==
    \A i \in GroupRounds : \A g \in plan[i] : \A t \in g \cap Accepted :
        rwSet[t].writes \subseteq PredictedWrites(g)

\* A transaction that an Aria round has returned may have touched a slot that
\* the full cache does not hold.  It is in its RW set now, so that the next
\* cache has it, empty, and raises no alarm.
TouchesFetched ==
    \A t \in Accepted : rwSet[t].reads \cup rwSet[t].writes \subseteq DOMAIN full

\* The result of a parallel driver is that of a serial one that runs only the
\* transactions that were accepted: whatever the others touched, whichever
\* groups ran side by side, and although a merge writes back the slots that its
\* cache has only read.  The components and the layers keep the block's order;
\* what an Aria round commits comes first.
BlockSerializable ==
    phase = "done" /\ WritesForeseen /\ TouchesFetched /\ ~wroteBack =>
        \E order \in Orders :
            LET serial == SerialStore(order, rwSet, [k \in Keys |-> InitialValue])
            IN  IF driver.kind = "older" THEN state = serial
                ELSE \A k \in DOMAIN full : full[k] = serial[k]
=============================================================================
