--------------------------------- MODULE Aria ---------------------------------
(***************************************************************************)
(* The Aria method: AriaOneRound (utils/aria.go) and the loop of           *)
(* ExecAriaMultiRoundWithConcurrentState (geth.go).  In a round every      *)
(* listed transaction runs on a cache of its own, prefetched from the full *)
(* cache, and reserves the keys it read and wrote in two reserve tables    *)
(* (ExecWithSnapshotState, tracer/execute.go); when all have, the main     *)
(* thread decides from the tables which are committed, and the caches of   *)
(* those are merged into the full cache (MergeToCacheStateConcurrent,      *)
(* utils/execute_func.go) by tasks of the same pool.                       *)
(***************************************************************************)
EXTENDS Execution

CONSTANTS
    Txs,            \* the transactions of the block, by index
    NoTid,
    Setups          \* a name -> what is given before the block is run

ASSUME AriaAssumption ==
    /\ Txs \subseteq Nat /\ IsFiniteSet(Txs) /\ NoTid \notin Nat
    /\ \A s \in DOMAIN Setups :
        /\ Setups[s].workers \in Nat \ {0} /\ Setups[s].multiRound \in BOOLEAN
        /\ Setups[s].behaviours \in [Txs -> SUBSET RWSets]
        /\ Setups[s].predicted \in [Txs -> SUBSET Keys]
        /\ Setups[s].refusable \subseteq Txs

VARIABLES
    setup,          \* the name of the one given
    list,           \* txListIndex
    phase,          \* "prefetch", "execute", "merge" or "done"
    task,           \* tx -> "queued", "reads", "writes" or "finished"
    cache,          \* tx -> its cache: key -> value
    rwSet, errs,    \* tx -> what its execution recorded and returned
    full,           \* the full cache: key -> value
    toMerge,        \* tx -> the keys its MergeState has still to write
    readInnerMap, readMaps, readLoop, writeInnerMap, writeMaps, writeLoop,
    (***********************************************************************)
    (* History: the keys of the two tables over which tasks of the round   *)
    (* have got into a race, the full cache before the round, what the     *)
    (* round committed, and the transactions whose effects have been       *)
    (* merged so far.                                                      *)
    (***********************************************************************)
    readRaced, writeRaced, before, committed, effective

readVars == <<readInnerMap, readMaps, readLoop, readRaced>>
writeVars == <<writeInnerMap, writeMaps, writeLoop, writeRaced>>
historyVars == <<before, committed, effective>>
runVars == <<cache, rwSet, errs>>
vars == <<setup, list, phase, task, runVars, full, toMerge, readVars, writeVars, historyVars>>

\* How many tasks may be at work is said by Started.
readReserve == INSTANCE ReserveSetInv WITH Tids <- Txs, Workers <- Cardinality(Txs),
                    innerMap <- readInnerMap, maps <- readMaps, loop <- readLoop,
                    raced <- readRaced
writeReserve == INSTANCE ReserveSetInv WITH Tids <- Txs, Workers <- Cardinality(Txs),
                    innerMap <- writeInnerMap, maps <- writeMaps, loop <- writeLoop,
                    raced <- writeRaced

Workers == Setups[setup].workers          \* the size of the ants pool
MultiRound == Setups[setup].multiRound    \* which of the two drivers
Behaviours == Setups[setup].behaviours    \* tx -> the [reads, writes] an execution of it may show
Predicted == Setups[setup].predicted      \* tx -> the keys prefetched for it
Refusable == Setups[setup].refusable      \* the transactions that ApplyMessage may refuse

Queued(txs) == [t \in Txs |-> IF t \in txs THEN "queued" ELSE "finished"]

Init ==
    /\ setup \in DOMAIN Setups
    /\ list = Txs /\ phase = "prefetch"
    /\ task = Queued(Txs)
    /\ full = [k \in Keys |-> InitialValue]
    /\ cache = [t \in Txs |-> full]
    /\ rwSet = [t \in Txs |-> Empty] /\ errs = [t \in Txs |-> "nil"]
    /\ toMerge = [t \in Txs |-> {}]
    /\ readReserve!Init /\ writeReserve!Init
    /\ before = full /\ committed = {} /\ effective = {}

\* Mutant: a round goes on with the reserve tables of the one before.
PrefetchKeepsTables ==
    /\ phase = "prefetch" /\ phase' = "execute"
    /\ cache' = [t \in Txs |-> IF t \in list THEN full ELSE cache[t]]
    /\ rwSet' = [t \in Txs |-> Empty]
    /\ task' = Queued(list)
    /\ before' = full
    /\ UNCHANGED <<list, errs, full, toMerge, readVars, writeVars, committed, effective>>

\* GenerateCacheStatesConcurrent, waited for; new reserve tables.
Prefetch ==
    /\ phase = "prefetch" /\ phase' = "execute"
    /\ cache' = [t \in Txs |-> IF t \in list THEN full ELSE cache[t]]
    /\ rwSet' = [t \in Txs |-> Empty]
    /\ task' = Queued(list)
    /\ readInnerMap' = [a \in Addresses |-> NoTid]
    /\ writeInnerMap' = [a \in Addresses |-> NoTid]
    /\ readMaps' = [m \in Addresses \X Txs |-> [s \in Slots |-> NoTid]]
    /\ writeMaps' = [m \in Addresses \X Txs |-> [s \in Slots |-> NoTid]]
    /\ readRaced' = {} /\ writeRaced' = {}
    /\ before' = full
    /\ UNCHANGED <<list, errs, full, toMerge, readLoop, writeLoop, committed, effective>>

\* The main thread submits the tasks in order, and Submit blocks while all
\* workers are busy; between Submit and its start a task may be overtaken.
Started(t, unfinished) == Cardinality({u \in unfinished : u < t}) < Workers

\* The outcomes of executeTx: a transaction that touches an unpredicted key is
\* reverted, with its RW set recorded all the same.
Outcomes(t, rw) ==
    {[rw |-> rw, err |-> IF rw.reads \cup rw.writes \subseteq Predicted[t]
                         THEN "nil" ELSE "ErrFalsePredict"]}
    \cup IF t \in Refusable THEN {[rw |-> Empty, err |-> "rejected"]} ELSE {}

Execute(t) ==
    /\ phase = "execute" /\ task[t] = "queued"
    /\ Started(t, {u \in list : task[u] # "finished"})
    /\ \E behaviour \in Behaviours[t] : \E outcome \in Outcomes(t, behaviour) :
        LET rw == outcome.rw
        IN  /\ rwSet' = [rwSet EXCEPT ![t] = rw]
            /\ errs' = [errs EXCEPT ![t] = outcome.err]
            /\ cache' = [cache EXCEPT ![t] = IF outcome.err = "nil" THEN Written(t, rw, @) ELSE @]
            /\ readReserve!Begin(t, rw.reads)
    /\ task' = [task EXCEPT ![t] = "reads"]
    /\ UNCHANGED <<list, phase, full, toMerge, writeVars, historyVars>>

ReserveReads(t) ==
    /\ task[t] = "reads" /\ readReserve!Step(t)
    /\ UNCHANGED <<list, phase, task, runVars, full, toMerge, writeVars, historyVars>>

ThenWrites(t) ==
    /\ task[t] = "reads" /\ readReserve!Finished(t)
    /\ writeReserve!Begin(t, rwSet[t].writes)
    /\ task' = [task EXCEPT ![t] = "writes"]
    /\ UNCHANGED <<list, phase, runVars, full, toMerge, readVars, historyVars>>

ReserveWrites(t) ==
    /\ task[t] = "writes" /\ writeReserve!Step(t)
    /\ UNCHANGED <<list, phase, task, runVars, full, toMerge, readVars, historyVars>>

\* wg.Done.
FinishTask(t) ==
    /\ task[t] = "writes" /\ writeReserve!Finished(t)
    /\ task' = [task EXCEPT ![t] = "finished"]
    /\ UNCHANGED <<list, phase, runVars, full, toMerge, readVars, writeVars, historyVars>>

-----------------------------------------------------------------------------
(* The verdict on each transaction.                                         *)

WAW(t) == writeReserve!HasConflict(t, rwSet[t].writes)
WAR(t) == readReserve!HasConflict(t, rwSet[t].writes)
RAW(t) == writeReserve!HasConflict(t, rwSet[t].reads)

\* Mutants: errors are overlooked, the RAW and WAR conflicts are, a transaction with
\* a WAW conflict is in neither list.
ErrorIgnored(t) == WAW(t) \/ (WAR(t) /\ RAW(t))
WawOnlyRepeats(t) == errs[t] \notin {"nil", "ErrFalsePredict"} \/ WAW(t)
WawForgotten(t) == (~WAR(t) \/ ~RAW(t)) /\ ~WAW(t) /\ errs[t] # "nil"

\* geth.go: in one of the lists, or, with both RAW and WAR, in neither.
MultiRoundCommits(t) == ~WAW(t) /\ (~WAR(t) \/ ~RAW(t)) /\ errs[t] = "nil"
MultiRoundRepeats(t) == WAW(t) \/ ((~WAR(t) \/ ~RAW(t)) /\ errs[t] # "nil")

\* aria.go: a false prediction is no error here.
OneRoundRepeats(t) == errs[t] \notin {"nil", "ErrFalsePredict"} \/ WAW(t) \/ (WAR(t) /\ RAW(t))

Commits(t) == IF MultiRound THEN MultiRoundCommits(t) ELSE ~OneRoundRepeats(t)
Repeats(t) == IF MultiRound THEN MultiRoundRepeats(t) ELSE OneRoundRepeats(t)

\* The slots that MergeState writes: of the dirty addresses, whatever the cache
\* holds.
MergedKeys(t) ==
    LET dirty == IF errs[t] = "nil" THEN DirtyAccounts(rwSet[t]) ELSE {}
    IN  {k \in Predicted[t] : k[1] \in dirty}

\* wg.Wait has returned: the decision, and the list of the next round.
Decide ==
    /\ phase = "execute" /\ \A t \in list : task[t] = "finished"
    /\ committed' = {t \in list : Commits(t)}
    /\ toMerge' = [t \in Txs |-> IF t \in list /\ Commits(t) THEN MergedKeys(t) ELSE {}]
    /\ list' = {t \in list : Repeats(t)}
    /\ phase' = "merge"
    /\ UNCHANGED <<task, runVars, full, readVars, writeVars, before, effective>>

\* One SetState of a MergeState, in any order of the keys.
MergeKey(t, k) ==
    /\ phase = "merge" /\ k \in toMerge[t]
    /\ Started(t, {u \in Txs : toMerge[u] # {}})
    /\ full' = [full EXCEPT ![k] = cache[t][k]]
    /\ toMerge' = [toMerge EXCEPT ![t] = @ \ {k}]
    /\ UNCHANGED <<list, phase, task, runVars, readVars, writeVars, historyVars>>

MergeDone == phase = "merge" /\ \A t \in Txs : toMerge[t] = {}

EndRound ==
    /\ MergeDone
    /\ effective' = effective \cup {t \in committed : errs[t] = "nil"}
    /\ phase' = IF MultiRound /\ list # {} THEN "prefetch" ELSE "done"
    /\ UNCHANGED <<list, task, runVars, full, toMerge, readVars, writeVars, before, committed>>

Returned == phase = "done" /\ UNCHANGED vars

Next ==
    /\ \/ Prefetch
       \/ \E t \in Txs : Execute(t) \/ ReserveReads(t) \/ ThenWrites(t) \/ ReserveWrites(t) \/ FinishTask(t)
       \/ Decide
       \/ \E t \in Txs, k \in Keys : MergeKey(t, k)
       \/ EndRound
       \/ Returned
    /\ UNCHANGED setup

\* Go's scheduler runs every runnable goroutine in the end, and each action is
\* a bounded piece of one.
Spec == Init /\ [][Next]_vars /\ WF_vars(Next)
-----------------------------------------------------------------------------
(* Properties.                                                              *)

Overlap(t, u) ==
    \/ rwSet[t].writes \cap (rwSet[u].reads \cup rwSet[u].writes) # {}
    \/ rwSet[t].reads \cap rwSet[u].writes # {}

\* Even when reservations are lost in a race, none is made up: a transaction
\* that ran without error and whose RW set meets that of no lower transaction
\* of the round is committed.  In particular the lowest one always is.
UnconflictedCommits ==
    [][phase = "execute" /\ phase' = "merge" =>
        \A t \in list :
            errs[t] = "nil" /\ (\A u \in list : u < t => ~Overlap(t, u)) => t \in committed']_vars

\* However the reservations race, every transaction of a round goes one way: it
\* is committed, for the first time and the last, or it is in the next round, or
\* the multi-round driver drops it (geth.go:355-361).  It drops only those that
\* have read what a lower transaction of the round writes and written what a lower
\* one reads.
OneWayOut ==
    [][phase = "execute" /\ phase' = "merge" =>
        \A t \in list :
            /\ t \notin effective
            /\ t \in committed' => t \notin list'
            /\ t \notin committed' \cup list' =>
                /\ MultiRound
                /\ \E u \in list : u < t /\ rwSet[t].reads \cap rwSet[u].writes # {}
                /\ \E u \in list : u < t /\ rwSet[t].writes \cap rwSet[u].reads # {}]_vars

\* With every prediction right and no transaction refused, the rounds come to
\* an end, whatever the schedule and however the reservations race.
Finishes ==
    LET NoLastingError ==
            /\ Refusable = {}
            /\ \A t \in Txs : \A rw \in Behaviours[t] : rw.reads \cup rw.writes \subseteq Predicted[t]
    IN  NoLastingError => <>(phase = "done")

\* aria.go:41, an error "we must deal next time": the one-round driver loses a
\* transaction only if its prediction was false.  Then its cache has been
\* reverted, but it passes for committed.  However the reservations race, all
\* others are in the full cache or in the list of those to run again.
OneRoundLosesOnlyFalse ==
    phase = "done" /\ ~MultiRound =>
        \A t \in Txs \ (effective \cup list) : errs[t] = "ErrFalsePredict"

\* The stores that running the transactions of a set one after the other, in
\* some order, can leave.
SerialStores(txs, store) ==
    {SerialStore(order, rwSet, store) : order \in SetToSeqs(txs)}

\* Aria's promise, unless tasks have raced in Reserve over a key that one of the
\* committed transactions writes and another touches: what a round decides to
\* commit is what some serial execution of the committed transactions leaves, and
\* what it merges is that, unless a merge writes back a slot that another
\* transaction has written.
RoundSerializable ==
    LET run == {t \in committed : errs[t] = "nil"}
        Writers(k) == {t \in run : k \in rwSet[t].writes}
        Touchers(k) == {t \in run : k \in rwSet[t].reads \cup rwSet[t].writes}
        unraced == \A k \in readRaced \cup writeRaced : \A t \in Writers(k) : Touchers(k) = {t}
        decided == [k \in Keys |-> IF Writers(k) = {} THEN before[k]
                                   ELSE LET t == CHOOSE t \in Writers(k) : TRUE IN cache[t][k]]
        writtenBack == \E k \in Keys : \E t \in Writers(k), u \in run : t # u /\ k \in MergedKeys(u)
    IN  MergeDone /\ unraced => decided \in SerialStores(run, before) /\ (~writtenBack => full = decided)

\* aria.go:48, WAW conflicts are found: no two committed transactions have
\* written the same key.  Two workers that race in Reserve can both be.
CommittedDontShareWrites ==
    phase = "merge" => \A t, u \in committed : t # u => rwSet[t].writes \cap rwSet[u].writes = {}

\* aria.go:52, a transaction with both RAW and WAR conflicts goes to the rest:
\* none is lost.  The multi-round driver puts it in neither list.
NoTxLost == phase = "done" => Txs \subseteq effective \cup list

\* cachestate.go:474, merging only the write set would be an optimisation: a
\* committed write is in the full cache when the merge is over.  A cache that
\* has only read the slot may write the old value back over it.
CommittedWritesSurvive ==
    MergeDone => \A t \in committed :
        errs[t] = "nil" => \A k \in rwSet[t].writes : full[k].tx = t
=============================================================================
