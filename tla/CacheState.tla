----------------------------- MODULE CacheState -----------------------------
(***************************************************************************)
(* One CacheState (state/cachestate.go, journal.go, account.go) from its   *)
(* prefetch to its merge: the private, journaled view of the database on   *)
(* which ExecuteTxs (tracer/execute.go) runs a group of transactions one   *)
(* after the other.  The EVM, which is a library, appears as the calls it  *)
(* makes: any setter or getter, at any call depth, in any order; a call    *)
(* frame takes a Snapshot when it is entered and is reverted to it when it *)
(* fails.                                                                  *)
(*                                                                         *)
(* RevertToSnapshot is a loop in the code and a loop here: one journal     *)
(* entry is undone per step, and nothing else happens until it ends.       *)
(***************************************************************************)
EXTENDS Integers, Sequences

CONSTANTS
    Addresses,      \* account addresses
    Slots,          \* storage slots of an account
    Values,         \* contents of a slot
    ZeroValue,      \* common.Hash{}
    NoValue,        \* the slot has no entry in CacheStorage
    Nil,            \* the address has no entry in Accounts
    Codes,          \* contract codes
    NoCode,         \* the nil byte slice
    Amounts,        \* amounts passed to the balance setters
    Nonces,         \* nonces passed to SetNonce
    InitialDB,      \* the database the cache is prefetched from
    Predictions,    \* the RW sets a group may be predicted to touch
    MaxTxs,         \* bound: transactions in the group
    MaxJournal,     \* bound: entries in the journal
    MaxRevisions,   \* bound: snapshots ever taken
    MaxDepth,       \* bound: nested frames (executeTx's own included)
    MaxLogs         \* bound: logs held by the cache

\* crypto.Keccak256Hash, taken to be free of collisions; the zero hash is what
\* the database answers for an account that does not exist.
Keccak256(code) == <<"keccak256", code>>
ZeroHash == <<"zero">>
Hashes == {Keccak256(c) : c \in Codes \cup {NoCode}} \cup {ZeroHash}

\* The RW-set keys of accesslist/rw_accesslist.go: five for the fields of an
\* account, or a storage slot.
AccountKeys == {"BALANCE", "NONCE", "CODE", "CODEHASH", "ALIVE"}
Keys == Addresses \X (AccountKeys \cup Slots)

AccountObject ==
    [Balance : Int, Nonce : Nat, CodeHash : Hashes, ByteCode : Codes \cup {NoCode},
     IsAlive : BOOLEAN, CacheStorage : [Slots -> Values \cup {NoValue}]]

AccountMap == [Addresses -> AccountObject \cup {Nil}]

ASSUME CacheStateAssumption ==
    /\ ZeroValue \in Values /\ NoValue \notin Values
    /\ Nil \notin AccountObject
    /\ Amounts \subseteq Nat /\ Nonces \subseteq Nat
    /\ InitialDB \in [Addresses -> AccountObject]
    /\ \A a \in Addresses : InitialDB[a].CacheStorage \in [Slots -> Values]
    /\ Predictions \subseteq SUBSET Keys
    /\ MaxTxs \in Nat /\ MaxJournal \in Nat /\ MaxRevisions \in Nat
    /\ MaxDepth \in Nat /\ MaxLogs \in Nat

VARIABLES
    Accounts,       \* address -> account object, or Nil when not in the map
    entries,        \* Journal.entries
    dirties,        \* Journal.dirties; 0 stands for an absent key
    ValidRevisions, \* sequence of [id, journalIndex]
    NextRevisionId,
    StateJudge,     \* FALSE once something unpredicted was touched
    Logs,           \* the logs held by the cache (their Index fields)
    predicted,      \* the RW sets of the group: what Prefetch is given
    prefectched,    \* the keys prefetched so far
    frames,         \* the snapshots held by executeTx and the EVM's frames
    undo,           \* the loop variables of a RevertToSnapshot in progress
    errs,           \* the results of the group's transactions
    merged,         \* the addresses MergeState has written to the database
    db,             \* the database
    pc,             \* where the worker stands
    (***********************************************************************)
    (* History variables, which no action reads: the state before each     *)
    (* journal entry; what storage would hold if the transactions ran on   *)
    (* the database itself; whether this transaction read a slot that was  *)
    (* not so.                                                             *)
    (***********************************************************************)
    past, truth, stale

journalVars == <<Accounts, entries, dirties, past>>
revisionVars == <<ValidRevisions, NextRevisionId>>
groupVars == <<predicted, prefectched, errs, merged, db>>
ghostVars == <<truth, stale>>
vars == <<journalVars, revisionVars, groupVars, ghostVars,
          StateJudge, Logs, frames, undo, pc>>

NewAccountObject ==
    [Balance |-> 0, Nonce |-> 0, CodeHash |-> Keccak256(NoCode), ByteCode |-> NoCode,
     IsAlive |-> TRUE, CacheStorage |-> [k \in Slots |-> NoValue]]

NoUndo == [next |-> 0, snapshot |-> 0, idx |-> 1]

Init ==
    /\ Accounts = [a \in Addresses |-> Nil]
    /\ entries = <<>> /\ dirties = [a \in Addresses |-> 0] /\ past = <<>>
    /\ ValidRevisions = <<>> /\ NextRevisionId = 0
    /\ StateJudge = TRUE
    /\ Logs = <<>>
    /\ predicted \in Predictions /\ prefectched = {}
    /\ frames = <<>> /\ undo = NoUndo
    /\ errs = <<>> /\ merged = {} /\ db = InitialDB
    /\ truth = [a \in Addresses |-> InitialDB[a].CacheStorage]
    /\ stale = FALSE
    /\ pc = "prefetch"

-----------------------------------------------------------------------------
(* Prefetch: one prefetchSetter call per predicted key, in the order in     *)
(* which Go happens to range over the maps.                                 *)

Prefetched(obj, a, key) ==
    CASE key = "BALANCE"  -> [obj EXCEPT !.Balance = db[a].Balance]
      [] key = "NONCE"    -> [obj EXCEPT !.Nonce = db[a].Nonce]
      [] key = "CODEHASH" -> [obj EXCEPT !.CodeHash = db[a].CodeHash]
      [] key = "CODE"     -> [obj EXCEPT !.ByteCode = db[a].ByteCode]
      [] key = "ALIVE"    -> [obj EXCEPT !.IsAlive = db[a].IsAlive]
      [] OTHER            -> [obj EXCEPT !.CacheStorage[key] = db[a].CacheStorage[key]]

prefetchSetter(a, key) ==
    /\ pc = "prefetch"
    /\ <<a, key>> \in predicted \ prefectched
    /\ prefectched' = prefectched \cup {<<a, key>>}
    /\ LET obj == IF Accounts[a] = Nil THEN NewAccountObject ELSE Accounts[a]
       IN  Accounts' = [Accounts EXCEPT ![a] = Prefetched(obj, a, key)]
    /\ UNCHANGED <<entries, dirties, past, revisionVars, StateJudge, Logs, predicted,
                   frames, undo, errs, merged, db, ghostVars, pc>>

PrefetchDone ==
    /\ pc = "prefetch" /\ predicted \subseteq prefectched
    /\ pc' = "idle"
    /\ UNCHANGED <<journalVars, revisionVars, groupVars, ghostVars,
                   StateJudge, Logs, frames, undo>>

-----------------------------------------------------------------------------
(* Snapshots.                                                               *)

\* Mutant: the snapshot skips the next journal entry.
SnapshotOneLate ==
    /\ NextRevisionId < MaxRevisions
    /\ NextRevisionId' = NextRevisionId + 1
    /\ ValidRevisions' = Append(ValidRevisions,
            [id |-> NextRevisionId, journalIndex |-> Len(entries) + 1])

\* Snapshot(): its id and journal length, pushed on ValidRevisions.
Snapshot ==
    /\ NextRevisionId < MaxRevisions
    /\ NextRevisionId' = NextRevisionId + 1
    /\ ValidRevisions' = Append(ValidRevisions,
            [id |-> NextRevisionId, journalIndex |-> Len(entries)])

\* The id a caller of Snapshot keeps, with what the cache held at that moment.
Frame == [id |-> NextRevisionId, logs |-> Logs,
          saved |-> [acc |-> Accounts, dirty |-> dirties, truth |-> truth]]

Top == frames[Len(frames)]

\* sort.Search: the first revision whose id is not below revid, or one past
\* the end.
Search(revid) ==
    CHOOSE idx \in 1..(Len(ValidRevisions) + 1) :
        /\ \A j \in 1..(idx - 1) : ValidRevisions[j].id < revid
        /\ idx <= Len(ValidRevisions) => ValidRevisions[idx].id >= revid

\* The beginning of RevertToSnapshot: find the revision, or panic.
RevertToSnapshot(revid) ==
    LET idx == Search(revid)
        found == idx <= Len(ValidRevisions) /\ ValidRevisions[idx].id = revid
    IN  /\ pc' = IF found THEN "undo" ELSE "panic"
        /\ undo' = IF found
                   THEN [next |-> Len(entries), idx |-> idx,
                         snapshot |-> ValidRevisions[idx].journalIndex]
                   ELSE undo

\* Mutant: a revert forgets the slot.
StorageKept(e, acc) == acc

\* What undoing one journal entry does to the account map.
UndoneStorage(e, acc) == [acc EXCEPT ![e.account].CacheStorage[e.key] = e.prevalue]

UndoneSelfDestruct(e, acc) ==
    IF acc[e.account] = Nil THEN acc
    ELSE [acc EXCEPT ![e.account] = [@ EXCEPT !.IsAlive = e.prev, !.Balance = e.prevbalance]]

UndoneAccounts(e, acc) ==
    CASE e.kind = "createObjectChange" -> [acc EXCEPT ![e.account] = Nil]
      [] e.kind = "selfDestructChange" -> UndoneSelfDestruct(e, acc)
      [] e.kind = "balanceChange" -> [acc EXCEPT ![e.account].Balance = e.prev]
      [] e.kind = "nonceChange"   -> [acc EXCEPT ![e.account].Nonce = e.prev]
      [] e.kind = "codeChange"    -> [acc EXCEPT ![e.account] =
                    [@ EXCEPT !.ByteCode = e.prevcode, !.CodeHash = e.prevhash]]
      [] OTHER -> UndoneStorage(e, acc)

\* The entries whose revert dereferences the account without a nil check.
Dereferences(e) == e.kind \notin {"createObjectChange", "selfDestructChange"}

\* Mutant: a revert leaves the address dirty.
DirtiesKept(e, dirty) == dirty

UndoneDirties(e, dirty) == [dirty EXCEPT ![e.account] = @ - 1]

\* One iteration of the loop of journal.revert.
UndoEntry ==
    /\ pc = "undo" /\ undo.next > undo.snapshot
    /\ LET e == entries[undo.next]
           nilDeref == Dereferences(e) /\ Accounts[e.account] = Nil
       IN  /\ pc' = IF nilDeref THEN "panic" ELSE "undo"
           /\ Accounts' = IF nilDeref THEN Accounts ELSE UndoneAccounts(e, Accounts)
           /\ dirties' = UndoneDirties(e, dirties)
    /\ undo' = [undo EXCEPT !.next = @ - 1]
    /\ UNCHANGED <<entries, past, revisionVars, groupVars, ghostVars,
                   StateJudge, Logs, frames>>

\* Mutant: the undone entries stay in the journal.
NotTruncated(seq) == seq

\* What is left of the journal (and its history) after the revert.
Truncated(seq) == SubSeq(seq, 1, undo.snapshot)

\* The end of RevertToSnapshot: truncate the journal and the revisions; the
\* frame that asked for it returns to its caller.
FinishRevert ==
    /\ pc = "undo" /\ undo.next <= undo.snapshot
    /\ entries' = Truncated(entries)
    /\ past' = Truncated(past)
    /\ ValidRevisions' = SubSeq(ValidRevisions, 1, undo.idx - 1)
    /\ truth' = Top.saved.truth
    /\ frames' = SubSeq(frames, 1, Len(frames) - 1)
    /\ pc' = IF Len(frames) = 1 THEN "idle" ELSE "exec"
    /\ undo' = NoUndo
    /\ UNCHANGED <<Accounts, dirties, NextRevisionId, groupVars, stale,
                   StateJudge, Logs>>

-----------------------------------------------------------------------------
(* executeTx, once per transaction of the group, and the EVM's call frames. *)

\* TransactionToMessage failed: no snapshot is taken, nothing is executed.
InvalidTx ==
    /\ pc = "idle" /\ Len(errs) < MaxTxs
    /\ errs' = Append(errs, "invalid")
    /\ UNCHANGED <<journalVars, revisionVars, ghostVars, predicted, prefectched, merged, db,
                   StateJudge, Logs, frames, undo, pc>>

\* ApplyMessage returned an error: TransitionDb finds it before it writes
\* anything, and executeTx returns without giving the snapshot back.
RejectedTx ==
    /\ pc = "idle" /\ Len(errs) < MaxTxs
    /\ Snapshot
    /\ errs' = Append(errs, "rejected")
    /\ UNCHANGED <<journalVars, ghostVars, predicted, prefectched, merged, db,
                   StateJudge, Logs, frames, undo, pc>>

BeginTx ==
    /\ pc = "idle" /\ Len(errs) < MaxTxs
    /\ Snapshot
    /\ frames' = <<Frame>>
    /\ stale' = FALSE
    /\ pc' = "exec"
    /\ UNCHANGED <<journalVars, groupVars, truth, StateJudge, Logs, undo>>

\* The EVM enters a call or create frame, ...
EnterCall ==
    /\ pc = "exec" /\ Len(frames) < MaxDepth
    /\ Snapshot
    /\ frames' = Append(frames, Frame)
    /\ UNCHANGED <<journalVars, groupVars, ghostVars, StateJudge, Logs, undo, pc>>

\* ... returns from it, leaving its snapshot among the valid revisions, ...
ReturnCall ==
    /\ pc = "exec" /\ Len(frames) > 1
    /\ frames' = SubSeq(frames, 1, Len(frames) - 1)
    /\ UNCHANGED <<journalVars, revisionVars, groupVars, ghostVars, StateJudge, Logs, undo, pc>>

\* ... or fails in it.
FailCall ==
    /\ pc = "exec" /\ Len(frames) > 1
    /\ RevertToSnapshot(Top.id)
    /\ UNCHANGED <<journalVars, revisionVars, groupVars, ghostVars, StateJudge, Logs, frames>>

\* ApplyMessage returned nil and the prediction held.
CommitTx ==
    /\ pc = "exec" /\ Len(frames) = 1 /\ StateJudge
    /\ errs' = Append(errs, "nil")
    /\ frames' = <<>>
    /\ pc' = "idle"
    /\ UNCHANGED <<journalVars, revisionVars, ghostVars, predicted, prefectched, merged, db,
                   StateJudge, Logs, undo>>

\* Mutant: executeTx does not set StateJudge back for the next transaction.
FalsePredictTxKeepsJudge ==
    /\ pc = "exec" /\ Len(frames) = 1 /\ ~StateJudge
    /\ RevertToSnapshot(Top.id)
    /\ errs' = Append(errs, "ErrFalsePredict")
    /\ UNCHANGED <<journalVars, revisionVars, ghostVars, predicted, prefectched, merged, db,
                   Logs, frames, StateJudge>>

\* ApplyMessage returned nil, but the prediction was false.
FalsePredictTx ==
    /\ pc = "exec" /\ Len(frames) = 1 /\ ~StateJudge
    /\ StateJudge' = TRUE
    /\ RevertToSnapshot(Top.id)
    /\ errs' = Append(errs, "ErrFalsePredict")
    /\ UNCHANGED <<journalVars, revisionVars, ghostVars, predicted, prefectched, merged, db,
                   Logs, frames>>

-----------------------------------------------------------------------------
(* The operations of the cache, as the running transaction calls them.      *)

\* Mutant: journal.append forgets to count the entry.
RecordUncounted(e) ==
    /\ Len(entries) < MaxJournal
    /\ entries' = Append(entries, e)
    /\ past' = Append(past, [acc |-> Accounts, dirty |-> dirties])
    /\ UNCHANGED dirties

\* journal.append
Record(e) ==
    /\ Len(entries) < MaxJournal
    /\ entries' = Append(entries, e)
    /\ dirties' = [dirties EXCEPT ![e.account] = @ + 1]
    /\ past' = Append(past, [acc |-> Accounts, dirty |-> dirties])

\* What every operation of a transaction leaves alone.
OpFrame == UNCHANGED <<revisionVars, groupVars, frames, undo, pc>>

\* A setter that met no account object: it does nothing, and says nothing.
Dropped(a) ==
    /\ pc = "exec" /\ Accounts[a] = Nil
    /\ UNCHANGED <<journalVars, ghostVars, StateJudge, Logs>>
    /\ OpFrame

CreateAccount(a) ==
    /\ pc = "exec" /\ Accounts[a] = Nil
    /\ Record([kind |-> "createObjectChange", account |-> a])
    /\ Accounts' = [Accounts EXCEPT ![a] = NewAccountObject]
    /\ UNCHANGED <<ghostVars, StateJudge, Logs>>
    /\ OpFrame

\* SubBalance, AddBalance and SetBalance: an amount of 0 is journaled too.
ChangeBalance(a, balance) ==
    /\ pc = "exec" /\ Accounts[a] # Nil
    /\ Record([kind |-> "balanceChange", account |-> a, prev |-> Accounts[a].Balance])
    /\ Accounts' = [Accounts EXCEPT ![a].Balance = balance]
    /\ UNCHANGED <<ghostVars, StateJudge, Logs>>
    /\ OpFrame

SubBalance(a, amount) == ChangeBalance(a, Accounts[a].Balance - amount)
AddBalance(a, amount) == ChangeBalance(a, Accounts[a].Balance + amount)
SetBalance(a, amount) == ChangeBalance(a, amount)

SetNonce(a, nonce) ==
    /\ pc = "exec" /\ Accounts[a] # Nil
    /\ Record([kind |-> "nonceChange", account |-> a, prev |-> Accounts[a].Nonce])
    /\ Accounts' = [Accounts EXCEPT ![a].Nonce = nonce]
    /\ UNCHANGED <<ghostVars, StateJudge, Logs>>
    /\ OpFrame

SetCode(a, code) ==
    /\ pc = "exec" /\ Accounts[a] # Nil
    /\ Record([kind |-> "codeChange", account |-> a, prevcode |-> Accounts[a].ByteCode,
               prevhash |-> Accounts[a].CodeHash])
    /\ Accounts' = [Accounts EXCEPT ![a] =
                    [@ EXCEPT !.ByteCode = code, !.CodeHash = Keccak256(code)]]
    /\ UNCHANGED <<ghostVars, StateJudge, Logs>>
    /\ OpFrame

SelfDestruct(a) ==
    /\ pc = "exec" /\ Accounts[a] # Nil
    /\ Record([kind |-> "selfDestructChange", account |-> a, prev |-> Accounts[a].IsAlive,
               prevbalance |-> Accounts[a].Balance])
    /\ Accounts' = [Accounts EXCEPT ![a] = [@ EXCEPT !.IsAlive = FALSE, !.Balance = 0]]
    /\ UNCHANGED <<ghostVars, StateJudge, Logs>>
    /\ OpFrame

Cached(a, k) == Accounts[a] # Nil /\ Accounts[a].CacheStorage[k] # NoValue

\* Mutant: an unpredicted slot goes unnoticed.
NeverJudged(a, k) == StateJudge

\* StateJudge after the slot was asked for.
Judged(a, k) == StateJudge /\ Cached(a, k)

\* SetState and SetTransientState, for a slot that is in the cache ...
SetState(a, k, value) ==
    /\ pc = "exec" /\ Cached(a, k)
    /\ Record([kind |-> "storageChange", account |-> a, key |-> k,
               prevalue |-> Accounts[a].CacheStorage[k]])
    /\ Accounts' = [Accounts EXCEPT ![a].CacheStorage[k] = value]
    /\ truth' = [truth EXCEPT ![a][k] = value]
    /\ UNCHANGED <<stale, StateJudge, Logs>>
    /\ OpFrame

\* ... and for one that is not: the write is dropped and the prediction false.
SetStateMiss(a, k, value) ==
    /\ pc = "exec" /\ ~Cached(a, k)
    /\ StateJudge' = Judged(a, k)
    /\ truth' = [truth EXCEPT ![a][k] = value]
    /\ UNCHANGED <<journalVars, stale, Logs>>
    /\ OpFrame

\* GetState, GetCommittedState and GetTransientState.
GetState(a, k) ==
    LET value == IF Cached(a, k) THEN Accounts[a].CacheStorage[k] ELSE ZeroValue
    IN  /\ pc = "exec"
        /\ StateJudge' = Judged(a, k)
        /\ stale' = (stale \/ value # truth[a][k])
        /\ UNCHANGED <<journalVars, truth, Logs>>
        /\ OpFrame

\* GetCode, GetCodeHash, GetCodeSize and SetCode of an account not in the map.
CodeMiss(a) ==
    /\ pc = "exec" /\ Accounts[a] = Nil
    /\ StateJudge' = FALSE
    /\ UNCHANGED <<journalVars, ghostVars, Logs>>
    /\ OpFrame

\* AddLog appends a log whose Index is logSize, which nothing ever advances;
\* no journal entry is made.
AddLog ==
    /\ pc = "exec" /\ Len(Logs) < MaxLogs
    /\ Logs' = Append(Logs, 0)
    /\ UNCHANGED <<journalVars, ghostVars, StateJudge>>
    /\ OpFrame

Operation ==
    \/ \E a \in Addresses :
        \/ CreateAccount(a) \/ SelfDestruct(a) \/ CodeMiss(a) \/ Dropped(a)
        \/ \E n \in Amounts : SubBalance(a, n) \/ AddBalance(a, n) \/ SetBalance(a, n)
        \/ \E n \in Nonces : SetNonce(a, n)
        \/ \E c \in Codes : SetCode(a, c)
        \/ \E k \in Slots :
            \/ GetState(a, k)
            \/ \E v \in Values : SetState(a, k, v) \/ SetStateMiss(a, k, v)
    \/ AddLog

-----------------------------------------------------------------------------
(* MergeState, once the whole group has run.                                *)

Dirty == {a \in Addresses : dirties[a] # 0}

StartMerge ==
    /\ pc = "idle" /\ Len(errs) = MaxTxs
    /\ pc' = "merge"
    /\ UNCHANGED <<journalVars, revisionVars, groupVars, ghostVars,
                   StateJudge, Logs, frames, undo>>

\* One iteration over the dirty addresses, in any order: balance, nonce, code
\* and every slot of the cache, whether it was written or only read.
MergeAccount(a) ==
    /\ pc = "merge" /\ a \in Dirty \ merged
    /\ merged' = merged \cup {a}
    /\ IF Accounts[a] = Nil
       THEN pc' = "panic" /\ db' = db
       ELSE /\ pc' = "merge"
            /\ db' = [db EXCEPT ![a] =
                [Balance |-> Accounts[a].Balance, Nonce |-> Accounts[a].Nonce,
                 ByteCode |-> Accounts[a].ByteCode,
                 CodeHash |-> Keccak256(Accounts[a].ByteCode), IsAlive |-> TRUE,
                 CacheStorage |-> [k \in Slots |-> IF Cached(a, k)
                                                   THEN Accounts[a].CacheStorage[k]
                                                   ELSE db[a].CacheStorage[k]]]]
    /\ UNCHANGED <<journalVars, revisionVars, ghostVars, predicted, prefectched, errs,
                   StateJudge, Logs, frames, undo>>

MergeDone ==
    /\ pc = "merge" /\ Dirty \subseteq merged
    /\ pc' = "done"
    /\ UNCHANGED <<journalVars, revisionVars, groupVars, ghostVars,
                   StateJudge, Logs, frames, undo>>

\* The task has returned to the pool.
Returned == pc = "done" /\ UNCHANGED vars

Next ==
    \/ \E a \in Addresses, key \in AccountKeys \cup Slots : prefetchSetter(a, key)
    \/ PrefetchDone
    \/ InvalidTx \/ RejectedTx \/ BeginTx \/ CommitTx \/ FalsePredictTx
    \/ EnterCall \/ ReturnCall \/ FailCall
    \/ Operation
    \/ UndoEntry \/ FinishRevert
    \/ StartMerge \/ (\E a \in Addresses : MergeAccount(a)) \/ MergeDone
    \/ Returned

Spec == Init /\ [][Next]_vars
-----------------------------------------------------------------------------
(* Properties.                                                              *)

\* Stands for the store during a revert: it is not a pair.
Busy == <<>>

\* The abstraction: frames to saved contents, the store hidden during a revert.
Store == INSTANCE RevertibleStore WITH
            Busy  <- Busy,
            store <- IF pc = "undo" THEN Busy ELSE <<Accounts, dirties>>,
            saves <- [i \in 1..Len(frames) |-> <<frames[i].saved.acc, frames[i].saved.dirty>>]

\* Every Snapshot/RevertToSnapshot pair, of an EVM call frame or of executeTx
\* after a false prediction, at any depth, gives back exactly the account map
\* and the dirty counts of the moment of the snapshot, whatever was written,
\* created, destroyed, kept or reverted in between.
RevertRestores == Store!Spec

JournalEntry ==
    [kind : {"createObjectChange"}, account : Addresses]
    \cup [kind : {"selfDestructChange"}, account : Addresses, prev : BOOLEAN, prevbalance : Int]
    \cup [kind : {"balanceChange"}, account : Addresses, prev : Int]
    \cup [kind : {"nonceChange"}, account : Addresses, prev : Nat]
    \cup [kind : {"codeChange"}, account : Addresses, prevcode : Codes \cup {NoCode},
         prevhash : Hashes]
    \cup [kind : {"storageChange"}, account : Addresses, key : Slots, prevalue : Values]

Revision == [id : Nat, journalIndex : Nat]

Moment == [acc : AccountMap, dirty : [Addresses -> Nat]]

TruthMap == [Addresses -> [Slots -> Values]]

FrameType == [id : Nat, logs : Seq({0}),
              saved : [acc : AccountMap, dirty : [Addresses -> Nat], truth : TruthMap]]

\* The type invariant.
TypeOK ==
    /\ Accounts \in AccountMap
    /\ entries \in Seq(JournalEntry)
    /\ dirties \in [Addresses -> Nat]
    /\ past \in Seq(Moment)
    /\ ValidRevisions \in Seq(Revision)
    /\ NextRevisionId \in Nat
    /\ StateJudge \in BOOLEAN
    /\ Logs \in Seq({0})
    /\ predicted \subseteq Keys /\ prefectched \subseteq Keys
    /\ frames \in Seq(FrameType)
    /\ undo \in [next : Nat, snapshot : Nat, idx : Nat \ {0}]
    /\ errs \in Seq({"invalid", "rejected", "nil", "ErrFalsePredict"})
    /\ merged \subseteq Addresses
    /\ db \in [Addresses -> AccountObject]
    /\ truth \in TruthMap
    /\ stale \in BOOLEAN
    /\ pc \in {"prefetch", "idle", "exec", "undo", "merge", "done", "panic"}

\* No sequence of calls makes the worker panic: RevertToSnapshot always finds
\* its revision id, no journal entry is undone on an account that is gone, and
\* MergeState finds an account object for every dirty address.  (A panic would
\* also leave the wait group waiting for ever: wg.Done is not deferred.)
NoPanic == pc # "panic"

\* While StateJudge stands, every slot of the cache holds what the storage
\* would hold had the transactions run on the database: across nested reverts,
\* transactions reverted for a false prediction and their successors.
Agrees(acc, storage) ==
    \A a \in Addresses, k \in Slots :
        acc[a] # Nil /\ acc[a].CacheStorage[k] # NoValue
            => acc[a].CacheStorage[k] = storage[a][k]

CacheTellsTruth == StateJudge /\ pc \in {"idle", "exec"} => Agrees(Accounts, truth)

\* A transaction that read a slot value the database would not have given it
\* cannot be committed: GetState itself may be wrong only after something has
\* cleared StateJudge, and no revert sets it again.
StaleReadsInvalidate == pc = "exec" /\ stale => ~StateJudge

\* After the merge the database's storage is what running the group's accepted
\* transactions directly on it, one after the other, would have left.
MergeIsSerial ==
    pc = "done" => \A a \in Addresses : db[a].CacheStorage = truth[a]

\* journal.go:35-37, "the list of state modifications applied since the last
\* state commit ... tracked to be able to be reverted": a revert takes back the
\* logs too.  It does not: AddLog makes no journal entry.
RevertDropsLogs ==
    [][pc = "undo" /\ pc' \in {"idle", "exec"} => Logs' = Top.logs]_vars
=============================================================================
