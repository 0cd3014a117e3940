---------------------------- MODULE CacheStateInv ----------------------------
(***************************************************************************)
(* The inductive invariant of CacheState: why a revert gives back what its *)
(* snapshot saw.  The journal is an undo log of a history of points, one   *)
(* before each live entry and the present one; undoing an entry at the     *)
(* point after it gives the point before it; and each snapshot that some   *)
(* frame still holds names the point that it saw.                          *)
(***************************************************************************)
EXTENDS CacheState

\* The entries of the journal that are not undone yet.
Live == IF pc = "undo" THEN undo.next ELSE Len(entries)

\* The state before the i-th live entry; the present one after the last.
Present == [acc |-> Accounts, dirty |-> dirties]
Point(i) == IF i = Live + 1 THEN Present ELSE past[i]

\* The account of a live entry is in the map when the entry is undone, and
\* undoing it yields the point before it.
JournalInv ==
    /\ Len(past) = Len(entries)
    /\ Live \in 0..Len(entries)
    /\ \A i \in 1..Live :
        /\ Point(i + 1).acc[entries[i].account] # Nil
        /\ UndoneAccounts(entries[i], Point(i + 1).acc) = past[i].acc
        /\ UndoneDirties(entries[i], Point(i + 1).dirty) = past[i].dirty

\* A dirty account is in the map, now and at every point a revert may restore.
DirtyExists(point) == \A a \in Addresses : point.dirty[a] # 0 => point.acc[a] # Nil
DirtyInv == \A i \in 1..(Live + 1) : DirtyExists(Point(i))

\* Revision ids and journal indices grow along ValidRevisions.
RevisionInv ==
    /\ \A r \in 1..Len(ValidRevisions) :
        /\ ValidRevisions[r].id < NextRevisionId
        /\ ValidRevisions[r].journalIndex <= Len(entries)
    /\ \A r, s \in 1..Len(ValidRevisions) : r < s =>
        /\ ValidRevisions[r].id < ValidRevisions[s].id
        /\ ValidRevisions[r].journalIndex <= ValidRevisions[s].journalIndex

\* The snapshot of every open frame is valid and names the point it saw.
Names(r, frame) ==
    /\ ValidRevisions[r].id = frame.id
    /\ ValidRevisions[r].journalIndex <= Live
    /\ Point(ValidRevisions[r].journalIndex + 1)
            = [acc |-> frame.saved.acc, dirty |-> frame.saved.dirty]
FrameInv ==
    /\ \A f \in 1..Len(frames) : \E r \in 1..Len(ValidRevisions) : Names(r, frames[f])
    /\ \A f, g \in 1..Len(frames) : f < g => frames[f].id < frames[g].id

\* A revert in progress heads for the snapshot of the innermost frame.
UndoInv ==
    pc = "undo" =>
        /\ frames # <<>>
        /\ undo.idx \in 1..Len(ValidRevisions)
        /\ ValidRevisions[undo.idx].id = Top.id
        /\ ValidRevisions[undo.idx].journalIndex = undo.snapshot
        /\ undo.snapshot <= undo.next

ControlInv ==
    /\ pc # "panic"
    /\ pc \in {"prefetch", "idle", "merge", "done"} <=> frames = <<>>
    /\ pc = "prefetch" => entries = <<>> /\ ValidRevisions = <<>>

\* The structural part, on which the rest depends.
IInv ==
    /\ TypeOK
    /\ JournalInv /\ DirtyInv /\ RevisionInv /\ FrameInv /\ UndoInv /\ ControlInv

\* What a group's transactions have changed in storage is in the cache, in an
\* account that MergeState will write.
Kept(acc, dirty, storage) ==
    \A a \in Addresses, k \in Slots :
        \/ storage[a][k] = InitialDB[a].CacheStorage[k]
        \/ dirty[a] # 0 /\ acc[a] # Nil /\ acc[a].CacheStorage[k] # NoValue

Sound(acc, dirty, storage) == Agrees(acc, storage) /\ Kept(acc, dirty, storage)

SavedSound(frame) == Sound(frame.saved.acc, frame.saved.dirty, frame.saved.truth)

\* The cache and the saved states agree with what storage would hold; a
\* transaction's own snapshot does so even after StateJudge has fallen.
TruthInv ==
    /\ pc = "prefetch" => db = InitialDB /\ truth = [a \in Addresses |-> InitialDB[a].CacheStorage]
    /\ pc \in {"prefetch", "idle", "merge", "done"} => StateJudge
    /\ pc = "undo" /\ Len(frames) = 1 => StateJudge
    /\ StateJudge /\ pc # "undo" => Sound(Accounts, dirties, truth)
    /\ frames # <<>> => SavedSound(frames[1])
    /\ StateJudge => \A f \in 1..Len(frames) : SavedSound(frames[f])
    /\ pc = "undo" /\ StateJudge /\ stale => Len(frames) = 1
    /\ pc = "exec" /\ stale => ~StateJudge

\* The database's storage is the one that the cache was prefetched from, except
\* where MergeState has been.
DatabaseInv ==
    /\ pc \notin {"merge", "done"} => merged = {}
    /\ \A a \in Addresses :
        db[a].CacheStorage = IF a \in merged THEN truth[a] ELSE InitialDB[a].CacheStorage
    /\ pc = "done" => Dirty \subseteq merged

\* What the group's serial execution on the database would have left is what the
\* cache, the saved states and the database hold of it.
GhostInv == TruthInv /\ DatabaseInv
=============================================================================
