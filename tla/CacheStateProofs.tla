--------------------------- MODULE CacheStateProofs ---------------------------
(***************************************************************************)
(* The theorems about CacheState.                                          *)
(***************************************************************************)
EXTENDS CacheStateInv, SequenceTheorems, TLAPS

(***************************************************************************)
(* What each journaled operation does to the account map is undone by the  *)
(* entry it records.                                                       *)
(***************************************************************************)

\* What an operation that records e and turns the map acc into acc2 must meet.
Undoes(e, acc, acc2) ==
    /\ e \in JournalEntry
    /\ acc2 \in AccountMap
    /\ acc2[e.account] # Nil
    /\ \A a \in Addresses : acc[a] # Nil => acc2[a] # Nil
    /\ UndoneAccounts(e, acc2) = acc

\* An account object is a record, so it is never the nil pointer.
LEMMA NilIsNoObject == Nil \notin AccountObject
  BY CacheStateAssumption

\* Undoing a createObjectChange empties the slot of the map again.
LEMMA UndoesCreate ==
    ASSUME NEW acc \in AccountMap, NEW a \in Addresses, acc[a] = Nil
    PROVE  Undoes([kind |-> "createObjectChange", account |-> a], acc,
                  [acc EXCEPT ![a] = NewAccountObject])
  <1>1. NewAccountObject \in AccountObject
    BY DEF NewAccountObject, AccountObject, Hashes
  <1>2. NewAccountObject # Nil
    BY <1>1, NilIsNoObject
  <1>3. QED
    BY <1>1, <1>2 DEF Undoes, UndoneAccounts, JournalEntry, AccountMap

\* Undoing a balanceChange gives the account its previous balance.
LEMMA UndoesBalance ==
    ASSUME NEW acc \in AccountMap, NEW a \in Addresses, acc[a] # Nil, NEW n \in Int
    PROVE  Undoes([kind |-> "balanceChange", account |-> a, prev |-> acc[a].Balance], acc,
                  [acc EXCEPT ![a].Balance = n])
  <1> DEFINE acc2 == [acc EXCEPT ![a].Balance = n]
  <1> DEFINE e == [kind |-> "balanceChange", account |-> a, prev |-> acc[a].Balance]
  <1>1. acc[a] \in AccountObject
    BY DEF AccountMap
  <1>2. acc2[a] = [acc[a] EXCEPT !.Balance = n] /\ acc2[a] \in AccountObject
    BY <1>1 DEF AccountObject, AccountMap
  <1>3. acc2 \in AccountMap /\ acc2[a] # Nil
    BY <1>2, NilIsNoObject DEF AccountMap
  <1>4. e \in JournalEntry
    BY <1>1 DEF JournalEntry, AccountObject
  <1>5. UndoneAccounts(e, acc2) = [acc2 EXCEPT ![a].Balance = acc[a].Balance]
    BY DEF UndoneAccounts
  <1>6. [acc2[a] EXCEPT !.Balance = acc[a].Balance] = acc[a]
    BY <1>1, <1>2 DEF AccountObject
  <1>7. [acc2 EXCEPT ![a].Balance = acc[a].Balance] = acc
    BY <1>6 DEF AccountMap
  <1>8. \A b \in Addresses : b # a => acc2[b] = acc[b]
    BY DEF AccountMap
  <1> QED
    BY <1>2, <1>3, <1>4, <1>5, <1>7, <1>8 DEF Undoes

\* Undoing a nonceChange gives the account its previous nonce.
LEMMA UndoesNonce ==
    ASSUME NEW acc \in AccountMap, NEW a \in Addresses, acc[a] # Nil, NEW n \in Nat
    PROVE  Undoes([kind |-> "nonceChange", account |-> a, prev |-> acc[a].Nonce], acc,
                  [acc EXCEPT ![a].Nonce = n])
  <1> DEFINE acc2 == [acc EXCEPT ![a].Nonce = n]
  <1> DEFINE e == [kind |-> "nonceChange", account |-> a, prev |-> acc[a].Nonce]
  <1>1. acc[a] \in AccountObject
    BY DEF AccountMap
  <1>2. acc2[a] = [acc[a] EXCEPT !.Nonce = n] /\ acc2[a] \in AccountObject
    BY <1>1 DEF AccountObject, AccountMap
  <1>3. acc2 \in AccountMap /\ acc2[a] # Nil
    BY <1>2, NilIsNoObject DEF AccountMap
  <1>4. e \in JournalEntry
    BY <1>1 DEF JournalEntry, AccountObject
  <1>5. UndoneAccounts(e, acc2) = [acc2 EXCEPT ![a].Nonce = acc[a].Nonce]
    BY DEF UndoneAccounts
  <1>6. [acc2[a] EXCEPT !.Nonce = acc[a].Nonce] = acc[a]
    BY <1>1, <1>2 DEF AccountObject
  <1>7. [acc2 EXCEPT ![a].Nonce = acc[a].Nonce] = acc
    BY <1>6 DEF AccountMap
  <1>8. \A b \in Addresses : b # a => acc2[b] = acc[b]
    BY DEF AccountMap
  <1> QED
    BY <1>2, <1>3, <1>4, <1>5, <1>7, <1>8 DEF Undoes

\* Undoing a codeChange gives the account its previous code and code hash.
LEMMA UndoesCode ==
    ASSUME NEW acc \in AccountMap, NEW a \in Addresses, acc[a] # Nil,
           NEW code \in Codes \cup {NoCode}
    PROVE  Undoes([kind |-> "codeChange", account |-> a, prevcode |-> acc[a].ByteCode,
                   prevhash |-> acc[a].CodeHash], acc,
                  [acc EXCEPT ![a] =
                    [@ EXCEPT !.ByteCode = code, !.CodeHash = Keccak256(code)]])
  <1> DEFINE acc2 == [acc EXCEPT ![a] =
                    [@ EXCEPT !.ByteCode = code, !.CodeHash = Keccak256(code)]]
  <1> DEFINE e == [kind |-> "codeChange", account |-> a, prevcode |-> acc[a].ByteCode,
                   prevhash |-> acc[a].CodeHash]
  <1> DEFINE acc3 == [acc2 EXCEPT ![a] =
                    [@ EXCEPT !.ByteCode = acc[a].ByteCode, !.CodeHash = acc[a].CodeHash]]
  <1>1. acc[a] \in AccountObject
    BY DEF AccountMap
  <1>2. /\ acc2[a] = [acc[a] EXCEPT !.ByteCode = code, !.CodeHash = Keccak256(code)]
        /\ acc2[a] \in AccountObject
    BY <1>1 DEF AccountObject, AccountMap, Hashes
  <1>3. acc2 \in AccountMap /\ acc2[a] # Nil
    BY <1>2, NilIsNoObject DEF AccountMap
  <1>4. e \in JournalEntry
    BY <1>1 DEF JournalEntry, AccountObject
  <1>5. UndoneAccounts(e, acc2) = acc3
    BY DEF UndoneAccounts
  <1>6. acc3[a] = acc[a]
    BY <1>1, <1>2, <1>3 DEF AccountObject, AccountMap
  <1>7. \A b \in Addresses : b # a => acc3[b] = acc[b] /\ acc2[b] = acc[b]
    BY DEF AccountMap
  <1>8. acc3 = acc
    BY <1>3, <1>6, <1>7 DEF AccountMap
  <1> QED
    BY <1>2, <1>3, <1>4, <1>5, <1>7, <1>8 DEF Undoes

\* Undoing a selfDestructChange revives the account with its balance.
LEMMA UndoesSelfDestruct ==
    ASSUME NEW acc \in AccountMap, NEW a \in Addresses, acc[a] # Nil
    PROVE  Undoes([kind |-> "selfDestructChange", account |-> a, prev |-> acc[a].IsAlive,
                   prevbalance |-> acc[a].Balance], acc,
                  [acc EXCEPT ![a] = [@ EXCEPT !.IsAlive = FALSE, !.Balance = 0]])
  <1> DEFINE acc2 == [acc EXCEPT ![a] = [@ EXCEPT !.IsAlive = FALSE, !.Balance = 0]]
  <1> DEFINE e == [kind |-> "selfDestructChange", account |-> a, prev |-> acc[a].IsAlive,
                   prevbalance |-> acc[a].Balance]
  <1> DEFINE acc3 == [acc2 EXCEPT ![a] =
                    [@ EXCEPT !.IsAlive = acc[a].IsAlive, !.Balance = acc[a].Balance]]
  <1>1. acc[a] \in AccountObject
    BY DEF AccountMap
  <1>2. /\ acc2[a] = [acc[a] EXCEPT !.IsAlive = FALSE, !.Balance = 0]
        /\ acc2[a] \in AccountObject
    <2>1. acc2[a] = [acc[a] EXCEPT !.IsAlive = FALSE, !.Balance = 0]
      BY DEF AccountMap
    <2>2. ASSUME NEW obj \in AccountObject, NEW alive \in BOOLEAN
          PROVE  [obj EXCEPT !.IsAlive = alive, !.Balance = 0] \in AccountObject
      <3>1. [obj EXCEPT !.IsAlive = alive] \in AccountObject
        BY DEF AccountObject
      <3>2. \A o \in AccountObject : [o EXCEPT !.Balance = 0] \in AccountObject
        BY DEF AccountObject
      <3> QED
        BY <3>1, <3>2
    <2>3. [acc[a] EXCEPT !.IsAlive = FALSE, !.Balance = 0] \in AccountObject
      BY <1>1, <2>2
    <2> QED
      BY <2>1, <2>3
  <1>3. acc2 \in AccountMap /\ acc2[a] # Nil
    BY <1>2, NilIsNoObject DEF AccountMap
  <1>4. e \in JournalEntry
    BY <1>1 DEF JournalEntry, AccountObject
  <1>5. UndoneAccounts(e, acc2) = acc3
    BY <1>3 DEF UndoneAccounts, UndoneSelfDestruct
  <1>6. acc3[a] = acc[a]
    BY <1>1, <1>2, <1>3 DEF AccountObject, AccountMap
  <1>7. \A b \in Addresses : b # a => acc3[b] = acc[b] /\ acc2[b] = acc[b]
    BY DEF AccountMap
  <1>8. acc3 = acc
    BY <1>3, <1>6, <1>7 DEF AccountMap
  <1> QED
    BY <1>2, <1>3, <1>4, <1>5, <1>7, <1>8 DEF Undoes

\* Undoing a storageChange gives the slot its previous value.
LEMMA UndoesStorage ==
    ASSUME NEW acc \in AccountMap, NEW a \in Addresses, acc[a] # Nil, NEW k \in Slots,
           acc[a].CacheStorage[k] # NoValue, NEW v \in Values
    PROVE  Undoes([kind |-> "storageChange", account |-> a, key |-> k,
                   prevalue |-> acc[a].CacheStorage[k]], acc,
                  [acc EXCEPT ![a].CacheStorage[k] = v])
  <1> DEFINE acc2 == [acc EXCEPT ![a].CacheStorage[k] = v]
  <1> DEFINE e == [kind |-> "storageChange", account |-> a, key |-> k,
                   prevalue |-> acc[a].CacheStorage[k]]
  <1> DEFINE acc3 == [acc2 EXCEPT ![a].CacheStorage[k] = acc[a].CacheStorage[k]]
  <1>1. acc[a] \in AccountObject
    BY DEF AccountMap
  <1>2. acc[a].CacheStorage \in [Slots -> Values \cup {NoValue}]
    BY <1>1 DEF AccountObject
  <1>3. /\ acc2[a] = [acc[a] EXCEPT !.CacheStorage = [acc[a].CacheStorage EXCEPT ![k] = v]]
        /\ acc2[a] \in AccountObject
    BY <1>1, <1>2 DEF AccountObject, AccountMap
  <1>4. acc2 \in AccountMap /\ acc2[a] # Nil
    BY <1>3, NilIsNoObject DEF AccountMap
  <1>5. e \in JournalEntry
    BY <1>2 DEF JournalEntry
  <1>6. UndoneAccounts(e, acc2) = acc3
    BY DEF UndoneAccounts, UndoneStorage
  <1>7. acc2[a].CacheStorage = [acc[a].CacheStorage EXCEPT ![k] = v]
    BY <1>1, <1>3 DEF AccountObject
  <1>8. [acc2[a].CacheStorage EXCEPT ![k] = acc[a].CacheStorage[k]] = acc[a].CacheStorage
    BY <1>2, <1>7
  <1>9. acc3[a] = [acc2[a] EXCEPT !.CacheStorage = acc[a].CacheStorage]
    BY <1>4, <1>8 DEF AccountMap
  <1>10. acc3[a] = acc[a]
    BY <1>1, <1>3, <1>9 DEF AccountObject
  <1>11. \A b \in Addresses : b # a => acc3[b] = acc[b] /\ acc2[b] = acc[b]
    BY DEF AccountMap
  <1>12. acc3 = acc
    BY <1>4, <1>10, <1>11 DEF AccountMap
  <1> QED
    BY <1>3, <1>4, <1>5, <1>6, <1>11, <1>12 DEF Undoes
(***************************************************************************)
(* How the points of the history move.                                     *)
(***************************************************************************)

\* Decrementing the count of an account that was just counted restores the counts.
LEMMA DirtyUndone ==
    ASSUME NEW dirty \in [Addresses -> Nat], NEW a \in Addresses, NEW e, e.account = a
    PROVE  UndoneDirties(e, [dirty EXCEPT ![a] = @ + 1]) = dirty
  <1> DEFINE d2 == [dirty EXCEPT ![a] = @ + 1]
  <1>1. d2 \in [Addresses -> Nat] /\ d2[a] = dirty[a] + 1 /\ dirty[a] \in Nat
    OBVIOUS
  <1>2. d2[a] - 1 = dirty[a]
    BY <1>1
  <1>3. [d2 EXCEPT ![a] = dirty[a]] = dirty
    OBVIOUS
  <1> QED
    BY <1>1, <1>2, <1>3 DEF UndoneDirties

\* An operation that records an entry which undoes it preserves the invariant.
LEMMA JournaledStep ==
    ASSUME IInv, pc = "exec", NEW e, Record(e), Undoes(e, Accounts, Accounts'), OpFrame,
           truth' \in TruthMap, stale' \in BOOLEAN,
           StateJudge' \in BOOLEAN, Logs' \in Seq({0}), NEW n, n = Len(entries)
    PROVE  IInv'
  <1>0. /\ TypeOK /\ JournalInv /\ DirtyInv /\ RevisionInv /\ FrameInv /\ ControlInv
    BY DEF IInv
  <1>1. /\ entries \in Seq(JournalEntry) /\ n \in Nat
        /\ past \in Seq(Moment)
        /\ dirties \in [Addresses -> Nat] /\ Accounts \in AccountMap
    BY <1>0 DEF TypeOK
  <1>n. n \in Nat
    BY <1>1
  <1>r. \A r \in 1..Len(ValidRevisions) : ValidRevisions[r].journalIndex \in Nat
    <2>1. ValidRevisions \in Seq(Revision)
      BY <1>0 DEF TypeOK
    <2>2. \A r \in 1..Len(ValidRevisions) : ValidRevisions[r] \in Revision
      BY <2>1
    <2> QED
      BY <2>2 DEF Revision
  <1>2. /\ pc' = pc /\ frames' = frames /\ undo' = undo
        /\ ValidRevisions' = ValidRevisions /\ NextRevisionId' = NextRevisionId
    BY DEF OpFrame, revisionVars
  <1>3. /\ e \in JournalEntry /\ e.account \in Addresses
        /\ Accounts' \in AccountMap /\ Accounts'[e.account] # Nil
        /\ \A a \in Addresses : Accounts[a] # Nil => Accounts'[a] # Nil
        /\ UndoneAccounts(e, Accounts') = Accounts
    BY DEF Undoes, JournalEntry
  <1>4. /\ entries' = Append(entries, e)
        /\ dirties' = [dirties EXCEPT ![e.account] = @ + 1]
        /\ past' = Append(past, [acc |-> Accounts, dirty |-> dirties])
    BY DEF Record
  <1>5. /\ dirties' \in [Addresses -> Nat]
        /\ UndoneDirties(e, dirties') = dirties
    <2>1. dirties' \in [Addresses -> Nat]
      BY <1>1, <1>3, <1>4
    <2>2. UndoneDirties(e, [dirties EXCEPT ![e.account] = @ + 1]) = dirties
      BY <1>1, <1>3, DirtyUndone
    <2> QED
      BY <1>4, <2>1, <2>2
  <1>6. TypeOK'
    <2>1. entries' \in Seq(JournalEntry) /\ Accounts' \in AccountMap
      BY <1>1, <1>3, <1>4
    <2>2. past' \in Seq(Moment)
      <3>1. [acc |-> Accounts, dirty |-> dirties] \in Moment
        BY <1>1 DEF Moment
      <3> QED
        BY <1>1, <1>4, <3>1
    <2>3. UNCHANGED <<predicted, prefectched, errs, merged, db>>
      BY DEF OpFrame, groupVars
    <2> QED
      BY <1>0, <1>2, <1>5, <2>1, <2>2, <2>3 DEF TypeOK
  <1>7. Len(past) = n /\ Live = n /\ Live' = n + 1 /\ Len(entries') = n + 1
        /\ Len(past') = n + 1
    BY <1>0, <1>1, <1>2, <1>4 DEF Live, JournalInv
  <1>8. \A i \in 1..n : entries'[i] = entries[i] /\ past'[i] = past[i]
    BY <1>1, <1>4, <1>7
  <1>9. entries'[n + 1] = e /\ past'[n + 1] = Present
    BY <1>1, <1>4, <1>7 DEF Present
  <1>10. \A i \in 1..(n + 1) : Point(i)' = Point(i)
    BY <1>n, <1>7, <1>8, <1>9 DEF Point
  <1>11. Point(n + 2)' = Present'
    BY <1>n, <1>7 DEF Point
  <1>12. JournalInv'
    <2>1. Len(past') = Len(entries') /\ Live' \in 0..Len(entries')
      BY <1>n, <1>7
    <2>2. ASSUME NEW i \in 1..n
          PROVE  /\ Point(i + 1)'.acc[entries'[i].account] # Nil
                 /\ UndoneAccounts(entries'[i], Point(i + 1)'.acc) = past'[i].acc
                 /\ UndoneDirties(entries'[i], Point(i + 1)'.dirty) = past'[i].dirty
      BY <1>0, <1>n, <1>7, <1>8, <1>10 DEF JournalInv
    <2>3. /\ Point(n + 2)'.acc[entries'[n + 1].account] # Nil
          /\ UndoneAccounts(entries'[n + 1], Point(n + 2)'.acc) = past'[n + 1].acc
          /\ UndoneDirties(entries'[n + 1], Point(n + 2)'.dirty) = past'[n + 1].dirty
      BY <1>3, <1>5, <1>9, <1>11 DEF Present
    <2>4. ASSUME NEW i \in 1..(n + 1)
          PROVE  /\ Point(i + 1)'.acc[entries'[i].account] # Nil
                 /\ UndoneAccounts(entries'[i], Point(i + 1)'.acc) = past'[i].acc
                 /\ UndoneDirties(entries'[i], Point(i + 1)'.dirty) = past'[i].dirty
      <3>1. CASE i \in 1..n
        BY <3>1, <2>2
      <3>2. CASE i = n + 1
        <4>1. (n + 1) + 1 = n + 2
          BY <1>n
        <4> QED
          BY <3>2, <4>1, <2>3
      <3> QED
        BY <1>n, <3>1, <3>2
    <2> QED
      BY <1>7, <2>1, <2>4 DEF JournalInv
  <1>13. DirtyInv'
    <2>1. \A i \in 1..(n + 1) : DirtyExists(Point(i)')
      BY <1>0, <1>7, <1>10 DEF DirtyInv
    <2>2. DirtyExists(Present)
      BY <1>0, <1>1, <1>7 DEF DirtyInv, Point
    <2>3. DirtyExists(Present')
      BY <1>1, <1>3, <1>4, <2>2 DEF DirtyExists, Present
    <2> QED
      BY <1>n, <1>7, <1>11, <2>1, <2>3 DEF DirtyInv
  <1>14. RevisionInv'
    <2>1. \A r \in 1..Len(ValidRevisions) : ValidRevisions[r].journalIndex <= n + 1
      BY <1>0, <1>n, <1>r DEF RevisionInv
    <2> QED
      BY <1>0, <1>2, <1>7, <2>1 DEF RevisionInv
  <1>15. FrameInv'
    <2>1. ASSUME NEW r \in 1..Len(ValidRevisions), NEW frame, Names(r, frame)
          PROVE  Names(r, frame)'
      BY <1>n, <1>r, <1>2, <1>7, <1>10, <2>1 DEF Names
    <2> QED
      BY <1>0, <1>2, <2>1 DEF FrameInv
  <1> QED
    BY <1>0, <1>2, <1>6, <1>12, <1>13, <1>14, <1>15 DEF IInv, UndoInv, ControlInv
(***************************************************************************)
(* Steps that leave journal, revisions and frames alone.                   *)
(***************************************************************************)

\* The types of the variables that the structural invariant is not about.
RestTypeOK ==
    /\ StateJudge \in BOOLEAN /\ Logs \in Seq({0})
    /\ predicted \subseteq Keys /\ prefectched \subseteq Keys
    /\ errs \in Seq({"invalid", "rejected", "nil", "ErrFalsePredict"})
    /\ merged \subseteq Addresses /\ db \in [Addresses -> AccountObject]
    /\ truth \in TruthMap /\ stale \in BOOLEAN

AtRest == {"prefetch", "idle", "merge", "done"}

\* A step that changes neither the cache nor the journal keeps the points of its history.
LEMMA SameJournal ==
    ASSUME UNCHANGED <<journalVars, revisionVars>>, Live' = Live
    PROVE  /\ JournalInv => JournalInv'
           /\ DirtyInv => DirtyInv'
           /\ RevisionInv => RevisionInv'
           /\ \A r, frame : Names(r, frame) => Names(r, frame)'
  <1>1. /\ Accounts' = Accounts /\ entries' = entries /\ dirties' = dirties /\ past' = past
        /\ ValidRevisions' = ValidRevisions /\ NextRevisionId' = NextRevisionId
    BY DEF journalVars, revisionVars
  <1>2. \A i : Point(i)' = Point(i)
    BY <1>1 DEF Point, Present
  <1> QED
    BY <1>1, <1>2 DEF JournalInv, DirtyInv, DirtyExists, RevisionInv, Names

\* A step that leaves cache, journal, revisions and frames alone preserves the invariant.
LEMMA QuietStep ==
    ASSUME IInv, UNCHANGED <<journalVars, revisionVars, frames, undo>>, RestTypeOK',
           pc \in AtRest \cup {"exec"}, pc' \in AtRest \cup {"exec"},
           pc \in AtRest <=> pc' \in AtRest, pc' = "prefetch" => pc = "prefetch"
    PROVE  IInv'
  <1>1. /\ TypeOK /\ JournalInv /\ DirtyInv /\ RevisionInv /\ FrameInv /\ ControlInv
    BY DEF IInv
  <1>2. /\ Accounts' = Accounts /\ entries' = entries /\ dirties' = dirties /\ past' = past
        /\ ValidRevisions' = ValidRevisions /\ NextRevisionId' = NextRevisionId
        /\ frames' = frames /\ undo' = undo
    BY DEF journalVars, revisionVars
  <1>3. pc # "undo" /\ pc' # "undo" /\ pc' # "panic"
    BY DEF AtRest
  <1>4. Live' = Live
    BY <1>2, <1>3 DEF Live
  <1>5. TypeOK'
    BY <1>1, <1>2 DEF TypeOK, RestTypeOK, AtRest
  <1>6. JournalInv' /\ DirtyInv' /\ RevisionInv'
    BY <1>1, <1>4, SameJournal
  <1>7. FrameInv'
    BY <1>1, <1>2, <1>4, SameJournal DEF FrameInv
  <1>8. ControlInv'
    BY <1>1, <1>2, <1>3 DEF ControlInv, AtRest
  <1> QED
    BY <1>3, <1>5, <1>6, <1>7, <1>8 DEF IInv, UndoInv

\* A new CacheState satisfies the invariant.
LEMMA InitIInv == Init => IInv
  <1> SUFFICES ASSUME Init PROVE IInv
    OBVIOUS
  <1>1. TypeOK
    <2>1. /\ entries \in Seq(JournalEntry) /\ past \in Seq(Moment)
          /\ ValidRevisions \in Seq(Revision) /\ frames \in Seq(FrameType) /\ Logs \in Seq({0})
          /\ errs \in Seq({"invalid", "rejected", "nil", "ErrFalsePredict"})
      BY DEF Init
    <2>2. Accounts \in AccountMap /\ db \in [Addresses -> AccountObject]
      BY CacheStateAssumption DEF Init, AccountMap
    <2>3. truth \in TruthMap /\ predicted \subseteq Keys
      BY CacheStateAssumption DEF Init, TruthMap
    <2>4. undo \in [next : Nat, snapshot : Nat, idx : Nat \ {0}]
      BY DEF Init, NoUndo
    <2> QED
      BY <2>1, <2>2, <2>3, <2>4 DEF Init, TypeOK
  <1>2. Len(entries) = 0 /\ Len(past) = 0 /\ Live = 0 /\ Len(frames) = 0
        /\ Len(ValidRevisions) = 0
    BY DEF Init, Live
  <1>3. JournalInv /\ RevisionInv /\ FrameInv
    BY <1>2 DEF JournalInv, RevisionInv, FrameInv
  <1>4. DirtyInv
    BY <1>2 DEF DirtyInv, DirtyExists, Point, Present, Init
  <1>5. UndoInv /\ ControlInv
    BY DEF Init, UndoInv, ControlInv
  <1> QED
    BY <1>1, <1>3, <1>4, <1>5 DEF IInv
(***************************************************************************)
(* The steps that QuietStep covers.                                        *)
(***************************************************************************)

\* The part of the type invariant that the journal does not touch.
LEMMA TypeRest == TypeOK => RestTypeOK
  BY DEF TypeOK, RestTypeOK

\* The steps of ExecuteTxs between two transactions preserve the invariant.
LEMMA PhaseSteps ==
    ASSUME IInv, PrefetchDone \/ InvalidTx \/ StartMerge \/ MergeDone \/ Returned
    PROVE  IInv'
  <1>1. TypeOK /\ RestTypeOK
    BY TypeRest DEF IInv
  <1>2. CASE PrefetchDone
    BY <1>1, <1>2, QuietStep DEF PrefetchDone, AtRest, RestTypeOK, groupVars, ghostVars
  <1>3. CASE InvalidTx
    <2>1. errs' \in Seq({"invalid", "rejected", "nil", "ErrFalsePredict"})
      BY <1>1, <1>3 DEF InvalidTx, RestTypeOK
    <2> QED
      BY <1>1, <1>3, <2>1, QuietStep DEF InvalidTx, AtRest, RestTypeOK, ghostVars
  <1>4. CASE StartMerge
    BY <1>1, <1>4, QuietStep DEF StartMerge, AtRest, RestTypeOK, groupVars, ghostVars
  <1>5. CASE MergeDone
    BY <1>1, <1>5, QuietStep DEF MergeDone, AtRest, RestTypeOK, groupVars, ghostVars
  <1>6. CASE Returned
    BY <1>1, <1>6, QuietStep
       DEF Returned, AtRest, RestTypeOK, vars, groupVars, ghostVars
  <1> QED
    BY <1>2, <1>3, <1>4, <1>5, <1>6

\* Every dirty account has an object, so MergeState never dereferences nil.
LEMMA MergeStep ==
    ASSUME IInv, NEW a \in Addresses, MergeAccount(a)
    PROVE  IInv'
  <1>1. TypeOK /\ RestTypeOK /\ DirtyInv
    BY TypeRest DEF IInv
  <1>2. pc = "merge" /\ dirties[a] # 0
    BY DEF MergeAccount, Dirty
  <1>3. Accounts[a] # Nil
    <2>1. Live \in Nat /\ Point(Live + 1) = Present
      BY <1>1, <1>2 DEF Live, Point, TypeOK
    <2>2. DirtyExists(Present)
      BY <1>1, <2>1 DEF DirtyInv
    <2> QED
      BY <1>2, <2>2 DEF DirtyExists, Present
  <1>4. Accounts[a] \in AccountObject
    BY <1>1, <1>3 DEF TypeOK, AccountMap
  <1>5. db' \in [Addresses -> AccountObject]
    <2> DEFINE storage == [k \in Slots |-> IF Cached(a, k) THEN Accounts[a].CacheStorage[k]
                                                           ELSE db[a].CacheStorage[k]]
    <2> DEFINE obj == [Balance |-> Accounts[a].Balance, Nonce |-> Accounts[a].Nonce,
                       ByteCode |-> Accounts[a].ByteCode,
                       CodeHash |-> Keccak256(Accounts[a].ByteCode), IsAlive |-> TRUE,
                       CacheStorage |-> storage]
    <2>1. db[a] \in AccountObject
      BY <1>1 DEF RestTypeOK
    <2>2. storage \in [Slots -> Values \cup {NoValue}]
      BY <1>4, <2>1 DEF AccountObject
    <2>3. obj \in AccountObject
      <3>1. /\ Accounts[a].Balance \in Int /\ Accounts[a].Nonce \in Nat
            /\ Accounts[a].ByteCode \in Codes \cup {NoCode}
        BY <1>4 DEF AccountObject
      <3>2. Keccak256(Accounts[a].ByteCode) \in Hashes
        BY <3>1 DEF Hashes
      <3> HIDE DEF storage
      <3> QED
        BY <2>2, <3>1, <3>2 DEF AccountObject
    <2>4. db' = [db EXCEPT ![a] = obj]
      BY <1>3 DEF MergeAccount
    <2> QED
      BY <1>1, <2>3, <2>4 DEF RestTypeOK
  <1>6. pc' = "merge"
    BY <1>3 DEF MergeAccount
  <1>7. RestTypeOK'
    BY <1>1, <1>5 DEF MergeAccount, RestTypeOK, ghostVars
  <1> QED
    BY <1>2, <1>6, <1>7, QuietStep DEF MergeAccount, AtRest

\* Operations that make no journal entry.
LEMMA UnjournaledOps ==
    ASSUME IInv, NEW a, NEW k, NEW v,
           \/ Dropped(a) \/ CodeMiss(a) \/ GetState(a, k) \/ AddLog
           \/ a \in Addresses /\ k \in Slots /\ v \in Values /\ SetStateMiss(a, k, v)
    PROVE  IInv'
  <1>1. TypeOK /\ RestTypeOK
    BY TypeRest DEF IInv
  <1>2. UNCHANGED <<journalVars, revisionVars, groupVars, frames, undo, pc>> /\ pc = "exec"
    BY DEF Dropped, CodeMiss, GetState, SetStateMiss, AddLog, OpFrame
  <1>3. /\ StateJudge' \in BOOLEAN /\ stale' \in BOOLEAN
    BY <1>1 DEF Dropped, CodeMiss, GetState, SetStateMiss, AddLog, Judged, ghostVars, RestTypeOK
  <1>4. truth' \in TruthMap
    BY <1>1 DEF Dropped, CodeMiss, GetState, SetStateMiss, AddLog, ghostVars, RestTypeOK,
                TruthMap
  <1>5. Logs' \in Seq({0})
    BY <1>1 DEF Dropped, CodeMiss, GetState, SetStateMiss, AddLog, RestTypeOK
  <1>6. RestTypeOK'
    BY <1>1, <1>2, <1>3, <1>4, <1>5 DEF RestTypeOK, groupVars
  <1> QED
    BY <1>2, <1>6, QuietStep DEF AtRest

(***************************************************************************)
(* The steps that JournaledStep covers.                                    *)
(***************************************************************************)

\* Every operation of the EVM that makes a journal entry preserves the invariant.
LEMMA JournaledOps ==
    ASSUME IInv, NEW a \in Addresses, NEW x, NEW k,
           \/ CreateAccount(a) \/ SelfDestruct(a)
           \/ x \in Int /\ ChangeBalance(a, x)
           \/ x \in Nat /\ SetNonce(a, x)
           \/ x \in Codes /\ SetCode(a, x)
           \/ k \in Slots /\ x \in Values /\ SetState(a, k, x)
    PROVE  IInv'
  <1>1. TypeOK /\ RestTypeOK /\ Accounts \in AccountMap
    BY TypeRest DEF IInv, TypeOK
  <1>2. pc = "exec" /\ OpFrame
    BY DEF CreateAccount, ChangeBalance, SetNonce, SetCode, SelfDestruct, SetState
  <1>3. /\ stale' \in BOOLEAN /\ StateJudge' \in BOOLEAN
        /\ Logs' \in Seq({0})
    BY <1>1 DEF CreateAccount, ChangeBalance, SetNonce, SetCode, SelfDestruct, SetState,
                ghostVars, RestTypeOK
  <1>4. truth' \in TruthMap
    <2>1. \/ truth' = truth
          \/ k \in Slots /\ x \in Values /\ SetState(a, k, x)
      BY DEF CreateAccount, ChangeBalance, SetNonce, SetCode, SelfDestruct, ghostVars
    <2>2. k \in Slots /\ x \in Values => [truth EXCEPT ![a][k] = x] \in TruthMap
      BY <1>1 DEF RestTypeOK, TruthMap
    <2> QED
      BY <1>1, <2>1, <2>2 DEF RestTypeOK, SetState
  <1>5. \E e : Record(e) /\ Undoes(e, Accounts, Accounts')
    <2>1. CASE CreateAccount(a)
      BY <1>1, <2>1, UndoesCreate DEF CreateAccount
    <2>2. CASE x \in Int /\ ChangeBalance(a, x)
      BY <1>1, <2>2, UndoesBalance DEF ChangeBalance
    <2>3. CASE x \in Nat /\ SetNonce(a, x)
      BY <1>1, <2>3, UndoesNonce DEF SetNonce
    <2>4. CASE x \in Codes /\ SetCode(a, x)
      BY <1>1, <2>4, UndoesCode DEF SetCode
    <2>5. CASE SelfDestruct(a)
      BY <1>1, <2>5, UndoesSelfDestruct DEF SelfDestruct
    <2>6. CASE k \in Slots /\ x \in Values /\ SetState(a, k, x)
      BY <1>1, <2>6, UndoesStorage DEF SetState, Cached
    <2> QED
      BY <2>1, <2>2, <2>3, <2>4, <2>5, <2>6
  <1> QED
    BY <1>2, <1>3, <1>4, <1>5, JournaledStep

\* Every operation of the EVM on the cache preserves the invariant.
LEMMA OperationStep ==
    ASSUME IInv, Operation
    PROVE  IInv'
  <1>1. CASE AddLog
    BY <1>1, UnjournaledOps
  <1>2. ASSUME NEW a \in Addresses, CreateAccount(a) \/ SelfDestruct(a)
        PROVE  IInv'
    BY <1>2, JournaledOps
  <1>3. ASSUME NEW a \in Addresses, CodeMiss(a) \/ Dropped(a)
        PROVE  IInv'
    BY <1>3, UnjournaledOps
  <1>4. ASSUME NEW a \in Addresses, NEW x \in Amounts,
               SubBalance(a, x) \/ AddBalance(a, x) \/ SetBalance(a, x)
        PROVE  IInv'
    <2>1. Accounts[a] # Nil
      BY <1>4 DEF SubBalance, AddBalance, SetBalance, ChangeBalance
    <2>2. Accounts[a].Balance \in Int
      BY <2>1 DEF IInv, TypeOK, AccountMap, AccountObject
    <2>3. \E y \in Int : ChangeBalance(a, y)
      BY <1>4, <2>2, CacheStateAssumption DEF SubBalance, AddBalance, SetBalance
    <2> QED
      BY <2>3, JournaledOps
  <1>5. ASSUME NEW a \in Addresses, NEW x \in Nonces, SetNonce(a, x)
        PROVE  IInv'
    BY <1>5, JournaledOps, CacheStateAssumption
  <1>6. ASSUME NEW a \in Addresses, NEW x \in Codes, SetCode(a, x)
        PROVE  IInv'
    BY <1>6, JournaledOps
  <1>7. ASSUME NEW a \in Addresses, NEW k \in Slots, GetState(a, k)
        PROVE  IInv'
    BY <1>7, UnjournaledOps
  <1>8. ASSUME NEW a \in Addresses, NEW k \in Slots, NEW v \in Values,
               SetState(a, k, v) \/ SetStateMiss(a, k, v)
        PROVE  IInv'
    BY <1>8, JournaledOps, UnjournaledOps
  <1> QED
    BY <1>1, <1>2, <1>3, <1>4, <1>5, <1>6, <1>7, <1>8 DEF Operation

(***************************************************************************)
(* Prefetching: the journal is empty, and an account only gains.           *)
(***************************************************************************)

\* A prefetched key leaves a well-formed account object.
LEMMA PrefetchedObject ==
    ASSUME db \in [Addresses -> AccountObject], NEW a \in Addresses,
           NEW key \in AccountKeys \cup Slots, NEW obj \in AccountObject
    PROVE  Prefetched(obj, a, key) \in AccountObject
  <1>1. db[a] \in AccountObject
    OBVIOUS
  <1>2. /\ db[a].Balance \in Int /\ db[a].Nonce \in Nat /\ db[a].CodeHash \in Hashes
        /\ db[a].ByteCode \in Codes \cup {NoCode}
        /\ db[a].CacheStorage \in [Slots -> Values \cup {NoValue}]
        /\ obj.CacheStorage \in [Slots -> Values \cup {NoValue}]
    BY <1>1 DEF AccountObject
  <1>3. db[a].IsAlive \in BOOLEAN
    BY <1>1 DEF AccountObject
  <1>4. [obj EXCEPT !.Balance = db[a].Balance] \in AccountObject
    BY <1>2 DEF AccountObject
  <1>5. [obj EXCEPT !.Nonce = db[a].Nonce] \in AccountObject
    BY <1>2 DEF AccountObject
  <1>6. [obj EXCEPT !.CodeHash = db[a].CodeHash] \in AccountObject
    BY <1>2 DEF AccountObject
  <1>7. [obj EXCEPT !.ByteCode = db[a].ByteCode] \in AccountObject
    BY <1>2 DEF AccountObject
  <1>8. [obj EXCEPT !.IsAlive = db[a].IsAlive] \in AccountObject
    <2>1. ASSUME NEW alive \in BOOLEAN
          PROVE  [obj EXCEPT !.IsAlive = alive] \in AccountObject
      BY DEF AccountObject
    <2> QED
      BY <1>3, <2>1
  <1>9. key \in Slots =>
            [obj EXCEPT !.CacheStorage[key] = db[a].CacheStorage[key]] \in AccountObject
    <2>1. key \in Slots => [obj.CacheStorage EXCEPT ![key] = db[a].CacheStorage[key]]
                                \in [Slots -> Values \cup {NoValue}]
      BY <1>2
    <2> QED
      BY <2>1 DEF AccountObject
  <1> QED
    BY <1>4, <1>5, <1>6, <1>7, <1>8, <1>9 DEF Prefetched, AccountKeys

\* Prefetching a key preserves the invariant: the journal is still empty.
LEMMA PrefetchStep ==
    ASSUME IInv, NEW a \in Addresses, NEW key \in AccountKeys \cup Slots, prefetchSetter(a, key)
    PROVE  IInv'
  <1>1. /\ TypeOK /\ JournalInv /\ DirtyInv /\ RevisionInv /\ FrameInv /\ ControlInv
    BY DEF IInv
  <1>2. /\ pc = "prefetch" /\ pc' = pc /\ entries' = entries /\ dirties' = dirties
        /\ past' = past /\ ValidRevisions' = ValidRevisions /\ frames' = frames
        /\ NextRevisionId' = NextRevisionId /\ undo' = undo
    BY DEF prefetchSetter, revisionVars
  <1>3. /\ Len(entries) = 0 /\ Len(ValidRevisions) = 0 /\ frames = <<>>
    BY <1>1, <1>2 DEF ControlInv
  <1>4. Accounts' \in AccountMap /\ \A b \in Addresses : Accounts[b] # Nil => Accounts'[b] # Nil
    <2> DEFINE obj == IF Accounts[a] = Nil THEN NewAccountObject ELSE Accounts[a]
    <2>1. NewAccountObject \in AccountObject
      BY DEF NewAccountObject, AccountObject, Hashes
    <2>2. obj \in AccountObject
      BY <1>1, <2>1 DEF TypeOK, AccountMap
    <2>3. Prefetched(obj, a, key) \in AccountObject
      BY <1>1, <2>2, PrefetchedObject DEF TypeOK
    <2>4. Accounts' = [Accounts EXCEPT ![a] = Prefetched(obj, a, key)]
      BY DEF prefetchSetter
    <2> QED
      BY <1>1, <2>3, <2>4, NilIsNoObject DEF TypeOK, AccountMap
  <1>5. Live = 0 /\ Live' = 0
    BY <1>2, <1>3 DEF Live
  <1>6. TypeOK'
    <2>1. prefectched' \subseteq Keys
      BY <1>1 DEF prefetchSetter, TypeOK, Keys
    <2> QED
      BY <1>1, <1>2, <1>4, <2>1 DEF prefetchSetter, TypeOK, ghostVars
  <1>7. JournalInv'
    BY <1>1, <1>2, <1>3, <1>5 DEF JournalInv
  <1>8. DirtyInv'
    <2>1. DirtyExists(Present)
      BY <1>1, <1>5 DEF DirtyInv, Point
    <2>2. DirtyExists(Present')
      BY <1>2, <1>4, <2>1 DEF DirtyExists, Present
    <2> QED
      BY <1>5, <2>2 DEF DirtyInv, Point
  <1>9. RevisionInv'
    BY <1>1, <1>2 DEF RevisionInv
  <1>10. FrameInv'
    BY <1>2, <1>3 DEF FrameInv
  <1> QED
    BY <1>1, <1>2, <1>6, <1>7, <1>8, <1>9, <1>10 DEF IInv, UndoInv, ControlInv
(***************************************************************************)
(* Snapshots and frames.                                                   *)
(***************************************************************************)

\* Snapshot opens a revision whose id and journal index exceed all earlier ones.
LEMMA SnapshotStep ==
    ASSUME IInv, Snapshot, UNCHANGED <<journalVars, undo>>, RestTypeOK',
           pc \in {"idle", "exec"}, pc' \in {"idle", "exec"},
           \/ frames' = frames /\ pc' = pc
           \/ frames' = Append(frames, Frame) /\ pc' = "exec",
           NEW m, m = Len(ValidRevisions)
    PROVE  IInv'
  <1> DEFINE rev == [id |-> NextRevisionId, journalIndex |-> Len(entries)]
  <1>1. /\ TypeOK /\ JournalInv /\ DirtyInv /\ RevisionInv /\ FrameInv /\ ControlInv
    BY DEF IInv
  <1>2. /\ Accounts' = Accounts /\ entries' = entries /\ dirties' = dirties /\ past' = past
        /\ undo' = undo /\ pc # "undo" /\ pc' # "undo"
    BY DEF journalVars
  <1>3. /\ ValidRevisions \in Seq(Revision) /\ m \in Nat /\ NextRevisionId \in Nat
        /\ Len(entries) \in Nat /\ frames \in Seq(FrameType) /\ Len(frames) \in Nat
    BY <1>1 DEF TypeOK
  <1>4. /\ rev \in Revision
        /\ ValidRevisions' = Append(ValidRevisions, rev) /\ NextRevisionId' = NextRevisionId + 1
    BY <1>3 DEF Snapshot, Revision
  <1>5. /\ Len(ValidRevisions') = m + 1 /\ ValidRevisions' \in Seq(Revision)
        /\ ValidRevisions'[m + 1] = rev
        /\ \A r \in 1..m : ValidRevisions'[r] = ValidRevisions[r]
    BY <1>3, <1>4
  <1>6. \A r \in 1..m : ValidRevisions[r].id \in Nat /\ ValidRevisions[r].journalIndex \in Nat
    <2>1. \A r \in 1..m : ValidRevisions[r] \in Revision
      BY <1>3
    <2> QED
      BY <2>1 DEF Revision
  <1>7. Live' = Live /\ Live = Len(entries)
    BY <1>2 DEF Live
  <1>8. \A i : Point(i)' = Point(i)
    BY <1>2, <1>7 DEF Point, Present
  <1>9. JournalInv' /\ DirtyInv'
    BY <1>1, <1>2, <1>7, <1>8 DEF JournalInv, DirtyInv, DirtyExists
  <1>10. Frame \in FrameType
    <2>1. [acc |-> Accounts, dirty |-> dirties, truth |-> truth]
                \in [acc : AccountMap, dirty : [Addresses -> Nat], truth : TruthMap]
      BY <1>1 DEF TypeOK
    <2> QED
      BY <1>1, <2>1 DEF TypeOK, FrameType, Frame
  <1>11. TypeOK'
    <2>1. frames' \in Seq(FrameType)
      BY <1>3, <1>10
    <2>2. NextRevisionId' \in Nat
      BY <1>3, <1>4
    <2>3. pc' \in {"prefetch", "idle", "exec", "undo", "merge", "done", "panic"}
      OBVIOUS
    <2> QED
      BY <1>1, <1>2, <1>5, <2>1, <2>2, <2>3 DEF TypeOK, RestTypeOK
  <1>12. RevisionInv'
    <2>1. ASSUME NEW r \in 1..(m + 1)
          PROVE  /\ ValidRevisions'[r].id < NextRevisionId'
                 /\ ValidRevisions'[r].journalIndex <= Len(entries')
      <3>1. CASE r = m + 1
        BY <1>2, <1>3, <1>4, <1>5, <3>1
      <3>2. CASE r \in 1..m
        BY <1>1, <1>2, <1>3, <1>4, <1>5, <1>6, <3>2 DEF RevisionInv
      <3> QED
        BY <1>3, <3>1, <3>2
    <2>2. ASSUME NEW r \in 1..(m + 1), NEW s \in 1..(m + 1), r < s
          PROVE  /\ ValidRevisions'[r].id < ValidRevisions'[s].id
                 /\ ValidRevisions'[r].journalIndex <= ValidRevisions'[s].journalIndex
      <3>1. r \in 1..m /\ (s \in 1..m \/ s = m + 1)
        BY <1>3, <2>2
      <3>2. CASE s = m + 1
        BY <1>1, <1>5, <3>1, <3>2 DEF RevisionInv
      <3>3. CASE s \in 1..m
        BY <1>1, <1>5, <2>2, <3>1, <3>3 DEF RevisionInv
      <3> QED
        BY <3>1, <3>2, <3>3
    <2> QED
      BY <1>5, <2>1, <2>2 DEF RevisionInv
  <1>13. \A r \in 1..m : \A frame : Names(r, frame) => Names(r, frame)'
    BY <1>5, <1>7, <1>8 DEF Names
  <1>14. FrameInv'
    <2>1. ASSUME NEW f \in 1..Len(frames), NEW frame, frame = frames[f]
          PROVE  \E r \in 1..(m + 1) : Names(r, frame)'
      <3>1. PICK r \in 1..m : Names(r, frame)
        BY <1>1, <2>1 DEF FrameInv
      <3>2. r \in 1..(m + 1) /\ Names(r, frame)'
        BY <1>3, <1>13, <3>1
      <3> QED
        BY <3>2
    <2>2. ASSUME NEW frame, frame = Frame
          PROVE  Names(m + 1, frame)'
      <3>1. Point(Len(entries) + 1) = Present
        BY <1>7 DEF Point
      <3>2. frame.id = NextRevisionId /\ frame.saved.acc = Accounts /\ frame.saved.dirty = dirties
        BY <2>2 DEF Frame
      <3> QED
        BY <1>2, <1>3, <1>5, <1>7, <1>8, <3>1, <3>2 DEF Names, Present
    <2>3. \A f \in 1..Len(frames) : frames[f].id < NextRevisionId
      BY <1>1, <1>3, <1>6 DEF FrameInv, RevisionInv, Names
    <2>4. CASE frames' = frames
      BY <1>1, <1>5, <2>1, <2>4 DEF FrameInv
    <2>5. CASE frames' = Append(frames, Frame)
      <3> DEFINE d == Len(frames)
      <3>1. /\ Len(frames') = d + 1 /\ frames'[d + 1] = Frame
            /\ \A f \in 1..d : frames'[f] = frames[f]
        BY <1>3, <1>10, <2>5
      <3>2. \A f \in 1..(d + 1) : \E r \in 1..(m + 1) : Names(r, frames[f])'
        <4>1. ASSUME NEW frame, NEW f \in 1..(d + 1), frame = frames'[f]
              PROVE  \E r \in 1..(m + 1) : Names(r, frame)'
          <5>1. CASE f = d + 1
            BY <1>3, <2>2, <3>1, <4>1, <5>1
          <5>2. CASE f \in 1..d
            BY <2>1, <3>1, <4>1, <5>2
          <5> QED
            BY <1>3, <5>1, <5>2
        <4> QED
          BY <4>1
      <3>3. ASSUME NEW f \in 1..(d + 1), NEW g \in 1..(d + 1), f < g
            PROVE  frames'[f].id < frames'[g].id
        <4>1. f \in 1..d /\ (g \in 1..d \/ g = d + 1)
          BY <1>3, <3>3
        <4>2. Frame.id = NextRevisionId
          BY DEF Frame
        <4>3. CASE g = d + 1
          BY <2>3, <3>1, <4>1, <4>2, <4>3
        <4>4. CASE g \in 1..d
          BY <1>1, <3>1, <3>3, <4>1, <4>4 DEF FrameInv
        <4> QED
          BY <4>1, <4>3, <4>4
      <3> HIDE DEF d
      <3> QED
        BY <1>5, <3>1, <3>2, <3>3 DEF FrameInv
    <2> QED
      BY <2>4, <2>5
  <1> QED
    BY <1>2, <1>9, <1>11, <1>12, <1>14 DEF IInv, UndoInv, ControlInv

\* The two callers of Snapshot, a transaction and a call, preserve the invariant.
LEMMA SnapshotSteps ==
    ASSUME IInv, RejectedTx \/ BeginTx \/ EnterCall
    PROVE  IInv'
  <1>1. TypeOK /\ RestTypeOK /\ ControlInv
    BY TypeRest DEF IInv
  <1>2. CASE RejectedTx
    <2>1. errs' \in Seq({"invalid", "rejected", "nil", "ErrFalsePredict"})
      BY <1>1, <1>2 DEF RejectedTx, RestTypeOK
    <2>2. RestTypeOK'
      BY <1>1, <1>2, <2>1 DEF RejectedTx, RestTypeOK, ghostVars
    <2>3. /\ Snapshot /\ UNCHANGED <<journalVars, undo>>
          /\ pc = "idle" /\ pc' = pc /\ frames' = frames
      BY <1>2 DEF RejectedTx
    <2> QED
      BY <2>2, <2>3, SnapshotStep
  <1>3. CASE BeginTx
    <2>1. RestTypeOK'
      BY <1>1, <1>3 DEF BeginTx, RestTypeOK, groupVars
    <2>2. frames = <<>>
      BY <1>1, <1>3 DEF BeginTx, ControlInv
    <2>3. frames' = Append(frames, Frame)
      BY <1>3, <2>2 DEF BeginTx
    <2>4. /\ Snapshot /\ UNCHANGED <<journalVars, undo>> /\ pc = "idle" /\ pc' = "exec"
      BY <1>3 DEF BeginTx
    <2> QED
      BY <2>1, <2>3, <2>4, SnapshotStep
  <1>4. CASE EnterCall
    <2>1. RestTypeOK'
      BY <1>1, <1>4 DEF EnterCall, RestTypeOK, groupVars, ghostVars
    <2>2. /\ Snapshot /\ UNCHANGED <<journalVars, undo>> /\ pc = "exec" /\ pc' = pc
          /\ frames' = Append(frames, Frame)
      BY <1>4 DEF EnterCall
    <2> QED
      BY <2>1, <2>2, SnapshotStep
  <1> QED
    BY <1>2, <1>3, <1>4

\* Dropping the innermost frame.
LEMMA PopFrames ==
    ASSUME NEW S, NEW s \in Seq(S), s # <<>>, NEW t, t = SubSeq(s, 1, Len(s) - 1)
    PROVE  /\ t \in Seq(S) /\ Len(s) \in Nat \ {0} /\ Len(t) = Len(s) - 1
           /\ \A i \in 1..(Len(s) - 1) : t[i] = s[i]
  <1>1. Len(s) \in Nat \ {0}
    BY EmptySeq
  <1>2. \A i \in 1..(Len(s) - 1) : s[i] \in S
    BY <1>1
  <1>3. /\ t \in Seq(S)
        /\ Len(t) = IF 1 <= Len(s) - 1 THEN (Len(s) - 1) - 1 + 1 ELSE 0
        /\ \A i \in 1..((Len(s) - 1) - 1 + 1) : t[i] = s[1 + i - 1]
    <2>1. 1 \in Int /\ Len(s) - 1 \in Int
      BY <1>1
    <2> QED
      BY <1>2, <2>1, SubSeqProperties
  <1>4. (Len(s) - 1) - 1 + 1 = Len(s) - 1 /\ \A i \in 1..(Len(s) - 1) : 1 + i - 1 = i
    BY <1>1
  <1>5. Len(t) = Len(s) - 1
    <2>1. CASE Len(s) = 1
      BY <1>3, <2>1
    <2>2. CASE Len(s) # 1
      <3>1. 1 <= Len(s) - 1
        <4>1. \A n \in Nat \ {0} : n # 1 => 1 <= n - 1
          OBVIOUS
        <4> QED
          BY <1>1, <2>2, <4>1
      <3>2. Len(t) = (Len(s) - 1) - 1 + 1
        BY <1>3, <3>1
      <3> QED
        BY <1>4, <3>2
    <2> QED
      BY <2>1, <2>2
  <1> QED
    BY <1>1, <1>3, <1>4, <1>5

\* Leaving a call without a revert keeps the revision and preserves the invariant.
LEMMA PopStep ==
    ASSUME IInv, UNCHANGED <<journalVars, revisionVars, undo>>, RestTypeOK', pc = "exec",
           frames' = SubSeq(frames, 1, Len(frames) - 1),
           pc' = IF Len(frames) = 1 THEN "idle" ELSE "exec"
    PROVE  IInv'
  <1>1. /\ TypeOK /\ JournalInv /\ DirtyInv /\ RevisionInv /\ FrameInv /\ ControlInv
    BY DEF IInv
  <1>2. /\ undo' = undo /\ pc # "undo" /\ pc' # "undo"
        /\ Accounts' = Accounts /\ entries' = entries /\ dirties' = dirties /\ past' = past
        /\ ValidRevisions' = ValidRevisions /\ NextRevisionId' = NextRevisionId
    BY DEF journalVars, revisionVars
  <1>3. frames \in Seq(FrameType) /\ frames # <<>>
    BY <1>1 DEF TypeOK, ControlInv
  <1>4. /\ frames' \in Seq(FrameType) /\ Len(frames) \in Nat \ {0}
        /\ Len(frames') = Len(frames) - 1
        /\ \A f \in 1..(Len(frames) - 1) : frames'[f] = frames[f]
    BY <1>3, PopFrames
  <1>5. Live' = Live
    BY <1>2 DEF Live
  <1>6. JournalInv' /\ DirtyInv' /\ RevisionInv'
    BY <1>1, <1>5, SameJournal
  <1>7. FrameInv'
    <2>1. ASSUME NEW f \in 1..(Len(frames) - 1), NEW frame, frame = frames[f]
          PROVE  \E r \in 1..Len(ValidRevisions) : Names(r, frame)'
      BY <1>1, <1>4, <1>5, <2>1, SameJournal DEF FrameInv
    <2>2. \A f \in 1..Len(frames') : f \in 1..(Len(frames) - 1) /\ f \in 1..Len(frames)
      BY <1>4
    <2>3. \A f \in 1..Len(frames') : \E r \in 1..Len(ValidRevisions') : Names(r, frames[f])'
      BY <1>2, <1>4, <2>1, <2>2
    <2>4. \A f, g \in 1..Len(frames') : f < g => frames'[f].id < frames'[g].id
      BY <1>1, <1>4, <2>2 DEF FrameInv
    <2> QED
      BY <2>3, <2>4 DEF FrameInv
  <1>8. TypeOK'
    BY <1>1, <1>2, <1>4 DEF TypeOK, RestTypeOK
  <1>9. ControlInv'
    <2>1. frames' = <<>> <=> Len(frames) = 1
      <3>1. Len(frames') = 0 <=> Len(frames) = 1
        BY <1>4
      <3>2. frames' = <<>> => Len(frames') = 0
        BY EmptySeq
      <3>3. frames' # <<>> => Len(frames') \in Nat \ {0}
        BY <1>4, EmptySeq
      <3> QED
        BY <3>1, <3>2, <3>3
    <2> QED
      BY <1>1, <1>2, <2>1 DEF ControlInv
  <1> QED
    BY <1>2, <1>6, <1>7, <1>8, <1>9 DEF IInv, UndoInv

\* The steps that end a call or a transaction without a revert preserve the invariant.
LEMMA PopSteps ==
    ASSUME IInv, ReturnCall \/ CommitTx
    PROVE  IInv'
  <1>1. TypeOK /\ RestTypeOK /\ frames \in Seq(FrameType) /\ Len(frames) \in Nat
    BY TypeRest DEF IInv, TypeOK
  <1>2. CASE ReturnCall
    <2>1. RestTypeOK'
      BY <1>1, <1>2 DEF ReturnCall, RestTypeOK, groupVars, ghostVars
    <2>2. pc = "exec" /\ pc' = "exec" /\ Len(frames) # 1
      BY <1>1, <1>2 DEF ReturnCall
    <2> QED
      BY <1>2, <2>1, <2>2, PopStep DEF ReturnCall
  <1>3. CASE CommitTx
    <2>1. errs' \in Seq({"invalid", "rejected", "nil", "ErrFalsePredict"})
      BY <1>1, <1>3 DEF CommitTx, RestTypeOK
    <2>2. RestTypeOK'
      BY <1>1, <1>3, <2>1 DEF CommitTx, RestTypeOK, ghostVars
    <2>3. frames' = SubSeq(frames, 1, Len(frames) - 1)
      BY <1>3 DEF CommitTx
    <2> QED
      BY <1>3, <2>2, <2>3, PopStep DEF CommitTx
  <1> QED
    BY <1>2, <1>3

(***************************************************************************)
(* RevertToSnapshot.                                                       *)
(***************************************************************************)

\* The binary search finds the revision with the id it looks for: there is
\* one, and the ids grow.
LEMMA SearchFinds ==
    ASSUME TypeOK, RevisionInv, NEW r \in 1..Len(ValidRevisions)
    PROVE  Search(ValidRevisions[r].id) = r
  <1> DEFINE revid == ValidRevisions[r].id
  <1> DEFINE First(idx) == /\ \A j \in 1..(idx - 1) : ValidRevisions[j].id < revid
                           /\ idx <= Len(ValidRevisions) => ValidRevisions[idx].id >= revid
  <1>1. Len(ValidRevisions) \in Nat
    BY DEF TypeOK
  <1>2. \A s \in 1..Len(ValidRevisions) : ValidRevisions[s].id \in Nat
    <2>1. \A s \in 1..Len(ValidRevisions) : ValidRevisions[s] \in Revision
      BY DEF TypeOK
    <2> QED
      BY <2>1 DEF Revision
  <1>3. \A j \in 1..(r - 1) : ValidRevisions[j].id < revid
    BY <1>1 DEF RevisionInv
  <1>4. First(r)
    BY <1>1, <1>2, <1>3
  <1>5. ASSUME NEW idx \in 1..(Len(ValidRevisions) + 1), First(idx)
        PROVE  idx = r
    <2>1. CASE idx < r
      <3>1. idx \in 1..(r - 1) /\ idx \in 1..Len(ValidRevisions)
        BY <1>1, <2>1
      <3>2. ValidRevisions[idx].id < revid /\ ValidRevisions[idx].id >= revid
        BY <1>1, <1>3, <1>5, <3>1
      <3> QED
        BY <1>2, <3>1, <3>2
    <2>2. CASE r < idx
      <3>1. r \in 1..(idx - 1)
        BY <1>1, <2>2
      <3>2. ValidRevisions[r].id < revid
        BY <1>5, <3>1
      <3> QED
        BY <1>2, <3>2
    <2> QED
      BY <1>1, <2>1, <2>2
  <1>6. r \in 1..(Len(ValidRevisions) + 1)
    BY <1>1
  <1> HIDE DEF First
  <1>7. (CHOOSE idx \in 1..(Len(ValidRevisions) + 1) : First(idx)) = r
    BY <1>4, <1>5, <1>6
  <1> QED
    BY <1>7 DEF Search, First
\* Facts about the frames that several steps need.
LEMMA FrameFacts ==
    ASSUME IInv
    PROVE  /\ frames \in Seq(FrameType) /\ Len(frames) \in Nat
           /\ \A f \in 1..Len(frames) : frames[f] \in FrameType /\ frames[f].id \in Nat
           /\ ValidRevisions \in Seq(Revision) /\ Len(ValidRevisions) \in Nat
           /\ \A r \in 1..Len(ValidRevisions) :
                /\ ValidRevisions[r].id \in Nat /\ ValidRevisions[r].journalIndex \in Nat
           /\ entries \in Seq(JournalEntry) /\ Len(entries) \in Nat
           /\ past \in Seq(Moment) /\ Len(past) = Len(entries)
           /\ frames # <<>> => Len(frames) \in 1..Len(frames)
  <1>1. TypeOK /\ JournalInv
    BY DEF IInv
  <1>2. /\ frames \in Seq(FrameType) /\ ValidRevisions \in Seq(Revision)
        /\ entries \in Seq(JournalEntry) /\ past \in Seq(Moment)
    BY <1>1 DEF TypeOK
  <1>3. \A f \in 1..Len(frames) : frames[f] \in FrameType
    BY <1>2
  <1>4. \A r \in 1..Len(ValidRevisions) : ValidRevisions[r] \in Revision
    BY <1>2
  <1>5. frames # <<>> => Len(frames) \in Nat \ {0}
    BY <1>2, EmptySeq
  <1>6. \A n \in Nat \ {0} : n \in 1..n
    OBVIOUS
  <1>7. frames # <<>> => Len(frames) \in 1..Len(frames)
    BY <1>5, <1>6
  <1>8. /\ Len(frames) \in Nat /\ Len(ValidRevisions) \in Nat /\ Len(entries) \in Nat
        /\ Len(past) = Len(entries)
    BY <1>1, <1>2 DEF JournalInv
  <1>9. \A f \in 1..Len(frames) : frames[f].id \in Nat
    <2>1. \A frame \in FrameType : frame.id \in Nat
      BY DEF FrameType
    <2> QED
      BY <1>3, <2>1
  <1>10. \A r \in 1..Len(ValidRevisions) :
            ValidRevisions[r].id \in Nat /\ ValidRevisions[r].journalIndex \in Nat
    BY <1>4 DEF Revision
  <1> QED
    BY <1>2, <1>3, <1>7, <1>8, <1>9, <1>10

\* RevertToSnapshot finds its revision and starts undoing from the top of the journal.
LEMMA BeginRevert ==
    ASSUME IInv, pc = "exec", RevertToSnapshot(Top.id),
           UNCHANGED <<journalVars, revisionVars, frames>>, RestTypeOK'
    PROVE  IInv' /\ pc' = "undo"
  <1>1. /\ TypeOK /\ JournalInv /\ DirtyInv /\ RevisionInv /\ FrameInv /\ ControlInv
    BY DEF IInv
  <1>2. /\ frames' = frames
        /\ Accounts' = Accounts /\ entries' = entries /\ dirties' = dirties /\ past' = past
        /\ ValidRevisions' = ValidRevisions /\ NextRevisionId' = NextRevisionId
    BY DEF journalVars, revisionVars
  <1>3. frames # <<>> /\ Len(frames) \in 1..Len(frames)
    BY <1>1, FrameFacts DEF ControlInv
  <1>4. PICK r \in 1..Len(ValidRevisions) : Names(r, Top)
    BY <1>1, <1>3 DEF FrameInv, Top
  <1>5. Search(Top.id) = r
    BY <1>1, <1>4, SearchFinds DEF Names
  <1>6. Live = Len(entries)
    BY DEF Live
  <1>7. ValidRevisions[r].id = Top.id /\ ValidRevisions[r].journalIndex <= Len(entries)
    BY <1>4, <1>6 DEF Names
  <1>8. /\ pc' = "undo"
        /\ undo' = [next |-> Len(entries), idx |-> r,
                    snapshot |-> ValidRevisions[r].journalIndex]
    <2>1. r <= Len(ValidRevisions)
      BY <1>4, FrameFacts
    <2> QED
      BY <1>5, <1>7, <2>1 DEF RevertToSnapshot
  <1>9. /\ undo'.next = Len(entries) /\ undo'.idx = r
        /\ undo'.snapshot = ValidRevisions[r].journalIndex
        /\ undo' \in [next : Nat, snapshot : Nat, idx : Nat \ {0}]
    BY <1>4, <1>8, FrameFacts
  <1>10. Live' = Live
    BY <1>6, <1>8, <1>9 DEF Live
  <1>11. JournalInv' /\ DirtyInv' /\ RevisionInv'
    BY <1>1, <1>10, SameJournal
  <1>12. FrameInv'
    BY <1>1, <1>2, <1>10, SameJournal DEF FrameInv
  <1>13. TypeOK'
    BY <1>1, <1>2, <1>8, <1>9 DEF TypeOK, RestTypeOK
  <1>14. UndoInv'
    BY <1>2, <1>3, <1>4, <1>7, <1>9 DEF UndoInv, Top
  <1>15. ControlInv'
    BY <1>1, <1>2, <1>3, <1>8 DEF ControlInv
  <1> QED
    BY <1>8, <1>11, <1>12, <1>13, <1>14, <1>15 DEF IInv

\* Both callers of RevertToSnapshot, a failed call and a wrong prediction, preserve the invariant.
LEMMA RevertSteps ==
    ASSUME IInv, FailCall \/ FalsePredictTx
    PROVE  IInv' /\ pc' = "undo"
  <1>1. TypeOK /\ RestTypeOK
    BY TypeRest DEF IInv
  <1>2. CASE FailCall
    <2>1. RestTypeOK'
      BY <1>1, <1>2 DEF FailCall, RestTypeOK, groupVars, ghostVars
    <2> QED
      BY <1>2, <2>1, BeginRevert DEF FailCall
  <1>3. CASE FalsePredictTx
    <2>1. errs' \in Seq({"invalid", "rejected", "nil", "ErrFalsePredict"})
      BY <1>1, <1>3 DEF FalsePredictTx, RestTypeOK
    <2>2. RestTypeOK'
      BY <1>1, <1>3, <2>1 DEF FalsePredictTx, RestTypeOK, ghostVars
    <2> QED
      BY <1>3, <2>2, BeginRevert DEF FalsePredictTx
  <1> QED
    BY <1>2, <1>3

\* During a revert every open frame's snapshot lies at or below the target,
\* and only the innermost one is the target.
LEMMA FramesBelowTarget ==
    ASSUME IInv, pc = "undo", NEW f \in 1..Len(frames), NEW r \in 1..Len(ValidRevisions),
           Names(r, frames[f])
    PROVE  /\ ValidRevisions[r].journalIndex <= undo.snapshot
           /\ f < Len(frames) => r < undo.idx
  <1>1. /\ RevisionInv /\ FrameInv /\ UndoInv
    BY DEF IInv
  <1>2. /\ undo.idx \in 1..Len(ValidRevisions) /\ ValidRevisions[undo.idx].id = Top.id
        /\ ValidRevisions[undo.idx].journalIndex = undo.snapshot
    BY <1>1 DEF UndoInv
  <1>3. f < Len(frames) => frames[f].id < Top.id
    BY <1>1, FrameFacts DEF FrameInv, Top
  <1>4. ValidRevisions[r].id = frames[f].id
    BY DEF Names
  <1>5. f = Len(frames) => ValidRevisions[r].id = Top.id
    BY <1>4 DEF Top
  <1>6. r # undo.idx => r < undo.idx \/ undo.idx < r
    BY <1>2, FrameFacts
  <1>7. undo.idx < r => Top.id < ValidRevisions[r].id
    BY <1>1, <1>2 DEF RevisionInv
  <1>8. f < Len(frames) \/ f = Len(frames)
    BY FrameFacts
  <1>9. Top.id \in Nat /\ frames[f].id \in Nat
    BY <1>2, FrameFacts
  <1>10. ~(undo.idx < r)
    BY <1>3, <1>4, <1>5, <1>7, <1>8, <1>9
  <1>11. f < Len(frames) => r # undo.idx
    BY <1>2, <1>3, <1>4, <1>9
  <1>12. r < undo.idx => ValidRevisions[r].journalIndex <= undo.snapshot
    BY <1>1, <1>2 DEF RevisionInv
  <1>13. r = undo.idx => ValidRevisions[r].journalIndex <= undo.snapshot
    BY <1>2, FrameFacts
  <1> QED
    BY <1>6, <1>10, <1>11, <1>12, <1>13
\* Undoing one entry: the present state becomes the point before the entry.
LEMMA UndoStep ==
    ASSUME IInv, UndoEntry, NEW i, i = undo.next
    PROVE  IInv'
  <1>1. /\ TypeOK /\ JournalInv /\ DirtyInv /\ RevisionInv /\ FrameInv /\ UndoInv /\ ControlInv
    BY DEF IInv
  <1>2. /\ pc = "undo" /\ undo.next > undo.snapshot
        /\ entries' = entries /\ past' = past /\ frames' = frames
        /\ ValidRevisions' = ValidRevisions /\ NextRevisionId' = NextRevisionId
        /\ RestTypeOK' /\ undo' = [undo EXCEPT !.next = @ - 1]
    BY <1>1, TypeRest DEF UndoEntry, revisionVars, groupVars, ghostVars, RestTypeOK
  <1>3. /\ undo \in [next : Nat, snapshot : Nat, idx : Nat \ {0}]
        /\ i \in Nat /\ undo.snapshot \in Nat
    BY <1>1 DEF TypeOK
  <1>4. /\ undo'.next = i - 1 /\ undo'.snapshot = undo.snapshot /\ undo'.idx = undo.idx
        /\ i - 1 \in Nat /\ i \in 1..i /\ undo.snapshot <= i - 1
        /\ undo' \in [next : Nat, snapshot : Nat, idx : Nat \ {0}]
    BY <1>2, <1>3
  <1>5. Live = i /\ Point(i + 1) = Present
    BY <1>2 DEF Live, Point
  <1>6. /\ Accounts[entries[i].account] # Nil
        /\ UndoneAccounts(entries[i], Accounts) = past[i].acc
        /\ UndoneDirties(entries[i], dirties) = past[i].dirty
    BY <1>1, <1>4, <1>5 DEF JournalInv, Present
  <1>7. Accounts' = past[i].acc /\ dirties' = past[i].dirty /\ pc' = "undo"
    BY <1>6 DEF UndoEntry
  <1>8. i \in 1..Len(past) /\ i \in 0..Len(entries) /\ Len(entries) \in Nat
    BY <1>1, <1>3, <1>4, <1>5, FrameFacts DEF JournalInv
  <1>9. past[i] \in Moment
    BY <1>1, <1>8 DEF TypeOK
  <1>10. past[i] = [acc |-> past[i].acc, dirty |-> past[i].dirty]
         /\ past[i].acc \in AccountMap /\ past[i].dirty \in [Addresses -> Nat]
    BY <1>9 DEF Moment
  <1>11. Live' = i - 1
    BY <1>4, <1>7 DEF Live
  <1>12. ASSUME NEW j \in 1..i
         PROVE  Point(j)' = Point(j)
    <2>1. j # i + 1 /\ (j = (i - 1) + 1 <=> j = i)
      BY <1>3
    <2>2. Point(j) = past[j]
      BY <1>5, <2>1 DEF Point
    <2>3. CASE j = i
      BY <1>2, <1>7, <1>10, <1>11, <2>1, <2>2, <2>3 DEF Point, Present
    <2>4. CASE j # i
      BY <1>2, <1>11, <2>1, <2>2, <2>4 DEF Point
    <2> QED
      BY <2>3, <2>4
  <1>13. \A j \in 1..(i - 1) : j \in 1..i /\ j + 1 \in 1..i
    BY <1>3
  <1>14. JournalInv'
    <2>1. Live' \in 0..Len(entries)
      BY <1>4, <1>8, <1>11
    <2>2. ASSUME NEW j \in 1..(i - 1)
          PROVE  Point(j + 1)' = Point(j + 1)
      BY <1>12, <1>13
    <2>3. \A j \in 1..(i - 1) :
            /\ Point(j + 1)'.acc[entries[j].account] # Nil
            /\ UndoneAccounts(entries[j], Point(j + 1)'.acc) = past[j].acc
            /\ UndoneDirties(entries[j], Point(j + 1)'.dirty) = past[j].dirty
      BY <1>1, <1>5, <1>13, <2>2 DEF JournalInv
    <2> QED
      BY <1>1, <1>2, <1>11, <2>1, <2>3 DEF JournalInv
  <1>15. DirtyInv'
    <2>1. \A j \in 1..i : j \in 1..(i + 1)
      BY <1>3
    <2>2. \A j \in 1..i : DirtyExists(Point(j)')
      BY <1>1, <1>5, <1>12, <2>1 DEF DirtyInv
    <2>3. 1..(Live' + 1) = 1..i
      BY <1>3, <1>11
    <2> QED
      BY <2>2, <2>3 DEF DirtyInv, DirtyExists
  <1>16. RevisionInv'
    BY <1>1, <1>2 DEF RevisionInv
  <1>17. FrameInv'
    <2>1. ASSUME NEW f \in 1..Len(frames), NEW r \in 1..Len(ValidRevisions),
                 NEW frame, frame = frames[f], Names(r, frame)
          PROVE  Names(r, frame)'
      <3>1. SUFFICES ASSUME NEW j, j = ValidRevisions[r].journalIndex
                     PROVE  Names(r, frame)'
        OBVIOUS
      <3>2. j \in Nat /\ j <= undo.snapshot
        BY <1>2, <2>1, <3>1, FrameFacts, FramesBelowTarget
      <3>3. j <= i - 1 /\ j + 1 \in 1..i
        BY <1>3, <1>4, <3>2
      <3>4. Point(j + 1)' = Point(j + 1)
        BY <1>12, <3>3
      <3> QED
        BY <1>2, <1>11, <2>1, <3>1, <3>3, <3>4 DEF Names
    <2>2. \A f \in 1..Len(frames) : \E r \in 1..Len(ValidRevisions) : Names(r, frames[f])
      BY <1>1 DEF FrameInv
    <2>3. \A f \in 1..Len(frames') : \E r \in 1..Len(ValidRevisions') : Names(r, frames[f])'
      BY <1>2, <2>1, <2>2
    <2> QED
      BY <1>1, <1>2, <2>3 DEF FrameInv
  <1>18. TypeOK'
    BY <1>1, <1>2, <1>4, <1>7, <1>10 DEF TypeOK, RestTypeOK
  <1>19. UndoInv'
    BY <1>1, <1>2, <1>4 DEF UndoInv, Top
  <1>20. ControlInv'
    BY <1>1, <1>2, <1>7 DEF ControlInv
  <1> QED
    BY <1>14, <1>15, <1>16, <1>17, <1>18, <1>19, <1>20 DEF IInv
\* A prefix of a sequence.
LEMMA Prefix ==
    ASSUME NEW S, NEW s \in Seq(S), NEW n \in 0..Len(s), NEW t, t = SubSeq(s, 1, n)
    PROVE  /\ t \in Seq(S) /\ Len(t) = n
           /\ \A i \in 1..n : t[i] = s[i]
  <1>1. Len(s) \in Nat /\ n \in Nat /\ 1 \in Int /\ n \in Int
    BY LenProperties
  <1>2. \A i \in 1..n : s[i] \in S
    BY <1>1
  <1>3. /\ t \in Seq(S)
        /\ Len(t) = IF 1 <= n THEN n - 1 + 1 ELSE 0
        /\ \A i \in 1..(n - 1 + 1) : t[i] = s[1 + i - 1]
    BY <1>1, <1>2, SubSeqProperties
  <1>4. n - 1 + 1 = n /\ (~(1 <= n) => n = 0) /\ \A i \in 1..n : 1 + i - 1 = i
    BY <1>1
  <1> QED
    BY <1>3, <1>4

\* The end of a revert: the journal and the revisions are cut back to the
\* snapshot, and its frame is gone.
LEMMA FinishStep ==
    ASSUME IInv, FinishRevert, NEW n, n = undo.snapshot, NEW m, m = undo.idx - 1
    PROVE  IInv'
  <1>1. /\ TypeOK /\ JournalInv /\ DirtyInv /\ RevisionInv /\ FrameInv /\ UndoInv /\ ControlInv
    BY DEF IInv
  <1>2. /\ pc = "undo" /\ undo.next <= undo.snapshot
        /\ entries' = SubSeq(entries, 1, n) /\ past' = SubSeq(past, 1, n)
        /\ ValidRevisions' = SubSeq(ValidRevisions, 1, m)
        /\ frames' = SubSeq(frames, 1, Len(frames) - 1)
        /\ Accounts' = Accounts /\ dirties' = dirties
        /\ NextRevisionId' = NextRevisionId /\ undo' = NoUndo
        /\ pc' = IF Len(frames) = 1 THEN "idle" ELSE "exec"
    BY DEF FinishRevert, Truncated
  <1>3. /\ undo \in [next : Nat, snapshot : Nat, idx : Nat \ {0}] /\ frames # <<>>
        /\ undo.idx \in 1..Len(ValidRevisions) /\ undo.snapshot <= undo.next
        /\ ValidRevisions[undo.idx].journalIndex = n
    BY <1>1, <1>2 DEF TypeOK, UndoInv
  <1>4. /\ n \in Nat /\ Live = n
    BY <1>2, <1>3 DEF Live
  <1>5. /\ n \in 0..Len(entries) /\ n \in 0..Len(past) /\ m \in 0..Len(ValidRevisions)
        /\ m \in Nat
    BY <1>1, <1>3, <1>4, FrameFacts DEF JournalInv
  <1>6. /\ entries' \in Seq(JournalEntry) /\ Len(entries') = n
        /\ \A i \in 1..n : entries'[i] = entries[i]
    <2>1. entries \in Seq(JournalEntry) /\ n \in 0..Len(entries)
      BY <1>5, FrameFacts
    <2>2. entries' = SubSeq(entries, 1, n)
      BY <1>2
    <2> QED
      BY <2>1, <2>2, Prefix
  <1>7. /\ past' \in Seq(Moment) /\ Len(past') = n
        /\ \A i \in 1..n : past'[i] = past[i]
    <2>1. past \in Seq(Moment) /\ n \in 0..Len(past)
      BY <1>5, FrameFacts
    <2>2. past' = SubSeq(past, 1, n)
      BY <1>2
    <2> QED
      BY <2>1, <2>2, Prefix
  <1>8. /\ ValidRevisions' \in Seq(Revision) /\ Len(ValidRevisions') = m
        /\ \A r \in 1..m : ValidRevisions'[r] = ValidRevisions[r]
    <2>1. ValidRevisions \in Seq(Revision) /\ m \in 0..Len(ValidRevisions)
      BY <1>5, FrameFacts
    <2>2. ValidRevisions' = SubSeq(ValidRevisions, 1, m)
      BY <1>2
    <2> QED
      BY <2>1, <2>2, Prefix
  <1>9. /\ frames' \in Seq(FrameType) /\ Len(frames) \in Nat \ {0}
        /\ Len(frames') = Len(frames) - 1
        /\ \A f \in 1..(Len(frames) - 1) : frames'[f] = frames[f]
    <2>1. frames \in Seq(FrameType)
      BY FrameFacts
    <2>2. frames' = SubSeq(frames, 1, Len(frames) - 1) /\ frames # <<>>
      BY <1>2, <1>3
    <2> QED
      BY <2>1, <2>2, PopFrames
  <1>10. Live' = n
    BY <1>2, <1>6 DEF Live
  <1>11. ASSUME NEW j \in 1..(n + 1)
         PROVE  Point(j)' = Point(j)
    <2>1. j # n + 1 => j \in 1..n
      BY <1>4
    <2> QED
      BY <1>2, <1>4, <1>7, <1>10, <2>1 DEF Point, Present
  <1>12. \A j \in 1..n : j \in 1..(n + 1) /\ j + 1 \in 1..(n + 1)
    BY <1>4
  <1>13. JournalInv'
    <2>1. Live' \in 0..Len(entries')
      BY <1>4, <1>6, <1>10
    <2>2. ASSUME NEW j \in 1..n
          PROVE  Point(j + 1)' = Point(j + 1)
      BY <1>11, <1>12
    <2>3. \A j \in 1..n :
            /\ Point(j + 1)'.acc[entries'[j].account] # Nil
            /\ UndoneAccounts(entries'[j], Point(j + 1)'.acc) = past'[j].acc
            /\ UndoneDirties(entries'[j], Point(j + 1)'.dirty) = past'[j].dirty
      BY <1>1, <1>4, <1>6, <1>7, <2>2 DEF JournalInv
    <2> QED
      BY <1>6, <1>7, <1>10, <2>1, <2>3 DEF JournalInv
  <1>14. DirtyInv'
    <2>1. \A j \in 1..(n + 1) : DirtyExists(Point(j)')
      BY <1>1, <1>4, <1>11 DEF DirtyInv
    <2> QED
      BY <1>10, <2>1 DEF DirtyInv, DirtyExists
  <1>15. \A r \in 1..m : /\ r \in 1..Len(ValidRevisions) /\ r < undo.idx
                         /\ ValidRevisions[r].journalIndex <= n
    <2>1. \A r \in 1..m : r \in 1..Len(ValidRevisions) /\ r < undo.idx
      BY <1>3, <1>5, FrameFacts
    <2> QED
      BY <1>1, <1>3, <2>1 DEF RevisionInv
  <1>16. RevisionInv'
    BY <1>1, <1>2, <1>6, <1>8, <1>15 DEF RevisionInv
  <1>17. FrameInv'
    <2>1. ASSUME NEW f \in 1..(Len(frames) - 1), NEW r \in 1..Len(ValidRevisions),
                 NEW frame, frame = frames[f], Names(r, frame)
          PROVE  r \in 1..m /\ Names(r, frame)'
      <3>1. SUFFICES ASSUME NEW j, j = ValidRevisions[r].journalIndex
                     PROVE  r \in 1..m /\ Names(r, frame)'
        OBVIOUS
      <3>2. f \in 1..Len(frames) /\ f < Len(frames)
        BY <1>9
      <3>3. j \in Nat /\ j <= n /\ r < undo.idx
        BY <1>2, <2>1, <3>1, <3>2, FrameFacts, FramesBelowTarget
      <3>4. r \in 1..m /\ j + 1 \in 1..(n + 1) /\ j <= Live'
        BY <1>3, <1>4, <1>5, <1>10, <3>3, FrameFacts
      <3>5. Point(j + 1)' = Point(j + 1)
        BY <1>11, <3>4
      <3> QED
        BY <1>8, <2>1, <3>1, <3>4, <3>5 DEF Names
    <2>2. \A f \in 1..Len(frames) : \E r \in 1..Len(ValidRevisions) : Names(r, frames[f])
      BY <1>1 DEF FrameInv
    <2>3. \A f \in 1..Len(frames') :
            f \in 1..(Len(frames) - 1) /\ f \in 1..Len(frames) /\ frames'[f] = frames[f]
      BY <1>9
    <2>4. \A f \in 1..Len(frames') : \E r \in 1..Len(ValidRevisions') : Names(r, frames[f])'
      BY <1>8, <1>9, <2>1, <2>2, <2>3
    <2>5. \A f, g \in 1..Len(frames') : f < g => frames'[f].id < frames'[g].id
      BY <1>1, <2>3 DEF FrameInv
    <2> QED
      BY <2>4, <2>5 DEF FrameInv
  <1>18. TypeOK'
    <2>1. RestTypeOK'
      <3>1. Len(frames) \in 1..Len(frames)
        BY <1>9
      <3>2. Top \in FrameType
        BY <3>1, FrameFacts DEF Top
      <3>3. Top.saved.truth \in TruthMap
        BY <3>2 DEF FrameType
      <3> QED
        BY <1>1, <3>3, TypeRest DEF FinishRevert, RestTypeOK, groupVars
    <2>2. undo' \in [next : Nat, snapshot : Nat, idx : Nat \ {0}]
      BY <1>2 DEF NoUndo
    <2> QED
      BY <1>1, <1>2, <1>6, <1>7, <1>8, <1>9, <2>1, <2>2 DEF TypeOK, RestTypeOK
  <1>19. UndoInv'
    BY <1>2 DEF UndoInv
  <1>20. ControlInv'
    <2>1. Len(frames') = 0 <=> Len(frames) = 1
      BY <1>9
    <2>2. frames' = <<>> => Len(frames') = 0
      BY EmptySeq
    <2>3. frames' # <<>> => Len(frames') \in Nat \ {0}
      BY <1>9, EmptySeq
    <2> QED
      BY <1>2, <2>1, <2>2, <2>3 DEF ControlInv
  <1> QED
    BY <1>13, <1>14, <1>15, <1>16, <1>17, <1>18, <1>19, <1>20 DEF IInv

(***************************************************************************)
(* The theorems.                                                           *)
(***************************************************************************)

\* The invariant is inductive.
LEMMA NextIInv == IInv /\ [Next]_vars => IInv'
  <1> SUFFICES ASSUME IInv, [Next]_vars
               PROVE  IInv'
    OBVIOUS
  <1>1. CASE UNCHANGED vars
    <2>1. /\ UNCHANGED <<journalVars, revisionVars>>
          /\ pc' = pc /\ undo' = undo /\ frames' = frames
          /\ Accounts' = Accounts /\ entries' = entries /\ dirties' = dirties /\ past' = past
          /\ ValidRevisions' = ValidRevisions /\ NextRevisionId' = NextRevisionId
      BY <1>1 DEF vars, journalVars, revisionVars
    <2>2. Live' = Live
      BY <2>1 DEF Live
    <2>3. JournalInv' /\ DirtyInv' /\ RevisionInv'
      BY <2>1, <2>2, SameJournal DEF IInv
    <2>4. FrameInv'
      BY <2>1, <2>2, SameJournal DEF IInv, FrameInv
    <2>5. TypeOK'
      BY <1>1, <2>1 DEF IInv, TypeOK, vars, groupVars, ghostVars
    <2>6. UndoInv' /\ ControlInv'
      BY <2>1 DEF IInv, UndoInv, ControlInv, Top
    <2> QED
      BY <2>3, <2>4, <2>5, <2>6 DEF IInv
  <1>2. CASE Next
    BY <1>2, PhaseSteps, PrefetchStep, SnapshotSteps, PopSteps, RevertSteps, OperationStep,
       UndoStep, FinishStep, MergeStep DEF Next
  <1> QED
    BY <1>1, <1>2
\* The structural invariant holds in every reachable state.
THEOREM StructureIsInvariant == Spec => []IInv
  <1>1. Init => IInv
    BY InitIInv
  <1>2. IInv /\ [Next]_vars => IInv'
    BY NextIInv
  <1> QED
    BY <1>1, <1>2, PTL DEF Spec

\* Type correctness: every variable of the cache keeps its type, ids and
\* journal indices stay natural numbers, dirty counts never go negative.
THEOREM TypeCorrect == Spec => []TypeOK
  <1>1. IInv => TypeOK
    BY DEF IInv
  <1> QED
    BY <1>1, StructureIsInvariant, PTL

\* No sequence of calls makes the worker panic, whatever the size of the
\* group, of the journal and of the call stack.
THEOREM WorkerNeverPanics == Spec => []NoPanic
  <1>1. IInv => NoPanic
    BY DEF IInv, ControlInv, NoPanic
  <1> QED
    BY <1>1, StructureIsInvariant, PTL

(***************************************************************************)
(* A cache implements a revertible store.                                  *)
(***************************************************************************)

\* What a frame saved, as the abstract store sees it.
Saved(frame) == <<frame.saved.acc, frame.saved.dirty>>
SavedAll == [i \in 1..Len(frames) |-> Saved(frames[i])]

\* Opening a frame appends to the stack of saved contents.
LEMMA SavesAppend ==
    ASSUME NEW x, frames \in Seq(FrameType), frames' = Append(frames, x)
    PROVE  SavedAll' = Append(SavedAll, Saved(x))
  <1>1. Len(frames) \in Nat /\ Len(frames') = Len(frames) + 1
    OBVIOUS
  <1>2. /\ \A i \in 1..Len(frames) : frames'[i] = frames[i]
        /\ frames'[Len(frames) + 1] = x
    OBVIOUS
  <1>3. SavedAll \in Seq({Saved(frames[i]) : i \in 1..Len(frames)})
    BY <1>1 DEF SavedAll
  <1> QED
    BY <1>1, <1>2, <1>3 DEF SavedAll

\* Leaving a frame removes the last saved contents.
LEMMA SavesDrop ==
    ASSUME frames \in Seq(FrameType), frames # <<>>,
           frames' = SubSeq(frames, 1, Len(frames) - 1)
    PROVE  /\ SavedAll # <<>>
           /\ SavedAll' = SubSeq(SavedAll, 1, Len(SavedAll) - 1)
           /\ SavedAll[Len(SavedAll)] = Saved(Top)
  <1>1. /\ Len(frames) \in Nat \ {0} /\ Len(frames') = Len(frames) - 1
        /\ \A f \in 1..(Len(frames) - 1) : frames'[f] = frames[f]
    BY PopFrames
  <1>2. SavedAll \in Seq({Saved(frames[i]) : i \in 1..Len(frames)}) /\ Len(SavedAll) = Len(frames)
    BY <1>1 DEF SavedAll
  <1>3. SavedAll # <<>> /\ SavedAll[Len(SavedAll)] = Saved(Top)
    BY <1>1, <1>2, EmptySeq DEF SavedAll, Top
  <1>4. SubSeq(SavedAll, 1, Len(SavedAll) - 1) = [i \in 1..(Len(frames) - 1) |-> SavedAll[i]]
    BY <1>1, <1>2
  <1> QED
    BY <1>1, <1>3, <1>4 DEF SavedAll
\* When a revert ends, the present state is what its frame saved.
LEMMA RevertReachesTop ==
    ASSUME IInv, pc = "undo", undo.next <= undo.snapshot
    PROVE  Saved(Top) = <<Accounts, dirties>>
  <1>1. /\ TypeOK /\ RevisionInv /\ FrameInv /\ UndoInv
    BY DEF IInv
  <1>2. /\ undo.idx \in 1..Len(ValidRevisions) /\ ValidRevisions[undo.idx].id = Top.id
        /\ ValidRevisions[undo.idx].journalIndex = undo.snapshot
        /\ undo.next \in Nat /\ undo.snapshot \in Nat /\ undo.snapshot <= undo.next
        /\ frames # <<>>
    BY <1>1 DEF UndoInv, TypeOK
  <1>3. Len(frames) \in 1..Len(frames)
    BY <1>2, FrameFacts
  <1>4. PICK r \in 1..Len(ValidRevisions) : Names(r, Top)
    BY <1>1, <1>3 DEF FrameInv, Top
  <1>5. r = undo.idx
    <2>1. ValidRevisions[r].id = Top.id
      BY <1>4 DEF Names
    <2>2. Top.id \in Nat
      BY <1>3, FrameFacts DEF Top
    <2>3. ~(r < undo.idx) /\ ~(undo.idx < r)
      BY <1>1, <1>2, <2>1, <2>2 DEF RevisionInv
    <2> QED
      BY <1>2, <2>3, FrameFacts
  <1>6. Point(undo.snapshot + 1) = [acc |-> Top.saved.acc, dirty |-> Top.saved.dirty]
    BY <1>2, <1>4, <1>5 DEF Names
  <1>7. undo.snapshot + 1 = Live + 1
    BY <1>2 DEF Live
  <1>8. [acc |-> Accounts, dirty |-> dirties] = [acc |-> Top.saved.acc, dirty |-> Top.saved.dirty]
    BY <1>6, <1>7 DEF Point, Present
  <1>9. Accounts = Top.saved.acc /\ dirties = Top.saved.dirty
    BY <1>8
  <1> QED
    BY <1>9 DEF Saved

\* The store as the abstract specification sees it.
Contents == IF pc = "undo" THEN Busy ELSE <<Accounts, dirties>>

\* The steps that leave the stack of saved contents alone.
FlatNext ==
    \/ \E a \in Addresses, key \in AccountKeys \cup Slots : prefetchSetter(a, key)
    \/ PrefetchDone \/ InvalidTx \/ RejectedTx \/ Operation
    \/ StartMerge \/ (\E a \in Addresses : MergeAccount(a)) \/ MergeDone \/ Returned

\* Such a step is a write of the abstract store.
LEMMA FlatStep ==
    ASSUME FlatNext
    PROVE  pc # "undo" /\ pc' # "undo" /\ frames' = frames
  <1>1. CASE \E a \in Addresses, key \in AccountKeys \cup Slots : prefetchSetter(a, key)
    BY <1>1 DEF prefetchSetter
  <1>2. CASE PrefetchDone \/ InvalidTx \/ RejectedTx
    BY <1>2 DEF PrefetchDone, InvalidTx, RejectedTx
  <1>3. CASE Operation
    BY <1>3 DEF Operation, CreateAccount, SelfDestruct, CodeMiss, Dropped, SubBalance, AddBalance,
                SetBalance, ChangeBalance, SetNonce, SetCode, GetState, SetState, SetStateMiss,
                AddLog, OpFrame
  <1>4. CASE StartMerge \/ (\E a \in Addresses : MergeAccount(a)) \/ MergeDone \/ Returned
    BY <1>4 DEF StartMerge, MergeAccount, MergeDone, Returned, vars
  <1> QED
    BY <1>1, <1>2, <1>3, <1>4 DEF FlatNext

\* Every step of a cache is a step of the revertible store, or a stutter.
LEMMA StepRefines ==
    ASSUME IInv, IInv', [Next]_vars
    PROVE  [Store!Next]_<<Contents, SavedAll>>
  <1>1. /\ frames \in Seq(FrameType) /\ ControlInv /\ ControlInv'
    BY FrameFacts DEF IInv
  <1>2. <<Accounts, dirties>> # Busy /\ <<Accounts', dirties'>> # Busy
    BY DEF Busy
  <1>3. CASE FlatNext
    <2>1. Store!Write
      BY <1>2, <1>3, FlatStep DEF Store!Write
    <2> QED
      BY <2>1 DEF Store!Next
  <1>4. CASE BeginTx \/ EnterCall
    <2>1. frames' = Append(frames, Frame) /\ pc # "undo" /\ pc' # "undo"
          /\ Accounts' = Accounts /\ dirties' = dirties
      <3>1. CASE BeginTx
        <4>1. frames = <<>> /\ frames' = <<Frame>>
          BY <1>1, <3>1 DEF BeginTx, ControlInv
        <4>2. Append(<<>>, Frame) = <<Frame>>
          OBVIOUS
        <4> QED
          BY <3>1, <4>1, <4>2 DEF BeginTx, journalVars
      <3>2. CASE EnterCall
        BY <3>2 DEF EnterCall, journalVars
      <3> QED
        BY <1>4, <3>1, <3>2
    <2>2. SavedAll' = Append(SavedAll, <<Accounts, dirties>>)
      BY <1>1, <2>1, SavesAppend DEF Saved, Frame
    <2>3. Store!Open
      BY <1>2, <2>1, <2>2 DEF Store!Open, SavedAll, Saved
    <2> QED
      BY <2>3 DEF Store!Next
  <1>5. CASE ReturnCall \/ CommitTx
    <2>1. frames # <<>> /\ pc # "undo" /\ pc' # "undo"
          /\ Accounts' = Accounts /\ dirties' = dirties
      BY <1>1, <1>5 DEF ReturnCall, CommitTx, ControlInv, journalVars
    <2>2. frames' = SubSeq(frames, 1, Len(frames) - 1)
      <3>1. CASE ReturnCall
        BY <3>1 DEF ReturnCall
      <3>2. CASE CommitTx
        <4>1. SubSeq(frames, 1, 0) = <<>>
          BY SubSeqEmpty
        <4> QED
          BY <3>2, <4>1 DEF CommitTx
      <3> QED
        BY <1>5, <3>1, <3>2
    <2>3. Store!Keep
      BY <1>1, <1>2, <2>1, <2>2, SavesDrop DEF Store!Keep, Store!Drop, SavedAll, Saved
    <2> QED
      BY <2>3 DEF Store!Next
  <1>6. CASE FailCall \/ FalsePredictTx
    <2>1. frames # <<>> /\ frames' = frames /\ pc # "undo" /\ pc' = "undo"
      BY <1>1, <1>6, RevertSteps DEF FailCall, FalsePredictTx, ControlInv
    <2>2. SavedAll # <<>>
      BY <1>1, <2>1, EmptySeq DEF SavedAll
    <2>3. Store!BeginRollback
      BY <1>2, <2>1, <2>2 DEF Store!BeginRollback, SavedAll, Saved
    <2> QED
      BY <2>3 DEF Store!Next
  <1>7. CASE UndoEntry
    <2>1. frames' = frames /\ pc = "undo" /\ pc' = "undo"
      BY <1>1, <1>7 DEF UndoEntry, ControlInv
    <2> QED
      BY <2>1 DEF Contents, SavedAll
  <1>8. CASE FinishRevert
    <2>1. /\ frames' = SubSeq(frames, 1, Len(frames) - 1)
          /\ pc = "undo" /\ pc' # "undo" /\ undo.next <= undo.snapshot
          /\ Accounts' = Accounts /\ dirties' = dirties
      BY <1>8 DEF FinishRevert
    <2>2. frames # <<>>
      BY <1>1, <2>1 DEF ControlInv
    <2>3. /\ SavedAll # <<>> /\ SavedAll' = SubSeq(SavedAll, 1, Len(SavedAll) - 1)
          /\ <<Accounts', dirties'>> = SavedAll[Len(SavedAll)]
      BY <1>1, <2>1, <2>2, SavesDrop, RevertReachesTop
    <2>4. Store!EndRollback
      BY <2>1, <2>3 DEF Store!EndRollback, Store!Drop, SavedAll, Saved
    <2> QED
      BY <2>4 DEF Store!Next
  <1>9. CASE UNCHANGED vars
    BY <1>9 DEF vars, journalVars, Contents, SavedAll
  <1> QED
    BY <1>3, <1>4, <1>5, <1>6, <1>7, <1>8, <1>9 DEF Next, FlatNext

\* The cache implements the revertible store: every Snapshot/RevertToSnapshot
\* pair gives back the account map and the dirty counts of the moment of the
\* snapshot.
THEOREM CacheImplementsStore == Spec => RevertRestores
  <1>1. Init => Store!Init
    BY EmptySeq DEF Init, Store!Init, Busy
  <1>2. IInv /\ IInv' /\ [Next]_vars => [Store!Next]_<<Contents, SavedAll>>
    BY StepRefines
  <1>3. [Store!Next]_<<Contents, SavedAll>>
            => [Store!Next]_<<IF pc = "undo" THEN Busy ELSE <<Accounts, dirties>>,
                              [i \in 1..Len(frames) |->
                                    <<frames[i].saved.acc, frames[i].saved.dirty>>]>>
    BY DEF Contents, SavedAll, Saved
  <1> QED
    BY <1>1, <1>2, <1>3, StructureIsInvariant, PTL DEF Spec, RevertRestores, Store!Spec

(***************************************************************************)
(* What a CacheState tells a transaction, and what MergeState writes, is   *)
(* what running the group on the database itself would have given: the     *)
(* invariance of GhostInv, on top of that of IInv.                         *)
(***************************************************************************)

\* What the cache holds of a slot.
Slot(acc, a, k) == IF acc[a] = Nil THEN NoValue ELSE acc[a].CacheStorage[k]

\* Soundness looks at nothing else in the account objects.
LEMMA SoundSlots ==
    ASSUME NEW acc, NEW dirty, NEW storage
    PROVE  Sound(acc, dirty, storage) <=>
            \A a \in Addresses, k \in Slots :
                /\ Slot(acc, a, k) # NoValue => Slot(acc, a, k) = storage[a][k]
                /\ \/ storage[a][k] = InitialDB[a].CacheStorage[k]
                   \/ dirty[a] # 0 /\ Slot(acc, a, k) # NoValue
  BY DEF Sound, Agrees, Kept, Slot

\* Soundness survives a change of other fields, and more dirty accounts.
LEMMA SoundSame ==
    ASSUME NEW acc, NEW acc2, NEW dirty, NEW dirty2, NEW storage, Sound(acc, dirty, storage),
           \A a \in Addresses, k \in Slots : Slot(acc2, a, k) = Slot(acc, a, k),
           \A a \in Addresses : dirty[a] # 0 => dirty2[a] # 0
    PROVE  Sound(acc2, dirty2, storage)
  BY SoundSlots

\* journal.append only adds to the counts.
LEMMA RecordDirties ==
    ASSUME dirties \in [Addresses -> Nat], NEW e, e.account \in Addresses, Record(e)
    PROVE  /\ \A a \in Addresses : dirties[a] # 0 => dirties'[a] # 0
           /\ dirties'[e.account] # 0
  <1>1. dirties' = [dirties EXCEPT ![e.account] = @ + 1]
    BY DEF Record
  <1>2. /\ dirties'[e.account] = dirties[e.account] + 1 /\ dirties[e.account] \in Nat
        /\ \A a \in Addresses : a # e.account => dirties'[a] = dirties[a]
    BY <1>1
  <1>3. dirties'[e.account] # 0
    BY <1>2
  <1> QED
    BY <1>2, <1>3

\* The setters that change other fields of an account object.
FieldOperation(a, x) ==
    \/ CreateAccount(a) \/ SelfDestruct(a)
    \/ x \in Int /\ ChangeBalance(a, x)
    \/ x \in Nat /\ SetNonce(a, x)
    \/ x \in Codes /\ SetCode(a, x)

\* They leave the slots as they were, a created account has none.
LEMMA FieldSlots ==
    ASSUME TypeOK, NEW a \in Addresses, NEW x, FieldOperation(a, x)
    PROVE  /\ \A b \in Addresses, k \in Slots : Slot(Accounts', b, k) = Slot(Accounts, b, k)
           /\ \A b \in Addresses : dirties[b] # 0 => dirties'[b] # 0
  <1>1. Accounts \in AccountMap /\ dirties \in [Addresses -> Nat]
    BY DEF TypeOK
  <1>2. \A b \in Addresses : dirties[b] # 0 => dirties'[b] # 0
    <2>1. \E e : e.account = a /\ Record(e)
      <3> DEFINE created == [kind |-> "createObjectChange", account |-> a]
      <3> DEFINE destroyed == [kind |-> "selfDestructChange", account |-> a,
                     prev |-> Accounts[a].IsAlive, prevbalance |-> Accounts[a].Balance]
      <3> DEFINE paid == [kind |-> "balanceChange", account |-> a, prev |-> Accounts[a].Balance]
      <3> DEFINE counted == [kind |-> "nonceChange", account |-> a, prev |-> Accounts[a].Nonce]
      <3> DEFINE coded == [kind |-> "codeChange", account |-> a,
                     prevcode |-> Accounts[a].ByteCode, prevhash |-> Accounts[a].CodeHash]
      <3>1. /\ created.account = a /\ destroyed.account = a /\ paid.account = a
            /\ counted.account = a /\ coded.account = a
        OBVIOUS
      <3>2. Record(created) \/ Record(destroyed) \/ Record(paid) \/ Record(counted) \/ Record(coded)
        BY DEF FieldOperation, CreateAccount, SelfDestruct, ChangeBalance, SetNonce, SetCode
      <3> HIDE DEF created, destroyed, paid, counted, coded
      <3> QED
        BY <3>1, <3>2
    <2> QED
      BY <1>1, <2>1, RecordDirties
  <1>3. CASE CreateAccount(a)
    <2>1. Accounts[a] = Nil /\ Accounts' = [Accounts EXCEPT ![a] = NewAccountObject]
      BY <1>3 DEF CreateAccount
    <2>2. /\ NewAccountObject.CacheStorage = [k \in Slots |-> NoValue]
      BY DEF NewAccountObject
    <2>3. Accounts'[a] = NewAccountObject /\ \A b \in Addresses : b # a => Accounts'[b] = Accounts[b]
      BY <1>1, <2>1 DEF AccountMap
    <2>4. \A k \in Slots : Slot(Accounts', a, k) = NoValue
      BY <2>2, <2>3 DEF Slot
    <2> QED
      BY <1>2, <2>1, <2>3, <2>4 DEF Slot
  <1>4. CASE ~CreateAccount(a)
    <2>1. Accounts[a] # Nil /\ Accounts[a] \in AccountObject
      BY <1>1, <1>4 DEF FieldOperation, SelfDestruct, ChangeBalance, SetNonce, SetCode, AccountMap
    <2>2. \E obj :
            /\ Accounts' = [Accounts EXCEPT ![a] = obj]
            /\ obj # Nil /\ obj.CacheStorage = Accounts[a].CacheStorage
      <3>1. CASE x \in Int /\ ChangeBalance(a, x)
        <4> DEFINE obj == [Accounts[a] EXCEPT !.Balance = x]
        <4>1. Accounts' = [Accounts EXCEPT ![a] = obj]
          BY <3>1 DEF ChangeBalance
        <4>2. obj \in AccountObject /\ obj.CacheStorage = Accounts[a].CacheStorage
          BY <2>1, <3>1 DEF AccountObject
        <4> QED
          BY <4>1, <4>2, NilIsNoObject
      <3>2. CASE x \in Nat /\ SetNonce(a, x)
        <4> DEFINE obj == [Accounts[a] EXCEPT !.Nonce = x]
        <4>1. Accounts' = [Accounts EXCEPT ![a] = obj]
          BY <3>2 DEF SetNonce
        <4>2. obj \in AccountObject /\ obj.CacheStorage = Accounts[a].CacheStorage
          BY <2>1, <3>2 DEF AccountObject
        <4> QED
          BY <4>1, <4>2, NilIsNoObject
      <3>3. CASE x \in Codes /\ SetCode(a, x)
        <4> DEFINE obj == [Accounts[a] EXCEPT !.ByteCode = x, !.CodeHash = Keccak256(x)]
        <4>1. Accounts' = [Accounts EXCEPT ![a] = obj]
          BY <3>3 DEF SetCode
        <4>2. Keccak256(x) \in Hashes
          BY <3>3 DEF Hashes
        <4>3. obj \in AccountObject /\ obj.CacheStorage = Accounts[a].CacheStorage
          BY <2>1, <3>3, <4>2 DEF AccountObject
        <4> QED
          BY <4>1, <4>3, NilIsNoObject
      <3>4. CASE SelfDestruct(a)
        <4> DEFINE obj == [Accounts[a] EXCEPT !.IsAlive = FALSE, !.Balance = 0]
        <4>1. Accounts' = [Accounts EXCEPT ![a] = obj]
          BY <3>4 DEF SelfDestruct
        <4>2. [Accounts[a] EXCEPT !.IsAlive = FALSE] \in AccountObject
          BY <2>1 DEF AccountObject
        <4>3. \A o \in AccountObject : [o EXCEPT !.Balance = 0] \in AccountObject
          BY DEF AccountObject
        <4>4. obj \in AccountObject
          BY <4>2, <4>3
        <4>5. obj.CacheStorage = Accounts[a].CacheStorage
          BY <2>1 DEF AccountObject
        <4> QED
          BY <4>1, <4>4, <4>5, NilIsNoObject
      <3> QED
        BY <1>4, <3>1, <3>2, <3>3, <3>4 DEF FieldOperation
    <2>3. PICK obj : /\ Accounts' = [Accounts EXCEPT ![a] = obj]
                     /\ obj # Nil /\ obj.CacheStorage = Accounts[a].CacheStorage
      BY <2>2
    <2>4. Accounts'[a] = obj /\ \A b \in Addresses : b # a => Accounts'[b] = Accounts[b]
      BY <1>1, <2>3 DEF AccountMap
    <2> QED
      BY <1>2, <2>1, <2>3, <2>4 DEF Slot
  <1> QED
    BY <1>3, <1>4

(***************************************************************************)
(* The operations of a transaction.                                        *)
(***************************************************************************)

\* What an operation has to meet: StateJudge is never set again, while it stands
\* the cache stays sound, and a stale read takes it down.
LEMMA OperationGhost ==
    ASSUME GhostInv, pc = "exec", OpFrame, StateJudge' => StateJudge,
           StateJudge' => Sound(Accounts', dirties', truth'), stale' => ~StateJudge'
    PROVE  GhostInv'
  <1>1. pc' = "exec" /\ frames' = frames /\ merged' = merged /\ db' = db
    BY DEF OpFrame, groupVars
  <1>2. TruthInv'
    BY <1>1 DEF GhostInv, TruthInv, SavedSound
  <1>3. DatabaseInv'
    BY <1>1 DEF GhostInv, DatabaseInv
  <1> QED
    BY <1>2, <1>3 DEF GhostInv

\* Balances, nonces, code and existence are none of storage's business.
LEMMA FieldGhost ==
    ASSUME TypeOK, GhostInv, NEW a \in Addresses, NEW x, FieldOperation(a, x)
    PROVE  GhostInv'
  <1>1. pc = "exec" /\ OpFrame /\ StateJudge' = StateJudge /\ stale' = stale /\ truth' = truth
    BY DEF FieldOperation, CreateAccount, SelfDestruct, ChangeBalance, SetNonce, SetCode, ghostVars
  <1>2. StateJudge => Sound(Accounts, dirties, truth)
    BY <1>1 DEF GhostInv, TruthInv
  <1>3. StateJudge => Sound(Accounts', dirties', truth)
    BY <1>2, FieldSlots, SoundSame
  <1>4. stale' => ~StateJudge'
    BY <1>1 DEF GhostInv, TruthInv
  <1> QED
    BY <1>1, <1>3, <1>4, OperationGhost

\* SetState writes the cache, the storage it stands for, and the journal.
LEMMA SetStateGhost ==
    ASSUME TypeOK, GhostInv, NEW a \in Addresses, NEW k \in Slots, NEW v \in Values,
           SetState(a, k, v)
    PROVE  GhostInv'
  <1>1. /\ pc = "exec" /\ OpFrame /\ StateJudge' = StateJudge /\ stale' = stale
        /\ Cached(a, k) /\ truth' = [truth EXCEPT ![a][k] = v]
        /\ Accounts' = [Accounts EXCEPT ![a].CacheStorage[k] = v]
    BY DEF SetState
  <1>2. /\ Accounts \in AccountMap /\ dirties \in [Addresses -> Nat] /\ truth \in TruthMap
    BY DEF TypeOK
  <1>3. StateJudge => Sound(Accounts, dirties, truth)
    BY <1>1 DEF GhostInv, TruthInv
  <1>4. /\ \A b \in Addresses : dirties[b] # 0 => dirties'[b] # 0
        /\ dirties'[a] # 0
    <2> DEFINE e == [kind |-> "storageChange", account |-> a, key |-> k,
                     prevalue |-> Accounts[a].CacheStorage[k]]
    <2>1. Record(e) /\ e.account = a
      BY DEF SetState
    <2> HIDE DEF e
    <2> QED
      BY <1>2, <2>1, RecordDirties
  <1>5. v # NoValue
    BY CacheStateAssumption
  <1>6. Accounts[a] # Nil /\ Accounts[a] \in AccountObject
    BY <1>1, <1>2 DEF Cached, AccountMap
  <1>7. /\ Slot(Accounts', a, k) = v
        /\ \A b \in Addresses, j \in Slots :
                <<b, j>> # <<a, k>> => Slot(Accounts', b, j) = Slot(Accounts, b, j)
    <2> DEFINE obj == [Accounts[a] EXCEPT !.CacheStorage = [Accounts[a].CacheStorage EXCEPT ![k] = v]]
    <2>1. Accounts' = [Accounts EXCEPT ![a] = obj]
      BY <1>1
    <2>2. /\ obj \in AccountObject
          /\ obj.CacheStorage = [Accounts[a].CacheStorage EXCEPT ![k] = v]
          /\ Accounts[a].CacheStorage \in [Slots -> Values \cup {NoValue}]
      BY <1>6 DEF AccountObject
    <2>3. obj # Nil
      BY <2>2, NilIsNoObject
    <2>4. /\ obj.CacheStorage[k] = v
          /\ \A j \in Slots : j # k => obj.CacheStorage[j] = Accounts[a].CacheStorage[j]
      BY <2>2
    <2> HIDE DEF obj
    <2>5. Accounts'[a] = obj /\ \A b \in Addresses : b # a => Accounts'[b] = Accounts[b]
      BY <1>2, <2>1 DEF AccountMap
    <2> QED
      BY <1>6, <2>3, <2>4, <2>5 DEF Slot
  <1>8. /\ truth'[a][k] = v
        /\ \A b \in Addresses, j \in Slots : <<b, j>> # <<a, k>> => truth'[b][j] = truth[b][j]
    BY <1>1, <1>2 DEF TruthMap
  <1>9. StateJudge => Sound(Accounts', dirties', truth')
    BY <1>3, <1>4, <1>5, <1>7, <1>8, SoundSlots
  <1>10. stale' => ~StateJudge'
    BY <1>1 DEF GhostInv, TruthInv
  <1> QED
    BY <1>1, <1>9, <1>10, OperationGhost

\* What is read or written outside the cache takes StateJudge down; what is
\* read from the cache is the truth while StateJudge stands.
LEMMA QuietGhost ==
    ASSUME TypeOK, GhostInv, NEW a \in Addresses,
           \/ Dropped(a) \/ CodeMiss(a) \/ AddLog
           \/ \E k \in Slots : GetState(a, k) \/ \E v \in Values : SetStateMiss(a, k, v)
    PROVE  GhostInv'
  <1>1. /\ pc = "exec" /\ OpFrame
        /\ StateJudge' => StateJudge
        /\ Accounts' = Accounts /\ dirties' = dirties
    BY DEF Dropped, CodeMiss, AddLog, GetState, SetStateMiss, Judged, journalVars, TypeOK
  <1>2. /\ StateJudge => Sound(Accounts, dirties, truth)
        /\ stale => ~StateJudge
    BY <1>1 DEF GhostInv, TruthInv
  <1>3. CASE Dropped(a) \/ CodeMiss(a) \/ AddLog
    BY <1>1, <1>2, <1>3, OperationGhost DEF Dropped, CodeMiss, AddLog, ghostVars
  <1>4. ASSUME NEW k \in Slots, GetState(a, k)
        PROVE  GhostInv'
    <2>1. truth' = truth /\ StateJudge' = Judged(a, k)
      BY <1>4 DEF GetState
    <2>2. StateJudge' => StateJudge /\ Cached(a, k) /\ Accounts[a].CacheStorage[k] = truth[a][k]
      BY <1>2, <2>1 DEF Judged, Cached, Sound, Agrees
    <2>3. stale' => ~StateJudge'
      BY <1>2, <1>4, <2>2 DEF GetState
    <2> QED
      BY <1>1, <1>2, <2>1, <2>3, OperationGhost
  <1>5. ASSUME NEW k \in Slots, NEW v \in Values, SetStateMiss(a, k, v)
        PROVE  GhostInv'
    <2>1. ~StateJudge'
      BY <1>5 DEF SetStateMiss, Judged
    <2> QED
      BY <1>1, <2>1, OperationGhost
  <1> QED
    BY <1>3, <1>4, <1>5

\* Every operation of a transaction.
LEMMA OperationGhosts == TypeOK /\ GhostInv /\ Operation => GhostInv'
  <1> SUFFICES ASSUME TypeOK, GhostInv, Operation
               PROVE  GhostInv'
    OBVIOUS
  <1>1. CASE AddLog
    <2>1. pc = "exec" /\ OpFrame /\ StateJudge' = StateJudge /\ UNCHANGED <<journalVars, ghostVars>>
      BY <1>1 DEF AddLog
    <2>2. /\ StateJudge => Sound(Accounts, dirties, truth)
          /\ stale => ~StateJudge
      BY <2>1 DEF GhostInv, TruthInv
    <2> QED
      BY <2>1, <2>2, OperationGhost DEF journalVars, ghostVars
  <1>2. ASSUME NEW a \in Addresses, CreateAccount(a) \/ SelfDestruct(a)
        PROVE  GhostInv'
    <2>1. FieldOperation(a, 0)
      BY <1>2 DEF FieldOperation
    <2> QED
      BY <2>1, FieldGhost
  <1>3. ASSUME NEW a \in Addresses, CodeMiss(a) \/ Dropped(a)
        PROVE  GhostInv'
    BY <1>3, QuietGhost
  <1>4. ASSUME NEW a \in Addresses, NEW n \in Amounts,
               SubBalance(a, n) \/ AddBalance(a, n) \/ SetBalance(a, n)
        PROVE  GhostInv'
    <2>1. n \in Int
      <3>1. Amounts \subseteq Nat
        BY CacheStateAssumption
      <3> QED
        BY <3>1
    <2>2. Accounts[a] # Nil => Accounts[a].Balance \in Int
      BY DEF TypeOK, AccountMap, AccountObject
    <2>3. FieldOperation(a, Accounts[a].Balance - n) \/ FieldOperation(a, Accounts[a].Balance + n)
          \/ FieldOperation(a, n)
      <3>1. Accounts[a] # Nil
        BY <1>4 DEF SubBalance, AddBalance, SetBalance, ChangeBalance
      <3>2. Accounts[a].Balance - n \in Int /\ Accounts[a].Balance + n \in Int
        BY <2>1, <2>2, <3>1
      <3> QED
        BY <1>4, <2>1, <3>2 DEF SubBalance, AddBalance, SetBalance, FieldOperation
    <2> QED
      BY <2>3, FieldGhost
  <1>5. ASSUME NEW a \in Addresses, NEW n \in Nonces, SetNonce(a, n)
        PROVE  GhostInv'
    <2>1. FieldOperation(a, n)
      BY <1>5, CacheStateAssumption DEF FieldOperation
    <2> QED
      BY <2>1, FieldGhost
  <1>6. ASSUME NEW a \in Addresses, NEW c \in Codes, SetCode(a, c)
        PROVE  GhostInv'
    <2>1. FieldOperation(a, c)
      BY <1>6 DEF FieldOperation
    <2> QED
      BY <2>1, FieldGhost
  <1>7. ASSUME NEW a \in Addresses, NEW k \in Slots,
               GetState(a, k) \/ \E v \in Values : SetState(a, k, v) \/ SetStateMiss(a, k, v)
        PROVE  GhostInv'
    BY <1>7, QuietGhost, SetStateGhost
  <1> QED
    BY <1>1, <1>2, <1>3, <1>4, <1>5, <1>6, <1>7 DEF Operation

(***************************************************************************)
(* Snapshots, reverts and the ends of transactions.                        *)
(***************************************************************************)

\* A frame opened while the cache is sound saves a sound state.
LEMMA FrameSound ==
    ASSUME Sound(Accounts, dirties, truth)
    PROVE  SavedSound(Frame)
  BY DEF SavedSound, Frame

\* A transaction begins with StateJudge up, so that its snapshot is sound for
\* good; a call made after it fell saves what will never be committed.
LEMMA OpenGhost ==
    ASSUME IInv, GhostInv, BeginTx \/ EnterCall
    PROVE  GhostInv'
  <1>1. /\ frames \in Seq(FrameType) /\ ControlInv /\ StateJudge \in BOOLEAN
    BY DEF IInv, TypeOK
  <1>2. /\ Accounts' = Accounts /\ dirties' = dirties /\ truth' = truth /\ StateJudge' = StateJudge
        /\ merged' = merged /\ db' = db /\ pc' = "exec" /\ pc \in {"idle", "exec"}
    BY DEF BeginTx, EnterCall, journalVars, groupVars, ghostVars
  <1>3. /\ frames' = Append(frames, Frame)
        /\ frames = <<>> => StateJudge
    <2>1. CASE BeginTx
      <3>1. frames = <<>> /\ frames' = <<Frame>> /\ StateJudge
        BY <1>1, <2>1 DEF BeginTx, ControlInv, GhostInv, TruthInv
      <3>2. Append(<<>>, Frame) = <<Frame>>
        OBVIOUS
      <3> QED
        BY <3>1, <3>2
    <2>2. CASE EnterCall
      BY <1>1, <2>2 DEF EnterCall, ControlInv
    <2> QED
      BY <2>1, <2>2
  <1>4. StateJudge => Sound(Accounts, dirties, truth) /\ SavedSound(Frame)
    BY <1>2, FrameSound DEF GhostInv, TruthInv
  <1>5. /\ Len(frames') = Len(frames) + 1 /\ Len(frames) \in Nat
        /\ \A f \in 1..Len(frames) : frames'[f] = frames[f]
        /\ frames'[Len(frames) + 1] = Frame
    BY <1>1, <1>3
  <1>6. \A f \in 1..Len(frames') : f \in 1..Len(frames) \/ f = Len(frames) + 1
    BY <1>5
  <1>7. StateJudge' => \A f \in 1..Len(frames') : SavedSound(frames'[f])
    BY <1>2, <1>4, <1>5, <1>6 DEF GhostInv, TruthInv
  <1>8. SavedSound(frames'[1])
    <2>1. CASE frames = <<>>
      BY <1>3, <1>4, <1>5, <2>1
    <2>2. CASE frames # <<>>
      <3>1. 1 \in 1..Len(frames)
        BY <1>1, <2>2, EmptySeq
      <3> QED
        BY <1>5, <2>2, <3>1 DEF GhostInv, TruthInv
    <2> QED
      BY <2>1, <2>2
  <1>9. stale' => ~StateJudge'
    BY <1>2 DEF BeginTx, EnterCall, ghostVars, GhostInv, TruthInv
  <1>10. TruthInv'
    BY <1>2, <1>4, <1>7, <1>8, <1>9 DEF TruthInv, SavedSound
  <1>11. DatabaseInv'
    BY <1>2 DEF GhostInv, DatabaseInv
  <1> QED
    BY <1>10, <1>11 DEF GhostInv

\* A frame that is left with its changes kept.
LEMMA KeepGhost ==
    ASSUME IInv, GhostInv, ReturnCall \/ CommitTx
    PROVE  GhostInv'
  <1>1. /\ frames \in Seq(FrameType) /\ pc = "exec"
        /\ pc' \in {"idle", "exec"} /\ (pc' = "idle" => StateJudge)
        /\ Accounts' = Accounts /\ dirties' = dirties /\ truth' = truth /\ StateJudge' = StateJudge
        /\ stale' = stale /\ merged' = merged /\ db' = db
    BY DEF IInv, TypeOK, ReturnCall, CommitTx, journalVars, groupVars, ghostVars
  <1>2. \/ frames' = <<>>
        \/ frames # <<>> /\ frames' = SubSeq(frames, 1, Len(frames) - 1)
    BY <1>1, EmptySeq DEF ReturnCall, CommitTx
  <1>3. /\ frames' # <<>> => frames # <<>> /\ frames'[1] = frames[1]
        /\ \A f \in 1..Len(frames') : f \in 1..Len(frames) /\ frames'[f] = frames[f]
    <2>1. CASE frames' = <<>>
      <3>1. Len(frames') = 0
        BY <2>1
      <3> QED
        BY <2>1, <3>1
    <2>2. CASE frames # <<>> /\ frames' = SubSeq(frames, 1, Len(frames) - 1)
      <3>1. PICK all, rest : all = frames /\ rest = frames'
        OBVIOUS
      <3>2. all \in Seq(FrameType) /\ all # <<>> /\ rest = SubSeq(all, 1, Len(all) - 1)
        BY <1>1, <2>2, <3>1
      <3>3. /\ rest \in Seq(FrameType) /\ Len(all) \in Nat \ {0} /\ Len(rest) = Len(all) - 1
            /\ \A f \in 1..(Len(all) - 1) : rest[f] = all[f]
        BY <3>2, PopFrames
      <3>4. /\ Len(frames) \in Nat \ {0} /\ Len(frames') = Len(frames) - 1
            /\ frames' \in Seq(FrameType)
            /\ \A f \in 1..(Len(frames) - 1) : frames'[f] = frames[f]
        BY <3>1, <3>3
      <3>5. frames' # <<>> => 1 \in 1..(Len(frames) - 1)
        BY <3>4, EmptySeq
      <3>6. \A f \in 1..Len(frames') : f \in 1..(Len(frames) - 1) /\ f \in 1..Len(frames)
        BY <3>4
      <3>7. frames' # <<>> => frames'[1] = frames[1]
        BY <3>4, <3>5
      <3>8. \A f \in 1..Len(frames') : frames'[f] = frames[f]
        BY <3>4, <3>6
      <3> QED
        BY <2>2, <3>6, <3>7, <3>8
    <2> QED
      BY <1>2, <2>1, <2>2
  <1>4. TruthInv'
    BY <1>1, <1>3 DEF GhostInv, TruthInv
  <1>5. DatabaseInv'
    BY <1>1 DEF GhostInv, DatabaseInv
  <1> QED
    BY <1>4, <1>5 DEF GhostInv

\* A revert begins.  Only that of a whole transaction sets StateJudge again,
\* and the transaction's own snapshot is sound.
LEMMA RevertGhost ==
    ASSUME IInv, GhostInv, FailCall \/ FalsePredictTx
    PROVE  GhostInv'
  <1>1. /\ frames \in Seq(FrameType) /\ pc = "exec" /\ StateJudge \in BOOLEAN
        /\ truth' = truth /\ stale' = stale /\ frames' = frames /\ merged' = merged /\ db' = db
    BY DEF IInv, TypeOK, FailCall, FalsePredictTx, groupVars, ghostVars
  <1>2. pc' = "undo"
    BY RevertSteps DEF FailCall, FalsePredictTx
  <1>3. /\ FailCall => Len(frames) # 1 /\ StateJudge' = StateJudge
        /\ FalsePredictTx => Len(frames) = 1 /\ StateJudge'
    BY <1>1 DEF FailCall, FalsePredictTx
  <1>4. Len(frames) = 1 => frames # <<>> /\ \A f \in 1..Len(frames) : f = 1
    BY <1>1, EmptySeq
  <1>5. TruthInv'
    <2>1. CASE FailCall
      BY <1>1, <1>2, <1>3, <2>1 DEF GhostInv, TruthInv
    <2>2. CASE FalsePredictTx
      BY <1>1, <1>2, <1>3, <1>4, <2>2 DEF GhostInv, TruthInv
    <2> QED
      BY <2>1, <2>2
  <1>6. DatabaseInv'
    BY <1>1, <1>2 DEF GhostInv, DatabaseInv
  <1> QED
    BY <1>5, <1>6 DEF GhostInv

\* A revert goes on.
LEMMA UndoGhost ==
    ASSUME IInv, IInv', GhostInv, UndoEntry
    PROVE  GhostInv'
  <1>1. /\ pc = "undo" /\ pc' \in {"undo", "panic"} /\ pc' # "panic"
        /\ truth' = truth /\ stale' = stale /\ frames' = frames /\ merged' = merged /\ db' = db
        /\ StateJudge' = StateJudge
    BY DEF IInv, ControlInv, UndoEntry, groupVars, ghostVars
  <1>2. TruthInv'
    BY <1>1 DEF GhostInv, TruthInv
  <1>3. DatabaseInv'
    BY <1>1 DEF GhostInv, DatabaseInv
  <1> QED
    BY <1>2, <1>3 DEF GhostInv

\* A revert ends in the state that the frame has saved, and storage would by
\* then be what it was: if StateJudge stands, the cache tells the truth again.
LEMMA FinishGhost ==
    ASSUME IInv, GhostInv, FinishRevert
    PROVE  GhostInv'
  <1>1. /\ frames \in Seq(FrameType) /\ pc = "undo" /\ undo.next <= undo.snapshot
        /\ truth' = Top.saved.truth /\ frames' = SubSeq(frames, 1, Len(frames) - 1)
        /\ pc' = IF Len(frames) = 1 THEN "idle" ELSE "exec"
        /\ Accounts' = Accounts /\ dirties' = dirties /\ stale' = stale
        /\ StateJudge' = StateJudge /\ merged' = merged /\ db' = db
    BY DEF IInv, TypeOK, FinishRevert, groupVars
  <1>2. frames # <<>>
    BY <1>1 DEF IInv, ControlInv
  <1>3. /\ Len(frames) \in Nat \ {0} /\ Len(frames') = Len(frames) - 1
        /\ frames' \in Seq(FrameType)
        /\ \A f \in 1..(Len(frames) - 1) : frames'[f] = frames[f]
    BY <1>1, <1>2, PopFrames
  <1>4. Accounts = Top.saved.acc /\ dirties = Top.saved.dirty
    BY <1>1, RevertReachesTop DEF Saved
  <1>5. StateJudge => Sound(Accounts', dirties', truth')
    <2>1. Len(frames) \in 1..Len(frames)
      BY <1>3
    <2>2. StateJudge => SavedSound(Top)
      BY <2>1 DEF GhostInv, TruthInv, Top
    <2> QED
      BY <1>1, <1>4, <2>2 DEF SavedSound
  <1>6. /\ Len(frames) = 1 => StateJudge
        /\ Len(frames) # 1 => (stale => ~StateJudge)
    BY <1>1 DEF GhostInv, TruthInv
  <1>7. /\ frames' # <<>> => frames'[1] = frames[1]
        /\ \A f \in 1..Len(frames') : f \in 1..Len(frames) /\ frames'[f] = frames[f]
    <2>1. frames' # <<>> => 1 \in 1..(Len(frames) - 1)
      BY <1>3, EmptySeq
    <2> QED
      BY <1>3, <2>1
  <1>8. TruthInv'
    BY <1>1, <1>2, <1>5, <1>6, <1>7 DEF GhostInv, TruthInv
  <1>9. DatabaseInv'
    BY <1>1 DEF GhostInv, DatabaseInv
  <1> QED
    BY <1>8, <1>9 DEF GhostInv

(***************************************************************************)
(* The phases of ExecuteTxs, and the merge.                                *)
(***************************************************************************)

\* What the prefetch brings into the cache is what the database holds.
LEMMA PrefetchGhost ==
    ASSUME IInv, GhostInv, NEW a \in Addresses, NEW key \in AccountKeys \cup Slots,
           prefetchSetter(a, key)
    PROVE  GhostInv'
  <1>1. /\ Accounts \in AccountMap /\ truth \in TruthMap /\ db \in [Addresses -> AccountObject]
        /\ pc = "prefetch" /\ pc' = pc /\ frames = <<>> /\ frames' = frames /\ truth' = truth
        /\ dirties' = dirties /\ db' = db /\ merged' = merged
        /\ StateJudge' = StateJudge /\ stale' = stale
    BY DEF IInv, TypeOK, ControlInv, prefetchSetter, ghostVars
  <1>2. /\ db = InitialDB /\ truth = [b \in Addresses |-> InitialDB[b].CacheStorage]
        /\ Sound(Accounts, dirties, truth)
    BY <1>1 DEF GhostInv, TruthInv
  <1> DEFINE obj == IF Accounts[a] = Nil THEN NewAccountObject ELSE Accounts[a]
  <1> DEFINE obj2 == Prefetched(obj, a, key)
  <1>3. /\ obj \in AccountObject /\ obj2 \in AccountObject
        /\ \A k \in Slots : obj.CacheStorage[k] = Slot(Accounts, a, k)
    <2>1. NewAccountObject \in AccountObject
      BY DEF NewAccountObject, AccountObject, Hashes
    <2>2. obj \in AccountObject
      BY <1>1, <2>1 DEF AccountMap
    <2>3. obj2 \in AccountObject
      BY <1>1, <2>2, PrefetchedObject
    <2>4. \A k \in Slots : NewAccountObject.CacheStorage[k] = NoValue
      BY DEF NewAccountObject
    <2> QED
      BY <2>2, <2>3, <2>4 DEF Slot
  <1>4. Accounts' = [Accounts EXCEPT ![a] = obj2]
    BY DEF prefetchSetter
  <1> HIDE DEF obj
  <1>5. \A k \in Slots : obj2.CacheStorage[k] \in {obj.CacheStorage[k], InitialDB[a].CacheStorage[k]}
    <2>1. obj.CacheStorage \in [Slots -> Values \cup {NoValue}]
      BY <1>3 DEF AccountObject
    <2>2. CASE key \in AccountKeys
      <3>1. obj2.CacheStorage = obj.CacheStorage
        BY <1>3, <2>2 DEF Prefetched, AccountKeys, AccountObject
      <3> QED
        BY <3>1
    <2>3. CASE key \notin AccountKeys
      <3>1. key \in Slots
        BY <2>3
      <3>2. obj2 = [obj EXCEPT !.CacheStorage = [obj.CacheStorage EXCEPT ![key] = db[a].CacheStorage[key]]]
        BY <2>3 DEF Prefetched, AccountKeys
      <3>3. obj2.CacheStorage = [obj.CacheStorage EXCEPT ![key] = db[a].CacheStorage[key]]
        BY <1>3, <3>2 DEF AccountObject
      <3> QED
        BY <1>2, <2>1, <3>1, <3>3
    <2> QED
      BY <2>2, <2>3
  <1>6. /\ Accounts'[a] = obj2 /\ obj2 # Nil
        /\ \A b \in Addresses : b # a => Accounts'[b] = Accounts[b]
    BY <1>1, <1>3, <1>4, NilIsNoObject DEF AccountMap
  <1> HIDE DEF obj2
  <1>7. \A k \in Slots : Slot(Accounts', a, k) \in {Slot(Accounts, a, k), InitialDB[a].CacheStorage[k]}
    BY <1>3, <1>5, <1>6 DEF Slot
  <1>8. \A b \in Addresses, k \in Slots : b # a => Slot(Accounts', b, k) = Slot(Accounts, b, k)
    BY <1>6 DEF Slot
  <1>9. \A b \in Addresses, k \in Slots : truth[b][k] = InitialDB[b].CacheStorage[k]
    BY <1>2
  <1>10. Sound(Accounts', dirties', truth')
    BY <1>1, <1>2, <1>7, <1>8, <1>9, SoundSlots
  <1>11. TruthInv'
    BY <1>1, <1>10 DEF GhostInv, TruthInv
  <1>12. DatabaseInv'
    BY <1>1 DEF GhostInv, DatabaseInv
  <1> QED
    BY <1>11, <1>12 DEF GhostInv

\* The steps between two transactions, before and after the merge.
LEMMA PhaseGhost ==
    ASSUME IInv, GhostInv,
           PrefetchDone \/ InvalidTx \/ RejectedTx \/ StartMerge \/ MergeDone \/ Returned
    PROVE  GhostInv'
  <1>1. /\ pc \in {"prefetch", "idle", "merge", "done"} /\ pc' \in {"idle", "merge", "done"}
        /\ Accounts' = Accounts /\ dirties' = dirties /\ truth' = truth /\ db' = db
        /\ merged' = merged /\ StateJudge' = StateJudge /\ stale' = stale /\ frames' = frames
    BY DEF PrefetchDone, InvalidTx, RejectedTx, StartMerge, MergeDone, Returned, vars,
           journalVars, groupVars, ghostVars
  <1>2. TruthInv'
    BY <1>1 DEF GhostInv, TruthInv
  <1>3. DatabaseInv'
    <2>1. pc' \notin {"merge", "done"} => pc \notin {"merge", "done"}
      BY DEF PrefetchDone, InvalidTx, RejectedTx, StartMerge, MergeDone, Returned, vars
    <2>2. pc' = "done" => Dirty' \subseteq merged'
      <3>1. pc' = "done" => Dirty \subseteq merged
        BY DEF PrefetchDone, InvalidTx, RejectedTx, StartMerge, MergeDone, Returned, vars,
               GhostInv, DatabaseInv
      <3> QED
        BY <1>1, <3>1 DEF Dirty
    <2> QED
      BY <1>1, <2>1, <2>2 DEF GhostInv, DatabaseInv
  <1> QED
    BY <1>2, <1>3 DEF GhostInv

\* An account that has been merged holds the true storage: its cached slots are
\* true, and those that are not in the cache were never changed.
LEMMA MergeGhost ==
    ASSUME IInv, IInv', GhostInv, NEW a \in Addresses, MergeAccount(a)
    PROVE  GhostInv'
  <1>1. /\ Accounts \in AccountMap /\ truth \in TruthMap /\ db \in [Addresses -> AccountObject]
        /\ pc = "merge" /\ pc' \in {"merge", "panic"} /\ pc' # "panic" /\ a \notin merged
        /\ merged' = merged \cup {a} /\ frames' = frames /\ truth' = truth
        /\ Accounts' = Accounts /\ dirties' = dirties
        /\ StateJudge' = StateJudge /\ stale' = stale
    BY DEF IInv, TypeOK, ControlInv, MergeAccount, journalVars, ghostVars
  <1>2. Sound(Accounts, dirties, truth)
    BY <1>1 DEF GhostInv, TruthInv
  <1>3. Accounts[a] # Nil
    BY <1>1 DEF MergeAccount
  <1> DEFINE storage == [k \in Slots |-> IF Cached(a, k) THEN Accounts[a].CacheStorage[k]
                                                         ELSE db[a].CacheStorage[k]]
  <1>4. storage = truth[a]
    <2>1. \A k \in Slots : db[a].CacheStorage[k] = InitialDB[a].CacheStorage[k]
      BY <1>1 DEF GhostInv, DatabaseInv
    <2>2. ASSUME NEW k \in Slots
          PROVE  storage[k] = truth[a][k]
      BY <1>2, <2>1 DEF Sound, Agrees, Kept, Cached
    <2>3. truth[a] \in [Slots -> Values]
      BY <1>1 DEF TruthMap
    <2> QED
      BY <2>2, <2>3
  <1>5. db'[a].CacheStorage = storage /\ \A b \in Addresses : b # a => db'[b] = db[b]
    <2> DEFINE obj == [Balance |-> Accounts[a].Balance, Nonce |-> Accounts[a].Nonce,
                       ByteCode |-> Accounts[a].ByteCode,
                       CodeHash |-> Keccak256(Accounts[a].ByteCode), IsAlive |-> TRUE,
                       CacheStorage |-> storage]
    <2>1. db' = [db EXCEPT ![a] = obj]
      BY <1>3 DEF MergeAccount
    <2>2. obj.CacheStorage = storage
      OBVIOUS
    <2> HIDE DEF obj
    <2> QED
      BY <1>1, <2>1, <2>2
  <1> HIDE DEF storage
  <1>6. TruthInv'
    BY <1>1 DEF GhostInv, TruthInv
  <1>7. DatabaseInv'
    <2>1. \A b \in Addresses :
            db'[b].CacheStorage = IF b \in merged' THEN truth'[b] ELSE InitialDB[b].CacheStorage
      BY <1>1, <1>4, <1>5 DEF GhostInv, DatabaseInv
    <2> QED
      BY <1>1, <2>1 DEF DatabaseInv
  <1> QED
    BY <1>6, <1>7 DEF GhostInv

(***************************************************************************)
(* The theorems.                                                           *)
(***************************************************************************)

\* An empty cache holds nothing that could be false.
LEMMA InitGhost == Init => GhostInv
  <1> SUFFICES ASSUME Init
               PROVE  GhostInv
    OBVIOUS
  <1>1. Sound(Accounts, dirties, truth)
    <2>1. \A a \in Addresses : Accounts[a] = Nil
      BY DEF Init
    <2>2. \A a \in Addresses, k \in Slots : truth[a][k] = InitialDB[a].CacheStorage[k]
      BY DEF Init
    <2> QED
      BY <2>1, <2>2 DEF Sound, Agrees, Kept
  <1>2. TruthInv
    BY <1>1, EmptySeq DEF Init, TruthInv
  <1>3. DatabaseInv
    BY DEF Init, DatabaseInv
  <1> QED
    BY <1>2, <1>3 DEF GhostInv

LEMMA NextGhost == IInv /\ IInv' /\ GhostInv /\ [Next]_vars => GhostInv'
  <1> SUFFICES ASSUME IInv, IInv', GhostInv, [Next]_vars
               PROVE  GhostInv'
    OBVIOUS
  <1>1. CASE UNCHANGED vars
    BY <1>1 DEF vars, journalVars, groupVars, ghostVars, GhostInv, TruthInv, DatabaseInv, Dirty
  <1>2. CASE Next
    <2>1. TypeOK
      BY DEF IInv
    <2> QED
      BY <1>2, <2>1, PrefetchGhost, PhaseGhost, OpenGhost, KeepGhost, RevertGhost, OperationGhosts,
         UndoGhost, FinishGhost, MergeGhost DEF Next
  <1> QED
    BY <1>1, <1>2

\* The two invariants are inductive together, relative to IInv.
THEOREM GhostsAreInvariant == Spec => []GhostInv
  <1>1. Init => GhostInv
    BY InitGhost
  <1>2. IInv /\ IInv' /\ GhostInv /\ [Next]_vars => GhostInv'
    BY NextGhost
  <1> QED
    BY <1>1, <1>2, StructureIsInvariant, PTL DEF Spec

\* The cache, and what every open frame has saved, is sound for as long as
\* StateJudge stands; the snapshot of the transaction itself always is.
THEOREM TruthIsInvariant == Spec => []TruthInv
  <1>1. GhostInv => TruthInv
    BY DEF GhostInv
  <1> QED
    BY <1>1, GhostsAreInvariant, PTL

\* MergeState writes true storage, and leaves alone what nobody has changed.
THEOREM DatabaseIsInvariant == Spec => []DatabaseInv
  <1>1. GhostInv => DatabaseInv
    BY DEF GhostInv
  <1> QED
    BY <1>1, GhostsAreInvariant, PTL

\* While StateJudge stands, every slot that the cache holds is what the
\* transactions would have found in the database.
THEOREM CacheIsTruthful == Spec => []CacheTellsTruth
  <1>1. TruthInv => CacheTellsTruth
    BY DEF TruthInv, CacheTellsTruth, Sound
  <1> QED
    BY <1>1, TruthIsInvariant, PTL

\* A transaction that was given a stale slot value is never committed.
THEOREM StaleReadsAreNoticed == Spec => []StaleReadsInvalidate
  <1>1. TruthInv => StaleReadsInvalidate
    BY DEF TruthInv, StaleReadsInvalidate
  <1> QED
    BY <1>1, TruthIsInvariant, PTL

\* MergeState leaves in the database the storage that the group's accepted
\* transactions would have left there one after the other.
THEOREM MergesAreSerial == Spec => []MergeIsSerial
  <1>1. IInv /\ TruthInv /\ DatabaseInv => MergeIsSerial
    <2> SUFFICES ASSUME IInv, TruthInv, DatabaseInv, pc = "done", NEW a \in Addresses
                 PROVE  db[a].CacheStorage = truth[a]
      BY DEF MergeIsSerial
    <2>1. CASE a \in merged
      BY <2>1 DEF DatabaseInv
    <2>2. CASE a \notin merged
      <3>1. dirties[a] = 0
        BY <2>2 DEF DatabaseInv, Dirty
      <3>2. \A k \in Slots : truth[a][k] = InitialDB[a].CacheStorage[k]
        BY <3>1 DEF TruthInv, Sound, Kept
      <3>3. truth[a] \in [Slots -> Values] /\ InitialDB[a].CacheStorage \in [Slots -> Values]
        <4>1. truth[a] \in [Slots -> Values]
          BY DEF IInv, TypeOK, TruthMap
        <4>2. \A b \in Addresses : InitialDB[b].CacheStorage \in [Slots -> Values]
          BY CacheStateAssumption
        <4> QED
          BY <4>1, <4>2
      <3> QED
        BY <2>2, <3>2, <3>3 DEF DatabaseInv
    <2> QED
      BY <2>1, <2>2
  <1> QED
    BY <1>1, StructureIsInvariant, TruthIsInvariant, DatabaseIsInvariant, PTL
=============================================================================
