---------------------------- MODULE FullStateProofs ----------------------------
(***************************************************************************)
(* The theorems about the drivers on one full cache.  First what holds of  *)
(* every execution, on the database and on the cache; then that a round is *)
(* as good as its transactions one after the other: an access done on two  *)
(* caches that agree on what it meets, an execution as a chain of such     *)
(* accesses, the round as executions that are each as if alone, and the    *)
(* rounds as one chain of executions.                                      *)
(***************************************************************************)
EXTENDS FullStateInv, GroupPlansProofs

(***************************************************************************)
(* Programs: how the depth changes from one instruction to the next.      *)
(***************************************************************************)
LEMMA RangeSequence ==
    ASSUME NEW S, NEW q \in Seq(S)
    PROVE  q \in Seq(Range(q)) /\ Range(q) = {q[i] : i \in 1..Len(q)}
  <1>1. Range(q) = {q[i] : i \in 1..Len(q)}
    BY DEF Range
  <1> QED
    BY <1>1

\* One more position is counted, or it is not.
LEMMA CountStep ==
    ASSUME NEW n \in Nat, NEW S \in SUBSET (1..(n + 1)), NEW T, T = {j \in S : j # n + 1}
    PROVE  /\ Cardinality(S) \in Nat /\ Cardinality(T) \in Nat
           /\ Cardinality(S) = Cardinality(T) + (IF n + 1 \in S THEN 1 ELSE 0)
  <1>1. IsFiniteSet(S)
    BY FS_Interval, FS_Subset, 1 \in Int, n + 1 \in Int
  <1>2. IsFiniteSet(T)
    BY <1>1, FS_Subset, T \subseteq S
  <1>3. CASE n + 1 \in S
    <2>1. S = T \cup {n + 1} /\ n + 1 \notin T
      BY <1>3
    <2>2. Cardinality(T \cup {n + 1}) = Cardinality(T) + 1 /\ Cardinality(T) \in Nat
      BY <1>2, <2>1, FS_AddElement, FS_CardinalityType
    <2> QED
      BY <2>1, <2>2, <1>3
  <1>4. CASE n + 1 \notin S
    <2>1. S = T
      BY <1>4
    <2>2. Cardinality(S) \in Nat
      BY <1>1, FS_CardinalityType
    <2>3. Cardinality(T) = Cardinality(S)
      BY <2>1, Zenon
    <2> QED
      BY <2>2, <2>3, <1>4
  <1> QED
    BY <1>3, <1>4

LEMMA DepthStep ==
    ASSUME NEW program, NEW pc \in Nat \ {0}
    PROVE  /\ Depth(program, pc) \in Int /\ Depth(program, pc + 1) \in Int
           /\ Depth(program, pc + 1) =
                Depth(program, pc)
                + (IF program[pc].op \in Calls /\ program[pc].skip > 0 THEN 1 ELSE 0)
                - (IF program[pc].op \in {"RETURN", "REVERT"} THEN 1 ELSE 0)
  <1> DEFINE Opened(n) == {j \in 1..(n - 1) : program[j].op \in Calls /\ program[j].skip > 0}
             Ended(n) == {j \in 1..(n - 1) : program[j].op \in {"RETURN", "REVERT"}}
  <1>1. pc - 1 \in Nat /\ pc - 1 + 1 = pc /\ pc + 1 - 1 = pc
    OBVIOUS
  <1>2. /\ Opened(pc + 1) \in SUBSET (1..pc) /\ Opened(pc) = {j \in Opened(pc + 1) : j # pc}
        /\ Ended(pc + 1) \in SUBSET (1..pc) /\ Ended(pc) = {j \in Ended(pc + 1) : j # pc}
    OBVIOUS
  <1>3. /\ pc \in Opened(pc + 1) <=> program[pc].op \in Calls /\ program[pc].skip > 0
        /\ pc \in Ended(pc + 1) <=> program[pc].op \in {"RETURN", "REVERT"}
    OBVIOUS
  <1> HIDE DEF Opened, Ended
  <1>7. PICK n \in Nat : n = pc - 1 /\ n + 1 = pc
    BY <1>1
  <1>4. /\ Cardinality(Opened(pc)) \in Nat /\ Cardinality(Opened(pc + 1)) \in Nat
        /\ Cardinality(Opened(pc + 1)) =
            Cardinality(Opened(pc)) + (IF pc \in Opened(pc + 1) THEN 1 ELSE 0)
    <2>1. PICK S, T : S = Opened(pc + 1) /\ T = Opened(pc)
      OBVIOUS
    <2>2. S \in SUBSET (1..(n + 1)) /\ T = {j \in S : j # n + 1}
      BY <1>7, <1>2, <2>1
    <2>3. /\ Cardinality(S) \in Nat /\ Cardinality(T) \in Nat
          /\ Cardinality(S) = Cardinality(T) + (IF n + 1 \in S THEN 1 ELSE 0)
      BY <2>2, CountStep
    <2> QED
      BY <1>7, <2>1, <2>3
  <1>5. /\ Cardinality(Ended(pc)) \in Nat /\ Cardinality(Ended(pc + 1)) \in Nat
        /\ Cardinality(Ended(pc + 1)) =
            Cardinality(Ended(pc)) + (IF pc \in Ended(pc + 1) THEN 1 ELSE 0)
    <2>1. PICK S, T : S = Ended(pc + 1) /\ T = Ended(pc)
      OBVIOUS
    <2>2. S \in SUBSET (1..(n + 1)) /\ T = {j \in S : j # n + 1}
      BY <1>7, <1>2, <2>1
    <2>3. /\ Cardinality(S) \in Nat /\ Cardinality(T) \in Nat
          /\ Cardinality(S) = Cardinality(T) + (IF n + 1 \in S THEN 1 ELSE 0)
      BY <2>2, CountStep
    <2> QED
      BY <1>7, <2>1, <2>3
  <1>6. /\ Depth(program, pc) = 1 + Cardinality(Opened(pc)) - Cardinality(Ended(pc))
        /\ Depth(program, pc + 1) = 1 + Cardinality(Opened(pc + 1)) - Cardinality(Ended(pc + 1))
    BY DEF Depth, Opened, Ended
  <1> QED
    BY <1>3, <1>4, <1>5, <1>6

LEMMA DepthAtStart ==
    ASSUME NEW program
    PROVE  Depth(program, 1) = 1
  <1>1. {j \in 1..(1 - 1) : program[j].op \in Calls /\ program[j].skip > 0} = {}
    OBVIOUS
  <1>2. {j \in 1..(1 - 1) : program[j].op \in {"RETURN", "REVERT"}} = {}
    OBVIOUS
  <1> QED
    BY <1>1, <1>2, FS_EmptySet DEF Depth

(***************************************************************************)
(* What an instruction leaves as it is, and which call it leads to.       *)
(***************************************************************************)
IsRun(s) == DOMAIN s = {"task", "store"} /\ IsTask(s.task) /\ IsState(s.store)

Kept(s, e) ==
    /\ e.task.msg = s.task.msg /\ e.task.err = s.task.err /\ e.task.stage = s.task.stage
    /\ e.task.gas = s.task.gas /\ e.task.pool = s.task.pool
    /\ e.task.rw = s.task.rw /\ e.task.traced = s.task.traced
    /\ e.store.shared = s.store.shared

LEMMA StoreOperations ==
    ASSUME NEW store, IsState(store)
    PROVE  /\ \A k, v : IsState(SetState(store, k, v)) /\ SetState(store, k, v).shared = store.shared
           /\ \A gas \in Nat : IsState(AddRefund(store, gas)) /\ AddRefund(store, gas).shared = store.shared
           /\ \A a, object : /\ IsState(SetAccount(store, a, object))
                             /\ SetAccount(store, a, object).shared = store.shared
  <1>1. ASSUME NEW k, NEW v
        PROVE  IsState(SetState(store, k, v)) /\ SetState(store, k, v).shared = store.shared
    BY DEF SetState, IsState
  <1>2. ASSUME NEW gas \in Nat
        PROVE  IsState(AddRefund(store, gas)) /\ AddRefund(store, gas).shared = store.shared
    BY DEF AddRefund, IsState
  <1>3. ASSUME NEW a, NEW object
        PROVE  IsState(SetAccount(store, a, object)) /\ SetAccount(store, a, object).shared = store.shared
    BY DEF SetAccount, IsState
  <1> QED
    BY <1>1, <1>2, <1>3

LEMMA AccountOperations ==
    ASSUME NEW store, IsState(store), NEW a
    PROVE  /\ \A loaded, amount : /\ IsState(AddBalance(store, a, loaded, amount))
                                  /\ AddBalance(store, a, loaded, amount).shared = store.shared
           /\ IsState(SelfDestruct(store, a)) /\ SelfDestruct(store, a).shared = store.shared
           /\ \A nonce : /\ IsState(SetNonce(store, a, nonce))
                         /\ SetNonce(store, a, nonce).shared = store.shared
  BY StoreOperations DEF AddBalance, SelfDestruct, SetNonce

\* A StaticCall does nothing to the full cache.
LEMMA TouchOperation ==
    ASSUME NEW store, IsState(store), NEW i
    PROVE  /\ IsState(Touch(store, i)) /\ Touch(store, i).shared = store.shared
           /\ store.shared => Touch(store, i) = store
  <1>1. store.shared => Touch(store, i) = store
    BY DEF Touch, AddBalance
  <1>2. PICK a, balance : a = i.account /\ balance = store.accounts[a].balance
    OBVIOUS
  <1>3. PICK nothing, later : nothing = 0 /\ later = AddBalance(store, a, balance, nothing)
    OBVIOUS
  <1>4. Touch(store, i) = later \/ Touch(store, i) = store
    BY <1>2, <1>3 DEF Touch
  <1>5. \A loaded, amount : /\ IsState(AddBalance(store, a, loaded, amount))
                            /\ AddBalance(store, a, loaded, amount).shared = store.shared
    BY AccountOperations
  <1>6. IsState(later) /\ later.shared = store.shared
    BY <1>3, <1>5
  <1> QED
    BY <1>1, <1>4, <1>6

\* Frames are put on the stack and taken from it.
LEMMA PushFrame ==
    ASSUME NEW frames, NEW shared, FramesInv(frames, shared), NEW f, f.account \in Addresses,
           ~shared => IsState(f.snapshot) /\ ~f.snapshot.shared
    PROVE  FramesInv(Append(frames, f), shared) /\ Len(Append(frames, f)) = Len(frames) + 1
  <1>1. frames \in Seq(Range(frames) \cup {f}) /\ f \in Range(frames) \cup {f}
    BY DEF FramesInv
  <1>2. PICK S : frames \in Seq(S) /\ f \in S
    BY <1>1
  <1>3. /\ Append(frames, f) \in Seq(S) /\ Len(Append(frames, f)) = Len(frames) + 1
        /\ Len(frames) \in Nat
        /\ \A i \in 1..Len(frames) : Append(frames, f)[i] = frames[i]
        /\ Append(frames, f)[Len(frames) + 1] = f
    BY <1>2
  <1>4. Append(frames, f) \in Seq(Range(Append(frames, f)))
    BY <1>3, RangeSequence
  <1>5. DOMAIN Append(frames, f) = 1..(Len(frames) + 1) /\ DOMAIN frames = 1..Len(frames)
    BY <1>2, <1>3
  <1> QED
    BY <1>3, <1>4, <1>5 DEF FramesInv

LEMMA PopFrame ==
    ASSUME NEW frames, NEW shared, FramesInv(frames, shared), Len(frames) >= 1
    PROVE  /\ FramesInv(Front(frames), shared) /\ Len(Front(frames)) = Len(frames) - 1
           /\ \E i \in DOMAIN frames : Last(frames) = frames[i]
  <1>1. PICK S : frames \in Seq(S)
    BY DEF FramesInv
  <1>2. /\ Front(frames) \in Seq(S) /\ Len(Front(frames)) = Len(frames) - 1 /\ Len(frames) \in Nat
        /\ \A i \in 1..(Len(frames) - 1) : Front(frames)[i] = frames[i]
    BY <1>1 DEF Front
  <1>3. Front(frames) \in Seq(Range(Front(frames)))
    BY <1>2, RangeSequence
  <1>4. DOMAIN Front(frames) = 1..(Len(frames) - 1) /\ DOMAIN frames = 1..Len(frames)
    BY <1>1, <1>2
  <1>5. Last(frames) = frames[Len(frames)] /\ Len(frames) \in DOMAIN frames
    BY <1>4, <1>2 DEF Last
  <1> QED
    BY <1>2, <1>3, <1>4, <1>5 DEF FramesInv

LEMMA FirstFrame ==
    ASSUME NEW frames, NEW shared, FramesInv(frames, shared), Len(frames) >= 1
    PROVE  FramesInv(SubSeq(frames, 1, 1), shared) /\ Len(SubSeq(frames, 1, 1)) = 1
  <1>1. PICK S : frames \in Seq(S)
    BY DEF FramesInv
  <1>2. /\ SubSeq(frames, 1, 1) \in Seq(S) /\ Len(SubSeq(frames, 1, 1)) = 1
        /\ SubSeq(frames, 1, 1)[1] = frames[1] /\ 1 \in DOMAIN frames
    BY <1>1
  <1>3. SubSeq(frames, 1, 1) \in Seq(Range(SubSeq(frames, 1, 1)))
    BY <1>2, RangeSequence
  <1>4. DOMAIN SubSeq(frames, 1, 1) = {1}
    BY <1>2
  <1> QED
    BY <1>2, <1>3, <1>4 DEF FramesInv

LEMMA NoFrame == \A shared : FramesInv(<<>>, shared)
  <1>1. <<>> \in Seq(Range(<<>>)) /\ DOMAIN <<>> = {}
    OBVIOUS
  <1> QED
    BY <1>1 DEF FramesInv

\* From one instruction to the next, or over an inner call or a jump.
Outcome(s, e, i) ==
    \/ /\ i.op \in {"RETURN", "REVERT"}
       /\ e.task.pc = s.task.pc /\ Len(e.task.frames) = Len(s.task.frames) - 1
    \/ /\ i.op \in Calls
       /\ e.task.pc = s.task.pc /\ Len(e.task.frames) = Len(s.task.frames) + 1
    \/ /\ i.op \in Calls \cup {"JUMPI"}
       /\ e.task.pc = s.task.pc + i.skip /\ e.task.frames = s.task.frames
    \/ /\ i.op \notin Calls \cup {"RETURN", "REVERT"}
       /\ e.task.pc = s.task.pc /\ e.task.frames = s.task.frames

LEMMA CallKeeps ==
    ASSUME NEW s, IsRun(s), FramesInv(s.task.frames, s.store.shared),
           NEW i, i.op \in Calls, i.account \in Addresses
    PROVE  LET e == Call(s, i)
           IN  IsRun(e) /\ Kept(s, e) /\ FramesInv(e.task.frames, e.store.shared) /\ Outcome(s, e, i)
  <1> DEFINE f == [account |-> i.account, snapshot |-> Snapshot(s.store)]
             e == Call(s, i)
  <1>1. f.account \in Addresses /\ (~s.store.shared => IsState(f.snapshot) /\ ~f.snapshot.shared)
    BY DEF Snapshot, IsRun
  <1>2. /\ FramesInv(Append(s.task.frames, f), s.store.shared)
        /\ Len(Append(s.task.frames, f)) = Len(s.task.frames) + 1
    BY <1>1, PushFrame
  <1>3. \/ e = [s EXCEPT !.task.frames = Append(@, f)]
        \/ e = [s EXCEPT !.store = Touch(@, i), !.task.pc = @ + i.skip]
    BY DEF Call
  <1>4. CASE e = [s EXCEPT !.task.frames = Append(@, f)]
    <2>1. /\ DOMAIN e = {"task", "store"} /\ e.store = s.store
          /\ e.task = [s.task EXCEPT !.frames = Append(@, f)]
      BY <1>4 DEF IsRun
    <2>2. IsRun(e) /\ Kept(s, e) /\ e.task.pc = s.task.pc /\ e.task.frames = Append(s.task.frames, f)
      BY <2>1 DEF IsRun, IsTask, Kept
    <2> QED
      BY <2>1, <2>2, <1>2 DEF Outcome
  <1>5. CASE e = [s EXCEPT !.store = Touch(@, i), !.task.pc = @ + i.skip]
    <2>0. PICK store, left : store = s.store /\ left = Touch(store, i)
      OBVIOUS
    <2>1. /\ DOMAIN e = {"task", "store"} /\ e.store = left
          /\ e.task = [s.task EXCEPT !.pc = @ + i.skip]
      BY <1>5, <2>0 DEF IsRun
    <2>2. IsState(store) /\ IsState(left) /\ left.shared = store.shared
      BY <2>0, TouchOperation DEF IsRun
    <2>3. IsRun(e) /\ Kept(s, e) /\ e.task.pc = s.task.pc + i.skip /\ e.task.frames = s.task.frames
      BY <2>0, <2>1, <2>2 DEF IsRun, IsTask, Kept
    <2>4. FramesInv(e.task.frames, e.store.shared)
      BY <2>0, <2>1, <2>2, <2>3
    <2> QED
      BY <2>3, <2>4 DEF Outcome
  <1> QED
    BY <1>3, <1>4, <1>5

LEMMA FailKeeps ==
    ASSUME NEW s, IsRun(s), FramesInv(s.task.frames, s.store.shared), Len(s.task.frames) >= 1
    PROVE  LET e == Fail(s)
           IN  /\ IsRun(e) /\ Kept(s, e) /\ FramesInv(e.task.frames, e.store.shared)
               /\ e.task.pc = s.task.pc /\ Len(e.task.frames) = Len(s.task.frames) - 1
  <1> DEFINE e == Fail(s)
  <1>1. /\ FramesInv(Front(s.task.frames), s.store.shared)
        /\ Len(Front(s.task.frames)) = Len(s.task.frames) - 1
        /\ \E i \in DOMAIN s.task.frames : Last(s.task.frames) = s.task.frames[i]
    BY PopFrame
  <1>2. IsState(e.store) /\ e.store.shared = s.store.shared
    BY <1>1 DEF Fail, FramesInv, RevertToSnapshot, IsRun, IsState
  <1>3. /\ DOMAIN e = {"task", "store"}
        /\ e.task = [s.task EXCEPT !.frames = Front(@), !.undone = @ \/ s.task.rw.writes # {}]
    BY DEF Fail
  <1>4. /\ IsTask(e.task) /\ e.task.pc = s.task.pc /\ e.task.frames = Front(s.task.frames)
        /\ Kept(s, e)
    BY <1>2, <1>3 DEF IsRun, IsTask, Kept
  <1> QED
    BY <1>1, <1>2, <1>3, <1>4 DEF IsRun

LEMMA EffectKeeps ==
    ASSUME NEW s, IsRun(s), FramesInv(s.task.frames, s.store.shared),
           NEW i, i.op \in Instructions, i.op \in Calls => i.account \in Addresses,
           i.op \in {"RETURN", "REVERT"} => Len(s.task.frames) >= 1
    PROVE  LET e == Effect(s, i)
           IN  IsRun(e) /\ Kept(s, e) /\ FramesInv(e.task.frames, e.store.shared) /\ Outcome(s, e, i)
  <1> DEFINE e == Effect(s, i)
             Good == IsRun(e) /\ Kept(s, e) /\ FramesInv(e.task.frames, e.store.shared) /\ Outcome(s, e, i)
             Quiet == /\ DOMAIN e = {"task", "store"} /\ IsTask(e.task)
                      /\ IsState(e.store) /\ Kept(s, e)
                      /\ e.task.pc = s.task.pc /\ e.task.frames = s.task.frames
  <1> USE DEF Instructions, Calls
  <1>1. Quiet /\ i.op \notin Calls \cup {"RETURN", "REVERT"} => Good
    BY DEF Outcome, IsRun, Kept
  <1>2. CASE i.op = "SLOAD"
    <2>1. e = [s EXCEPT !.task.seen = Append(@, GetState(s.store, Key(i)))]
      BY <1>2 DEF Effect
    <2> QED
      BY <1>1, <1>2, <2>1 DEF IsRun, IsTask, Kept
  <1>3. CASE i.op = "SSTORE"
    <2>1. e = [s EXCEPT !.store = SetState(s.store, Key(i), Word(s.task.tx, s.task.seen))]
      BY <1>3 DEF Effect, IsRun
    <2> QED
      BY <1>1, <1>3, <2>1, StoreOperations DEF IsRun, Kept
  <1>4. CASE i.op = "CLEAR"
    <2> DEFINE gas == IF GetState(s.store, Key(i)) = Number(0) THEN 0 ELSE ClearRefund
    <2>1. e = [s EXCEPT !.store = SetState(AddRefund(s.store, gas), Key(i), Number(0))]
      BY <1>4 DEF Effect, IsRun
    <2>2. gas \in Nat
      BY GasAssumption
    <2> HIDE DEF gas
    <2>3. IsState(AddRefund(s.store, gas)) /\ AddRefund(s.store, gas).shared = s.store.shared
      BY <2>2, StoreOperations DEF IsRun
    <2>4. /\ IsState(SetState(AddRefund(s.store, gas), Key(i), Number(0)))
          /\ SetState(AddRefund(s.store, gas), Key(i), Number(0)).shared = s.store.shared
      BY <2>3, StoreOperations
    <2> QED
      BY <1>1, <1>4, <2>1, <2>4 DEF IsRun, Kept
  <1>5. CASE i.op = "BALANCE"
    <2>1. e = [s EXCEPT !.task.seen = Append(@, Number(s.store.accounts[i.account].balance)),
                        !.task.fields = @ \cup {i.account}]
      BY <1>5 DEF Effect, IsRun, IsTask
    <2> HIDE DEF e
    <2>2. /\ DOMAIN e = {"task", "store"} /\ e.store = s.store
          /\ e.task = [s.task EXCEPT !.seen = Append(@, Number(s.store.accounts[i.account].balance)),
                                     !.fields = @ \cup {i.account}]
      BY <2>1 DEF IsRun, IsTask
    <2>3. IsTask(e.task) /\ Kept(s, e) /\ e.task.pc = s.task.pc /\ e.task.frames = s.task.frames
      BY <2>2 DEF IsRun, IsTask, Kept
    <2>4. Good
      BY <1>1, <1>5, <2>2, <2>3 DEF IsRun, Instructions
    <2> QED
      BY <2>4 DEF e
  <1>6. CASE i.op = "JUMPI"
    <2>1. e = s \/ e = [s EXCEPT !.task.pc = @ + i.skip]
      BY <1>6 DEF Effect
    <2>2. CASE e = s
      BY <1>1, <1>6, <2>2 DEF IsRun, Kept
    <2>3. CASE e = [s EXCEPT !.task.pc = @ + i.skip]
      BY <1>6, <2>3 DEF Outcome, IsRun, IsTask, Kept
    <2> QED
      BY <2>1, <2>2, <2>3
  <1>7. CASE i.op \in Calls
    <2>1. e = Call(s, i)
      BY <1>7 DEF Effect
    <2> QED
      BY <2>1, <1>7, CallKeeps
  <1>8. CASE i.op = "RETURN"
    <2>1. e = [s EXCEPT !.task.frames = Front(@)]
      BY <1>8 DEF Effect
    <2>2. FramesInv(Front(s.task.frames), s.store.shared) /\ Len(Front(s.task.frames)) = Len(s.task.frames) - 1
      BY <1>8, PopFrame
    <2> QED
      BY <1>8, <2>1, <2>2 DEF Outcome, IsRun, IsTask, Kept
  <1>9. CASE i.op = "REVERT"
    <2>1. e = Fail(s)
      BY <1>9 DEF Effect
    <2> QED
      BY <2>1, <1>9, FailKeeps DEF Outcome
  <1>10. CASE i.op = "SELFDESTRUCT"
    <2>1. e = [s EXCEPT !.task.loaded = s.store.accounts[i.account].balance,
                        !.task.amount = s.store.accounts[Self(s.task)].balance,
                        !.task.fields = @ \cup {i.account, Self(s.task)}]
      BY <1>10 DEF Effect
    <2> HIDE DEF e
    <2>2. /\ DOMAIN e = {"task", "store"} /\ e.store = s.store
          /\ e.task = [s.task EXCEPT !.loaded = s.store.accounts[i.account].balance,
                                     !.amount = s.store.accounts[Self(s.task)].balance,
                                     !.fields = @ \cup {i.account, Self(s.task)}]
      BY <2>1 DEF IsRun, IsTask
    <2>3. IsTask(e.task) /\ Kept(s, e) /\ e.task.pc = s.task.pc /\ e.task.frames = s.task.frames
      BY <2>2 DEF IsRun, IsTask, Kept
    <2>4. Good
      BY <1>1, <1>10, <2>2, <2>3 DEF IsRun, Instructions
    <2> QED
      BY <2>4 DEF e
  <1>11. CASE i.op = "MOVE"
    <2> DEFINE paid == AddBalance(s.store, i.account, s.task.loaded, s.task.amount)
    <2>1. e = [s EXCEPT !.store = SelfDestruct(paid, Self(s.task)),
                        !.task.fields = @ \cup {i.account, Self(s.task)}]
      BY <1>11 DEF Effect, IsRun
    <2>4. IsState(s.store)
      BY DEF IsRun
    <2>5. PICK store, a, loaded, amount :
            store = s.store /\ a = i.account /\ loaded = s.task.loaded /\ amount = s.task.amount
      OBVIOUS
    <2>6. IsState(AddBalance(store, a, loaded, amount)) /\ AddBalance(store, a, loaded, amount).shared = store.shared
      BY <2>4, <2>5, AccountOperations
    <2>2. IsState(paid) /\ paid.shared = s.store.shared
      BY <2>5, <2>6
    <2> HIDE DEF paid
    <2>3. IsState(SelfDestruct(paid, Self(s.task))) /\ SelfDestruct(paid, Self(s.task)).shared = s.store.shared
      BY <2>2, AccountOperations
    <2> DEFINE left == SelfDestruct(paid, Self(s.task))
    <2>7. /\ DOMAIN e = {"task", "store"} /\ e.store = left
          /\ e.task = [s.task EXCEPT !.fields = @ \cup {i.account, Self(s.task)}]
      BY <2>1 DEF IsRun, IsTask
    <2>8. IsState(left) /\ left.shared = s.store.shared
      BY <2>3
    <2> HIDE DEF e, left
    <2>9. IsTask(e.task) /\ Kept(s, e) /\ e.task.pc = s.task.pc /\ e.task.frames = s.task.frames
      BY <2>7, <2>8 DEF IsRun, IsTask, Kept
    <2>10. Good
      BY <1>1, <1>11, <2>7, <2>8, <2>9 DEF IsRun, Instructions
    <2> QED
      BY <2>10 DEF e
  <1> QED
    BY <1>2, <1>3, <1>4, <1>5, <1>6, <1>7, <1>8, <1>9, <1>10, <1>11

(***************************************************************************)
(* What is recorded is traced.                                             *)
(***************************************************************************)
IsInstruction(i) ==
    /\ i.op \in Instructions
    /\ i.op \notin {"JUMPI", "RETURN", "REVERT"} => i.account \in Addresses
    /\ i.op \in {"SLOAD", "SSTORE", "CLEAR"} => i.slot \in Slots

LEMMA RecordedIsTraced ==
    ASSUME NEW i, IsInstruction(i), NEW self \in Addresses, NEW asked \in SUBSET {"CODE", "CODEHASH"}
    PROVE  /\ Recorded(i, self, asked) \in NamedSets
           /\ Recorded(i, self, asked).writes \subseteq Traced(i, self).writes
           /\ Recorded(i, self, asked).reads \subseteq Touched(Traced(i, self))
  <1> DEFINE recorded == Recorded(i, self, asked)
             traced == Traced(i, self)
             Good == recorded \in NamedSets /\ recorded.writes \subseteq traced.writes
                     /\ recorded.reads \subseteq Touched(traced)
  <1>1. CASE i.op \in {"SLOAD", "SSTORE", "CLEAR"}
    <2>1. Key(i) \in Keys
      BY <1>1 DEF IsInstruction, Key, Keys
    <2>2. /\ recorded = [reads |-> {Key(i)}, writes |-> recorded.writes]
          /\ recorded.writes = IF i.op = "SLOAD" THEN {} ELSE {Key(i)}
      BY <1>1 DEF Recorded
    <2>3. /\ i.op = "SLOAD" => Key(i) \in traced.reads
          /\ i.op # "SLOAD" => Key(i) \in traced.writes
      BY <1>1 DEF Traced
    <2> HIDE DEF recorded, traced
    <2>4. Good
      BY <1>1, <2>1, <2>2, <2>3 DEF NamedSets, Touched
    <2> QED
      BY <2>4 DEF recorded, traced
  <1>2. CASE i.op \in Calls
    <2>1. recorded = [reads |-> {i.account} \X asked, writes |-> {}]
      BY <1>2 DEF Recorded, Calls
    <2>2. {i.account} \X {"CODE", "CODEHASH"} \subseteq traced.reads
      BY <1>2 DEF Traced, Callee, Calls
    <2>3. i.account \in Addresses
      BY <1>2 DEF IsInstruction, Calls
    <2> HIDE DEF recorded, traced
    <2>4. Good
      BY <2>1, <2>2, <2>3 DEF NamedSets, Touched
    <2> QED
      BY <2>4 DEF recorded, traced
  <1>3. CASE i.op = "SELFDESTRUCT"
    <2>1. recorded = [reads |-> {}, writes |-> {self} \X {"ALIVE", "BALANCE"}]
      BY <1>3 DEF Recorded, Calls
    <2>2. {self} \X {"ALIVE", "BALANCE"} \subseteq traced.writes
      BY <1>3 DEF Traced
    <2> HIDE DEF recorded, traced
    <2>4. Good
      BY <2>1, <2>2 DEF NamedSets, Touched
    <2> QED
      BY <2>4 DEF recorded, traced
  <1>4. CASE i.op \notin {"SLOAD", "SSTORE", "CLEAR", "SELFDESTRUCT"} \cup Calls
    <2>1. recorded = [reads |-> {}, writes |-> {}]
      BY <1>4 DEF Recorded, Calls
    <2> HIDE DEF recorded, traced
    <2>4. Good
      BY <2>1 DEF NamedSets, Touched
    <2> QED
      BY <2>4 DEF recorded, traced
  <1> QED
    BY <1>1, <1>2, <1>3, <1>4

LEMMA AddCovers ==
    ASSUME NEW rw \in NamedSets, NEW traced, NEW more \in NamedSets, NEW named,
           rw.writes \subseteq traced.writes, rw.reads \subseteq Touched(traced)
    PROVE  /\ rw.writes \subseteq Add(traced, named).writes
           /\ rw.reads \subseteq Touched(Add(traced, named))
           /\ more.writes \subseteq named.writes /\ more.reads \subseteq Touched(named) =>
                /\ Add(rw, more) \in NamedSets
                /\ Add(rw, more).writes \subseteq Add(traced, named).writes
                /\ Add(rw, more).reads \subseteq Touched(Add(traced, named))
  BY DEF Add, Touched, NamedSets

(***************************************************************************)
(* The gas: a refund is a part of what was used.                           *)
(***************************************************************************)
LEMMA RefundIsPart ==
    ASSUME NEW used \in Nat, NEW counter \in Nat, used >= IntrinsicGas
    PROVE  /\ Refund(used, counter) \in Nat /\ Refund(used, counter) <= used
           /\ (used - Refund(used, counter)) * RefundQuotient >= IntrinsicGas * (RefundQuotient - 1)
  <1> DEFINE cap == used \div RefundQuotient
             r == Refund(used, counter)
  <1>1. RefundQuotient \in Nat /\ RefundQuotient >= 1 /\ IntrinsicGas \in Nat
    BY GasAssumption
  <1>2. cap \in Nat /\ cap * RefundQuotient <= used
    BY <1>1
  <1>3. r \in Nat /\ r <= cap
    BY <1>2 DEF Refund
  <1> HIDE DEF r, cap
  <1>4. r * RefundQuotient <= cap * RefundQuotient /\ r <= r * RefundQuotient
    BY <1>1, <1>2, <1>3
  <1>5. r * RefundQuotient <= used /\ r <= used
    BY <1>1, <1>2, <1>3, <1>4
  <1>6. (used - r) * RefundQuotient = used * RefundQuotient - r * RefundQuotient
    BY <1>1, <1>3
  <1>7. used * RefundQuotient - used = used * (RefundQuotient - 1)
    BY <1>1
  <1>8. used * (RefundQuotient - 1) >= IntrinsicGas * (RefundQuotient - 1)
    BY <1>1
  <1>9. (used - r) * RefundQuotient >= IntrinsicGas * (RefundQuotient - 1)
    BY <1>1, <1>3, <1>5, <1>6, <1>7, <1>8
  <1> QED
    BY <1>3, <1>5, <1>9 DEF r

\* What the steps of a run have in common.
Running(s) ==
    /\ IsRun(s) /\ s.task.msg.limit \in Nat /\ Accepted(s.task.msg)
    /\ s.task.err = "nil" /\ s.task.pool = 0
    /\ s.task.gas \in Nat /\ s.task.gas <= s.task.msg.limit - IntrinsicGas
    /\ s.task.rw \in NamedSets /\ Covered(s.task)

\* What a step promises.
Promised(s, e) ==
    /\ DOMAIN e = {"task", "store"} /\ IsState(e.store) /\ e.store.shared = s.store.shared
    /\ e.task.msg = s.task.msg /\ TaskInv(e.task, s.store.shared)

LEMMA RefundGasKeeps ==
    ASSUME NEW s, Running(s)
    PROVE  Promised(s, RefundGas(s))
  <1> DEFINE e == RefundGas(s)
             used == s.task.msg.limit - s.task.gas
             r == Refund(used, s.store.refund)
             loaded == s.store.accounts[s.task.msg.from].balance
  <1>1. used \in Nat /\ used >= IntrinsicGas /\ s.store.refund \in Nat
    BY GasAssumption DEF Running, IsRun, IsState
  <1>2. r \in Nat /\ r <= used /\ (used - r) * RefundQuotient >= IntrinsicGas * (RefundQuotient - 1)
    BY <1>1, RefundIsPart
  <1>3. /\ DOMAIN e = {"task", "store"} /\ e.store = s.store
        /\ e.task = [s.task EXCEPT !.gas = @ + r, !.loaded = loaded, !.frames = <<>>, !.stage = "credit"]
    BY DEF RefundGas, Running, IsRun
  <1>4. /\ IsTask(e.task) /\ e.task.gas = s.task.gas + r /\ e.task.frames = <<>> /\ e.task.stage = "credit"
        /\ e.task.msg = s.task.msg /\ e.task.err = "nil" /\ e.task.pool = 0
        /\ e.task.rw = s.task.rw /\ e.task.traced = s.task.traced
    BY <1>3 DEF Running, IsRun, IsTask
  <1> HIDE DEF e, r
  <1>5. /\ e.task.gas \in Nat /\ e.task.gas <= s.task.msg.limit
        /\ s.task.msg.limit - e.task.gas = used - r
    BY <1>1, <1>2, <1>4 DEF Running
  <1>6. RefundBound(e.task)
    BY <1>2, <1>4, <1>5 DEF RefundBound
  <1>7. StageInv(e.task)
    BY <1>4, <1>5, <1>6 DEF StageInv, Running
  <1>8. Promised(s, e)
    BY <1>3, <1>4, <1>7, NoFrame DEF Promised, TaskInv, Covered, Running, IsRun
  <1> QED
    BY <1>8 DEF e

(***************************************************************************)
(* An instruction.                                                         *)
(***************************************************************************)
LEMMA ProgramFacts ==
    ASSUME NEW msg, WellFormed(msg)
    PROVE  /\ Len(msg.program) \in Nat /\ DOMAIN msg.program = 1..Len(msg.program)
           /\ msg.from \in Addresses /\ msg.to \in Addresses /\ msg.limit \in Nat
  BY DEF WellFormed

LEMMA SelfIsAccount ==
    ASSUME NEW ran, NEW shared, FramesInv(ran.frames, shared), ran.msg.from \in Addresses
    PROVE  Self(ran) \in Addresses
  <1>1. CASE ran.frames = <<>>
    BY <1>1 DEF Self
  <1>2. CASE ran.frames # <<>>
    <2>1. Len(ran.frames) >= 1
      BY <1>2 DEF FramesInv
    <2>2. \E i \in DOMAIN ran.frames : Last(ran.frames) = ran.frames[i]
      BY <2>1, PopFrame
    <2> QED
      BY <1>2, <2>2 DEF Self, FramesInv
  <1> QED
    BY <1>1, <1>2

\* Where a run stands: before the call from the outside, or later.
Position(ran) ==
    \/ ran.pc = 0 /\ ran.frames = <<>>
    \/ /\ ran.pc \in Nat \ {0}
       /\ ran.pc <= Len(ran.msg.program) => Len(ran.frames) >= Depth(ran.msg.program, ran.pc)

LEMMA InstructionFacts ==
    ASSUME NEW ran, WellFormed(ran.msg), Position(ran), ran.pc <= Len(ran.msg.program)
    PROVE  LET i == Instruction(ran)
           IN  /\ IsInstruction(i)
               /\ ran.pc = 0 => i.op \in Calls /\ i.skip = Len(ran.msg.program)
               /\ ran.pc # 0 =>
                    /\ i = ran.msg.program[ran.pc] /\ ran.pc \in DOMAIN ran.msg.program
                    /\ Len(ran.frames) >= 1
  <1> DEFINE i == Instruction(ran)
  <1>1. CASE ran.pc = 0
    <2>1. i = [op |-> "CALL", account |-> ran.msg.to, skip |-> Len(ran.msg.program)]
      BY <1>1 DEF Instruction
    <2> QED
      BY <1>1, <2>1, ProgramFacts DEF IsInstruction, Calls, Instructions
  <1>2. CASE ran.pc # 0
    <2>1. i = ran.msg.program[ran.pc] /\ ran.pc \in DOMAIN ran.msg.program /\ ran.pc \in Nat \ {0}
      BY <1>2, ProgramFacts DEF Instruction, Position
    <2>2. IsInstruction(ran.msg.program[ran.pc]) /\ Depth(ran.msg.program, ran.pc) >= 1
      BY <2>1 DEF WellFormed, IsInstruction
    <2>3. Len(ran.frames) >= Depth(ran.msg.program, ran.pc) /\ Depth(ran.msg.program, ran.pc) \in Int
      BY <1>2, <2>1, DepthStep DEF Position
    <2>4. Len(ran.frames) >= 1
      BY <2>2, <2>3
    <2> QED
      BY <1>2, <2>1, <2>2, <2>4
  <1> QED
    BY <1>1, <1>2

\* The next instruction is at most as deep as the stack is.
LEMMA OutcomePosition ==
    ASSUME NEW s, NEW e, NEW i, NEW n \in Nat, WellFormed(s.task.msg),
           s.task.pc = n + 1, n <= Len(s.task.msg.program),
           IF n = 0 THEN /\ i.op \in Calls /\ i.skip = Len(s.task.msg.program)
                         /\ Len(s.task.frames) = 0
           ELSE /\ i = s.task.msg.program[n] /\ n \in DOMAIN s.task.msg.program
                /\ Len(s.task.frames) \in Nat /\ Len(s.task.frames) >= Depth(s.task.msg.program, n),
           Outcome(s, e, i), e.task.msg = s.task.msg
    PROVE  e.task.pc # 0 /\ Position(e.task)
  <1> DEFINE program == s.task.msg.program
  <1>1. Len(program) \in Nat
    BY ProgramFacts
  <1>2. CASE n = 0
    <2>1. /\ i.op \in Calls /\ i.skip = Len(program) /\ Len(s.task.frames) = 0
          /\ s.task.pc = 1 /\ e.task.msg.program = program
      BY <1>2
    <2> HIDE DEF program
    <2>2. i.op \notin {"RETURN", "REVERT"}
      BY <2>1 DEF Calls
    <2>3. \/ e.task.pc = s.task.pc /\ Len(e.task.frames) = Len(s.task.frames) + 1
          \/ e.task.pc = s.task.pc + i.skip
      BY <2>1, <2>2, Zenon DEF Outcome
    <2>4. CASE e.task.pc = s.task.pc /\ Len(e.task.frames) = Len(s.task.frames) + 1
      <3>1. e.task.pc = 1 /\ Len(e.task.frames) = 1
        BY <2>1, <2>4
      <3>2. Depth(e.task.msg.program, e.task.pc) = 1
        BY <2>1, <3>1, DepthAtStart
      <3> QED
        BY <3>1, <3>2 DEF Position
    <2>5. CASE e.task.pc = s.task.pc + i.skip
      <3>1. e.task.pc \in Nat \ {0} /\ ~(e.task.pc <= Len(program))
        BY <1>1, <2>1, <2>5
      <3> QED
        BY <2>1, <3>1 DEF Position
    <2> QED
      BY <2>3, <2>4, <2>5
  <1>3. CASE n # 0
    <2>1. /\ Depth(program, n) \in Int /\ Depth(program, n + 1) \in Int
          /\ Depth(program, n + 1) =
                Depth(program, n) + (IF i.op \in Calls /\ i.skip > 0 THEN 1 ELSE 0)
                                  - (IF i.op \in {"RETURN", "REVERT"} THEN 1 ELSE 0)
      BY <1>3, DepthStep
    <2>2. i.op \in Calls \cup {"JUMPI"} =>
            i.skip \in Nat /\ Depth(program, n + 1 + i.skip) = Depth(program, n)
      BY <1>3 DEF WellFormed
    <2>3. i.op \in Calls => i.op \notin {"RETURN", "REVERT"}
      BY DEF Calls
    <2> HIDE DEF program
    <2>4. CASE i.op \in {"RETURN", "REVERT"}
      <3>1. e.task.pc = n + 1 /\ Len(e.task.frames) = Len(s.task.frames) - 1
        BY <2>4 DEF Outcome, Calls
      <3>2. Len(e.task.frames) >= Depth(program, n + 1)
        BY <1>3, <2>1, <2>3, <2>4, <3>1 DEF program
      <3> QED
        BY <3>1, <3>2 DEF Position, program
    <2>5. CASE i.op \in Calls /\ e.task.pc = s.task.pc /\ Len(e.task.frames) = Len(s.task.frames) + 1
      <3>1. Len(e.task.frames) >= Depth(program, n + 1)
        BY <1>3, <2>1, <2>3, <2>5 DEF program
      <3> QED
        BY <2>5, <3>1 DEF Position, program
    <2>6. CASE /\ i.op \in Calls \cup {"JUMPI"}
               /\ e.task.pc = s.task.pc + i.skip /\ e.task.frames = s.task.frames
      <3>1. e.task.pc = n + 1 + i.skip /\ e.task.pc \in Nat \ {0}
        BY <2>6, <2>2
      <3>2. Len(e.task.frames) >= Depth(program, e.task.pc)
        BY <1>3, <2>6, <2>2, <3>1 DEF program
      <3> QED
        BY <3>1, <3>2 DEF Position, program
    <2>7. CASE /\ i.op \notin Calls \cup {"RETURN", "REVERT"}
               /\ e.task.pc = s.task.pc /\ e.task.frames = s.task.frames
      <3>1. Len(e.task.frames) >= Depth(program, n + 1)
        BY <1>3, <2>1, <2>7 DEF program
      <3> QED
        BY <2>7, <3>1 DEF Position, program
    <2> QED
      BY <2>4, <2>5, <2>6, <2>7 DEF Outcome
  <1> QED
    BY <1>2, <1>3

LEMMA RunKeeps ==
    ASSUME NEW s, Running(s), WellFormed(s.task.msg), s.task.stage = "run", Position(s.task),
           FramesInv(s.task.frames, s.store.shared)
    PROVE  Promised(s, Run(s))
  <1> DEFINE i == Instruction(s.task)
             cost == Cost(i, s.task.pc)
             self == Self(s.task)
             asked == Asked(s.store, i)
             more == Recorded(i, self, asked)
             named == Traced(i, self)
             traced == [s EXCEPT !.task.traced = Add(@, named)]
             paid == [traced EXCEPT !.task.gas = @ - cost, !.task.pc = @ + 1, !.task.rw = Add(@, more)]
  <1>1. CASE s.task.pc > Len(s.task.msg.program)
    BY <1>1, RefundGasKeeps DEF Run
  <1>2. CASE s.task.pc <= Len(s.task.msg.program)
    <2>1. /\ IsInstruction(i)
          /\ s.task.pc = 0 => i.op \in Calls /\ i.skip = Len(s.task.msg.program)
          /\ s.task.pc # 0 => /\ i = s.task.msg.program[s.task.pc]
                              /\ s.task.pc \in DOMAIN s.task.msg.program
                              /\ Len(s.task.frames) >= 1
      BY <1>2, InstructionFacts
    <2>2. self \in Addresses /\ asked \in SUBSET {"CODE", "CODEHASH"}
      BY SelfIsAccount, ProgramFacts DEF Asked
    <2>3. more \in NamedSets /\ more.writes \subseteq named.writes /\ more.reads \subseteq Touched(named)
      BY <2>1, <2>2, RecordedIsTraced
    <2>4. cost \in {0, 1} /\ (s.task.pc = 0 => cost = 0)
      BY DEF Cost
    <2>5. /\ s.task.pc \in Nat /\ Len(s.task.msg.program) \in Nat
          /\ s.task.pc # 0 => /\ Len(s.task.frames) \in Nat
                              /\ Len(s.task.frames) >= Depth(s.task.msg.program, s.task.pc)
          /\ s.task.pc = 0 => Len(s.task.frames) = 0
      BY <1>2, ProgramFacts DEF Position, FramesInv
    <2>6. Run(s) = IF s.task.gas >= cost THEN Effect(paid, i)
                   ELSE RefundGas(Fail([traced EXCEPT !.task.gas = 0, !.task.frames = SubSeq(@, 1, 1)]))
      BY <1>2, <2>5 DEF Run
    <2> HIDE DEF i, cost, self, asked, more, named
    <2>7. /\ DOMAIN traced = {"task", "store"} /\ traced.store = s.store
          /\ traced.task = [s.task EXCEPT !.traced = Add(@, named)]
      BY DEF Running, IsRun
    <2>8. /\ IsTask(traced.task) /\ traced.task.traced = Add(s.task.traced, named)
          /\ \A f \in DOMAIN s.task \ {"traced"} : traced.task[f] = s.task[f]
      BY <2>7 DEF Running, IsRun, IsTask
    <2>9. CASE s.task.gas >= cost
      <3>1. /\ DOMAIN paid = {"task", "store"} /\ paid.store = s.store
            /\ paid.task = [traced.task EXCEPT !.gas = @ - cost, !.pc = @ + 1, !.rw = Add(@, more)]
        BY <2>7, <2>8 DEF IsTask
      <3> HIDE DEF traced, paid
      <3>2. /\ IsTask(paid.task) /\ paid.task.gas = s.task.gas - cost /\ paid.task.pc = s.task.pc + 1
            /\ paid.task.rw = Add(s.task.rw, more) /\ paid.task.traced = Add(s.task.traced, named)
            /\ paid.task.msg = s.task.msg /\ paid.task.err = "nil" /\ paid.task.stage = "run"
            /\ paid.task.pool = 0 /\ paid.task.frames = s.task.frames
        BY <3>1, <2>8 DEF IsTask, Running, IsRun
      <3>3. /\ paid.task.rw \in NamedSets /\ paid.task.rw.writes \subseteq paid.task.traced.writes
            /\ paid.task.rw.reads \subseteq Touched(paid.task.traced)
        <4>1. /\ Add(s.task.rw, more) \in NamedSets
              /\ Add(s.task.rw, more).writes \subseteq Add(s.task.traced, named).writes
              /\ Add(s.task.rw, more).reads \subseteq Touched(Add(s.task.traced, named))
          BY <2>3, AddCovers DEF Running, Covered
        <4> QED
          BY <3>2, <4>1
      <3>4. IsRun(paid) /\ FramesInv(paid.task.frames, paid.store.shared)
        BY <3>1, <3>2 DEF IsRun, Running
      <3>5. i.op \in {"RETURN", "REVERT"} => Len(paid.task.frames) >= 1
        BY <2>1, <3>2 DEF Calls
      <3> DEFINE e == Effect(paid, i)
      <3>6. /\ IsRun(e) /\ Kept(paid, e) /\ FramesInv(e.task.frames, e.store.shared)
            /\ Outcome(paid, e, i)
        BY <2>1, <3>4, <3>5, EffectKeeps DEF IsInstruction, Calls
      <3> HIDE DEF e
      <3>7. e.task.pc # 0 /\ Position(e.task)
        <4>1. PICK n \in Nat : n = s.task.pc
          BY <2>5
        <4> QED
          BY <4>1, <1>2, <2>1, <2>5, <3>2, <3>6, OutcomePosition DEF Kept
      <3>8. /\ e.task.msg = s.task.msg /\ e.task.err = "nil" /\ e.task.stage = "run" /\ e.task.pool = 0
            /\ e.task.gas = s.task.gas - cost /\ e.task.rw = paid.task.rw
            /\ e.task.traced = paid.task.traced /\ e.store.shared = s.store.shared
        BY <3>1, <3>2, <3>6 DEF Kept
      <3>9. e.task.gas \in Nat /\ e.task.gas <= s.task.msg.limit - IntrinsicGas
        BY <2>4, <2>9, <3>8, GasAssumption DEF Running
      <3>10. StageInv(e.task)
        BY <3>7, <3>8, <3>9 DEF StageInv, Position, Running
      <3>11. TaskInv(e.task, s.store.shared)
        BY <3>3, <3>6, <3>8, <3>10 DEF TaskInv, Covered, IsRun
      <3>12. Promised(s, e)
        BY <3>6, <3>8, <3>11 DEF Promised, IsRun
      <3> QED
        BY <3>12, <2>6, <2>9 DEF e
    <2>10. CASE ~(s.task.gas >= cost)
      <3>1. s.task.pc # 0
        BY <2>4, <2>10 DEF Running
      <3> DEFINE first == SubSeq(s.task.frames, 1, 1)
                 short == [traced EXCEPT !.task.gas = 0, !.task.frames = SubSeq(@, 1, 1)]
      <3>2. FramesInv(first, s.store.shared) /\ Len(first) = 1
        BY <2>1, <3>1, FirstFrame
      <3>3. /\ DOMAIN short = {"task", "store"} /\ short.store = s.store
            /\ short.task = [traced.task EXCEPT !.gas = 0, !.frames = SubSeq(@, 1, 1)]
        BY <2>7, <2>8 DEF IsTask
      <3> HIDE DEF traced, short, first
      <3>4. /\ IsTask(short.task) /\ short.task.gas = 0 /\ short.task.frames = first
            /\ short.task.rw = s.task.rw /\ short.task.traced = Add(s.task.traced, named)
            /\ short.task.msg = s.task.msg /\ short.task.err = "nil" /\ short.task.pool = 0
        BY <3>3, <2>8 DEF IsTask, Running, IsRun, first
      <3>5. IsRun(short) /\ FramesInv(short.task.frames, short.store.shared) /\ Len(short.task.frames) >= 1
        <4>1. IsState(short.store) /\ short.store.shared = s.store.shared
          BY <3>3 DEF IsRun, Running
        <4> QED
          BY <4>1, <3>2, <3>3, <3>4, 1 >= 1 DEF IsRun
      <3> DEFINE e == Fail(short)
      <3>6. IsRun(e) /\ Kept(short, e)
        BY <3>5, FailKeeps
      <3> HIDE DEF e
      <3>7. /\ e.task.msg = s.task.msg /\ e.task.err = "nil" /\ e.task.pool = 0 /\ e.task.gas = 0
            /\ e.task.rw = s.task.rw /\ e.task.traced = Add(s.task.traced, named)
            /\ e.store.shared = s.store.shared
        BY <3>3, <3>4, <3>6 DEF Kept
      <3>8. Covered(e.task)
        <4>1. /\ s.task.rw.writes \subseteq s.task.traced.writes
              /\ s.task.rw.reads \subseteq Touched(s.task.traced)
          BY DEF Running, Covered
        <4>2. /\ s.task.rw.writes \subseteq Add(s.task.traced, named).writes
              /\ s.task.rw.reads \subseteq Touched(Add(s.task.traced, named))
          BY <4>1 DEF Add, Touched
        <4> QED
          BY <3>7, <4>2 DEF Covered
      <3>9. Running(e)
        BY <3>6, <3>7, <3>8, GasAssumption DEF Running, Accepted
      <3>10. Promised(e, RefundGas(e))
        BY <3>9, RefundGasKeeps
      <3>11. Promised(s, RefundGas(e))
        BY <3>7, <3>10 DEF Promised
      <3> QED
        BY <3>11, <2>6, <2>10 DEF e, short
    <2> QED
      BY <2>9, <2>10
  <1>3. s.task.pc \in Nat /\ Len(s.task.msg.program) \in Nat
    BY ProgramFacts DEF Position
  <1> QED
    BY <1>1, <1>2, <1>3

(***************************************************************************)
(* A step of an execution, whoever uses the state in between.             *)
(***************************************************************************)
\* What a step needs.
Ready(s, shared) ==
    /\ DOMAIN s = {"task", "store"} /\ IsState(s.store) /\ s.store.shared = shared
    /\ WellFormed(s.task.msg) /\ TaskInv(s.task, shared)

LEMMA CheckKeeps ==
    ASSUME NEW s, NEW shared, Ready(s, shared), s.task.stage = "check"
    PROVE  Promised(s, Check(s))
  <1> DEFINE e == Check(s)
             loaded == s.store.accounts[s.task.msg.from].nonce
  <1>1. /\ IsTask(s.task) /\ s.task.err = "nil" /\ s.task.pool = s.task.msg.limit
        /\ s.task.pc = 0 /\ s.task.frames = <<>> /\ s.task.rw \in NamedSets /\ Covered(s.task)
        /\ s.task.msg.limit \in Nat /\ IntrinsicGas \in Nat
    BY ProgramFacts, GasAssumption DEF Ready, TaskInv, StageInv
  <1>2. CASE Accepted(s.task.msg)
    <2>1. e = [s EXCEPT !.task.gas = s.task.msg.limit - IntrinsicGas, !.task.pool = @ - s.task.msg.limit,
                        !.task.loaded = loaded, !.task.fields = @ \cup {s.task.msg.from}, !.task.stage = "setNonce"]
      BY <1>1, <1>2 DEF Check, Prechecked, Accepted
    <2>2. /\ DOMAIN e = {"task", "store"} /\ e.store = s.store
          /\ e.task = [s.task EXCEPT !.gas = s.task.msg.limit - IntrinsicGas, !.pool = @ - s.task.msg.limit,
                        !.loaded = loaded, !.fields = @ \cup {s.task.msg.from}, !.stage = "setNonce"]
      BY <1>1, <2>1 DEF Ready, IsTask
    <2> HIDE DEF e
    <2>3. /\ IsTask(e.task) /\ e.task.gas = s.task.msg.limit - IntrinsicGas /\ e.task.pool = 0
          /\ e.task.stage = "setNonce" /\ e.task.err = "nil" /\ e.task.pc = 0 /\ e.task.frames = <<>>
          /\ e.task.rw = s.task.rw /\ e.task.traced = s.task.traced /\ e.task.msg = s.task.msg
      BY <1>1, <2>2 DEF IsTask
    <2>4. e.task.gas \in Nat
      BY <1>1, <1>2, <2>3 DEF Accepted
    <2>5. StageInv(e.task)
      BY <1>2, <2>3, <2>4 DEF StageInv
    <2>6. Promised(s, e)
      BY <1>1, <2>2, <2>3, <2>5, NoFrame DEF Promised, TaskInv, Covered, Ready
    <2> QED
      BY <2>6 DEF e
  <1>3. CASE ~Accepted(s.task.msg)
    <2>1. e = [s EXCEPT !.task.err = "refused", !.task.stage = "done"]
      BY <1>3 DEF Check, Accepted
    <2>2. /\ DOMAIN e = {"task", "store"} /\ e.store = s.store
          /\ e.task = [s.task EXCEPT !.err = "refused", !.stage = "done"]
      BY <1>1, <2>1 DEF Ready, IsTask
    <2> HIDE DEF e
    <2>3. /\ IsTask(e.task) /\ e.task.stage = "done" /\ e.task.err = "refused" /\ e.task.frames = <<>>
          /\ e.task.rw = s.task.rw /\ e.task.traced = s.task.traced /\ e.task.msg = s.task.msg
      BY <1>1, <2>2 DEF IsTask
    <2>4. StageInv(e.task)
      BY <1>3, <2>3 DEF StageInv
    <2>5. Promised(s, e)
      BY <1>1, <2>2, <2>3, <2>4, NoFrame DEF Promised, TaskInv, Covered, Ready
    <2> QED
      BY <2>5 DEF e
  <1> QED
    BY <1>2, <1>3

LEMMA IncrementNonceKeeps ==
    ASSUME NEW s, NEW shared, Ready(s, shared), s.task.stage = "setNonce"
    PROVE  Promised(s, IncrementNonce(s))
  <1> DEFINE store == SetNonce(s.store, s.task.msg.from, s.task.loaded + 1)
             called == [s EXCEPT !.store = SetNonce(@, s.task.msg.from, s.task.loaded + 1), !.task.stage = "run"]
  <1>1. /\ IsTask(s.task) /\ s.task.err = "nil" /\ s.task.pool = 0 /\ Accepted(s.task.msg)
        /\ s.task.gas \in Nat /\ s.task.gas = s.task.msg.limit - IntrinsicGas
        /\ s.task.pc = 0 /\ s.task.frames = <<>> /\ s.task.rw \in NamedSets /\ Covered(s.task)
    BY DEF Ready, TaskInv, StageInv
  <1>2. IsState(store) /\ store.shared = s.store.shared
    <2>1. IsState(s.store)
      BY DEF Ready
    <2>2. PICK state, a, nonce :
            state = s.store /\ a = s.task.msg.from /\ nonce = s.task.loaded + 1
      OBVIOUS
    <2>3. IsState(SetNonce(state, a, nonce)) /\ SetNonce(state, a, nonce).shared = state.shared
      BY <2>1, <2>2, AccountOperations
    <2> QED
      BY <2>2, <2>3
  <1>3. /\ DOMAIN called = {"task", "store"} /\ called.store = store
        /\ called.task = [s.task EXCEPT !.stage = "run"]
    BY DEF Ready
  <1> HIDE DEF store, called
  <1>4. /\ IsTask(called.task) /\ called.task.stage = "run" /\ called.task.err = "nil"
        /\ called.task.pool = 0 /\ called.task.gas = s.task.gas /\ called.task.msg = s.task.msg
        /\ called.task.pc = 0 /\ called.task.frames = <<>>
        /\ called.task.rw = s.task.rw /\ called.task.traced = s.task.traced
    BY <1>1, <1>3 DEF IsTask
  <1>5. s.task.msg.limit \in Nat /\ IntrinsicGas \in Nat
    BY ProgramFacts, GasAssumption DEF Ready
  <1>6. Running(called)
    BY <1>1, <1>2, <1>3, <1>4, <1>5 DEF Running, IsRun, Covered
  <1>7. /\ WellFormed(called.task.msg) /\ Position(called.task)
        /\ FramesInv(called.task.frames, called.store.shared)
    BY <1>4, NoFrame DEF Position, Ready
  <1>8. Promised(called, Run(called))
    BY <1>4, <1>6, <1>7, RunKeeps
  <1>9. Promised(s, Run(called))
    BY <1>2, <1>3, <1>4, <1>8 DEF Promised
  <1> QED
    BY <1>9 DEF IncrementNonce, called

LEMMA CreditKeeps ==
    ASSUME NEW s, NEW shared, Ready(s, shared), s.task.stage = "credit"
    PROVE  Promised(s, Credit(s))
  <1> DEFINE amount == s.task.gas * s.task.msg.price
             store == AddBalance(s.store, s.task.msg.from, s.task.loaded, amount)
             e == Credit(s)
  <1>1. /\ IsTask(s.task) /\ s.task.err = "nil" /\ s.task.pool = 0 /\ Accepted(s.task.msg)
        /\ s.task.gas \in Nat /\ RefundBound(s.task)
        /\ s.task.rw \in NamedSets /\ Covered(s.task) /\ FramesInv(s.task.frames, shared)
    BY DEF Ready, TaskInv, StageInv
  <1>2. IsState(store) /\ store.shared = s.store.shared
    <2>1. IsState(s.store)
      BY DEF Ready
    <2>2. PICK state, a, before, more :
            state = s.store /\ a = s.task.msg.from /\ before = s.task.loaded /\ more = amount
      OBVIOUS
    <2>3. IsState(AddBalance(state, a, before, more)) /\ AddBalance(state, a, before, more).shared = state.shared
      BY <2>1, <2>2, AccountOperations
    <2> QED
      BY <2>2, <2>3
  <1>3. /\ DOMAIN e = {"task", "store"} /\ e.store = store
        /\ e.task = [s.task EXCEPT !.pool = @ + s.task.gas, !.stage = "done"]
    BY <1>1 DEF Credit, Ready, IsTask
  <1> HIDE DEF e, store
  <1>4. /\ IsTask(e.task) /\ e.task.stage = "done" /\ e.task.err = "nil" /\ e.task.pool = e.task.gas
        /\ e.task.gas = s.task.gas /\ e.task.msg = s.task.msg /\ e.task.frames = s.task.frames
        /\ e.task.rw = s.task.rw /\ e.task.traced = s.task.traced
    BY <1>1, <1>3 DEF IsTask
  <1>5. StageInv(e.task)
    BY <1>1, <1>4 DEF StageInv, RefundBound
  <1>6. Promised(s, e)
    BY <1>1, <1>2, <1>3, <1>4, <1>5 DEF Promised, TaskInv, Covered, Ready
  <1> QED
    BY <1>6 DEF e

\* Whatever others have done to the state since the last step, this one leaves a
\* sound execution.
LEMMA StepKeeps ==
    ASSUME NEW s, NEW shared, Ready(s, shared), s.task.stage # "done"
    PROVE  LET e == Step(s)
           IN  /\ e.task.msg = s.task.msg /\ TaskInv(e.task, shared)
               /\ IsState(e.store) /\ e.store.shared = shared
  <1>1. CASE s.task.stage = "check"
    BY <1>1, CheckKeeps DEF Step, Promised, Ready
  <1>2. CASE s.task.stage = "setNonce"
    BY <1>2, IncrementNonceKeeps DEF Step, Promised, Ready
  <1>3. CASE s.task.stage = "run"
    <2>1. Running(s)
      BY <1>3, ProgramFacts DEF Ready, TaskInv, StageInv, Running, IsRun
    <2>2. Position(s.task) /\ FramesInv(s.task.frames, s.store.shared) /\ WellFormed(s.task.msg)
      BY <1>3 DEF Ready, TaskInv, StageInv, Position
    <2>3. Promised(s, Run(s))
      BY <1>3, <2>1, <2>2, RunKeeps
    <2>4. Step(s) = Run(s)
      BY <1>3 DEF Step
    <2> QED
      BY <2>3, <2>4 DEF Promised, Ready
  <1>4. CASE s.task.stage = "credit"
    BY <1>4, CreditKeeps DEF Step, Promised, Ready
  <1>5. s.task.stage \in {"check", "setNonce", "run", "credit"}
    BY DEF Ready, TaskInv, StageInv
  <1> QED
    BY <1>1, <1>2, <1>3, <1>4, <1>5

(***************************************************************************)
(* The invariant of the drivers.                                           *)
(***************************************************************************)
LEMMA Assumed ==
    /\ \A messages \in Blocks : \A t \in Txs : WellFormed(messages[t])
    /\ IsState(Database) /\ ~Database.shared /\ NoPrediction \notin NamedSets
  <1>1. PICK accounts, slots, refund : Database = [shared |-> FALSE, accounts |-> accounts, slots |-> slots,
                                                   refund |-> refund]
    BY FullStateAssumption
  <1>2. DOMAIN Database = {"shared", "accounts", "slots", "refund"} /\ Database.shared = FALSE
    BY <1>1
  <1> QED
    BY <1>2, FullStateAssumption DEF IsState

LEMMA NewTaskSound ==
    ASSUME NEW t, NEW msg, NEW shared
    PROVE  /\ TaskInv(NewTask(t, msg), shared) /\ NewTask(t, msg).msg = msg
           /\ NewTask(t, msg).stage = "check"
  <1> DEFINE ran == NewTask(t, msg)
  <1>1. /\ IsTask(ran) /\ ran.msg = msg /\ ran.stage = "check" /\ ran.err = "nil"
        /\ ran.pool = msg.limit /\ ran.pc = 0 /\ ran.frames = <<>>
        /\ ran.rw = NoTouch /\ ran.traced = NoTouch
    BY DEF NewTask, IsTask
  <1> HIDE DEF ran
  <1>2. ran.rw \in NamedSets /\ Covered(ran)
    BY <1>1 DEF NoTouch, NamedSets, Covered, Touched
  <1>3. StageInv(ran)
    BY <1>1 DEF StageInv
  <1> QED
    BY <1>1, <1>2, <1>3, NoFrame DEF TaskInv, ran

LEMMA InitSound == Init => FullStateInvariant
  <1> SUFFICES ASSUME Init
               PROVE  FullStateInvariant
    OBVIOUS
  <1>1. ASSUME NEW t \in Txs
        PROVE  /\ task[t] = NewTask(t, block[t]) /\ forecast[t] = NewTask(t, block[t])
               /\ truth[t] = NewTask(t, block[t]) /\ predictions[t] = NoPrediction
    BY DEF Init
  <1>2. ASSUME NEW t \in Txs
        PROVE  /\ forecast[t].msg = block[t] /\ TaskInv(forecast[t], FALSE) /\ forecast[t].stage = "check"
               /\ truth[t].msg = block[t] /\ TaskInv(truth[t], FALSE)
               /\ task[t].msg = block[t] /\ TaskInv(task[t], TRUE)
    <2>1. PICK msg : msg = block[t]
      OBVIOUS
    <2>2. /\ TaskInv(NewTask(t, msg), FALSE) /\ TaskInv(NewTask(t, msg), TRUE)
          /\ NewTask(t, msg).msg = msg /\ NewTask(t, msg).stage = "check"
      BY NewTaskSound
    <2> QED
      BY <1>1, <2>1, <2>2
  <1>3. PredictionInv
    BY <1>1, <1>2 DEF PredictionInv
  <1>4. /\ DOMAIN forecast = Txs /\ DOMAIN truth = Txs /\ DOMAIN task = Txs /\ DOMAIN predictions = Txs
        /\ phase = "predict" /\ database = Database /\ full = Database
    BY DEF Init
  <1> QED
    BY <1>2, <1>3, <1>4, Assumed DEF FullStateInvariant

\* Every message of the block is well-formed.
BlockInv == \A t \in Txs : WellFormed(block[t])

LEMMA PredictSound ==
    ASSUME BlockInv, FullStateInvariant, NEW t \in Txs, PredictTx(t)
    PROVE  FullStateInvariant'
  <1> DEFINE s == Step([task |-> forecast[t], store |-> database])
  <1>1. /\ phase = "predict" /\ forecast[t].stage # "done"
        /\ forecast' = [forecast EXCEPT ![t] = s.task]
        /\ database' = IF s.task.stage = "done" THEN Database ELSE s.store
        /\ predictions' = [predictions EXCEPT ![t] = Predicted(s.task)]
        /\ UNCHANGED <<block, method, phase, truth, plan, round, full, task>>
    BY DEF PredictTx, Turn
  <1>2. Ready([task |-> forecast[t], store |-> database], FALSE)
    <2>1. /\ IsState(database) /\ database.shared = FALSE /\ WellFormed(forecast[t].msg)
          /\ TaskInv(forecast[t], FALSE)
      BY DEF FullStateInvariant, BlockInv, IsState
    <2> QED
      BY <2>1 DEF Ready
  <1>3. /\ s.task.msg = forecast[t].msg /\ TaskInv(s.task, FALSE)
        /\ IsState(s.store) /\ s.store.shared = FALSE
    BY <1>1, <1>2, StepKeeps
  <1> HIDE DEF s
  <1>4. IsState(database') /\ ~database'.shared
    BY <1>1, <1>3, Assumed
  <1>5. ASSUME NEW u \in Txs
        PROVE  forecast'[u].msg = block[u] /\ TaskInv(forecast'[u], FALSE)
    BY <1>1, <1>3 DEF FullStateInvariant
  <1>6. ASSUME NEW u \in Txs
        PROVE  predictions'[u] = IF forecast'[u].stage = "done" /\ forecast'[u].err = "nil"
                                 THEN forecast'[u].rw ELSE NoPrediction
    <2>1. CASE u = t
      <3>1. forecast'[u] = s.task /\ predictions'[u] = Predicted(s.task)
        BY <1>1, <2>1 DEF FullStateInvariant
      <3> QED
        BY <3>1 DEF Predicted
    <2>2. CASE u # t
      BY <1>1, <2>2 DEF FullStateInvariant, PredictionInv
    <2> QED
      BY <2>1, <2>2
  <1>7. DOMAIN forecast' = Txs /\ DOMAIN predictions' = Txs
    BY <1>1 DEF FullStateInvariant
  <1> QED
    BY <1>1, <1>4, <1>5, <1>6, <1>7 DEF FullStateInvariant, PredictionInv

LEMMA RecordSound ==
    ASSUME BlockInv, FullStateInvariant, NEW t \in Txs, RecordTx(t)
    PROVE  FullStateInvariant'
  <1> DEFINE s == Step([task |-> truth[t], store |-> database])
  <1>1. /\ truth[t].stage # "done"
        /\ truth' = [truth EXCEPT ![t] = s.task] /\ database' = s.store
        /\ UNCHANGED <<predictions, block, method, phase, forecast, plan, round, full, task>>
    BY DEF RecordTx, Turn
  <1>2. Ready([task |-> truth[t], store |-> database], FALSE)
    <2>1. /\ IsState(database) /\ database.shared = FALSE /\ WellFormed(truth[t].msg)
          /\ TaskInv(truth[t], FALSE)
      BY DEF FullStateInvariant, BlockInv, IsState
    <2> QED
      BY <2>1 DEF Ready
  <1>3. /\ s.task.msg = truth[t].msg /\ TaskInv(s.task, FALSE)
        /\ IsState(s.store) /\ s.store.shared = FALSE
    BY <1>1, <1>2, StepKeeps
  <1> HIDE DEF s
  <1>4. ASSUME NEW u \in Txs
        PROVE  truth'[u].msg = block[u] /\ TaskInv(truth'[u], FALSE)
    BY <1>1, <1>3 DEF FullStateInvariant
  <1>5. DOMAIN truth' = Txs /\ IsState(database') /\ ~database'.shared
    BY <1>1, <1>3 DEF FullStateInvariant
  <1> QED
    BY <1>1, <1>4, <1>5 DEF FullStateInvariant, PredictionInv, Done

LEMMA ExecuteSound ==
    ASSUME BlockInv, FullStateInvariant, NEW t \in Txs, StepTx(t)
    PROVE  FullStateInvariant'
  <1> DEFINE s == Step([task |-> task[t], store |-> full])
  <1>1. /\ phase = "execute" /\ task[t].stage # "done"
        /\ task' = [task EXCEPT ![t] = s.task] /\ full' = s.store
        /\ UNCHANGED <<predictions, block, method, phase, forecast, truth, database, plan, round>>
    BY DEF StepTx
  <1>2. Ready([task |-> task[t], store |-> full], TRUE)
    <2>1. /\ IsState(full) /\ full.shared = TRUE /\ WellFormed(task[t].msg)
          /\ TaskInv(task[t], TRUE)
      BY <1>1 DEF FullStateInvariant, BlockInv, IsState
    <2> QED
      BY <2>1 DEF Ready
  <1>3. /\ s.task.msg = task[t].msg /\ TaskInv(s.task, TRUE)
        /\ IsState(s.store) /\ s.store.shared = TRUE
    BY <1>1, <1>2, StepKeeps
  <1> HIDE DEF s
  <1>4. ASSUME NEW u \in Txs
        PROVE  task'[u].msg = block[u] /\ TaskInv(task'[u], TRUE)
    BY <1>1, <1>3 DEF FullStateInvariant
  <1>5. DOMAIN task' = Txs /\ IsState(full') /\ full'.shared
    BY <1>1, <1>3 DEF FullStateInvariant
  <1> QED
    BY <1>1, <1>4, <1>5 DEF FullStateInvariant, PredictionInv, Done

\* What can be executed in the block could be executed before it, and so was
\* predicted.
LEMMA TruthfulIsPredicted ==
    ASSUME FullStateInvariant, phase = "record", Done(truth), Truthful
    PROVE  Vertices = Txs
  <1>1. ASSUME NEW t \in Txs
        PROVE  predictions[t] # NoPrediction
    <2>1. truth[t].stage = "done" /\ truth[t].err = "nil" /\ StageInv(truth[t]) /\ truth[t].msg = block[t]
      BY DEF FullStateInvariant, TaskInv, Done, Truthful
    <2>2. Accepted(block[t])
      BY <2>1 DEF StageInv
    <2>3. forecast[t].stage = "done" /\ StageInv(forecast[t]) /\ forecast[t].msg = block[t]
      BY DEF FullStateInvariant, TaskInv, Done
    <2>4. forecast[t].err = "nil"
      BY <2>2, <2>3 DEF StageInv
    <2>5. predictions[t] = forecast[t].rw /\ forecast[t].rw \in NamedSets
      BY <2>3, <2>4 DEF FullStateInvariant, PredictionInv, TaskInv
    <2> QED
      BY <2>5, Assumed
  <1> QED
    BY <1>1 DEF Vertices

LEMMA NextSound ==
    ASSUME BlockInv, FullStateInvariant, [Next]_vars
    PROVE  FullStateInvariant'
  <1>1. ASSUME NEW t \in Txs, PredictTx(t) \/ RecordTx(t) \/ StepTx(t)
        PROVE  FullStateInvariant'
    BY <1>1, PredictSound, RecordSound, ExecuteSound
  <1>2. CASE EndPredictions
    BY <1>2 DEF EndPredictions, FullStateInvariant, PredictionInv, Done
  <1>3. CASE Panic
    <2>1. phase = "record" /\ Done(truth) /\ ~(Truthful /\ Vertices = Txs)
      BY <1>3 DEF Panic
    <2>2. phase' = "panic"
      BY <1>3, <2>1, TruthfulIsPredicted DEF Panic
    <2> QED
      BY <1>3, <2>1, <2>2 DEF Panic, FullStateInvariant, PredictionInv, Done
  <1>4. CASE Prefetch
    <2>1. IsState(full') /\ full'.shared
      BY <1>4 DEF Prefetch, Fetched, IsState
    <2> QED
      BY <1>4, <2>1 DEF Prefetch, FullStateInvariant, PredictionInv, Done
  <1>5. CASE EndRound
    <2>1. phase' \in {"execute", "done"} /\ phase = "execute"
      BY <1>5 DEF EndRound
    <2> QED
      BY <1>5, <2>1 DEF EndRound, FullStateInvariant, PredictionInv, Done
  <1>6. CASE UNCHANGED vars
    BY <1>6 DEF vars, FullStateInvariant, PredictionInv, Done
  <1> QED
    BY <1>1, <1>2, <1>3, <1>4, <1>5, <1>6 DEF Next, Stopped

LEMMA BlockStays == Spec => []BlockInv
  <1>1. Init => BlockInv
    BY Assumed DEF Init, BlockInv
  <1>2. BlockInv /\ [Next]_vars => BlockInv'
    BY DEF BlockInv, Next, vars, PredictTx, RecordTx, StepTx, EndPredictions, Panic, Prefetch, EndRound,
           Stopped
  <1> QED
    BY <1>1, <1>2, PTL DEF Spec

\* Every execution is as it should be between any two of its accesses, whatever
\* the others do to the state in between, and a transaction is predicted if and
\* only if its message can be executed.
THEOREM ExecutionsAreSound == Spec => []FullStateInvariant
  <1>1. BlockInv /\ FullStateInvariant /\ [Next]_vars => FullStateInvariant'
    BY NextSound
  <1> QED
    BY <1>1, InitSound, BlockStays, PTL DEF Spec

\* A nil prediction never reaches Prefetch: TrueRWSets has stopped before.
THEOREM NilNeverFetched == Spec => []NoNilPrediction
  <1>1. FullStateInvariant => NoNilPrediction
    BY DEF FullStateInvariant, NoNilPrediction
  <1> QED
    BY <1>1, ExecutionsAreSound, PTL

\* What StateWithRwSets records of the instructions modelled, RW_AccessListsTracer
\* has named.
THEOREM RecordedIsCovered == Spec => []TracerCovers
  <1>1. FullStateInvariant => TracerCovers
    BY DEF FullStateInvariant, TracerCovers, OfAllRuns, TaskInv, Covered
  <1> QED
    BY <1>1, ExecutionsAreSound, PTL

\* A transaction gets back at most a part of the gas it has used, and the pool
\* never holds more than was put into it.
THEOREM RefundsAreBounded == Spec => []RefundsBounded
  <1>1. ASSUME NEW ran, StageInv(ran), ran.stage = "done", ran.err = "nil"
        PROVE  ran.pool = ran.gas /\ RefundBound(ran)
    BY <1>1 DEF StageInv
  <1>2. FullStateInvariant => RefundsBounded
    BY <1>1 DEF FullStateInvariant, TaskInv, RefundsBounded, OfAllRuns, RefundBound
  <1> QED
    BY <1>2, ExecutionsAreSound, PTL

(***************************************************************************)
(* What the operations of the EVM do to two full caches that agree on what *)
(* is asked of them.                                                       *)
(***************************************************************************)
IsMap(f, names) == DOMAIN f = names /\ f = [n \in names |-> f[n]]

IsAccount(object) ==
    IsMap(object, {"held", "balance", "nonce", "code", "alive"}) /\ object.held \in BOOLEAN

IsCache(store) ==
    /\ IsMap(store, {"shared", "accounts", "slots", "refund"})
    /\ store.shared = TRUE /\ store.refund = 0
    /\ IsMap(store.accounts, Addresses) /\ IsMap(store.slots, Keys)
    /\ \A a \in Addresses : IsAccount(store.accounts[a])

\* Which accounts there are, and which have code, no step changes.
Alike(store, other) ==
    \A a \in Addresses :
        /\ other.accounts[a].held = store.accounts[a].held
        /\ other.accounts[a].code = store.accounts[a].code
        /\ ~store.accounts[a].held => other.accounts[a] = store.accounts[a]

\* They hold the same in these slots and accounts.
Same(store, other, keys, accounts) ==
    /\ \A k \in keys \cap Keys : other.slots[k] = store.slots[k]
    /\ \A a \in accounts \cap Addresses : other.accounts[a] = store.accounts[a]

\* One is the other, but for these.
ChangedIn(store, left, keys, accounts) ==
    /\ IsCache(left) /\ Alike(store, left)
    /\ Same(store, left, Keys \ keys, Addresses \ accounts)

\* Two caches have been changed in these, alike where they were alike.
Twins(store, left, other, leftOther, keys, accounts) ==
    /\ ChangedIn(store, left, keys, accounts) /\ ChangedIn(other, leftOther, keys, accounts)
    /\ \A k \in keys \cap Keys : other.slots[k] = store.slots[k] => leftOther.slots[k] = left.slots[k]
    /\ \A a \in accounts \cap Addresses :
        other.accounts[a] = store.accounts[a] => leftOther.accounts[a] = left.accounts[a]

LEMMA CacheIsState ==
    ASSUME NEW store, IsCache(store)
    PROVE  IsState(store) /\ store.shared = TRUE /\ store.refund = 0
  <1>1. store.shared = TRUE /\ store.refund = 0
    BY Zenon DEF IsCache
  <1>2. DOMAIN store = {"shared", "accounts", "slots", "refund"}
    BY Zenon DEF IsCache, IsMap
  <1>3. store.refund \in Nat
    BY <1>1
  <1>4. store.shared \in BOOLEAN
    BY <1>1, Zenon
  <1> QED
    BY <1>1, <1>2, <1>3, <1>4, Zenon DEF IsState

LEMMA SameMap ==
    ASSUME NEW f, NEW g, NEW names, IsMap(f, names), IsMap(g, names), \A n \in names : g[n] = f[n]
    PROVE  g = f
  BY DEF IsMap

LEMMA SameCache ==
    ASSUME NEW store, NEW other, IsCache(store), IsCache(other),
           \A k \in Keys : other.slots[k] = store.slots[k],
           \A a \in Addresses : other.accounts[a] = store.accounts[a]
    PROVE  other = store
  <1>1. other.slots = store.slots
    BY SameMap DEF IsCache
  <1>2. other.accounts = store.accounts
    BY SameMap DEF IsCache
  <1>3. \A n \in {"shared", "accounts", "slots", "refund"} : other[n] = store[n]
    BY <1>1, <1>2 DEF IsCache
  <1> QED
    BY <1>3, SameMap DEF IsCache

LEMMA SetStateSlot ==
    ASSUME NEW store, IsCache(store), NEW k \in Keys, NEW v
    PROVE  /\ IsCache(SetState(store, k, v))
           /\ SetState(store, k, v).accounts = store.accounts
           /\ \A l \in Keys : l # k => SetState(store, k, v).slots[l] = store.slots[l]
           /\ SetState(store, k, v).slots[k] = IF store.slots[k] = NoValue THEN NoValue ELSE v
  BY DEF IsCache, SetState, IsMap

LEMMA SetAccountFields ==
    ASSUME NEW store, IsCache(store), NEW a \in Addresses, NEW object, IsAccount(object)
    PROVE  /\ IsCache(SetAccount(store, a, object))
           /\ SetAccount(store, a, object).slots = store.slots
           /\ \A b \in Addresses : b # a => SetAccount(store, a, object).accounts[b] = store.accounts[b]
           /\ SetAccount(store, a, object).accounts[a] =
                IF store.accounts[a].held THEN [object EXCEPT !.held = TRUE] ELSE store.accounts[a]
  <1>1. IsAccount([object EXCEPT !.held = TRUE])
    BY DEF IsAccount, IsMap
  <1> QED
    BY <1>1 DEF IsCache, SetAccount, Exist, IsMap

LEMMA StutterTwins ==
    ASSUME NEW store, NEW other, IsCache(store), IsCache(other), NEW keys, NEW accounts
    PROVE  Twins(store, store, other, other, keys, accounts)
  BY DEF Twins, ChangedIn, Alike, Same

\* A write to a slot of two caches.
LEMMA SetStateTwins ==
    ASSUME NEW store, NEW other, IsCache(store), IsCache(other), NEW k \in Keys, NEW v,
           NEW keys, k \in keys, NEW accounts
    PROVE  Twins(store, SetState(store, k, v), other, SetState(other, k, v), keys, accounts)
  <1>1. PICK left, leftOther : left = SetState(store, k, v) /\ leftOther = SetState(other, k, v)
    OBVIOUS
  <1>2. /\ IsCache(left) /\ left.accounts = store.accounts
        /\ \A l \in Keys : l # k => left.slots[l] = store.slots[l]
        /\ left.slots[k] = IF store.slots[k] = NoValue THEN NoValue ELSE v
    BY <1>1, SetStateSlot
  <1>3. /\ IsCache(leftOther) /\ leftOther.accounts = other.accounts
        /\ \A l \in Keys : l # k => leftOther.slots[l] = other.slots[l]
        /\ leftOther.slots[k] = IF other.slots[k] = NoValue THEN NoValue ELSE v
    BY <1>1, SetStateSlot
  <1>4. ChangedIn(store, left, keys, accounts) /\ ChangedIn(other, leftOther, keys, accounts)
    BY <1>2, <1>3 DEF ChangedIn, Alike, Same
  <1>5. \A l \in keys \cap Keys : other.slots[l] = store.slots[l] => leftOther.slots[l] = left.slots[l]
    BY <1>2, <1>3
  <1> QED
    BY <1>1, <1>2, <1>3, <1>4, <1>5 DEF Twins

\* A write to the fields of an account of two caches, made of what each holds.
LEMMA SetAccountTwins ==
    ASSUME NEW store, NEW other, IsCache(store), IsCache(other), NEW a \in Addresses,
           NEW keys, NEW accounts, a \in accounts,
           NEW object, IsAccount(object), object.code = store.accounts[a].code,
           NEW objectOther, IsAccount(objectOther), objectOther.code = other.accounts[a].code,
           other.accounts[a] = store.accounts[a] => objectOther = object
    PROVE  Twins(store, SetAccount(store, a, object), other, SetAccount(other, a, objectOther), keys, accounts)
  <1>1. PICK left, leftOther : left = SetAccount(store, a, object) /\ leftOther = SetAccount(other, a, objectOther)
    OBVIOUS
  <1>2. /\ IsCache(left) /\ left.slots = store.slots
        /\ \A b \in Addresses : b # a => left.accounts[b] = store.accounts[b]
        /\ left.accounts[a] = IF store.accounts[a].held THEN [object EXCEPT !.held = TRUE] ELSE store.accounts[a]
    BY <1>1, SetAccountFields
  <1>3. /\ IsCache(leftOther) /\ leftOther.slots = other.slots
        /\ \A b \in Addresses : b # a => leftOther.accounts[b] = other.accounts[b]
        /\ leftOther.accounts[a] =
              IF other.accounts[a].held THEN [objectOther EXCEPT !.held = TRUE] ELSE other.accounts[a]
    BY <1>1, SetAccountFields
  <1>4. /\ [object EXCEPT !.held = TRUE].held = TRUE /\ [object EXCEPT !.held = TRUE].code = object.code
        /\ [objectOther EXCEPT !.held = TRUE].held = TRUE
        /\ [objectOther EXCEPT !.held = TRUE].code = objectOther.code
    BY DEF IsAccount, IsMap
  <1>5. store.accounts[a].held \in BOOLEAN /\ other.accounts[a].held \in BOOLEAN
    BY DEF IsCache, IsAccount
  <1>6. Alike(store, left)
    BY <1>2, <1>4, <1>5 DEF Alike
  <1>7. Alike(other, leftOther)
    BY <1>3, <1>4, <1>5 DEF Alike
  <1>8. ChangedIn(store, left, keys, accounts) /\ ChangedIn(other, leftOther, keys, accounts)
    BY <1>2, <1>3, <1>6, <1>7 DEF ChangedIn, Same
  <1>9. \A b \in accounts \cap Addresses :
            other.accounts[b] = store.accounts[b] => leftOther.accounts[b] = left.accounts[b]
    BY <1>2, <1>3
  <1> QED
    BY <1>1, <1>2, <1>3, <1>8, <1>9 DEF Twins

\* What SetNonce, the balance operations and SelfDestruct do to two caches.
LEMMA NonceTwins ==
    ASSUME NEW store, NEW other, IsCache(store), IsCache(other), NEW a \in Addresses,
           NEW keys, NEW accounts, a \in accounts, NEW nonce
    PROVE  Twins(store, SetNonce(store, a, nonce), other, SetNonce(other, a, nonce), keys, accounts)
  <1>1. PICK object, objectOther : /\ object = [store.accounts[a] EXCEPT !.nonce = nonce]
                                   /\ objectOther = [other.accounts[a] EXCEPT !.nonce = nonce]
    OBVIOUS
  <1>2. /\ IsAccount(object) /\ object.code = store.accounts[a].code
        /\ IsAccount(objectOther) /\ objectOther.code = other.accounts[a].code
    <2>1. PICK own, theirs : own = store.accounts[a] /\ theirs = other.accounts[a]
      OBVIOUS
    <2>2. IsAccount(own) /\ IsAccount(theirs)
      BY <2>1 DEF IsCache
    <2>3. object = [own EXCEPT !.nonce = nonce] /\ objectOther = [theirs EXCEPT !.nonce = nonce]
      BY <1>1, <2>1
    <2>4. IsAccount(object) /\ object.code = own.code
      BY <2>2, <2>3 DEF IsAccount, IsMap
    <2>5. IsAccount(objectOther) /\ objectOther.code = theirs.code
      BY <2>2, <2>3 DEF IsAccount, IsMap
    <2> QED
      BY <2>1, <2>4, <2>5
  <1> QED
    BY <1>1, <1>2, SetAccountTwins DEF SetNonce

LEMMA BalanceTwins ==
    ASSUME NEW store, NEW other, IsCache(store), IsCache(other), NEW a \in Addresses,
           NEW keys, NEW accounts, a \in accounts, NEW loaded, NEW amount
    PROVE  Twins(store, AddBalance(store, a, loaded, amount),
                 other, AddBalance(other, a, loaded, amount), keys, accounts)
  <1>1. PICK object, objectOther : /\ object = [store.accounts[a] EXCEPT !.balance = loaded + amount]
                                   /\ objectOther = [other.accounts[a] EXCEPT !.balance = loaded + amount]
    OBVIOUS
  <1>2. /\ IsAccount(object) /\ object.code = store.accounts[a].code
        /\ IsAccount(objectOther) /\ objectOther.code = other.accounts[a].code
    <2>1. PICK own, theirs : own = store.accounts[a] /\ theirs = other.accounts[a]
      OBVIOUS
    <2>2. IsAccount(own) /\ IsAccount(theirs)
      BY <2>1 DEF IsCache
    <2>3. object = [own EXCEPT !.balance = loaded + amount] /\ objectOther = [theirs EXCEPT !.balance = loaded + amount]
      BY <1>1, <2>1
    <2>4. IsAccount(object) /\ object.code = own.code
      BY <2>2, <2>3 DEF IsAccount, IsMap
    <2>5. IsAccount(objectOther) /\ objectOther.code = theirs.code
      BY <2>2, <2>3 DEF IsAccount, IsMap
    <2> QED
      BY <2>1, <2>4, <2>5
  <1>3. Twins(store, SetAccount(store, a, object), other, SetAccount(other, a, objectOther), keys, accounts)
    BY <1>1, <1>2, SetAccountTwins
  <1>4. CASE amount = 0
    <2>1. AddBalance(store, a, loaded, amount) = store /\ AddBalance(other, a, loaded, amount) = other
      BY <1>4 DEF AddBalance, IsCache
    <2> QED
      BY <2>1, StutterTwins
  <1>5. CASE amount # 0
    <2>1. /\ AddBalance(store, a, loaded, amount) = SetAccount(store, a, object)
          /\ AddBalance(other, a, loaded, amount) = SetAccount(other, a, objectOther)
      BY <1>1, <1>5 DEF AddBalance
    <2> QED
      BY <1>3, <2>1
  <1> QED
    BY <1>4, <1>5

LEMMA SelfDestructTwins ==
    ASSUME NEW store, NEW other, IsCache(store), IsCache(other), NEW a \in Addresses,
           NEW keys, NEW accounts, a \in accounts
    PROVE  Twins(store, SelfDestruct(store, a), other, SelfDestruct(other, a), keys, accounts)
  <1>1. PICK object, objectOther :
            /\ object = [store.accounts[a] EXCEPT !.alive = FALSE, !.balance = 0]
            /\ objectOther = [other.accounts[a] EXCEPT !.alive = FALSE, !.balance = 0]
    OBVIOUS
  <1>2. /\ IsAccount(object) /\ object.code = store.accounts[a].code
        /\ IsAccount(objectOther) /\ objectOther.code = other.accounts[a].code
    <2>1. PICK own, theirs : own = store.accounts[a] /\ theirs = other.accounts[a]
      OBVIOUS
    <2>2. IsAccount(own) /\ IsAccount(theirs)
      BY <2>1 DEF IsCache
    <2>3. /\ object = [own EXCEPT !.alive = FALSE, !.balance = 0]
          /\ objectOther = [theirs EXCEPT !.alive = FALSE, !.balance = 0]
      BY <1>1, <2>1
    <2>4. IsAccount(object) /\ object.code = own.code
      BY <2>2, <2>3 DEF IsAccount, IsMap
    <2>5. IsAccount(objectOther) /\ objectOther.code = theirs.code
      BY <2>2, <2>3 DEF IsAccount, IsMap
    <2> QED
      BY <2>1, <2>4, <2>5
  <1> QED
    BY <1>1, <1>2, SetAccountTwins DEF SelfDestruct

\* One change after the other.
LEMMA TwinsInTurn ==
    ASSUME NEW store, NEW left, NEW last, NEW other, NEW leftOther, NEW lastOther, NEW keys, NEW accounts,
           Twins(store, left, other, leftOther, keys, accounts),
           Twins(left, last, leftOther, lastOther, keys, accounts)
    PROVE  Twins(store, last, other, lastOther, keys, accounts)
  <1>1. Alike(store, last) /\ Alike(other, lastOther)
    BY DEF Twins, ChangedIn, Alike, IsCache, IsAccount
  <1>2. Same(store, last, Keys \ keys, Addresses \ accounts) /\ Same(other, lastOther, Keys \ keys, Addresses \ accounts)
    BY DEF Twins, ChangedIn, Same
  <1> QED
    BY <1>1, <1>2 DEF Twins, ChangedIn

(***************************************************************************)
(* An execution that has come to the same point on two full caches.        *)
(***************************************************************************)
IsPair(s) == IsMap(s, {"task", "store"})

Beside(p, q) ==
    /\ IsPair(p) /\ IsPair(q) /\ q.task = p.task /\ IsTask(p.task)
    /\ IsCache(p.store) /\ IsCache(q.store) /\ Alike(p.store, q.store)

\* Both have gone on in the same way.
Abreast(p, e, q, f) ==
    /\ IsPair(e) /\ IsPair(f) /\ f.task = e.task /\ IsTask(e.task)
    /\ e.task.tx = p.task.tx /\ p.task.fields \subseteq e.task.fields
    /\ Twins(p.store, e.store, q.store, f.store, e.task.rw.writes, e.task.fields)

\* What is asked of the accounts that no field of theirs tells.
LEMMA AskedAlike ==
    ASSUME NEW store, NEW other, IsCache(store), IsCache(other), Alike(store, other),
           NEW i, i.account \in Addresses
    PROVE  Callable(other, i.account) = Callable(store, i.account) /\ Asked(other, i) = Asked(store, i)
  BY DEF Alike, Callable, Asked, Exist, IsCache, IsAccount

\* Only the execution has changed.
LEMMA TaskAbreast ==
    ASSUME NEW p, NEW q, Beside(p, q), NEW e, NEW f, IsPair(e), IsPair(f), e.store = p.store, f.store = q.store,
           f.task = e.task, IsTask(e.task), e.task.tx = p.task.tx, p.task.fields \subseteq e.task.fields
    PROVE  Abreast(p, e, q, f)
  BY StutterTwins DEF Beside, Abreast

\* What an instruction asks is recorded.
Asks(ran, i) ==
    /\ i.op \notin {"JUMPI", "RETURN", "REVERT"} => i.account \in Addresses
    /\ i.op \in {"SLOAD", "SSTORE", "CLEAR"} => Key(i) \in Keys /\ Key(i) \in Touched(ran.rw)
    /\ i.op \in {"SSTORE", "CLEAR"} => Key(i) \in ran.rw.writes
    /\ Self(ran) \in Addresses

\* The instructions that look at the storage.
LEMMA StorageAbreast ==
    ASSUME NEW p, NEW q, Beside(p, q), NEW i, Asks(p.task, i), i.op \in {"SLOAD", "SSTORE", "CLEAR"},
           NEW e, e = Effect(p, i), NEW f, f = Effect(q, i),
           Same(p.store, q.store, Touched(e.task.rw), e.task.fields)
    PROVE  Abreast(p, e, q, f)
  <1>1. PICK k : k = Key(i)
    OBVIOUS
  <1>2. CASE i.op = "SLOAD"
    <2>1. /\ e = [p EXCEPT !.task.seen = Append(@, GetState(p.store, Key(i)))]
          /\ f = [q EXCEPT !.task.seen = Append(@, GetState(q.store, Key(i)))]
      BY <1>2 DEF Effect, Calls
    <2>6. PICK v, w : /\ v = GetState(p.store, k) /\ w = GetState(q.store, k)
                      /\ e = [p EXCEPT !.task.seen = Append(@, v)]
                      /\ f = [q EXCEPT !.task.seen = Append(@, w)]
      BY <1>1, <2>1
    <2>7. IsPair(e) /\ e.store = p.store /\ e.task = [p.task EXCEPT !.seen = Append(@, v)]
      BY <2>6 DEF Beside, IsPair, IsMap
    <2>8. IsPair(f) /\ f.store = q.store /\ f.task = [q.task EXCEPT !.seen = Append(@, w)]
      BY <2>6 DEF Beside, IsPair, IsMap
    <2>3. /\ IsTask(e.task) /\ e.task.rw = p.task.rw /\ e.task.tx = p.task.tx /\ e.task.fields = p.task.fields
      BY <2>7 DEF Beside, IsTask
    <2>4. q.store.slots[k] = p.store.slots[k]
      BY <1>1, <1>2, <2>3 DEF Asks, Same
    <2>5. f.task = e.task
      BY <2>7, <2>8, <2>4, <2>6 DEF GetState, Beside
    <2> QED
      BY <2>7, <2>8, <2>3, <2>5, TaskAbreast
  <1>3. CASE i.op = "SSTORE"
    <2>1. /\ e = [p EXCEPT !.store = SetState(@, Key(i), Word(p.task.tx, p.task.seen))]
          /\ f = [q EXCEPT !.store = SetState(@, Key(i), Word(q.task.tx, q.task.seen))]
      BY <1>3 DEF Effect, Calls
    <2>2. PICK v : v = Word(p.task.tx, p.task.seen)
      OBVIOUS
    <2>3. PICK left, other : /\ left = SetState(p.store, k, v) /\ other = SetState(q.store, k, v)
                             /\ e = [p EXCEPT !.store = left] /\ f = [q EXCEPT !.store = other]
      BY <1>1, <2>1, <2>2 DEF Beside, IsPair, IsMap
    <2>6. IsPair(p) /\ IsPair(q) /\ q.task = p.task
      BY DEF Beside
    <2>4. /\ IsPair(e) /\ e.task = p.task /\ e.store = left
          /\ IsPair(f) /\ f.task = p.task /\ f.store = other
      <3>1. IsPair(e) /\ e.task = p.task /\ e.store = left
        BY <2>3, <2>6 DEF IsPair, IsMap
      <3>2. IsPair(f) /\ f.task = q.task /\ f.store = other
        BY <2>3, <2>6 DEF IsPair, IsMap
      <3> QED
        BY <2>6, <3>1, <3>2
    <2>5. Twins(p.store, left, q.store, other, p.task.rw.writes, p.task.fields)
      BY <1>1, <1>3, <2>3, SetStateTwins DEF Asks, Beside
    <2> QED
      BY <2>4, <2>5 DEF Abreast, Beside
  <1>4. CASE i.op = "CLEAR"
    <2>1. /\ e = [p EXCEPT !.store = SetState(AddRefund(@, IF GetState(@, Key(i)) = Number(0) THEN 0 ELSE ClearRefund),
                                              Key(i), Number(0))]
          /\ f = [q EXCEPT !.store = SetState(AddRefund(@, IF GetState(@, Key(i)) = Number(0) THEN 0 ELSE ClearRefund),
                                              Key(i), Number(0))]
      BY <1>4 DEF Effect, Calls
    <2>2. PICK v : v = Number(0)
      OBVIOUS
    <2>8. PICK gas, gasOther :
            /\ e = [p EXCEPT !.store = SetState(AddRefund(p.store, gas), k, v)]
            /\ f = [q EXCEPT !.store = SetState(AddRefund(q.store, gasOther), k, v)]
      <3>1. PICK gas, gasOther :
              /\ gas = IF GetState(p.store, Key(i)) = Number(0) THEN 0 ELSE ClearRefund
              /\ gasOther = IF GetState(q.store, Key(i)) = Number(0) THEN 0 ELSE ClearRefund
        OBVIOUS
      <3> QED
        BY <1>1, <2>1, <2>2, <3>1 DEF Beside, IsPair, IsMap
    <2>7. \A any : AddRefund(p.store, any) = p.store /\ AddRefund(q.store, any) = q.store
      BY DEF Beside, IsCache, AddRefund
    <2>3. PICK left, other : /\ left = SetState(p.store, k, v) /\ other = SetState(q.store, k, v)
                             /\ e = [p EXCEPT !.store = left] /\ f = [q EXCEPT !.store = other]
      BY <2>7, <2>8
    <2>6. IsPair(p) /\ IsPair(q) /\ q.task = p.task
      BY DEF Beside
    <2>4. /\ IsPair(e) /\ e.task = p.task /\ e.store = left
          /\ IsPair(f) /\ f.task = p.task /\ f.store = other
      <3>1. IsPair(e) /\ e.task = p.task /\ e.store = left
        BY <2>3, <2>6 DEF IsPair, IsMap
      <3>2. IsPair(f) /\ f.task = q.task /\ f.store = other
        BY <2>3, <2>6 DEF IsPair, IsMap
      <3> QED
        BY <2>6, <3>1, <3>2
    <2>5. Twins(p.store, left, q.store, other, p.task.rw.writes, p.task.fields)
      BY <1>1, <1>4, <2>3, SetStateTwins DEF Asks, Beside
    <2> QED
      BY <2>4, <2>5 DEF Abreast, Beside
  <1> QED
    BY <1>2, <1>3, <1>4

\* A failure ends the call, or the execution.
LEMMA FailAbreast ==
    ASSUME NEW p, NEW q, Beside(p, q), NEW e, e = Fail(p), NEW f, f = Fail(q)
    PROVE  Abreast(p, e, q, f) /\ e.store = p.store /\ f.store = q.store
  <1>1. /\ e = [task |-> [p.task EXCEPT !.frames = Front(@), !.undone = @ \/ p.task.rw.writes # {}],
                store |-> p.store]
        /\ f = [task |-> [q.task EXCEPT !.frames = Front(@), !.undone = @ \/ q.task.rw.writes # {}],
                store |-> q.store]
    BY DEF Fail, RevertToSnapshot, Beside, IsCache
  <1>2. /\ IsPair(e) /\ e.store = p.store
        /\ e.task = [p.task EXCEPT !.frames = Front(@), !.undone = @ \/ p.task.rw.writes # {}]
    BY <1>1 DEF IsPair, IsMap
  <1>3. /\ IsPair(f) /\ f.store = q.store
        /\ f.task = [q.task EXCEPT !.frames = Front(@), !.undone = @ \/ q.task.rw.writes # {}]
    BY <1>1 DEF IsPair, IsMap
  <1>4. IsTask(e.task) /\ e.task.tx = p.task.tx /\ e.task.fields = p.task.fields /\ f.task = e.task
    BY <1>2, <1>3 DEF Beside, IsTask
  <1> QED
    BY <1>2, <1>3, <1>4, TaskAbreast

\* The frames of a full cache: there is nothing to go back to.
\* The instructions that begin and end calls.
LEMMA FrameAbreast ==
    ASSUME NEW p, NEW q, Beside(p, q), NEW i, Asks(p.task, i),
           i.op \in Calls \cup {"RETURN", "REVERT", "JUMPI"},
           NEW e, e = Effect(p, i), NEW f, f = Effect(q, i)
    PROVE  Abreast(p, e, q, f)
  <1>1. CASE i.op \in Calls
    <2>1. e = Call(p, i) /\ f = Call(q, i) /\ i.account \in Addresses
      BY <1>1 DEF Effect, Calls, Asks
    <2>2. Callable(q.store, i.account) = Callable(p.store, i.account)
      BY <2>1, AskedAlike DEF Beside
    <2>3. PICK called : called = [account |-> i.account, snapshot |-> "none"]
      OBVIOUS
    <2>4. CASE Callable(p.store, i.account)
      <3>1. e = [p EXCEPT !.task.frames = Append(@, called)] /\ f = [q EXCEPT !.task.frames = Append(@, called)]
        BY <2>1, <2>2, <2>3, <2>4 DEF Call, Snapshot, Beside, IsCache
      <3>2. /\ IsPair(e) /\ e.store = p.store /\ e.task = [p.task EXCEPT !.frames = Append(@, called)]
            /\ IsPair(f) /\ f.store = q.store /\ f.task = [q.task EXCEPT !.frames = Append(@, called)]
        BY <3>1 DEF Beside, IsPair, IsMap
      <3>3. IsTask(e.task) /\ e.task.tx = p.task.tx /\ e.task.fields = p.task.fields /\ f.task = e.task
        BY <3>2 DEF Beside, IsTask
      <3> QED
        BY <3>2, <3>3, TaskAbreast
    <2>5. CASE ~Callable(p.store, i.account)
      <3>0. Touch(p.store, i) = p.store /\ Touch(q.store, i) = q.store
        BY DEF Touch, AddBalance, Beside, IsCache
      <3>1. e = [p EXCEPT !.task.pc = @ + i.skip] /\ f = [q EXCEPT !.task.pc = @ + i.skip]
        BY <2>1, <2>2, <2>5, <3>0 DEF Call, Beside, IsPair, IsMap
      <3>2. /\ IsPair(e) /\ e.store = p.store /\ e.task = [p.task EXCEPT !.pc = @ + i.skip]
            /\ IsPair(f) /\ f.store = q.store /\ f.task = [q.task EXCEPT !.pc = @ + i.skip]
        BY <3>1 DEF Beside, IsPair, IsMap
      <3>3. IsTask(e.task) /\ e.task.tx = p.task.tx /\ e.task.fields = p.task.fields /\ f.task = e.task
        BY <3>2 DEF Beside, IsTask
      <3> QED
        BY <3>2, <3>3, TaskAbreast
    <2> QED
      BY <2>4, <2>5
  <1>2. CASE i.op = "RETURN"
    <2>1. e = [p EXCEPT !.task.frames = Front(@)] /\ f = [q EXCEPT !.task.frames = Front(@)]
      BY <1>2 DEF Effect, Calls
    <2>2. /\ IsPair(e) /\ e.store = p.store /\ e.task = [p.task EXCEPT !.frames = Front(@)]
          /\ IsPair(f) /\ f.store = q.store /\ f.task = [q.task EXCEPT !.frames = Front(@)]
      BY <2>1 DEF Beside, IsPair, IsMap
    <2>3. IsTask(e.task) /\ e.task.tx = p.task.tx /\ e.task.fields = p.task.fields /\ f.task = e.task
      BY <2>2 DEF Beside, IsTask
    <2> QED
      BY <2>2, <2>3, TaskAbreast
  <1>3. CASE i.op = "REVERT"
    <2>1. e = Fail(p) /\ f = Fail(q)
      BY <1>3 DEF Effect, Calls
    <2> QED
      BY <2>1, FailAbreast
  <1>4. CASE i.op = "JUMPI"
    <2>1. CASE Last(p.task.seen) # Number(0)
      <3>1. e = p /\ f = q
        BY <1>4, <2>1 DEF Effect, Calls, Beside
      <3> QED
        BY <3>1, TaskAbreast DEF Beside
    <2>2. CASE Last(p.task.seen) = Number(0)
      <3>1. e = [p EXCEPT !.task.pc = @ + i.skip] /\ f = [q EXCEPT !.task.pc = @ + i.skip]
        BY <1>4, <2>2 DEF Effect, Calls, Beside
      <3>2. /\ IsPair(e) /\ e.store = p.store /\ e.task = [p.task EXCEPT !.pc = @ + i.skip]
            /\ IsPair(f) /\ f.store = q.store /\ f.task = [q.task EXCEPT !.pc = @ + i.skip]
        BY <3>1 DEF Beside, IsPair, IsMap
      <3>3. IsTask(e.task) /\ e.task.tx = p.task.tx /\ e.task.fields = p.task.fields /\ f.task = e.task
        BY <3>2 DEF Beside, IsTask
      <3> QED
        BY <3>2, <3>3, TaskAbreast
    <2> QED
      BY <2>1, <2>2
  <1> QED
    BY <1>1, <1>2, <1>3, <1>4

\* The instructions that look at the fields of accounts.
LEMMA FieldsAbreast ==
    ASSUME NEW p, NEW q, Beside(p, q), NEW i, Asks(p.task, i), i.op \in {"BALANCE", "SELFDESTRUCT", "MOVE"},
           NEW e, e = Effect(p, i), NEW f, f = Effect(q, i),
           Same(p.store, q.store, Touched(e.task.rw), e.task.fields)
    PROVE  Abreast(p, e, q, f)
  <1>1. PICK a, self : a = i.account /\ self = Self(p.task)
    OBVIOUS
  <1>2. a \in Addresses /\ self \in Addresses /\ Self(q.task) = self
    BY <1>1 DEF Asks, Beside
  <1>3. CASE i.op = "BALANCE"
    <2>1. /\ e = [p EXCEPT !.task.seen = Append(@, Number(p.store.accounts[i.account].balance)),
                           !.task.fields = @ \cup {i.account}]
          /\ f = [q EXCEPT !.task.seen = Append(@, Number(q.store.accounts[i.account].balance)),
                           !.task.fields = @ \cup {i.account}]
      BY <1>3 DEF Effect, Calls, Beside, IsPair, IsMap, IsTask
    <2>2. PICK v, w : v = Number(p.store.accounts[a].balance) /\ w = Number(q.store.accounts[a].balance)
      OBVIOUS
    <2>7. /\ e = [p EXCEPT !.task.seen = Append(@, v), !.task.fields = @ \cup {a}]
          /\ f = [q EXCEPT !.task.seen = Append(@, w), !.task.fields = @ \cup {a}]
      BY <1>1, <2>1, <2>2, Zenon
    <2>3. /\ IsPair(e) /\ e.store = p.store
          /\ e.task = [p.task EXCEPT !.seen = Append(@, v), !.fields = @ \cup {a}]
      BY <2>7 DEF Beside, IsPair, IsMap, IsTask
    <2>4. /\ IsPair(f) /\ f.store = q.store
          /\ f.task = [q.task EXCEPT !.seen = Append(@, w), !.fields = @ \cup {a}]
      BY <2>7 DEF Beside, IsPair, IsMap, IsTask
    <2>5. IsTask(e.task) /\ e.task.tx = p.task.tx /\ e.task.fields = p.task.fields \cup {a}
      BY <2>3 DEF Beside, IsTask
    <2>6. v = w
      BY <1>2, <2>2, <2>5 DEF Same
    <2> QED
      BY <2>3, <2>4, <2>5, <2>6, TaskAbreast DEF Beside
  <1>4. CASE i.op = "SELFDESTRUCT"
    <2>1. /\ e = [p EXCEPT !.task.loaded = p.store.accounts[i.account].balance,
                           !.task.amount = p.store.accounts[Self(p.task)].balance,
                           !.task.fields = @ \cup {i.account, Self(p.task)}]
          /\ f = [q EXCEPT !.task.loaded = q.store.accounts[i.account].balance,
                           !.task.amount = q.store.accounts[Self(q.task)].balance,
                           !.task.fields = @ \cup {i.account, Self(q.task)}]
      BY <1>4 DEF Effect, Calls
    <2>2. PICK v, w, x, y :
            /\ v = p.store.accounts[a].balance /\ w = q.store.accounts[a].balance
            /\ x = p.store.accounts[self].balance /\ y = q.store.accounts[self].balance
      OBVIOUS
    <2>7. /\ e = [p EXCEPT !.task.loaded = v, !.task.amount = x, !.task.fields = @ \cup {a, self}]
          /\ f = [q EXCEPT !.task.loaded = w, !.task.amount = y, !.task.fields = @ \cup {a, self}]
      BY <1>1, <1>2, <2>1, <2>2, Zenon
    <2>3. /\ IsPair(e) /\ e.store = p.store
          /\ e.task = [p.task EXCEPT !.loaded = v, !.amount = x, !.fields = @ \cup {a, self}]
      BY <2>7 DEF Beside, IsPair, IsMap, IsTask
    <2>4. /\ IsPair(f) /\ f.store = q.store
          /\ f.task = [q.task EXCEPT !.loaded = w, !.amount = y, !.fields = @ \cup {a, self}]
      BY <2>7 DEF Beside, IsPair, IsMap, IsTask
    <2>5. IsTask(e.task) /\ e.task.tx = p.task.tx /\ e.task.fields = p.task.fields \cup {a, self}
      BY <2>3 DEF Beside, IsTask
    <2>6. v = w /\ x = y
      BY <1>2, <2>2, <2>5 DEF Same
    <2> QED
      BY <2>3, <2>4, <2>5, <2>6, TaskAbreast DEF Beside
  <1>5. CASE i.op = "MOVE"
    <2>1. /\ e = [p EXCEPT !.store = SelfDestruct(AddBalance(@, i.account, p.task.loaded, p.task.amount), Self(p.task)),
                           !.task.fields = @ \cup {i.account, Self(p.task)}]
          /\ f = [q EXCEPT !.store = SelfDestruct(AddBalance(@, i.account, q.task.loaded, q.task.amount), Self(q.task)),
                           !.task.fields = @ \cup {i.account, Self(q.task)}]
      BY <1>5 DEF Effect, Calls
    <2>2. PICK loaded, amount : loaded = p.task.loaded /\ amount = p.task.amount
      OBVIOUS
    <2>3. PICK paid, paidOther : /\ paid = AddBalance(p.store, a, loaded, amount)
                                 /\ paidOther = AddBalance(q.store, a, loaded, amount)
      OBVIOUS
    <2>4. PICK left, other : left = SelfDestruct(paid, self) /\ other = SelfDestruct(paidOther, self)
      OBVIOUS
    <2>5. /\ e = [p EXCEPT !.store = left, !.task.fields = @ \cup {a, self}]
          /\ f = [q EXCEPT !.store = other, !.task.fields = @ \cup {a, self}]
      BY <1>1, <1>2, <2>1, <2>2, <2>3, <2>4 DEF Beside, IsPair, IsMap
    <2>6. /\ IsPair(e) /\ e.store = left /\ e.task = [p.task EXCEPT !.fields = @ \cup {a, self}]
          /\ IsPair(f) /\ f.store = other /\ f.task = [q.task EXCEPT !.fields = @ \cup {a, self}]
      BY <2>5 DEF Beside, IsPair, IsMap
    <2>7. /\ IsTask(e.task) /\ e.task.tx = p.task.tx /\ e.task.fields = p.task.fields \cup {a, self}
          /\ f.task = e.task
      BY <2>6 DEF Beside, IsTask
    <2>8. PICK keys, accounts : keys = e.task.rw.writes /\ accounts = e.task.fields
      OBVIOUS
    <2>9. Twins(p.store, paid, q.store, paidOther, keys, accounts)
      BY <1>2, <2>3, <2>7, <2>8, BalanceTwins DEF Beside
    <2>10. Twins(paid, left, paidOther, other, keys, accounts)
      <3>1. IsCache(paid) /\ IsCache(paidOther)
        BY <2>9 DEF Twins, ChangedIn
      <3> QED
        BY <1>2, <2>4, <2>7, <2>8, <3>1, SelfDestructTwins
    <2>11. Twins(p.store, left, q.store, other, keys, accounts)
      BY <2>9, <2>10, TwinsInTurn
    <2> QED
      BY <2>6, <2>7, <2>8, <2>11 DEF Abreast
  <1> QED
    BY <1>3, <1>4, <1>5

\* Every instruction, on two caches, is one of these.
LEMMA EffectAbreast ==
    ASSUME NEW p, NEW q, Beside(p, q), NEW i, i.op \in Instructions, Asks(p.task, i),
           NEW e, e = Effect(p, i), NEW f, f = Effect(q, i),
           Same(p.store, q.store, Touched(e.task.rw), e.task.fields)
    PROVE  Abreast(p, e, q, f)
  <1>1. \/ i.op \in {"SLOAD", "SSTORE", "CLEAR"} \/ i.op \in {"BALANCE", "SELFDESTRUCT", "MOVE"}
        \/ i.op \in Calls \cup {"RETURN", "REVERT", "JUMPI"}
    BY DEF Instructions, Calls
  <1> QED
    BY <1>1, StorageAbreast, FieldsAbreast, FrameAbreast

LEMMA RefundKeepsFields ==
    ASSUME NEW p, IsPair(p), IsTask(p.task), NEW e, e = RefundGas(p)
    PROVE  e.task.fields = p.task.fields
  <1>1. PICK loaded, r : /\ loaded = p.store.accounts[p.task.msg.from].balance
                         /\ r = Refund(p.task.msg.limit - p.task.gas, p.store.refund)
    OBVIOUS
  <1>2. e = [p EXCEPT !.task.gas = @ + Refund(p.task.msg.limit - p.task.gas, p.store.refund),
                      !.task.loaded = p.store.accounts[p.task.msg.from].balance,
                      !.task.frames = <<>>, !.task.stage = "credit"]
    BY DEF RefundGas
  <1>3. e = [p EXCEPT !.task.gas = @ + r, !.task.loaded = loaded, !.task.frames = <<>>, !.task.stage = "credit"]
    BY <1>1, <1>2, Zenon
  <1>4. e.task = [p.task EXCEPT !.gas = @ + r, !.loaded = loaded, !.frames = <<>>, !.stage = "credit"]
    BY <1>3 DEF IsPair, IsMap, IsTask
  <1> QED
    BY <1>4 DEF IsTask

\* The gas that is left goes back, on two caches.
LEMMA RefundAbreast ==
    ASSUME NEW p, NEW q, Beside(p, q), p.task.msg.from \in p.task.fields \cap Addresses,
           NEW e, e = RefundGas(p), NEW f, f = RefundGas(q),
           Same(p.store, q.store, {}, p.task.fields)
    PROVE  Abreast(p, e, q, f) /\ e.task.stage = "credit" /\ e.task.rw = p.task.rw /\ e.task.msg = p.task.msg
  <1>1. PICK loaded, r : /\ loaded = p.store.accounts[p.task.msg.from].balance
                         /\ r = Refund(p.task.msg.limit - p.task.gas, 0)
    OBVIOUS
  <1>2. q.store.accounts[p.task.msg.from].balance = loaded /\ p.store.refund = 0 /\ q.store.refund = 0
    BY <1>1 DEF Same, Beside, IsCache
  <1>3. e = [p EXCEPT !.task.gas = @ + Refund(p.task.msg.limit - p.task.gas, p.store.refund),
                      !.task.loaded = p.store.accounts[p.task.msg.from].balance,
                      !.task.frames = <<>>, !.task.stage = "credit"]
    BY DEF RefundGas
  <1>4. f = [q EXCEPT !.task.gas = @ + Refund(q.task.msg.limit - q.task.gas, q.store.refund),
                      !.task.loaded = q.store.accounts[q.task.msg.from].balance,
                      !.task.frames = <<>>, !.task.stage = "credit"]
    BY DEF RefundGas
  <1>5. /\ e = [p EXCEPT !.task.gas = @ + r, !.task.loaded = loaded, !.task.frames = <<>>, !.task.stage = "credit"]
        /\ f = [q EXCEPT !.task.gas = @ + r, !.task.loaded = loaded, !.task.frames = <<>>, !.task.stage = "credit"]
    <2>1. q.task = p.task
      BY DEF Beside
    <2> QED
      BY <1>1, <1>2, <1>3, <1>4, <2>1, Zenon
  <1>6. /\ IsPair(e) /\ e.store = p.store
        /\ e.task = [p.task EXCEPT !.gas = @ + r, !.loaded = loaded, !.frames = <<>>, !.stage = "credit"]
    BY <1>5 DEF Beside, IsPair, IsMap, IsTask
  <1>7. /\ IsPair(f) /\ f.store = q.store
        /\ f.task = [q.task EXCEPT !.gas = @ + r, !.loaded = loaded, !.frames = <<>>, !.stage = "credit"]
    BY <1>5 DEF Beside, IsPair, IsMap, IsTask
  <1>8. /\ IsTask(e.task) /\ e.task.tx = p.task.tx /\ e.task.fields = p.task.fields
        /\ e.task.stage = "credit" /\ e.task.rw = p.task.rw /\ e.task.msg = p.task.msg
    BY <1>6 DEF Beside, IsTask
  <1>9. f.task = e.task
    BY <1>6, <1>7 DEF Beside
  <1> QED
    BY <1>6, <1>7, <1>8, <1>9, TaskAbreast

\* What an instruction records is the same on both.
LEMMA RecordedAlike ==
    ASSUME NEW store, NEW other, IsCache(store), IsCache(other), Alike(store, other),
           NEW i, IsInstruction(i), NEW self
    PROVE  Recorded(i, self, Asked(other, i)) = Recorded(i, self, Asked(store, i))
  <1>1. CASE i.op \in Calls
    <2>1. i.account \in Addresses
      BY <1>1 DEF IsInstruction, Calls
    <2> QED
      BY <2>1, AskedAlike
  <1>2. CASE i.op \notin Calls
    <2>1. i.op \notin {"CALL", "STATICCALL"}
      BY <1>2 DEF Calls
    <2> QED
      BY <2>1 DEF Recorded
  <1> QED
    BY <1>1, <1>2

LEMMA StorageIsRecorded ==
    ASSUME NEW i, IsInstruction(i), NEW self, NEW asked
    PROVE  /\ i.op \in {"SLOAD", "SSTORE", "CLEAR"} => Key(i) \in Keys /\ Key(i) \in Recorded(i, self, asked).reads
           /\ i.op \in {"SSTORE", "CLEAR"} => Key(i) \in Recorded(i, self, asked).writes
  BY DEF IsInstruction, Key, Keys, Recorded

\* An execution goes on: it touches no less, and is nearer to its end.
Grown(ran, next) ==
    /\ next.msg = ran.msg
    /\ ran.rw.reads \subseteq next.rw.reads /\ ran.rw.writes \subseteq next.rw.writes

RunOn(ran, next) ==
    \/ next.stage = "credit"
    \/ /\ next.stage = ran.stage
       /\ next.pc \in Nat /\ ran.pc < next.pc /\ next.pc <= Len(ran.msg.program) + 1

Runs(ran) ==
    /\ WellFormed(ran.msg) /\ Position(ran) /\ FramesInv(ran.frames, TRUE)
    /\ ran.gas \in Nat /\ ran.msg.from \in ran.fields /\ ran.pc <= Len(ran.msg.program) + 1

\* An instruction has been recorded and paid for.
Paid(ran, next, more) ==
    /\ IsTask(next) /\ next.tx = ran.tx /\ next.fields = ran.fields /\ next.rw = Add(ran.rw, more)
    /\ next.frames = ran.frames /\ next.msg = ran.msg /\ next.pc = ran.pc + 1 /\ next.stage = ran.stage

\* A step over an instruction, or over the inner call or the code that it skips.
LEMMA NextPosition ==
    ASSUME NEW ran, WellFormed(ran.msg), Position(ran), ran.pc <= Len(ran.msg.program),
           NEW i, i = Instruction(ran), NEW pc,
           pc = ran.pc + 1 \/ (i.op \in Calls \cup {"JUMPI"} /\ pc = ran.pc + 1 + i.skip)
    PROVE  pc \in Nat /\ ran.pc < pc /\ pc <= Len(ran.msg.program) + 1
  <1>1. Len(ran.msg.program) \in Nat /\ ran.pc \in Nat
    BY ProgramFacts DEF Position
  <1>2. i.op \in Calls \cup {"JUMPI"} => i.skip \in Nat /\ ran.pc + i.skip <= Len(ran.msg.program)
    <2>1. CASE ran.pc = 0
      BY <1>1, <2>1, InstructionFacts DEF Calls
    <2>2. CASE ran.pc # 0
      <3>1. i = ran.msg.program[ran.pc] /\ ran.pc \in DOMAIN ran.msg.program
        BY <2>2, InstructionFacts
      <3> QED
        BY <3>1 DEF WellFormed
    <2> QED
      BY <2>1, <2>2
  <1> QED
    BY <1>1, <1>2

LEMMA SelfDependsOn ==
    ASSUME NEW ran, NEW next, next.frames = ran.frames, next.msg = ran.msg
    PROVE  Self(next) = Self(ran)
  BY DEF Self

LEMMA AddedAsks ==
    ASSUME NEW i, IsInstruction(i), NEW self, NEW asked, NEW rw, NEW ran, Self(ran) \in Addresses,
           ran.rw = Add(rw, Recorded(i, self, asked))
    PROVE  Asks(ran, i)
  <1>1. PICK more : more = Recorded(i, self, asked)
    OBVIOUS
  <1>2. /\ i.op \in {"SLOAD", "SSTORE", "CLEAR"} => Key(i) \in Keys /\ Key(i) \in more.reads
        /\ i.op \in {"SSTORE", "CLEAR"} => Key(i) \in more.writes
    BY <1>1, StorageIsRecorded
  <1>3. ran.rw.reads = rw.reads \cup more.reads /\ ran.rw.writes = rw.writes \cup more.writes
    BY <1>1 DEF Add
  <1> QED
    BY <1>2, <1>3 DEF Asks, IsInstruction, Touched

LEMMA PaidAbreast ==
    ASSUME NEW p, NEW q, Beside(p, q), Runs(p.task), p.task.pc <= Len(p.task.msg.program),
           NEW i, i = Instruction(p.task),
           NEW more, more = Recorded(i, Self(p.task), Asked(p.store, i)),
           NEW paid, NEW other, Beside(paid, other), paid.store = p.store, other.store = q.store,
           Paid(p.task, paid.task, more),
           NEW e, e = Effect(paid, i), NEW f, f = Effect(other, i),
           Same(p.store, q.store, Touched(e.task.rw), e.task.fields)
    PROVE  Abreast(p, e, q, f) /\ Grown(p.task, e.task) /\ RunOn(p.task, e.task)
  <1>1. PICK ran, next : ran = p.task /\ next = paid.task
    OBVIOUS
  <1>2. Runs(ran) /\ Paid(ran, next, more) /\ i = Instruction(ran) /\ ran.pc <= Len(ran.msg.program)
    BY <1>1
  <1>3. IsInstruction(i) /\ (ran.pc = 0 => i.op \in Calls) /\ (ran.pc # 0 => Len(ran.frames) >= 1)
    BY <1>2, InstructionFacts DEF Runs
  <1>4. Self(ran) \in Addresses /\ Self(next) = Self(ran)
    <2>1. ran.msg.from \in Addresses
      BY <1>2, ProgramFacts DEF Runs
    <2>2. Self(ran) \in Addresses
      BY <1>2, <2>1, SelfIsAccount DEF Runs
    <2> QED
      BY <1>2, <2>2, SelfDependsOn DEF Paid
  <1>5. Asks(next, i)
    <2>1. PICK self, asked, rw : /\ self = Self(p.task) /\ asked = Asked(p.store, i) /\ rw = ran.rw
                                 /\ more = Recorded(i, self, asked)
      OBVIOUS
    <2>2. next.rw = Add(rw, Recorded(i, self, asked)) /\ Self(next) \in Addresses
      BY <1>2, <1>4, <2>1 DEF Paid
    <2> QED
      BY <1>3, <2>2, AddedAsks
  <1>6. Abreast(paid, e, other, f)
    <2>1. Same(paid.store, other.store, Touched(e.task.rw), e.task.fields)
      OBVIOUS
    <2>2. Asks(paid.task, i) /\ i.op \in Instructions
      BY <1>1, <1>3, <1>5 DEF IsInstruction
    <2> QED
      BY <2>1, <2>2, EffectAbreast
  <1>7. Abreast(p, e, q, f)
    BY <1>1, <1>2, <1>6 DEF Abreast, Paid
  <1>8. IsRun(paid) /\ paid.store.shared = TRUE
    BY CacheIsState DEF Beside, IsRun, IsPair, IsMap
  <1>9. Kept(paid, e) /\ Outcome(paid, e, i)
    <2>1. FramesInv(paid.task.frames, paid.store.shared)
      BY <1>1, <1>2, <1>8 DEF Runs, Paid
    <2>2. i.op \in {"RETURN", "REVERT"} => Len(paid.task.frames) >= 1
      BY <1>1, <1>2, <1>3 DEF Calls, Paid
    <2>3. i.op \in Instructions /\ (i.op \in Calls => i.account \in Addresses)
      BY <1>3 DEF IsInstruction, Calls
    <2> QED
      BY <1>8, <2>1, <2>2, <2>3, EffectKeeps
  <1>10. /\ e.task.msg = ran.msg /\ e.task.stage = ran.stage /\ e.task.rw = Add(ran.rw, more)
         /\ e.task.pc = ran.pc + 1 \/ (i.op \in Calls \cup {"JUMPI"} /\ e.task.pc = ran.pc + 1 + i.skip)
    BY <1>1, <1>2, <1>9 DEF Kept, Paid, Outcome
  <1>11. Grown(p.task, e.task)
    BY <1>1, <1>10 DEF Grown, Add
  <1>12. RunOn(p.task, e.task)
    <2>1. PICK pc : pc = e.task.pc
      OBVIOUS
    <2>2. pc \in Nat /\ ran.pc < pc /\ pc <= Len(ran.msg.program) + 1
      BY <1>2, <1>10, <2>1, NextPosition DEF Runs
    <2> QED
      BY <1>1, <1>10, <2>1, <2>2 DEF RunOn
  <1> QED
    BY <1>7, <1>11, <1>12

LEMMA RunAbreast ==
    ASSUME NEW p, NEW q, Beside(p, q), Runs(p.task), NEW e, e = Run(p), NEW f, f = Run(q),
           Same(p.store, q.store, Touched(e.task.rw), e.task.fields)
    PROVE  Abreast(p, e, q, f) /\ Grown(p.task, e.task) /\ RunOn(p.task, e.task)
  <1>1. PICK i, cost, self, named, more :
            /\ i = Instruction(p.task) /\ cost = Cost(i, p.task.pc) /\ self = Self(p.task)
            /\ named = Traced(i, self) /\ more = Recorded(i, self, Asked(p.store, i))
    OBVIOUS
  <1>2. q.task = p.task /\ p.task.msg.from \in p.task.fields \cap Addresses
    BY ProgramFacts DEF Beside, Runs
  <1>3. CASE p.task.pc > Len(p.task.msg.program)
    <2>1. e = RefundGas(p) /\ f = RefundGas(q)
      BY <1>2, <1>3 DEF Run
    <2>2. Same(p.store, q.store, {}, p.task.fields)
      <3>1. e.task.fields = p.task.fields
        BY <2>1, RefundKeepsFields DEF Beside
      <3> QED
        BY <3>1 DEF Same
    <2>3. Abreast(p, e, q, f) /\ e.task.stage = "credit" /\ e.task.rw = p.task.rw /\ e.task.msg = p.task.msg
      BY <1>2, <2>1, <2>2, RefundAbreast
    <2> QED
      BY <2>3 DEF Grown, RunOn
  <1>4. CASE p.task.pc <= Len(p.task.msg.program)
    <2>1. ~(p.task.pc > Len(p.task.msg.program))
      BY <1>4, ProgramFacts DEF Runs, Position
    <2>2. IsInstruction(i)
      BY <1>1, <1>4, InstructionFacts DEF Runs
    <2>3. more = Recorded(i, self, Asked(q.store, i))
      BY <1>1, <2>2, RecordedAlike DEF Beside
    <2>4. CASE p.task.gas >= cost
      <3>1. PICK paid, other :
              /\ paid = [[p EXCEPT !.task.traced = Add(@, named)]
                            EXCEPT !.task.gas = @ - cost, !.task.pc = @ + 1, !.task.rw = Add(@, more)]
              /\ other = [[q EXCEPT !.task.traced = Add(@, named)]
                            EXCEPT !.task.gas = @ - cost, !.task.pc = @ + 1, !.task.rw = Add(@, more)]
        OBVIOUS
      <3>2. e = Effect(paid, i)
        BY <1>1, <1>2, <2>1, <2>4, <3>1 DEF Run
      <3>3. f = Effect(other, i)
        BY <1>1, <1>2, <2>1, <2>3, <2>4, <3>1 DEF Run
      <3>4. /\ IsPair(paid) /\ paid.store = p.store
            /\ paid.task = [[p.task EXCEPT !.traced = Add(@, named)]
                                EXCEPT !.gas = @ - cost, !.pc = @ + 1, !.rw = Add(@, more)]
        BY <3>1 DEF Beside, IsPair, IsMap, IsTask
      <3>5. /\ IsPair(other) /\ other.store = q.store
            /\ other.task = [[q.task EXCEPT !.traced = Add(@, named)]
                                EXCEPT !.gas = @ - cost, !.pc = @ + 1, !.rw = Add(@, more)]
        BY <3>1 DEF Beside, IsPair, IsMap, IsTask
      <3>6. Paid(p.task, paid.task, more)
        BY <3>4 DEF Beside, IsTask, Paid
      <3>7. Beside(paid, other)
        BY <3>4, <3>5, <3>6 DEF Beside, Paid
      <3> QED
        BY <1>1, <1>4, <3>2, <3>3, <3>4, <3>5, <3>6, <3>7, PaidAbreast
    <2>5. CASE ~(p.task.gas >= cost)
      <3>1. PICK short, other :
              /\ short = [[p EXCEPT !.task.traced = Add(@, named)]
                            EXCEPT !.task.gas = 0, !.task.frames = SubSeq(@, 1, 1)]
              /\ other = [[q EXCEPT !.task.traced = Add(@, named)]
                            EXCEPT !.task.gas = 0, !.task.frames = SubSeq(@, 1, 1)]
        OBVIOUS
      <3>2. e = RefundGas(Fail(short)) /\ f = RefundGas(Fail(other))
        BY <1>1, <1>2, <2>1, <2>5, <3>1 DEF Run
      <3>3. /\ IsPair(short) /\ short.store = p.store
            /\ short.task = [[p.task EXCEPT !.traced = Add(@, named)]
                                EXCEPT !.gas = 0, !.frames = SubSeq(@, 1, 1)]
        BY <3>1 DEF Beside, IsPair, IsMap, IsTask
      <3>4. /\ IsPair(other) /\ other.store = q.store
            /\ other.task = [[q.task EXCEPT !.traced = Add(@, named)]
                                EXCEPT !.gas = 0, !.frames = SubSeq(@, 1, 1)]
        BY <3>1 DEF Beside, IsPair, IsMap, IsTask
      <3>5. /\ IsTask(short.task) /\ short.task.tx = p.task.tx /\ short.task.fields = p.task.fields
            /\ short.task.rw = p.task.rw /\ short.task.msg = p.task.msg /\ other.task = short.task
        BY <3>3, <3>4 DEF Beside, IsTask
      <3>6. Beside(short, other)
        BY <3>3, <3>4, <3>5 DEF Beside
      <3>7. PICK failed, failedOther : failed = Fail(short) /\ failedOther = Fail(other)
        OBVIOUS
      <3>8. /\ Abreast(short, failed, other, failedOther)
            /\ failed.store = p.store /\ failedOther.store = q.store
        BY <3>3, <3>4, <3>6, <3>7, FailAbreast
      <3>9. /\ failed.task.fields = p.task.fields /\ failed.task.rw = p.task.rw /\ failed.task.msg = p.task.msg
            /\ failed.task.tx = p.task.tx
        <4>1. failed.task = [short.task EXCEPT !.frames = Front(@), !.undone = @ \/ short.task.rw.writes # {}]
          BY <3>7 DEF Fail
        <4> QED
          BY <3>5, <4>1 DEF IsTask
      <3>10. Beside(failed, failedOther)
        BY <3>8 DEF Abreast, Beside
      <3>11. e = RefundGas(failed) /\ f = RefundGas(failedOther)
        BY <3>2, <3>7
      <3>12. Same(failed.store, failedOther.store, {}, failed.task.fields)
        <4>1. e.task.fields = failed.task.fields
          BY <3>10, <3>11, RefundKeepsFields DEF Beside
        <4> QED
          BY <3>8, <4>1 DEF Same
      <3>13. /\ Abreast(failed, e, failedOther, f) /\ e.task.stage = "credit"
             /\ e.task.rw = failed.task.rw /\ e.task.msg = failed.task.msg
        BY <1>2, <3>9, <3>10, <3>11, <3>12, RefundAbreast
      <3>14. Abreast(p, e, q, f)
        BY <3>8, <3>9, <3>13 DEF Abreast
      <3> QED
        BY <3>9, <3>13, <3>14 DEF Grown, RunOn
    <2> QED
      BY <2>4, <2>5
  <1>5. p.task.pc \in Nat /\ Len(p.task.msg.program) \in Nat
    BY ProgramFacts DEF Runs, Position
  <1> QED
    BY <1>3, <1>4, <1>5

LEMMA TwinsStaySame ==
    ASSUME NEW store, NEW left, NEW other, NEW leftOther, NEW keys, NEW accounts,
           Twins(store, left, other, leftOther, keys, accounts),
           NEW named, NEW used, Same(store, other, named, used)
    PROVE  Same(left, leftOther, named, used)
  BY DEF Twins, ChangedIn, Same

(***************************************************************************)
(* A step, on two full caches.                                             *)
(***************************************************************************)
Going(ran) ==
    /\ ran.stage \in {"setNonce", "run", "credit"} => ran.msg.from \in ran.fields
    /\ ran.stage = "run" => ran.pc <= Len(ran.msg.program) + 1

\* How many steps are left at most.
Remaining(ran) ==
    LET last == Len(ran.msg.program)
    IN  CASE ran.stage = "check" -> last + 4
          [] ran.stage = "setNonce" -> last + 3
          [] ran.stage = "run" -> last + 3 - ran.pc
          [] ran.stage = "credit" -> 1
          [] OTHER -> 0

Nearer(ran, next) == Going(next) /\ Remaining(next) \in Nat /\ Remaining(next) < Remaining(ran)

\* The first of the steps, on two caches.
LEMMA CheckAbreast ==
    ASSUME NEW p, NEW q, Beside(p, q), WellFormed(p.task.msg), p.task.stage = "check",
           NEW e, e = Check(p), NEW f, f = Check(q),
           Same(p.store, q.store, Touched(e.task.rw), e.task.fields)
    PROVE  Abreast(p, e, q, f) /\ Grown(p.task, e.task) /\ Nearer(p.task, e.task)
  <1>1. PICK from, v, w : /\ from = p.task.msg.from
                          /\ v = p.store.accounts[from].nonce /\ w = q.store.accounts[from].nonce
    OBVIOUS
  <1>2. q.task = p.task /\ from \in Addresses /\ Len(p.task.msg.program) \in Nat
    BY <1>1, ProgramFacts DEF Beside
  <1>3. PICK ok : ok \in BOOLEAN /\
            (ok <=> /\ p.task.msg.valid /\ Prechecked(p) /\ p.task.pool >= p.task.msg.limit
                    /\ p.task.msg.limit >= IntrinsicGas)
    OBVIOUS
  <1>4. CASE ok
    <2>1. /\ e = [p EXCEPT !.task.gas = p.task.msg.limit - IntrinsicGas, !.task.pool = @ - p.task.msg.limit,
                           !.task.loaded = p.store.accounts[p.task.msg.from].nonce,
                           !.task.fields = @ \cup {p.task.msg.from}, !.task.stage = "setNonce"]
      BY <1>3, <1>4 DEF Check
    <2>2. /\ f = [q EXCEPT !.task.gas = q.task.msg.limit - IntrinsicGas, !.task.pool = @ - q.task.msg.limit,
                           !.task.loaded = q.store.accounts[q.task.msg.from].nonce,
                           !.task.fields = @ \cup {q.task.msg.from}, !.task.stage = "setNonce"]
      BY <1>2, <1>3, <1>4 DEF Check, Prechecked
    <2>3. PICK gas, limit : gas = p.task.msg.limit - IntrinsicGas /\ limit = p.task.msg.limit
      OBVIOUS
    <2>4. /\ e = [p EXCEPT !.task.gas = gas, !.task.pool = @ - limit, !.task.loaded = v,
                           !.task.fields = @ \cup {from}, !.task.stage = "setNonce"]
          /\ f = [q EXCEPT !.task.gas = gas, !.task.pool = @ - limit, !.task.loaded = w,
                           !.task.fields = @ \cup {from}, !.task.stage = "setNonce"]
      BY <1>1, <1>2, <2>1, <2>2, <2>3, Zenon
    <2>5. /\ IsPair(e) /\ e.store = p.store
          /\ e.task = [p.task EXCEPT !.gas = gas, !.pool = @ - limit, !.loaded = v,
                                     !.fields = @ \cup {from}, !.stage = "setNonce"]
      BY <2>4 DEF Beside, IsPair, IsMap, IsTask
    <2>6. /\ IsPair(f) /\ f.store = q.store
          /\ f.task = [q.task EXCEPT !.gas = gas, !.pool = @ - limit, !.loaded = w,
                                     !.fields = @ \cup {from}, !.stage = "setNonce"]
      BY <2>4 DEF Beside, IsPair, IsMap, IsTask
    <2>7. /\ IsTask(e.task) /\ e.task.tx = p.task.tx /\ e.task.fields = p.task.fields \cup {from}
          /\ e.task.msg = p.task.msg /\ e.task.rw = p.task.rw /\ e.task.stage = "setNonce"
      BY <2>5 DEF Beside, IsTask
    <2>8. v = w
      BY <1>1, <1>2, <2>7 DEF Same
    <2>9. Abreast(p, e, q, f)
      BY <1>2, <2>5, <2>6, <2>7, <2>8, TaskAbreast
    <2>10. Remaining(p.task) = Len(p.task.msg.program) + 4 /\ Remaining(e.task) = Len(p.task.msg.program) + 3
      BY <2>7 DEF Remaining
    <2>11. Going(e.task) /\ Grown(p.task, e.task)
      BY <1>1, <2>7 DEF Going, Grown
    <2>12. Nearer(p.task, e.task)
      <3>1. PICK n \in Nat : n = Len(p.task.msg.program)
        BY <1>2
      <3> QED
        BY <2>10, <2>11, <3>1 DEF Nearer
    <2> QED
      BY <2>9, <2>11, <2>12
  <1>5. CASE ~ok
    <2>1. /\ e = [p EXCEPT !.task.err = "refused", !.task.stage = "done"]
          /\ f = [q EXCEPT !.task.err = "refused", !.task.stage = "done"]
      BY <1>2, <1>3, <1>5 DEF Check, Prechecked
    <2>2. /\ IsPair(e) /\ e.store = p.store /\ e.task = [p.task EXCEPT !.err = "refused", !.stage = "done"]
          /\ IsPair(f) /\ f.store = q.store /\ f.task = [q.task EXCEPT !.err = "refused", !.stage = "done"]
      BY <2>1 DEF Beside, IsPair, IsMap, IsTask
    <2>3. /\ IsTask(e.task) /\ e.task.tx = p.task.tx /\ e.task.fields = p.task.fields /\ f.task = e.task
          /\ e.task.msg = p.task.msg /\ e.task.rw = p.task.rw /\ e.task.stage = "done"
      BY <2>2 DEF Beside, IsTask
    <2>4. Abreast(p, e, q, f)
      BY <2>2, <2>3, TaskAbreast
    <2>5. Remaining(p.task) = Len(p.task.msg.program) + 4 /\ Remaining(e.task) = 0
      BY <2>3 DEF Remaining
    <2> QED
      BY <1>2, <2>3, <2>4, <2>5 DEF Grown, Nearer, Going
  <1> QED
    BY <1>3, <1>4, <1>5

\* The last one, which pays for the gas that is left.
LEMMA CreditAbreast ==
    ASSUME NEW p, NEW q, Beside(p, q), WellFormed(p.task.msg), p.task.stage = "credit", Going(p.task),
           NEW e, e = Credit(p), NEW f, f = Credit(q)
    PROVE  Abreast(p, e, q, f) /\ Grown(p.task, e.task) /\ Nearer(p.task, e.task)
  <1>1. PICK from, loaded, amount, gas :
            /\ from = p.task.msg.from /\ loaded = p.task.loaded /\ gas = p.task.gas
            /\ amount = p.task.gas * p.task.msg.price
    OBVIOUS
  <1>2. q.task = p.task /\ from \in Addresses /\ from \in p.task.fields
    BY <1>1, ProgramFacts DEF Beside, Going
  <1>3. PICK left, other : /\ left = AddBalance(p.store, from, loaded, amount)
                           /\ other = AddBalance(q.store, from, loaded, amount)
    OBVIOUS
  <1>4. /\ e = [p EXCEPT !.store = AddBalance(@, p.task.msg.from, p.task.loaded, p.task.gas * p.task.msg.price),
                         !.task.pool = @ + p.task.gas, !.task.stage = "done"]
        /\ f = [q EXCEPT !.store = AddBalance(@, q.task.msg.from, q.task.loaded, q.task.gas * q.task.msg.price),
                         !.task.pool = @ + q.task.gas, !.task.stage = "done"]
    BY DEF Credit
  <1>5. /\ e = [p EXCEPT !.store = left, !.task.pool = @ + gas, !.task.stage = "done"]
        /\ f = [q EXCEPT !.store = other, !.task.pool = @ + gas, !.task.stage = "done"]
    BY <1>1, <1>2, <1>3, <1>4 DEF Beside, IsPair, IsMap
  <1>6. /\ IsPair(e) /\ e.store = left /\ e.task = [p.task EXCEPT !.pool = @ + gas, !.stage = "done"]
        /\ IsPair(f) /\ f.store = other /\ f.task = [q.task EXCEPT !.pool = @ + gas, !.stage = "done"]
    BY <1>5 DEF Beside, IsPair, IsMap, IsTask
  <1>7. /\ IsTask(e.task) /\ e.task.tx = p.task.tx /\ e.task.fields = p.task.fields /\ f.task = e.task
        /\ e.task.msg = p.task.msg /\ e.task.rw = p.task.rw /\ e.task.stage = "done"
    BY <1>6 DEF Beside, IsTask
  <1>8. Twins(p.store, left, q.store, other, e.task.rw.writes, e.task.fields)
    <2>1. PICK keys, accounts : keys = e.task.rw.writes /\ accounts = e.task.fields
      OBVIOUS
    <2>2. Twins(p.store, left, q.store, other, keys, accounts)
      BY <1>2, <1>3, <1>7, <2>1, BalanceTwins DEF Beside
    <2> QED
      BY <2>1, <2>2
  <1>9. Abreast(p, e, q, f)
    BY <1>6, <1>7, <1>8 DEF Abreast
  <1>10. Remaining(p.task) = 1 /\ Remaining(e.task) = 0
    BY <1>7 DEF Remaining
  <1> QED
    BY <1>7, <1>9, <1>10 DEF Grown, Nearer, Going

\* An instruction brings the execution nearer to its end.
LEMMA RunIsNearer ==
    ASSUME NEW ran, NEW next, Runs(ran), Grown(ran, next), RunOn(ran, next), ran.fields \subseteq next.fields,
           ran.stage = "run"
    PROVE  Going(next) /\ Remaining(next) \in Nat /\ Remaining(next) < Len(ran.msg.program) + 3 - ran.pc
  <1>1. Len(ran.msg.program) \in Nat /\ ran.pc \in Nat /\ ran.pc <= Len(ran.msg.program) + 1
    BY ProgramFacts DEF Runs, Position
  <1>2. next.msg = ran.msg /\ ran.msg.from \in next.fields
    BY DEF Runs, Grown
  <1>3. CASE next.stage = "credit"
    <2>1. Remaining(next) = 1
      BY <1>3 DEF Remaining
    <2> QED
      BY <1>1, <1>2, <1>3, <2>1 DEF Going
  <1>4. CASE next.stage = "run" /\ next.pc \in Nat /\ ran.pc < next.pc /\ next.pc <= Len(ran.msg.program) + 1
    <2>1. Remaining(next) = Len(ran.msg.program) + 3 - next.pc
      BY <1>2, <1>4 DEF Remaining
    <2>2. Going(next)
      BY <1>2, <1>4 DEF Going
    <2>3. PICK n \in Nat, pc \in Nat, before \in Nat :
            n = Len(ran.msg.program) /\ pc = next.pc /\ before = ran.pc
      BY <1>1, <1>4
    <2>4. before < pc /\ pc <= n + 1
      BY <1>4, <2>3
    <2>5. n + 3 - pc \in Nat /\ n + 3 - pc < n + 3 - before
      BY <2>4
    <2> QED
      BY <2>1, <2>2, <2>3, <2>5
  <1> QED
    BY <1>3, <1>4 DEF RunOn

\* The second, which counts the nonce and goes on to the program.
LEMMA NonceAbreast ==
    ASSUME NEW p, NEW q, Beside(p, q), WellFormed(p.task.msg), TaskInv(p.task, TRUE),
           p.task.stage = "setNonce", Going(p.task),
           NEW e, e = IncrementNonce(p), NEW f, f = IncrementNonce(q),
           Same(p.store, q.store, Touched(e.task.rw), e.task.fields)
    PROVE  Abreast(p, e, q, f) /\ Grown(p.task, e.task) /\ Nearer(p.task, e.task)
  <1>1. PICK from, nonce : from = p.task.msg.from /\ nonce = p.task.loaded + 1
    OBVIOUS
  <1>2. q.task = p.task /\ from \in Addresses /\ from \in p.task.fields
    BY <1>1, ProgramFacts DEF Beside, Going
  <1>3. PICK left, other : left = SetNonce(p.store, from, nonce) /\ other = SetNonce(q.store, from, nonce)
    OBVIOUS
  <1>4. PICK called, calledOther :
            /\ called = [p EXCEPT !.store = SetNonce(@, p.task.msg.from, p.task.loaded + 1), !.task.stage = "run"]
            /\ calledOther = [q EXCEPT !.store = SetNonce(@, q.task.msg.from, q.task.loaded + 1), !.task.stage = "run"]
    OBVIOUS
  <1>5. e = Run(called) /\ f = Run(calledOther)
    BY <1>4 DEF IncrementNonce
  <1>6. /\ called = [p EXCEPT !.store = left, !.task.stage = "run"]
        /\ calledOther = [q EXCEPT !.store = other, !.task.stage = "run"]
    BY <1>1, <1>2, <1>3, <1>4 DEF Beside, IsPair, IsMap
  <1>7. /\ IsPair(called) /\ called.store = left /\ called.task = [p.task EXCEPT !.stage = "run"]
        /\ IsPair(calledOther) /\ calledOther.store = other /\ calledOther.task = [q.task EXCEPT !.stage = "run"]
    BY <1>6 DEF Beside, IsPair, IsMap, IsTask
  <1>8. /\ IsTask(called.task) /\ called.task.tx = p.task.tx /\ called.task.fields = p.task.fields
        /\ called.task.msg = p.task.msg /\ called.task.rw = p.task.rw /\ called.task.stage = "run"
        /\ called.task.pc = p.task.pc /\ called.task.frames = p.task.frames /\ called.task.gas = p.task.gas
        /\ calledOther.task = called.task
    BY <1>7 DEF Beside, IsTask
  <1>9. p.task.pc = 0 /\ p.task.frames = <<>> /\ p.task.gas \in Nat
    BY DEF TaskInv, StageInv
  <1>10. Runs(called.task)
    <2>1. Len(p.task.msg.program) \in Nat
      BY ProgramFacts
    <2>2. Position(called.task) /\ FramesInv(called.task.frames, TRUE)
      BY <1>8, <1>9, NoFrame DEF Position
    <2>3. called.task.pc <= Len(called.task.msg.program) + 1
      BY <1>8, <1>9, <2>1
    <2> QED
      BY <1>1, <1>2, <1>8, <1>9, <2>2, <2>3 DEF Runs
  <1>11. \A keys, accounts : from \in accounts => Twins(p.store, left, q.store, other, keys, accounts)
    BY <1>2, <1>3, NonceTwins DEF Beside
  <1>12. IsCache(left) /\ IsCache(other) /\ Alike(p.store, left) /\ Alike(q.store, other)
    BY <1>2, <1>11 DEF Twins, ChangedIn
  <1>13. Beside(called, called) /\ Beside(called, calledOther)
    BY <1>7, <1>8, <1>12 DEF Beside, Alike, IsCache, IsAccount
  <1>14. Abreast(called, e, called, e) /\ Grown(called.task, e.task) /\ RunOn(called.task, e.task)
    <2>1. Same(called.store, called.store, Touched(e.task.rw), e.task.fields)
      BY DEF Same
    <2> QED
      BY <1>5, <1>10, <1>13, <2>1, RunAbreast
  <1>15. PICK keys, accounts : keys = e.task.rw.writes /\ accounts = e.task.fields
    OBVIOUS
  <1>16. from \in accounts
    BY <1>2, <1>8, <1>14, <1>15 DEF Abreast
  <1>17. Twins(p.store, left, q.store, other, keys, accounts)
    BY <1>11, <1>16
  <1>18. Same(called.store, calledOther.store, Touched(e.task.rw), e.task.fields)
    BY <1>7, <1>17, TwinsStaySame
  <1>19. Abreast(called, e, calledOther, f)
    BY <1>5, <1>10, <1>13, <1>18, RunAbreast
  <1>20. Abreast(p, e, q, f)
    <2>1. Twins(left, e.store, other, f.store, keys, accounts)
      BY <1>7, <1>15, <1>19 DEF Abreast
    <2>2. Twins(p.store, e.store, q.store, f.store, keys, accounts)
      BY <1>17, <2>1, TwinsInTurn
    <2> QED
      BY <1>8, <1>15, <1>19, <2>2 DEF Abreast
  <1>21. Grown(p.task, e.task)
    BY <1>8, <1>14 DEF Grown
  <1>22. Nearer(p.task, e.task)
    <2>1. PICK ran, next : ran = called.task /\ next = e.task
      OBVIOUS
    <2>2. Going(next) /\ Remaining(next) \in Nat /\ Remaining(next) < Len(ran.msg.program) + 3 - ran.pc
      BY <1>8, <1>10, <1>14, <2>1, RunIsNearer DEF Abreast
    <2>3. Remaining(p.task) = Len(p.task.msg.program) + 3
      BY DEF Remaining
    <2>4. ran.pc = 0 /\ ran.msg = p.task.msg /\ Len(p.task.msg.program) \in Nat
      BY <1>8, <1>9, <2>1, ProgramFacts
    <2>5. PICK n : n = Len(p.task.msg.program)
      OBVIOUS
    <2> QED
      BY <2>1, <2>2, <2>3, <2>4, <2>5 DEF Nearer
  <1> QED
    BY <1>20, <1>21, <1>22

\* A step on two full caches that hold the same wherever the execution, this
\* step included, has been: it is the same step, and it changes only that.
LEMMA StepAbreast ==
    ASSUME NEW p, NEW q, Beside(p, q), WellFormed(p.task.msg), TaskInv(p.task, TRUE), Going(p.task),
           p.task.stage # "done",
           NEW e, e = Step(p), NEW f, f = Step(q),
           Same(p.store, q.store, Touched(e.task.rw), e.task.fields)
    PROVE  Abreast(p, e, q, f) /\ Grown(p.task, e.task) /\ Nearer(p.task, e.task)
  <1>1. q.task.stage = p.task.stage
    BY DEF Beside
  <1>2. CASE p.task.stage = "check"
    BY <1>1, <1>2, CheckAbreast DEF Step
  <1>3. CASE p.task.stage = "setNonce"
    BY <1>1, <1>3, NonceAbreast DEF Step
  <1>4. CASE p.task.stage = "credit"
    BY <1>1, <1>4, CreditAbreast DEF Step
  <1>5. CASE p.task.stage = "run"
    <2>1. e = Run(p) /\ f = Run(q)
      BY <1>1, <1>5 DEF Step
    <2>2. Runs(p.task)
      BY <1>5 DEF Runs, Going, TaskInv, StageInv, Position
    <2>3. Abreast(p, e, q, f) /\ Grown(p.task, e.task) /\ RunOn(p.task, e.task)
      BY <2>1, <2>2, RunAbreast
    <2>4. PICK ran, next : ran = p.task /\ next = e.task
      OBVIOUS
    <2>5. Going(next) /\ Remaining(next) \in Nat /\ Remaining(next) < Len(ran.msg.program) + 3 - ran.pc
      BY <1>5, <2>2, <2>3, <2>4, RunIsNearer DEF Abreast
    <2>6. Remaining(ran) = Len(ran.msg.program) + 3 - ran.pc
      BY <1>5, <2>4 DEF Remaining
    <2> QED
      BY <2>3, <2>4, <2>5, <2>6 DEF Nearer
  <1>6. p.task.stage \in {"check", "setNonce", "run", "credit"}
    BY DEF TaskInv, StageInv
  <1> QED
    BY <1>2, <1>3, <1>4, <1>5, <1>6

(***************************************************************************)
(* An execution from its beginning on.                                     *)
(***************************************************************************)
Pair(ran, store) == [task |-> ran, store |-> store]
GoOn(s) == IF s.task.stage = "done" THEN s ELSE Step(s)

Chain(h, n, first) == h[0] = first /\ \A i \in 1..n : h[i] = GoOn(h[i - 1])

\* The transaction comes to s when it is executed alone on the store.
Leads(t, msg, store, s) ==
    \E n \in Nat : \E h :
        /\ Chain(h, n, Pair(NewTask(t, msg), store)) /\ h[n] = s
        /\ Remaining(s.task) \in Nat /\ n + Remaining(s.task) <= Len(msg.program) + 4

LEMMA LeadsAtFirst ==
    ASSUME NEW t, NEW msg, WellFormed(msg), NEW store
    PROVE  Leads(t, msg, store, Pair(NewTask(t, msg), store))
  <1>1. PICK s : s = Pair(NewTask(t, msg), store)
    OBVIOUS
  <1>2. s.task.stage = "check" /\ s.task.msg = msg
    BY <1>1 DEF Pair, NewTask
  <1>3. Len(msg.program) \in Nat
    BY ProgramFacts
  <1>4. Remaining(s.task) = Len(msg.program) + 4
    BY <1>2 DEF Remaining
  <1>5. PICK h : h = [i \in {0} |-> s]
    OBVIOUS
  <1>6. Chain(h, 0, s) /\ h[0] = s
    BY <1>5 DEF Chain
  <1> QED
    BY <1>1, <1>3, <1>4, <1>6 DEF Leads

\* And it comes one step further.
LEMMA LeadsOn ==
    ASSUME NEW t, NEW msg, NEW store, NEW s, Leads(t, msg, store, s), Len(msg.program) \in Nat,
           s.task.stage # "done", NEW e, e = Step(s), Nearer(s.task, e.task)
    PROVE  Leads(t, msg, store, e)
  <1>1. PICK n, h : /\ n \in Nat /\ Chain(h, n, Pair(NewTask(t, msg), store)) /\ h[n] = s
                    /\ Remaining(s.task) \in Nat /\ n + Remaining(s.task) <= Len(msg.program) + 4
    BY DEF Leads
  <1>0. n \in Nat
    BY <1>1
  <1> USE <1>0
  <1>2. PICK more : more = [i \in 0..(n + 1) |-> IF i = n + 1 THEN e ELSE h[i]]
    OBVIOUS
  <1>3. PICK first : first = Pair(NewTask(t, msg), store)
    OBVIOUS
  <1>4. \A i \in 0..n : more[i] = h[i]
    BY <1>2
  <1>5. more[n + 1] = e /\ e = GoOn(s)
    BY <1>2 DEF GoOn
  <1>6. Chain(more, n + 1, first)
    <2>1. \A i \in 1..(n + 1) : i = n + 1 \/ (i \in 1..n /\ i \in 0..n)
      OBVIOUS
    <2>2. \A i \in 1..(n + 1) : i - 1 \in 0..n
      OBVIOUS
    <2> QED
      BY <1>1, <1>3, <1>4, <1>5, <2>1, <2>2 DEF Chain
  <1>7. Remaining(e.task) \in Nat /\ n + 1 + Remaining(e.task) <= Len(msg.program) + 4
    <2>1. PICK x \in Nat, y \in Nat, z \in Nat : x = Remaining(s.task) /\ y = Remaining(e.task) /\ z = Len(msg.program)
      BY <1>1 DEF Nearer
    <2>2. y < x /\ n + x <= z + 4
      BY <1>1, <2>1 DEF Nearer
    <2> QED
      BY <2>1, <2>2
  <1>8. n + 1 \in Nat
    OBVIOUS
  <1> QED
    BY <1>3, <1>5, <1>6, <1>7, <1>8 DEF Leads

\* The fold of ExecuteTx.
StepFolds(it, positions, first) ==
    it = [s \in SUBSET positions |-> IF s = {} THEN first ELSE GoOn(it[s \ {Max(s)}])]

LEMMA StepFoldGrows ==
    ASSUME NEW first, NEW k \in Nat, NEW it, StepFolds(it, 1..k, first)
    PROVE  \E more : StepFolds(more, 1..(k + 1), first)
  <1> DEFINE last == k + 1
             more == [s \in SUBSET (1..last) |-> IF last \in s THEN GoOn(it[s \ {last}]) ELSE it[s]]
             step(s) == IF s = {} THEN first ELSE GoOn(more[s \ {Max(s)}])
  <1>1. ASSUME NEW s \in SUBSET (1..last), last \in s
        PROVE  more[s] = step(s)
    <2>1. Max(s) = last /\ s # {}
      BY <1>1, GreatestOfInterval
    <2>2. s \ {last} \in SUBSET (1..last) /\ last \notin s \ {last}
      OBVIOUS
    <2>3. more[s \ {last}] = it[s \ {last}]
      BY <2>2
    <2>4. more[s] = GoOn(it[s \ {last}])
      BY <1>1
    <2> QED
      BY <2>1, <2>3, <2>4
  <1>2. ASSUME NEW s \in SUBSET (1..last), last \notin s
        PROVE  more[s] = step(s)
    <2>1. s \in SUBSET (1..k)
      <3>1. \A i \in s : i \in 1..last /\ i # last
        BY <1>2
      <3> QED
        BY <3>1
    <2>2. s \ {Max(s)} \in SUBSET (1..last) /\ last \notin s \ {Max(s)}
      BY <1>2
    <2>3. it[s] = IF s = {} THEN first ELSE GoOn(it[s \ {Max(s)}])
      BY <2>1 DEF StepFolds
    <2>4. more[s] = it[s] /\ more[s \ {Max(s)}] = it[s \ {Max(s)}]
      BY <1>2, <2>2
    <2> QED
      BY <2>3, <2>4
  <1>3. \A s \in SUBSET (1..last) : more[s] = step(s)
    BY <1>1, <1>2
  <1>4. more = [s \in SUBSET (1..last) |-> step(s)]
    BY <1>3
  <1> QED
    BY <1>4 DEF StepFolds

LEMMA StepFoldExists ==
    ASSUME NEW first, NEW n \in Nat
    PROVE  \E it : StepFolds(it, 1..n, first)
  <1> DEFINE good == {i \in 0..n : \E it : StepFolds(it, 1..i, first)}
  <1>1. 0 \in good
    <2>1. 1..0 = {} /\ SUBSET (1..0) = {{}}
      OBVIOUS
    <2>2. StepFolds([s \in SUBSET (1..0) |-> first], 1..0, first)
      BY <2>1 DEF StepFolds
    <2> QED
      BY <2>2
  <1>2. \A i \in 0..(n - 1) : i \in good => i + 1 \in good
    BY StepFoldGrows
  <1> HIDE DEF good
  <1>3. n \in good
    BY <1>1, <1>2, NumbersUpTo
  <1> QED
    BY <1>3 DEF good

\* ExecuteTx is a chain long enough for every execution.
LEMMA ExecuteTxIsChain ==
    ASSUME NEW t, NEW msg, Len(msg.program) \in Nat, NEW store
    PROVE  \E h : /\ Chain(h, Len(msg.program) + 4, Pair(NewTask(t, msg), store))
                  /\ ExecuteTx(t, msg, store) = h[Len(msg.program) + 4]
  <1> DEFINE first == [task |-> NewTask(t, msg), store |-> store]
             steps == [n \in 1..(Len(msg.program) + 4) |-> n]
             it == CHOOSE it : StepFolds(it, DOMAIN steps, first)
             last == Len(msg.program) + 4
             h == [i \in 0..last |-> it[1..i]]
  <1>1. ExecuteTx(t, msg, store) = it[DOMAIN steps]
    BY DEF ExecuteTx, FoldLeft, MapThenFoldSet, StepFolds, GoOn
  <1>2. last \in Nat /\ DOMAIN steps = 1..last
    OBVIOUS
  <1>3. StepFolds(it, 1..last, first)
    BY <1>2, StepFoldExists
  <1> HIDE DEF it, first, last
  <1>4. h[0] = first
    <2>1. 1..0 = {} /\ {} \in SUBSET (1..last)
      OBVIOUS
    <2> QED
      BY <1>2, <1>3, <2>1 DEF StepFolds
  <1>5. ASSUME NEW i \in 1..last
        PROVE  h[i] = GoOn(h[i - 1])
    <2>1. 1..i \in SUBSET (1..last) /\ i \in Nat /\ i \in 1..i
      BY <1>2
    <2>2. Max(1..i) = i /\ 1..i # {} /\ (1..i) \ {i} = 1..(i - 1)
      <3>1. PICK set : set = 1..i
        OBVIOUS
      <3>2. Max(set) = i
        BY <2>1, <3>1, GreatestOfInterval
      <3>3. set # {} /\ set \ {i} = 1..(i - 1)
        BY <2>1, <3>1
      <3> QED
        BY <3>1, <3>2, <3>3, Zenon
    <2>3. it[1..i] = GoOn(it[1..(i - 1)])
      BY <1>3, <2>1, <2>2 DEF StepFolds
    <2> QED
      BY <1>2, <2>3
  <1>6. ExecuteTx(t, msg, store) = h[last]
    BY <1>1, <1>2
  <1>7. Chain(h, last, first)
    BY <1>4, <1>5 DEF Chain
  <1> HIDE DEF h
  <1> QED
    BY <1>6, <1>7 DEF first, last, Pair

\* A chain is what it begins with, and what has come to its end stays there.
LEMMA ChainsAgree ==
    ASSUME NEW n \in Nat, NEW m \in Nat, n <= m, NEW first,
           NEW h, Chain(h, n, first), NEW g, Chain(g, m, first), h[n].task.stage = "done"
    PROVE  g[m] = h[n]
  <1> DEFINE same == {i \in 0..n : g[i] = h[i]}
             still == {i \in 0..(m - n) : g[n + i] = h[n]}
  <1>1. 0 \in same
    BY DEF Chain
  <1>2. \A i \in 0..(n - 1) : i \in same => i + 1 \in same
    <2>1. \A i \in 0..(n - 1) : i + 1 \in 1..n /\ i + 1 \in 1..m /\ i + 1 - 1 = i
      OBVIOUS
    <2> QED
      BY <2>1 DEF Chain
  <1>3. g[n] = h[n]
    <2> HIDE DEF same
    <2>1. n \in same
      BY <1>1, <1>2, NumbersUpTo
    <2> QED
      BY <2>1 DEF same
  <1>4. 0 \in still
    BY <1>3
  <1>5. \A i \in 0..(m - n - 1) : i \in still => i + 1 \in still
    <2>1. \A i \in 0..(m - n - 1) : n + i + 1 \in 1..m /\ n + i + 1 - 1 = n + i /\ n + (i + 1) = n + i + 1
      OBVIOUS
    <2> QED
      BY <2>1 DEF Chain, GoOn
  <1>6. m - n \in Nat
    OBVIOUS
  <1>7. g[n + (m - n)] = h[n]
    <2> HIDE DEF still
    <2>1. m - n \in still
      BY <1>4, <1>5, <1>6, NumbersUpTo
    <2> QED
      BY <2>1 DEF still
  <1> QED
    BY <1>7

\* What comes to an end on the way is what ExecuteTx comes to.
LEMMA LeadsToTheEnd ==
    ASSUME NEW t, NEW msg, Len(msg.program) \in Nat, NEW store, NEW s, Leads(t, msg, store, s),
           s.task.stage = "done"
    PROVE  ExecuteTx(t, msg, store) = s
  <1>1. PICK n, h : /\ n \in Nat /\ Chain(h, n, Pair(NewTask(t, msg), store)) /\ h[n] = s
                    /\ Remaining(s.task) \in Nat /\ n + Remaining(s.task) <= Len(msg.program) + 4
    BY DEF Leads
  <1>2. PICK g, m, first : /\ first = Pair(NewTask(t, msg), store) /\ m = Len(msg.program) + 4
                           /\ Chain(g, m, first) /\ ExecuteTx(t, msg, store) = g[m]
    BY ExecuteTxIsChain
  <1>3. n \in Nat /\ m \in Nat /\ n <= m
    BY <1>1, <1>2
  <1>4. Chain(h, n, first) /\ h[n].task.stage = "done"
    BY <1>1, <1>2
  <1> QED
    BY <1>1, <1>2, <1>3, <1>4, ChainsAgree

(***************************************************************************)
(* The executions of a round, each as if it were alone.                    *)
(***************************************************************************)
\* One cache, but for these as in the other.
Merged(store, other, keys, accounts) ==
    [shared |-> TRUE, refund |-> 0,
     accounts |-> [a \in Addresses |-> IF a \in accounts THEN other.accounts[a] ELSE store.accounts[a]],
     slots |-> [k \in Keys |-> IF k \in keys THEN other.slots[k] ELSE store.slots[k]]]

\* What is merged from two caches alike is a cache like them.
LEMMA MergedCache ==
    ASSUME NEW store, NEW other, IsCache(store), IsCache(other), Alike(store, other),
           NEW keys, NEW accounts, NEW m, m = Merged(store, other, keys, accounts)
    PROVE  IsCache(m) /\ Alike(store, m) /\ Alike(m, other)
  <1>1. /\ \A a \in Addresses : m.accounts[a] = other.accounts[a] \/ m.accounts[a] = store.accounts[a]
    BY DEF Merged
  <1>2. IsMap(m, {"shared", "accounts", "slots", "refund"})
    BY DEF Merged, IsMap
  <1>3. m.shared = TRUE /\ m.refund = 0 /\ IsMap(m.accounts, Addresses) /\ IsMap(m.slots, Keys)
    BY DEF Merged, IsMap
  <1>4. \A a \in Addresses : IsAccount(m.accounts[a])
    BY <1>1 DEF IsCache
  <1>5. Alike(store, m) /\ Alike(m, other)
    BY <1>1 DEF Alike, IsCache, IsAccount
  <1> QED
    BY <1>2, <1>3, <1>4, <1>5 DEF IsCache

\* Wherever it is executed alone, on a cache that holds what it has met, the
\* transaction comes to the same point, and leaves there what it has left here.
Repeats(t, msg, ran, base, common) ==
    \A c : IsCache(c) /\ Alike(base, c) /\ Same(base, c, Touched(ran.rw), ran.fields) =>
        Leads(t, msg, c, Pair(ran, Merged(c, common, ran.rw.writes, ran.fields)))

LEMMA RepeatsAtFirst ==
    ASSUME NEW t, NEW msg, WellFormed(msg), NEW base, NEW common
    PROVE  Repeats(t, msg, NewTask(t, msg), base, common)
  <1>1. PICK ran : ran = NewTask(t, msg)
    OBVIOUS
  <1>2. ran.rw.writes = {} /\ ran.fields = {}
    BY <1>1 DEF NewTask, NoTouch
  <1>3. ASSUME NEW c, IsCache(c)
        PROVE  Leads(t, msg, c, Pair(ran, Merged(c, common, ran.rw.writes, ran.fields)))
    <2>1. PICK m : m = Merged(c, common, {}, {})
      OBVIOUS
    <2>2. /\ IsMap(m, {"shared", "accounts", "slots", "refund"}) /\ m.shared = TRUE /\ m.refund = 0
          /\ IsMap(m.accounts, Addresses) /\ IsMap(m.slots, Keys)
          /\ \A k \in Keys : m.slots[k] = c.slots[k]
          /\ \A a \in Addresses : m.accounts[a] = c.accounts[a]
      BY <2>1 DEF Merged, IsMap
    <2>3. IsCache(m)
      BY <1>3, <2>2 DEF IsCache
    <2>4. m = c
      BY <1>3, <2>2, <2>3, SameCache
    <2> QED
      BY <1>1, <1>2, <2>1, <2>4, LeadsAtFirst
  <1> QED
    BY <1>1, <1>3 DEF Repeats

\* Its own step, where it meets what nobody has changed since the beginning.
LEMMA RepeatsStep ==
    ASSUME NEW t, NEW msg, NEW ran, NEW base, NEW common, NEW p, p = Pair(ran, common), NEW e, e = Step(p),
           WellFormed(msg), ran.msg = msg, TaskInv(ran, TRUE), Going(ran), ran.stage # "done",
           IsCache(base), IsCache(common), Alike(base, common),
           Repeats(t, msg, ran, base, common),
           Same(base, common, Touched(e.task.rw) \ ran.rw.writes, e.task.fields \ ran.fields)
    PROVE  Repeats(t, msg, e.task, base, e.store)
  <1>1. IsPair(p) /\ p.task = ran /\ p.store = common /\ IsTask(ran)
    BY DEF Pair, IsPair, IsMap, TaskInv
  <1>2. Abreast(p, e, p, e) /\ Grown(ran, e.task)
    <2>1. Beside(p, p)
      BY <1>1 DEF Beside, Alike, IsCache, IsAccount
    <2>2. Same(p.store, p.store, Touched(e.task.rw), e.task.fields)
      BY DEF Same
    <2> QED
      BY <1>1, <2>1, <2>2, StepAbreast
  <1>3. /\ Touched(ran.rw) \subseteq Touched(e.task.rw) /\ ran.rw.writes \subseteq e.task.rw.writes
        /\ ran.fields \subseteq e.task.fields
    BY <1>1, <1>2 DEF Grown, Abreast, Touched
  <1>4. e.task.rw.writes \subseteq Touched(e.task.rw)
    BY DEF Touched
  <1>5. ASSUME NEW c, IsCache(c), Alike(base, c), Same(base, c, Touched(e.task.rw), e.task.fields)
        PROVE  Leads(t, msg, c, Pair(e.task, Merged(c, e.store, e.task.rw.writes, e.task.fields)))
    <2>1. PICK m : m = Merged(c, common, ran.rw.writes, ran.fields)
      OBVIOUS
    <2>2. PICK q : q = Pair(ran, m)
      OBVIOUS
    <2>3. Alike(c, common)
      BY <1>5 DEF Alike, IsCache, IsAccount
    <2>4. IsCache(m) /\ Alike(m, common) /\ Alike(common, m)
      <3>1. IsCache(m) /\ Alike(c, m) /\ Alike(m, common)
        BY <1>5, <2>1, <2>3, MergedCache
      <3> QED
        BY <3>1 DEF Alike, IsCache, IsAccount
    <2>5. Leads(t, msg, c, q)
      <3>1. Same(base, c, Touched(ran.rw), ran.fields)
        BY <1>3, <1>5 DEF Same
      <3> QED
        BY <1>5, <2>1, <2>2, <3>1 DEF Repeats
    <2>6. Beside(p, q)
      BY <1>1, <2>2, <2>4 DEF Beside, Pair, IsPair, IsMap
    <2>7. Same(common, m, Touched(e.task.rw), e.task.fields)
      BY <1>5, <2>1 DEF Same, Merged
    <2>8. PICK f : f = Step(q)
      OBVIOUS
    <2>9. q.store = m /\ q.task = ran
      BY <2>2 DEF Pair
    <2>10. Abreast(p, e, q, f) /\ Nearer(ran, e.task)
      BY <1>1, <2>6, <2>7, <2>8, <2>9, StepAbreast
    <2>11. f.task = e.task /\ IsPair(f)
      BY <2>10 DEF Abreast
    <2>12. Leads(t, msg, c, f)
      <3>1. Len(msg.program) \in Nat
        BY ProgramFacts
      <3>2. q.task.stage # "done" /\ Nearer(q.task, f.task)
        BY <2>9, <2>10, <2>11
      <3> QED
        BY <2>5, <2>8, <3>1, <3>2, LeadsOn
    <2>13. PICK last : last = Merged(c, e.store, e.task.rw.writes, e.task.fields)
      OBVIOUS
    <2>14. Twins(common, e.store, m, f.store, e.task.rw.writes, e.task.fields)
      BY <1>1, <2>9, <2>10 DEF Abreast
    <2>15. IsCache(e.store) /\ IsCache(f.store) /\ Alike(common, e.store)
      BY <2>14 DEF Twins, ChangedIn
    <2>16. IsCache(last)
      <3>1. Alike(c, e.store)
        BY <2>3, <2>15 DEF Alike, IsCache, IsAccount
      <3> QED
        BY <1>5, <2>13, <2>15, <3>1, MergedCache
    <2>17. \A k \in Keys : f.store.slots[k] = last.slots[k]
      <3>1. ASSUME NEW k \in Keys, k \in e.task.rw.writes
            PROVE  f.store.slots[k] = last.slots[k]
        BY <1>4, <2>7, <2>13, <2>14, <3>1 DEF Same, Twins, Merged
      <3>2. ASSUME NEW k \in Keys, k \notin e.task.rw.writes
            PROVE  f.store.slots[k] = last.slots[k]
        BY <1>3, <2>1, <2>13, <2>14, <3>2 DEF Same, Twins, ChangedIn, Merged
      <3> QED
        BY <3>1, <3>2
    <2>18. \A a \in Addresses : f.store.accounts[a] = last.accounts[a]
      <3>1. ASSUME NEW a \in Addresses, a \in e.task.fields
            PROVE  f.store.accounts[a] = last.accounts[a]
        BY <2>7, <2>13, <2>14, <3>1 DEF Same, Twins, Merged
      <3>2. ASSUME NEW a \in Addresses, a \notin e.task.fields
            PROVE  f.store.accounts[a] = last.accounts[a]
        BY <1>3, <2>1, <2>13, <2>14, <3>2 DEF Same, Twins, ChangedIn, Merged
      <3> QED
        BY <3>1, <3>2
    <2>19. f.store = last
      BY <2>15, <2>16, <2>17, <2>18, SameCache
    <2>20. f = Pair(e.task, last)
      BY <2>11, <2>19 DEF IsPair, IsMap, Pair
    <2> QED
      BY <2>12, <2>13, <2>20
  <1> QED
    BY <1>5 DEF Repeats

\* The step of another, that changes nothing it has left.
LEMMA RepeatsOther ==
    ASSUME NEW t, NEW msg, NEW ran, NEW base, NEW common, Repeats(t, msg, ran, base, common),
           NEW left, Same(common, left, ran.rw.writes, ran.fields)
    PROVE  Repeats(t, msg, ran, base, left)
  <1>1. PICK keys, accounts : keys = ran.rw.writes /\ accounts = ran.fields
    OBVIOUS
  <1>2. \A c : Merged(c, left, keys, accounts) = Merged(c, common, keys, accounts)
    BY <1>1 DEF Merged, Same
  <1> QED
    BY <1>1, <1>2 DEF Repeats

(***************************************************************************)
(* The transactions one after the other.                                   *)
(***************************************************************************)
RunNext(ran, t, messages) ==
    LET s == ExecuteTx(t, messages[t], ran.store)
    IN  [store |-> s.store,
         tasks |-> [u \in {t} \cup DOMAIN ran.tasks |-> IF u = t THEN s.task ELSE ran.tasks[u]]]

Beginning(first) == [store |-> first, tasks |-> <<>>]

SerialChain(h, n, order, first, messages) ==
    h[0] = Beginning(first) /\ \A i \in 1..n : h[i] = RunNext(h[i - 1], order[i], messages)

\* In every listing of S that is sorted, the transactions come to these
\* executions and to this cache.
SerialTo(S, tasks, store, first, messages, less) ==
    \A order \in SetToSeqs(S) : Sorted(order, less) =>
        \E h : /\ SerialChain(h, Len(order), order, first, messages)
               /\ h[Len(order)] = [store |-> store, tasks |-> [t \in S |-> tasks[t]]]

LEMMA SerialAtFirst ==
    ASSUME NEW tasks, NEW first, NEW messages, NEW less
    PROVE  SerialTo({}, tasks, first, first, messages, less)
  <1>1. ASSUME NEW order \in SetToSeqs({})
        PROVE  \E h : /\ SerialChain(h, Len(order), order, first, messages)
                      /\ h[Len(order)] = [store |-> first, tasks |-> [t \in {} |-> tasks[t]]]
    <2>1. Len(order) = 0
      BY ListsEach, FS_EmptySet
    <2>2. PICK h : h = [i \in {0} |-> Beginning(first)]
      OBVIOUS
    <2>3. [t \in {} |-> tasks[t]] = <<>>
      OBVIOUS
    <2>4. h[0] = [store |-> first, tasks |-> [t \in {} |-> tasks[t]]]
      BY <2>2, <2>3 DEF Beginning
    <2>5. SerialChain(h, 0, order, first, messages)
      BY <2>2 DEF SerialChain
    <2> QED
      BY <2>1, <2>4, <2>5
  <1> QED
    BY <1>1 DEF SerialTo

Latest(m, S, less) == \A u \in S \ {m} : <<u, m>> \in less /\ <<m, u>> \notin less

EndsWith(order, m, S, less, n) ==
    /\ n \in Nat /\ order[n + 1] = m
    /\ \E rest \in SetToSeqs(S \ {m}) : Sorted(rest, less) /\ Len(rest) = n /\ \A i \in 1..n : rest[i] = order[i]

\* A listing ends with what comes after everything else.
LEMMA SortedEnd ==
    ASSUME NEW S, IsFiniteSet(S), NEW m \in S, NEW less, Latest(m, S, less),
           NEW order \in SetToSeqs(S), Sorted(order, less), NEW n, n = Len(order) - 1
    PROVE  EndsWith(order, m, S, less, n)
  <1>1. /\ order \in Seq(S) /\ Len(order) = Cardinality(S) /\ Len(order) \in Nat
        /\ DOMAIN order = 1..Len(order)
        /\ \A i, j \in 1..Len(order) : order[i] = order[j] => i = j
    BY ListsEach
  <1>2. PICK at \in 1..Len(order) : order[at] = m
    <2>1. \A t \in S : \E i \in 1..Len(order) : order[i] = t
      BY ListsEach
    <2> QED
      BY <2>1
  <1>3. n \in Nat /\ Len(order) = n + 1
    BY <1>1, <1>2
  <1>4. at = n + 1
    <2> SUFFICES ASSUME at # n + 1
                 PROVE  FALSE
      OBVIOUS
    <2>1. at < n + 1 /\ n + 1 \in 1..Len(order) /\ at \in 1..Len(order)
      BY <1>2, <1>3
    <2>2. order[n + 1] # m /\ order[n + 1] \in S
      BY <1>1, <1>2, <1>3, <2>1
    <2>3. <<order[at], order[n + 1]>> \in less
      BY <1>3, <2>1 DEF Sorted
    <2> QED
      BY <1>2, <2>2, <2>3 DEF Latest
  <1>5. PICK rest : rest = [i \in 1..n |-> order[i]]
    OBVIOUS
  <1>6. Cardinality(S \ {m}) = n
    <2>1. PICK set : set = S \ {m}
      OBVIOUS
    <2>2. IsFiniteSet(set) /\ Cardinality(S) = Cardinality(set) + 1 /\ Cardinality(set) \in Nat
      BY <2>1, OneOut
    <2>3. Cardinality(S) = n + 1
      BY <1>1, <1>3
    <2>4. Cardinality(set) = n
      BY <1>3, <2>2, <2>3
    <2> QED
      BY <2>1, <2>4
  <1>7. \A i \in 1..n : i \in 1..Len(order) /\ i # n + 1
    BY <1>3
  <1>8. rest \in SetToSeqs(S \ {m})
    <2>1. \A i \in 1..n : order[i] \in S \ {m}
      <3>1. \A i \in DOMAIN order : order[i] \in S
        BY <1>1
      <3> QED
        BY <1>1, <1>2, <1>4, <1>7, <3>1
    <2>2. rest \in [1..n -> S \ {m}]
      BY <1>5, <2>1
    <2>3. \A i, j \in 1..n : i # j => rest[i] # rest[j]
      BY <1>1, <1>5, <1>7
    <2> QED
      BY <1>6, <2>2, <2>3 DEF SetToSeqs
  <1>9. Len(rest) = n
    BY <1>3, <1>5
  <1>10. Sorted(rest, less)
    BY <1>5, <1>7, <1>9 DEF Sorted
  <1> QED
    BY <1>2, <1>3, <1>4, <1>5, <1>8, <1>9, <1>10 DEF EndsWith

\* One transaction more, after all the others.
LEMMA SerialAppend ==
    ASSUME NEW S, IsFiniteSet(S), NEW m \in S, NEW less, Latest(m, S, less),
           NEW tasks, NEW store, NEW first, NEW messages,
           SerialTo(S \ {m}, tasks, store, first, messages, less),
           NEW next, ExecuteTx(m, messages[m], store) = Pair(tasks[m], next)
    PROVE  SerialTo(S, tasks, next, first, messages, less)
  <1>1. ASSUME NEW order \in SetToSeqs(S), Sorted(order, less)
        PROVE  \E h : /\ SerialChain(h, Len(order), order, first, messages)
                      /\ h[Len(order)] = [store |-> next, tasks |-> [t \in S |-> tasks[t]]]
    <2>1. PICK n : n = Len(order) - 1
      OBVIOUS
    <2>2. EndsWith(order, m, S, less, n)
      BY <1>1, <2>1, SortedEnd, Zenon
    <2>3. PICK rest \in SetToSeqs(S \ {m}) :
                Sorted(rest, less) /\ Len(rest) = n /\ \A i \in 1..n : rest[i] = order[i]
      BY <2>2 DEF EndsWith
    <2>12. n \in Nat /\ order[n + 1] = m
      BY <2>2 DEF EndsWith
    <2>4. PICK h : /\ SerialChain(h, n, rest, first, messages)
                   /\ h[n] = [store |-> store, tasks |-> [t \in S \ {m} |-> tasks[t]]]
      BY <2>3 DEF SerialTo
    <2>5. PICK end : end = [store |-> next, tasks |-> [t \in S |-> tasks[t]]]
      OBVIOUS
    <2>6. end = RunNext(h[n], m, messages)
      <3>1. h[n].store = store /\ h[n].tasks = [t \in S \ {m} |-> tasks[t]]
        BY <2>4
      <3>2. ExecuteTx(m, messages[m], h[n].store) = [task |-> tasks[m], store |-> next]
        BY <3>1 DEF Pair
      <3>3. [u \in {m} \cup DOMAIN h[n].tasks |-> IF u = m THEN tasks[m] ELSE h[n].tasks[u]] = [t \in S |-> tasks[t]]
        <4>1. {m} \cup DOMAIN h[n].tasks = S
          BY <3>1
        <4> QED
          BY <3>1, <4>1
      <3> QED
        BY <2>5, <3>2, <3>3 DEF RunNext
    <2>7. PICK more : more = [i \in 0..(n + 1) |-> IF i = n + 1 THEN end ELSE h[i]]
      OBVIOUS
    <2>8. \A i \in 0..n : more[i] = h[i]
      BY <2>12, <2>7
    <2>9. more[n + 1] = end
      BY <2>12, <2>7
    <2>10. SerialChain(more, n + 1, order, first, messages)
      <3>1. \A i \in 1..(n + 1) : i = n + 1 \/ (i \in 1..n /\ i \in 0..n)
        BY <2>12
      <3>2. (\A i \in 1..(n + 1) : i - 1 \in 0..n) /\ 0 \in 0..n /\ n + 1 - 1 = n /\ n \in 0..n
        BY <2>12
      <3>3. more[0] = Beginning(first)
        BY <2>4, <2>8, <3>2 DEF SerialChain
      <3>4. ASSUME NEW i \in 1..(n + 1)
            PROVE  more[i] = RunNext(more[i - 1], order[i], messages)
        <4>1. CASE i = n + 1
          BY <2>12, <2>6, <2>8, <2>9, <3>2, <4>1
        <4>2. CASE i \in 1..n /\ i \in 0..n
          <5>1. h[i] = RunNext(h[i - 1], rest[i], messages)
            BY <2>4, <4>2 DEF SerialChain
          <5> QED
            BY <2>3, <2>8, <3>2, <4>2, <5>1
        <4> QED
          BY <3>1, <4>1, <4>2
      <3> QED
        BY <3>3, <3>4 DEF SerialChain
    <2>11. Len(order) = n + 1
      <3>1. Len(order) \in Nat
        BY <1>1, ListsEach
      <3> QED
        BY <2>1, <2>12, <3>1
    <2> QED
      BY <2>5, <2>9, <2>10, <2>11
  <1> QED
    BY <1>1 DEF SerialTo

(***************************************************************************)
(* A round, when all of its transactions are done.                         *)
(***************************************************************************)
WrittenBy(S, tasks) == UNION {tasks[t].rw.writes : t \in S}
UsedBy(S, tasks) == UNION {tasks[t].fields : t \in S}

\* What one writes no other touches, and the accounts that two of them use are
\* not in the cache.
Apart(tasks, t, u, cache) ==
    /\ \A k \in tasks[t].rw.writes \cap Keys : k \notin Touched(tasks[u].rw)
    /\ \A a \in tasks[t].fields \cap tasks[u].fields \cap Addresses : ~cache.accounts[a].held

\* Side by side, from the base on, each has come where it would come alone.
SideBySide(S, tasks, messages, base, common) ==
    /\ IsCache(base) /\ Alike(base, common)
    /\ Same(base, common, Keys \ WrittenBy(S, tasks), Addresses \ UsedBy(S, tasks))
    /\ \A t \in S : Repeats(t, messages[t], tasks[t], base, common)

\* The next transaction to be done after those before it, in a round from the
\* base on.
IsNext(t, before, tasks, messages, base, common) ==
    /\ IsCache(base) /\ IsCache(common) /\ Alike(base, common)
    /\ WellFormed(messages[t]) /\ tasks[t].stage = "done"
    /\ Repeats(t, messages[t], tasks[t], base, common)
    /\ \A u \in before : Apart(tasks, u, t, common)

\* Executed alone, after those before it, it does what it has done in the round.
LEMMA NextRuns ==
    ASSUME NEW tasks, NEW messages, NEW base, NEW common, NEW before, NEW t,
           IsNext(t, before, tasks, messages, base, common),
           NEW keys, keys = WrittenBy(before, tasks), NEW accounts, accounts = UsedBy(before, tasks)
    PROVE  ExecuteTx(t, messages[t], Merged(base, common, keys, accounts))
                = Pair(tasks[t], Merged(base, common, keys \cup tasks[t].rw.writes, accounts \cup tasks[t].fields))
  <1> USE DEF IsNext
  <1>1. PICK c : c = Merged(base, common, keys, accounts)
    OBVIOUS
  <1>2. IsCache(c) /\ Alike(base, c) /\ Alike(c, common)
    BY <1>1, MergedCache
  <1>3. Same(base, c, Touched(tasks[t].rw), tasks[t].fields)
    <2>1. ASSUME NEW k \in Touched(tasks[t].rw) \cap Keys
          PROVE  c.slots[k] = base.slots[k]
      <3>1. k \notin keys
        BY DEF Apart, WrittenBy
      <3> QED
        BY <1>1, <3>1 DEF Merged
    <2>2. ASSUME NEW a \in tasks[t].fields \cap Addresses
          PROVE  c.accounts[a] = base.accounts[a]
      <3>1. CASE a \notin accounts
        BY <1>1, <3>1 DEF Merged
      <3>2. CASE a \in accounts
        <4>1. ~common.accounts[a].held
          BY <3>2 DEF Apart, UsedBy
        <4>2. ~base.accounts[a].held
          BY <4>1 DEF Alike
        <4>3. common.accounts[a] = base.accounts[a]
          BY <4>2 DEF Alike
        <4> QED
          BY <1>1, <3>2, <4>3 DEF Merged
      <3> QED
        BY <3>1, <3>2
    <2> QED
      BY <2>1, <2>2 DEF Same
  <1>4. PICK ran, msg : ran = tasks[t] /\ msg = messages[t]
    OBVIOUS
  <1>5. PICK d : d = Merged(c, common, ran.rw.writes, ran.fields)
    OBVIOUS
  <1>6. Leads(t, msg, c, Pair(ran, d))
    BY <1>2, <1>3, <1>4, <1>5 DEF Repeats
  <1>7. ExecuteTx(t, msg, c) = Pair(ran, d)
    <2>1. Len(msg.program) \in Nat
      BY <1>4, ProgramFacts
    <2>2. PICK s : s = Pair(ran, d)
      OBVIOUS
    <2>3. s.task.stage = "done"
      BY <1>4, <2>2 DEF Pair
    <2>4. ExecuteTx(t, msg, c) = s
      BY <1>6, <2>1, <2>2, <2>3, LeadsToTheEnd
    <2> QED
      BY <2>2, <2>4
  <1>8. d = Merged(base, common, keys \cup tasks[t].rw.writes, accounts \cup tasks[t].fields)
    BY <1>1, <1>4, <1>5 DEF Merged
  <1> QED
    BY <1>1, <1>4, <1>7, <1>8

\* The transactions of a round, in the order of the block, after those in S.
LEMMA RoundRuns ==
    ASSUME NEW S \in SUBSET Txs, NEW now \in SUBSET Txs, S \cap now = {}, NEW tasks, NEW messages, NEW less, NEW first,
           NEW base, NEW common, IsCache(common), SideBySide(now, tasks, messages, base, common),
           \A t \in now : WellFormed(messages[t]) /\ tasks[t].stage = "done",
           \A t, u \in now : t # u => Apart(tasks, t, u, common),
           \A t \in now : \A u \in S \cup now :
                u \in S \/ u < t => <<u, t>> \in less /\ <<t, u>> \notin less,
           SerialTo(S, tasks, base, first, messages, less)
    PROVE  SerialTo(S \cup now, tasks, common, first, messages, less)
  <1>1. PICK n \in Nat : \A t \in Txs : t < n
    BY TxsAreBounded
  <1> DEFINE Below(i) == {u \in now : u < i}
             Upto(i) == Merged(base, common, WrittenBy(Below(i), tasks), UsedBy(Below(i), tasks))
             good == {i \in 0..n : SerialTo(S \cup Below(i), tasks, Upto(i), first, messages, less)}
  <1>2. IsCache(base) /\ Alike(base, common)
    BY DEF SideBySide
  <1>3. 0 \in good
    <2>1. \A t \in Txs : ~(t < 0)
      BY VerticesAreNumbers
    <2>2. Below(0) = {}
      BY <2>1
    <2>3. WrittenBy({}, tasks) = {} /\ UsedBy({}, tasks) = {}
      BY DEF WrittenBy, UsedBy
    <2>4. PICK m : m = Upto(0)
      OBVIOUS
    <2>5. IsCache(m)
      <3> HIDE DEF Below
      <3> QED
        BY <1>2, <2>4, MergedCache
    <2>6. (\A k \in Keys : m.slots[k] = base.slots[k]) /\ \A a \in Addresses : m.accounts[a] = base.accounts[a]
      BY <2>2, <2>3, <2>4 DEF Merged
    <2>7. m = base
      BY <1>2, <2>5, <2>6, SameCache
    <2>8. S \cup Below(0) = S
      BY <2>2
    <2>9. SerialTo(S \cup Below(0), tasks, Upto(0), first, messages, less)
      <3> HIDE DEF Upto, Below
      <3> QED
        BY <2>4, <2>7, <2>8
    <2>10. 0 \in 0..n
      BY <1>1
    <2> HIDE DEF Upto, Below
    <2> QED
      BY <2>9, <2>10
  <1>4. ASSUME NEW i \in 0..(n - 1), i \in good
        PROVE  i + 1 \in good
    <2>1. SerialTo(S \cup Below(i), tasks, Upto(i), first, messages, less)
      BY <1>4
    <2>2. (\A t \in now : t < i + 1 <=> (t < i \/ t = i)) /\ ~(i < i)
      <3>1. i \in Int /\ \A t \in now : t \in Int
        BY VerticesAreNumbers
      <3>2. \A t \in Int : t < i + 1 <=> (t < i \/ t = i)
        BY <3>1
      <3> QED
        BY <3>1, <3>2
    <2>3. i + 1 \in 0..n
      BY <1>1
    <2>4. CASE i \notin now
      <3>1. Below(i + 1) = Below(i)
        BY <2>2, <2>4
      <3>2. SerialTo(S \cup Below(i + 1), tasks, Upto(i + 1), first, messages, less)
        <4> HIDE DEF Below
        <4> QED
          BY <2>1, <3>1
      <3> QED
        BY <2>3, <3>2
    <2>5. CASE i \in now
      <3>1. PICK before, all : before = Below(i) /\ all = Below(i + 1)
        OBVIOUS
      <3>2. all = before \cup {i} /\ i \notin before /\ before \subseteq now
        <4>1. i \notin before /\ before \subseteq now /\ all \subseteq now
          BY <2>2, <3>1
        <4>2. \A u \in now : u \in all <=> u \in before \cup {i}
          BY <2>2, <3>1
        <4>3. \A u : u \in all <=> u \in before \cup {i}
          BY <2>5, <4>1, <4>2, Zenon
        <4>4. all = before \cup {i}
          BY <4>3, Zenon
        <4> QED
          BY <4>1, <4>4
      <3>3. /\ WrittenBy(all, tasks) = WrittenBy(before, tasks) \cup tasks[i].rw.writes
            /\ UsedBy(all, tasks) = UsedBy(before, tasks) \cup tasks[i].fields
        BY <3>2 DEF WrittenBy, UsedBy
      <3>4. ExecuteTx(i, messages[i], Upto(i)) = Pair(tasks[i], Upto(i + 1))
        <4>1. \A u \in before : Apart(tasks, u, i, common)
          BY <2>5, <3>2
        <4>2. Repeats(i, messages[i], tasks[i], base, common)
          BY <2>5 DEF SideBySide
        <4>3. PICK keys, accounts : keys = WrittenBy(before, tasks) /\ accounts = UsedBy(before, tasks)
          OBVIOUS
        <4>4. IsNext(i, before, tasks, messages, base, common)
          BY <1>2, <2>5, <4>1, <4>2 DEF IsNext
        <4> HIDE DEF Below
        <4>5. ExecuteTx(i, messages[i], Merged(base, common, keys, accounts))
                = Pair(tasks[i], Merged(base, common, keys \cup tasks[i].rw.writes, accounts \cup tasks[i].fields))
          BY <4>3, <4>4, NextRuns
        <4> QED
          BY <3>1, <3>3, <4>3, <4>5
      <3>5. PICK set : set = S \cup all
        OBVIOUS
      <3>6. i \in set /\ set \ {i} = S \cup Below(i) /\ set \in SUBSET Txs
        BY <2>5, <3>1, <3>2, <3>5
      <3>7. IsFiniteSet(set)
        BY <3>6, FS_Subset, ConflictGraphAssumption
      <3>8. Latest(i, set, less)
        <4>1. \A u \in set \ {i} : u \in S \cup now /\ (u \in S \/ u < i)
          BY <2>5, <3>6
        <4> QED
          BY <2>5, <4>1 DEF Latest
      <3>9. SerialTo(set, tasks, Upto(i + 1), first, messages, less)
        <4>1. PICK store, next : store = Upto(i) /\ next = Upto(i + 1)
          OBVIOUS
        <4>2. SerialTo(set \ {i}, tasks, store, first, messages, less)
          <5> HIDE DEF Below, Upto
          <5> QED
            BY <2>1, <3>6, <4>1
        <4>3. ExecuteTx(i, messages[i], store) = Pair(tasks[i], next)
          BY <3>4, <4>1
        <4> HIDE DEF Below, Upto
        <4> QED
          BY <3>6, <3>7, <3>8, <4>1, <4>2, <4>3, SerialAppend
      <3>10. SerialTo(S \cup Below(i + 1), tasks, Upto(i + 1), first, messages, less)
        <4> HIDE DEF Below, Upto
        <4> QED
          BY <3>1, <3>5, <3>9
      <3> HIDE DEF Below, Upto
      <3> QED
        BY <2>3, <3>10
    <2> QED
      BY <2>4, <2>5
  <1>5. n \in good
    <2> HIDE DEF good
    <2> QED
      BY <1>1, <1>3, <1>4, NumbersUpTo
  <1>6. Below(n) = now
    BY <1>1
  <1>7. Upto(n) = common
    <2>1. PICK m : m = Upto(n)
      OBVIOUS
    <2>2. m = Merged(base, common, WrittenBy(now, tasks), UsedBy(now, tasks))
      BY <1>6, <2>1
    <2>3. IsCache(m)
      BY <1>2, <2>2, MergedCache
    <2>4. (\A k \in Keys : m.slots[k] = common.slots[k]) /\ \A a \in Addresses : m.accounts[a] = common.accounts[a]
      BY <2>2 DEF Merged, SideBySide, Same
    <2>5. m = common
      BY <2>3, <2>4, SameCache
    <2> QED
      BY <2>1, <2>5
  <1>8. SerialTo(S \cup Below(n), tasks, Upto(n), first, messages, less)
    BY <1>5
  <1> HIDE DEF Below, Upto
  <1> QED
    BY <1>6, <1>7, <1>8

(***************************************************************************)
(* The fold of Serial is such a chain.                                     *)
(***************************************************************************)
SerialFolds(h, positions, order, first, messages) ==
    h = [s \in SUBSET positions |->
            IF s = {} THEN Beginning(first) ELSE RunNext(h[s \ {Max(s)}], order[Max(s)], messages)]

LEMMA SerialFoldGrows ==
    ASSUME NEW order, NEW first, NEW messages, NEW k \in Nat, NEW h, SerialFolds(h, 1..k, order, first, messages)
    PROVE  \E more : SerialFolds(more, 1..(k + 1), order, first, messages)
  <1> DEFINE last == k + 1
             more == [s \in SUBSET (1..last) |->
                        IF last \in s THEN RunNext(h[s \ {last}], order[last], messages) ELSE h[s]]
             step(s) == IF s = {} THEN Beginning(first) ELSE RunNext(more[s \ {Max(s)}], order[Max(s)], messages)
  <1>1. ASSUME NEW s \in SUBSET (1..last), last \in s
        PROVE  more[s] = step(s)
    <2>1. Max(s) = last /\ s # {}
      BY <1>1, GreatestOfInterval
    <2>2. s \ {last} \in SUBSET (1..last) /\ last \notin s \ {last}
      OBVIOUS
    <2>3. more[s \ {last}] = h[s \ {last}]
      BY <2>2
    <2>4. more[s] = RunNext(h[s \ {last}], order[last], messages)
      BY <1>1
    <2> QED
      BY <2>1, <2>3, <2>4
  <1>2. ASSUME NEW s \in SUBSET (1..last), last \notin s
        PROVE  more[s] = step(s)
    <2>1. s \in SUBSET (1..k)
      <3>1. \A i \in s : i \in 1..last /\ i # last
        BY <1>2
      <3> QED
        BY <3>1
    <2>2. s \ {Max(s)} \in SUBSET (1..last) /\ last \notin s \ {Max(s)}
      BY <1>2
    <2>3. h[s] = IF s = {} THEN Beginning(first) ELSE RunNext(h[s \ {Max(s)}], order[Max(s)], messages)
      BY <2>1 DEF SerialFolds
    <2>4. more[s] = h[s] /\ more[s \ {Max(s)}] = h[s \ {Max(s)}]
      BY <1>2, <2>2
    <2> QED
      BY <2>3, <2>4
  <1>3. \A s \in SUBSET (1..last) : more[s] = step(s)
    BY <1>1, <1>2
  <1>4. more = [s \in SUBSET (1..last) |-> step(s)]
    BY <1>3
  <1> QED
    BY <1>4 DEF SerialFolds

LEMMA SerialFoldExists ==
    ASSUME NEW order, NEW first, NEW messages, NEW n \in Nat
    PROVE  \E h : SerialFolds(h, 1..n, order, first, messages)
  <1> DEFINE good == {i \in 0..n : \E h : SerialFolds(h, 1..i, order, first, messages)}
  <1>1. 0 \in good
    <2>1. 1..0 = {} /\ SUBSET (1..0) = {{}}
      OBVIOUS
    <2>2. SerialFolds([s \in SUBSET (1..0) |-> Beginning(first)], 1..0, order, first, messages)
      BY <2>1 DEF SerialFolds
    <2> QED
      BY <2>2
  <1>2. \A i \in 0..(n - 1) : i \in good => i + 1 \in good
    BY SerialFoldGrows
  <1> HIDE DEF good
  <1>3. n \in good
    BY <1>1, <1>2, NumbersUpTo
  <1> QED
    BY <1>3 DEF good

\* What two chains along one order come to is the same.
LEMMA SerialChainsAgree ==
    ASSUME NEW n \in Nat, NEW order, NEW first, NEW messages,
           NEW h, SerialChain(h, n, order, first, messages), NEW g, SerialChain(g, n, order, first, messages)
    PROVE  g[n] = h[n]
  <1> DEFINE same == {i \in 0..n : g[i] = h[i]}
  <1>1. 0 \in same
    BY DEF SerialChain
  <1>2. \A i \in 0..(n - 1) : i \in same => i + 1 \in same
    <2>1. \A i \in 0..(n - 1) : i + 1 \in 1..n /\ i + 1 - 1 = i
      OBVIOUS
    <2> QED
      BY <2>1 DEF SerialChain
  <1> HIDE DEF same
  <1>3. n \in same
    BY <1>1, <1>2, NumbersUpTo
  <1> QED
    BY <1>3 DEF same

\* Serial is such a chain.
LEMMA SerialIsChain ==
    ASSUME NEW order, NEW first, NEW n \in Nat, DOMAIN order = 1..n
    PROVE  \E h : SerialChain(h, n, order, first, block) /\ Serial(order, first) = h[n]
  <1> DEFINE it == CHOOSE h : SerialFolds(h, DOMAIN order, order, first, block)
             h == [i \in 0..n |-> it[1..i]]
  <1>1. Serial(order, first) = it[DOMAIN order]
    BY DEF Serial, FoldLeft, MapThenFoldSet, SerialFolds, RunNext, Beginning
  <1>2. SerialFolds(it, 1..n, order, first, block)
    BY SerialFoldExists
  <1> HIDE DEF it
  <1>3. h[0] = Beginning(first)
    <2>1. 1..0 = {} /\ {} \in SUBSET (1..n)
      OBVIOUS
    <2> QED
      BY <1>2, <2>1 DEF SerialFolds
  <1>4. ASSUME NEW i \in 1..n
        PROVE  h[i] = RunNext(h[i - 1], order[i], block)
    <2>1. 1..i \in SUBSET (1..n) /\ i \in Nat /\ i \in 1..i
      OBVIOUS
    <2>2. PICK set : set = 1..i
      OBVIOUS
    <2>3. Max(set) = i
      BY <2>1, <2>2, GreatestOfInterval
    <2>4. set # {} /\ set \ {i} = 1..(i - 1)
      BY <2>1, <2>2
    <2>5. set \in SUBSET (1..n)
      BY <2>1, <2>2
    <2>6. it[set] = RunNext(it[set \ {i}], order[i], block)
      BY <1>2, <2>3, <2>4, <2>5 DEF SerialFolds
    <2>7. it[1..i] = RunNext(it[1..(i - 1)], order[i], block)
      BY <2>2, <2>4, <2>6, Zenon
    <2>8. i \in 0..n /\ i - 1 \in 0..n
      OBVIOUS
    <2> QED
      BY <2>7, <2>8
  <1>5. Serial(order, first) = h[n]
    BY <1>1
  <1>6. SerialChain(h, n, order, first, block)
    BY <1>3, <1>4 DEF SerialChain
  <1> HIDE DEF h
  <1> QED
    BY <1>5, <1>6

(***************************************************************************)
(* A step of one, in a round.                                              *)
(***************************************************************************)
\* A step changes no slots and accounts but those it has recorded.
LEMMA StepOnCache ==
    ASSUME NEW ran, NEW common, IsCache(common), NEW p, p = Pair(ran, common), NEW e, e = Step(p),
           WellFormed(ran.msg), TaskInv(ran, TRUE), Going(ran), ran.stage # "done"
    PROVE  /\ ChangedIn(common, e.store, e.task.rw.writes, e.task.fields)
           /\ Going(e.task) /\ ran.fields \subseteq e.task.fields
           /\ ran.rw.writes \subseteq e.task.rw.writes /\ Touched(ran.rw) \subseteq Touched(e.task.rw)
  <1>1. IsPair(p) /\ p.task = ran /\ p.store = common /\ IsTask(ran)
    BY DEF Pair, IsPair, IsMap, TaskInv
  <1>2. Beside(p, p)
    BY <1>1 DEF Beside, Alike, IsCache, IsAccount
  <1>3. Same(p.store, p.store, Touched(e.task.rw), e.task.fields)
    BY DEF Same
  <1>4. Abreast(p, e, p, e) /\ Grown(ran, e.task) /\ Nearer(ran, e.task)
    BY <1>1, <1>2, <1>3, StepAbreast
  <1> QED
    BY <1>1, <1>4 DEF Abreast, Twins, Grown, Nearer, Touched

\* Where it meets nothing of the others, all of them are still as if alone.
LEMMA StepSideBySide ==
    ASSUME NEW S, NEW tasks, NEW messages, NEW base, NEW common, IsCache(common), NEW t \in S,
           SideBySide(S, tasks, messages, base, common),
           NEW ran, ran = tasks[t], NEW p, p = Pair(ran, common), NEW e, e = Step(p),
           WellFormed(messages[t]), ran.msg = messages[t], TaskInv(ran, TRUE), Going(ran), ran.stage # "done",
           NEW next, next[t] = e.task, \A u \in S \ {t} : next[u] = tasks[u],
           \A u \in S \ {t} : Apart(next, t, u, e.store) /\ Apart(next, u, t, e.store)
    PROVE  SideBySide(S, next, messages, base, e.store)
  <1>1. /\ ChangedIn(common, e.store, e.task.rw.writes, e.task.fields)
        /\ ran.fields \subseteq e.task.fields
        /\ ran.rw.writes \subseteq e.task.rw.writes /\ Touched(ran.rw) \subseteq Touched(e.task.rw)
    BY StepOnCache
  <1>2. /\ IsCache(base) /\ Alike(base, common)
        /\ Same(base, common, Keys \ WrittenBy(S, tasks), Addresses \ UsedBy(S, tasks))
        /\ \A u \in S : Repeats(u, messages[u], tasks[u], base, common)
    BY DEF SideBySide
  <1>3. IsCache(e.store) /\ Alike(common, e.store) /\ Alike(base, e.store)
    <2>1. IsCache(e.store) /\ Alike(common, e.store)
      BY <1>1 DEF ChangedIn
    <2> QED
      BY <1>2, <2>1 DEF Alike, IsCache, IsAccount
  <1>4. Same(common, e.store, Keys \ e.task.rw.writes, Addresses \ e.task.fields)
    BY <1>1 DEF ChangedIn
  <1>5. \A a \in Addresses : ~e.store.accounts[a].held =>
            e.store.accounts[a] = common.accounts[a] /\ common.accounts[a] = base.accounts[a]
    <2>1. ASSUME NEW a \in Addresses, ~e.store.accounts[a].held
          PROVE  e.store.accounts[a] = common.accounts[a] /\ common.accounts[a] = base.accounts[a]
      <3>1. ~common.accounts[a].held /\ ~base.accounts[a].held
        BY <1>2, <1>3, <2>1 DEF Alike
      <3> QED
        BY <1>2, <1>3, <3>1 DEF Alike
    <2> QED
      BY <2>1
  <1>6. Same(base, e.store, Keys \ WrittenBy(S, next), Addresses \ UsedBy(S, next))
    <2>1. WrittenBy(S, tasks) \subseteq WrittenBy(S, next) /\ UsedBy(S, tasks) \subseteq UsedBy(S, next)
      <3>1. \A u \in S : tasks[u].rw.writes \subseteq next[u].rw.writes /\ tasks[u].fields \subseteq next[u].fields
        BY <1>1
      <3> QED
        BY <3>1 DEF WrittenBy, UsedBy
    <2>2. e.task.rw.writes \subseteq WrittenBy(S, next) /\ e.task.fields \subseteq UsedBy(S, next)
      BY DEF WrittenBy, UsedBy
    <2> QED
      BY <1>2, <1>4, <2>1, <2>2 DEF Same
  <1>7. Repeats(t, messages[t], e.task, base, e.store)
    <2>1. ASSUME NEW k \in (Touched(e.task.rw) \ ran.rw.writes) \cap Keys
          PROVE  common.slots[k] = base.slots[k]
      <3>1. k \notin WrittenBy(S, tasks)
        BY <2>1 DEF Apart, WrittenBy
      <3> QED
        BY <1>2, <2>1, <3>1 DEF Same
    <2>2. ASSUME NEW a \in (e.task.fields \ ran.fields) \cap Addresses
          PROVE  common.accounts[a] = base.accounts[a]
      <3>1. CASE a \notin UsedBy(S, tasks)
        BY <1>2, <2>2, <3>1 DEF Same
      <3>2. CASE a \in UsedBy(S, tasks)
        <4>1. PICK u \in S : a \in tasks[u].fields
          BY <3>2 DEF UsedBy
        <4>2. u # t /\ next[u] = tasks[u]
          BY <2>2, <4>1
        <4>3. ~e.store.accounts[a].held
          BY <2>2, <4>1, <4>2 DEF Apart
        <4> QED
          BY <1>5, <2>2, <4>3
      <3> QED
        BY <3>1, <3>2
    <2>3. Same(base, common, Touched(e.task.rw) \ ran.rw.writes, e.task.fields \ ran.fields)
      BY <2>1, <2>2 DEF Same
    <2>4. PICK msg : msg = messages[t]
      OBVIOUS
    <2>5. Repeats(t, msg, ran, base, common)
      BY <1>2, <2>4
    <2>6. Repeats(t, msg, e.task, base, e.store)
      BY <1>2, <2>3, <2>4, <2>5, RepeatsStep
    <2> QED
      BY <2>4, <2>6
  <1>8. ASSUME NEW u \in S, u # t
        PROVE  Repeats(u, messages[u], next[u], base, e.store)
    <2>1. ASSUME NEW k \in tasks[u].rw.writes \cap Keys
          PROVE  e.store.slots[k] = common.slots[k]
      <3>1. k \notin e.task.rw.writes
        BY <1>8, <2>1 DEF Apart, Touched
      <3> QED
        BY <1>4, <2>1, <3>1 DEF Same
    <2>2. ASSUME NEW a \in tasks[u].fields \cap Addresses
          PROVE  e.store.accounts[a] = common.accounts[a]
      <3>1. CASE a \notin e.task.fields
        BY <1>4, <2>2, <3>1 DEF Same
      <3>2. CASE a \in e.task.fields
        BY <1>5, <1>8, <2>2, <3>2 DEF Apart
      <3> QED
        BY <3>1, <3>2
    <2>3. Same(common, e.store, tasks[u].rw.writes, tasks[u].fields)
      BY <2>1, <2>2 DEF Same
    <2>4. PICK other, msg, left : other = tasks[u] /\ msg = messages[u] /\ left = e.store
      OBVIOUS
    <2>5. Repeats(u, msg, other, base, common)
      BY <1>2, <1>8, <2>4
    <2>6. Repeats(u, msg, other, base, left)
      BY <2>3, <2>4, <2>5, RepeatsOther
    <2> QED
      BY <1>8, <2>4, <2>6
  <1>9. \A u \in S : Repeats(u, messages[u], next[u], base, e.store)
    BY <1>7, <1>8
  <1> QED
    BY <1>2, <1>3, <1>6, <1>9 DEF SideBySide

(***************************************************************************)
(* The rounds.                                                             *)
(***************************************************************************)
\* Each transaction is in one round, and those of a round do not interfere.
Planned(p) ==
    /\ Vertices = Txs /\ p \in Seq(SUBSET SUBSET Txs)
    /\ \A t \in Txs : \E i \in DOMAIN p : {t} \in p[i]
    /\ \A i, j \in DOMAIN p : \A t \in Txs : {t} \in p[i] /\ {t} \in p[j] => i = j
    /\ \A i \in DOMAIN p : \A t, u \in Txs : {t} \in p[i] /\ {u} \in p[i] /\ t # u => ~Interfere(t, u)

\* The order in which a plan runs them, and within a round the block's.
RunsBefore(p) ==
    {pair \in Txs \X Txs :
        \E i, j \in DOMAIN p : /\ {pair[1]} \in p[i] /\ {pair[2]} \in p[j]
                               /\ i < j \/ (i = j /\ pair[1] < pair[2])}

InRound(p, i) == {t \in Txs : {t} \in p[i]}
Earlier(p, n) == {t \in Txs : \E i \in DOMAIN p : i < n /\ {t} \in p[i]}

RoundsApart == \A i \in DOMAIN plan : \A t, u \in InRound(plan, i) : t # u => Apart(task, t, u, full)

\* Where nothing of a round meets, the earlier rounds are as if run one by one,
\* and the transactions of this one run as if each were alone.
RoundsAlone ==
    RoundsApart =>
        \E base : /\ SideBySide(InRound(plan, round), task, block, base, full)
                  /\ SerialTo(Earlier(plan, round), task, base, Fetched(ToFetch), block, RunsBefore(plan))

TasksByRound ==
    /\ \A t \in Txs : Going(task[t])
    /\ \A t \in Earlier(plan, round) : task[t].stage = "done"
    /\ \A i \in DOMAIN plan : i > round => \A t \in InRound(plan, i) : task[t] = NewTask(t, block[t])

RoundsInvariant ==
    /\ IsMap(task, Txs) /\ round \in Nat \ {0} /\ method \in Methods
    /\ phase \in {"predict", "record"} => round = 1 /\ \A t \in Txs : task[t] = NewTask(t, block[t])
    /\ phase \in {"execute", "done"} =>
        /\ Planned(plan) /\ (Txs = {} \/ round \in DOMAIN plan)
        /\ IsCache(full) /\ TasksByRound /\ RoundsAlone
    /\ phase = "done" => round = Len(plan) /\ RoundOver

\* The plans of both drivers are of this kind.
LEMMA PlansArePlanned ==
    ASSUME NEW m \in Methods, NEW p \in Plans(m), Vertices = Txs
    PROVE  Planned(p)
  <1>1. p \in Seq(SUBSET SUBSET Txs) /\ GoodPlan(p, DOMAIN p, m)
    BY PlansAreGood
  <1>2. m # "ConnectedComponents"
    BY FullStateAssumption
  <1>3. \A i \in DOMAIN p : \A g \in p[i] : \A t \in g : g = {t}
    BY <1>1, <1>2 DEF GoodPlan
  <1>4. ASSUME NEW t \in Txs
        PROVE  \E i \in DOMAIN p : {t} \in p[i]
    <2>1. PICK i \in DOMAIN p : \E g \in p[i] : t \in g
      BY <1>1 DEF GoodPlan
    <2>2. PICK g \in p[i] : t \in g
      BY <2>1
    <2>3. g = {t}
      BY <1>3, <2>2
    <2> QED
      BY <2>2, <2>3
  <1>5. ASSUME NEW i \in DOMAIN p, NEW j \in DOMAIN p, NEW t \in Txs, {t} \in p[i], {t} \in p[j]
        PROVE  i = j
    <2>1. \A g \in p[i], h \in p[j] : i # j \/ g # h => g \cap h = {}
      BY <1>1 DEF GoodPlan
    <2>2. i # j => {t} \cap {t} = {}
      BY <1>5, <2>1
    <2> QED
      BY <2>2
  <1>6. ASSUME NEW i \in DOMAIN p, NEW t \in Txs, NEW u \in Txs, {t} \in p[i], {u} \in p[i], t # u
        PROVE  ~Interfere(t, u)
    <2>1. \A g, h \in p[i] : g # h => \A v \in g, w \in h : ~Interfere(v, w)
      BY <1>1 DEF GoodPlan
    <2>2. {t} # {u} /\ t \in {t} /\ u \in {u}
      BY <1>6
    <2> QED
      BY <1>6, <2>1, <2>2
  <1> QED
    BY <1>1, <1>4, <1>5, <1>6 DEF Planned

\* Of two transactions in turn the later one does not come before the other.
LEMMA RunsInTurn ==
    ASSUME NEW p, Planned(p), NEW t \in Txs, NEW u \in Txs, NEW i \in DOMAIN p, NEW j \in DOMAIN p,
           {t} \in p[i], {u} \in p[j], i < j \/ (i = j /\ t < u)
    PROVE  <<t, u>> \in RunsBefore(p) /\ <<u, t>> \notin RunsBefore(p)
  <1>1. <<t, u>> \in RunsBefore(p)
    BY DEF RunsBefore
  <1>2. /\ \A k \in DOMAIN p : {t} \in p[k] => k = i
        /\ \A k \in DOMAIN p : {u} \in p[k] => k = j
    BY DEF Planned
  <1>3. i \in Int /\ j \in Int /\ t \in Int /\ u \in Int
    BY VerticesAreNumbers DEF Planned
  <1>4. ~(j < i \/ (j = i /\ u < t))
    BY <1>3
  <1>5. <<u, t>> \notin RunsBefore(p)
    BY <1>2, <1>4 DEF RunsBefore
  <1> QED
    BY <1>1, <1>5

LEMMA InitRounds == Init => RoundsInvariant
  <1> SUFFICES ASSUME Init
               PROVE  RoundsInvariant
    OBVIOUS
  <1>1. IsMap(task, Txs) /\ \A t \in Txs : task[t] = NewTask(t, block[t])
    BY DEF Init, IsMap
  <1> QED
    BY <1>1 DEF Init, RoundsInvariant

\* A cache just fetched.
LEMMA FetchedIsCache == \A keys : IsCache(Fetched(keys))
  <1> SUFFICES ASSUME NEW keys
               PROVE  IsCache(Fetched(keys))
    OBVIOUS
  <1>1. PICK f : f = Fetched(keys)
    OBVIOUS
  <1>2. /\ IsMap(f, {"shared", "accounts", "slots", "refund"}) /\ f.shared = TRUE /\ f.refund = 0
        /\ IsMap(f.accounts, Addresses) /\ IsMap(f.slots, Keys)
    BY <1>1 DEF Fetched, IsMap
  <1>3. \A a \in Addresses : IsAccount(f.accounts[a])
    BY <1>1 DEF Fetched, IsAccount, IsMap
  <1> QED
    BY <1>1, <1>2, <1>3 DEF IsCache

\* A round that has not begun.
LEMMA NobodyYet ==
    ASSUME NEW S, NEW tasks, NEW messages, NEW common, IsCache(common),
           \A t \in S : WellFormed(messages[t]) /\ tasks[t] = NewTask(t, messages[t])
    PROVE  SideBySide(S, tasks, messages, common, common)
  <1>1. Alike(common, common) /\ \A keys, accounts : Same(common, common, keys, accounts)
    BY DEF Alike, Same, IsCache, IsAccount
  <1>2. ASSUME NEW t \in S
        PROVE  Repeats(t, messages[t], tasks[t], common, common)
    <2>1. PICK msg : msg = messages[t]
      OBVIOUS
    <2>2. Repeats(t, msg, NewTask(t, msg), common, common)
      BY <2>1, RepeatsAtFirst
    <2> QED
      BY <2>1, <2>2
  <1> QED
    BY <1>1, <1>2 DEF SideBySide

\* No access of a transaction, no prefetch and no end of a round breaks this.
LEMMA StepRounds ==
    ASSUME BlockInv, FullStateInvariant, RoundsInvariant, NEW t \in Txs, StepTx(t)
    PROVE  RoundsInvariant'
  <1>1. PICK ran, p, e : ran = task[t] /\ p = Pair(ran, full) /\ e = Step(p)
    OBVIOUS
  <1>2. /\ phase = "execute" /\ {t} \in plan[round] /\ ran.stage # "done"
        /\ full' = e.store /\ task' = [task EXCEPT ![t] = e.task]
        /\ UNCHANGED <<predictions, block, method, phase, forecast, truth, database, plan, round>>
    BY <1>1 DEF StepTx, Pair
  <1>3. /\ IsMap(task, Txs) /\ round \in Nat \ {0} /\ method \in Methods
        /\ Planned(plan) /\ round \in DOMAIN plan /\ IsCache(full) /\ TasksByRound /\ RoundsAlone
    BY <1>2 DEF RoundsInvariant
  <1>4. WellFormed(block[t]) /\ ran.msg = block[t] /\ TaskInv(ran, TRUE) /\ Going(ran)
    BY <1>1, <1>3 DEF BlockInv, FullStateInvariant, TasksByRound
  <1>5. /\ ChangedIn(full, e.store, e.task.rw.writes, e.task.fields)
        /\ Going(e.task) /\ ran.fields \subseteq e.task.fields
        /\ ran.rw.writes \subseteq e.task.rw.writes /\ Touched(ran.rw) \subseteq Touched(e.task.rw)
    <2>1. PICK store : store = full
      OBVIOUS
    <2> QED
      BY <1>1, <1>2, <1>3, <1>4, <2>1, StepOnCache
  <1>6. IsCache(e.store) /\ Alike(full, e.store)
    BY <1>5 DEF ChangedIn
  <1>7. IsMap(task', Txs) /\ task'[t] = e.task /\ \A u \in Txs : u # t => task'[u] = task[u]
    BY <1>2, <1>3 DEF IsMap
  <1>8. Planned(plan)'
    <2>1. Vertices' = Vertices /\ \A u, v : Interfere(u, v)' = Interfere(u, v)
      BY <1>2 DEF Vertices, Interfere
    <2> QED
      BY <1>2, <1>3, <2>1 DEF Planned
  <1>9. plan' = plan /\ round' = round
    BY <1>2
  <1>10. /\ t \notin Earlier(plan, round) /\ t \in InRound(plan, round)
         /\ \A i \in DOMAIN plan : t \in InRound(plan, i) => i = round
    <2>1. \A i \in DOMAIN plan : {t} \in plan[i] => i = round
      BY <1>2, <1>3 DEF Planned
    <2>2. ~(round < round)
      BY <1>3
    <2> QED
      BY <1>2, <2>1, <2>2 DEF Earlier, InRound
  <1>11. TasksByRound'
    <2>1. \A u \in Txs : Going(task'[u])
      BY <1>3, <1>5, <1>7 DEF TasksByRound
    <2>2. \A u \in Earlier(plan, round) : u \in Txs /\ task'[u].stage = "done"
      BY <1>3, <1>7, <1>10 DEF TasksByRound, Earlier
    <2>3. ASSUME NEW i \in DOMAIN plan, i > round, NEW u \in InRound(plan, i)
          PROVE  task'[u] = NewTask(u, block[u])
      <3>1. u # t /\ u \in Txs
        BY <1>3, <1>10, <2>3 DEF InRound
      <3> QED
        BY <1>3, <1>7, <2>3, <3>1 DEF TasksByRound
    <2> QED
      BY <1>2, <1>9, <2>1, <2>2, <2>3 DEF TasksByRound
  <1>12. ASSUME RoundsApart'
         PROVE  RoundsApart
    <2>1. ASSUME NEW i \in DOMAIN plan, NEW u \in InRound(plan, i), NEW v \in InRound(plan, i), u # v
          PROVE  Apart(task, u, v, full)
      <3>1. Apart(task', u, v, e.store)
        BY <1>2, <1>9, <1>12, <2>1 DEF RoundsApart
      <3>2. u \in Txs /\ v \in Txs
        BY DEF InRound
      <3>3. /\ task[u].rw.writes \subseteq task'[u].rw.writes /\ task[u].fields \subseteq task'[u].fields
            /\ task[v].fields \subseteq task'[v].fields /\ Touched(task[v].rw) \subseteq Touched(task'[v].rw)
        BY <1>1, <1>5, <1>7, <3>2
      <3>4. \A a \in Addresses : full.accounts[a].held => e.store.accounts[a].held
        BY <1>6 DEF Alike
      <3> QED
        BY <3>1, <3>3, <3>4 DEF Apart
    <2> QED
      BY <2>1 DEF RoundsApart
  <1>13. RoundsAlone'
    <2> SUFFICES ASSUME RoundsApart'
                 PROVE  \E base : /\ SideBySide(InRound(plan, round), task', block, base, e.store)
                                  /\ SerialTo(Earlier(plan, round), task', base, Fetched(ToFetch), block, RunsBefore(plan))
      <3>1. ToFetch' = ToFetch
        BY <1>2 DEF ToFetch
      <3> QED
        BY <1>2, <3>1 DEF RoundsAlone
    <2>1. PICK base : /\ SideBySide(InRound(plan, round), task, block, base, full)
                      /\ SerialTo(Earlier(plan, round), task, base, Fetched(ToFetch), block, RunsBefore(plan))
      BY <1>3, <1>12 DEF RoundsAlone
    <2>2. SideBySide(InRound(plan, round), task', block, base, e.store)
      <3>1. PICK S, tasks, next, messages, store :
                S = InRound(plan, round) /\ tasks = task /\ next = task' /\ messages = block /\ store = full
        OBVIOUS
      <3>2. t \in S /\ S \subseteq Txs
        BY <1>10, <3>1 DEF InRound
      <3>3. \A u \in S \ {t} : next[u] = tasks[u]
        BY <1>7, <3>1, <3>2
      <3>4. \A u \in S \ {t} : Apart(next, t, u, e.store) /\ Apart(next, u, t, e.store)
        <4>1. \A u, v \in InRound(plan, round) : u # v => Apart(task', u, v, e.store)
          BY <1>2, <1>3, <1>9 DEF RoundsApart
        <4> QED
          BY <1>10, <3>1, <4>1
      <3>5. ran = tasks[t] /\ next[t] = e.task /\ WellFormed(messages[t]) /\ ran.msg = messages[t]
        BY <1>1, <1>4, <1>7, <3>1
      <3>6. IsCache(store) /\ p = Pair(ran, store) /\ SideBySide(S, tasks, messages, base, store)
        BY <1>1, <1>3, <2>1, <3>1
      <3>7. SideBySide(S, next, messages, base, e.store)
        BY <1>1, <1>2, <1>4, <3>2, <3>3, <3>4, <3>5, <3>6, StepSideBySide
      <3> QED
        BY <3>1, <3>7
    <2>3. SerialTo(Earlier(plan, round), task', base, Fetched(ToFetch), block, RunsBefore(plan))
      <3>1. \A u \in Earlier(plan, round) : task'[u] = task[u]
        BY <1>7, <1>10 DEF Earlier
      <3>2. [u \in Earlier(plan, round) |-> task'[u]] = [u \in Earlier(plan, round) |-> task[u]]
        BY <3>1
      <3> QED
        BY <2>1, <3>2 DEF SerialTo
    <2> QED
      BY <2>2, <2>3
  <1> QED
    BY <1>2, <1>3, <1>6, <1>7, <1>8, <1>11, <1>13 DEF RoundsInvariant

LEMMA PrefetchRounds ==
    ASSUME BlockInv, RoundsInvariant, Prefetch
    PROVE  RoundsInvariant'
  <1>1. /\ phase' = "execute" /\ plan' \in Plans(method) /\ full' = Fetched(ToFetch) /\ Vertices = Txs
        /\ phase = "record"
        /\ UNCHANGED <<predictions, block, method, forecast, truth, database, round, task>>
    BY DEF Prefetch
  <1>2. /\ IsMap(task, Txs) /\ method \in Methods /\ round = 1
        /\ \A t \in Txs : task[t] = NewTask(t, block[t])
    BY <1>1 DEF RoundsInvariant
  <1>3. PICK p : p = plan'
    OBVIOUS
  <1>4. Planned(p) /\ IsCache(full')
    BY <1>1, <1>2, <1>3, PlansArePlanned, FetchedIsCache
  <1>5. Planned(plan)'
    <2>1. Vertices' = Vertices /\ \A u, v : Interfere(u, v)' = Interfere(u, v)
      BY <1>1 DEF Vertices, Interfere
    <2> QED
      BY <1>3, <1>4, <2>1 DEF Planned
  <1>6. Txs = {} \/ 1 \in DOMAIN p
    <2>1. DOMAIN p = 1..Len(p) /\ Len(p) \in Nat
      BY <1>4 DEF Planned
    <2>2. ASSUME NEW t \in Txs
          PROVE  1 \in DOMAIN p
      <3>1. PICK i : i \in DOMAIN p
        BY <1>4 DEF Planned
      <3> QED
        BY <2>1, <3>1
    <2> QED
      BY <2>2
  <1>7. Earlier(p, 1) = {}
    <2>1. DOMAIN p = 1..Len(p) /\ Len(p) \in Nat
      BY <1>4 DEF Planned
    <2>2. \A i \in DOMAIN p : ~(i < 1)
      BY <2>1
    <2> QED
      BY <2>2 DEF Earlier
  <1>8. ASSUME NEW t \in Txs
        PROVE  Going(NewTask(t, block[t]))
    BY DEF Going, NewTask
  <1>9. TasksByRound'
    BY <1>1, <1>2, <1>3, <1>7, <1>8 DEF TasksByRound, InRound
  <1>10. RoundsAlone'
    <2>1. ToFetch' = ToFetch
      BY <1>1 DEF ToFetch
    <2>2. PICK S, tasks, messages, common, less : /\ S = InRound(p, 1) /\ tasks = task /\ messages = block
                                                  /\ common = full' /\ less = RunsBefore(p)
      OBVIOUS
    <2>3. SideBySide(S, tasks, messages, common, common)
      <3>1. \A t \in S : WellFormed(messages[t]) /\ tasks[t] = NewTask(t, messages[t])
        BY <1>2, <2>2 DEF BlockInv, InRound
      <3> QED
        BY <1>4, <2>2, <3>1, NobodyYet
    <2>4. SerialTo({}, tasks, common, common, messages, less)
      BY SerialAtFirst
    <2>5. /\ SideBySide(InRound(p, 1), task, block, full', full')
          /\ SerialTo(Earlier(p, 1), task, full', full', block, RunsBefore(p))
      BY <1>7, <2>2, <2>3, <2>4
    <2> QED
      BY <1>1, <1>2, <1>3, <2>1, <2>5 DEF RoundsAlone
  <1> QED
    BY <1>1, <1>2, <1>3, <1>4, <1>5, <1>6, <1>9, <1>10 DEF RoundsInvariant

\* A round that is over is as if its transactions had come after the earlier
\* rounds, one by one.
LEMMA RoundEnds ==
    ASSUME BlockInv, RoundsInvariant, phase \in {"execute", "done"}, RoundOver, RoundsApart
    PROVE  SerialTo(Earlier(plan, round) \cup InRound(plan, round), task, full, Fetched(ToFetch), block,
                    RunsBefore(plan))
  <1>1. /\ round \in Nat /\ Planned(plan) /\ (Txs = {} \/ round \in DOMAIN plan)
        /\ IsCache(full) /\ TasksByRound /\ RoundsAlone
    BY DEF RoundsInvariant
  <1>2. PICK base : /\ SideBySide(InRound(plan, round), task, block, base, full)
                    /\ SerialTo(Earlier(plan, round), task, base, Fetched(ToFetch), block, RunsBefore(plan))
    BY <1>1 DEF RoundsAlone
  <1>3. PICK S, now, tasks, messages, common, first, less :
            /\ S = Earlier(plan, round) /\ now = InRound(plan, round) /\ tasks = task /\ messages = block
            /\ common = full /\ first = Fetched(ToFetch) /\ less = RunsBefore(plan)
    OBVIOUS
  <1>4. S \in SUBSET Txs /\ now \in SUBSET Txs
    BY <1>3 DEF Earlier, InRound
  <1>5. \A t \in now : round \in DOMAIN plan /\ {t} \in plan[round]
    BY <1>1, <1>3, <1>4 DEF InRound
  <1>6. \A t \in S : \E i \in DOMAIN plan : i < round /\ {t} \in plan[i]
    BY <1>3 DEF Earlier
  <1>7. S \cap now = {}
    <2>1. ASSUME NEW t \in S, t \in now
          PROVE  FALSE
      <3>1. PICK i \in DOMAIN plan : i < round /\ {t} \in plan[i]
        BY <1>6
      <3>2. i = round
        BY <1>1, <1>4, <1>5, <2>1, <3>1 DEF Planned
      <3> QED
        BY <1>1, <3>1, <3>2
    <2> QED
      BY <2>1
  <1>8. \A t \in now : WellFormed(messages[t]) /\ tasks[t].stage = "done"
    BY <1>3, <1>4, <1>5 DEF BlockInv, RoundOver
  <1>9. \A t, u \in now : t # u => Apart(tasks, t, u, common)
    BY <1>3, <1>5 DEF RoundsApart
  <1>10. ASSUME NEW t \in now, NEW u \in S \cup now, u \in S \/ u < t
         PROVE  <<u, t>> \in less /\ <<t, u>> \notin less
    <2>1. PICK i \in DOMAIN plan : {u} \in plan[i] /\ (i < round \/ (i = round /\ u < t))
      BY <1>5, <1>6, <1>10
    <2>2. t \in Txs /\ u \in Txs /\ round \in DOMAIN plan /\ {t} \in plan[round]
      BY <1>4, <1>5
    <2>3. PICK p : p = plan
      OBVIOUS
    <2>4. Planned(p)
      BY <1>1, <2>3
    <2> QED
      BY <1>3, <2>1, <2>2, <2>3, <2>4, RunsInTurn
  <1>11. SerialTo(S, tasks, base, first, messages, less) /\ SideBySide(now, tasks, messages, base, common)
    BY <1>2, <1>3
  <1>12. IsCache(common)
    BY <1>1, <1>3
  <1>13. SerialTo(S \cup now, tasks, common, first, messages, less)
    BY <1>4, <1>7, <1>8, <1>9, <1>10, <1>11, <1>12, RoundRuns
  <1> QED
    BY <1>3, <1>13

LEMMA EndRounds ==
    ASSUME BlockInv, RoundsInvariant, EndRound
    PROVE  RoundsInvariant'
  <1>1. /\ phase = "execute" /\ RoundOver
        /\ UNCHANGED <<predictions, block, method, forecast, truth, database, plan, full, task>>
    BY DEF EndRound
  <1>2. /\ IsMap(task, Txs) /\ round \in Nat \ {0} /\ method \in Methods
        /\ Planned(plan) /\ (Txs = {} \/ round \in DOMAIN plan)
        /\ IsCache(full) /\ TasksByRound /\ RoundsAlone
    BY <1>1 DEF RoundsInvariant
  <1>3. Planned(plan)'
    <2>1. Vertices' = Vertices /\ \A u, v : Interfere(u, v)' = Interfere(u, v)
      BY <1>1 DEF Vertices, Interfere
    <2> QED
      BY <1>1, <1>2, <2>1 DEF Planned
  <1>4. ToFetch' = ToFetch
    BY <1>1 DEF ToFetch
  <1>5. CASE round = Len(plan)
    <2>1. phase' = "done" /\ round' = round
      BY <1>5 DEF EndRound
    <2>2. RoundOver' /\ TasksByRound'
      BY <1>1, <1>2, <2>1 DEF RoundOver, TasksByRound
    <2>3. RoundsApart' = RoundsApart
      BY <1>1 DEF RoundsApart
    <2>4. RoundsAlone'
      BY <1>1, <1>2, <1>4, <2>1, <2>3 DEF RoundsAlone
    <2> QED
      BY <1>1, <1>2, <1>3, <1>5, <2>1, <2>2, <2>4 DEF RoundsInvariant
  <1>6. CASE round # Len(plan)
    <2>1. phase' = "execute" /\ round' = round + 1
      BY <1>1, <1>6 DEF EndRound
    <2>2. DOMAIN plan = 1..Len(plan) /\ Len(plan) \in Nat
      BY <1>2 DEF Planned
    <2>3. (Txs = {} \/ round + 1 \in DOMAIN plan) /\ round + 1 \in Nat \ {0}
      <3>1. PICK n \in Nat, m \in Nat : n = Len(plan) /\ m = round
        BY <1>2, <2>2
      <3>2. m \in 1..n => m + 1 \in 1..n
        BY <1>6, <3>1
      <3>3. m + 1 \in Nat \ {0}
        OBVIOUS
      <3>4. Txs = {} \/ m \in 1..n
        BY <1>2, <2>2, <3>1, Zenon
      <3> QED
        BY <2>2, <3>1, <3>2, <3>3, <3>4, Zenon
    <2>4. Earlier(plan, round + 1) = Earlier(plan, round) \cup InRound(plan, round)
      <3>1. \A i \in DOMAIN plan : i < round + 1 <=> (i < round \/ i = round)
        BY <1>2, <2>2
      <3>2. ASSUME NEW t \in Txs
            PROVE  t \in Earlier(plan, round + 1) <=> t \in Earlier(plan, round) \cup InRound(plan, round)
        BY <1>2, <3>1 DEF Earlier, InRound
      <3> QED
        BY <3>2 DEF Earlier, InRound
    <2>5. TasksByRound'
      <3>1. \A t \in Txs : Going(task[t])
        BY <1>2 DEF TasksByRound
      <3>2. \A t \in Earlier(plan, round + 1) : task[t].stage = "done"
        BY <1>1, <1>2, <2>4 DEF TasksByRound, RoundOver, InRound
      <3>3. \A i \in DOMAIN plan : i > round + 1 => i > round
        BY <1>2, <2>2
      <3>4. \A i \in DOMAIN plan : i > round + 1 => \A t \in InRound(plan, i) : task[t] = NewTask(t, block[t])
        BY <1>2, <3>3 DEF TasksByRound
      <3> QED
        BY <1>1, <2>1, <3>1, <3>2, <3>4 DEF TasksByRound
    <2>6. RoundsAlone'
      <3> SUFFICES ASSUME RoundsApart
                   PROVE  /\ SideBySide(InRound(plan, round + 1), task, block, full, full)
                          /\ SerialTo(Earlier(plan, round + 1), task, full, Fetched(ToFetch), block, RunsBefore(plan))
        BY <1>1, <1>4, <2>1 DEF RoundsAlone, RoundsApart
      <3>1. SerialTo(Earlier(plan, round + 1), task, full, Fetched(ToFetch), block, RunsBefore(plan))
        BY <1>1, <2>4, RoundEnds
      <3>2. PICK S, tasks, messages, common :
                S = InRound(plan, round + 1) /\ tasks = task /\ messages = block /\ common = full
        OBVIOUS
      <3>3. ASSUME NEW t \in S
            PROVE  WellFormed(messages[t]) /\ tasks[t] = NewTask(t, messages[t])
        <4>1. t \in Txs /\ t \in InRound(plan, round + 1)
          BY <3>2 DEF InRound
        <4>2. round + 1 \in DOMAIN plan /\ round + 1 > round
          BY <1>2, <2>3, <4>1
        <4> QED
          BY <1>2, <3>2, <4>1, <4>2 DEF BlockInv, TasksByRound
      <3>4. SideBySide(S, tasks, messages, common, common)
        BY <1>2, <3>2, <3>3, NobodyYet
      <3> QED
        BY <3>1, <3>2, <3>4
    <2> QED
      BY <1>1, <1>2, <1>3, <2>1, <2>3, <2>5, <2>6 DEF RoundsInvariant
  <1> QED
    BY <1>5, <1>6

LEMMA NextRounds ==
    ASSUME BlockInv, FullStateInvariant, RoundsInvariant, [Next]_vars
    PROVE  RoundsInvariant'
  <1>1. CASE \E t \in Txs : StepTx(t)
    BY <1>1, StepRounds
  <1>2. CASE Prefetch
    BY <1>2, PrefetchRounds
  <1>3. CASE EndRound
    BY <1>3, EndRounds
  <1>4. ASSUME phase \in {"predict", "record"}, phase' \in {"predict", "record", "panic", "nilPanic"},
               UNCHANGED <<block, method, round, task>>
        PROVE  RoundsInvariant'
    BY <1>4 DEF RoundsInvariant
  <1>5. CASE \E t \in Txs : PredictTx(t) \/ RecordTx(t)
    BY <1>4, <1>5 DEF PredictTx, RecordTx
  <1>6. CASE EndPredictions \/ Panic
    BY <1>4, <1>6 DEF EndPredictions, Panic
  <1>7. CASE UNCHANGED vars
    <2>1. /\ Planned(plan)' = Planned(plan) /\ TasksByRound' = TasksByRound /\ RoundsAlone' = RoundsAlone
          /\ RoundOver' = RoundOver
      BY <1>7 DEF vars, Planned, Vertices, Interfere, TasksByRound, RoundsAlone, RoundsApart, RoundOver, ToFetch
    <2> QED
      BY <1>7, <2>1 DEF vars, RoundsInvariant
  <1> QED
    BY <1>1, <1>2, <1>3, <1>5, <1>6, <1>7 DEF Next, Stopped

\* At every point of a round its transactions, whatever the order of their
\* accesses, are where each would be alone on the cache the round began with.
THEOREM RoundsAreInvariant == Spec => []RoundsInvariant
  <1>1. BlockInv /\ FullStateInvariant /\ RoundsInvariant /\ [Next]_vars => RoundsInvariant'
    BY NextRounds
  <1> QED
    BY <1>1, InitRounds, BlockStays, ExecutionsAreSound, PTL DEF Spec

\* The order that Serial is given.
LEMMA RunOrderIsSorted ==
    ASSUME Planned(plan), IsFiniteSet(Txs), Txs \subseteq Nat
    PROVE  RunOrder \in SetToSeqs(Txs) /\ Sorted(RunOrder, RunsBefore(plan))
  <1> DEFINE Before(t, u) == IF RoundOf(t) = RoundOf(u) THEN t < u ELSE RoundOf(t) < RoundOf(u)
             InTurn(order) == \A i, j \in DOMAIN order : i < j => Before(order[i], order[j])
  <1>1. ASSUME NEW t \in Txs
        PROVE  RoundOf(t) \in DOMAIN plan /\ {t} \in plan[RoundOf(t)] /\ RoundOf(t) \in Int
    <2>1. \E i \in DOMAIN plan : {t} \in plan[i]
      BY DEF Planned
    <2>2. RoundOf(t) \in DOMAIN plan /\ {t} \in plan[RoundOf(t)]
      BY <2>1 DEF RoundOf
    <2> QED
      BY <2>2 DEF Planned
  <1>2. \A t \in Txs : \A i \in DOMAIN plan : {t} \in plan[i] => i = RoundOf(t)
    BY <1>1 DEF Planned
  <1>3. ASSUME NEW t \in Txs, NEW u \in Txs
        PROVE  <<t, u>> \in RunsBefore(plan) <=> RoundOf(t) < RoundOf(u) \/ (RoundOf(t) = RoundOf(u) /\ t < u)
    BY <1>1, <1>2 DEF RunsBefore
  <1>4. ASSUME NEW t \in Txs, NEW u \in Txs
        PROVE  <<t, u>> \in RunsBefore(plan) <=> Before(t, u)
    <2>1. PICK i \in Int, j \in Int : i = RoundOf(t) /\ j = RoundOf(u)
      BY <1>1
    <2>2. <<t, u>> \in RunsBefore(plan) <=> i < j \/ (i = j /\ t < u)
      BY <1>3, <2>1
    <2> QED
      BY <2>1, <2>2
  <1>5. \A t, u \in Txs : t # u => <<t, u>> \in RunsBefore(plan) \/ <<u, t>> \in RunsBefore(plan)
    <2> SUFFICES ASSUME NEW t \in Txs, NEW u \in Txs, t # u
                 PROVE  <<t, u>> \in RunsBefore(plan) \/ <<u, t>> \in RunsBefore(plan)
      OBVIOUS
    <2>1. PICK i \in Int, j \in Int : i = RoundOf(t) /\ j = RoundOf(u)
      BY <1>1
    <2>2. /\ <<t, u>> \in RunsBefore(plan) <=> i < j \/ (i = j /\ t < u)
          /\ <<u, t>> \in RunsBefore(plan) <=> j < i \/ (j = i /\ u < t)
      BY <1>3, <2>1
    <2>3. t \in Int /\ u \in Int
      OBVIOUS
    <2>4. i < j \/ (i = j /\ t < u) \/ j < i \/ (j = i /\ u < t)
      BY <2>3
    <2> QED
      BY <2>2, <2>4
  <1>6. \A t, u, v \in Txs :
            <<t, u>> \in RunsBefore(plan) /\ <<u, v>> \in RunsBefore(plan) => <<t, v>> \in RunsBefore(plan)
    <2> SUFFICES ASSUME NEW t \in Txs, NEW u \in Txs, NEW v \in Txs,
                        <<t, u>> \in RunsBefore(plan), <<u, v>> \in RunsBefore(plan)
                 PROVE  <<t, v>> \in RunsBefore(plan)
      OBVIOUS
    <2>1. PICK i \in Int, j \in Int, k \in Int : i = RoundOf(t) /\ j = RoundOf(u) /\ k = RoundOf(v)
      BY <1>1
    <2>2. (i < j \/ (i = j /\ t < u)) /\ (j < k \/ (j = k /\ u < v))
      BY <1>3, <2>1
    <2>3. t \in Int /\ u \in Int /\ v \in Int
      OBVIOUS
    <2>4. i < k \/ (i = k /\ t < v)
      BY <2>2, <2>3
    <2> QED
      BY <1>3, <2>1, <2>4
  <1>7. ASSUME NEW order \in SetToSeqs(Txs)
        PROVE  InTurn(order) <=> Sorted(order, RunsBefore(plan))
    <2>1. order \in Seq(Txs) /\ DOMAIN order = 1..Len(order)
      BY ListsEach
    <2>2. \A i \in 1..Len(order) : order[i] \in Txs
      BY <2>1
    <2> HIDE DEF Before
    <2> QED
      BY <1>4, <2>1, <2>2 DEF Sorted
  <1>8. PICK listing \in SetToSeqs(Txs) : Sorted(listing, RunsBefore(plan))
    <2>1. PICK less : less = RunsBefore(plan)
      OBVIOUS
    <2> QED
      BY <1>5, <1>6, <2>1, SortedList
  <1>9. RunOrder = CHOOSE order \in SetToSeqs(Txs) : InTurn(order)
    BY DEF RunOrder, InOrder
  <1> HIDE DEF InTurn
  <1>10. RunOrder \in SetToSeqs(Txs) /\ InTurn(RunOrder)
    BY <1>7, <1>8, <1>9
  <1> QED
    BY <1>7, <1>10

\* Right predictions keep apart what is in one round.
LEMMA LuckyRoundsApart ==
    ASSUME RoundsInvariant, phase = "done", RightlyPredicted, FieldsApart
    PROVE  RoundsApart
  <1>1. Planned(plan)
    BY DEF RoundsInvariant
  <1>2. ASSUME NEW i \in DOMAIN plan, NEW t \in InRound(plan, i), NEW u \in InRound(plan, i), t # u
        PROVE  Apart(task, t, u, full)
    <2>1. t \in Txs /\ u \in Txs /\ {t} \in plan[i] /\ {u} \in plan[i]
      BY DEF InRound
    <2>2. RoundOf(t) = i /\ RoundOf(u) = i
      BY <1>1, <2>1 DEF Planned, RoundOf
    <2>3. \A a \in task[t].fields \cap task[u].fields : ~full.accounts[a].held
      BY <1>2, <2>1, <2>2 DEF FieldsApart
    <2>4. ~Interfere(t, u)
      BY <1>1, <1>2, <2>1 DEF Planned
    <2>5. ASSUME NEW k \in task[t].rw.writes, k \in Touched(task[u].rw)
          PROVE  FALSE
      <3>1. k \in predictions[t].writes /\ k \in Touched(predictions[u])
        BY <2>1, <2>5 DEF RightlyPredicted
      <3>2. Interfere(t, u)
        BY <3>1 DEF Interfere, Touched
      <3> QED
        BY <2>4, <3>2
    <2> QED
      BY <2>3, <2>5 DEF Apart
  <1> QED
    BY <1>2 DEF RoundsApart

\* Rightly predicted transactions that run side by side on the shared full
\* cache, their accesses in any order, leave there what they leave one after the
\* other, and see what they see then: if no two of a round have met in a balance
\* or a nonce.
THEOREM RoundsAreSerial == Spec => []RoundsSerial
  <1>1. ASSUME BlockInv, RoundsInvariant, phase = "done", RightlyPredicted, FieldsApart
        PROVE  Serial(RunOrder, Fetched(ToFetch)) = [store |-> full, tasks |-> task]
    <2>1. /\ IsMap(task, Txs) /\ round \in Nat /\ Planned(plan) /\ (Txs = {} \/ round \in DOMAIN plan)
          /\ round = Len(plan) /\ RoundOver
      BY <1>1 DEF RoundsInvariant
    <2>2. RoundsApart
      BY <1>1, LuckyRoundsApart
    <2>3. Earlier(plan, round) \cup InRound(plan, round) = Txs
      <3>1. DOMAIN plan = 1..Len(plan)
        BY <2>1 DEF Planned
      <3>2. ASSUME NEW t \in Txs
            PROVE  t \in Earlier(plan, round) \cup InRound(plan, round)
        <4>1. PICK i \in DOMAIN plan : {t} \in plan[i]
          BY <2>1 DEF Planned
        <4>2. i < round \/ i = round
          BY <2>1, <3>1
        <4> QED
          BY <4>1, <4>2 DEF Earlier, InRound
      <3>3. Earlier(plan, round) \subseteq Txs /\ InRound(plan, round) \subseteq Txs
        BY DEF Earlier, InRound
      <3> QED
        BY <3>2, <3>3
    <2>4. SerialTo(Txs, task, full, Fetched(ToFetch), block, RunsBefore(plan))
      <3>1. phase \in {"execute", "done"}
        BY <1>1
      <3>2. SerialTo(Earlier(plan, round) \cup InRound(plan, round), task, full, Fetched(ToFetch), block,
                     RunsBefore(plan))
        BY <1>1, <2>1, <2>2, <3>1, RoundEnds
      <3> QED
        BY <2>3, <3>2
    <2>5. PICK order, first : order = RunOrder /\ first = Fetched(ToFetch)
      OBVIOUS
    <2>6. order \in SetToSeqs(Txs) /\ Sorted(order, RunsBefore(plan))
      BY <2>1, <2>5, RunOrderIsSorted, VerticesAreNumbers
    <2>7. PICK n : n = Len(order)
      OBVIOUS
    <2>8. n \in Nat /\ DOMAIN order = 1..n
      BY <2>6, <2>7, ListsEach, VerticesAreNumbers
    <2>9. PICK h : SerialChain(h, n, order, first, block) /\ h[n] = [store |-> full, tasks |-> [t \in Txs |-> task[t]]]
      BY <2>4, <2>5, <2>6, <2>7 DEF SerialTo
    <2>10. PICK g : SerialChain(g, n, order, first, block) /\ Serial(order, first) = g[n]
      BY <2>8, SerialIsChain
    <2>11. g[n] = h[n]
      <3>1. PICK messages : messages = block
        OBVIOUS
      <3>2. SerialChain(h, n, order, first, messages) /\ SerialChain(g, n, order, first, messages)
        BY <2>9, <2>10, <3>1
      <3> QED
        BY <2>8, <3>2, SerialChainsAgree
    <2>12. task = [t \in Txs |-> task[t]]
      BY <2>1 DEF IsMap
    <2> QED
      BY <2>5, <2>9, <2>10, <2>11, <2>12
  <1>2. BlockInv /\ RoundsInvariant => RoundsSerial
    BY <1>1 DEF RoundsSerial
  <1> QED
    BY <1>2, RoundsAreInvariant, BlockStays, PTL
=============================================================================
