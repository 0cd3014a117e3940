--------------------------- MODULE StateTransition ---------------------------
(***************************************************************************)
(* The execution of one transaction, step by step: executeTx,              *)
(* TransitionDb and refundGas around the EVM, on the database, wrapped in  *)
(* StateWithRwSets, or directly on the full cache that other transactions  *)
(* use at the same time.  A step is one access to the state.               *)
(*                                                                         *)
(* The EVM is external.  A message is                                      *)
(* [valid, from, to, nonce, limit, price, program]; its program is the     *)
(* sequence of instructions that its input makes the contracts run, inner  *)
(* calls inlined.  Each instruction costs one gas, and one that the gas    *)
(* does not suffice for ends the transaction: no 64th part is held back    *)
(* from a call.  There are no transfers (CanTransfer and Transfer have     *)
(* their bodies commented out) and no creations.                           *)
(***************************************************************************)
EXTENDS Storage, Integers, SequencesExt, Recording

CONSTANTS
    NoValue,        \* the slot is not in the full cache
    IntrinsicGas, ClearRefund,
    RefundQuotient  \* params.RefundQuotient, or RefundQuotientEIP3529

ASSUME GasAssumption ==
    IntrinsicGas \in Nat /\ ClearRefund \in Nat /\ RefundQuotient \in Nat \ {0}

\* What a slot holds or a program has seen: a number, or what transaction t
\* has written, by all that it had seen.
Number(n) == [number |-> n]
Word(t, seen) == [tx |-> t, saw |-> seen]

Calls == {"CALL", "STATICCALL"}
Instructions ==
    Calls \cup {"SLOAD", "SSTORE", "CLEAR", "BALANCE", "JUMPI", "RETURN", "REVERT", "SELFDESTRUCT", "MOVE"}

\* How many calls are under way before the instruction at pc; one without a body
\* is not counted.
Depth(program, pc) ==
    LET Before == 1..(pc - 1)
    IN  1 + Cardinality({j \in Before : program[j].op \in Calls /\ program[j].skip > 0})
          - Cardinality({j \in Before : program[j].op \in {"RETURN", "REVERT"}})

\* What a message is: calls are nested, to skip an inner call or to jump leads to
\* an instruction of the same call, and only a SELFDESTRUCT leads to a MOVE.
WellFormed(msg) ==
    LET program == msg.program
    IN  /\ msg.from \in Addresses /\ msg.to \in Addresses /\ msg.limit \in Nat /\ msg.price \in Nat
        /\ program \in Seq(Range(program))
        /\ \A pc \in DOMAIN program :
            LET i == program[pc]
            IN  /\ i.op \in Instructions /\ Depth(program, pc) >= 1
                /\ i.op \notin {"JUMPI", "RETURN", "REVERT"} => i.account \in Addresses
                /\ i.op \in {"SLOAD", "SSTORE", "CLEAR"} => i.slot \in Slots
                /\ i.op \in Calls \cup {"JUMPI"} =>
                    /\ i.skip \in Nat /\ pc + i.skip <= Len(program)
                    /\ Depth(program, pc + 1 + i.skip) = Depth(program, pc)
                    /\ pc + 1 + i.skip \in DOMAIN program => program[pc + 1 + i.skip].op # "MOVE"
                /\ i.op = "MOVE" =>
                    pc > 1 /\ program[pc - 1].op = "SELFDESTRUCT" /\ program[pc - 1].account = i.account

-----------------------------------------------------------------------------
(* The states: [shared, accounts, slots, refund].  The full cache is        *)
(* shared; an account of it is held if an RW set names it.                   *)

Exist(store, a) == store.accounts[a].held
Callable(store, a) == Exist(store, a) /\ store.accounts[a].code

\* The full cache answers for a missing slot with zero, and drops writes to it.
GetState(store, k) == IF store.slots[k] = NoValue THEN Number(0) ELSE store.slots[k]
SetState(store, k, v) == [store EXCEPT !.slots[k] = IF @ = NoValue THEN @ ELSE v]

\* Writes to an account that the full cache does not hold are dropped.
SetAccount(store, a, object) ==
    IF store.shared /\ ~Exist(store, a) THEN store
    ELSE [store EXCEPT !.accounts[a] = [object EXCEPT !.held = TRUE]]
SetNonce(store, a, nonce) == SetAccount(store, a, [store.accounts[a] EXCEPT !.nonce = nonce])

\* The second half of an AddBalance that has loaded the balance before: nothing
\* locks the account in between.  On the full cache it is skipped for a zero; the
\* database then has the account, if it had not.
AddBalance(store, a, loaded, amount) ==
    IF store.shared /\ amount = 0 THEN store
    ELSE SetAccount(store, a, [store.accounts[a] EXCEPT !.balance = loaded + amount])

\* Mutant: the balance stays.
SelfDestructKeepsBalance(store, a) ==
    SetAccount(store, a, [store.accounts[a] EXCEPT !.alive = FALSE])

SelfDestruct(store, a) ==
    SetAccount(store, a, [store.accounts[a] EXCEPT !.alive = FALSE, !.balance = 0])

\* Nothing resets the counter: the database is never finalised.
AddRefund(store, gas) == IF store.shared THEN store ELSE [store EXCEPT !.refund = @ + gas]

\* The snapshots of the full cache are empty methods.
Snapshot(store) == IF store.shared THEN "none" ELSE store
RevertToSnapshot(store, snapshot) == IF store.shared THEN store ELSE snapshot

-----------------------------------------------------------------------------
(* A transaction under way on a state: [task, store].                       *)

NewTask(t, msg) ==
    [tx |-> t, msg |-> msg, err |-> "nil",
     stage |-> "check",     \* then "setNonce", "run", "credit", "done"
     gas |-> 0,             \* gasRemaining
     pool |-> msg.limit,    \* the GasPool, a new one for every transaction
     pc |-> 0,              \* 0 is the call from the outside
     frames |-> <<>>,       \* the calls under way: [account, snapshot]
     loaded |-> 0,          \* what GetNonce or GetBalance has returned
     amount |-> 0,          \* the balance that a self-destruct moves
     seen |-> <<>>,         \* what the program has read
     rw |-> NoTouch, traced |-> NoTouch,
     fields |-> {},         \* history: the accounts whose balance or nonce it uses
     undone |-> FALSE]      \* history: a call failed after something was written

\* Mutant: account checks are not skipped.
PrecheckedNonce(s) == s.task.msg.nonce = s.store.accounts[s.task.msg.from].nonce

\* executeTx sets SkipAccountChecks.
Prechecked(s) == TRUE

\* TransactionToMessage, preCheck with buyGas and the intrinsic gas, then
\* GetNonce, the first access to the state.
Check(s) ==
    LET msg == s.task.msg
    IN  IF msg.valid /\ Prechecked(s) /\ s.task.pool >= msg.limit /\ msg.limit >= IntrinsicGas
        THEN [s EXCEPT !.task.gas = msg.limit - IntrinsicGas, !.task.pool = @ - msg.limit,
                       !.task.loaded = s.store.accounts[msg.from].nonce,
                       !.task.fields = @ \cup {msg.from}, !.task.stage = "setNonce"]
        ELSE [s EXCEPT !.task.err = "refused", !.task.stage = "done"]

Instruction(task) ==
    IF task.pc = 0 THEN [op |-> "CALL", account |-> task.msg.to, skip |-> Len(task.msg.program)]
    ELSE task.msg.program[task.pc]

\* The account whose code runs; outside of all calls, the sender.
Self(task) == IF task.frames = <<>> THEN task.msg.from ELSE Last(task.frames).account

\* What the EVM asks of a callee.  Only a CALL looks before it asks: it does
\* nothing where there is no account, and where there is no code needs no hash.
Asked(store, i) ==
    IF i.op = "STATICCALL" \/ Callable(store, i.account) THEN {"CODE", "CODEHASH"}
    ELSE IF Exist(store, i.account) THEN {"CODE"} ELSE {}

\* StaticCall adds nothing to the balance of its callee.
Touch(store, i) ==
    IF i.op = "STATICCALL" THEN AddBalance(store, i.account, store.accounts[i.account].balance, 0) ELSE store

\* Call and StaticCall: a callee without code is a success at once.
Call(s, i) ==
    IF Callable(s.store, i.account)
    THEN [s EXCEPT !.task.frames = Append(@, [account |-> i.account, snapshot |-> Snapshot(s.store)])]
    ELSE [s EXCEPT !.store = Touch(@, i), !.task.pc = @ + i.skip]

\* A call that fails is reverted; its caller goes on.  The RW set keeps it.
Fail(s) ==
    [task |-> [s.task EXCEPT !.frames = Front(@), !.undone = @ \/ s.task.rw.writes # {}],
     store |-> RevertToSnapshot(s.store, Last(s.task.frames).snapshot)]

\* The instruction, its price already paid.  A CLEAR is an SSTORE of zero.  The
\* balance that a SELFDESTRUCT moves is read by it and written by MOVE.
Effect(s, i) ==
    LET Balance(a) == s.store.accounts[a].balance
        See(v) == [s EXCEPT !.task.seen = Append(@, v)]
        self == Self(s.task)
    IN  CASE i.op = "SLOAD" -> See(GetState(s.store, Key(i)))
          [] i.op = "SSTORE" ->
                [s EXCEPT !.store = SetState(@, Key(i), Word(s.task.tx, s.task.seen))]
          [] i.op = "CLEAR" ->
                [s EXCEPT !.store =
                    SetState(AddRefund(@, IF GetState(@, Key(i)) = Number(0) THEN 0 ELSE ClearRefund),
                             Key(i), Number(0))]
          [] i.op = "BALANCE" -> [See(Number(Balance(i.account))) EXCEPT !.task.fields = @ \cup {i.account}]
          [] i.op = "JUMPI" -> IF Last(s.task.seen) = Number(0) THEN [s EXCEPT !.task.pc = @ + i.skip] ELSE s
          [] i.op \in Calls -> Call(s, i)
          [] i.op = "RETURN" -> [s EXCEPT !.task.frames = Front(@)]
          [] i.op = "REVERT" -> Fail(s)
          [] i.op = "SELFDESTRUCT" ->
                [s EXCEPT !.task.loaded = Balance(i.account), !.task.amount = Balance(self),
                          !.task.fields = @ \cup {i.account, self}]
          [] i.op = "MOVE" ->
                [s EXCEPT !.store =
                            SelfDestruct(AddBalance(@, i.account, s.task.loaded, s.task.amount), self),
                          !.task.fields = @ \cup {i.account, self}]

Cost(i, pc) == IF pc = 0 \/ i.op = "MOVE" THEN 0 ELSE 1

\* Mutant: the refund is not capped.
RefundUncapped(used, counter) == counter

Refund(used, counter) ==
    LET cap == used \div RefundQuotient IN IF cap > counter THEN counter ELSE cap

\* refundGas: the remaining gas is paid for, although buyGas took nothing.
RefundGas(s) ==
    LET from == s.task.msg.from
        used == s.task.msg.limit - s.task.gas
    IN  [s EXCEPT !.task.gas = @ + Refund(used, s.store.refund),
                  !.task.loaded = s.store.accounts[from].balance,
                  !.task.frames = <<>>, !.task.stage = "credit"]

\* One instruction.  Without the gas for it, it is traced but not executed, and
\* everything since the call from the outside is reverted.
Run(s) ==
    LET i == Instruction(s.task)
        cost == Cost(i, s.task.pc)
        self == Self(s.task)
        traced == [s EXCEPT !.task.traced = Add(@, Traced(i, self))]
        paid == [traced EXCEPT !.task.gas = @ - cost, !.task.pc = @ + 1,
                               !.task.rw = Add(@, Recorded(i, self, Asked(s.store, i)))]
    IN  IF s.task.pc > Len(s.task.msg.program) THEN RefundGas(s)
        ELSE IF s.task.gas >= cost THEN Effect(paid, i)
        ELSE RefundGas(Fail([traced EXCEPT !.task.gas = 0, !.task.frames = SubSeq(@, 1, 1)]))

\* SetNonce; and the call from the outside, which looks only at what no
\* transaction changes: existence and code.
IncrementNonce(s) ==
    Run([s EXCEPT !.store = SetNonce(@, s.task.msg.from, s.task.loaded + 1), !.task.stage = "run"])

\* AddBalance and AddGas.
Credit(s) ==
    [s EXCEPT !.store = AddBalance(@, s.task.msg.from, s.task.loaded, s.task.gas * s.task.msg.price),
              !.task.pool = @ + s.task.gas, !.task.stage = "done"]

Step(s) ==
    CASE s.task.stage = "check" -> Check(s)
      [] s.task.stage = "setNonce" -> IncrementNonce(s)
      [] s.task.stage = "run" -> Run(s)
      [] s.task.stage = "credit" -> Credit(s)

\* The transaction alone, from its beginning to its end; no instruction goes
\* back, and four steps are none.
ExecuteTx(t, msg, store) ==
    LET Go(s, n) == IF s.task.stage = "done" THEN s ELSE Step(s)
    IN  FoldLeft(Go, [task |-> NewTask(t, msg), store |-> store],
                 [n \in 1..(Len(msg.program) + 4) |-> n])
=============================================================================
