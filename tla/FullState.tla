------------------------------- MODULE FullState -------------------------------
(***************************************************************************)
(* The drivers that run the rounds of a block directly on one full cache,  *)
(* ExecWithDegreeZeroConcurrentFullstate and                               *)
(* ExecWithMISConcurrentFullstate: the transactions are predicted one by   *)
(* one on the database before the block, and executed in the block's order *)
(* for the true RW sets; the cache is prefetched with both; then the       *)
(* transactions of a round run side by side, each step by step, and        *)
(* wg.Wait ends the round.  Nothing is merged, nothing is judged.          *)
(***************************************************************************)
EXTENDS GroupPlans, StateTransition, TLC

CONSTANTS
    Blocks,         \* tx -> message
    Database        \* the state before the block

\* What an RW set names: slots, and fields of accounts.
NamedSets ==
    LET Named == Keys \cup Addresses \X {"CODE", "CODEHASH", "BALANCE", "ALIVE"}
    IN  [reads : SUBSET Named, writes : SUBSET Named]

ASSUME FullStateAssumption ==
    /\ Methods \subseteq {"DegreeZero", "MIS"}
    /\ \A messages \in Blocks : \A t \in Txs : WellFormed(messages[t])
    /\ Database = [shared |-> FALSE, accounts |-> Database.accounts,
                   slots |-> [k \in Keys |-> Database.slots[k]], refund |-> Database.refund]
    /\ Database.refund \in Nat
    /\ Database.accounts \in
        [Addresses -> [held : BOOLEAN, balance : Nat, nonce : Nat, code : BOOLEAN, alive : BOOLEAN]]
    /\ \A a \in Addresses : Database.accounts[a].code => Database.accounts[a].held
    /\ IsFiniteSet(Addresses)
    /\ Slots \cap {"CODE", "CODEHASH", "BALANCE", "ALIVE"} = {}
    /\ NoPrediction \notin NamedSets

VARIABLES
    block, method,
    phase,          \* "predict", "record", "execute", "done"; or the "panic" of
                    \* TrueRWSets or, on a nil prediction, of Prefetch: "nilPanic"
    forecast,       \* tx -> its execution in PredictRWSets
    truth,          \* tx -> its execution in TrueRWSets
    database,       \* the StateWithRwSets that these run on
    plan,           \* the rounds, a sequence of sets of singletons
    round,          \* the one at hand
    full,           \* the FullCacheConcurrent
    task            \* tx -> its execution on the full cache

vars == <<predictions, block, method, phase, forecast, truth, database, plan, round, full, task>>

Init ==
    /\ block \in Blocks /\ method \in Methods
    /\ predictions = [t \in Txs |-> NoPrediction]
    /\ phase = "predict"
    /\ task = [t \in Txs |-> NewTask(t, block[t])]
    /\ forecast = task /\ truth = task
    /\ database = Database /\ full = Database
    /\ plan = <<>> /\ round = 1

Done(tasks) == \A t \in Txs : tasks[t].stage = "done"

\* One after the other, in the order of the block.
Turn(tasks, t) ==
    /\ tasks[t].stage # "done"
    /\ \A u \in Txs : u < t => tasks[u].stage = "done"

\* Mutant: a transaction that fails has a prediction.
PredictedDespiteError(ran) == IF ran.stage = "done" THEN ran.rw ELSE NoPrediction

\* ExecToGenerateRWSet returns nil with an error.
Predicted(ran) == IF ran.stage = "done" /\ ran.err = "nil" THEN ran.rw ELSE NoPrediction

\* PredictRWSets: each on a database of its own, as it is before the block.
PredictTx(t) ==
    /\ phase = "predict" /\ Turn(forecast, t)
    /\ LET s == Step([task |-> forecast[t], store |-> database])
       IN  /\ forecast' = [forecast EXCEPT ![t] = s.task]
           /\ database' = IF s.task.stage = "done" THEN Database ELSE s.store
           /\ predictions' = [predictions EXCEPT ![t] = Predicted(s.task)]
    /\ UNCHANGED <<block, method, phase, truth, plan, round, full, task>>

EndPredictions ==
    /\ phase = "predict" /\ Done(forecast)
    /\ phase' = "record"
    /\ UNCHANGED <<predictions, block, method, forecast, truth, database, plan, round, full, task>>

\* CreateRWSetsWithTransactions: all on one database.
RecordTx(t) ==
    /\ phase = "record" /\ Turn(truth, t)
    /\ LET s == Step([task |-> truth[t], store |-> database])
       IN  truth' = [truth EXCEPT ![t] = s.task] /\ database' = s.store
    /\ UNCHANGED <<predictions, block, method, phase, forecast, plan, round, full, task>>

\* FullCacheConcurrent.Prefetch of these keys: an account of which a field or a
\* slot is named is created, its other fields empty.
Fetched(keys) ==
    LET Account(a) ==
            LET Has(field) == <<a, field>> \in keys
                object == Database.accounts[a]
            IN  [held |-> \E k \in keys : k[1] = a,
                 balance |-> IF Has("BALANCE") THEN object.balance ELSE 0,
                 nonce |-> IF Has("NONCE") THEN object.nonce ELSE 0,
                 code |-> Has("CODE") /\ object.code,
                 alive |-> Has("ALIVE") => object.held]
    IN  [shared |-> TRUE, refund |-> 0,
         accounts |-> [a \in Addresses |-> Account(a)],
         slots |-> [k \in Keys |-> IF k \in keys THEN Database.slots[k] ELSE NoValue]]

Touched(rw) == rw.reads \cup rw.writes

ToFetch ==
    UNION {Touched(predictions[t]) \cup Touched(truth[t].rw) : t \in Txs}

\* TrueRWSets panics on an error.
Truthful == \A t \in Txs : truth[t].err = "nil"

\* A nil prediction is a nil pointer in Prefetch.
Panic ==
    /\ phase = "record" /\ Done(truth) /\ ~(Truthful /\ Vertices = Txs)
    /\ phase' = IF Truthful THEN "nilPanic" ELSE "panic"
    /\ UNCHANGED <<predictions, block, method, forecast, truth, database, plan, round, full, task>>

Prefetch ==
    /\ phase = "record" /\ Done(truth) /\ Truthful /\ Vertices = Txs
    /\ phase' = "execute"
    /\ plan' \in Plans(method)
    /\ full' = Fetched(ToFetch)
    /\ UNCHANGED <<predictions, block, method, forecast, truth, database, round, task>>

\* A task of ExecuteWithCCFullState; the pool has a worker for each.
StepTx(t) ==
    /\ phase = "execute" /\ {t} \in plan[round] /\ task[t].stage # "done"
    /\ LET s == Step([task |-> task[t], store |-> full])
       IN  full' = s.store /\ task' = [task EXCEPT ![t] = s.task]
    /\ UNCHANGED <<predictions, block, method, phase, forecast, truth, database, plan, round>>

RoundOver == \A t \in Txs : {t} \in plan[round] => task[t].stage = "done"

EndRound ==
    /\ phase = "execute" /\ RoundOver
    /\ IF round = Len(plan) THEN phase' = "done" /\ round' = round
       ELSE phase' = phase /\ round' = round + 1
    /\ UNCHANGED <<predictions, block, method, forecast, truth, database, plan, full, task>>

Stopped == phase \in {"done", "panic", "nilPanic"} /\ UNCHANGED vars

Next ==
    \/ \E t \in Txs : PredictTx(t) \/ RecordTx(t) \/ StepTx(t)
    \/ EndPredictions \/ Panic \/ Prefetch \/ EndRound \/ Stopped

Spec == Init /\ [][Next]_vars
-----------------------------------------------------------------------------
(* Properties.                                                              *)

\* The reference: these transactions, each from its beginning to its end.
Serial(order, store) ==
    LET Go(run, t) ==
            LET s == ExecuteTx(t, block[t], run.store)
            IN  [store |-> s.store,
                 tasks |-> [u \in {t} \cup DOMAIN run.tasks |-> IF u = t THEN s.task ELSE run.tasks[u]]]
    IN  FoldLeft(Go, [store |-> store, tasks |-> <<>>], order)

\* The transactions one after the other.
InOrder(Precedes(_, _)) ==
    CHOOSE order \in SetToSeqs(Txs) : \A i, j \in DOMAIN order : i < j => Precedes(order[i], order[j])

BlockOrder == InOrder(<)

RoundOf(t) == CHOOSE i \in DOMAIN plan : {t} \in plan[i]

RunOrder ==
    LET Before(t, u) == IF RoundOf(t) = RoundOf(u) THEN t < u ELSE RoundOf(t) < RoundOf(u)
    IN  InOrder(Before)

\* What a transaction has touched on the cache is what was predicted.
RightlyPredicted ==
    \A t \in Txs : /\ Touched(task[t].rw) \subseteq Touched(predictions[t])
                   /\ task[t].rw.writes \subseteq predictions[t].writes

\* The graph knows nothing of balances and nonces: that no two transactions of
\* a round use those of an account in the cache is luck.
FieldsApart ==
    \A t, u \in Txs : t # u /\ RoundOf(t) = RoundOf(u) =>
        \A a \in task[t].fields \cap task[u].fields : ~full.accounts[a].held

\* Rightly predicted transactions that run side by side on the shared full
\* cache, without a lock, leave in it what they leave there one after the other,
\* in the slots and in the balances, and see what they see then.
RoundsSerial ==
    phase = "done" /\ RightlyPredicted /\ FieldsApart =>
        Serial(RunOrder, Fetched(ToFetch)) = [store |-> full, tasks |-> task]

\* IterateBlock counts no false prediction.
NoneCountedFalse == \A t \in Txs : Equal(truth[t].rw, predictions[t])

\* The contracts that a transaction has called on the cache are there as they are
\* in the database: where no RW set names one, the cache answers that it does not
\* exist, and nothing of a CALL is recorded.
CalleesFetched ==
    \A t \in Txs : \A k \in task[t].traced.reads :
        k[2] = "CODE" => Callable(full, k[1]) = Callable(Database, k[1])

\* Where IterateBlock counts no false prediction, the layers leave in the slots
\* of the cache what the block leaves in the database, although Equal looks only
\* one way; independent sets do, in their own order, if no transaction touches
\* more than was predicted or calls a contract that was not.  Neither holds when a
\* call fails that has written something, which the cache cannot take back, or when
\* a balance is looked at, which it has not fetched.
AnswersLikeDatabase ==
    LET Undone == \E t \in Txs : task[t].undone
        LooksAtBalance == \E t \in Txs : \E i \in DOMAIN block[t].program : block[t].program[i].op = "BALANCE"
        Layers == method = "DegreeZero"
        order == IF Layers THEN BlockOrder ELSE RunOrder
    IN  /\ phase = "done"
        /\ IF Layers THEN NoneCountedFalse ELSE RightlyPredicted /\ CalleesFetched
        /\ ~Undone /\ ~LooksAtBalance
        => \A k \in Keys : full.slots[k] \in {NoValue, Serial(order, Database).store.slots[k]}

\* A nil prediction never reaches Prefetch: what makes a transaction fail before
\* the block makes it fail in the block too, and TrueRWSets has stopped then.
NoNilPrediction == phase # "nilPanic"

\* Of the executions of every transaction: in PredictRWSets, in TrueRWSets, on
\* the cache.
OfAllRuns(Holds(_)) == \A t \in Txs : Holds(forecast[t]) /\ Holds(truth[t]) /\ Holds(task[t])

\* Whatever is recorded of the instructions modelled (Instructions), on the database
\* or on the cache, is also traced, as CompareTracerAndFulldb expects of the two: at
\* each step, for a CALL or STATICCALL that fails or runs out of gas too.
TracerCovers ==
    LET Covers(ran) ==
            /\ ran.rw.writes \subseteq ran.traced.writes
            /\ ran.rw.reads \subseteq Touched(ran.traced)
    IN  OfAllRuns(Covers)

\* The refund counter of the database goes on counting through the block, and
\* still no transaction is given back more than a part of what it has used: the
\* gas pool never exceeds what AddGas put into it at first.
RefundsBounded ==
    LET Bounded(ran) ==
            LET used == ran.msg.limit - ran.gas
            IN  ran.stage = "done" /\ ran.err = "nil" =>
                    /\ ran.pool = ran.gas /\ ran.pool <= ran.msg.limit
                    /\ used * RefundQuotient >= IntrinsicGas * (RefundQuotient - 1)
    IN  OfAllRuns(Bounded)

\* The accounts whose code a message may run.
Called(msg) ==
    {msg.to} \cup {msg.program[i].account : i \in {j \in DOMAIN msg.program : msg.program[j].op \in Calls}}

FavorsOthers(msg) ==
    \A i \in DOMAIN msg.program :
        msg.program[i].op = "SELFDESTRUCT" => msg.program[i].account \notin Called(msg)

Supply(store) == MapThenSumSet(LAMBDA a : store.accounts[a].balance, Addresses)

Returned(tasks) ==
    LET Coin(ran) == IF ran.stage = "done" /\ ran.err = "nil" THEN ran.pool * ran.msg.price ELSE 0
    IN  MapThenSumSet(LAMBDA t : Coin(tasks[t]), Txs)

\* All coin that the transactions done so far have added to the balances of the
\* database is the price of the gas that refundGas returned to them; buyGas takes
\* nothing, and a self-destruct only moves what there is, or destroys it where an
\* account names itself.
SupplyGrowsByRefunds ==
    LET Between == \A t \in Txs : truth[t].stage \in {"check", "done"}
        grown == Supply(Database) + Returned(truth)
    IN  phase = "record" /\ Between =>
            /\ Supply(database) <= grown
            /\ (\A t \in Txs : FavorsOthers(block[t])) => Supply(database) = grown
=============================================================================
