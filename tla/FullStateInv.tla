----------------------------- MODULE FullStateInv -----------------------------
(***************************************************************************)
(* The inductive invariants: what is true of the execution of a            *)
(* transaction between any two of its accesses to the state, and how       *)
(* predictions relate to it, behind NoNilPrediction, TracerCovers and      *)
(* RefundsBounded; and what the balances of the database add up to.        *)
(***************************************************************************)
EXTENDS FullState

IsState(store) ==
    /\ DOMAIN store = {"shared", "accounts", "slots", "refund"}
    /\ store.shared \in BOOLEAN /\ store.refund \in Nat

IsTask(ran) ==
    DOMAIN ran = {"tx", "msg", "err", "stage", "gas", "pool", "pc", "frames", "loaded", "amount",
                  "seen", "rw", "traced", "fields", "undone"}

\* The calls under way; on the database each has the state to go back to.
FramesInv(frames, shared) ==
    /\ frames \in Seq(Range(frames))
    /\ \A i \in DOMAIN frames :
        /\ frames[i].account \in Addresses
        /\ ~shared => IsState(frames[i].snapshot) /\ ~frames[i].snapshot.shared

\* What decides between success and failure is in the message alone.
Accepted(msg) == msg.valid /\ msg.limit >= IntrinsicGas

RefundBound(ran) ==
    /\ ran.gas <= ran.msg.limit
    /\ (ran.msg.limit - ran.gas) * RefundQuotient >= IntrinsicGas * (RefundQuotient - 1)

\* The gas is in the pool before and after, and in between never more than is
\* left of the limit; where an instruction is left, its call is still open.
StageInv(ran) ==
    \/ /\ ran.stage = "check" /\ ran.err = "nil"
       /\ ran.pool = ran.msg.limit /\ ran.pc = 0 /\ ran.frames = <<>>
    \/ /\ ran.stage = "done" /\ ran.err = "refused" /\ ~Accepted(ran.msg)
    \/ /\ ran.err = "nil" /\ Accepted(ran.msg) /\ ran.gas \in Nat
       /\ \/ /\ ran.stage = "setNonce" /\ ran.pool = 0 /\ ran.gas = ran.msg.limit - IntrinsicGas
             /\ ran.pc = 0 /\ ran.frames = <<>>
          \/ /\ ran.stage = "run" /\ ran.pool = 0 /\ ran.gas <= ran.msg.limit - IntrinsicGas
             /\ ran.pc \in Nat \ {0}
             /\ ran.pc <= Len(ran.msg.program) => Len(ran.frames) >= Depth(ran.msg.program, ran.pc)
          \/ ran.stage = "credit" /\ ran.pool = 0 /\ RefundBound(ran)
          \/ ran.stage = "done" /\ ran.pool = ran.gas /\ RefundBound(ran)

Covered(ran) ==
    ran.rw.writes \subseteq ran.traced.writes /\ ran.rw.reads \subseteq Touched(ran.traced)

\* An execution on a state that is shared, or is not.
TaskInv(ran, shared) ==
    /\ IsTask(ran) /\ ran.rw \in NamedSets /\ Covered(ran)
    /\ FramesInv(ran.frames, shared) /\ StageInv(ran)

PredictionInv ==
    \A t \in Txs :
        predictions[t] = IF forecast[t].stage = "done" /\ forecast[t].err = "nil" THEN forecast[t].rw
                         ELSE NoPrediction

\* Between any two steps of a driver: every execution is as it should be, in
\* whatever order the accesses to the full cache come, and a transaction is
\* predicted if and only if it can be executed.
FullStateInvariant ==
    /\ phase \in {"predict", "record", "execute", "done", "panic"}
    /\ phase # "predict" => Done(forecast)
    /\ DOMAIN forecast = Txs /\ DOMAIN truth = Txs /\ DOMAIN task = Txs
    /\ \A t \in Txs :
        /\ forecast[t].msg = block[t] /\ TaskInv(forecast[t], FALSE)
        /\ truth[t].msg = block[t] /\ TaskInv(truth[t], FALSE)
        /\ task[t].msg = block[t] /\ TaskInv(task[t], TRUE)
    /\ IsState(database) /\ ~database.shared
    /\ IsState(full) /\ (phase = "execute" => full.shared)
    /\ DOMAIN predictions = Txs /\ PredictionInv

-----------------------------------------------------------------------------
(* The inductive invariant behind SupplyGrowsByRefunds.                     *)

HasBalances(store) ==
    /\ DOMAIN store.accounts = Addresses
    /\ \A a \in Addresses :
        /\ DOMAIN store.accounts[a] = {"held", "balance", "nonce", "code", "alive"}
        /\ store.accounts[a].balance \in Nat

\* What the balances of a state add up to: at most this, exactly this where no
\* account can destroy what it has.
Worth(store, most, exact) ==
    /\ HasBalances(store)
    /\ Supply(store) <= most
    /\ exact => Supply(store) = most

\* Between two steps of the one execution under way, what it has loaded to write
\* back is still so, and so much are the states worth that it can go back to.
Underway(ran, store, most, exact) ==
    ran.stage \in {"setNonce", "run", "credit"} =>
        /\ \A i \in DOMAIN ran.frames :
            ran.frames[i].account \in Called(ran.msg) /\ Worth(ran.frames[i].snapshot, most, exact)
        /\ ran.stage = "run" /\ ran.pc \in DOMAIN ran.msg.program /\ ran.msg.program[ran.pc].op = "MOVE" =>
            /\ ran.loaded = store.accounts[ran.msg.program[ran.pc].account].balance
            /\ ran.amount = store.accounts[Self(ran)].balance
        /\ ran.stage = "credit" => ran.loaded = store.accounts[ran.msg.from].balance

\* No transaction begins before the one before it has ended.
OneAfterAnother(tasks) ==
    \A t, u \in Txs : u < t /\ tasks[u].stage # "done" => tasks[t].stage = "check"

AllFavorOthers == \A t \in Txs : FavorsOthers(block[t])
Due == Supply(Database) + Returned(truth)

SupplyInvariant ==
    /\ phase = "predict" =>
        /\ \A t \in Txs : truth[t].stage = "check"
        /\ Done(forecast) => database = Database
    /\ phase = "record" =>
        /\ OneAfterAnother(truth)
        /\ Worth(database, Due, AllFavorOthers)
        /\ \A t \in Txs : Underway(truth[t], database, Due, AllFavorOthers)
=============================================================================
