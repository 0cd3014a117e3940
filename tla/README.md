# interact: a verification development

`interact` executes the Ethereum transactions of one block in parallel.  It
predicts which keys (account fields and storage slots) each transaction reads
and writes, groups the transactions so that those which run side by side do not
conflict, runs every group or transaction on a private cache prefetched from
the state, and merges the caches back.  Predictions can be wrong; a transaction
that touches a key outside its prediction must be noticed and undone.

This directory holds TLA+ modules of that machinery, the TLC configurations that
check them on small blocks, and proofs, checked by TLAPS, about the cache on
which everything rests, the reserve tables, Aria's rounds, the three groupings,
the block drivers and those on one full cache.  File names without a directory
below are files of `src/`.

## The system

The repository has no document of its own besides the comments in the code; the
modules are translated from the code.

| Component | Code | State | Operations | Model |
|---|---|---|---|---|
| Private cache | `state/cachestate.go`, `account.go`, `journal.go` | account map, journal with dirty counts, revisions, `StateJudge`, logs | prefetch, setters, judging getters, `Snapshot`, `RevertToSnapshot`, `MergeState` | `CacheState` |
| Running a group | `tracer/execute.go` (`executeTx`, `ExecuteTxs`) | the errors of the group | run, revert on a false prediction | `CacheState`; on other states `StateTransition` |
| Reserve tables | `accesslist/reserve.go` | a concurrent map of concurrent maps: key -> lowest transaction | `Reserve`, `HasConflict` | `ReserveSet` |
| Aria rounds | `utils/aria.go`, the multi-round loop of `geth.go`, `ExecWithSnapshotState` | list of the round, caches, RW sets, errors, full cache | prefetch, execute and reserve, decide, merge, next round | `Aria` |
| RW sets, conflict graph | `accesslist/rw_accesslist.go`, `utils/execute_env.go`, `conflictGraph/` | predictions, vertices, edges, degrees | `HasConflict`, building the graphs | `ConflictGraph` |
| Connected components | `conflictGraph/undirectGraph.go` | visited, component | `GetConnectedComponents`, `dfs` | `ConnectedComponents` |
| Degree-zero layers | `conflictGraph/directedGraph.go` | degrees, layers | `GetDegreeZero` | `DegreeZero` |
| Independent sets | `mis/linear.go`, `utils/mis.go` | graph, buckets by degree, set, stack | `NewSolution`, `Solve`, `solveMISInTurn` | `Mis` |
| Block drivers | `geth.go`, `utils/execute_func.go`, `utils/execute_env.go` | pool, wait group, caches, full cache | rounds of prefetch, execute, merge | `GroupPlans`, `BlockExec`, `Aria`, `FullState` |
| Shared full cache | `state/concurrentRWstate.go`, `concurrentAccount.go` | concurrent map of accounts | the `StateDB` methods, no snapshots | `FullState`; its slots under merges in `Aria`, `BlockExec` |
| Recording of RW sets | `state/fullstate.go`, `tracer/al_creator.go`, `tracer/rw_accesslists_tracer.go` | RW sets | recording getters and setters, opcode tracer | `Recording` |
| State transition | `core/state_transition.go`, `core/gaspool.go`, `core/evm.go` | gas, pool | checks, gas, call, refund | `StateTransition` |
| Environment, tools | `utils/eth_env.go`, `utils/testFunc/` | none | opens databases, true RW sets, prints comparisons | `TrueRWSets` in `FullState`, else I/O |
| Libraries | go-ethereum, ants, concurrent-map | | EVM, database, pool, map | external: as the code uses them |

How they interact: a driver in `geth.go` asks `execute_env.go` for groups; these
come from the conflict graph.  It makes one `CacheState` for each group (or each
transaction), prefetched from the state or the full cache, submits one task for
each to the `ants` pool, and waits on a `WaitGroup`.  A task calls `executeTx`,
which takes a snapshot of its cache and runs the EVM; the EVM calls the cache's
methods and, for each call frame, its snapshots.  After the wait, the main thread
merges the caches, in the Aria drivers after a decision made from two reserve
tables that all tasks share.

What is hard: reverts nested in reverts on a cache whose accounts appear and
disappear; a single flag, `StateJudge`, that must tell for each transaction of a
group whether what it saw was real; unlocked read-compare-write sequences on the
shared reserve tables; values read at the beginning of a round and written back
at its end; transactions that run side by side, without a lock, on a cache that can take
nothing back; predictions that record only part of what is touched; graph algorithms that
change the graph while they look at it.
PROJECT.json lists the hazards one by one, with their lines.

What makes each component correct:

- cache: a revert restores what its snapshot saw; nothing panics; while
  `StateJudge` stands, reads are what the database would have answered; the merge
  leaves what serial execution would have left;
- reserve tables: a key belongs to the lowest transaction that reserved it;
- drivers: a block's result is that of a serial execution of its accepted transactions;
- full cache: what transactions leave that run on it side by side is what they leave one after the
  other; where every prediction was right, it is what the database would have held;
- recording: what is recorded is what is touched, and the tracer sees all of it;
- state transition: gas and coin come from nowhere but the refunds;
- Aria: committed transactions are equivalent to a serial execution of them; no
  transaction is lost or takes effect twice; the rounds end;
- components, layers, independent sets: transactions that run side by side do
  not conflict; the block's order holds where the method promises it; each
  transaction is placed exactly once; the algorithms end.

## The modules

**`CacheState`** is one cache from its prefetch to its merge together with the
thread that runs `ExecuteTxs` on it.  The variables `Accounts`, `entries`,
`dirties`, `ValidRevisions`, `NextRevisionId`, `StateJudge`, `Logs` are the
fields of `CacheState` and `journal`; `frames` holds the snapshot ids that
`executeTx` and the EVM's call frames keep; `undo` holds the loop variables of a
`RevertToSnapshot` in progress; `pc` says where the worker stands.  Each setter
and judging getter is an action, in each of its branches: with and without an
account object, with and without the slot.  The EVM, a library, may call
any of them at any call depth in any order, enter a frame (`EnterCall`), return
from it (`ReturnCall`), or fail in it (`FailCall`).  `BeginTx`, `CommitTx`,
`FalsePredictTx`, `RejectedTx` and `InvalidTx` are the paths of `executeTx`.
`RejectedTx` uses that `TransitionDb` writes nothing before it returns an error.
A revert undoes one journal entry per step; `MergeAccount` is one iteration of
`MergeState`.  Three history variables, which no action of the code's reads,
remember the state before each journal entry (`past`), what storage would hold
had the transactions run on the database (`truth`), and whether the running
transaction read a slot that was not so (`stale`).  `SelfDestruct` keeps its effect on
balance and `IsAlive`; logs keep only their `Index`.

**`RevertibleStore`** is what such a cache promises: a store with a stack of saved
contents in which a rollback restores exactly the saved content, and nobody
looks while it is under way.  `CacheState!RevertRestores` is its specification
under the mapping store = (account map, dirty counts), hidden during the undo loop;
saves = what each open frame's snapshot saw.  **`CacheStateInv`** states the inductive
invariants, **`CacheStateProofs`** has the proofs, first those about reverts and
then those about what the cache and the merge hold.

**`ReserveSet`** is `reserve.go` at the granularity of single operations on the
concurrent maps, which are atomic: look the address up, look the key up, compare,
look the address up again, publish a new inner map, store.  Inner maps have identities
(their creators), since a task may store into one that has been replaced.  A history variable,
`raced`, collects the keys over which tasks get into a race: a task comes to a key at which another is
between its look-up and its store, or to an address without an inner map at which another is; the latter may
lose any key of the address.  **`Reservations`** is the abstract table.  `ReservesLowest` says that the first
implements the second on all other keys, whatever the number of workers.  **`ReserveSetInv`** says what holds between
its steps and **`ReserveSetProofs`** proves it.

**`Execution`** says what running a transaction does to a store, for the modules that
look at many caches at once.  Data is abstracted: a value is named by the transaction that
wrote it and what it had read, so that two stores are equal exactly if the same writes
happened on the same values.  A merge writes all cached slots of a dirty account, and an
account is dirty when a slot of it was written, or when it was only read through a STATICCALL,
by which the EVM adds 0 to its balance, and `AddBalance` journals that (`StaticCalled`).
**`Storage`** has the keys of contract storage.

**`Aria`** instantiates `ReserveSet` twice.  In `Prefetch` every listed transaction
gets a copy of the full cache; `Execute` chooses what its execution reads and
writes, and how it ends; `ReserveReads`, `ThenWrites`, `ReserveWrites` are the steps of
the two `Reserve` calls, interleaved with those of the other tasks; `Decide`
is the loop over the list after `wg.Wait`, in the version of `geth.go` or that of
`aria.go`; `MergeKey` is one `SetState` of a concurrent
`MergeState`; `EndRound` starts the next round.  `Started` models that the pool
has so many workers and that the main thread submits in order and blocks.
A false prediction keeps its RW set, which was recorded outside the cache; a
refused transaction records no slot.  A `Setups` entry names the driver, the number of workers,
and what the transactions may do, so that one run covers both drivers.  `Prefetch` and `Decide` are atomic: workers in
`Prefetch` only read the full cache, and `Decide` runs in the main thread alone.
**`AriaInv`** has the inductive invariants, **`AriaProofs`** the proofs.  It begins with lemmas about folds,
sorted lists and serial executions that `GroupPlansProofs` repeats for the block drivers: the one is about tasks
of a round, the other about plans for a block, and neither can extend the other.

**`GroupPlans`** gives the rounds and groups that a driver gets from each method, by what `Grouping`
checks of it; for the independent sets, any rounds in which nothing conflicts.  `Layer` is a recursive
function: a transaction's layer is the one after the highest of its earlier neighbors.  `GoodPlan` is what all of
these plans have in common; **`GroupPlansProofs`** has the lemmas that they do, and those that the proofs about
blocks share: folds over a sequence, lists sorted by an order, and what a serial execution leaves.

**`BlockExec`** is the nine drivers of `geth.go` that run a block over connected components,
degree-zero layers or independent sets on `CacheState`s: the concurrent ones, the older ones
that prefetch and merge in a single thread and then merge into the database, and those that first
run all transactions in one Aria round (`driver`).  It stands on what the other modules show and
does not repeat their steps: a cache is a store in which only an accepted transaction leaves a
trace, as `CacheState` is shown to be, and the Aria round decides as `Aria` does when no reservation is
lost.  `MakeFull` prefetches the full cache, which panics on a missing
prediction; `Prefetch` makes the caches of a round; `Execute` is one `executeTx` of a group's
task, interleaved with those of the others; `Executed` is the end of the wait; `AriaDecide` is the
end of `AriaOneRound`: what it returns is grouped anew, with the RW sets it recorded for
predictions; `MergeKey` is one
`SetState` of a merge; `Finish` the older drivers' merge into the database.  A cache or the full cache is a
function on the keys that it holds.  One history variable, `saw`, remembers what a transaction has read.
**`BlockExecInv`** has the inductive invariant, **`BlockExecProofs`** the proofs.

**`StateTransition`** is one transaction, access by access: `executeTx`, `TransitionDb` and
`refundGas` around an EVM that runs a short program of loads, stores, jumps, calls, balance look-ups and
self-destructs.  `Step` takes a pair of a task and a store to the next.  The store is the database, with
snapshots and a refund counter, or the full cache, which has neither, drops writes to what it does not
hold and answers zero for it.  An `AddBalance` loads in one step and stores in another, as
`accountObjectConcurrent` does without a lock; so does the nonce.  A `StaticCall` adds nothing to the balance of its callee (`Touch`): the full cache skips that, the database gives
the callee an account if it had none.  A slot's value is a
number or says which transaction wrote it, having seen what.  **`Recording`** says what
`StateWithRwSets` records and what the tracer adds for each instruction, and has `RWSet.Equal`.

**`FullState`** is the two drivers that run on the full cache.  First `PredictTx` executes each transaction,
step by step, on a database as it is before the block (`forecast`); then `RecordTx` executes them one after the other
on one database for the true RW sets (`truth`).  `Prefetch` fills the full
cache with both, or panics (`Panic`), in `TrueRWSets` or on a nil prediction; `StepTx` is one step of a transaction of
the round at hand (`task`); `EndRound` the end of `wg.Wait`.  All of these are `Step`, on one state or another.
`Serial`, with `ExecuteTx`, is the reference that properties compare with: a transaction from its beginning to its
end.  **`FullStateInv`** has the inductive invariant.  **`FullStateProofs`** has the proofs about single executions and
about rounds on the cache, **`DatabaseProofs`** those about the database: the supply, and that the cache answers like it.

**`ConflictGraph`** has the predictions of a block, `HasConflict`, the vertices and
edges; **`ConnectedComponents`**, **`DegreeZero`** and **`Mis`** are the three
algorithms, step by step, with every order in which Go may range over its maps
or pop from its sets; **`Grouping`** chooses the predictions and the algorithm.
`ConnectedComponents` has the recursion of `dfs` as a stack.  In `Mis` one step is
one reduction of `Solve` (`DegreeTwoPathReduction`, `InexactReduction`), one `deleteVertex` of
the loop of `degreeOneReduction` (`DegreeOneReduction` the first, `DeletePending` the others),
one pop of the stack or one round of `solveMISInTurn`; the
graph with its `AdjacencyMap`, buckets, set and stack are one record, `solution`, so that `DeleteVertex`,
`RemovePath` and `AddEdge` are functions from a solution to the next.  `RemovePath` is the
loop that calls `RemoveVertex` for one vertex of a path after the other, in one formula: a
vertex still there loses one degree for each neighbor cut out, and one of the path for those
that went before it.  `Walks` are the orders in which `pathReOrg` may list a path.  Degrees are
unsigned in the code; `Decrement` wraps at `MaxUint`, any value beyond the
largest degree.  (The code's constant `MAX_UINT` is something else, the mark of a
vertex that was not found; `Around` being empty stands for it.)  Two observations from this
model: after the reductions every vertex is in the set or deleted, so that no vertex of the
stack can ever be added to the set; and edges that join the ends of a path
stay in the graph for later rounds.  **`GroupingInv`** has the inductive invariants of the three
searches, **`GroupingProofs`** the proofs about components and layers, and then those about independent sets.

## The runs

| Run | Checks | Bounds |
|---|---|---|
| `group` | `CacheTellsTruth`, `StaleReadsInvalidate`, `MergeIsSerial`, `GhostInv` | two transactions of a group, two accounts, one slot each, two values, journal of 2, 4 snapshots, frames 2 deep; two partial predictions |
| `revert` | `TypeOK`, `IInv`, `NoPanic`, `RevertRestores` | one transaction with every operation, journal of 2, 3 snapshots, frames 3 deep, one log |
| `logs` | `RevertDropsLogs`, violated | as `group`, one transaction |
| `reserve` | `TypeOK`, `CalmInv`, `ReservesLowest` | three tasks, two of them in `Reserve` at once, each as often as it likes; one address with two slots |
| `aria` | `RoundSerializable`, `OneRoundLosesOnlyFalse`, `RoundInv`, `TablesExact`, `CommitsInOrder`, `UnconflictedCommits`, `OneWayOut`, `Finishes` | two workers: three transactions on two slots of one account, all rounds of the multi-round driver with right predictions, and the one round of the other driver with one partial prediction and one transaction that may be refused; one worker: one round, three transactions with any RW set over two accounts' slots, one account read through STATICCALLs, one transaction predicted in part, one that may be refused |
| `aria_waw` | `CommittedDontShareWrites`, violated | two workers, two transactions |
| `aria_lost` | `NoTxLost`, violated | two transactions that each read what the other writes |
| `aria_writeback` | `CommittedWritesSurvive`, violated | two transactions, two slots of one account |
| `grouping` | `GroupsAreComponents`, `GroupsPartition`, `LayersKeepOrder`, `LayersTight`, `LayersPartition`, `RoundsIndependent`, `RoundsPartition`, `RoundsNonempty`, `MisNeverPanics`, `SearchInv`, `MisRoundsInv`, `Ends` | every block of four transactions over two keys, with reads, writes and missing predictions; every conflict graph of five transactions; every graph of four with a path through three more |
| `block` | `BlockSerializable`, `BlockInv` | nine drivers, three transactions with one of three predictions or none and one of four executions, a false prediction or a refusal; two slots of one account, which is read through STATICCALLs |
| `fullstate` | `RoundsSerial`, `AnswersLikeDatabase`, `NoNilPrediction`, `TracerCovers`, `RefundsBounded`, `SupplyGrowsByRefunds`, `FullStateInvariant` | both drivers; all blocks of three messages of eleven kinds, two senders, one of them without an account, two contracts of two slots each |
| `mis_loop` | `MisEnds`, violated | every graph of five transactions |

What they show.

- `revert`: every nesting of snapshots and reverts gives back what it should, counts
  stay right, and neither a missing revision id nor a nil account ever stops a worker.
  Journal entries relate only to their neighbors in the journal and to one account,
  so that two entries, two accounts and three frames show each interaction; that
  longer journals add nothing is what the proof shows.
- `group`: what a group merges is what its accepted transactions would have left in the
  database's storage had they run on it one by one.  Two transactions are needed for
  what a false one may leave to its successor.  It speaks of storage slots only: a balance
  or nonce written to an account outside the cache vanishes without a false prediction (`Dropped`).
- `logs`: logs survive the revert of the call that made them.
- `reserve`, `aria_waw`, `aria`: where two tasks race, `Reserve`
  may lose a reservation, in two ways, and two writers of a key are both
  committed; on all other keys it is right, with any number of workers.  What remains true even on raced keys is
  checked by `aria`: reservations are never made up, the lowest transaction always commits, each transaction of a round
  is committed once or repeated or dropped for two conflicts that are real, the rounds end, and the one-round driver
  loses no transaction but those whose prediction
  was false: these pass for committed although they were reverted.  Three transactions let two race
  behind a third.  Two at a time and one account show each kind of race; that more
  add nothing is what the proofs show.  The second account of the one-worker setup is there for the conflicts.
- `aria`, `aria_lost`, `aria_writeback`: unless tasks have raced over a key that one committed transaction writes and
  another touches, what a round decides to
  commit is serializable, and so is what it merges as long as no merge writes back a slot that
  another transaction has written; the merge of a dirty account may write
  a slot that was only read back over a committed write; and the multi-round driver
  forgets a transaction that has both kinds of conflict, which the one-round
  driver returns to its caller.
- `grouping`, `mis_loop`: the three groupings separate what conflicts and place each predicted
  transaction once.  The search for independent sets never looks up a vertex
  that is not there, and never returns an empty round, but on some graphs it does not return:
  cutting out a path of even length between two adjacent vertices lowers their
  degrees without moving them to another bucket, and a vertex deleted meanwhile stays in
  `VerticesGreaterThanThree` and is deleted over and over.  The smallest such graph is a triangle on a
  square.  `Ends` therefore speaks of the other two algorithms.

- `block`: under every driver the block's result is that of a serial execution of the accepted
  transactions, although merges write back what was only read: the grouping keeps apart those that
  could lose by it.  Three transactions make chains of conflicts, so that there are components of
  three, and up to three layers.  The components and layers keep the block's order; independent sets run
  in the order of their rounds, which need not be the block's.  There is one condition,
  `WritesForeseen`: the cache notices a slot that was not predicted, but not that one predicted to be
  read is written; then two transactions of a round can overwrite each other.  The drivers ignore the
  errors of their transactions, so that those which are not accepted are missing from the result.
  With an Aria round first there are two more conditions.  The round must not write back a slot, as in
  `aria_writeback`; and `TouchesFetched`: a transaction that it returns brings the RW set recorded there, so
  that a slot which the full cache lacks is in the next cache as an empty one, and is no false
  prediction any more.
- `fullstate`: `RoundsSerial` compares the whole cache and all that the transactions saw with their
  serial execution on the same cache, under every interleaving of their accesses.  Its conditions say what the code
  does not ensure: predictions must cover what a transaction touches on the cache, and two transactions of a round
  must not use the balance or nonce of one account that the cache holds (`FieldsApart`), since neither is recorded
  and updates can be lost.  `AnswersLikeDatabase` compares with the database.  It fails, and so excludes,
  blocks in which a call fails after it has written, which the cache cannot take back, and those in which a program looks
  at a balance.  For layers it is enough that `RWSet.Equal` finds the predictions right, although a
  prediction may then name more slots than are touched.  Independent sets, which change the order, also need
  `CalleesFetched`: a contract that a transaction calls only because others came first is in nobody's RW set, so that the
  cache takes it for an empty account, skips its code, and nothing of this is recorded.  `RefundsBounded` shows that a refund counter which is
  never reset does no harm beyond its cap; `SupplyGrowsByRefunds`, that the transactions of a block create just the coin
  that `refundGas` pays, and destroy none but where an account self-destructs in its own favor (`FavorsOthers`
  excludes that).  `NoNilPrediction`: nothing that lets a prediction fail is repaired by the transactions before it, so that `TrueRWSets` panics first.  The kinds of message include a
  write that depends on what was read, a call made only if a slot is not zero, calls that fail with and without a write, a call of an account
  without code, a static call, one of a sender that has no account yet, clearing a slot, a self-destruct in favor of another account and one in its own, too little gas, and an invalid transaction.  Three
  transactions, two of them of one sender, give layers with a predecessor beside a stranger.

A transaction without a prediction is in no graph and thus in no group:
`GroupsPartition`, `LayersPartition` and `RoundsPartition` say so (`Vertices`).

The names of bounds: `MaxTxs`, `MaxJournal`, `MaxRevisions`, `MaxDepth` and `MaxLogs` guard
`CacheState`; `Workers` is the pool's size in `ReserveSet` and `Aria`, a parameter
of the code; `MaxUint` is the width of a degree.  There are no other bounds: the remaining
state is finite by itself; a program of `FullState` has no loops.

Deadlock is checked in every run; where the code returns, the model has an explicit stuttering
step (`Returned`, `Grouped`, `Stopped`).  `Stopped` includes the panics of `BlockExec` and `FullState`, which end the program.

**Fairness.**  `Aria` assumes `WF_vars(Next)`: some runnable goroutine goes on, which
Go's scheduler guarantees; each action is a bounded piece of a loop over a finite set,
and no action can be repeated for ever without the round advancing.  `Finishes` assumes right
predictions and no refused transactions in its run: the driver runs a transaction whose
execution fails again in every round, and with a lasting error it never ends, by its design.
`Grouping` assumes that the sequential algorithm goes on (`WF_vars` of its step).
`CacheState`, `ReserveSet`, `BlockExec` and `FullState` have safety properties only, and no fairness.

## The proofs

Each theorem holds for every value of the constants that satisfies the module's named
assumptions, and the modules of the runs extend those with the assumptions, so that TLC evaluates
these too.

| Module | Assumption | Theorems (property) |
|---|---|---|
| `CacheStateProofs` | `CacheStateAssumption`: the sentinels are distinct from data, the database is well-typed | `StructureIsInvariant` (`IInv`), `TypeCorrect` (`TypeOK`), `WorkerNeverPanics` (`NoPanic`), `CacheImplementsStore` (`RevertRestores`), `GhostsAreInvariant` (`GhostInv`), `CacheIsTruthful` (`CacheTellsTruth`), `StaleReadsAreNoticed` (`StaleReadsInvalidate`), `MergesAreSerial` (`MergeIsSerial`) |
| `ReserveSetProofs` | `ReserveSetAssumption`: finitely many tasks, numbered; the mark of an absent key is no number | `ReserveSetType` (`TypeOK`); `CalmIsInvariant` (`CalmInv`), `TableReservesLowest` (`ReservesLowest`) |
| `AriaProofs` | `AriaAssumption`: finitely many transactions, numbered; each setup well-typed, with at least one worker | `RoundIsInvariant` (`RoundInv`), `TransactionsGoOneWay` (`OneWayOut`), `OneRoundLoses` (`OneRoundLosesOnlyFalse`), `UnconflictedAreCommitted` (`UnconflictedCommits`), `TablesAreExact` (`TablesExact`), `CommitsAreOrdered` (`CommitsInOrder`), `RoundsAreSerializable` (`RoundSerializable`) |
| `BlockExecProofs` | `ConflictGraphAssumption`: finitely many transactions, numbered, each with a prediction or none; `MethodsAssumption`: the methods are the three of the code; `BlockExecAssumption`: predictions are RW sets, nil is none | `BlockIsInvariant` (`BlockInv`), `BlocksAreSerializable` (`BlockSerializable`) |
| `GroupPlansProofs` | `ConflictGraphAssumption`, `MethodsAssumption` | lemmas only |
| `GroupingProofs` | `ConflictGraphAssumption`; for the independent sets also `GroupingAssumption`: a uint can count the transactions | `SearchesAreSound` (`SearchInv`), `GroupsArePartition` (`GroupsPartition`), `GroupsAreTheComponents` (`GroupsAreComponents`), `LayersAreOrdered` (`LayersKeepOrder`), `LayersAreTight` (`LayersTight`), `LayersArePartition` (`LayersPartition`); `RoundsAreSound` (`MisRoundsInv`), `RoundsAreIndependent` (`RoundsIndependent`), `RoundsArePartition` (`RoundsPartition`), `RoundsAreNonempty` (`RoundsNonempty`) |
| `FullStateProofs` | `ConflictGraphAssumption`, `MethodsAssumption`; `GasAssumption`: the gas constants are natural numbers, the quotient not zero; `FullStateAssumption`: the methods are layers or independent sets, messages are well-formed (`WellFormed`), the database is a state without the mark of a shared one, its accounts are finitely many, have natural numbers for balance and nonce, and code only if they exist, its refund counter is a natural number, no slot has the name of an account's field, nil is no RW set | `ExecutionsAreSound` (`FullStateInvariant`), `NilNeverFetched` (`NoNilPrediction`), `RecordedIsCovered` (`TracerCovers`), `RefundsAreBounded` (`RefundsBounded`), `RoundsAreInvariant`, `RoundsAreSerial` (`RoundsSerial`) |
| `DatabaseProofs` | those of `FullStateProofs` | `SupplyIsInvariant`, `SupplyGrows` (`SupplyGrowsByRefunds`), `TruthIsInvariant`, `AnswersAreInvariant`, `AnswersAreLikeDatabase` (`AnswersLikeDatabase`) |

`WellFormed` says what the EVM ensures of what it runs: the calls of a program nest (`Depth`), and to skip an
inner call, or to jump, leads to an instruction of the same call.  The model splits a self-destruct in two
instructions, and only the first leads to the second.

Every inductive invariant is checked by a run as well, which also has a mutant of the code that breaks it; but for those
of which the run checks the consequence: `SupplyInvariant`, and `RoundsInvariant`, `TruthInvariant` and
`AnswersInvariant`, which speak of executions that TLC would have to guess, the last one of executions on every database.

**Reverts.**  `NoPanic` is far from inductive.  `IInv` explains why it holds: the journal is the undo
log of a history of points, one before each entry that is not yet undone, and the present; undoing
an entry at the point after it gives the point before it (`JournalInv`), and the account it
touches is in the map at that moment.  A dirty account is in the map at every point (`DirtyInv`).
Revision ids and journal indices grow (`RevisionInv`), so that the binary search finds an
id that is there.  The snapshot of every open frame is among the revisions and names
the point it saw (`FrameInv`); a revert in progress heads for the innermost frame's
(`UndoInv`).  Lemmas `UndoesCreate` to `UndoesStorage` show for each operation that its journal entry undoes it, and
`JournaledStep`, `QuietStep`, `SnapshotStep`, `PopStep`, `UndoStep`, `FinishStep` that the kinds
of steps preserve the invariant; `NextIInv` goes through the actions of `Next`.  When the undo loop
reaches its snapshot the present is the point that the frame saw (`RevertReachesTop`),
which is the heart of the refinement.

**What a group merges.**  That the cache tells the truth between two transactions is not inductive: a
revert brings back contents that were saved while it did.  `TruthInv` therefore says it of the saved
states of the open frames too, and says when it may fail: while `StateJudge` is down, and in
the middle of a revert.  A transaction's own snapshot is sound always, for it was taken between two
transactions; so a false prediction, whose revert goes there, leaves a sound cache.  The other half
of `Sound` is `Kept`: a slot in which the accepted transactions differ from the database is cached, in a
dirty account, and so `MergeState` writes it; `DatabaseInv` counts the accounts that it has written
(`GhostInv` is both).

**Reserve tables.**  For a key that no race was about (`raced`), what a task has found is still so when it acts on it
(`Fresh`), two tasks at one address are at different keys of a published inner map (`Apart`), and no
reservation is in an inner map that is not published (`NothingHidden`).  Then each step either stutters or
is one step of the abstract table on those keys.  For the others all of this fails, and `aria_waw` shows the
consequence.  What no race can break is `Honest`: nobody holds a key who has not asked for it.

**Aria.**  Everything is for any number of workers.  `RoundInv` relates the tasks to the phases, lets
`Honest` tables justify each conflict that `Decide` sees (so that who meets no lower transaction is
committed, and who is dropped has met two), and says where the transactions of the one-round driver are.
`TablesExact` adds that each table has, for each key not raced for, the lowest task that
has asked for it.  From this `CommitsInOrder` follows for any number of transactions: on such a key a read-write conflict
of two committed transactions agrees with one total order, `Rank`, and no such key has two writers.  That is the
classical criterion.  That following this order on the values gives the same contents
(`RoundSerializable`) needs `SnapshotInv`, that a cache holds what its own transaction has made of the full cache as
it was when the round began, and an induction along the sorted list of what was committed: since nobody reads what an
earlier one writes, and no key has two writers, each finds there what it has read (`SnapshotIsSerial`).

**The block drivers.**  `BlockSerializable` compares a block with some list of all that was accepted.  The invariant
names the list from the start: `Precedes` puts an Aria round's commits first, by `AriaRank`, and then
follows the rounds, and in a group the order of execution.  `Leaves` says of a value that it is the last one
written to a slot by given transactions in that order.  Then `SawInv` says what each transaction has read, `StoresInv` what the
full cache holds between the rounds and the caches while a round runs, and `MergeInv` what the full cache holds
halfway through the merges; there the groups still to come do not disturb what is merged
(`MergesDoNotClash`), because the rounds of a good plan keep apart what interferes (`GoodPlan`, which
`PlansAreGood` proves of all three methods).  All of this is claimed only while `Condition` holds, the
hypothesis of `BlockSerializable`; that is inductive because a step never makes it true again.  At the end, the list
sorted by `Precedes` exists (`SortedList`), each transaction has read what those before it on the list
leave (`RunsInOrder`), and then the serial execution along the list leaves the same
contents (`SerialIsKnown`).

**Components and layers.**  A finished component has no edge out of it and cannot be split; the one at hand has
edges only from vertices whose call of `dfs` is open (`ComponentsInv`).  For the layers, a vertex's degree counts its
earlier neighbors not yet taken off, and a vertex is placed when all of them are in layers before
(`LayersInv`).  `LayersPartition` also needs that the last layer is never empty too early: the lowest vertex that is not
placed would have no earlier neighbor to wait for.

**Independent sets.**  This is the one invariant with two cases.  In the first (`Fit`) the degrees count the live
neighbors, the buckets hold what they should, what is in the set has no live neighbor, and
the edges still contain all conflicts.  The reductions are correct there, which needs the graph theory behind them: that
the vertices found by `dfsToFindDegreeTwoPath` are a line or a cycle, that `pathReOrg` walks along the line
from end to end (`WalkIsLine`), that only the two ends touch what is around it (`OnlyEndsTouched`), and
that the new edge makes up for the neighbors lost (`JoinFit`).  The cutting of a path of even length between two neighbors
is where this can fail: a vertex around it may come down to degree two or less and stay in the third bucket.
If it is then deleted, the bucket of its degree is searched and it stays (`Stuck`) for
good, whatever follows: a vertex of degree one or two is removed from another bucket, and one of
degree zero is never chosen.  Such a round never comes to its end, which is what `mis_loop` shows.  So
whenever a round does end, `Fit` held throughout, and its set is independent and not empty.  The
invariant also tells when the look-up of a vertex that does not exist can happen (the step "panic"): only when the
search was stuck already.  That it never happens even then is model-checked (`MisNeverPanics`).

**The drivers on one full cache.**  `FullStateInvariant` is about one execution at a time (`TaskInv`), on a state of
which only the shape is known, since others use it between two steps; so it holds of predictions, of
true RW sets and of all the interleavings on the cache.  At each stage it knows what is in the pool and how much gas
is left at most (`StageInv`), from which `RefundIsPart` bounds the refund whatever the counter says; that what
is recorded is traced (`Covered`, by `RecordedIsTraced` for each instruction); and that where an instruction is
left the stack of calls is at least as deep as the program is there, so that a call that fails or returns always
finds its own frame (`OutcomePosition`), and on the database a snapshot of it (`FramesInv`).  Whether a
transaction is refused depends on its message alone (`Accepted`); therefore what has a true RW set has a
prediction (`TruthfulIsPredicted`).  `EffectKeeps` goes through the instructions, `StepKeeps` through the stages.

**Side by side on one cache.**  That a round of the full cache is as good as its transactions one after the other is a
simulation.  Two caches are `Alike` if they hold the same accounts with the same code, which no step changes.  Where a
transaction has come to the same point on two such caches (`Beside`), and these agree on every slot it has
recorded and every account whose fields it has used, its next step included, then it does the same step on
both, leaves the same there, and changes nothing else (`StepAbreast`, from a lemma for each group of instructions and each
stage; `Twins` says what a change does to two caches).  So recording is complete enough for this: every slot that an
execution depends on is in its RW set, and every balance and nonce in `fields`.  An execution alone is a chain of such
steps, not longer than the fold of `ExecuteTx`, because each brings it nearer to its end (`Leads`, `Remaining`).
`RoundsInvariant` then says of a round: there is a cache, the base, which is what the earlier rounds leave when run one
by one (`SerialTo`), and each transaction of the round is where it would be if run alone on any cache that
agrees with the base on what it has touched (`Repeats`).  Its own step keeps this because it meets only what is still as in
the base, and the step of another because it changes nothing that this one has left (`StepSideBySide`); both
follow from the plan, whose rounds do not interfere, if predictions cover what is touched.  At the end of a
round its transactions are put after the others in the block's order, by induction on their numbers (`RoundRuns`), and
the cache is the base of the next.  The list so made is sorted by rounds; there is one such list, `RunOrder`
(`RunOrderIsSorted`), and its executions are those of `Serial` (`SerialIsChain`).

**The supply.**  `SupplyGrowsByRefunds` is about the moments between two transactions.  `SupplyInvariant` says the same
(`Worth`) of every moment, and of every snapshot that a failing call may go back to; between a self-destruct's two halves,
and before `refundGas` writes the balance it has loaded, it says that the value loaded is still the one that is
there (`Underway`), which holds because the transactions run one after the other there (`OneAfterAnother`).  A
sum over a set is a fold, and that the fold exists and grows by one account at a time (`SumFoldExists`, `SumChanges`) needs an
induction over finite sets (`AllSubsets`); with it a change of one balance changes the supply by as much (`SupplyChanges`).
`EffectWorth` goes through the instructions and `StepWorth` through the stages.

**Like the database.**  `AnswersLikeDatabase` needs a second simulation, of the cache and the database, which differ
in snapshots, in the refund counter and in what they answer for an account they lack.  Where no call fails after a
write, no balance is looked at, and the callees are there on both sides alike, an execution that agrees with another in the
slots it touches records and reads the same, and leaves the same there (`Replays`); gas, and so the end, are the same
because neither balances nor refunds decide anything.  `TruthInvariant` says that the true RW sets are those of the block
executed on the database (`TruthAlong`).  `AnswersInvariant` says of a round: there is a cache, the base, with which it
began; each transaction stands where it stands alone on any database that agrees with the base in the slots foreseen for
it (`Together`); and the base agrees with the database after the earlier rounds in every slot that was fetched
(`Settled`; `Point` says at which positions of the list: where just the transactions of those rounds come before, or, under
the layers, just those of them that write the slot).  Under the layers
the list is the block's order, since what interferes is in its order in the layers (`LayersInvariant`), and `Equal` and
`TruthInvariant` together say what the transactions touch; under independent sets it is the order of the rounds, and
nothing beyond the predictions is touched by hypothesis.

Only model-checked, and why:

- `Finishes`, `Ends` and `MisEnds`, being liveness, are out of the prover's reach.  So is what a recursive definition computes
  for every input; the inductions of the proofs are each by a least counterexample (`SmallestNumber`).
- `MisNeverPanics` speaks of what a search does that never ends; no invariant of it is known to us.

## What is not modelled

- Contract creations, transfers (the code has commented them out), EXTCODE and DELEGATECALL
  instructions, precompiles.  `HasSelfDestructed` of `StateWithRwSets` calls itself and would never return.
- The intrinsic gas is a constant, an instruction costs one gas, and a call gets all the gas there is; fee caps,
  blob gas, access lists and preimages are left out.
- Account fields in merges: the balances and nonces that `MergeState` leaves are in general not those of a
  serial execution, since they are neither predicted nor recorded.  `CacheState` models the writes that are
  dropped without a trace (`Dropped`) and the merge of an account; the drivers in `Aria` and `BlockExec`
  speak of slots.
- A pool that refuses a task: `ExecuteWithAntsCacheState` would then wait for ever.
- The text of errors; JSON; `SetTxContext` and `SetTxStateErr`, which nothing calls;
  `ExecConflictFreeTxsGeneratingRwSets`, likewise; getters that neither change nor judge anything.  Hashes do not
  collide.
- Databases, headers and blocks; printing.
- In `BlockExec`, races in the reserve tables and predictions as the code finds them: predictions are
  arbitrary there.  In `Aria` and `BlockExec` a call that fails leaves nothing; what it does to a cache is
  `CacheState`'s subject.

## Plan

Built so far: `CacheState` with its proofs, `ReserveSet`, `Aria`, the groupings, `BlockExec`, and the way from
prediction to execution on the full cache, `Recording`, `StateTransition`, `FullState`.  Next, in this order:

1. Account fields in the concurrent merges of `BlockExec`.
2. Contract creations in `StateTransition` and `Recording`.
