---------------------------- MODULE DatabaseProofs -----------------------------
(***************************************************************************)
(* The theorems about the drivers on one full cache, continued: what is to *)
(* be said of the database.  First what its balances add up to: sums, what *)
(* an access does to them, the block; then that the cache answers like the *)
(* database: an execution on the one beside one on the other, what the     *)
(* block leaves in the database, and both along the rounds.                *)
(***************************************************************************)
EXTENDS FullStateProofs

(***************************************************************************)
(* Sums over a finite set.                                                 *)
(***************************************************************************)
\* A set of sets that grows with every set by a chosen element has all of them.
LEMMA AllSubsets ==
    ASSUME NEW S, IsFiniteSet(S), NEW good, {} \in good,
           \A s \in SUBSET S : s # {} /\ s \ {CHOOSE x \in s : TRUE} \in good => s \in good
    PROVE  SUBSET S \subseteq good
  <1> DEFINE size == Cardinality(S)
             upTo == {n \in 0..size : \A s \in SUBSET S : Cardinality(s) <= n => s \in good}
  <1>1. /\ size \in Nat
        /\ \A s \in SUBSET S : IsFiniteSet(s) /\ Cardinality(s) \in Nat /\ Cardinality(s) <= size
    BY FS_Subset, FS_CardinalityType
  <1>2. 0 \in upTo
    <2>1. ASSUME NEW s \in SUBSET S, Cardinality(s) <= 0
          PROVE  s = {}
      BY <1>1, <2>1, FS_EmptySet
    <2> QED
      BY <1>1, <2>1
  <1>3. \A n \in 0..(size - 1) : n \in upTo => n + 1 \in upTo
    <2>1. ASSUME NEW n \in 0..(size - 1), n \in upTo, NEW s \in SUBSET S, Cardinality(s) <= n + 1
          PROVE  s \in good
      <3>1. CASE s = {}
        BY <3>1
      <3>2. CASE s # {}
        <4>1. PICK x : x = CHOOSE y \in s : TRUE
          OBVIOUS
        <4>2. x \in s
          BY <3>2, <4>1
        <4>3. Cardinality(s \ {x}) = Cardinality(s) - 1
          BY <1>1, <4>2, FS_RemoveElement
        <4>4. s \ {x} \in SUBSET S /\ Cardinality(s \ {x}) <= n
          BY <1>1, <2>1, <4>3
        <4>5. s \ {x} \in good
          BY <2>1, <4>4
        <4> QED
          BY <3>2, <4>1, <4>5
      <3> QED
        BY <3>1, <3>2
    <2> QED
      BY <1>1, <2>1
  <1> HIDE DEF upTo
  <1>4. size \in upTo
    BY <1>1, <1>2, <1>3, NumbersUpTo
  <1> QED
    BY <1>1, <1>4 DEF upTo

\* The equation of the fold behind a sum.
Added(it, f, s) ==
    IF s = {} THEN 0 ELSE f[CHOOSE x \in s : TRUE] + it[s \ {CHOOSE x \in s : TRUE}]

SumFolds(it, f, S) == it = [s \in SUBSET S |-> Added(it, f, s)]

LEMMA SumFoldExists ==
    ASSUME NEW S, IsFiniteSet(S), NEW f
    PROVE  \E it : SumFolds(it, f, S)
  <1> DEFINE size == Cardinality(S)
             Holds(it, n) == \A s \in SUBSET S : Cardinality(s) <= n => it[s] = Added(it, f, s)
             good == {n \in 0..size : \E it : Holds(it, n)}
  <1>1. /\ size \in Nat
        /\ \A s \in SUBSET S : IsFiniteSet(s) /\ Cardinality(s) \in Nat /\ Cardinality(s) <= size
    BY FS_Subset, FS_CardinalityType
  <1>2. 0 \in good
    <2> DEFINE it == [s \in SUBSET S |-> 0]
    <2>1. ASSUME NEW s \in SUBSET S, Cardinality(s) <= 0
          PROVE  it[s] = Added(it, f, s)
      <3>1. s = {}
        BY <1>1, <2>1, FS_EmptySet
      <3> QED
        BY <3>1 DEF Added
    <2>2. Holds(it, 0)
      BY <2>1
    <2> QED
      BY <1>1, <2>2
  <1>3. \A n \in 0..(size - 1) : n \in good => n + 1 \in good
    <2> SUFFICES ASSUME NEW n \in 0..(size - 1), NEW it, Holds(it, n)
                 PROVE  \E more : Holds(more, n + 1)
      BY <1>1
    <2> DEFINE more == [s \in SUBSET S |-> Added(it, f, s)]
    <2>1. ASSUME NEW s \in SUBSET S, Cardinality(s) <= n + 1
          PROVE  more[s] = Added(more, f, s)
      <3>1. CASE s = {}
        BY <3>1 DEF Added
      <3>2. CASE s # {}
        <4>1. PICK x : x = CHOOSE y \in s : TRUE
          OBVIOUS
        <4>2. x \in s
          BY <3>2, <4>1
        <4>3. Cardinality(s \ {x}) = Cardinality(s) - 1
          BY <1>1, <4>2, FS_RemoveElement
        <4>4. s \ {x} \in SUBSET S /\ Cardinality(s \ {x}) <= n
          BY <1>1, <2>1, <4>3
        <4>5. it[s \ {x}] = Added(it, f, s \ {x}) /\ more[s \ {x}] = Added(it, f, s \ {x})
          BY <4>4
        <4>6. more[s] = f[x] + it[s \ {x}] /\ Added(more, f, s) = f[x] + more[s \ {x}]
          BY <3>2, <4>1 DEF Added
        <4> QED
          BY <4>5, <4>6
      <3> QED
        BY <3>1, <3>2
    <2> HIDE DEF more
    <2> QED
      BY <2>1
  <1> HIDE DEF good
  <1>4. size \in good
    BY <1>1, <1>2, <1>3, NumbersUpTo
  <1>5. PICK it : Holds(it, size)
    BY <1>4 DEF good
  <1> DEFINE whole == [s \in SUBSET S |-> it[s]]
  <1>6. ASSUME NEW s \in SUBSET S
        PROVE  whole[s] = Added(whole, f, s)
    <2>1. it[s] = Added(it, f, s)
      BY <1>1, <1>5
    <2>2. s \ {CHOOSE x \in s : TRUE} \in SUBSET S
      OBVIOUS
    <2> QED
      BY <2>1, <2>2 DEF Added
  <1>7. whole = [s \in SUBSET S |-> Added(whole, f, s)]
    BY <1>6
  <1> QED
    BY <1>7 DEF SumFolds

\* A sum changes by as much as the one number that changes.
LEMMA SumChanges ==
    ASSUME NEW S, IsFiniteSet(S), NEW f, NEW g, NEW a,
           \A x \in S : f[x] \in Int /\ g[x] \in Int /\ (x # a => g[x] = f[x]),
           NEW it, SumFolds(it, f, S), NEW other, SumFolds(other, g, S)
    PROVE  it[S] \in Int /\ other[S] = it[S] + (IF a \in S THEN g[a] - f[a] ELSE 0)
  <1> DEFINE Right(s) == it[s] \in Int /\ other[s] = it[s] + (IF a \in s THEN g[a] - f[a] ELSE 0)
             good == {s \in SUBSET S : Right(s)}
  <1>1. \A s \in SUBSET S : it[s] = Added(it, f, s) /\ other[s] = Added(other, g, s)
    BY DEF SumFolds
  <1>2. {} \in good
    <2>1. it[{}] = 0 /\ other[{}] = 0
      BY <1>1 DEF Added
    <2> QED
      BY <2>1
  <1>3. ASSUME NEW s \in SUBSET S, s # {}, s \ {CHOOSE x \in s : TRUE} \in good
        PROVE  s \in good
    <2>1. PICK x : x = CHOOSE y \in s : TRUE
      OBVIOUS
    <2>2. x \in s /\ x \in S
      BY <1>3, <2>1
    <2>3. it[s] = f[x] + it[s \ {x}] /\ other[s] = g[x] + other[s \ {x}]
      BY <1>1, <1>3, <2>1 DEF Added
    <2>4. Right(s \ {x}) /\ f[x] \in Int /\ g[x] \in Int /\ (x # a => g[x] = f[x])
      BY <1>3, <2>1, <2>2
    <2>5. a \in s \ {x} <=> a \in s /\ x # a
      OBVIOUS
    <2>6. Right(s)
      BY <2>2, <2>3, <2>4, <2>5
    <2> QED
      BY <2>6
  <1>4. SUBSET S \subseteq good
    <2> HIDE DEF good
    <2> QED
      BY <1>2, <1>3, AllSubsets
  <1> QED
    BY <1>4

LEMMA SumOfNothing ==
    ASSUME NEW S, IsFiniteSet(S), NEW f, \A x \in S : f[x] = 0, NEW it, SumFolds(it, f, S)
    PROVE  it[S] = 0
  <1> DEFINE good == {s \in SUBSET S : it[s] = 0}
  <1>1. \A s \in SUBSET S : it[s] = Added(it, f, s)
    BY DEF SumFolds
  <1>2. {} \in good
    BY <1>1 DEF Added
  <1>3. ASSUME NEW s \in SUBSET S, s # {}, s \ {CHOOSE x \in s : TRUE} \in good
        PROVE  s \in good
    <2>1. PICK x : x = CHOOSE y \in s : TRUE
      OBVIOUS
    <2>2. x \in s /\ x \in S
      BY <1>3, <2>1
    <2>3. it[s] = f[x] + it[s \ {x}] /\ it[s \ {x}] = 0
      BY <1>1, <1>3, <2>1 DEF Added
    <2> QED
      BY <2>2, <2>3
  <1>4. SUBSET S \subseteq good
    <2> HIDE DEF good
    <2> QED
      BY <1>2, <1>3, AllSubsets
  <1> QED
    BY <1>4

\* The balances of a state.
Balances(store) == [a \in Addresses |-> store.accounts[a].balance]

LEMMA SupplyIsSum ==
    ASSUME NEW store
    PROVE  \E it : SumFolds(it, Balances(store), Addresses) /\ Supply(store) = it[Addresses]
  <1> DEFINE Folds1(it) ==
                it = [s \in SUBSET Addresses |->
                        IF s = {} THEN 0
                        ELSE LET x == CHOOSE x \in s : TRUE IN store.accounts[x].balance + it[s \ {x}]]
             it == CHOOSE it : Folds1(it)
  <1>1. Supply(store) = it[Addresses]
    BY DEF Supply, MapThenSumSet, MapThenFoldSet
  <1>2. ASSUME NEW sum
        PROVE  Folds1(sum) <=> SumFolds(sum, Balances(store), Addresses)
    <2>1. ASSUME NEW s \in SUBSET Addresses, s # {}
          PROVE  Balances(store)[CHOOSE x \in s : TRUE] = store.accounts[CHOOSE x \in s : TRUE].balance
      BY <2>1 DEF Balances
    <2> QED
      BY <2>1 DEF SumFolds, Added
  <1>3. \E sum : Folds1(sum)
    <2>1. PICK sum : SumFolds(sum, Balances(store), Addresses)
      BY SumFoldExists, FullStateAssumption
    <2>2. Folds1(sum)
      BY <1>2, <2>1
    <2> HIDE DEF Folds1
    <2> QED
      BY <2>2
  <1>4. Folds1(it)
    BY <1>3
  <1> HIDE DEF it, Folds1
  <1> QED
    BY <1>1, <1>2, <1>4

\* A balance that changes changes the supply by as much.
LEMMA SupplyChanges ==
    ASSUME NEW store, HasBalances(store), NEW other, HasBalances(other), NEW a \in Addresses,
           \A b \in Addresses : b # a => other.accounts[b].balance = store.accounts[b].balance
    PROVE  /\ Supply(store) \in Int
           /\ Supply(other) = Supply(store) + other.accounts[a].balance - store.accounts[a].balance
  <1>1. PICK sum : SumFolds(sum, Balances(store), Addresses) /\ Supply(store) = sum[Addresses]
    BY SupplyIsSum
  <1>2. PICK more : SumFolds(more, Balances(other), Addresses) /\ Supply(other) = more[Addresses]
    BY SupplyIsSum
  <1>3. PICK f, g : f = Balances(store) /\ g = Balances(other)
    OBVIOUS
  <1>4. \A x \in Addresses : /\ f[x] = store.accounts[x].balance /\ g[x] = other.accounts[x].balance
                             /\ f[x] \in Int /\ g[x] \in Int /\ (x # a => g[x] = f[x])
    BY <1>3 DEF Balances, HasBalances
  <1>5. sum[Addresses] \in Int /\ more[Addresses] = sum[Addresses] + (IF a \in Addresses THEN g[a] - f[a] ELSE 0)
    <2>1. SumFolds(sum, f, Addresses) /\ SumFolds(more, g, Addresses) /\ IsFiniteSet(Addresses)
      BY <1>1, <1>2, <1>3, FullStateAssumption
    <2>2. \A x \in Addresses : f[x] \in Int /\ g[x] \in Int /\ (x # a => g[x] = f[x])
      BY <1>4
    <2>3. PICK S : S = Addresses
      OBVIOUS
    <2>4. /\ IsFiniteSet(S) /\ SumFolds(sum, f, S) /\ SumFolds(more, g, S)
          /\ \A x \in S : f[x] \in Int /\ g[x] \in Int /\ (x # a => g[x] = f[x])
      BY <2>1, <2>2, <2>3
    <2>5. sum[S] \in Int /\ more[S] = sum[S] + (IF a \in S THEN g[a] - f[a] ELSE 0)
      BY <2>4, SumChanges
    <2> QED
      BY <2>3, <2>5
  <1>6. f[a] \in Int /\ g[a] \in Int
    BY <1>4
  <1> QED
    BY <1>1, <1>2, <1>4, <1>5, <1>6

LEMMA SupplyInt ==
    ASSUME NEW store, HasBalances(store)
    PROVE  Supply(store) \in Int
  <1>1. PICK sum : SumFolds(sum, Balances(store), Addresses) /\ Supply(store) = sum[Addresses]
    BY SupplyIsSum
  <1>2. PICK f : f = Balances(store)
    OBVIOUS
  <1>3. \A x \in Addresses : f[x] \in Int
    BY <1>2 DEF Balances, HasBalances
  <1>4. sum[Addresses] \in Int
    <2>1. SumFolds(sum, f, Addresses) /\ IsFiniteSet(Addresses)
      BY <1>1, <1>2, FullStateAssumption
    <2>2. PICK a : a = f
      OBVIOUS
    <2>3. \A x \in Addresses : f[x] \in Int /\ f[x] \in Int /\ (x # a => f[x] = f[x])
      BY <1>3
    <2> QED
      BY <2>1, <2>3, SumChanges
  <1> QED
    BY <1>1, <1>4

\* What does not touch the accounts does not touch the supply.
LEMMA SameAccounts ==
    ASSUME NEW store, HasBalances(store), NEW other, other.accounts = store.accounts
    PROVE  HasBalances(other) /\ Supply(other) = Supply(store)
  <1>1. HasBalances(other)
    BY DEF HasBalances
  <1>2. PICK sum : SumFolds(sum, Balances(store), Addresses) /\ Supply(store) = sum[Addresses]
    BY SupplyIsSum
  <1>3. PICK more : SumFolds(more, Balances(other), Addresses) /\ Supply(other) = more[Addresses]
    BY SupplyIsSum
  <1>4. PICK f : f = Balances(store)
    OBVIOUS
  <1>5. Balances(other) = f
    BY <1>4 DEF Balances
  <1>6. \A x \in Addresses : f[x] \in Int
    BY <1>4 DEF Balances, HasBalances
  <1>7. PICK a : a \notin Addresses
    <2>1. \E a : a \notin Addresses
      <3>1. {x \in Addresses : x \notin x} \notin Addresses
        OBVIOUS
      <3> QED
        BY <3>1
    <2> QED
      BY <2>1
  <1>8. sum[Addresses] \in Int /\ more[Addresses] = sum[Addresses] + (IF a \in Addresses THEN f[a] - f[a] ELSE 0)
    <2>1. SumFolds(sum, f, Addresses) /\ SumFolds(more, f, Addresses) /\ IsFiniteSet(Addresses)
      BY <1>2, <1>3, <1>4, <1>5, FullStateAssumption
    <2>2. \A x \in Addresses : f[x] \in Int /\ f[x] \in Int /\ (x # a => f[x] = f[x])
      BY <1>6
    <2> QED
      BY <2>1, <2>2, SumChanges
  <1> QED
    BY <1>1, <1>2, <1>3, <1>7, <1>8

\* What refundGas has returned to a transaction.
Coin(ran) == IF ran.stage = "done" /\ ran.err = "nil" THEN ran.pool * ran.msg.price ELSE 0
Coins(tasks) == [t \in Txs |-> Coin(tasks[t])]

LEMMA ReturnedIsSum ==
    ASSUME NEW tasks
    PROVE  \E it : SumFolds(it, Coins(tasks), Txs) /\ Returned(tasks) = it[Txs]
  <1> DEFINE Folds1(it) ==
                it = [s \in SUBSET Txs |->
                        IF s = {} THEN 0
                        ELSE LET x == CHOOSE x \in s : TRUE IN Coin(tasks[x]) + it[s \ {x}]]
             it == CHOOSE it : Folds1(it)
  <1>1. Returned(tasks) = it[Txs]
    BY DEF Returned, MapThenSumSet, MapThenFoldSet, Coin
  <1>2. ASSUME NEW sum
        PROVE  Folds1(sum) <=> SumFolds(sum, Coins(tasks), Txs)
    <2>1. ASSUME NEW s \in SUBSET Txs, s # {}
          PROVE  Coins(tasks)[CHOOSE x \in s : TRUE] = Coin(tasks[CHOOSE x \in s : TRUE])
      BY <2>1 DEF Coins
    <2> QED
      BY <2>1 DEF SumFolds, Added
  <1>3. \E sum : Folds1(sum)
    <2>1. PICK sum : SumFolds(sum, Coins(tasks), Txs)
      BY SumFoldExists, ConflictGraphAssumption
    <2>2. Folds1(sum)
      BY <1>2, <2>1
    <2> HIDE DEF Folds1
    <2> QED
      BY <2>2
  <1>4. Folds1(it)
    BY <1>3
  <1> HIDE DEF it, Folds1
  <1> QED
    BY <1>1, <1>2, <1>4

\* One more execution has ended.
LEMMA ReturnedChanges ==
    ASSUME NEW tasks, NEW t \in Txs, NEW ran, DOMAIN tasks = Txs,
           \A u \in Txs : Coin(tasks[u]) \in Int, Coin(ran) \in Int
    PROVE  /\ Returned(tasks) \in Int
           /\ Returned([tasks EXCEPT ![t] = ran]) = Returned(tasks) + Coin(ran) - Coin(tasks[t])
  <1> DEFINE later == [tasks EXCEPT ![t] = ran]
  <1>1. PICK sum : SumFolds(sum, Coins(tasks), Txs) /\ Returned(tasks) = sum[Txs]
    BY ReturnedIsSum
  <1>2. PICK more : SumFolds(more, Coins(later), Txs) /\ Returned(later) = more[Txs]
    BY ReturnedIsSum
  <1>3. PICK f, g : f = Coins(tasks) /\ g = Coins(later)
    OBVIOUS
  <1>4. \A x \in Txs : f[x] = Coin(tasks[x]) /\ g[x] = IF x = t THEN Coin(ran) ELSE Coin(tasks[x])
    BY <1>3 DEF Coins
  <1>5. \A x \in Txs : f[x] \in Int /\ g[x] \in Int /\ (x # t => g[x] = f[x])
    BY <1>4
  <1>6. sum[Txs] \in Int /\ more[Txs] = sum[Txs] + (IF t \in Txs THEN g[t] - f[t] ELSE 0)
    <2>1. SumFolds(sum, f, Txs) /\ SumFolds(more, g, Txs) /\ IsFiniteSet(Txs)
      BY <1>1, <1>2, <1>3, ConflictGraphAssumption
    <2> QED
      BY <2>1, <1>5, SumChanges
  <1>7. f[t] = Coin(tasks[t]) /\ g[t] = Coin(ran) /\ f[t] \in Int /\ g[t] \in Int
    BY <1>4, <1>5
  <1> HIDE DEF later
  <1>8. Returned(later) = Returned(tasks) + Coin(ran) - Coin(tasks[t]) /\ Returned(tasks) \in Int
    BY <1>1, <1>2, <1>6, <1>7
  <1> QED
    BY <1>8 DEF later

LEMMA NothingReturned ==
    ASSUME NEW tasks, \A t \in Txs : Coin(tasks[t]) = 0
    PROVE  Returned(tasks) = 0
  <1>1. PICK sum : SumFolds(sum, Coins(tasks), Txs) /\ Returned(tasks) = sum[Txs]
    BY ReturnedIsSum
  <1>2. PICK f : f = Coins(tasks)
    OBVIOUS
  <1>3. \A x \in Txs : f[x] = 0
    BY <1>2 DEF Coins
  <1> QED
    BY <1>1, <1>2, <1>3, SumOfNothing, ConflictGraphAssumption

(***************************************************************************)
(* What an access to the database does to the supply.                      *)
(***************************************************************************)
AccountNames == {"held", "balance", "nonce", "code", "alive"}

LEMMA SetAccountSupply ==
    ASSUME NEW store, HasBalances(store), IsState(store), ~store.shared, NEW a \in Addresses,
           NEW object, DOMAIN object = AccountNames, object.balance \in Nat
    PROVE  LET later == SetAccount(store, a, object)
           IN  /\ HasBalances(later) /\ IsState(later) /\ ~later.shared
               /\ Supply(store) \in Int
               /\ Supply(later) = Supply(store) + object.balance - store.accounts[a].balance
               /\ \A b \in Addresses :
                    later.accounts[b].balance = IF b = a THEN object.balance ELSE store.accounts[b].balance
  <1> DEFINE later == SetAccount(store, a, object)
  <1>1. /\ DOMAIN later = {"shared", "accounts", "slots", "refund"}
        /\ later.shared = store.shared /\ later.refund = store.refund
        /\ later.accounts = [store.accounts EXCEPT ![a] = [object EXCEPT !.held = TRUE]]
    BY DEF SetAccount, IsState
  <1> HIDE DEF later
  <1>2. ASSUME NEW b \in Addresses
        PROVE  /\ DOMAIN later.accounts[b] = AccountNames
               /\ later.accounts[b].balance = IF b = a THEN object.balance ELSE store.accounts[b].balance
               /\ later.accounts[b].balance \in Nat
    <2>1. later.accounts[b] = IF b = a THEN [object EXCEPT !.held = TRUE] ELSE store.accounts[b]
      BY <1>1 DEF HasBalances
    <2>2. /\ DOMAIN [object EXCEPT !.held = TRUE] = AccountNames
          /\ [object EXCEPT !.held = TRUE].balance = object.balance
      BY DEF AccountNames
    <2> QED
      BY <2>1, <2>2 DEF HasBalances, AccountNames
  <1>3. HasBalances(later)
    BY <1>1, <1>2 DEF HasBalances, AccountNames
  <1>4. IsState(later) /\ ~later.shared
    BY <1>1 DEF IsState
  <1>5. /\ Supply(store) \in Int
        /\ Supply(later) = Supply(store) + later.accounts[a].balance - store.accounts[a].balance
    BY <1>2, <1>3, SupplyChanges
  <1>6. later.accounts[a].balance = object.balance
    BY <1>2
  <1>7. Supply(later) = Supply(store) + object.balance - store.accounts[a].balance
    BY <1>5, <1>6
  <1> QED
    BY <1>2, <1>3, <1>4, <1>5, <1>7 DEF later

LEMMA SetNonceSupply ==
    ASSUME NEW store, HasBalances(store), IsState(store), ~store.shared, NEW a \in Addresses, NEW nonce
    PROVE  HasBalances(SetNonce(store, a, nonce)) /\ Supply(SetNonce(store, a, nonce)) = Supply(store)
  <1> DEFINE object == [store.accounts[a] EXCEPT !.nonce = nonce]
  <1>1. /\ DOMAIN object = AccountNames /\ object.balance = store.accounts[a].balance
        /\ object.balance \in Nat
    BY DEF HasBalances, AccountNames
  <1> HIDE DEF object
  <1>2. PICK later : later = SetAccount(store, a, object)
    OBVIOUS
  <1>3. /\ HasBalances(later) /\ Supply(store) \in Int
        /\ Supply(later) = Supply(store) + object.balance - store.accounts[a].balance
    BY <1>1, <1>2, SetAccountSupply
  <1>4. Supply(later) = Supply(store)
    <2>1. PICK x \in Int, y \in Nat : x = Supply(store) /\ y = object.balance
      BY <1>1, <1>3
    <2> QED
      BY <1>1, <1>3, <2>1
  <1>5. later = SetNonce(store, a, nonce)
    BY <1>2 DEF SetNonce, object
  <1> QED
    BY <1>3, <1>4, <1>5

\* An addition to the balance that has been loaded just before.
LEMMA AddBalanceSupply ==
    ASSUME NEW store, HasBalances(store), IsState(store), ~store.shared, NEW a \in Addresses,
           NEW loaded, loaded = store.accounts[a].balance, NEW amount \in Nat
    PROVE  LET later == AddBalance(store, a, loaded, amount)
           IN  /\ HasBalances(later) /\ IsState(later) /\ ~later.shared
               /\ Supply(later) = Supply(store) + amount
               /\ \A b \in Addresses :
                    later.accounts[b].balance =
                        IF b = a THEN store.accounts[a].balance + amount ELSE store.accounts[b].balance
  <1> DEFINE later == AddBalance(store, a, loaded, amount)
  <1> DEFINE object == [store.accounts[a] EXCEPT !.balance = loaded + amount]
  <1>1. later = SetAccount(store, a, object)
    BY DEF AddBalance
  <1>2. DOMAIN object = AccountNames /\ object.balance = loaded + amount /\ loaded \in Nat
    BY DEF HasBalances, AccountNames
  <1> HIDE DEF later, object
  <1>3. object.balance \in Nat
    BY <1>2
  <1>4. /\ HasBalances(later) /\ IsState(later) /\ ~later.shared
        /\ Supply(store) \in Int
        /\ Supply(later) = Supply(store) + object.balance - store.accounts[a].balance
        /\ \A b \in Addresses :
                  later.accounts[b].balance = IF b = a THEN object.balance ELSE store.accounts[b].balance
    BY <1>1, <1>2, <1>3, SetAccountSupply
  <1>5. Supply(later) = Supply(store) + amount
    <2>1. PICK x \in Int, y \in Nat : x = Supply(store) /\ y = loaded
      BY <1>2, <1>4
    <2> QED
      BY <1>2, <1>4, <2>1
  <1> QED
    BY <1>2, <1>4, <1>5 DEF later

\* Nothing is added to a callee.
LEMMA TouchSupply ==
    ASSUME NEW store, HasBalances(store), IsState(store), ~store.shared, NEW i, i.account \in Addresses,
           NEW most, NEW exact, Worth(store, most, exact)
    PROVE  Worth(Touch(store, i), most, exact)
  <1>1. PICK a, balance : a = i.account /\ balance = store.accounts[a].balance
    OBVIOUS
  <1>2. CASE i.op = "STATICCALL"
    <2>1. PICK later : later = AddBalance(store, a, balance, 0)
      OBVIOUS
    <2>2. HasBalances(later) /\ Supply(later) = Supply(store) + 0
      BY <1>1, <2>1, AddBalanceSupply
    <2>3. Supply(later) = Supply(store)
      BY <2>2, SupplyInt
    <2>4. Worth(later, most, exact)
      BY <2>2, <2>3 DEF Worth
    <2>5. Touch(store, i) = later
      BY <1>1, <1>2, <2>1 DEF Touch
    <2> QED
      BY <2>4, <2>5
  <1>3. CASE i.op # "STATICCALL"
    BY <1>3 DEF Touch
  <1> QED
    BY <1>2, <1>3

\* Both halves of a self-destruct together: they move the balance of an account,
\* or destroy it.
LEMMA MoveSupply ==
    ASSUME NEW store, HasBalances(store), IsState(store), ~store.shared,
           NEW to \in Addresses, NEW self \in Addresses,
           NEW loaded, loaded = store.accounts[to].balance,
           NEW amount, amount = store.accounts[self].balance
    PROVE  LET later == SelfDestruct(AddBalance(store, to, loaded, amount), self)
           IN  /\ HasBalances(later) /\ Supply(later) <= Supply(store)
               /\ to # self => Supply(later) = Supply(store)
  <1>1. amount \in Nat /\ Supply(store) \in Int
    BY SupplyInt DEF HasBalances
  <1>2. PICK paid : paid = AddBalance(store, to, loaded, amount)
    OBVIOUS
  <1>3. /\ HasBalances(paid) /\ IsState(paid) /\ ~paid.shared
        /\ Supply(paid) = Supply(store) + amount
        /\ \A b \in Addresses :
                    paid.accounts[b].balance =
                        IF b = to THEN store.accounts[to].balance + amount ELSE store.accounts[b].balance
    BY <1>1, <1>2, AddBalanceSupply
  <1> DEFINE object == [paid.accounts[self] EXCEPT !.alive = FALSE, !.balance = 0]
  <1>4. DOMAIN object = AccountNames /\ object.balance = 0
    BY <1>3 DEF HasBalances, AccountNames
  <1>5. PICK later : later = SetAccount(paid, self, object)
    OBVIOUS
  <1>6. later = SelfDestruct(AddBalance(store, to, loaded, amount), self)
    BY <1>2, <1>5 DEF SelfDestruct
  <1> HIDE DEF object
  <1>7. HasBalances(later) /\ Supply(later) = Supply(paid) + object.balance - paid.accounts[self].balance
    BY <1>3, <1>4, <1>5, SetAccountSupply
  <1>8. paid.accounts[self].balance = IF self = to THEN amount + amount ELSE amount
    BY <1>3
  <1>9. PICK x \in Int, y \in Nat : x = Supply(store) /\ y = amount
    BY <1>1
  <1>10. Supply(later) = IF self = to THEN x - y ELSE x
    BY <1>3, <1>4, <1>7, <1>8, <1>9
  <1>11. Supply(later) <= Supply(store) /\ (to # self => Supply(later) = Supply(store))
    BY <1>9, <1>10
  <1> QED
    BY <1>6, <1>7, <1>11

(***************************************************************************)
(* What a step of an execution on the database does to the supply.         *)
(***************************************************************************)
LEMMA WorthLess ==
    ASSUME NEW store, NEW most \in Int, NEW exact, Worth(store, most, exact),
           NEW later, HasBalances(later), Supply(later) <= Supply(store),
           exact => Supply(later) = Supply(store)
    PROVE  Worth(later, most, exact)
  <1>1. Supply(store) \in Int /\ Supply(later) \in Int
    BY SupplyInt DEF Worth
  <1>2. PICK x \in Int, y \in Int : x = Supply(store) /\ y = Supply(later)
    BY <1>1
  <1>3. Supply(later) <= most
    BY <1>2 DEF Worth
  <1> QED
    BY <1>3 DEF Worth

LEMMA WorthSame ==
    ASSUME NEW store, NEW most, NEW exact, Worth(store, most, exact),
           NEW later, later.accounts = store.accounts
    PROVE  Worth(later, most, exact)
  <1>1. HasBalances(later) /\ Supply(later) = Supply(store)
    BY SameAccounts DEF Worth
  <1> QED
    BY <1>1 DEF Worth

\* The calls under way, and the states to go back to.
Framed(frames, msg, most, exact) ==
    \A i \in DOMAIN frames : frames[i].account \in Called(msg) /\ Worth(frames[i].snapshot, most, exact)

LEMMA FramesOn ==
    ASSUME NEW frames, FramesInv(frames, FALSE), NEW msg, NEW most, NEW exact,
           Framed(frames, msg, most, exact)
    PROVE  /\ Framed(<<>>, msg, most, exact)
           /\ Len(frames) >= 1 =>
                /\ Framed(Front(frames), msg, most, exact)
                /\ Framed(SubSeq(frames, 1, 1), msg, most, exact)
                /\ Last(frames).account \in Called(msg)
                /\ Worth(Last(frames).snapshot, most, exact)
           /\ \A f : f.account \in Called(msg) /\ Worth(f.snapshot, most, exact) =>
                Framed(Append(frames, f), msg, most, exact)
  <1>1. PICK S : frames \in Seq(S)
    BY DEF FramesInv
  <1>2. DOMAIN frames = 1..Len(frames) /\ Len(frames) \in Nat
    BY <1>1
  <1>3. Framed(<<>>, msg, most, exact)
    BY DEF Framed
  <1>4. ASSUME Len(frames) >= 1
        PROVE  /\ Framed(Front(frames), msg, most, exact)
               /\ Framed(SubSeq(frames, 1, 1), msg, most, exact)
               /\ Last(frames).account \in Called(msg)
               /\ Worth(Last(frames).snapshot, most, exact)
    <2>1. /\ DOMAIN Front(frames) = 1..(Len(frames) - 1)
          /\ \A i \in 1..(Len(frames) - 1) : Front(frames)[i] = frames[i]
      BY <1>1, <1>4 DEF Front
    <2>2. DOMAIN SubSeq(frames, 1, 1) = 1..1 /\ SubSeq(frames, 1, 1)[1] = frames[1] /\ 1 \in DOMAIN frames
      BY <1>1, <1>4
    <2>3. Last(frames) = frames[Len(frames)] /\ Len(frames) \in DOMAIN frames
      BY <1>2, <1>4 DEF Last
    <2>4. Framed(Front(frames), msg, most, exact)
      BY <1>2, <2>1 DEF Framed
    <2>5. Framed(SubSeq(frames, 1, 1), msg, most, exact)
      <3>1. \A i \in 1..1 : i = 1
        OBVIOUS
      <3> QED
        BY <2>2, <3>1 DEF Framed
    <2> QED
      BY <2>3, <2>4, <2>5 DEF Framed
  <1>5. ASSUME NEW f, f.account \in Called(msg), Worth(f.snapshot, most, exact)
        PROVE  Framed(Append(frames, f), msg, most, exact)
    <2>1. PICK T : frames \in Seq(T) /\ f \in T
      <3>1. frames \in Seq(S \cup {f}) /\ f \in S \cup {f}
        BY <1>1
      <3> QED
        BY <3>1
    <2>2. /\ DOMAIN Append(frames, f) = 1..(Len(frames) + 1)
          /\ \A i \in 1..Len(frames) : Append(frames, f)[i] = frames[i]
          /\ Append(frames, f)[Len(frames) + 1] = f
      BY <2>1
    <2> QED
      BY <1>2, <1>5, <2>2 DEF Framed
  <1> QED
    BY <1>3, <1>4, <1>5

\* What an instruction needs and what it leaves.
LEMMA EffectWorth ==
    ASSUME NEW s, IsRun(s), s.store.shared = FALSE, FramesInv(s.task.frames, FALSE),
           NEW i, i.op \in Instructions, i.op \in Calls => i.account \in Called(s.task.msg) /\ i.account \in Addresses,
           i.op \in {"RETURN", "REVERT"} => Len(s.task.frames) >= 1,
           NEW most \in Int, NEW exact,
           i.op = "MOVE" =>
                /\ i.account \in Addresses /\ Self(s.task) \in Addresses
                /\ s.task.loaded = s.store.accounts[i.account].balance
                /\ s.task.amount = s.store.accounts[Self(s.task)].balance
                /\ exact => i.account # Self(s.task),
           Worth(s.store, most, exact), Framed(s.task.frames, s.task.msg, most, exact)
    PROVE  LET e == Effect(s, i)
           IN  /\ Worth(e.store, most, exact) /\ Framed(e.task.frames, s.task.msg, most, exact)
               /\ i.op = "SELFDESTRUCT" =>
                    /\ e.task.loaded = e.store.accounts[i.account].balance
                    /\ e.task.amount = e.store.accounts[Self(e.task)].balance
  <1> DEFINE e == Effect(s, i)
             Good == /\ Worth(e.store, most, exact) /\ Framed(e.task.frames, s.task.msg, most, exact)
                     /\ i.op = "SELFDESTRUCT" =>
                          /\ e.task.loaded = e.store.accounts[i.account].balance
                          /\ e.task.amount = e.store.accounts[Self(e.task)].balance
  <1> USE DEF Instructions, Calls
  <1>1. e.store.accounts = s.store.accounts /\ e.task.frames = s.task.frames /\ i.op # "SELFDESTRUCT" => Good
    BY WorthSame
  <1>2. CASE i.op = "SLOAD"
    <2>1. e = [s EXCEPT !.task.seen = Append(@, GetState(s.store, Key(i)))]
      BY <1>2 DEF Effect
    <2>2. e.store = s.store /\ e.task.frames = s.task.frames
      BY <2>1 DEF IsRun, IsTask
    <2> QED
      BY <1>1, <1>2, <2>2
  <1>3. CASE i.op = "SSTORE"
    <2>1. e = [s EXCEPT !.store = SetState(s.store, Key(i), Word(s.task.tx, s.task.seen))]
      BY <1>3 DEF Effect, IsRun
    <2>2. e.store.accounts = s.store.accounts /\ e.task.frames = s.task.frames
      BY <2>1 DEF IsRun, IsState, SetState
    <2> QED
      BY <1>1, <1>3, <2>2
  <1>4. CASE i.op = "CLEAR"
    <2> DEFINE gas == IF GetState(s.store, Key(i)) = Number(0) THEN 0 ELSE ClearRefund
    <2>1. e = [s EXCEPT !.store = SetState(AddRefund(s.store, gas), Key(i), Number(0))]
      BY <1>4 DEF Effect, IsRun
    <2> HIDE DEF gas
    <2>2. AddRefund(s.store, gas).accounts = s.store.accounts
      BY DEF IsRun, IsState, AddRefund
    <2>3. PICK paid : paid = AddRefund(s.store, gas)
      OBVIOUS
    <2>4. SetState(paid, Key(i), Number(0)).accounts = paid.accounts
      BY DEF SetState
    <2>5. e.store.accounts = s.store.accounts /\ e.task.frames = s.task.frames
      BY <2>1, <2>2, <2>3, <2>4 DEF IsRun
    <2> QED
      BY <1>1, <1>4, <2>5
  <1>5. CASE i.op = "BALANCE"
    <2>1. e = [s EXCEPT !.task.seen = Append(@, Number(s.store.accounts[i.account].balance)),
                        !.task.fields = @ \cup {i.account}]
      BY <1>5 DEF Effect, IsRun, IsTask
    <2>2. e.store = s.store /\ e.task.frames = s.task.frames
      BY <2>1 DEF IsRun, IsTask
    <2> QED
      BY <1>1, <1>5, <2>2
  <1>6. CASE i.op = "JUMPI"
    <2>1. e = s \/ e = [s EXCEPT !.task.pc = @ + i.skip]
      BY <1>6 DEF Effect
    <2>2. e.store = s.store /\ e.task.frames = s.task.frames
      BY <2>1 DEF IsRun, IsTask
    <2> QED
      BY <1>1, <1>6, <2>2
  <1>7. CASE i.op \in Calls
    <2> DEFINE f == [account |-> i.account, snapshot |-> Snapshot(s.store)]
    <2>1. \/ e = [s EXCEPT !.task.frames = Append(@, f)]
          \/ e = [s EXCEPT !.store = Touch(@, i), !.task.pc = @ + i.skip]
      BY <1>7 DEF Effect, Call
    <2>2. f.account \in Called(s.task.msg) /\ Worth(f.snapshot, most, exact)
      BY <1>7 DEF Snapshot
    <2>3. Framed(Append(s.task.frames, f), s.task.msg, most, exact)
      BY <2>2, FramesOn
    <2> HIDE DEF f
    <2>9. PICK left : left = Touch(s.store, i)
      OBVIOUS
    <2>4. /\ e.store = s.store \/ e.store = left
          /\ e.task.frames = s.task.frames \/ e.task.frames = Append(s.task.frames, f)
      <3>1. CASE e = [s EXCEPT !.task.frames = Append(@, f)]
        BY <3>1 DEF IsRun, IsTask
      <3>2. CASE e = [s EXCEPT !.store = left, !.task.pc = @ + i.skip]
        BY <3>2 DEF IsRun, IsTask
      <3> QED
        BY <2>1, <2>9, <3>1, <3>2
    <2> HIDE DEF e
    <2>6. PICK store : store = s.store
      OBVIOUS
    <2>7. HasBalances(store) /\ IsState(store) /\ ~store.shared /\ Worth(store, most, exact)
      BY <2>6 DEF IsRun, Worth
    <2>8. Worth(Touch(store, i), most, exact)
      BY <1>7, <2>7, TouchSupply
    <2>5. Good
      BY <1>7, <2>3, <2>4, <2>6, <2>7, <2>8, <2>9
    <2> QED
      BY <2>5 DEF e
  <1>8. CASE i.op = "RETURN"
    <2>1. e = [s EXCEPT !.task.frames = Front(@)]
      BY <1>8 DEF Effect
    <2>2. e.store = s.store /\ e.task.frames = Front(s.task.frames)
      BY <2>1 DEF IsRun, IsTask
    <2>3. Framed(Front(s.task.frames), s.task.msg, most, exact)
      BY <1>8, FramesOn
    <2> HIDE DEF e
    <2>4. Good
      BY <1>8, <2>2, <2>3
    <2> QED
      BY <2>4 DEF e
  <1>9. CASE i.op = "REVERT"
    <2>1. e = Fail(s)
      BY <1>9 DEF Effect
    <2>2. e.store = Last(s.task.frames).snapshot /\ e.task.frames = Front(s.task.frames)
      <3>1. /\ e.store = RevertToSnapshot(s.store, Last(s.task.frames).snapshot)
            /\ e.task = [s.task EXCEPT !.frames = Front(@), !.undone = @ \/ s.task.rw.writes # {}]
        BY <2>1 DEF Fail
      <3> HIDE DEF e
      <3>2. e.store = Last(s.task.frames).snapshot
        BY <3>1 DEF RevertToSnapshot
      <3>3. e.task.frames = Front(s.task.frames)
        BY <3>1 DEF IsRun, IsTask
      <3> QED
        BY <3>2, <3>3 DEF e
    <2>3. /\ Framed(Front(s.task.frames), s.task.msg, most, exact)
          /\ Worth(Last(s.task.frames).snapshot, most, exact)
      BY <1>9, FramesOn
    <2> HIDE DEF e
    <2>4. Good
      BY <1>9, <2>2, <2>3
    <2> QED
      BY <2>4 DEF e
  <1>10. CASE i.op = "SELFDESTRUCT"
    <2>1. e = [s EXCEPT !.task.loaded = s.store.accounts[i.account].balance,
                        !.task.amount = s.store.accounts[Self(s.task)].balance,
                        !.task.fields = @ \cup {i.account, Self(s.task)}]
      BY <1>10 DEF Effect
    <2> HIDE DEF e
    <2>2. /\ DOMAIN e = {"task", "store"} /\ e.store = s.store
          /\ e.task = [s.task EXCEPT !.loaded = s.store.accounts[i.account].balance,
                                     !.amount = s.store.accounts[Self(s.task)].balance,
                                     !.fields = @ \cup {i.account, Self(s.task)}]
      BY <2>1 DEF IsRun, IsTask
    <2>3. /\ e.task.frames = s.task.frames /\ e.task.msg = s.task.msg
          /\ e.task.loaded = s.store.accounts[i.account].balance
          /\ e.task.amount = s.store.accounts[Self(s.task)].balance
      BY <2>2 DEF IsRun, IsTask
    <2>4. Self(e.task) = Self(s.task)
      BY <2>3 DEF Self
    <2>5. Good
      BY <2>2, <2>3, <2>4
    <2> QED
      BY <2>5 DEF e
  <1>11. CASE i.op = "MOVE"
    <2> DEFINE later == SelfDestruct(AddBalance(s.store, i.account, s.task.loaded, s.task.amount), Self(s.task))
    <2>1. e = [s EXCEPT !.store = later, !.task.fields = @ \cup {i.account, Self(s.task)}]
      BY <1>11 DEF Effect, IsRun
    <2>2. PICK store, to, self, loaded, amount :
            /\ store = s.store /\ to = i.account /\ self = Self(s.task)
            /\ loaded = s.task.loaded /\ amount = s.task.amount
      OBVIOUS
    <2>3. /\ HasBalances(store) /\ IsState(store) /\ ~store.shared
          /\ to \in Addresses /\ self \in Addresses /\ Worth(store, most, exact)
          /\ loaded = store.accounts[to].balance /\ amount = store.accounts[self].balance
          /\ exact => to # self
      BY <1>11, <2>2 DEF Worth, IsRun
    <2>4. PICK left : left = SelfDestruct(AddBalance(store, to, loaded, amount), self)
      OBVIOUS
    <2>5. HasBalances(left) /\ Supply(left) <= Supply(store) /\ (to # self => Supply(left) = Supply(store))
      BY <2>3, <2>4, MoveSupply
    <2>6. Worth(left, most, exact)
      BY <2>3, <2>5, WorthLess
    <2>7. left = later
      BY <2>2, <2>4
    <2> HIDE DEF later
    <2>8. e.store = later /\ e.task.frames = s.task.frames
      BY <2>1 DEF IsRun, IsTask
    <2> HIDE DEF e
    <2>9. Good
      BY <1>11, <2>6, <2>7, <2>8
    <2> QED
      BY <2>9 DEF e
  <1> QED
    BY <1>2, <1>3, <1>4, <1>5, <1>6, <1>7, <1>8, <1>9, <1>10, <1>11

\* After RefundGas nothing more can be taken back.
LEMMA RefundGasWorth ==
    ASSUME NEW s, IsRun(s), NEW most, NEW exact, Worth(s.store, most, exact)
    PROVE  LET e == RefundGas(s)
           IN  /\ Worth(e.store, most, exact) /\ Underway(e.task, e.store, most, exact)
               /\ e.task.stage = "credit"
  <1> DEFINE e == RefundGas(s)
             r == Refund(s.task.msg.limit - s.task.gas, s.store.refund)
             loaded == s.store.accounts[s.task.msg.from].balance
  <1>1. /\ DOMAIN e = {"task", "store"} /\ e.store = s.store
        /\ e.task = [s.task EXCEPT !.gas = @ + r, !.loaded = loaded, !.frames = <<>>, !.stage = "credit"]
    BY DEF RefundGas, IsRun
  <1>2. /\ e.task.frames = <<>> /\ e.task.stage = "credit" /\ e.task.loaded = loaded
        /\ e.task.msg = s.task.msg
    BY <1>1 DEF IsRun, IsTask
  <1> HIDE DEF e
  <1>3. Underway(e.task, e.store, most, exact)
    BY <1>1, <1>2 DEF Underway
  <1>4. Worth(e.store, most, exact)
    BY <1>1
  <1> QED
    BY <1>2, <1>3, <1>4 DEF e

\* What a program calls, it may run; what it favors, it does not, if that is so of
\* the message.
LEMMA InstructionWorth ==
    ASSUME NEW ran, WellFormed(ran.msg), Position(ran), ran.pc <= Len(ran.msg.program),
           FramesInv(ran.frames, FALSE), NEW most, NEW exact,
           Framed(ran.frames, ran.msg, most, exact), exact => FavorsOthers(ran.msg)
    PROVE  LET i == Instruction(ran)
           IN  /\ i.op \in Calls => i.account \in Called(ran.msg)
               /\ i.op = "MOVE" =>
                    /\ ran.pc \in DOMAIN ran.msg.program /\ i = ran.msg.program[ran.pc]
                    /\ i.account \in Addresses /\ Self(ran) \in Addresses
                    /\ exact => i.account # Self(ran)
  <1> DEFINE i == Instruction(ran)
             program == ran.msg.program
  <1>1. /\ IsInstruction(i)
        /\ ran.pc = 0 => i.op \in Calls
        /\ ran.pc # 0 => i = program[ran.pc] /\ ran.pc \in DOMAIN program /\ Len(ran.frames) >= 1
    BY InstructionFacts
  <1>2. i.op \in Calls => i.account \in Called(ran.msg)
    <2>1. CASE ran.pc = 0
      <3>1. i.account = ran.msg.to
        BY <2>1 DEF Instruction
      <3> QED
        BY <3>1 DEF Called
    <2>2. CASE ran.pc # 0
      BY <1>1, <2>2 DEF Called
    <2> QED
      BY <2>1, <2>2
  <1>3. ASSUME i.op = "MOVE"
        PROVE  /\ ran.pc \in DOMAIN program /\ i = program[ran.pc]
               /\ i.account \in Addresses /\ Self(ran) \in Addresses
               /\ exact => i.account # Self(ran)
    <2>1. ran.pc # 0
      BY <1>1, <1>3 DEF Calls
    <2>2. /\ ran.pc > 1 /\ program[ran.pc - 1].op = "SELFDESTRUCT"
          /\ program[ran.pc - 1].account = i.account
      BY <1>1, <1>3, <2>1 DEF WellFormed
    <2>3. ran.pc - 1 \in DOMAIN program
      BY <1>1, <2>1, <2>2, ProgramFacts
    <2>4. Self(ran) \in Called(ran.msg)
      <3>1. Last(ran.frames).account \in Called(ran.msg)
        BY <1>1, <2>1, FramesOn
      <3>2. ran.frames # <<>>
        BY <1>1, <2>1
      <3> QED
        BY <3>1, <3>2 DEF Self
    <2>5. Self(ran) \in Addresses
      BY SelfIsAccount, ProgramFacts
    <2>6. exact => i.account \notin Called(ran.msg)
      BY <2>2, <2>3 DEF FavorsOthers
    <2> QED
      BY <1>1, <1>3, <2>1, <2>4, <2>5, <2>6 DEF IsInstruction
  <1> QED
    BY <1>2, <1>3

\* Only a SELFDESTRUCT leads to a MOVE.
LEMMA BeforeMove ==
    ASSUME NEW s, NEW e, NEW i, NEW n \in Nat, WellFormed(s.task.msg),
           s.task.pc = n + 1, n <= Len(s.task.msg.program),
           IF n = 0 THEN i.op \in Calls /\ i.skip = Len(s.task.msg.program)
           ELSE i = s.task.msg.program[n] /\ n \in DOMAIN s.task.msg.program,
           Outcome(s, e, i),
           e.task.pc \in DOMAIN s.task.msg.program, s.task.msg.program[e.task.pc].op = "MOVE"
    PROVE  i.op = "SELFDESTRUCT" /\ i.account = s.task.msg.program[e.task.pc].account
  <1> DEFINE program == s.task.msg.program
  <1>1. Len(program) \in Nat /\ DOMAIN program = 1..Len(program)
    BY ProgramFacts
  <1>2. /\ e.task.pc > 1 /\ program[e.task.pc - 1].op = "SELFDESTRUCT"
        /\ program[e.task.pc - 1].account = program[e.task.pc].account
    BY DEF WellFormed
  <1>3. CASE e.task.pc = n + 1
    <2>1. n # 0 /\ e.task.pc - 1 = n
      BY <1>2, <1>3
    <2> QED
      BY <1>2, <2>1
  <1>4. CASE e.task.pc # n + 1
    <2>1. i.op \in Calls \cup {"JUMPI"} /\ e.task.pc = n + 1 + i.skip
      BY <1>4 DEF Outcome
    <2>2. n # 0
      BY <1>1, <2>1
    <2>3. program[e.task.pc].op # "MOVE"
      BY <2>1, <2>2 DEF WellFormed
    <2> QED
      BY <2>3
  <1> QED
    BY <1>3, <1>4

LEMMA RunWorth ==
    ASSUME NEW s, IsRun(s), s.store.shared = FALSE, WellFormed(s.task.msg), s.task.stage = "run",
           s.task.gas \in Nat, Position(s.task), FramesInv(s.task.frames, FALSE),
           NEW most \in Int, NEW exact, exact => FavorsOthers(s.task.msg),
           Worth(s.store, most, exact), Underway(s.task, s.store, most, exact)
    PROVE  /\ Worth(Run(s).store, most, exact) /\ Underway(Run(s).task, Run(s).store, most, exact)
           /\ Run(s).task.stage \in {"run", "credit"}
  <1> DEFINE i == Instruction(s.task)
             cost == Cost(i, s.task.pc)
             named == Traced(i, Self(s.task))
             more == Recorded(i, Self(s.task), Asked(s.store, i))
             traced == [s EXCEPT !.task.traced = Add(@, named)]
             paid == [traced EXCEPT !.task.gas = @ - cost, !.task.pc = @ + 1, !.task.rw = Add(@, more)]
             Good(e) == /\ Worth(e.store, most, exact) /\ Underway(e.task, e.store, most, exact)
                        /\ e.task.stage \in {"run", "credit"}
  <1>1. s.task.pc \in Nat /\ Len(s.task.msg.program) \in Nat /\ DOMAIN s.task.msg.program = 1..Len(s.task.msg.program)
    BY ProgramFacts DEF Position
  <1>2. Framed(s.task.frames, s.task.msg, most, exact)
    BY DEF Underway, Framed
  <1>3. CASE s.task.pc > Len(s.task.msg.program)
    BY <1>3, RefundGasWorth DEF Run
  <1>4. CASE s.task.pc <= Len(s.task.msg.program)
    <2>1. /\ IsInstruction(i)
          /\ s.task.pc = 0 => i.op \in Calls /\ i.skip = Len(s.task.msg.program)
          /\ s.task.pc # 0 => /\ i = s.task.msg.program[s.task.pc] /\ s.task.pc \in DOMAIN s.task.msg.program
                              /\ Len(s.task.frames) >= 1
      BY <1>4, InstructionFacts
    <2>2. /\ i.op \in Calls => i.account \in Called(s.task.msg)
          /\ i.op = "MOVE" =>
                /\ s.task.pc \in DOMAIN s.task.msg.program /\ i = s.task.msg.program[s.task.pc]
                /\ i.account \in Addresses /\ Self(s.task) \in Addresses
                /\ exact => i.account # Self(s.task)
      BY <1>2, <1>4, InstructionWorth
    <2>3. i.op = "MOVE" => /\ s.task.loaded = s.store.accounts[i.account].balance
                           /\ s.task.amount = s.store.accounts[Self(s.task)].balance
      BY <2>2 DEF Underway
    <2>4. cost \in {0, 1} /\ (s.task.pc = 0 => cost = 0)
      BY DEF Cost
    <2>5. Run(s) = IF s.task.gas >= cost THEN Effect(paid, i)
                   ELSE RefundGas(Fail([traced EXCEPT !.task.gas = 0, !.task.frames = SubSeq(@, 1, 1)]))
      BY <1>1, <1>4 DEF Run
    <2> HIDE DEF i, cost, more, named
    <2>6. /\ DOMAIN traced = {"task", "store"} /\ traced.store = s.store
          /\ traced.task = [s.task EXCEPT !.traced = Add(@, named)]
      BY DEF IsRun
    <2>7. /\ IsTask(traced.task)
          /\ \A f \in DOMAIN s.task \ {"traced"} : traced.task[f] = s.task[f]
      BY <2>6 DEF IsRun, IsTask
    <2>8. CASE s.task.gas >= cost
      <3>1. /\ DOMAIN paid = {"task", "store"} /\ paid.store = s.store
            /\ paid.task = [traced.task EXCEPT !.gas = @ - cost, !.pc = @ + 1, !.rw = Add(@, more)]
        BY <2>6, <2>7 DEF IsTask
      <3> HIDE DEF traced, paid
      <3>2. /\ IsTask(paid.task) /\ paid.task.pc = s.task.pc + 1
            /\ paid.task.msg = s.task.msg /\ paid.task.frames = s.task.frames
            /\ paid.task.loaded = s.task.loaded /\ paid.task.amount = s.task.amount
            /\ paid.task.stage = "run"
        BY <3>1, <2>7 DEF IsTask, IsRun
      <3>3. Self(paid.task) = Self(s.task)
        BY <3>2 DEF Self
      <3>4. IsRun(paid) /\ FramesInv(paid.task.frames, FALSE) /\ paid.store.shared = FALSE
        BY <3>1, <3>2 DEF IsRun
      <3>5. i.op \in {"RETURN", "REVERT"} => Len(paid.task.frames) >= 1
        BY <2>1, <3>2 DEF Calls
      <3> DEFINE e == Effect(paid, i)
      <3>6. Kept(paid, e) /\ Outcome(paid, e, i)
        BY <2>1, <3>4, <3>5, EffectKeeps DEF IsInstruction, Calls
      <3>7. /\ Worth(paid.store, most, exact) /\ Framed(paid.task.frames, paid.task.msg, most, exact)
            /\ i.op \in Calls => i.account \in Called(paid.task.msg) /\ i.account \in Addresses
            /\ i.op = "MOVE" =>
                /\ i.account \in Addresses /\ Self(paid.task) \in Addresses
                /\ paid.task.loaded = paid.store.accounts[i.account].balance
                /\ paid.task.amount = paid.store.accounts[Self(paid.task)].balance
                /\ exact => i.account # Self(paid.task)
        BY <1>2, <2>1, <2>2, <2>3, <3>1, <3>2, <3>3 DEF IsInstruction, Calls
      <3>8. /\ Worth(e.store, most, exact) /\ Framed(e.task.frames, paid.task.msg, most, exact)
            /\ i.op = "SELFDESTRUCT" =>
                    /\ e.task.loaded = e.store.accounts[i.account].balance
                    /\ e.task.amount = e.store.accounts[Self(e.task)].balance
        BY <2>1, <3>4, <3>5, <3>7, EffectWorth DEF IsInstruction
      <3> HIDE DEF e
      <3>9. e.task.msg = s.task.msg /\ e.task.stage = "run"
        BY <3>2, <3>6 DEF Kept
      <3>10. ASSUME e.task.pc \in DOMAIN s.task.msg.program, s.task.msg.program[e.task.pc].op = "MOVE"
             PROVE  i.op = "SELFDESTRUCT" /\ i.account = s.task.msg.program[e.task.pc].account
        <4>1. PICK n \in Nat : n = s.task.pc
          BY <1>1
        <4>2. /\ WellFormed(paid.task.msg) /\ paid.task.pc = n + 1 /\ n <= Len(paid.task.msg.program)
              /\ IF n = 0 THEN i.op \in Calls /\ i.skip = Len(paid.task.msg.program)
                 ELSE i = paid.task.msg.program[n] /\ n \in DOMAIN paid.task.msg.program
              /\ Outcome(paid, e, i)
              /\ e.task.pc \in DOMAIN paid.task.msg.program /\ paid.task.msg.program[e.task.pc].op = "MOVE"
          BY <1>4, <2>1, <3>2, <3>6, <3>10, <4>1
        <4> QED
          BY <4>2, <3>2, BeforeMove
      <3>11. Good(e)
        BY <3>2, <3>8, <3>9, <3>10 DEF Underway, Framed
      <3> QED
        BY <2>5, <2>8, <3>11 DEF e
    <2>9. CASE ~(s.task.gas >= cost)
      <3>1. s.task.pc # 0
        BY <2>4, <2>9
      <3> DEFINE first == SubSeq(s.task.frames, 1, 1)
                 short == [traced EXCEPT !.task.gas = 0, !.task.frames = SubSeq(@, 1, 1)]
      <3>2. /\ FramesInv(first, FALSE) /\ Len(first) = 1 /\ Framed(first, s.task.msg, most, exact)
        BY <1>2, <2>1, <3>1, FirstFrame, FramesOn
      <3>3. /\ DOMAIN short = {"task", "store"} /\ short.store = s.store
            /\ short.task = [traced.task EXCEPT !.gas = 0, !.frames = SubSeq(@, 1, 1)]
        BY <2>6, <2>7 DEF IsTask
      <3> HIDE DEF traced, short, first
      <3>4. IsTask(short.task) /\ short.task.frames = first
        BY <3>3, <2>7 DEF IsTask, IsRun, first
      <3>5. IsRun(short) /\ FramesInv(short.task.frames, short.store.shared) /\ Len(short.task.frames) >= 1
        BY <3>2, <3>3, <3>4, 1 >= 1 DEF IsRun
      <3> DEFINE e == Fail(short)
      <3>6. IsRun(e)
        BY <3>5, FailKeeps
      <3>7. e.store = Last(first).snapshot
        BY <3>3, <3>4 DEF Fail, RevertToSnapshot
      <3> HIDE DEF e
      <3>8. Worth(e.store, most, exact)
        BY <3>2, <3>7, FramesOn, 1 >= 1
      <3>9. Good(RefundGas(e))
        BY <3>6, <3>8, RefundGasWorth
      <3> QED
        BY <3>9, <2>5, <2>9 DEF e, short
    <2> QED
      BY <2>8, <2>9
  <1> QED
    BY <1>1, <1>3, <1>4

\* The coin that a step creates is what the gas is worth that it returns.
LEMMA StepWorth ==
    ASSUME NEW s, Ready(s, FALSE), s.task.stage # "done",
           NEW most \in Int, NEW exact, exact => FavorsOthers(s.task.msg),
           Worth(s.store, most, exact), Underway(s.task, s.store, most, exact)
    PROVE  LET e == Step(s)
           IN  /\ Coin(e.task) \in Nat
               /\ Worth(e.store, most + Coin(e.task), exact)
               /\ Underway(e.task, e.store, most + Coin(e.task), exact)
  <1> DEFINE e == Step(s)
             Good == /\ Coin(e.task) \in Nat
                     /\ Worth(e.store, most + Coin(e.task), exact)
                     /\ Underway(e.task, e.store, most + Coin(e.task), exact)
  <1>1. /\ IsTask(s.task) /\ IsState(s.store) /\ s.store.shared = FALSE
        /\ WellFormed(s.task.msg) /\ FramesInv(s.task.frames, FALSE) /\ StageInv(s.task)
        /\ DOMAIN s = {"task", "store"} /\ IsRun(s)
    BY DEF Ready, TaskInv, IsRun
  <1> HIDE DEF e
  <1>2. s.task.msg.from \in Addresses /\ s.task.msg.price \in Nat
    BY <1>1 DEF WellFormed
  <1>3. ASSUME Coin(e.task) = 0, Worth(e.store, most, exact), Underway(e.task, e.store, most, exact)
        PROVE  Good
    <2>1. most + 0 = most
      OBVIOUS
    <2> QED
      BY <1>3, <2>1
  <1>4. ASSUME s.task.stage = "check"
        PROVE  Good
    <2>1. e = Check(s)
      BY <1>4 DEF Step, e
    <2> DEFINE loaded == s.store.accounts[s.task.msg.from].nonce
    <2>2. \/ e = [s EXCEPT !.task.gas = s.task.msg.limit - IntrinsicGas, !.task.pool = @ - s.task.msg.limit,
                           !.task.loaded = loaded, !.task.fields = @ \cup {s.task.msg.from},
                           !.task.stage = "setNonce"]
          \/ e = [s EXCEPT !.task.err = "refused", !.task.stage = "done"]
      BY <2>1 DEF Check
    <2>3. /\ e.store = s.store
          /\ \/ e.task = [s.task EXCEPT !.gas = s.task.msg.limit - IntrinsicGas, !.pool = @ - s.task.msg.limit,
                                        !.loaded = loaded, !.fields = @ \cup {s.task.msg.from},
                                        !.stage = "setNonce"]
             \/ e.task = [s.task EXCEPT !.err = "refused", !.stage = "done"]
      BY <1>1, <2>2 DEF IsTask
    <2>4. s.task.frames = <<>>
      BY <1>1, <1>4 DEF StageInv
    <2>5. \/ e.task.stage = "setNonce" /\ e.task.frames = <<>>
          \/ e.task.stage = "done" /\ e.task.err = "refused"
      BY <1>1, <2>3, <2>4 DEF IsTask
    <2>6. Coin(e.task) = 0
      BY <2>5 DEF Coin
    <2>7. Underway(e.task, e.store, most, exact)
      <3>1. DOMAIN <<>> = {}
        OBVIOUS
      <3> QED
        BY <2>5, <3>1, Zenon DEF Underway
    <2> QED
      BY <1>3, <2>3, <2>6, <2>7
  <1>5. ASSUME s.task.stage = "setNonce"
        PROVE  Good
    <2> DEFINE store == SetNonce(s.store, s.task.msg.from, s.task.loaded + 1)
               called == [s EXCEPT !.store = SetNonce(@, s.task.msg.from, s.task.loaded + 1), !.task.stage = "run"]
    <2>1. e = Run(called)
      BY <1>5 DEF Step, IncrementNonce, e
    <2>2. Worth(store, most, exact)
      <3>1. PICK state, a, nonce : state = s.store /\ a = s.task.msg.from /\ nonce = s.task.loaded + 1
        OBVIOUS
      <3>2. HasBalances(state) /\ IsState(state) /\ ~state.shared /\ a \in Addresses
        BY <1>1, <1>2, <3>1 DEF Worth
      <3>3. HasBalances(SetNonce(state, a, nonce)) /\ Supply(SetNonce(state, a, nonce)) = Supply(state)
        BY <3>2, SetNonceSupply
      <3> QED
        BY <3>1, <3>3 DEF Worth
    <2>3. IsState(store) /\ store.shared = FALSE
      <3>1. PICK state, a, nonce : state = s.store /\ a = s.task.msg.from /\ nonce = s.task.loaded + 1
        OBVIOUS
      <3>2. IsState(state)
        BY <1>1, <3>1
      <3>3. IsState(SetNonce(state, a, nonce)) /\ SetNonce(state, a, nonce).shared = state.shared
        BY <3>2, AccountOperations
      <3> QED
        BY <1>1, <3>1, <3>3
    <2>4. /\ DOMAIN called = {"task", "store"} /\ called.store = store
          /\ called.task = [s.task EXCEPT !.stage = "run"]
      BY <1>1
    <2> HIDE DEF store, called
    <2>5. /\ IsTask(called.task) /\ called.task.stage = "run" /\ called.task.msg = s.task.msg
          /\ called.task.pc = 0 /\ called.task.frames = <<>> /\ called.task.gas \in Nat
      BY <1>1, <1>5, <2>4 DEF IsTask, StageInv
    <2>6. /\ IsRun(called) /\ called.store.shared = FALSE /\ WellFormed(called.task.msg)
          /\ Position(called.task) /\ FramesInv(called.task.frames, FALSE)
      BY <1>1, <2>3, <2>4, <2>5, NoFrame DEF IsRun, Position
    <2>7. Underway(called.task, called.store, most, exact)
      <3>1. 0 \notin DOMAIN called.task.msg.program
        BY <2>6, ProgramFacts
      <3>2. /\ DOMAIN called.task.frames = {}
            /\ called.task.pc \notin DOMAIN called.task.msg.program
            /\ called.task.stage # "credit"
        BY <2>5, <3>1
      <3> QED
        BY <3>2, Zenon DEF Underway
    <2>8. Worth(called.store, most, exact) /\ (exact => FavorsOthers(called.task.msg))
      BY <2>2, <2>4, <2>5
    <2>9. /\ Worth(e.store, most, exact) /\ Underway(e.task, e.store, most, exact)
          /\ e.task.stage \in {"run", "credit"}
      BY <2>1, <2>5, <2>6, <2>7, <2>8, RunWorth
    <2> QED
      BY <1>3, <2>9 DEF Coin
  <1>6. ASSUME s.task.stage = "run"
        PROVE  Good
    <2>1. e = Run(s)
      BY <1>6 DEF Step, e
    <2>2. Position(s.task) /\ s.task.gas \in Nat
      BY <1>1, <1>6 DEF StageInv, Position
    <2>3. /\ Worth(e.store, most, exact) /\ Underway(e.task, e.store, most, exact)
          /\ e.task.stage \in {"run", "credit"}
      BY <1>1, <1>6, <2>1, <2>2, RunWorth
    <2> QED
      BY <1>3, <2>3 DEF Coin
  <1>7. ASSUME s.task.stage = "credit"
        PROVE  Good
    <2> DEFINE amount == s.task.gas * s.task.msg.price
               store == AddBalance(s.store, s.task.msg.from, s.task.loaded, amount)
    <2>1. /\ e.store = store
          /\ e.task = [s.task EXCEPT !.pool = @ + s.task.gas, !.stage = "done"]
      BY <1>1, <1>7 DEF Step, Credit, IsTask, e
    <2>2. s.task.pool = 0 /\ s.task.gas \in Nat /\ s.task.err = "nil"
      BY <1>1, <1>7 DEF StageInv
    <2>3. e.task.stage = "done" /\ e.task.err = "nil" /\ e.task.pool = s.task.gas /\ e.task.msg = s.task.msg
      BY <1>1, <2>1, <2>2 DEF IsTask
    <2>4. Coin(e.task) = amount
      BY <2>3 DEF Coin
    <2>5. amount \in Nat
      BY <1>2, <2>2
    <2>6. s.task.loaded = s.store.accounts[s.task.msg.from].balance
      BY <1>7 DEF Underway
    <2> HIDE DEF amount
    <2>7. HasBalances(store) /\ Supply(store) = Supply(s.store) + amount
      <3>1. PICK state, a, loaded, much :
              state = s.store /\ a = s.task.msg.from /\ loaded = s.task.loaded /\ much = amount
        OBVIOUS
      <3>2. /\ HasBalances(state) /\ IsState(state) /\ ~state.shared /\ a \in Addresses
            /\ loaded = state.accounts[a].balance /\ much \in Nat
        BY <1>1, <1>2, <2>5, <2>6, <3>1 DEF Worth
      <3>3. PICK later : later = AddBalance(state, a, loaded, much)
        OBVIOUS
      <3>4. HasBalances(later) /\ Supply(later) = Supply(state) + much
        BY <3>2, <3>3, AddBalanceSupply
      <3>5. later = store
        BY <3>1, <3>3
      <3> QED
        BY <3>1, <3>4, <3>5
    <2>8. Worth(store, most + amount, exact)
      <3>1. Supply(s.store) \in Int /\ Supply(s.store) <= most /\ (exact => Supply(s.store) = most)
        BY SupplyInt DEF Worth
      <3>2. PICK x \in Int : x = Supply(s.store)
        BY <3>1
      <3>3. Supply(store) <= most + amount /\ (exact => Supply(store) = most + amount)
        BY <2>5, <2>7, <3>1, <3>2
      <3> QED
        BY <2>7, <3>3 DEF Worth
    <2>9. Underway(e.task, e.store, most + amount, exact)
      BY <2>3 DEF Underway
    <2> QED
      BY <2>1, <2>4, <2>5, <2>8, <2>9
  <1>8. s.task.stage \in {"check", "setNonce", "run", "credit"}
    BY <1>1 DEF StageInv
  <1> QED
    BY <1>4, <1>5, <1>6, <1>7, <1>8 DEF e

(***************************************************************************)
(* The supply through a block.                                             *)
(***************************************************************************)
LEMMA DatabaseHasBalances == HasBalances(Database)
  BY FullStateAssumption DEF HasBalances

LEMMA InitSupply == Init => SupplyInvariant
  <1> SUFFICES ASSUME Init
               PROVE  SupplyInvariant
    OBVIOUS
  <1>1. phase = "predict" /\ database = Database
    BY DEF Init
  <1>2. ASSUME NEW t \in Txs
        PROVE  truth[t].stage = "check"
    <2>1. truth[t] = NewTask(t, block[t])
      BY DEF Init
    <2>2. PICK msg : msg = block[t]
      OBVIOUS
    <2>3. NewTask(t, msg).stage = "check"
      BY DEF NewTask
    <2> QED
      BY <2>1, <2>2, <2>3
  <1> QED
    BY <1>1, <1>2 DEF SupplyInvariant

LEMMA PredictSupply ==
    ASSUME FullStateInvariant, SupplyInvariant, NEW t \in Txs, PredictTx(t)
    PROVE  SupplyInvariant'
  <1> DEFINE s == Step([task |-> forecast[t], store |-> database])
  <1>1. /\ phase = "predict" /\ phase' = "predict" /\ truth' = truth
        /\ forecast' = [forecast EXCEPT ![t] = s.task]
        /\ database' = IF s.task.stage = "done" THEN Database ELSE s.store
    BY DEF PredictTx
  <1> HIDE DEF s
  <1>2. forecast'[t] = s.task
    BY <1>1 DEF FullStateInvariant
  <1>3. Done(forecast') => database' = Database
    BY <1>1, <1>2 DEF Done
  <1> QED
    BY <1>1, <1>3 DEF SupplyInvariant

LEMMA EndPredictionsSupply ==
    ASSUME FullStateInvariant, SupplyInvariant, EndPredictions
    PROVE  SupplyInvariant'
  <1>1. /\ phase = "predict" /\ phase' = "record" /\ Done(forecast)
        /\ truth' = truth /\ database' = database /\ block' = block
    BY DEF EndPredictions
  <1>2. database = Database /\ \A t \in Txs : truth[t].stage = "check"
    BY <1>1 DEF SupplyInvariant
  <1>3. Returned(truth) = 0
    <2>1. \A t \in Txs : Coin(truth[t]) = 0
      BY <1>2 DEF Coin
    <2> QED
      BY <2>1, NothingReturned
  <1>4. Due' = Supply(Database)
    <2>1. Supply(Database) \in Int
      BY SupplyInt, DatabaseHasBalances
    <2>2. Due' = Supply(Database) + 0
      BY <1>1, <1>3 DEF Due
    <2> QED
      BY <2>1, <2>2
  <1>5. Supply(Database) <= Supply(Database)
    BY SupplyInt, DatabaseHasBalances
  <1>6. Worth(database, Due, AllFavorOthers)'
    BY <1>1, <1>2, <1>4, <1>5, DatabaseHasBalances DEF Worth
  <1>7. OneAfterAnother(truth')
    BY <1>1, <1>2 DEF OneAfterAnother
  <1>8. \A t \in Txs : Underway(truth[t], database, Due, AllFavorOthers)'
    BY <1>1, <1>2 DEF Underway
  <1> QED
    BY <1>1, <1>6, <1>7, <1>8 DEF SupplyInvariant

\* What the executions have returned so far are amounts.
LEMMA CoinsAreNumbers ==
    ASSUME BlockInv, FullStateInvariant, NEW t \in Txs
    PROVE  Coin(truth[t]) \in Int
  <1>1. StageInv(truth[t]) /\ truth[t].msg = block[t] /\ WellFormed(block[t])
    BY DEF FullStateInvariant, TaskInv, BlockInv
  <1>2. truth[t].msg.price \in Nat
    BY <1>1 DEF WellFormed
  <1>3. CASE truth[t].stage = "done" /\ truth[t].err = "nil"
    <2>1. truth[t].pool \in Nat
      BY <1>1, <1>3 DEF StageInv
    <2> QED
      BY <1>2, <1>3, <2>1 DEF Coin
  <1>4. CASE ~(truth[t].stage = "done" /\ truth[t].err = "nil")
    BY <1>4 DEF Coin
  <1> QED
    BY <1>3, <1>4

LEMMA RecordSupply ==
    ASSUME BlockInv, FullStateInvariant, SupplyInvariant, NEW t \in Txs, RecordTx(t)
    PROVE  SupplyInvariant'
  <1> DEFINE first == [task |-> truth[t], store |-> database]
             e == Step(first)
  <1>1. /\ phase = "record" /\ phase' = "record" /\ Turn(truth, t) /\ block' = block
        /\ truth' = [truth EXCEPT ![t] = e.task] /\ database' = e.store
    BY DEF RecordTx
  <1>2. truth[t].stage # "done" /\ \A u \in Txs : u < t => truth[u].stage = "done"
    BY <1>1 DEF Turn
  <1>3. /\ OneAfterAnother(truth) /\ Worth(database, Due, AllFavorOthers)
        /\ \A u \in Txs : Underway(truth[u], database, Due, AllFavorOthers)
    BY <1>1 DEF SupplyInvariant
  <1>4. Ready(first, FALSE)
    <2>1. /\ IsState(database) /\ database.shared = FALSE /\ WellFormed(truth[t].msg)
          /\ TaskInv(truth[t], FALSE)
      BY DEF FullStateInvariant, BlockInv, IsState
    <2> QED
      BY <2>1 DEF Ready
  <1>5. first.task = truth[t] /\ first.store = database /\ truth[t].msg = block[t]
    BY DEF FullStateInvariant
  <1>6. AllFavorOthers => FavorsOthers(first.task.msg)
    BY <1>5 DEF AllFavorOthers
  <1>7. Supply(Database) \in Int /\ Returned(truth) \in Int /\ DOMAIN truth = Txs
    <2>1. DOMAIN truth = Txs /\ \A u \in Txs : Coin(truth[u]) \in Int
      BY CoinsAreNumbers DEF FullStateInvariant
    <2> QED
      BY <2>1, ReturnedChanges, SupplyInt, DatabaseHasBalances
  <1>8. Due \in Int
    BY <1>7 DEF Due
  <1> HIDE DEF first, e
  <1>9. /\ Coin(e.task) \in Nat
        /\ Worth(e.store, Due + Coin(e.task), AllFavorOthers)
        /\ Underway(e.task, e.store, Due + Coin(e.task), AllFavorOthers)
    <2>1. PICK most, exact : most \in Int /\ most = Due /\ exact = AllFavorOthers
      BY <1>8
    <2>2. /\ first.task.stage # "done" /\ (exact => FavorsOthers(first.task.msg))
          /\ Worth(first.store, most, exact) /\ Underway(first.task, first.store, most, exact)
      BY <1>2, <1>3, <1>5, <1>6, <2>1
    <2>3. /\ Coin(e.task) \in Nat
          /\ Worth(e.store, most + Coin(e.task), exact)
          /\ Underway(e.task, e.store, most + Coin(e.task), exact)
      BY <1>4, <2>1, <2>2, StepWorth DEF e
    <2> QED
      BY <2>1, <2>3
  <1>10. Due' = Due + Coin(e.task)
    <2>1. Coin(truth[t]) = 0
      BY <1>2 DEF Coin
    <2>2. \A u \in Txs : Coin(truth[u]) \in Int
      BY CoinsAreNumbers
    <2>3. Returned(truth') = Returned(truth) + Coin(e.task) - Coin(truth[t])
      <3>1. PICK ran : ran = e.task
        OBVIOUS
      <3>2. Coin(ran) \in Int
        BY <1>9, <3>1
      <3>3. Returned([truth EXCEPT ![t] = ran]) = Returned(truth) + Coin(ran) - Coin(truth[t])
        BY <1>7, <2>2, <3>2, ReturnedChanges
      <3> QED
        BY <1>1, <3>1, <3>3
    <2>4. Due' = Supply(Database) + Returned(truth') /\ Due = Supply(Database) + Returned(truth)
      BY DEF Due
    <2> QED
      BY <1>7, <1>9, <2>1, <2>3, <2>4
  <1>11. AllFavorOthers' = AllFavorOthers
    BY <1>1 DEF AllFavorOthers
  <1>12. \A u \in Txs : truth'[u] = IF u = t THEN e.task ELSE truth[u]
    BY <1>1, <1>7
  <1>13. ASSUME NEW u \in Txs, u # t
         PROVE  truth[u].stage \in {"check", "done"}
    <2>1. u < t \/ t < u
      BY <1>13, ConflictGraphAssumption
    <2> QED
      BY <1>2, <1>3, <2>1 DEF OneAfterAnother
  <1>14. OneAfterAnother(truth')
    <2> SUFFICES ASSUME NEW v \in Txs, NEW u \in Txs, u < v, truth'[u].stage # "done"
                 PROVE  truth'[v].stage = "check"
      BY DEF OneAfterAnother
    <2>1. v # t
      <3>1. ASSUME v = t
            PROVE  FALSE
        <4>1. truth[u].stage = "done" /\ u # t
          BY <1>2, <3>1, ConflictGraphAssumption
        <4> QED
          BY <1>12, <4>1
      <3> QED
        BY <3>1
    <2>2. truth[u].stage # "done"
      BY <1>2, <1>12
    <2> QED
      BY <1>3, <1>12, <2>1, <2>2 DEF OneAfterAnother
  <1>15. Worth(database', Due', AllFavorOthers')
    BY <1>1, <1>9, <1>10, <1>11
  <1>16. ASSUME NEW u \in Txs
         PROVE  Underway(truth'[u], database', Due', AllFavorOthers')
    <2>1. CASE u = t
      BY <1>1, <1>9, <1>10, <1>11, <1>12, <2>1
    <2>2. CASE u # t
      BY <1>12, <1>13, <2>2 DEF Underway
    <2> QED
      BY <2>1, <2>2
  <1> QED
    BY <1>1, <1>14, <1>15, <1>16 DEF SupplyInvariant

LEMMA NextSupply ==
    ASSUME BlockInv, FullStateInvariant, SupplyInvariant, [Next]_vars
    PROVE  SupplyInvariant'
  <1>1. ASSUME NEW t \in Txs, PredictTx(t) \/ RecordTx(t)
        PROVE  SupplyInvariant'
    BY <1>1, PredictSupply, RecordSupply
  <1>2. ASSUME NEW t \in Txs, StepTx(t)
        PROVE  SupplyInvariant'
    BY <1>2 DEF StepTx, SupplyInvariant
  <1>3. CASE EndPredictions
    BY <1>3, EndPredictionsSupply
  <1>4. CASE Panic
    BY <1>4 DEF Panic, SupplyInvariant
  <1>5. CASE Prefetch
    BY <1>5 DEF Prefetch, SupplyInvariant
  <1>6. CASE EndRound
    BY <1>6 DEF EndRound, SupplyInvariant
  <1>7. CASE UNCHANGED vars
    <2>1. /\ phase' = phase /\ truth' = truth /\ forecast' = forecast /\ database' = database
          /\ block' = block
      BY <1>7 DEF vars
    <2>2. Due' = Due /\ AllFavorOthers' = AllFavorOthers
      BY <2>1 DEF Due, AllFavorOthers
    <2> QED
      BY <2>1, <2>2 DEF SupplyInvariant
  <1> QED
    BY <1>1, <1>2, <1>3, <1>4, <1>5, <1>6, <1>7 DEF Next, Stopped

\* Between any two steps, what the balances of the database add up to, and those of
\* every state that a call may go back to, is what they did before the block and
\* what refundGas has returned since.
THEOREM SupplyIsInvariant == Spec => []SupplyInvariant
  <1>1. BlockInv /\ FullStateInvariant /\ SupplyInvariant /\ [Next]_vars => SupplyInvariant'
    BY NextSupply
  <1> QED
    BY <1>1, InitSupply, BlockStays, ExecutionsAreSound, PTL DEF Spec

\* The transactions of a block create just the coin that refundGas returns, and
\* destroy none but by a self-destruct in its own favor.
THEOREM SupplyGrows == Spec => []SupplyGrowsByRefunds
  <1>1. SupplyInvariant => SupplyGrowsByRefunds
    BY DEF SupplyInvariant, SupplyGrowsByRefunds, Worth, Due, AllFavorOthers
  <1> QED
    BY <1>1, SupplyIsInvariant, PTL

(***************************************************************************)
(* An execution on the database or on the full cache: what a step of it    *)
(* does to slots and to the accounts that can be called.                   *)
(***************************************************************************)
IsSomeStore(store) ==
    /\ IsMap(store, {"shared", "accounts", "slots", "refund"})
    /\ store.shared \in BOOLEAN /\ store.refund \in Nat
    /\ IsMap(store.accounts, Addresses) /\ IsMap(store.slots, Keys)
    /\ \A a \in Addresses : IsAccount(store.accounts[a])
    /\ ~store.shared => \A a \in Addresses : store.accounts[a].code => store.accounts[a].held

\* The same contracts can be called, and no slots have changed but these.
Later(store, left, keys) ==
    /\ IsSomeStore(left) /\ left.shared = store.shared
    /\ \A a \in Addresses : Callable(left, a) <=> Callable(store, a)
    /\ \A k \in Keys \ keys : left.slots[k] = store.slots[k]

LEMMA StoreIsLater == \A store, keys : IsSomeStore(store) => Later(store, store, keys)
  BY DEF Later

LEMMA LaterInTurn ==
    ASSUME NEW store, NEW left, NEW last, NEW keys, NEW more, Later(store, left, keys), Later(left, last, more),
           keys \subseteq more
    PROVE  Later(store, last, more)
  BY DEF Later

LEMMA StoreIsState ==
    ASSUME NEW store, IsSomeStore(store)
    PROVE  IsState(store)
  BY DEF IsSomeStore, IsMap, IsState

LEMMA CacheIsStore ==
    ASSUME NEW store, IsCache(store)
    PROVE  IsSomeStore(store)
  <1>1. /\ IsMap(store, {"shared", "accounts", "slots", "refund"})
        /\ IsMap(store.accounts, Addresses) /\ IsMap(store.slots, Keys)
        /\ \A a \in Addresses : IsAccount(store.accounts[a])
        /\ store.shared = TRUE /\ store.refund = 0
    BY Zenon DEF IsCache
  <1>2. store.shared \in BOOLEAN /\ ~(~store.shared)
    BY <1>1, Zenon
  <1>3. store.refund \in Nat
    BY <1>1
  <1> QED
    BY <1>1, <1>2, <1>3, Zenon DEF IsSomeStore

LEMMA SetStateLater ==
    ASSUME NEW store, IsSomeStore(store), NEW k \in Keys, NEW v, NEW keys, k \in keys
    PROVE  /\ Later(store, SetState(store, k, v), keys)
           /\ \A l \in Keys : l # k => SetState(store, k, v).slots[l] = store.slots[l]
           /\ SetState(store, k, v).slots[k] = IF store.slots[k] = NoValue THEN NoValue ELSE v
  <1>1. PICK left : left = SetState(store, k, v)
    OBVIOUS
  <1>2. /\ left.accounts = store.accounts /\ left.shared = store.shared /\ left.refund = store.refund
        /\ IsMap(left, {"shared", "accounts", "slots", "refund"}) /\ IsMap(left.slots, Keys)
        /\ \A l \in Keys : l # k => left.slots[l] = store.slots[l]
        /\ left.slots[k] = IF store.slots[k] = NoValue THEN NoValue ELSE v
    BY <1>1 DEF IsSomeStore, SetState, IsMap
  <1>3. IsSomeStore(left)
    BY <1>2 DEF IsSomeStore
  <1>4. \A a \in Addresses : Callable(left, a) <=> Callable(store, a)
    BY <1>2 DEF Callable, Exist
  <1> QED
    BY <1>1, <1>2, <1>3, <1>4 DEF Later

LEMMA AddRefundLater ==
    ASSUME NEW store, IsSomeStore(store), NEW gas \in Nat, NEW keys
    PROVE  /\ Later(store, AddRefund(store, gas), keys)
           /\ AddRefund(store, gas).slots = store.slots
  <1>1. PICK left : left = AddRefund(store, gas)
    OBVIOUS
  <1>2. /\ left.accounts = store.accounts /\ left.shared = store.shared /\ left.refund \in Nat
        /\ IsMap(left, {"shared", "accounts", "slots", "refund"}) /\ left.slots = store.slots
    BY <1>1 DEF IsSomeStore, AddRefund, IsMap
  <1>3. IsSomeStore(left)
    BY <1>2 DEF IsSomeStore
  <1>4. \A a \in Addresses : Callable(left, a) <=> Callable(store, a)
    BY <1>2 DEF Callable, Exist
  <1> QED
    BY <1>1, <1>2, <1>3, <1>4 DEF Later

LEMMA SetAccountLater ==
    ASSUME NEW store, IsSomeStore(store), NEW a \in Addresses, NEW object, IsAccount(object),
           object.code = store.accounts[a].code, NEW keys
    PROVE  /\ Later(store, SetAccount(store, a, object), keys)
           /\ SetAccount(store, a, object).slots = store.slots
           /\ SetAccount(store, a, object).accounts[a].code = store.accounts[a].code
  <1>1. PICK left : left = SetAccount(store, a, object)
    OBVIOUS
  <1>2. CASE store.shared /\ ~Exist(store, a)
    <2>1. left = store
      BY <1>1, <1>2 DEF SetAccount
    <2> QED
      BY <1>1, <2>1, StoreIsLater
  <1>3. CASE ~(store.shared /\ ~Exist(store, a))
    <2>1. PICK known : known = [object EXCEPT !.held = TRUE]
      OBVIOUS
    <2>2. IsAccount(known) /\ known.held = TRUE /\ known.code = object.code
      BY <2>1 DEF IsAccount, IsMap
    <2>3. left = [store EXCEPT !.accounts[a] = known]
      BY <1>1, <1>3, <2>1 DEF SetAccount
    <2>4. /\ IsMap(left, {"shared", "accounts", "slots", "refund"}) /\ left.slots = store.slots
          /\ left.shared = store.shared /\ left.refund = store.refund
          /\ IsMap(left.accounts, Addresses) /\ left.accounts[a] = known
          /\ \A b \in Addresses : b # a => left.accounts[b] = store.accounts[b]
      BY <2>3 DEF IsSomeStore, IsMap
    <2>5. \A b \in Addresses : IsAccount(left.accounts[b])
      BY <2>2, <2>4 DEF IsSomeStore
    <2>6. \A b \in Addresses : left.accounts[b].code = store.accounts[b].code
      BY <2>2, <2>4
    <2>7. ~left.shared => \A b \in Addresses : left.accounts[b].code => left.accounts[b].held
      <3>1. ASSUME ~left.shared, NEW b \in Addresses, left.accounts[b].code
            PROVE  left.accounts[b].held
        <4>1. CASE b = a
          BY <2>2, <2>4, <4>1
        <4>2. CASE b # a
          BY <2>4, <3>1, <4>2 DEF IsSomeStore
        <4> QED
          BY <4>1, <4>2
      <3> QED
        BY <3>1
    <2>8. IsSomeStore(left)
      BY <2>4, <2>5, <2>7 DEF IsSomeStore
    <2>9. ASSUME NEW b \in Addresses
          PROVE  Callable(left, b) <=> Callable(store, b)
      <3>1. CASE b = a
        <4>1. store.shared \/ ~store.shared
          OBVIOUS
        <4>2. store.accounts[a].code => store.accounts[a].held
          BY <1>3 DEF Exist, IsSomeStore
        <4> QED
          BY <2>2, <2>4, <2>6, <3>1, <4>2 DEF Callable, Exist
      <3>2. CASE b # a
        BY <2>4, <3>2 DEF Callable, Exist
      <3> QED
        BY <3>1, <3>2
    <2> QED
      BY <1>1, <2>2, <2>4, <2>8, <2>9 DEF Later
  <1> QED
    BY <1>2, <1>3

LEMMA SetNonceLater ==
    ASSUME NEW store, IsSomeStore(store), NEW a \in Addresses, NEW nonce, NEW keys
    PROVE  Later(store, SetNonce(store, a, nonce), keys) /\ SetNonce(store, a, nonce).slots = store.slots
  <1>1. PICK object : object = [store.accounts[a] EXCEPT !.nonce = nonce]
    OBVIOUS
  <1>2. IsAccount(object) /\ object.code = store.accounts[a].code
    BY <1>1 DEF IsSomeStore, IsAccount, IsMap
  <1>3. SetNonce(store, a, nonce) = SetAccount(store, a, object)
    BY <1>1 DEF SetNonce
  <1> QED
    BY <1>2, <1>3, SetAccountLater

LEMMA AddBalanceLater ==
    ASSUME NEW store, IsSomeStore(store), NEW a \in Addresses, NEW loaded, NEW amount, NEW keys
    PROVE  /\ Later(store, AddBalance(store, a, loaded, amount), keys)
           /\ AddBalance(store, a, loaded, amount).slots = store.slots
  <1>1. PICK object : object = [store.accounts[a] EXCEPT !.balance = loaded + amount]
    OBVIOUS
  <1>2. IsAccount(object) /\ object.code = store.accounts[a].code
    BY <1>1 DEF IsSomeStore, IsAccount, IsMap
  <1>3. AddBalance(store, a, loaded, amount) = store \/ AddBalance(store, a, loaded, amount) = SetAccount(store, a, object)
    BY <1>1 DEF AddBalance
  <1> QED
    BY <1>2, <1>3, SetAccountLater, StoreIsLater

LEMMA TouchLater ==
    ASSUME NEW store, IsSomeStore(store), NEW i, i.account \in Addresses, NEW keys
    PROVE  Later(store, Touch(store, i), keys) /\ Touch(store, i).slots = store.slots
  <1>1. PICK a, balance : a = i.account /\ balance = store.accounts[a].balance
    OBVIOUS
  <1>2. Touch(store, i) = AddBalance(store, a, balance, 0) \/ Touch(store, i) = store
    BY <1>1 DEF Touch
  <1> QED
    BY <1>1, <1>2, AddBalanceLater, StoreIsLater

LEMMA SelfDestructLater ==
    ASSUME NEW store, IsSomeStore(store), NEW a \in Addresses, NEW keys
    PROVE  Later(store, SelfDestruct(store, a), keys) /\ SelfDestruct(store, a).slots = store.slots
  <1>1. PICK object : object = [store.accounts[a] EXCEPT !.alive = FALSE, !.balance = 0]
    OBVIOUS
  <1>2. IsAccount(object) /\ object.code = store.accounts[a].code
    BY <1>1 DEF IsSomeStore, IsAccount, IsMap
  <1>3. SelfDestruct(store, a) = SetAccount(store, a, object)
    BY <1>1 DEF SelfDestruct
  <1> QED
    BY <1>2, <1>3, SetAccountLater

\* What each instruction does.
Looks(s, e, i) ==
    \/ /\ i.op = "SLOAD" /\ e.store = s.store
       /\ e.task = [s.task EXCEPT !.seen = Append(@, GetState(s.store, Key(i)))]
    \/ /\ i.op = "BALANCE" /\ e.store = s.store
       /\ \E v : e.task = [s.task EXCEPT !.seen = Append(@, v), !.fields = @ \cup {i.account}]
    \/ /\ i.op = "SELFDESTRUCT" /\ e.store = s.store
       /\ \E loaded, amount :
            e.task = [s.task EXCEPT !.loaded = loaded, !.amount = amount, !.fields = @ \cup {i.account, Self(s.task)}]

Changes(s, e, i) ==
    \/ i.op = "SSTORE" /\ e.task = s.task /\ e.store = SetState(s.store, Key(i), Word(s.task.tx, s.task.seen))
    \/ /\ i.op = "CLEAR" /\ e.task = s.task
       /\ \E gas \in Nat : e.store = SetState(AddRefund(s.store, gas), Key(i), Number(0))
    \/ /\ i.op = "MOVE" /\ e.task = [s.task EXCEPT !.fields = @ \cup {i.account, Self(s.task)}]
       /\ e.store = SelfDestruct(AddBalance(s.store, i.account, s.task.loaded, s.task.amount), Self(s.task))

Leaps(s, e, i) ==
    \/ /\ i.op = "JUMPI" /\ e.store = s.store
       /\ e.task = IF Last(s.task.seen) = Number(0) THEN [s.task EXCEPT !.pc = @ + i.skip] ELSE s.task
    \/ /\ i.op \in Calls /\ e.store = IF Callable(s.store, i.account) THEN s.store ELSE Touch(s.store, i)
       /\ e.task = IF Callable(s.store, i.account)
                   THEN [s.task EXCEPT !.frames =
                            Append(@, [account |-> i.account, snapshot |-> Snapshot(s.store)])]
                   ELSE [s.task EXCEPT !.pc = @ + i.skip]
    \/ i.op = "RETURN" /\ e.store = s.store /\ e.task = [s.task EXCEPT !.frames = Front(@)]
    \/ /\ i.op = "REVERT" /\ e.store = RevertToSnapshot(s.store, Last(s.task.frames).snapshot)
       /\ e.task = [s.task EXCEPT !.frames = Front(@), !.undone = @ \/ s.task.rw.writes # {}]

LEMMA EffectShape ==
    ASSUME NEW s, IsPair(s), IsTask(s.task), NEW i, i.op \in Instructions, NEW e, e = Effect(s, i)
    PROVE  IsPair(e) /\ (Looks(s, e, i) \/ Changes(s, e, i) \/ Leaps(s, e, i))
  <1> DEFINE Good == IsPair(e) /\ (Looks(s, e, i) \/ Changes(s, e, i) \/ Leaps(s, e, i))
  <1>0. IsMap(s, {"task", "store"})
    BY DEF IsPair
  <1>1. CASE i.op = "SLOAD"
    <2>1. PICK v : v = GetState(s.store, Key(i)) /\ e = [s EXCEPT !.task.seen = Append(@, v)]
      BY <1>1 DEF Effect, Calls
    <2>2. IsPair(e) /\ e.store = s.store /\ e.task = [s.task EXCEPT !.seen = Append(@, v)]
      BY <1>0, <2>1 DEF IsPair, IsMap
    <2> QED
      BY <1>1, <2>1, <2>2 DEF Looks
  <1>2. CASE i.op = "SSTORE"
    <2>1. PICK left : left = SetState(s.store, Key(i), Word(s.task.tx, s.task.seen)) /\ e = [s EXCEPT !.store = left]
      BY <1>2 DEF Effect, Calls
    <2>2. IsPair(e) /\ e.store = left /\ e.task = s.task
      BY <1>0, <2>1 DEF IsPair, IsMap
    <2> QED
      BY <1>2, <2>1, <2>2 DEF Changes
  <1>3. CASE i.op = "CLEAR"
    <2>1. e = [s EXCEPT !.store =
                SetState(AddRefund(s.store, IF GetState(s.store, Key(i)) = Number(0) THEN 0 ELSE ClearRefund),
                         Key(i), Number(0))]
      BY <1>3 DEF Effect, Calls
    <2>2. PICK gas : gas = IF GetState(s.store, Key(i)) = Number(0) THEN 0 ELSE ClearRefund
      OBVIOUS
    <2>3. gas \in Nat
      BY <2>2, GasAssumption
    <2>4. PICK left : left = SetState(AddRefund(s.store, gas), Key(i), Number(0)) /\ e = [s EXCEPT !.store = left]
      BY <2>1, <2>2
    <2>5. IsPair(e) /\ e.store = left /\ e.task = s.task
      BY <1>0, <2>4 DEF IsPair, IsMap
    <2> QED
      BY <1>3, <2>3, <2>4, <2>5 DEF Changes
  <1>4. CASE i.op = "BALANCE"
    <2>1. PICK v : e = [[s EXCEPT !.task.seen = Append(@, v)] EXCEPT !.task.fields = @ \cup {i.account}]
      BY <1>4 DEF Effect, Calls
    <2>2. /\ IsPair(e) /\ e.store = s.store
          /\ e.task = [s.task EXCEPT !.seen = Append(@, v), !.fields = @ \cup {i.account}]
      BY <1>0, <2>1 DEF IsPair, IsMap, IsTask
    <2> QED
      BY <1>4, <2>2 DEF Looks
  <1>5. CASE i.op = "JUMPI"
    <2>1. e = IF Last(s.task.seen) = Number(0) THEN [s EXCEPT !.task.pc = @ + i.skip] ELSE s
      BY <1>5 DEF Effect, Calls
    <2>2. /\ IsPair(e) /\ e.store = s.store
          /\ e.task = IF Last(s.task.seen) = Number(0) THEN [s.task EXCEPT !.pc = @ + i.skip] ELSE s.task
      BY <1>0, <2>1 DEF IsPair, IsMap
    <2> QED
      BY <1>5, <2>2 DEF Leaps
  <1>6. CASE i.op \in Calls
    <2>1. e = Call(s, i)
      BY <1>6 DEF Effect, Calls
    <2>2. PICK f : f = [account |-> i.account, snapshot |-> Snapshot(s.store)]
      OBVIOUS
    <2>3. e = IF Callable(s.store, i.account) THEN [s EXCEPT !.task.frames = Append(@, f)]
              ELSE [s EXCEPT !.store = Touch(@, i), !.task.pc = @ + i.skip]
      BY <2>1, <2>2 DEF Call
    <2>4. /\ IsPair(e) /\ e.store = IF Callable(s.store, i.account) THEN s.store ELSE Touch(s.store, i)
          /\ e.task = IF Callable(s.store, i.account) THEN [s.task EXCEPT !.frames = Append(@, f)]
                      ELSE [s.task EXCEPT !.pc = @ + i.skip]
      BY <1>0, <2>3 DEF IsPair, IsMap
    <2> QED
      BY <1>6, <2>2, <2>4 DEF Leaps
  <1>7. CASE i.op = "RETURN"
    <2>1. e = [s EXCEPT !.task.frames = Front(@)]
      BY <1>7 DEF Effect, Calls
    <2>2. IsPair(e) /\ e.store = s.store /\ e.task = [s.task EXCEPT !.frames = Front(@)]
      BY <1>0, <2>1 DEF IsPair, IsMap
    <2> QED
      BY <1>7, <2>2 DEF Leaps
  <1>8. CASE i.op = "REVERT"
    <2>1. e = Fail(s)
      BY <1>8 DEF Effect, Calls
    <2>2. /\ IsPair(e) /\ e.store = RevertToSnapshot(s.store, Last(s.task.frames).snapshot)
          /\ e.task = [s.task EXCEPT !.frames = Front(@), !.undone = @ \/ s.task.rw.writes # {}]
      BY <2>1 DEF Fail, IsPair, IsMap
    <2> QED
      BY <1>8, <2>2 DEF Leaps
  <1>9. CASE i.op = "SELFDESTRUCT"
    <2>1. PICK loaded, amount, self :
            /\ self = Self(s.task)
            /\ e = [s EXCEPT !.task.loaded = loaded, !.task.amount = amount,
                             !.task.fields = @ \cup {i.account, self}]
      BY <1>9 DEF Effect, Calls
    <2>2. /\ IsPair(e) /\ e.store = s.store
          /\ e.task = [s.task EXCEPT !.loaded = loaded, !.amount = amount, !.fields = @ \cup {i.account, self}]
      BY <1>0, <2>1 DEF IsPair, IsMap, IsTask
    <2> QED
      BY <1>9, <2>1, <2>2 DEF Looks
  <1>10. CASE i.op = "MOVE"
    <2>1. PICK self, left :
            /\ self = Self(s.task)
            /\ left = SelfDestruct(AddBalance(s.store, i.account, s.task.loaded, s.task.amount), self)
            /\ e = [s EXCEPT !.store = left, !.task.fields = @ \cup {i.account, self}]
      BY <1>10 DEF Effect, Calls
    <2>2. IsPair(e) /\ e.store = left /\ e.task = [s.task EXCEPT !.fields = @ \cup {i.account, self}]
      BY <1>0, <2>1 DEF IsPair, IsMap
    <2> QED
      BY <1>10, <2>1, <2>2 DEF Changes
  <1> QED
    BY <1>1, <1>2, <1>3, <1>4, <1>5, <1>6, <1>7, <1>8, <1>9, <1>10 DEF Instructions

-----------------------------------------------------------------------------
\* Every call under way on the database can be taken back to the same contracts,
\* and to the same values where nothing was written.
Backed(frames, store, keys) == ~store.shared => \A n \in DOMAIN frames : Later(store, frames[n].snapshot, keys)

LEMMA BackedOn ==
    ASSUME NEW frames, NEW store, NEW keys, Backed(frames, store, keys), NEW left, NEW more,
           Later(store, left, more), keys \subseteq more
    PROVE  Backed(frames, left, more)
  BY DEF Backed, Later

\* What each frame operation leaves backed.
LEMMA BackedFrames ==
    ASSUME NEW frames, NEW store, IsSomeStore(store), NEW keys, FramesInv(frames, store.shared), Backed(frames, store, keys)
    PROVE  /\ Len(frames) >= 1 =>
                /\ Backed(Front(frames), store, keys) /\ Backed(SubSeq(frames, 1, 1), store, keys)
                /\ Later(store, RevertToSnapshot(store, Last(frames).snapshot), keys)
                /\ Backed(Front(frames), RevertToSnapshot(store, Last(frames).snapshot), keys)
           /\ \A a : Backed(Append(frames, [account |-> a, snapshot |-> Snapshot(store)]), store, keys)
  <1>1. PICK S : frames \in Seq(S)
    BY DEF FramesInv
  <1>2. Len(frames) \in Nat /\ DOMAIN frames = 1..Len(frames)
    BY <1>1
  <1>3. ASSUME Len(frames) >= 1
        PROVE  /\ Backed(Front(frames), store, keys) /\ Backed(SubSeq(frames, 1, 1), store, keys)
               /\ Later(store, RevertToSnapshot(store, Last(frames).snapshot), keys)
    <2>1. /\ DOMAIN Front(frames) = 1..(Len(frames) - 1)
          /\ \A n \in 1..(Len(frames) - 1) : Front(frames)[n] = frames[n]
      BY <1>1, <1>3 DEF Front
    <2>2. DOMAIN SubSeq(frames, 1, 1) = {1} /\ SubSeq(frames, 1, 1)[1] = frames[1]
      BY <1>1, <1>3
    <2>3. Last(frames) = frames[Len(frames)] /\ Len(frames) \in DOMAIN frames /\ 1 \in DOMAIN frames
      BY <1>2, <1>3 DEF Last
    <2>4. \A n \in 1..(Len(frames) - 1) : n \in DOMAIN frames
      BY <1>2
    <2>5. Later(store, RevertToSnapshot(store, Last(frames).snapshot), keys)
      BY <2>3, StoreIsLater DEF RevertToSnapshot, Backed
    <2> QED
      BY <2>1, <2>2, <2>3, <2>4, <2>5 DEF Backed
  <1>4. ASSUME Len(frames) >= 1
        PROVE  Backed(Front(frames), RevertToSnapshot(store, Last(frames).snapshot), keys)
    <2>1. PICK rest, left : rest = Front(frames) /\ left = RevertToSnapshot(store, Last(frames).snapshot)
      OBVIOUS
    <2>2. Backed(rest, store, keys) /\ Later(store, left, keys)
      BY <1>3, <1>4, <2>1
    <2>3. Backed(rest, left, keys)
      BY <2>2, BackedOn
    <2> QED
      BY <2>1, <2>3
  <1>5. ASSUME NEW a
        PROVE  Backed(Append(frames, [account |-> a, snapshot |-> Snapshot(store)]), store, keys)
    <2>1. PICK f : f = [account |-> a, snapshot |-> Snapshot(store)]
      OBVIOUS
    <2>2. ~store.shared => f.snapshot = store
      BY <2>1 DEF Snapshot
    <2>3. /\ DOMAIN Append(frames, f) = 1..(Len(frames) + 1)
          /\ \A n \in 1..Len(frames) : Append(frames, f)[n] = frames[n]
          /\ Append(frames, f)[Len(frames) + 1] = f
      BY <1>1
    <2>4. \A n \in 1..(Len(frames) + 1) : n \in 1..Len(frames) \/ n = Len(frames) + 1
      BY <1>2
    <2>5. Later(store, store, keys)
      BY StoreIsLater
    <2> QED
      BY <1>2, <2>1, <2>2, <2>3, <2>4, <2>5 DEF Backed
  <1> QED
    BY <1>3, <1>4, <1>5

Sound(s) == IsPair(s) /\ IsSomeStore(s.store) /\ Backed(s.task.frames, s.store, s.task.rw.writes)

LEMMA EffectLater ==
    ASSUME NEW s, Sound(s), IsTask(s.task), FramesInv(s.task.frames, s.store.shared),
           NEW i, i.op \in Instructions, Asks(s.task, i), i.op \in {"RETURN", "REVERT"} => Len(s.task.frames) >= 1,
           NEW e, e = Effect(s, i)
    PROVE  /\ Sound(e) /\ Later(s.store, e.store, s.task.rw.writes) /\ e.task.rw = s.task.rw
           /\ s.task.undone => e.task.undone
  <1> DEFINE Good == /\ Sound(e) /\ Later(s.store, e.store, s.task.rw.writes) /\ e.task.rw = s.task.rw
                     /\ s.task.undone => e.task.undone
  <1>1. IsPair(e) /\ (Looks(s, e, i) \/ Changes(s, e, i) \/ Leaps(s, e, i))
    BY EffectShape DEF Sound
  <1>2. PICK frames, store, keys : frames = s.task.frames /\ store = s.store /\ keys = s.task.rw.writes
    OBVIOUS
  <1>3. IsSomeStore(store) /\ Backed(frames, store, keys) /\ FramesInv(frames, store.shared)
    BY <1>2 DEF Sound
  <1>4. Later(store, store, keys)
    BY <1>3, StoreIsLater
  <1>5. ASSUME e.store = s.store, e.task.frames = s.task.frames, e.task.rw = s.task.rw, e.task.undone = s.task.undone
        PROVE  Good
    BY <1>1, <1>2, <1>3, <1>4, <1>5 DEF Sound
  <1>6. ASSUME Later(s.store, e.store, s.task.rw.writes), e.task.frames = s.task.frames, e.task.rw = s.task.rw,
               e.task.undone = s.task.undone
        PROVE  Good
    <2>1. PICK left : left = e.store
      OBVIOUS
    <2>2. Later(store, left, keys)
      BY <1>2, <1>6, <2>1
    <2>3. Backed(frames, left, keys)
      BY <1>3, <2>2, BackedOn
    <2> QED
      BY <1>1, <1>2, <1>6, <2>1, <2>2, <2>3 DEF Sound, Later
  <1> SUFFICES Good
    OBVIOUS
  <1> HIDE DEF Good
  <1>7. CASE Looks(s, e, i)
    <2>1. e.store = s.store /\ e.task.frames = s.task.frames /\ e.task.rw = s.task.rw /\ e.task.undone = s.task.undone
      BY <1>7 DEF Looks, IsTask
    <2> QED
      BY <1>5, <2>1
  <1>8. CASE Changes(s, e, i)
    <2>1. e.task.frames = s.task.frames /\ e.task.rw = s.task.rw /\ e.task.undone = s.task.undone
      BY <1>8 DEF Changes, IsTask
    <2>2. PICK k, self : k = Key(i) /\ self = Self(s.task)
      OBVIOUS
    <2>3. CASE i.op = "SSTORE"
      <3>1. PICK v : v = Word(s.task.tx, s.task.seen)
        OBVIOUS
      <3>2. e.store = SetState(store, k, v) /\ k \in Keys /\ k \in keys
        BY <1>2, <1>8, <2>2, <2>3, <3>1 DEF Changes, Asks
      <3>3. Later(store, e.store, keys)
        BY <1>3, <3>2, SetStateLater
      <3> QED
        BY <1>2, <1>6, <2>1, <3>3
    <2>4. CASE i.op = "CLEAR"
      <3>1. PICK v, gas, paid : v = Number(0) /\ gas \in Nat /\ paid = AddRefund(store, gas) /\ e.store = SetState(paid, k, v)
        BY <1>2, <1>8, <2>2, <2>4 DEF Changes
      <3>2. k \in Keys /\ k \in keys
        BY <1>2, <2>2, <2>4 DEF Asks
      <3>3. Later(store, paid, keys)
        BY <1>3, <3>1, AddRefundLater
      <3>4. Later(paid, e.store, keys)
        <4>1. IsSomeStore(paid)
          BY <3>3 DEF Later
        <4> QED
          BY <3>1, <3>2, <4>1, SetStateLater
      <3>5. Later(store, e.store, keys)
        <4>1. PICK left : left = e.store
          OBVIOUS
        <4> QED
          BY <3>3, <3>4, <4>1, LaterInTurn
      <3> QED
        BY <1>2, <1>6, <2>1, <3>5
    <2>5. CASE i.op = "MOVE"
      <3>1. PICK a, loaded, amount, paid, left :
              /\ a = i.account /\ loaded = s.task.loaded /\ amount = s.task.amount
              /\ paid = AddBalance(store, a, loaded, amount) /\ left = SelfDestruct(paid, self) /\ e.store = left
        BY <1>2, <1>8, <2>2, <2>5 DEF Changes
      <3>2. a \in Addresses /\ self \in Addresses
        BY <2>2, <2>5, <3>1 DEF Asks
      <3>3. Later(store, paid, keys)
        BY <1>3, <3>1, <3>2, AddBalanceLater
      <3>4. Later(paid, left, keys)
        <4>1. IsSomeStore(paid)
          BY <3>3 DEF Later
        <4> QED
          BY <3>1, <3>2, <4>1, SelfDestructLater
      <3>5. Later(store, left, keys)
        BY <3>3, <3>4, LaterInTurn
      <3> QED
        BY <1>2, <1>6, <2>1, <3>1, <3>5
    <2> QED
      BY <1>8, <2>3, <2>4, <2>5 DEF Changes
  <1>9. CASE Leaps(s, e, i)
    <2>1. CASE i.op = "JUMPI"
      <3>1. e.store = s.store /\ e.task.frames = s.task.frames /\ e.task.rw = s.task.rw /\ e.task.undone = s.task.undone
        BY <1>9, <2>1 DEF Leaps, IsTask, Calls
      <3> QED
        BY <1>5, <3>1
    <2>2. CASE i.op \in Calls
      <3>1. PICK f : f = [account |-> i.account, snapshot |-> Snapshot(store)]
        OBVIOUS
      <3>0. PICK left : left = IF Callable(store, i.account) THEN store ELSE Touch(store, i)
        OBVIOUS
      <3>2. /\ e.store = left /\ e.task.rw = s.task.rw /\ e.task.undone = s.task.undone
            /\ e.task.frames = frames \/ e.task.frames = Append(frames, f)
        BY <1>2, <1>9, <2>2, <3>0, <3>1 DEF Leaps, IsTask, Calls
      <3>6. Later(store, left, keys)
        <4>1. i.account \in Addresses
          BY <2>2 DEF Asks, Calls
        <4> QED
          BY <1>3, <3>0, <4>1, TouchLater, StoreIsLater
      <3>3. PICK more : more = e.task.frames
        OBVIOUS
      <3>4. Backed(Append(frames, [account |-> i.account, snapshot |-> Snapshot(store)]), store, keys)
        <4>1. PICK a : a = i.account
          OBVIOUS
        <4> QED
          BY <1>3, <4>1, BackedFrames
      <3>5. Backed(more, store, keys)
        BY <1>3, <3>1, <3>2, <3>3, <3>4
      <3>7. Backed(more, left, keys)
        BY <3>5, <3>6, BackedOn
      <3> QED
        BY <1>1, <1>2, <3>2, <3>3, <3>6, <3>7 DEF Good, Sound, Later
    <2>3. CASE i.op = "RETURN"
      <3>1. /\ e.store = s.store /\ e.task.rw = s.task.rw /\ e.task.undone = s.task.undone
            /\ e.task.frames = Front(frames) /\ Len(frames) >= 1
        BY <1>2, <1>9, <2>3 DEF Leaps, IsTask, Calls
      <3>2. Backed(Front(frames), store, keys)
        BY <1>3, <3>1, BackedFrames
      <3> QED
        BY <1>1, <1>2, <1>3, <1>4, <3>1, <3>2 DEF Good, Sound
    <2>4. CASE i.op = "REVERT"
      <3>1. PICK left : left = RevertToSnapshot(store, Last(frames).snapshot)
        OBVIOUS
      <3>2. /\ e.store = left /\ e.task.rw = s.task.rw /\ (s.task.undone => e.task.undone)
            /\ e.task.frames = Front(frames) /\ Len(frames) >= 1
        BY <1>2, <1>9, <2>4, <3>1 DEF Leaps, IsTask, Calls
      <3>3. Later(store, left, keys) /\ Backed(Front(frames), left, keys)
        BY <1>3, <3>1, <3>2, BackedFrames
      <3> QED
        BY <1>1, <1>2, <3>2, <3>3 DEF Good, Sound, Later
    <2> QED
      BY <1>9, <2>1, <2>2, <2>3, <2>4 DEF Leaps
  <1> QED
    BY <1>1, <1>7, <1>8, <1>9 DEF Good

-----------------------------------------------------------------------------
\* The three ways of an instruction.
Pays(s, paid, i) ==
    /\ IsPair(paid) /\ paid.store = s.store
    /\ paid.task = [s.task EXCEPT !.traced = Add(@, Traced(i, Self(s.task))),
                                  !.gas = @ - Cost(i, s.task.pc), !.pc = @ + 1,
                                  !.rw = Add(@, Recorded(i, Self(s.task), Asked(s.store, i)))]

Ends(s, e) ==
    /\ IsPair(e) /\ e.store = s.store
    /\ \E gas, loaded : e.task = [s.task EXCEPT !.gas = gas, !.loaded = loaded, !.frames = <<>>, !.stage = "credit"]

RunsOutWith(s, e, i, gas, loaded, undone) ==
    /\ IsPair(e) /\ e.store = RevertToSnapshot(s.store, Last(SubSeq(s.task.frames, 1, 1)).snapshot)
    /\ undone = (s.task.undone \/ s.task.rw.writes # {})
    /\ e.task = [s.task EXCEPT !.traced = Add(@, Traced(i, Self(s.task))), !.gas = gas, !.loaded = loaded,
                               !.frames = <<>>, !.stage = "credit", !.undone = undone]
RunsOut(s, e, i) == \E gas, loaded, undone : RunsOutWith(s, e, i, gas, loaded, undone)

RanOn(s, i) == ~(s.task.pc > Len(s.task.msg.program)) /\ s.task.gas >= Cost(i, s.task.pc)

LEMMA RunShape ==
    ASSUME NEW s, IsPair(s), IsTask(s.task), NEW e, e = Run(s), NEW i, i = Instruction(s.task)
    PROVE  /\ s.task.pc > Len(s.task.msg.program) => Ends(s, e)
           /\ RanOn(s, i) => \E paid : Pays(s, paid, i) /\ e = Effect(paid, i)
           /\ ~(s.task.pc > Len(s.task.msg.program)) /\ ~RanOn(s, i) => RunsOut(s, e, i)
  <1>0. IsMap(s, {"task", "store"})
    BY DEF IsPair
  <1>1. ASSUME NEW c, IsPair(c), IsTask(c.task)
        PROVE  Ends(c, RefundGas(c))
    <2>1. PICK f : f = RefundGas(c)
      OBVIOUS
    <2>2. PICK more, loaded : f = [c EXCEPT !.task.gas = @ + more, !.task.loaded = loaded, !.task.frames = <<>>,
                                            !.task.stage = "credit"]
      BY <2>1 DEF RefundGas
    <2>3. PICK gas : gas = c.task.gas + more
      OBVIOUS
    <2>4. /\ IsPair(f) /\ f.store = c.store
          /\ f.task = [c.task EXCEPT !.gas = gas, !.loaded = loaded, !.frames = <<>>, !.stage = "credit"]
      BY <1>1, <2>2, <2>3 DEF IsPair, IsMap, IsTask
    <2> QED
      BY <2>1, <2>4 DEF Ends
  <1>2. ASSUME s.task.pc > Len(s.task.msg.program)
        PROVE  Ends(s, e)
    <2>1. e = RefundGas(s)
      BY <1>2 DEF Run
    <2> QED
      BY <1>1, <2>1
  <1>3. PICK cost, named, more : /\ cost = Cost(i, s.task.pc) /\ named = Traced(i, Self(s.task))
                                 /\ more = Recorded(i, Self(s.task), Asked(s.store, i))
    OBVIOUS
  <1>4. ASSUME RanOn(s, i)
        PROVE  \E paid : Pays(s, paid, i) /\ e = Effect(paid, i)
    <2>1. PICK paid : paid = [[s EXCEPT !.task.traced = Add(@, named)]
                                EXCEPT !.task.gas = @ - cost, !.task.pc = @ + 1, !.task.rw = Add(@, more)]
      OBVIOUS
    <2>2. e = Effect(paid, i)
      BY <1>3, <1>4, <2>1 DEF Run, RanOn
    <2>3. /\ IsPair(paid) /\ paid.store = s.store
          /\ paid.task = [s.task EXCEPT !.traced = Add(@, named), !.gas = @ - cost, !.pc = @ + 1, !.rw = Add(@, more)]
      BY <1>0, <2>1 DEF IsPair, IsMap, IsTask
    <2> QED
      BY <1>3, <2>2, <2>3 DEF Pays
  <1>5. ASSUME ~(s.task.pc > Len(s.task.msg.program)), ~RanOn(s, i)
        PROVE  RunsOut(s, e, i)
    <2>1. PICK short : short = [[s EXCEPT !.task.traced = Add(@, named)]
                                    EXCEPT !.task.gas = 0, !.task.frames = SubSeq(@, 1, 1)]
      OBVIOUS
    <2>2. PICK failed : failed = Fail(short)
      OBVIOUS
    <2>3. e = RefundGas(failed)
      BY <1>3, <1>5, <2>1, <2>2 DEF Run, RanOn
    <2>4. /\ IsPair(short) /\ short.store = s.store
          /\ short.task = [s.task EXCEPT !.traced = Add(@, named), !.gas = 0, !.frames = SubSeq(@, 1, 1)]
      BY <1>0, <2>1 DEF IsPair, IsMap, IsTask
    <2>5. IsTask(short.task) /\ short.task.frames = SubSeq(s.task.frames, 1, 1) /\ short.task.rw = s.task.rw
      BY <2>4 DEF IsTask
    <2>6. /\ IsPair(failed) /\ failed.store = RevertToSnapshot(s.store, Last(SubSeq(s.task.frames, 1, 1)).snapshot)
          /\ failed.task = [short.task EXCEPT !.frames = Front(@), !.undone = @ \/ s.task.rw.writes # {}]
      BY <2>2, <2>4, <2>5 DEF Fail, IsPair, IsMap
    <2>7. IsTask(failed.task)
      BY <2>5, <2>6 DEF IsTask
    <2>8. Ends(failed, e)
      BY <1>1, <2>3, <2>6, <2>7
    <2>9. PICK gas, loaded :
            e.task = [failed.task EXCEPT !.gas = gas, !.loaded = loaded, !.frames = <<>>, !.stage = "credit"]
      BY <2>8 DEF Ends
    <2>10. PICK undone : undone = (s.task.undone \/ s.task.rw.writes # {})
      OBVIOUS
    <2>11. short.task.undone = s.task.undone
      BY <2>4 DEF IsTask
    <2>12. failed.task = [short.task EXCEPT !.frames = Front(@), !.undone = undone]
      BY <2>6, <2>10, <2>11
    <2>13. e.task = [s.task EXCEPT !.traced = Add(@, named), !.gas = gas, !.loaded = loaded, !.frames = <<>>,
                                   !.stage = "credit", !.undone = undone]
      BY <2>4, <2>9, <2>12 DEF IsTask
    <2>14. e.task = [s.task EXCEPT !.traced = Add(@, Traced(i, Self(s.task))), !.gas = gas, !.loaded = loaded,
                                   !.frames = <<>>, !.stage = "credit", !.undone = undone]
      BY <1>3, <2>13
    <2>15. IsPair(e) /\ e.store = failed.store
      BY <2>8 DEF Ends
    <2>16. e.store = RevertToSnapshot(s.store, Last(SubSeq(s.task.frames, 1, 1)).snapshot)
      BY <2>6, <2>15
    <2>17. RunsOutWith(s, e, i, gas, loaded, undone)
      BY <2>10, <2>14, <2>15, <2>16 DEF RunsOutWith
    <2> QED
      BY <2>17, Zenon DEF RunsOut
  <1> QED
    BY <1>2, <1>4, <1>5

RunReady(s) ==
    /\ Sound(s) /\ IsTask(s.task) /\ FramesInv(s.task.frames, s.store.shared)
    /\ WellFormed(s.task.msg) /\ Position(s.task) /\ s.task.gas \in Nat

\* The instruction at hand, before and after it has been paid for.
LEMMA PaidReady ==
    ASSUME NEW s, RunReady(s), s.task.pc <= Len(s.task.msg.program), NEW i, i = Instruction(s.task)
    PROVE  /\ IsInstruction(i) /\ Self(s.task) \in Addresses
           /\ i.op \in {"RETURN", "REVERT"} => Len(s.task.frames) >= 1
           /\ ~RanOn(s, i) => Len(s.task.frames) >= 1
           /\ \A paid : Pays(s, paid, i) =>
                /\ Sound(paid) /\ IsTask(paid.task) /\ Asks(paid.task, i) /\ Self(paid.task) = Self(s.task)
                /\ paid.task.frames = s.task.frames /\ paid.task.undone = s.task.undone
                /\ paid.task.rw = Add(s.task.rw, Recorded(i, Self(s.task), Asked(s.store, i)))
                /\ paid.task.traced = Add(s.task.traced, Traced(i, Self(s.task)))
  <1>1. PICK ran : ran = s.task
    OBVIOUS
  <1>2. /\ IsInstruction(i) /\ (ran.pc = 0 => i.op \in Calls) /\ (ran.pc # 0 => Len(ran.frames) >= 1)
    BY <1>1, InstructionFacts DEF RunReady
  <1>3. Self(ran) \in Addresses
    <2>1. ran.msg.from \in Addresses
      BY <1>1, ProgramFacts DEF RunReady
    <2> QED
      BY <1>1, <2>1, SelfIsAccount DEF RunReady
  <1>4. i.op \in {"RETURN", "REVERT"} => Len(ran.frames) >= 1
    BY <1>2 DEF Calls
  <1>5. ~RanOn(s, i) => Len(ran.frames) >= 1
    <2>1. Len(ran.msg.program) \in Nat /\ ran.pc \in Nat
      BY <1>1, ProgramFacts DEF RunReady, Position
    <2>2. ran.pc = 0 => RanOn(s, i)
      BY <1>1, <2>1 DEF RanOn, Cost, RunReady
    <2> QED
      BY <1>2, <2>2
  <1>6. ASSUME NEW paid, Pays(s, paid, i)
        PROVE  /\ Sound(paid) /\ IsTask(paid.task) /\ Asks(paid.task, i) /\ Self(paid.task) = Self(ran)
               /\ paid.task.frames = ran.frames /\ paid.task.undone = ran.undone
               /\ paid.task.rw = Add(ran.rw, Recorded(i, Self(ran), Asked(s.store, i)))
               /\ paid.task.traced = Add(ran.traced, Traced(i, Self(ran)))
    <2>1. PICK self, asked : self = Self(ran) /\ asked = Asked(s.store, i)
      OBVIOUS
    <2>2. PICK rw, traced, gas, pc : /\ rw = Add(ran.rw, Recorded(i, self, asked)) /\ traced = Add(ran.traced, Traced(i, self))
                                     /\ gas = ran.gas - Cost(i, ran.pc) /\ pc = ran.pc + 1
      OBVIOUS
    <2>3. /\ IsPair(paid) /\ paid.store = s.store
          /\ paid.task = [ran EXCEPT !.traced = traced, !.gas = gas, !.pc = pc, !.rw = rw]
      BY <1>1, <1>6, <2>1, <2>2 DEF Pays
    <2>4. IsTask(ran)
      BY <1>1 DEF RunReady
    <2>5. /\ IsTask(paid.task) /\ paid.task.frames = ran.frames /\ paid.task.undone = ran.undone
          /\ paid.task.rw = rw /\ paid.task.traced = traced /\ paid.task.msg = ran.msg
      BY <2>3, <2>4 DEF IsTask
    <2>6. Self(paid.task) = self
      BY <2>1, <2>5, SelfDependsOn
    <2>7. Asks(paid.task, i)
      <3>1. PICK old, next : old = ran.rw /\ next = paid.task
        OBVIOUS
      <3>2. next.rw = Add(old, Recorded(i, self, asked)) /\ Self(next) \in Addresses
        BY <1>3, <2>1, <2>2, <2>5, <2>6, <3>1
      <3>3. Asks(next, i)
        BY <1>2, <3>2, AddedAsks
      <3> QED
        BY <3>1, <3>3
    <2>8. Sound(paid)
      <3>1. PICK frames, store, keys, more : /\ frames = ran.frames /\ store = s.store
                                             /\ keys = ran.rw.writes /\ more = rw.writes
        OBVIOUS
      <3>2. IsSomeStore(store) /\ Backed(frames, store, keys)
        BY <1>1, <3>1 DEF RunReady, Sound
      <3>3. Later(store, store, more)
        BY <3>2, StoreIsLater
      <3>4. keys \subseteq more
        BY <2>2, <3>1 DEF Add
      <3>5. Backed(frames, store, more)
        BY <3>2, <3>3, <3>4, BackedOn
      <3> QED
        BY <2>3, <2>5, <3>1, <3>2, <3>5 DEF Sound
    <2> QED
      BY <2>1, <2>2, <2>5, <2>6, <2>7, <2>8
  <1> QED
    BY <1>1, <1>2, <1>3, <1>4, <1>5, <1>6

\* An execution has come further.
Further(ran, next) ==
    /\ ran.rw.writes \subseteq next.rw.writes /\ Touched(ran.rw) \subseteq Touched(next.rw)
    /\ ran.undone => next.undone

LEMMA RunLater ==
    ASSUME NEW s, RunReady(s), NEW e, e = Run(s), NEW i, i = Instruction(s.task)
    PROVE  /\ Sound(e) /\ Later(s.store, e.store, e.task.rw.writes) /\ Further(s.task, e.task)
           /\ RanOn(s, i) =>
                /\ e.task.rw = Add(s.task.rw, Recorded(i, Self(s.task), Asked(s.store, i)))
                /\ e.task.traced = Add(s.task.traced, Traced(i, Self(s.task)))
           /\ ~RanOn(s, i) => e.task.rw = s.task.rw
  <1>1. IsPair(s) /\ IsTask(s.task) /\ Sound(s)
    BY DEF RunReady, Sound
  <1>2. PICK ran, store, keys : ran = s.task /\ store = s.store /\ keys = s.task.rw.writes
    OBVIOUS
  <1>3. IsSomeStore(store) /\ Backed(ran.frames, store, keys) /\ FramesInv(ran.frames, store.shared)
    BY <1>2 DEF RunReady, Sound
  <1>4. Later(store, store, keys)
    BY <1>3, StoreIsLater
  <1>5. CASE s.task.pc > Len(s.task.msg.program)
    <2>1. Ends(s, e)
      BY <1>1, <1>5, RunShape
    <2>2. /\ IsPair(e) /\ e.store = s.store /\ e.task.frames = <<>> /\ e.task.rw = ran.rw /\ e.task.undone = ran.undone
      BY <1>1, <1>2, <2>1 DEF Ends, IsTask
    <2>3. Backed(e.task.frames, store, keys)
      BY <2>2 DEF Backed
    <2>4. ~RanOn(s, i)
      BY <1>5 DEF RanOn
    <2> QED
      BY <1>2, <1>3, <1>4, <2>2, <2>3, <2>4 DEF Sound, Further
  <1>6. CASE ~(s.task.pc > Len(s.task.msg.program)) /\ ~RanOn(s, i)
    <2>1. RunsOut(s, e, i)
      BY <1>1, <1>6, RunShape
    <2>2. PICK gas, loaded, undone : RunsOutWith(s, e, i, gas, loaded, undone)
      BY <2>1 DEF RunsOut
    <2>3. PICK first : first = SubSeq(ran.frames, 1, 1)
      OBVIOUS
    <2>4. /\ IsPair(e) /\ e.store = RevertToSnapshot(store, Last(first).snapshot) /\ e.task.frames = <<>>
          /\ e.task.rw = ran.rw /\ e.task.undone = undone /\ (ran.undone => undone)
      BY <1>1, <1>2, <2>2, <2>3 DEF RunsOutWith, IsTask
    <2>5. s.task.pc <= Len(s.task.msg.program)
      BY <1>6, ProgramFacts DEF RunReady, Position
    <2>6. Len(ran.frames) >= 1
      BY <1>2, <1>6, <2>5, PaidReady
    <2>7. Backed(first, store, keys)
      BY <1>3, <2>3, <2>6, BackedFrames
    <2>8. FramesInv(first, store.shared) /\ Len(first) >= 1
      BY <1>3, <2>3, <2>6, FirstFrame
    <2>9. Later(store, e.store, keys)
      BY <1>3, <2>4, <2>7, <2>8, BackedFrames
    <2>10. Backed(e.task.frames, e.store, keys)
      BY <2>4 DEF Backed
    <2> QED
      BY <1>2, <1>6, <2>4, <2>9, <2>10 DEF Sound, Further, Later
  <1>7. CASE RanOn(s, i)
    <2>1. PICK paid : Pays(s, paid, i) /\ e = Effect(paid, i)
      BY <1>1, <1>7, RunShape
    <2>2. s.task.pc <= Len(s.task.msg.program)
      BY <1>7, ProgramFacts DEF RunReady, Position, RanOn
    <2>3. IsInstruction(i) /\ (i.op \in {"RETURN", "REVERT"} => Len(ran.frames) >= 1)
      BY <1>2, <2>2, PaidReady
    <2>4. /\ Sound(paid) /\ IsTask(paid.task) /\ Asks(paid.task, i)
          /\ paid.task.frames = ran.frames /\ paid.task.undone = ran.undone
          /\ paid.task.rw = Add(ran.rw, Recorded(i, Self(ran), Asked(store, i)))
          /\ paid.task.traced = Add(ran.traced, Traced(i, Self(ran)))
      BY <1>2, <2>1, <2>2, PaidReady
    <2>5. paid.store = store /\ IsPair(paid)
      BY <1>2, <2>1 DEF Pays
    <2>6. /\ i.op \in Instructions /\ (i.op \in Calls => i.account \in Addresses)
          /\ FramesInv(paid.task.frames, paid.store.shared)
          /\ i.op \in {"RETURN", "REVERT"} => Len(paid.task.frames) >= 1
      BY <1>3, <2>3, <2>4, <2>5 DEF IsInstruction, Calls
    <2>7. /\ Sound(e) /\ Later(paid.store, e.store, paid.task.rw.writes) /\ e.task.rw = paid.task.rw
          /\ paid.task.undone => e.task.undone
      BY <2>1, <2>4, <2>6, EffectLater
    <2>8. e.task.traced = paid.task.traced
      <3>1. IsRun(paid)
        BY <1>3, <2>4, <2>5, StoreIsState DEF IsRun, IsPair, IsMap
      <3> QED
        BY <2>1, <2>6, <3>1, EffectKeeps DEF Kept
    <2>9. PICK more : more = Recorded(i, Self(ran), Asked(store, i))
      OBVIOUS
    <2>10. e.task.rw = Add(ran.rw, more)
      BY <2>4, <2>7, <2>9
    <2>11. Further(ran, e.task)
      BY <2>4, <2>7, <2>10 DEF Further, Add, Touched
    <2> QED
      BY <1>2, <1>7, <2>4, <2>5, <2>7, <2>8, <2>11
  <1> QED
    BY <1>5, <1>6, <1>7

StepReady(s) == Sound(s) /\ WellFormed(s.task.msg) /\ TaskInv(s.task, s.store.shared)

\* Where the instruction begins: the first counts the nonce before it.
Begins(s, c) ==
    /\ RunReady(c) /\ Step(s) = Run(c) /\ c.task.stage = "run"
    /\ Later(s.store, c.store, {}) /\ c.store.slots = s.store.slots
    /\ \A name \in {"tx", "msg", "err", "pc", "seen", "fields", "undone", "rw", "traced", "frames", "gas", "pool"} :
        c.task[name] = s.task[name]

LEMMA StepBegins ==
    ASSUME NEW s, StepReady(s), s.task.stage \in {"setNonce", "run"}
    PROVE  \E c : Begins(s, c)
  <1>1. IsPair(s) /\ IsSomeStore(s.store) /\ IsTask(s.task) /\ FramesInv(s.task.frames, s.store.shared)
    BY DEF StepReady, Sound, TaskInv
  <1>2. Later(s.store, s.store, {})
    BY <1>1, StoreIsLater
  <1>3. CASE s.task.stage = "run"
    <2>1. RunReady(s)
      BY <1>1, <1>3 DEF StepReady, RunReady, TaskInv, StageInv, Position
    <2>2. Step(s) = Run(s)
      BY <1>3 DEF Step
    <2> QED
      BY <1>2, <1>3, <2>1, <2>2 DEF Begins
  <1>4. CASE s.task.stage = "setNonce"
    <2>1. PICK from, nonce, store, left : /\ from = s.task.msg.from /\ nonce = s.task.loaded + 1
                                          /\ store = s.store /\ left = SetNonce(store, from, nonce)
      OBVIOUS
    <2>2. from \in Addresses
      BY <2>1, ProgramFacts DEF StepReady
    <2>3. Later(store, left, {}) /\ left.slots = store.slots
      <3>1. \A keys : Later(store, left, keys) /\ left.slots = store.slots
        BY <1>1, <2>1, <2>2, SetNonceLater
      <3> QED
        BY <3>1
    <2>4. PICK c : c = [s EXCEPT !.store = SetNonce(@, s.task.msg.from, s.task.loaded + 1), !.task.stage = "run"]
      OBVIOUS
    <2>5. Step(s) = Run(c)
      BY <1>4, <2>4 DEF Step, IncrementNonce
    <2>6. c = [s EXCEPT !.store = left, !.task.stage = "run"]
      BY <2>1, <2>4
    <2>7. IsPair(c) /\ c.store = left /\ c.task = [s.task EXCEPT !.stage = "run"]
      BY <1>1, <2>6 DEF IsPair, IsMap
    <2>8. /\ IsTask(c.task) /\ c.task.stage = "run"
          /\ \A name \in {"tx", "msg", "err", "pc", "seen", "fields", "undone", "rw", "traced", "frames", "gas", "pool"} :
                c.task[name] = s.task[name]
      BY <1>1, <2>7 DEF IsTask
    <2>9. s.task.pc = 0 /\ s.task.frames = <<>> /\ s.task.gas \in Nat
      BY <1>4 DEF StepReady, TaskInv, StageInv
    <2>10. c.task.pc = 0 /\ c.task.frames = <<>> /\ c.task.gas \in Nat /\ c.task.msg = s.task.msg
      BY <2>8, <2>9
    <2>11. Sound(c)
      <3>1. Backed(c.task.frames, c.store, c.task.rw.writes)
        BY <2>10 DEF Backed
      <3> QED
        BY <2>3, <2>7, <3>1 DEF Sound, Later
    <2>12. RunReady(c)
      BY <2>8, <2>10, <2>11, NoFrame DEF RunReady, Position, StepReady
    <2> QED
      BY <2>1, <2>3, <2>5, <2>7, <2>8, <2>12 DEF Begins
  <1> QED
    BY <1>3, <1>4

Refused(s, e) ==
    IsPair(e) /\ e.store = s.store /\ e.task = [s.task EXCEPT !.err = "refused", !.stage = "done"]

Admitted(s, e, loaded) ==
    /\ IsPair(e) /\ e.store = s.store
    /\ e.task = [s.task EXCEPT !.gas = s.task.msg.limit - IntrinsicGas, !.pool = @ - s.task.msg.limit,
                               !.loaded = loaded, !.fields = @ \cup {s.task.msg.from}, !.stage = "setNonce"]

Credited(s, e, pool) ==
    /\ IsPair(e) /\ e.task = [s.task EXCEPT !.pool = pool, !.stage = "done"]
    /\ Later(s.store, e.store, {}) /\ e.store.slots = s.store.slots

Admissible(ran) == ran.msg.valid /\ ran.pool >= ran.msg.limit /\ ran.msg.limit >= IntrinsicGas

LEMMA CheckShape ==
    ASSUME NEW s, IsPair(s), IsTask(s.task), NEW e, e = Check(s)
    PROVE  IF Admissible(s.task) THEN \E loaded : Admitted(s, e, loaded) ELSE Refused(s, e)
  <1> DEFINE good == Admissible(s.task)
  <1>1. PICK from, gas, limit, loaded : /\ from = s.task.msg.from /\ gas = s.task.msg.limit - IntrinsicGas
                                        /\ limit = s.task.msg.limit /\ loaded = s.store.accounts[from].nonce
    OBVIOUS
  <1>2. e = IF good THEN [s EXCEPT !.task.gas = gas, !.task.pool = @ - limit, !.task.loaded = loaded,
                                   !.task.fields = @ \cup {from}, !.task.stage = "setNonce"]
            ELSE [s EXCEPT !.task.err = "refused", !.task.stage = "done"]
    BY <1>1 DEF Check, Prechecked, Admissible
  <1> HIDE DEF good
  <1>3. CASE good
    <2>1. /\ IsPair(e) /\ e.store = s.store
          /\ e.task = [s.task EXCEPT !.gas = gas, !.pool = @ - limit, !.loaded = loaded, !.fields = @ \cup {from},
                                     !.stage = "setNonce"]
      BY <1>2, <1>3 DEF IsPair, IsMap, IsTask
    <2> QED
      BY <1>1, <1>3, <2>1 DEF good, Admitted
  <1>4. CASE ~good
    <2>1. IsPair(e) /\ e.store = s.store /\ e.task = [s.task EXCEPT !.err = "refused", !.stage = "done"]
      BY <1>2, <1>4 DEF IsPair, IsMap, IsTask
    <2> QED
      BY <1>4, <2>1 DEF good, Refused
  <1> QED
    BY <1>3, <1>4

LEMMA CreditShape ==
    ASSUME NEW s, IsPair(s), IsSomeStore(s.store), IsTask(s.task), s.task.msg.from \in Addresses, NEW e, e = Credit(s)
    PROVE  \E pool : Credited(s, e, pool)
  <1>1. PICK from, store, loaded, amount, pool, left :
            /\ from = s.task.msg.from /\ store = s.store /\ loaded = s.task.loaded
            /\ amount = s.task.gas * s.task.msg.price /\ pool = s.task.pool + s.task.gas
            /\ left = AddBalance(store, from, loaded, amount)
    OBVIOUS
  <1>2. e = [s EXCEPT !.store = left, !.task.pool = pool, !.task.stage = "done"]
    BY <1>1 DEF Credit
  <1>3. IsPair(e) /\ e.store = left /\ e.task = [s.task EXCEPT !.pool = pool, !.stage = "done"]
    BY <1>2 DEF IsPair, IsMap, IsTask
  <1>4. from \in Addresses /\ IsSomeStore(store)
    BY <1>1
  <1>5. \A keys : Later(store, left, keys) /\ left.slots = store.slots
    <2>1. left = AddBalance(store, from, loaded, amount)
      BY <1>1
    <2> QED
      BY <1>4, <2>1, AddBalanceLater
  <1>6. Credited(s, e, pool)
    BY <1>1, <1>3, <1>5 DEF Credited
  <1> QED
    BY <1>6, Zenon

\* What a step leaves of slots and contracts, on the database and on the cache.
LEMMA StepLater ==
    ASSUME NEW s, StepReady(s), s.task.stage # "done", NEW e, e = Step(s)
    PROVE  Sound(e) /\ Later(s.store, e.store, e.task.rw.writes) /\ Further(s.task, e.task)
  <1>1. /\ IsPair(s) /\ IsSomeStore(s.store) /\ IsTask(s.task) /\ Backed(s.task.frames, s.store, s.task.rw.writes)
        /\ s.task.stage \in {"check", "setNonce", "run", "credit"} /\ s.task.msg.from \in Addresses
    BY ProgramFacts DEF StepReady, Sound, TaskInv, StageInv
  <1>2. ASSUME IsPair(e), Later(s.store, e.store, {}), e.task.rw = s.task.rw, e.task.undone = s.task.undone,
               e.task.frames = s.task.frames
        PROVE  Sound(e) /\ Later(s.store, e.store, e.task.rw.writes) /\ Further(s.task, e.task)
    <2>1. PICK frames, store, left, keys : /\ frames = s.task.frames /\ store = s.store /\ left = e.store
                                           /\ keys = s.task.rw.writes
      OBVIOUS
    <2>2. Later(store, left, keys)
      BY <1>2, <2>1 DEF Later
    <2>3. Backed(frames, left, keys)
      BY <1>1, <2>1, <2>2, BackedOn
    <2> QED
      BY <1>2, <2>1, <2>2, <2>3 DEF Sound, Later, Further
  <1>3. CASE s.task.stage = "check"
    <2>1. e = Check(s)
      BY <1>3 DEF Step
    <2>4. (\E loaded : Admitted(s, e, loaded)) \/ Refused(s, e)
      BY <1>1, <2>1, CheckShape
    <2>2. /\ IsPair(e) /\ e.store = s.store /\ e.task.rw = s.task.rw /\ e.task.undone = s.task.undone
          /\ e.task.frames = s.task.frames
      BY <1>1, <2>4 DEF IsTask, Admitted, Refused
    <2>3. Later(s.store, e.store, {})
      BY <1>1, <2>2, StoreIsLater
    <2> QED
      BY <1>2, <2>2, <2>3
  <1>4. CASE s.task.stage = "credit"
    <2>1. e = Credit(s)
      BY <1>4 DEF Step
    <2>3. PICK pool : Credited(s, e, pool)
      BY <1>1, <2>1, CreditShape
    <2>2. /\ IsPair(e) /\ Later(s.store, e.store, {}) /\ e.task.rw = s.task.rw /\ e.task.undone = s.task.undone
          /\ e.task.frames = s.task.frames
      BY <1>1, <2>3 DEF IsTask, Credited
    <2> QED
      BY <1>2, <2>2
  <1>5. CASE s.task.stage \in {"setNonce", "run"}
    <2>1. PICK c : Begins(s, c)
      BY <1>5, StepBegins
    <2>2. RunReady(c) /\ e = Run(c) /\ Later(s.store, c.store, {}) /\ c.task.rw = s.task.rw /\ c.task.undone = s.task.undone
      BY <2>1 DEF Begins
    <2>3. Sound(e) /\ Later(c.store, e.store, e.task.rw.writes) /\ Further(c.task, e.task)
      BY <2>2, RunLater
    <2>4. Later(s.store, e.store, e.task.rw.writes)
      <3>1. PICK store, left, last, keys : store = s.store /\ left = c.store /\ last = e.store /\ keys = e.task.rw.writes
        OBVIOUS
      <3> QED
        BY <2>2, <2>3, <3>1, LaterInTurn
    <2> QED
      BY <2>2, <2>3, <2>4 DEF Further
  <1> QED
    BY <1>1, <1>3, <1>4, <1>5

\* A step that calls a contract.
CallsNow(s, a) ==
    LET i == Instruction(s.task)
    IN  s.task.stage \in {"setNonce", "run"} /\ i.op \in Calls /\ i.account = a /\ RanOn(s, i)

LEMMA StepCalls ==
    ASSUME NEW s, StepReady(s), NEW a \in Addresses, CallsNow(s, a), NEW e, e = Step(s)
    PROVE  <<a, "CODE">> \in e.task.traced.reads /\ (Callable(s.store, a) => <<a, "CODE">> \in e.task.rw.reads)
  <1>1. PICK c : Begins(s, c)
    BY StepBegins DEF CallsNow
  <1>2. /\ RunReady(c) /\ e = Run(c) /\ (Callable(c.store, a) <=> Callable(s.store, a))
        /\ c.task.pc = s.task.pc /\ c.task.msg = s.task.msg /\ c.task.gas = s.task.gas
    BY <1>1 DEF Begins, Later
  <1>3. PICK i : i = Instruction(c.task)
    OBVIOUS
  <1>4. i.op \in Calls /\ i.account = a /\ RanOn(c, i)
    BY <1>2, <1>3 DEF CallsNow, Instruction, RanOn
  <1>5. PICK self, asked : self = Self(c.task) /\ asked = Asked(c.store, i)
    OBVIOUS
  <1>6. /\ e.task.rw = Add(c.task.rw, Recorded(i, self, asked))
        /\ e.task.traced = Add(c.task.traced, Traced(i, self))
    BY <1>2, <1>3, <1>4, <1>5, RunLater
  <1>7. <<a, "CODE">> \in Traced(i, self).reads
    BY <1>4 DEF Traced, Callee, Calls
  <1>8. Callable(c.store, a) => <<a, "CODE">> \in Recorded(i, self, asked).reads
    <2>1. Callable(c.store, a) => asked = {"CODE", "CODEHASH"}
      BY <1>4, <1>5 DEF Asked
    <2> QED
      BY <1>4, <2>1 DEF Recorded, Calls
  <1> QED
    BY <1>2, <1>6, <1>7, <1>8 DEF Add

(***************************************************************************)
(* An execution that has come to the same point on the full cache and on   *)
(* the database.                                                           *)
(***************************************************************************)
SameCalls(frames, others) ==
    Len(others) = Len(frames) /\ \A n \in DOMAIN frames : others[n].account = frames[n].account

\* What the two have in common: not the states to go back to, not the balances
\* and nonces, not what was given back of the gas, and of a callee without code
\* that an RW set names it.
Gist(ran, other) ==
    /\ \A name \in {"tx", "msg", "err", "stage", "pc", "seen", "fields", "undone"} : other[name] = ran[name]
    /\ other.rw.writes = ran.rw.writes /\ other.rw.reads \cap Keys = ran.rw.reads \cap Keys
    /\ SameCalls(ran.frames, other.frames)
    /\ ran.stage \in {"check", "setNonce", "run"} => other.gas = ran.gas /\ other.pool = ran.pool

Agree(store, other, keys) == \A k \in keys \cap Keys : other.slots[k] = store.slots[k]

LEMMA SameCallsOn ==
    ASSUME NEW frames, NEW shared, FramesInv(frames, shared), NEW others, NEW any, FramesInv(others, any),
           SameCalls(frames, others)
    PROVE  /\ frames = <<>> <=> others = <<>>
           /\ Len(frames) >= 1 => /\ Last(others).account = Last(frames).account
                                  /\ SameCalls(Front(frames), Front(others))
           /\ \A f, g : g.account = f.account => SameCalls(Append(frames, f), Append(others, g))
  <1>1. PICK S, T : frames \in Seq(S) /\ others \in Seq(T)
    BY DEF FramesInv
  <1>2. /\ Len(frames) \in Nat /\ DOMAIN frames = 1..Len(frames) /\ DOMAIN others = 1..Len(others)
        /\ Len(others) = Len(frames)
    BY <1>1 DEF SameCalls
  <1>3. frames = <<>> <=> others = <<>>
    BY <1>1, <1>2
  <1>4. ASSUME Len(frames) >= 1
        PROVE  Last(others).account = Last(frames).account /\ SameCalls(Front(frames), Front(others))
    <2>1. Last(frames) = frames[Len(frames)] /\ Last(others) = others[Len(frames)] /\ Len(frames) \in DOMAIN frames
      BY <1>2, <1>4 DEF Last
    <2>2. /\ Len(Front(frames)) = Len(frames) - 1 /\ DOMAIN Front(frames) = 1..(Len(frames) - 1)
          /\ \A n \in 1..(Len(frames) - 1) : Front(frames)[n] = frames[n]
      BY <1>1, <1>2, <1>4 DEF Front
    <2>3. /\ Len(Front(others)) = Len(frames) - 1
          /\ \A n \in 1..(Len(frames) - 1) : Front(others)[n] = others[n]
      BY <1>1, <1>2, <1>4 DEF Front
    <2>4. \A n \in 1..(Len(frames) - 1) : n \in DOMAIN frames
      BY <1>2
    <2> QED
      BY <2>1, <2>2, <2>3, <2>4 DEF SameCalls
  <1>5. ASSUME NEW f, NEW g, g.account = f.account
        PROVE  SameCalls(Append(frames, f), Append(others, g))
    <2>1. /\ Len(Append(frames, f)) = Len(frames) + 1 /\ DOMAIN Append(frames, f) = 1..(Len(frames) + 1)
          /\ \A n \in 1..Len(frames) : Append(frames, f)[n] = frames[n]
          /\ Append(frames, f)[Len(frames) + 1] = f
      BY <1>1
    <2>2. /\ Len(Append(others, g)) = Len(frames) + 1
          /\ \A n \in 1..Len(frames) : Append(others, g)[n] = others[n]
          /\ Append(others, g)[Len(frames) + 1] = g
      BY <1>1, <1>2
    <2>3. \A n \in 1..(Len(frames) + 1) : n \in 1..Len(frames) \/ n = Len(frames) + 1
      BY <1>2
    <2> QED
      BY <1>2, <1>5, <2>1, <2>2, <2>3 DEF SameCalls
  <1> QED
    BY <1>3, <1>4, <1>5

LEMMA SameSelf ==
    ASSUME NEW ran, NEW shared, FramesInv(ran.frames, shared), NEW other, NEW any, FramesInv(other.frames, any),
           SameCalls(ran.frames, other.frames), other.msg = ran.msg
    PROVE  Self(other) = Self(ran)
  <1>1. PICK frames, others : frames = ran.frames /\ others = other.frames
    OBVIOUS
  <1>2. FramesInv(frames, shared) /\ FramesInv(others, any) /\ SameCalls(frames, others)
    BY <1>1
  <1>3. /\ frames = <<>> <=> others = <<>>
        /\ Len(frames) >= 1 => Last(others).account = Last(frames).account
    BY <1>2, SameCallsOn
  <1>4. frames # <<>> => Len(frames) >= 1
    BY <1>2 DEF FramesInv
  <1> QED
    BY <1>1, <1>3, <1>4 DEF Self

\* The two, before the effect of an instruction, on states that agree on what it asks.
Level(p, q, i) ==
    /\ Sound(p) /\ Sound(q) /\ IsTask(p.task) /\ IsTask(q.task) /\ Gist(p.task, q.task) /\ p.task.stage = "run"
    /\ FramesInv(p.task.frames, p.store.shared) /\ FramesInv(q.task.frames, q.store.shared)
    /\ i.op \in Instructions /\ Asks(p.task, i) /\ (i.op \in {"RETURN", "REVERT"} => Len(p.task.frames) >= 1)
    /\ i.op # "BALANCE" /\ Agree(p.store, q.store, Touched(p.task.rw))
    /\ i.op \in Calls => (Callable(q.store, i.account) <=> Callable(p.store, i.account))

\* After it.
Levelled(p, e, f) ==
    Gist(e.task, f.task) /\ (~e.task.undone => Agree(e.store, f.store, Touched(p.task.rw)))

LEMMA LooksLevel ==
    ASSUME NEW p, NEW q, NEW i, Level(p, q, i), NEW e, NEW f, Looks(p, e, i), Looks(q, f, i)
    PROVE  Levelled(p, e, f)
  <1>1. e.store = p.store /\ f.store = q.store
    BY DEF Looks
  <1>2. CASE i.op = "SLOAD"
    <2>1. PICK k, v : k = Key(i) /\ v = GetState(p.store, k)
      OBVIOUS
    <2>2. q.store.slots[k] = p.store.slots[k]
      BY <1>2, <2>1 DEF Level, Asks, Agree
    <2>3. GetState(q.store, k) = v
      BY <2>1, <2>2 DEF GetState
    <2>4. e.task = [p.task EXCEPT !.seen = Append(@, v)] /\ f.task = [q.task EXCEPT !.seen = Append(@, v)]
      BY <1>2, <2>1, <2>3 DEF Looks
    <2>5. Gist(e.task, f.task)
      BY <2>4 DEF Level, Gist, IsTask
    <2> QED
      BY <1>1, <2>5 DEF Levelled, Level
  <1>3. CASE i.op = "SELFDESTRUCT"
    <2>1. PICK self : self = Self(p.task)
      OBVIOUS
    <2>2. Self(q.task) = self
      <3>1. PICK ran, other : ran = p.task /\ other = q.task
        OBVIOUS
      <3>2. /\ FramesInv(ran.frames, p.store.shared) /\ FramesInv(other.frames, q.store.shared)
            /\ SameCalls(ran.frames, other.frames) /\ other.msg = ran.msg
        BY <3>1 DEF Level, Gist
      <3>3. Self(other) = Self(ran)
        BY <3>2, SameSelf
      <3> QED
        BY <2>1, <3>1, <3>3
    <2>3. PICK l, m : e.task = [p.task EXCEPT !.loaded = l, !.amount = m, !.fields = @ \cup {i.account, self}]
      BY <1>3, <2>1 DEF Looks
    <2>4. PICK l2, m2 : f.task = [q.task EXCEPT !.loaded = l2, !.amount = m2, !.fields = @ \cup {i.account, self}]
      BY <1>3, <2>2 DEF Looks
    <2>5. Gist(e.task, f.task)
      BY <2>3, <2>4 DEF Level, Gist, IsTask
    <2> QED
      BY <1>1, <2>5 DEF Levelled, Level
  <1> QED
    BY <1>2, <1>3 DEF Looks, Level

LEMMA ChangesLevel ==
    ASSUME NEW p, NEW q, NEW i, Level(p, q, i), NEW e, NEW f, Changes(p, e, i), Changes(q, f, i)
    PROVE  Levelled(p, e, f)
  <1>1. PICK k : k = Key(i)
    OBVIOUS
  <1>2. PICK store, other, keys : store = p.store /\ other = q.store /\ keys = Touched(p.task.rw)
    OBVIOUS
  <1>3. IsSomeStore(store) /\ IsSomeStore(other) /\ Agree(store, other, keys)
    BY <1>2 DEF Level, Sound
  <1>4. ASSUME i.op \in {"SSTORE", "CLEAR"}, NEW v, NEW left, NEW right, IsSomeStore(left), IsSomeStore(right),
               left.slots = store.slots, right.slots = other.slots,
               e.store = SetState(left, k, v), f.store = SetState(right, k, v)
        PROVE  Agree(e.store, f.store, keys)
    <2>1. k \in Keys
      BY <1>1, <1>4 DEF Level, Asks
    <2>2. /\ \A l \in Keys : l # k => SetState(left, k, v).slots[l] = left.slots[l]
          /\ SetState(left, k, v).slots[k] = IF left.slots[k] = NoValue THEN NoValue ELSE v
      <3>1. PICK all : all = {k}
        OBVIOUS
      <3>2. k \in all /\ IsSomeStore(left)
        BY <1>4, <3>1
      <3> QED
        BY <2>1, <3>2, SetStateLater
    <2>3. /\ \A l \in Keys : l # k => SetState(right, k, v).slots[l] = right.slots[l]
          /\ SetState(right, k, v).slots[k] = IF right.slots[k] = NoValue THEN NoValue ELSE v
      <3>1. PICK all : all = {k}
        OBVIOUS
      <3>2. k \in all /\ IsSomeStore(right)
        BY <1>4, <3>1
      <3> QED
        BY <2>1, <3>2, SetStateLater
    <2>4. other.slots[k] = store.slots[k]
      BY <1>1, <1>2, <1>3, <1>4, <2>1 DEF Agree, Level, Asks
    <2>5. \A l \in keys \cap Keys : l = k \/ (l # k /\ other.slots[l] = store.slots[l])
      BY <1>3 DEF Agree
    <2> QED
      BY <1>4, <2>2, <2>3, <2>4, <2>5 DEF Agree
  <1>5. CASE i.op = "SSTORE"
    <2>1. e.task = p.task /\ f.task = q.task
      BY <1>5 DEF Changes
    <2>2. PICK v : v = Word(p.task.tx, p.task.seen)
      OBVIOUS
    <2>3. Word(q.task.tx, q.task.seen) = v
      BY <2>2 DEF Level, Gist
    <2>4. e.store = SetState(store, k, v) /\ f.store = SetState(other, k, v)
      BY <1>1, <1>2, <1>5, <2>2, <2>3 DEF Changes
    <2>5. Agree(e.store, f.store, keys)
      BY <1>3, <1>4, <1>5, <2>4
    <2> QED
      BY <1>2, <2>1, <2>5 DEF Levelled, Level
  <1>6. CASE i.op = "CLEAR"
    <2>1. e.task = p.task /\ f.task = q.task
      BY <1>6 DEF Changes
    <2>2. PICK v : v = Number(0)
      OBVIOUS
    <2>3. PICK gas \in Nat : e.store = SetState(AddRefund(store, gas), k, v)
      BY <1>1, <1>2, <1>6, <2>2 DEF Changes
    <2>4. PICK more \in Nat : f.store = SetState(AddRefund(other, more), k, v)
      BY <1>1, <1>2, <1>6, <2>2 DEF Changes
    <2>5. PICK left, right : left = AddRefund(store, gas) /\ right = AddRefund(other, more)
      OBVIOUS
    <2>6. IsSomeStore(left) /\ left.slots = store.slots
      <3>1. \A all : Later(store, left, all) /\ left.slots = store.slots
        BY <1>3, <2>5, AddRefundLater
      <3> QED
        BY <3>1 DEF Later
    <2>7. IsSomeStore(right) /\ right.slots = other.slots
      <3>1. \A all : Later(other, right, all) /\ right.slots = other.slots
        BY <1>3, <2>5, AddRefundLater
      <3> QED
        BY <3>1 DEF Later
    <2>8. Agree(e.store, f.store, keys)
      BY <1>4, <1>6, <2>3, <2>4, <2>5, <2>6, <2>7
    <2> QED
      BY <1>2, <2>1, <2>8 DEF Levelled, Level
  <1>7. CASE i.op = "MOVE"
    <2>1. PICK self, a : self = Self(p.task) /\ a = i.account
      OBVIOUS
    <2>2. Self(q.task) = self
      <3>1. PICK ran, next : ran = p.task /\ next = q.task
        OBVIOUS
      <3>2. /\ FramesInv(ran.frames, p.store.shared) /\ FramesInv(next.frames, q.store.shared)
            /\ SameCalls(ran.frames, next.frames) /\ next.msg = ran.msg
        BY <3>1 DEF Level, Gist
      <3>3. Self(next) = Self(ran)
        BY <3>2, SameSelf
      <3> QED
        BY <2>1, <3>1, <3>3
    <2>3. /\ e.task = [p.task EXCEPT !.fields = @ \cup {i.account, self}]
          /\ f.task = [q.task EXCEPT !.fields = @ \cup {i.account, self}]
      BY <1>7, <2>1, <2>2 DEF Changes
    <2>4. Gist(e.task, f.task)
      BY <2>3 DEF Level, Gist, IsTask
    <2>5. a \in Addresses /\ self \in Addresses
      BY <1>7, <2>1 DEF Level, Asks
    <2>6. ASSUME NEW any, IsSomeStore(any), NEW loaded, NEW amount
          PROVE  SelfDestruct(AddBalance(any, a, loaded, amount), self).slots = any.slots
      <3>1. PICK paid : paid = AddBalance(any, a, loaded, amount)
        OBVIOUS
      <3>2. \A all : Later(any, paid, all) /\ paid.slots = any.slots
        BY <2>5, <2>6, <3>1, AddBalanceLater
      <3>3. IsSomeStore(paid)
        BY <3>2 DEF Later
      <3>4. \A all : Later(paid, SelfDestruct(paid, self), all) /\ SelfDestruct(paid, self).slots = paid.slots
        BY <2>5, <3>3, SelfDestructLater
      <3> QED
        BY <3>1, <3>2, <3>4
    <2>7. e.store.slots = store.slots /\ f.store.slots = other.slots
      <3>1. PICK l, m : e.store = SelfDestruct(AddBalance(store, a, l, m), self)
        BY <1>2, <1>7, <2>1 DEF Changes
      <3>2. PICK l2, m2 : f.store = SelfDestruct(AddBalance(other, a, l2, m2), self)
        BY <1>2, <1>7, <2>1, <2>2 DEF Changes
      <3> QED
        BY <1>3, <2>6, <3>1, <3>2
    <2> QED
      BY <1>2, <1>3, <2>4, <2>7 DEF Levelled, Agree
  <1> QED
    BY <1>5, <1>6, <1>7 DEF Changes

LEMMA LeapsLevel ==
    ASSUME NEW p, NEW q, NEW i, Level(p, q, i), NEW e, NEW f, Leaps(p, e, i), Leaps(q, f, i)
    PROVE  Levelled(p, e, f)
  <1>1. PICK frames, others, shared, any :
            /\ frames = p.task.frames /\ others = q.task.frames /\ shared = p.store.shared /\ any = q.store.shared
    OBVIOUS
  <1>2. FramesInv(frames, shared) /\ FramesInv(others, any) /\ SameCalls(frames, others)
    BY <1>1 DEF Level, Gist
  <1>3. /\ Len(frames) >= 1 => SameCalls(Front(frames), Front(others))
        /\ \A g, h : h.account = g.account => SameCalls(Append(frames, g), Append(others, h))
    BY <1>2, SameCallsOn
  <1>4. ASSUME e.store = p.store, f.store = q.store, Gist(e.task, f.task)
        PROVE  Levelled(p, e, f)
    BY <1>4 DEF Levelled, Level
  <1>5. CASE i.op = "JUMPI"
    <2>1. e.store = p.store /\ f.store = q.store
      BY <1>5 DEF Leaps, Calls
    <2>2. PICK zero : zero = (Last(p.task.seen) = Number(0))
      OBVIOUS
    <2>3. (Last(q.task.seen) = Number(0)) <=> zero
      BY <2>2 DEF Level, Gist
    <2>4. CASE zero
      <3>1. e.task = [p.task EXCEPT !.pc = @ + i.skip] /\ f.task = [q.task EXCEPT !.pc = @ + i.skip]
        BY <1>5, <2>2, <2>3, <2>4 DEF Leaps, Calls
      <3>2. Gist(e.task, f.task)
        BY <3>1 DEF Level, Gist, IsTask
      <3> QED
        BY <1>4, <2>1, <3>2
    <2>5. CASE ~zero
      <3>1. e.task = p.task /\ f.task = q.task
        BY <1>5, <2>2, <2>3, <2>5 DEF Leaps, Calls
      <3> QED
        BY <1>4, <2>1, <3>1 DEF Level
    <2> QED
      BY <2>4, <2>5
  <1>6. CASE i.op \in Calls
    <2>1. Callable(q.store, i.account) <=> Callable(p.store, i.account)
      BY <1>6 DEF Level
    <2>2. CASE Callable(p.store, i.account)
      <3>0. e.store = p.store /\ f.store = q.store
        BY <1>6, <2>1, <2>2 DEF Leaps, Calls
      <3>1. PICK g, h : /\ g = [account |-> i.account, snapshot |-> Snapshot(p.store)]
                        /\ h = [account |-> i.account, snapshot |-> Snapshot(q.store)]
        OBVIOUS
      <3>2. e.task = [p.task EXCEPT !.frames = Append(@, g)] /\ f.task = [q.task EXCEPT !.frames = Append(@, h)]
        BY <1>6, <2>1, <2>2, <3>1 DEF Leaps, Calls
      <3>3. SameCalls(Append(frames, g), Append(others, h))
        BY <1>3, <3>1
      <3>4. PICK more, next : more = Append(frames, g) /\ next = Append(others, h)
        OBVIOUS
      <3>5. e.task = [p.task EXCEPT !.frames = more] /\ f.task = [q.task EXCEPT !.frames = next] /\ SameCalls(more, next)
        BY <1>1, <3>2, <3>3, <3>4
      <3>6. Gist(e.task, f.task)
        BY <3>5 DEF Level, Gist, IsTask
      <3> QED
        BY <1>4, <3>0, <3>6
    <2>3. CASE ~Callable(p.store, i.account)
      <3>1. /\ e.task = [p.task EXCEPT !.pc = @ + i.skip] /\ f.task = [q.task EXCEPT !.pc = @ + i.skip]
            /\ e.store = Touch(p.store, i) /\ f.store = Touch(q.store, i)
        BY <1>6, <2>1, <2>3 DEF Leaps, Calls
      <3>2. Gist(e.task, f.task)
        BY <3>1 DEF Level, Gist, IsTask
      <3>3. IsSomeStore(p.store) /\ IsSomeStore(q.store) /\ i.account \in Addresses
        BY <1>6 DEF Level, Sound, Asks, Calls
      <3>4. e.store.slots = p.store.slots /\ f.store.slots = q.store.slots
        BY <3>1, <3>3, TouchLater
      <3>5. Agree(e.store, f.store, Touched(p.task.rw))
        BY <3>4 DEF Level, Agree
      <3> QED
        BY <3>2, <3>5 DEF Levelled
    <2> QED
      BY <2>2, <2>3
  <1>7. PICK more, next : more = Front(frames) /\ next = Front(others)
    OBVIOUS
  <1>8. CASE i.op = "RETURN"
    <2>1. e.store = p.store /\ f.store = q.store
      BY <1>8 DEF Leaps, Calls
    <2>2. e.task = [p.task EXCEPT !.frames = more] /\ f.task = [q.task EXCEPT !.frames = next]
      BY <1>1, <1>7, <1>8 DEF Leaps, Calls
    <2>3. SameCalls(more, next)
      BY <1>1, <1>3, <1>7, <1>8 DEF Level
    <2>4. Gist(e.task, f.task)
      BY <2>2, <2>3 DEF Level, Gist, IsTask
    <2> QED
      BY <1>4, <2>1, <2>4
  <1>9. CASE i.op = "REVERT"
    <2>1. PICK store, other, keys : store = p.store /\ other = q.store /\ keys = p.task.rw.writes
      OBVIOUS
    <2>2. PICK left, right : /\ left = RevertToSnapshot(store, Last(frames).snapshot)
                             /\ right = RevertToSnapshot(other, Last(others).snapshot)
      OBVIOUS
    <2>3. e.store = left /\ f.store = right
      BY <1>1, <1>9, <2>1, <2>2 DEF Leaps, Calls
    <2>4. PICK undone : undone = (p.task.undone \/ keys # {})
      OBVIOUS
    <2>5. (q.task.undone \/ q.task.rw.writes # {}) = undone
      BY <2>1, <2>4 DEF Level, Gist
    <2>6. /\ e.task = [p.task EXCEPT !.frames = more, !.undone = undone]
          /\ f.task = [q.task EXCEPT !.frames = next, !.undone = undone]
      <3>1. /\ e.task = [p.task EXCEPT !.frames = Front(@), !.undone = @ \/ p.task.rw.writes # {}]
            /\ f.task = [q.task EXCEPT !.frames = Front(@), !.undone = @ \/ q.task.rw.writes # {}]
        BY <1>9 DEF Leaps, Calls
      <3> QED
        BY <1>1, <1>7, <2>1, <2>4, <2>5, <3>1
    <2>7. SameCalls(more, next) /\ Len(frames) >= 1
      BY <1>1, <1>3, <1>7, <1>9 DEF Level
    <2>8. Gist(e.task, f.task)
      BY <2>6, <2>7 DEF Level, Gist, IsTask
    <2>9. ASSUME ~e.task.undone
          PROVE  Agree(e.store, f.store, Touched(p.task.rw))
      <3>1. keys = {} /\ q.task.rw.writes = {}
        BY <2>1, <2>4, <2>6, <2>9 DEF Level, Gist, IsTask
      <3>2. /\ IsSomeStore(store) /\ Backed(frames, store, keys) /\ FramesInv(frames, store.shared)
            /\ IsSomeStore(other) /\ Backed(others, other, keys) /\ FramesInv(others, other.shared)
        BY <1>1, <2>1, <3>1 DEF Level, Sound
      <3>3. Len(others) >= 1
        BY <1>2, <2>7 DEF SameCalls
      <3>4. Later(store, left, keys)
        BY <2>2, <2>7, <3>2, BackedFrames
      <3>5. Later(other, right, keys)
        BY <2>2, <3>2, <3>3, BackedFrames
      <3>6. Agree(store, other, Touched(p.task.rw))
        BY <2>1 DEF Level
      <3> QED
        BY <2>3, <3>1, <3>4, <3>5, <3>6 DEF Later, Agree
    <2> QED
      BY <2>8, <2>9 DEF Levelled
  <1> QED
    BY <1>5, <1>6, <1>8, <1>9 DEF Leaps

LEMMA EffectLevel ==
    ASSUME NEW p, NEW q, NEW i, Level(p, q, i), NEW e, e = Effect(p, i), NEW f, f = Effect(q, i)
    PROVE  Levelled(p, e, f)
  <1>1. /\ Looks(p, e, i) \/ Changes(p, e, i) \/ Leaps(p, e, i)
        /\ Looks(q, f, i) \/ Changes(q, f, i) \/ Leaps(q, f, i)
    BY EffectShape DEF Level, Sound
  <1>2. CASE i.op \in {"SLOAD", "SELFDESTRUCT"}
    <2>1. Looks(p, e, i) /\ Looks(q, f, i)
      BY <1>1, <1>2 DEF Changes, Leaps, Calls
    <2> QED
      BY <2>1, LooksLevel
  <1>3. CASE i.op \in {"SSTORE", "CLEAR", "MOVE"}
    <2>1. Changes(p, e, i) /\ Changes(q, f, i)
      BY <1>1, <1>3 DEF Looks, Leaps, Calls
    <2> QED
      BY <2>1, ChangesLevel
  <1>4. CASE i.op \in Calls \cup {"JUMPI", "RETURN", "REVERT"}
    <2>1. Leaps(p, e, i) /\ Leaps(q, f, i)
      BY <1>1, <1>4 DEF Looks, Changes, Calls
    <2> QED
      BY <2>1, LeapsLevel
  <1> QED
    BY <1>2, <1>3, <1>4 DEF Level, Instructions

\* The keys of slots that are recorded do not depend on the callee.
LEMMA RecordedOfSlots ==
    ASSUME NEW i, NEW self, NEW store, NEW other
    PROVE  LET r == Recorded(i, self, Asked(store, i))
               n == Recorded(i, self, Asked(other, i))
           IN  n.writes = r.writes /\ n.reads \cap Keys = r.reads \cap Keys
  <1>1. PICK asked, more : asked = Asked(store, i) /\ more = Asked(other, i)
    OBVIOUS
  <1>2. asked \subseteq {"CODE", "CODEHASH"} /\ more \subseteq {"CODE", "CODEHASH"}
    BY <1>1 DEF Asked
  <1>3. Slots \cap {"CODE", "CODEHASH"} = {}
    BY FullStateAssumption
  <1>4. ({i.account} \X asked) \cap Keys = {} /\ ({i.account} \X more) \cap Keys = {}
    BY <1>2, <1>3 DEF Keys
  <1>5. PICK r, n : r = Recorded(i, self, asked) /\ n = Recorded(i, self, more)
    OBVIOUS
  <1>6. n.writes = r.writes
    BY <1>5 DEF Recorded
  <1>7. n.reads \cap Keys = r.reads \cap Keys
    <2>1. CASE i.op \in {"CALL", "STATICCALL"}
      <3>1. r.reads = {i.account} \X asked /\ n.reads = {i.account} \X more
        BY <1>5, <2>1 DEF Recorded
      <3> QED
        BY <1>4, <3>1
    <2>2. CASE i.op \notin {"CALL", "STATICCALL"}
      <3>1. r.reads = n.reads
        BY <1>5, <2>2 DEF Recorded
      <3> QED
        BY <3>1
    <2> QED
      BY <2>1, <2>2
  <1> QED
    BY <1>1, <1>5, <1>6, <1>7

\* The same slots, in two RW sets.
SameSlots(rw, other) == other.writes = rw.writes /\ other.reads \cap Keys = rw.reads \cap Keys

\* Two executions that are to run the same instruction.
SamePoint(p, q) == RunReady(p) /\ RunReady(q) /\ Gist(p.task, q.task) /\ p.task.stage = "run"

LEMMA SameInstruction ==
    ASSUME NEW p, NEW q, SamePoint(p, q)
    PROVE  /\ Instruction(q.task) = Instruction(p.task) /\ Self(q.task) = Self(p.task)
           /\ \A i : RanOn(q, i) <=> RanOn(p, i)
  <1>1. /\ q.task.pc = p.task.pc /\ q.task.msg = p.task.msg /\ q.task.gas = p.task.gas
        /\ SameCalls(p.task.frames, q.task.frames)
    BY DEF SamePoint, Gist
  <1>2. FramesInv(p.task.frames, p.store.shared) /\ FramesInv(q.task.frames, q.store.shared)
    BY DEF SamePoint, RunReady
  <1>3. Self(q.task) = Self(p.task)
    <2>1. PICK ran, other, shared, any :
                ran = p.task /\ other = q.task /\ shared = p.store.shared /\ any = q.store.shared
      OBVIOUS
    <2> QED
      BY <1>1, <1>2, <2>1, SameSelf
  <1>4. Instruction(q.task) = Instruction(p.task)
    BY <1>1 DEF Instruction
  <1>5. \A i : RanOn(q, i) <=> RanOn(p, i)
    BY <1>1 DEF RanOn
  <1> QED
    BY <1>3, <1>4, <1>5

\* They record the same of the slots, whatever these hold.
LEMMA RunRecordsAlike ==
    ASSUME NEW p, NEW q, SamePoint(p, q), NEW e, e = Run(p), NEW f, f = Run(q)
    PROVE  SameSlots(e.task.rw, f.task.rw)
  <1>1. PICK i, self : i = Instruction(p.task) /\ self = Self(p.task)
    OBVIOUS
  <1>2. i = Instruction(q.task) /\ self = Self(q.task) /\ (RanOn(q, i) <=> RanOn(p, i))
    BY <1>1, SameInstruction
  <1>3. SameSlots(p.task.rw, q.task.rw) /\ RunReady(p) /\ RunReady(q)
    BY DEF SamePoint, Gist, SameSlots
  <1>4. CASE RanOn(p, i)
    <2>1. PICK r, n : r = Recorded(i, self, Asked(p.store, i)) /\ n = Recorded(i, self, Asked(q.store, i))
      OBVIOUS
    <2>2. e.task.rw = Add(p.task.rw, r)
      BY <1>1, <1>3, <1>4, <2>1, RunLater
    <2>3. f.task.rw = Add(q.task.rw, n)
      BY <1>2, <1>3, <1>4, <2>1, RunLater
    <2>4. SameSlots(r, n)
      <3>1. PICK store, other : store = p.store /\ other = q.store
        OBVIOUS
      <3> QED
        BY <2>1, <3>1, RecordedOfSlots DEF SameSlots
    <2> QED
      BY <1>3, <2>2, <2>3, <2>4 DEF SameSlots, Add
  <1>5. CASE ~RanOn(p, i)
    <2>1. e.task.rw = p.task.rw
      BY <1>1, <1>3, <1>5, RunLater
    <2>2. f.task.rw = q.task.rw
      BY <1>2, <1>3, <1>5, RunLater
    <2> QED
      BY <1>3, <2>1, <2>2
  <1> QED
    BY <1>4, <1>5

\* An instruction that meets the same on both.
Meets(p, q, i, keys) ==
    /\ i.op # "BALANCE" /\ Agree(p.store, q.store, keys)
    /\ i.op \in Calls => (Callable(q.store, i.account) <=> Callable(p.store, i.account))

LEMMA PaidLevel ==
    ASSUME NEW p, NEW q, SamePoint(p, q), NEW i, i = Instruction(p.task), RanOn(p, i), NEW e, e = Run(p), NEW f, f = Run(q),
           Meets(p, q, i, Touched(e.task.rw))
    PROVE  Gist(e.task, f.task) /\ (~e.task.undone => Agree(e.store, f.store, Touched(e.task.rw)))
  <1>1. RunReady(p) /\ RunReady(q) /\ IsPair(p) /\ IsPair(q) /\ IsTask(p.task) /\ IsTask(q.task)
    BY DEF SamePoint, RunReady, Sound
  <1>2. i = Instruction(q.task) /\ Self(q.task) = Self(p.task) /\ RanOn(q, i)
    BY SameInstruction
  <1>3. PICK paid : Pays(p, paid, i) /\ e = Effect(paid, i)
    BY <1>1, RunShape
  <1>4. PICK more : Pays(q, more, i) /\ f = Effect(more, i)
    BY <1>1, <1>2, RunShape
  <1>5. p.task.pc <= Len(p.task.msg.program) /\ q.task.pc <= Len(q.task.msg.program)
    BY <1>1, <1>2, ProgramFacts DEF RunReady, Position, RanOn
  <1>6. /\ IsInstruction(i) /\ (i.op \in {"RETURN", "REVERT"} => Len(p.task.frames) >= 1)
        /\ Sound(paid) /\ IsTask(paid.task) /\ Asks(paid.task, i) /\ paid.task.frames = p.task.frames
        /\ paid.task.rw = Add(p.task.rw, Recorded(i, Self(p.task), Asked(p.store, i)))
    BY <1>1, <1>3, <1>5, PaidReady
  <1>7. /\ Sound(more) /\ IsTask(more.task) /\ Asks(more.task, i) /\ more.task.frames = q.task.frames
        /\ more.task.rw = Add(q.task.rw, Recorded(i, Self(q.task), Asked(q.store, i)))
    BY <1>1, <1>2, <1>4, <1>5, PaidReady
  <1>8. e.task.rw = paid.task.rw
    BY <1>1, <1>6, RunLater
  <1>9. f.task.rw = more.task.rw
    BY <1>1, <1>2, <1>7, RunLater
  <1>10. SameSlots(paid.task.rw, more.task.rw)
    BY <1>8, <1>9, RunRecordsAlike
  <1>11. Gist(p.task, q.task) /\ p.task.stage = "run"
    BY DEF SamePoint
  <1>12. Gist(paid.task, more.task) /\ paid.task.stage = "run"
    <2>1. /\ \A name \in {"tx", "msg", "err", "stage", "seen", "fields", "undone", "frames", "pool"} :
                paid.task[name] = p.task[name] /\ more.task[name] = q.task[name]
          /\ paid.task.pc = p.task.pc + 1 /\ more.task.pc = q.task.pc + 1
          /\ paid.task.gas = p.task.gas - Cost(i, p.task.pc) /\ more.task.gas = q.task.gas - Cost(i, q.task.pc)
      BY <1>1, <1>3, <1>4 DEF Pays, IsTask
    <2> QED
      BY <1>10, <1>11, <2>1 DEF Gist, SameSlots
  <1>13. paid.store = p.store /\ more.store = q.store
    BY <1>3, <1>4 DEF Pays
  <1>14. Level(paid, more, i)
    <2>1. FramesInv(paid.task.frames, paid.store.shared) /\ FramesInv(more.task.frames, more.store.shared)
      BY <1>1, <1>6, <1>7, <1>13 DEF RunReady
    <2>2. i.op \in Instructions /\ (i.op \in {"RETURN", "REVERT"} => Len(paid.task.frames) >= 1)
      BY <1>6 DEF IsInstruction
    <2>3. Agree(paid.store, more.store, Touched(paid.task.rw))
      BY <1>8, <1>13 DEF Meets
    <2>4. i.op \in Calls => (Callable(more.store, i.account) <=> Callable(paid.store, i.account))
      BY <1>13 DEF Meets
    <2>5. i.op # "BALANCE"
      BY DEF Meets
    <2> QED
      BY <1>6, <1>7, <1>12, <2>1, <2>2, <2>3, <2>4, <2>5 DEF Level
  <1>15. Levelled(paid, e, f)
    BY <1>3, <1>4, <1>14, EffectLevel
  <1> QED
    BY <1>8, <1>15 DEF Levelled

\* Where gas runs out, or a program ends.
LEMMA EndLevel ==
    ASSUME NEW p, NEW q, SamePoint(p, q), NEW i, i = Instruction(p.task), ~RanOn(p, i), NEW e, e = Run(p), NEW f, f = Run(q),
           Agree(p.store, q.store, Touched(e.task.rw))
    PROVE  Gist(e.task, f.task) /\ (~e.task.undone => Agree(e.store, f.store, Touched(e.task.rw)))
  <1>1. RunReady(p) /\ RunReady(q) /\ IsPair(p) /\ IsPair(q) /\ IsTask(p.task) /\ IsTask(q.task)
    BY DEF SamePoint, RunReady, Sound
  <1>2. i = Instruction(q.task) /\ Self(q.task) = Self(p.task) /\ ~RanOn(q, i)
    BY SameInstruction
  <1>3. Gist(p.task, q.task) /\ q.task.pc = p.task.pc /\ q.task.msg = p.task.msg
    BY DEF SamePoint, Gist
  <1>4. SameCalls(<<>>, <<>>)
    BY DEF SameCalls
  <1>5. CASE p.task.pc > Len(p.task.msg.program)
    <2>1. Ends(p, e) /\ Ends(q, f)
      BY <1>1, <1>2, <1>3, <1>5, RunShape
    <2>2. e.store = p.store /\ f.store = q.store
      BY <2>1 DEF Ends
    <2>3. /\ \A name \in {"tx", "msg", "err", "seen", "fields", "undone", "pc", "rw"} :
                e.task[name] = p.task[name] /\ f.task[name] = q.task[name]
          /\ e.task.stage = "credit" /\ f.task.stage = "credit" /\ e.task.frames = <<>> /\ f.task.frames = <<>>
      BY <1>1, <2>1 DEF Ends, IsTask
    <2> QED
      BY <1>3, <1>4, <2>2, <2>3 DEF Gist
  <1>6. CASE ~(p.task.pc > Len(p.task.msg.program))
    <2>1. RunsOut(p, e, i) /\ RunsOut(q, f, i)
      BY <1>1, <1>2, <1>3, <1>6, RunShape
    <2>2. PICK gas, loaded, undone : RunsOutWith(p, e, i, gas, loaded, undone)
      BY <2>1 DEF RunsOut
    <2>3. PICK gas2, loaded2, undone2 : RunsOutWith(q, f, i, gas2, loaded2, undone2)
      BY <2>1 DEF RunsOut
    <2>4. undone2 = undone
      BY <1>3, <2>2, <2>3 DEF RunsOutWith, Gist
    <2>5. /\ \A name \in {"tx", "msg", "err", "seen", "fields", "pc", "rw"} :
                e.task[name] = p.task[name] /\ f.task[name] = q.task[name]
          /\ e.task.undone = undone /\ f.task.undone = undone2
          /\ e.task.stage = "credit" /\ f.task.stage = "credit" /\ e.task.frames = <<>> /\ f.task.frames = <<>>
      BY <1>1, <2>2, <2>3 DEF RunsOutWith, IsTask
    <2>6. Gist(e.task, f.task)
      BY <1>3, <1>4, <2>4, <2>5 DEF Gist
    <2>7. ASSUME ~e.task.undone
          PROVE  Agree(e.store, f.store, Touched(e.task.rw))
      <3>1. p.task.rw.writes = {} /\ q.task.rw.writes = {}
        BY <1>3, <2>2, <2>3, <2>4, <2>5, <2>7 DEF RunsOutWith, Gist
      <3>2. Later(p.store, e.store, {}) /\ Later(q.store, f.store, {})
        BY <1>1, <1>2, <2>5, <3>1, RunLater
      <3> QED
        BY <3>2 DEF Agree, Later
    <2> QED
      BY <2>6, <2>7
  <1> QED
    BY <1>5, <1>6

NoBalance(msg) == \A j \in DOMAIN msg.program : msg.program[j].op # "BALANCE"

\* Where two instructions at the same point begin, they are at the same point.
LEMMA BeginTogether ==
    ASSUME NEW p, NEW q, p.task.stage \in {"setNonce", "run"}, Gist(p.task, q.task),
           NEW c, Begins(p, c), NEW d, Begins(q, d)
    PROVE  SamePoint(c, d)
  <1>1. RunReady(c) /\ RunReady(d) /\ c.task.stage = "run" /\ d.task.stage = "run"
    BY DEF Begins
  <1>2. /\ \A name \in {"tx", "msg", "err", "pc", "seen", "fields", "undone", "rw", "frames", "gas", "pool"} :
            c.task[name] = p.task[name] /\ d.task[name] = q.task[name]
    BY DEF Begins
  <1>3. q.task.gas = p.task.gas /\ q.task.pool = p.task.pool
    BY DEF Gist
  <1> QED
    BY <1>1, <1>2, <1>3 DEF SamePoint, Gist

LEMMA CallsTogether ==
    ASSUME NEW p, NEW q, Gist(p.task, q.task), NEW a
    PROVE  CallsNow(q, a) <=> CallsNow(p, a)
  <1>1. q.task.pc = p.task.pc /\ q.task.msg = p.task.msg /\ q.task.stage = p.task.stage
    BY DEF Gist
  <1>2. p.task.stage \in {"setNonce", "run"} => q.task.gas = p.task.gas
    BY DEF Gist
  <1>3. Instruction(q.task) = Instruction(p.task)
    BY <1>1 DEF Instruction
  <1> QED
    BY <1>1, <1>2, <1>3 DEF CallsNow, RanOn

\* A step records the same of the slots, whatever these hold.
LEMMA StepRecordsAlike ==
    ASSUME NEW p, StepReady(p), NEW q, StepReady(q), p.task.stage # "done", Gist(p.task, q.task),
           NEW e, e = Step(p), NEW f, f = Step(q)
    PROVE  SameSlots(e.task.rw, f.task.rw)
  <1>1. /\ q.task.stage = p.task.stage /\ SameSlots(p.task.rw, q.task.rw)
        /\ IsPair(p) /\ IsPair(q) /\ IsTask(p.task) /\ IsTask(q.task)
    BY DEF StepReady, Sound, TaskInv, Gist, SameSlots
  <1>2. CASE p.task.stage \in {"setNonce", "run"}
    <2>1. PICK c : Begins(p, c)
      BY <1>2, StepBegins
    <2>2. PICK d : Begins(q, d)
      BY <1>1, <1>2, StepBegins
    <2>3. SamePoint(c, d)
      BY <1>2, <2>1, <2>2, BeginTogether
    <2>4. e = Run(c) /\ f = Run(d)
      BY <2>1, <2>2 DEF Begins
    <2> QED
      BY <2>3, <2>4, RunRecordsAlike
  <1>3. CASE p.task.stage = "check"
    <2>1. e = Check(p) /\ f = Check(q)
      BY <1>1, <1>3 DEF Step
    <2>2. e.task.rw = p.task.rw
      <3>1. (\E loaded : Admitted(p, e, loaded)) \/ Refused(p, e)
        BY <1>1, <2>1, CheckShape
      <3> QED
        BY <1>1, <3>1 DEF Admitted, Refused, IsTask
    <2>3. f.task.rw = q.task.rw
      <3>1. (\E loaded : Admitted(q, f, loaded)) \/ Refused(q, f)
        BY <1>1, <2>1, CheckShape
      <3> QED
        BY <1>1, <3>1 DEF Admitted, Refused, IsTask
    <2> QED
      BY <1>1, <2>2, <2>3
  <1>4. CASE p.task.stage = "credit"
    <2>1. e = Credit(p) /\ f = Credit(q)
      BY <1>1, <1>4 DEF Step
    <2>2. p.task.msg.from \in Addresses /\ q.task.msg.from \in Addresses /\ IsSomeStore(p.store) /\ IsSomeStore(q.store)
      BY ProgramFacts DEF StepReady, Sound
    <2>3. PICK pool : Credited(p, e, pool)
      BY <1>1, <2>1, <2>2, CreditShape
    <2>4. PICK more : Credited(q, f, more)
      BY <1>1, <2>1, <2>2, CreditShape
    <2>5. e.task.rw = p.task.rw /\ f.task.rw = q.task.rw
      BY <1>1, <2>3, <2>4 DEF Credited, IsTask
    <2> QED
      BY <1>1, <2>5
  <1> QED
    BY <1>2, <1>3, <1>4 DEF StepReady, TaskInv, StageInv

LEMMA BeginLevel ==
    ASSUME NEW p, StepReady(p), NEW q, StepReady(q), p.task.stage \in {"setNonce", "run"}, Gist(p.task, q.task),
           NEW e, e = Step(p), NEW f, f = Step(q),
           NoBalance(p.task.msg), Agree(p.store, q.store, Touched(e.task.rw)),
           \A a \in Addresses : CallsNow(p, a) => (Callable(q.store, a) <=> Callable(p.store, a))
    PROVE  Gist(e.task, f.task) /\ (~e.task.undone => Agree(e.store, f.store, Touched(e.task.rw)))
  <1>1. PICK c : Begins(p, c)
    BY StepBegins
  <1>2. q.task.stage \in {"setNonce", "run"}
    BY DEF Gist
  <1>3. PICK d : Begins(q, d)
    BY <1>2, StepBegins
  <1>4. SamePoint(c, d)
    BY <1>1, <1>3, BeginTogether
  <1>5. e = Run(c) /\ f = Run(d)
    BY <1>1, <1>3 DEF Begins
  <1>6. Agree(c.store, d.store, Touched(e.task.rw))
    BY <1>1, <1>3 DEF Agree, Begins
  <1>7. PICK i : i = Instruction(c.task)
    OBVIOUS
  <1>8. CASE RanOn(c, i)
    <2>1. RunReady(c) /\ c.task.msg = p.task.msg /\ c.task.pc = p.task.pc /\ c.task.gas = p.task.gas
      BY <1>1 DEF Begins
    <2>2. c.task.pc <= Len(c.task.msg.program)
      BY <1>8, <2>1, ProgramFacts DEF RunReady, Position, RanOn
    <2>3. IsInstruction(i)
      BY <1>7, <2>1, <2>2, PaidReady
    <2>4. i.op # "BALANCE"
      <3>1. CASE c.task.pc = 0
        BY <1>7, <3>1 DEF Instruction
      <3>2. CASE c.task.pc # 0
        <4>1. PICK ran : ran = c.task
          OBVIOUS
        <4>2. i = ran.msg.program[ran.pc] /\ ran.pc \in DOMAIN ran.msg.program
          BY <1>7, <2>1, <2>2, <3>2, <4>1, InstructionFacts DEF RunReady
        <4> QED
          BY <2>1, <4>1, <4>2 DEF NoBalance
      <3> QED
        BY <3>1, <3>2
    <2>5. ASSUME i.op \in Calls
          PROVE  Callable(d.store, i.account) <=> Callable(c.store, i.account)
      <3>1. i.account \in Addresses
        BY <2>3, <2>5 DEF IsInstruction, Calls
      <3>2. CallsNow(p, i.account)
        BY <1>7, <1>8, <2>1, <2>5 DEF CallsNow, RanOn, Instruction
      <3>3. (Callable(c.store, i.account) <=> Callable(p.store, i.account))
            /\ (Callable(d.store, i.account) <=> Callable(q.store, i.account))
        BY <1>1, <1>3, <3>1 DEF Begins, Later
      <3> QED
        BY <3>1, <3>2, <3>3
    <2>6. Meets(c, d, i, Touched(e.task.rw))
      BY <1>6, <2>4, <2>5 DEF Meets
    <2> QED
      BY <1>4, <1>5, <1>7, <1>8, <2>6, PaidLevel
  <1>9. CASE ~RanOn(c, i)
    BY <1>4, <1>5, <1>6, <1>7, <1>9, EndLevel
  <1> QED
    BY <1>8, <1>9

\* A step on two states that agree on the slots it meets: it sees the same, and
\* leaves the same there, if nothing is undone.
LEMMA StepLevel ==
    ASSUME NEW p, StepReady(p), NEW q, StepReady(q), p.task.stage # "done", Gist(p.task, q.task),
           NEW e, e = Step(p), NEW f, f = Step(q),
           NoBalance(p.task.msg), Agree(p.store, q.store, Touched(e.task.rw)),
           \A a \in Addresses : CallsNow(p, a) => (Callable(q.store, a) <=> Callable(p.store, a))
    PROVE  Gist(e.task, f.task) /\ (~e.task.undone => Agree(e.store, f.store, Touched(e.task.rw)))
  <1>1. /\ q.task.stage = p.task.stage /\ q.task.msg = p.task.msg /\ q.task.fields = p.task.fields
        /\ IsPair(p) /\ IsPair(q) /\ IsTask(p.task) /\ IsTask(q.task)
    BY DEF StepReady, Sound, TaskInv, Gist
  <1>2. CASE p.task.stage \in {"setNonce", "run"}
    BY <1>2, BeginLevel
  <1>3. CASE p.task.stage = "check"
    <2>1. e = Check(p) /\ f = Check(q) /\ q.task.pool = p.task.pool
      BY <1>1, <1>3 DEF Step, Gist
    <2>2. Admissible(q.task) <=> Admissible(p.task)
      BY <1>1, <2>1 DEF Admissible
    <2>3. CASE Admissible(p.task)
      <3>1. PICK loaded : Admitted(p, e, loaded)
        BY <1>1, <2>1, <2>3, CheckShape
      <3>2. PICK more : Admitted(q, f, more)
        BY <1>1, <2>1, <2>2, <2>3, CheckShape
      <3>3. e.store = p.store /\ f.store = q.store
        BY <3>1, <3>2 DEF Admitted
      <3>4. /\ \A name \in {"tx", "msg", "err", "pc", "seen", "undone", "rw", "frames"} :
                    e.task[name] = p.task[name] /\ f.task[name] = q.task[name]
            /\ e.task.stage = "setNonce" /\ f.task.stage = "setNonce"
            /\ e.task.fields = p.task.fields \cup {p.task.msg.from}
            /\ f.task.fields = q.task.fields \cup {q.task.msg.from}
            /\ e.task.gas = p.task.msg.limit - IntrinsicGas /\ f.task.gas = q.task.msg.limit - IntrinsicGas
            /\ e.task.pool = p.task.pool - p.task.msg.limit /\ f.task.pool = q.task.pool - q.task.msg.limit
        BY <1>1, <3>1, <3>2 DEF Admitted, IsTask
      <3>5. f.task.fields = e.task.fields /\ f.task.gas = e.task.gas /\ f.task.pool = e.task.pool
        BY <1>1, <2>1, <3>4
      <3>6. Gist(e.task, f.task)
        <4>1. \A name \in {"tx", "msg", "err", "stage", "pc", "seen", "fields", "undone"} : f.task[name] = e.task[name]
          <5>1. \A name \in {"tx", "msg", "err", "pc", "seen", "undone"} : f.task[name] = e.task[name]
            <6>1. \A name \in {"tx", "msg", "err", "pc", "seen", "undone"} :
                    q.task[name] = p.task[name] /\ e.task[name] = p.task[name] /\ f.task[name] = q.task[name]
              BY <3>4 DEF Gist
            <6> QED
              BY <6>1
          <5> QED
            BY <3>4, <3>5, <5>1
        <4>2. /\ f.task.rw.writes = e.task.rw.writes /\ f.task.rw.reads \cap Keys = e.task.rw.reads \cap Keys
              /\ SameCalls(e.task.frames, f.task.frames)
          BY <3>4 DEF Gist
        <4> QED
          BY <3>5, <4>1, <4>2 DEF Gist
      <3> QED
        BY <3>3, <3>6
    <2>4. CASE ~Admissible(p.task)
      <3>1. Refused(p, e) /\ Refused(q, f)
        BY <1>1, <2>1, <2>2, <2>4, CheckShape
      <3>2. e.store = p.store /\ f.store = q.store
        BY <3>1 DEF Refused
      <3>3. /\ \A name \in {"tx", "msg", "pc", "seen", "fields", "undone", "rw", "frames"} :
                    e.task[name] = p.task[name] /\ f.task[name] = q.task[name]
            /\ e.task.stage = "done" /\ f.task.stage = "done" /\ e.task.err = "refused" /\ f.task.err = "refused"
        BY <1>1, <3>1 DEF Refused, IsTask
      <3> QED
        BY <3>2, <3>3 DEF Gist
    <2> QED
      BY <2>3, <2>4
  <1>4. CASE p.task.stage = "credit"
    <2>1. e = Credit(p) /\ f = Credit(q)
      BY <1>1, <1>4 DEF Step
    <2>2. p.task.msg.from \in Addresses /\ q.task.msg.from \in Addresses /\ IsSomeStore(p.store) /\ IsSomeStore(q.store)
      BY ProgramFacts DEF StepReady, Sound
    <2>3. PICK pool : Credited(p, e, pool)
      BY <1>1, <2>1, <2>2, CreditShape
    <2>4. PICK more : Credited(q, f, more)
      BY <1>1, <2>1, <2>2, CreditShape
    <2>5. /\ \A name \in {"tx", "msg", "err", "pc", "seen", "fields", "undone", "rw", "frames"} :
                e.task[name] = p.task[name] /\ f.task[name] = q.task[name]
          /\ e.task.stage = "done" /\ f.task.stage = "done"
      BY <1>1, <2>3, <2>4 DEF Credited, IsTask
    <2>6. e.store.slots = p.store.slots /\ f.store.slots = q.store.slots
      BY <2>3, <2>4 DEF Credited
    <2> QED
      BY <2>5, <2>6 DEF Gist, Agree
  <1> QED
    BY <1>2, <1>3, <1>4 DEF StepReady, TaskInv, StageInv

\* A full cache that holds what a state holds.
Copy(store) == [shared |-> TRUE, refund |-> 0, accounts |-> store.accounts, slots |-> store.slots]

LEMMA SamePlace ==
    ASSUME NEW ran, NEW next, NEW other, NEW gone, Gist(ran, other), Gist(next, gone), Nearer(ran, next)
    PROVE  Nearer(other, gone)
  <1>1. /\ other.stage = ran.stage /\ other.msg = ran.msg /\ other.pc = ran.pc
        /\ gone.stage = next.stage /\ gone.msg = next.msg /\ gone.pc = next.pc /\ gone.fields = next.fields
    BY DEF Gist
  <1>2. Remaining(other) = Remaining(ran) /\ Remaining(gone) = Remaining(next) /\ (Going(next) => Going(gone))
    BY <1>1 DEF Remaining, Going
  <1> QED
    BY <1>2 DEF Nearer

LEMMA SameGist == \A ran : Gist(ran, ran)
  BY DEF Gist, SameCalls

\* Every step brings an execution nearer to its end, on the database too.
LEMMA StepOn ==
    ASSUME NEW q, StepReady(q), NoBalance(q.task.msg), Going(q.task), q.task.stage # "done", NEW f, f = Step(q)
    PROVE  /\ StepReady(f) /\ Later(q.store, f.store, f.task.rw.writes) /\ Further(q.task, f.task)
           /\ f.task.msg = q.task.msg /\ Nearer(q.task, f.task)
  <1>1. PICK ran, store, c, p, e : /\ ran = q.task /\ store = q.store /\ c = Copy(store)
                                   /\ p = Pair(ran, c) /\ e = Step(p)
    OBVIOUS
  <1>2. /\ IsPair(q) /\ IsSomeStore(store) /\ WellFormed(ran.msg) /\ TaskInv(ran, store.shared) /\ IsTask(ran)
    BY <1>1 DEF StepReady, Sound, TaskInv
  <1>3. IsPair(p) /\ p.task = ran /\ p.store = c
    BY <1>1 DEF Pair, IsPair, IsMap
  <1>4. IsCache(c)
    <2>1. IsMap(c, {"shared", "accounts", "slots", "refund"}) /\ c.shared = TRUE /\ c.refund = 0
      BY <1>1 DEF Copy, IsMap
    <2>2. c.accounts = store.accounts /\ c.slots = store.slots
      BY <1>1 DEF Copy
    <2> QED
      BY <1>2, <2>1, <2>2 DEF IsSomeStore, IsCache
  <1>5. TaskInv(ran, TRUE)
    BY <1>2 DEF TaskInv, FramesInv
  <1>6. StepReady(p)
    <2>1. Backed(ran.frames, c, ran.rw.writes)
      BY <1>4 DEF Backed, IsCache
    <2>2. c.shared = TRUE
      BY <1>4 DEF IsCache
    <2> QED
      BY <1>2, <1>3, <1>4, <1>5, <2>1, <2>2, CacheIsStore DEF StepReady, Sound
  <1>7. Nearer(ran, e.task)
    <2>1. Alike(c, c) /\ Same(c, c, Touched(e.task.rw), e.task.fields)
      BY DEF Alike, Same
    <2>2. Beside(p, p)
      BY <1>2, <1>3, <1>4, <2>1 DEF Beside
    <2> QED
      BY <1>1, <1>2, <1>3, <1>5, <2>1, <2>2, StepAbreast
  <1>8. Gist(e.task, f.task)
    <2>1. Gist(p.task, q.task)
      BY <1>1, <1>3, SameGist
    <2>2. c.accounts = store.accounts /\ c.slots = store.slots
      BY <1>1 DEF Copy
    <2>3. Agree(p.store, q.store, Touched(e.task.rw))
      BY <1>1, <1>3, <2>2 DEF Agree
    <2>4. \A a \in Addresses : CallsNow(p, a) => (Callable(q.store, a) <=> Callable(p.store, a))
      BY <1>1, <1>3, <2>2 DEF Callable, Exist
    <2> QED
      BY <1>1, <1>3, <1>6, <2>1, <2>3, <2>4, StepLevel
  <1>9. Nearer(q.task, f.task)
    BY <1>1, <1>7, <1>8, SameGist, SamePlace
  <1>10. Sound(f) /\ Later(q.store, f.store, f.task.rw.writes) /\ Further(q.task, f.task)
    BY StepLater
  <1>11. f.task.msg = q.task.msg /\ TaskInv(f.task, store.shared)
    <2>1. PICK shared : shared = store.shared
      OBVIOUS
    <2>2. Ready(q, shared)
      BY <1>1, <1>2, <2>1, StoreIsState DEF Ready, IsPair, IsMap
    <2> QED
      BY <2>1, <2>2, StepKeeps
  <1>12. f.store.shared = store.shared
    BY <1>1, <1>10 DEF Later
  <1>13. StepReady(f)
    BY <1>1, <1>2, <1>10, <1>11, <1>12 DEF StepReady
  <1> QED
    BY <1>9, <1>10, <1>11, <1>13

(***************************************************************************)
(* The executions one after the other on the database.                     *)
(***************************************************************************)
\* A state of the database in the course of the block.
Reference(store) ==
    /\ IsSomeStore(store) /\ store.shared = FALSE
    /\ \A a \in Addresses : Callable(store, a) <=> Callable(Database, a)

\* An execution that has begun on the store.
Under(msg, store, s) ==
    /\ StepReady(s) /\ Going(s.task) /\ s.task.msg = msg
    /\ Later(store, s.store, s.task.rw.writes)

LEMMA UnderAtFirst ==
    ASSUME NEW t, NEW msg, WellFormed(msg), NEW store, IsSomeStore(store), NEW s, s = Pair(NewTask(t, msg), store)
    PROVE  Under(msg, store, s)
  <1>1. IsPair(s) /\ s.store = store /\ s.task = NewTask(t, msg)
    BY DEF Pair, IsPair, IsMap
  <1>2. s.task.frames = <<>> /\ s.task.stage = "check" /\ s.task.msg = msg
    BY <1>1 DEF NewTask
  <1>3. Backed(s.task.frames, store, s.task.rw.writes)
    BY <1>2 DEF Backed
  <1>4. TaskInv(s.task, store.shared)
    BY <1>1, NewTaskSound
  <1>5. Later(store, store, s.task.rw.writes)
    BY StoreIsLater
  <1> QED
    BY <1>1, <1>2, <1>3, <1>4, <1>5 DEF Under, StepReady, Sound, Going

LEMMA UnderOn ==
    ASSUME NEW msg, NoBalance(msg), NEW store, NEW s, Under(msg, store, s), NEW e, e = GoOn(s)
    PROVE  Under(msg, store, e) /\ Further(s.task, e.task)
  <1>1. CASE s.task.stage = "done"
    <2>1. e = s
      BY <1>1 DEF GoOn
    <2> QED
      BY <2>1 DEF Further
  <1>2. CASE s.task.stage # "done"
    <2>1. e = Step(s)
      BY <1>2 DEF GoOn
    <2>2. /\ StepReady(e) /\ Later(s.store, e.store, e.task.rw.writes) /\ Further(s.task, e.task)
          /\ e.task.msg = s.task.msg /\ Nearer(s.task, e.task)
      BY <1>2, <2>1, StepOn DEF Under
    <2>3. PICK left, last, keys, more :
            left = s.store /\ last = e.store /\ keys = s.task.rw.writes /\ more = e.task.rw.writes
      OBVIOUS
    <2>4. Later(store, left, keys) /\ Later(left, last, more) /\ keys \subseteq more
      BY <2>2, <2>3 DEF Under, Further
    <2>5. Later(store, last, more)
      BY <2>4, LaterInTurn
    <2> QED
      BY <2>2, <2>3, <2>5 DEF Under, Nearer
  <1> QED
    BY <1>1, <1>2

\* Everything on a chain of steps.
LEMMA ChainUnder ==
    ASSUME NEW t, NEW msg, WellFormed(msg), NoBalance(msg), NEW store, IsSomeStore(store),
           NEW n \in Nat, NEW h, Chain(h, n, Pair(NewTask(t, msg), store)), NEW m \in 0..n
    PROVE  Under(msg, store, h[m]) /\ Further(h[m].task, h[n].task)
  <1> DEFINE under == {i \in 0..n : Under(msg, store, h[i])}
             further == {i \in 0..(n - m) : Further(h[m].task, h[m + i].task)}
  <1>1. 0 \in under
    BY UnderAtFirst DEF Chain
  <1>2. ASSUME NEW i \in 0..(n - 1), Under(msg, store, h[i])
        PROVE  Under(msg, store, h[i + 1]) /\ Further(h[i].task, h[i + 1].task)
    <2>1. h[i + 1] = GoOn(h[i])
      <3>1. i + 1 \in 1..n /\ i + 1 - 1 = i
        OBVIOUS
      <3> QED
        BY <3>1 DEF Chain
    <2>2. PICK s, e : s = h[i] /\ e = h[i + 1]
      OBVIOUS
    <2>3. Under(msg, store, s) /\ e = GoOn(s)
      BY <1>2, <2>1, <2>2
    <2>4. Under(msg, store, e) /\ Further(s.task, e.task)
      BY <2>3, UnderOn
    <2> QED
      BY <2>2, <2>4
  <1>3. \A i \in 0..(n - 1) : i \in under => i + 1 \in under
    BY <1>2
  <1>4. \A i \in 0..n : Under(msg, store, h[i])
    <2> SUFFICES ASSUME NEW k \in 0..n
                 PROVE  k \in under
      OBVIOUS
    <2>1. k \in Nat /\ \A i \in 0..(k - 1) : i \in 0..(n - 1)
      OBVIOUS
    <2>2. \A i \in 0..(k - 1) : i \in under => i + 1 \in under
      BY <1>3, <2>1
    <2> HIDE DEF under
    <2> QED
      BY <1>1, <2>1, <2>2, NumbersUpTo
  <1>5. 0 \in further
    BY DEF Further
  <1>6. \A i \in 0..(n - m - 1) : i \in further => i + 1 \in further
    <2> SUFFICES ASSUME NEW i \in 0..(n - m - 1), i \in further
                 PROVE  i + 1 \in further
      OBVIOUS
    <2>1. m + i \in 0..(n - 1) /\ m + i \in 0..n /\ (m + i) + 1 = m + (i + 1) /\ i + 1 \in 0..(n - m)
      OBVIOUS
    <2>2. Further(h[m + i].task, h[m + (i + 1)].task)
      BY <1>2, <1>4, <2>1
    <2>3. Further(h[m].task, h[m + i].task)
      OBVIOUS
    <2>4. PICK a, b, c : a = h[m].task /\ b = h[m + i].task /\ c = h[m + (i + 1)].task
      OBVIOUS
    <2>5. Further(a, c)
      BY <2>2, <2>3, <2>4 DEF Further
    <2> QED
      BY <2>1, <2>4, <2>5
  <1>7. Further(h[m].task, h[n].task)
    <2>1. n - m \in Nat /\ m + (n - m) = n
      OBVIOUS
    <2>2. n - m \in further
      <3> HIDE DEF further
      <3> QED
        BY <1>5, <1>6, <2>1, NumbersUpTo
    <2> QED
      BY <2>1, <2>2
  <1> QED
    BY <1>4, <1>7

\* What ExecuteTx comes to is no less than what it comes to on the way.
LEMMA LeadsUnder ==
    ASSUME NEW t, NEW msg, WellFormed(msg), NoBalance(msg), NEW store, IsSomeStore(store), NEW s, Leads(t, msg, store, s)
    PROVE  Under(msg, store, s) /\ Further(s.task, ExecuteTx(t, msg, store).task)
  <1>1. PICK n, h : /\ n \in Nat /\ Chain(h, n, Pair(NewTask(t, msg), store)) /\ h[n] = s
                    /\ Remaining(s.task) \in Nat /\ n + Remaining(s.task) <= Len(msg.program) + 4
    BY DEF Leads
  <1>2. Len(msg.program) \in Nat
    BY ProgramFacts
  <1>3. PICK g, m : /\ m = Len(msg.program) + 4 /\ Chain(g, m, Pair(NewTask(t, msg), store))
                    /\ ExecuteTx(t, msg, store) = g[m]
    <2>1. PICK g : /\ Chain(g, Len(msg.program) + 4, Pair(NewTask(t, msg), store))
                   /\ ExecuteTx(t, msg, store) = g[Len(msg.program) + 4]
      BY <1>2, ExecuteTxIsChain, Zenon
    <2> QED
      BY <2>1, Zenon
  <1>4. n \in Nat /\ m \in Nat /\ n <= m
    BY <1>1, <1>2, <1>3
  <1>5. g[n] = h[n]
    <2> DEFINE same == {i \in 0..n : g[i] = h[i]}
    <2>1. 0 \in same
      BY <1>1, <1>3, <1>4 DEF Chain
    <2>2. \A i \in 0..(n - 1) : i \in same => i + 1 \in same
      <3>1. \A i \in 0..(n - 1) : i + 1 \in 1..n /\ i + 1 \in 1..m /\ i + 1 - 1 = i
        BY <1>4
      <3> QED
        BY <1>1, <1>3, <3>1 DEF Chain
    <2> HIDE DEF same
    <2>3. n \in same
      BY <1>4, <2>1, <2>2, NumbersUpTo
    <2> QED
      BY <2>3 DEF same
  <1>6. n \in 0..m
    BY <1>4
  <1>7. Under(msg, store, g[n]) /\ Further(g[n].task, g[m].task)
    BY <1>3, <1>4, <1>6, ChainUnder
  <1>8. g[n] = s
    BY <1>1, <1>5
  <1> QED
    BY <1>3, <1>7, <1>8, Zenon

LEMMA ExecutedUnder ==
    ASSUME NEW t, NEW msg, WellFormed(msg), NoBalance(msg), NEW store, IsSomeStore(store)
    PROVE  Under(msg, store, ExecuteTx(t, msg, store))
  <1>2. Len(msg.program) \in Nat
    BY ProgramFacts
  <1>3. PICK g, m : /\ m = Len(msg.program) + 4 /\ Chain(g, m, Pair(NewTask(t, msg), store))
                    /\ ExecuteTx(t, msg, store) = g[m]
    <2>1. PICK g : /\ Chain(g, Len(msg.program) + 4, Pair(NewTask(t, msg), store))
                   /\ ExecuteTx(t, msg, store) = g[Len(msg.program) + 4]
      BY <1>2, ExecuteTxIsChain, Zenon
    <2> QED
      BY <2>1, Zenon
  <1>4. m \in Nat /\ m \in 0..m
    BY <1>2, <1>3
  <1> QED
    BY <1>3, <1>4, ChainUnder

\* Wherever it is executed alone, on a database that holds what it is predicted to
\* meet, the transaction comes to the same point, and leaves there what it has left
\* on the cache.
ReplaysTo(t, msg, ran, named, common, store, s) ==
    Leads(t, msg, store, s) /\ Gist(ran, s.task) /\ Agree(common, s.store, named)

Replays(t, msg, ran, named, base, common) ==
    \A store : Reference(store) /\ Agree(base, store, named) =>
        \E s : ReplaysTo(t, msg, ran, named, common, store, s)

LEMMA ReplaysAtFirst ==
    ASSUME NEW t, NEW msg, WellFormed(msg), NEW named, NEW base
    PROVE  Replays(t, msg, NewTask(t, msg), named, base, base)
  <1> SUFFICES ASSUME NEW store, Reference(store), Agree(base, store, named)
               PROVE  \E s : ReplaysTo(t, msg, NewTask(t, msg), named, base, store, s)
    BY DEF Replays
  <1>1. PICK s : s = Pair(NewTask(t, msg), store)
    OBVIOUS
  <1>2. s.task = NewTask(t, msg) /\ s.store = store
    BY <1>1 DEF Pair
  <1>3. Leads(t, msg, store, s)
    BY <1>1, LeadsAtFirst
  <1>4. ReplaysTo(t, msg, NewTask(t, msg), named, base, store, s)
    BY <1>2, <1>3, SameGist DEF ReplaysTo
  <1> QED
    BY <1>4

LEMMA ReplaysOther ==
    ASSUME NEW t, NEW msg, NEW ran, NEW named, NEW base, NEW common, Replays(t, msg, ran, named, base, common),
           NEW left, Agree(common, left, named)
    PROVE  Replays(t, msg, ran, named, base, left)
  <1> SUFFICES ASSUME NEW store, Reference(store), Agree(base, store, named)
               PROVE  \E s : ReplaysTo(t, msg, ran, named, left, store, s)
    BY DEF Replays
  <1>1. PICK s : ReplaysTo(t, msg, ran, named, common, store, s)
    BY DEF Replays
  <1>2. ReplaysTo(t, msg, ran, named, left, store, s)
    BY <1>1 DEF ReplaysTo, Agree
  <1> QED
    BY <1>2

\* What it comes to can be taken as what is known of it.
LEMMA ReplayUnder ==
    ASSUME NEW t, NEW msg, WellFormed(msg), NoBalance(msg), NEW store, Reference(store),
           NEW s, Leads(t, msg, store, s)
    PROVE  /\ Under(msg, store, s) /\ Reference(s.store) /\ StepReady(s)
           /\ \A k \in Keys \ s.task.rw.writes : s.store.slots[k] = store.slots[k]
  <1>1. Under(msg, store, s)
    BY LeadsUnder DEF Reference
  <1>2. Later(store, s.store, s.task.rw.writes) /\ StepReady(s)
    BY <1>1 DEF Under
  <1>3. Reference(s.store)
    BY <1>2 DEF Reference, Later
  <1> QED
    BY <1>1, <1>2, <1>3 DEF Later

\* A step of its own, and the same step on the database.
GoesOn(t, msg, store, p, e, s, f) ==
    /\ Leads(t, msg, store, f) /\ SameSlots(e.task.rw, f.task.rw)
    /\ \A k \in Keys \ e.task.rw.writes : e.store.slots[k] = p.store.slots[k] /\ f.store.slots[k] = s.store.slots[k]
    /\ \A a \in Addresses : CallsNow(p, a) /\ Callable(Database, a) => <<a, "CODE">> \in Touched(f.task.rw)

LEMMA ReplayStep ==
    ASSUME NEW t, NEW msg, WellFormed(msg), NoBalance(msg), NEW store, Reference(store),
           NEW ran, NEW named, NEW common, NEW s, ReplaysTo(t, msg, ran, named, common, store, s),
           NEW p, p = Pair(ran, common), StepReady(p), ran.stage # "done",
           NEW e, e = Step(p), NEW f, f = Step(s)
    PROVE  GoesOn(t, msg, store, p, e, s, f)
  <1>1. p.task = ran /\ p.store = common
    BY DEF Pair
  <1>2. Leads(t, msg, store, s) /\ Gist(ran, s.task) /\ s.task.stage # "done"
    BY DEF ReplaysTo, Gist
  <1>3. Under(msg, store, s) /\ Reference(s.store) /\ StepReady(s)
    BY <1>2, ReplayUnder
  <1>4. s.task.msg = msg /\ Going(s.task)
    BY <1>3 DEF Under
  <1>5. Nearer(s.task, f.task) /\ Later(s.store, f.store, f.task.rw.writes)
    BY <1>2, <1>3, <1>4, StepOn
  <1>6. Leads(t, msg, store, f)
    <2>1. Len(msg.program) \in Nat
      BY ProgramFacts
    <2> QED
      BY <1>2, <1>5, <2>1, LeadsOn
  <1>7. SameSlots(e.task.rw, f.task.rw)
    BY <1>1, <1>2, <1>3, StepRecordsAlike
  <1>8. Later(common, e.store, e.task.rw.writes)
    BY <1>1, StepLater
  <1>9. \A k \in Keys \ e.task.rw.writes : e.store.slots[k] = common.slots[k] /\ f.store.slots[k] = s.store.slots[k]
    BY <1>5, <1>7, <1>8 DEF Later, SameSlots
  <1>10. ASSUME NEW a \in Addresses, CallsNow(p, a), Callable(Database, a)
         PROVE  <<a, "CODE">> \in Touched(f.task.rw)
    <2>1. CallsNow(s, a)
      BY <1>1, <1>2, <1>10, CallsTogether
    <2>2. Callable(s.store, a)
      BY <1>3, <1>10 DEF Reference
    <2>3. <<a, "CODE">> \in f.task.rw.reads
      BY <1>3, <2>1, <2>2, StepCalls
    <2> QED
      BY <2>3 DEF Touched
  <1> QED
    BY <1>1, <1>6, <1>7, <1>9, <1>10 DEF GoesOn

\* Its own step, that meets nothing but what was predicted, and no callee that is
\* not in the cache, and undoes nothing.
LEMMA ReplaysStep ==
    ASSUME NEW t, NEW msg, WellFormed(msg), NoBalance(msg), NEW ran, NEW named, NEW base, NEW common,
           Replays(t, msg, ran, named, base, common),
           NEW p, p = Pair(ran, common), StepReady(p), ran.msg = msg, ran.stage # "done", NEW e, e = Step(p),
           Touched(e.task.rw) \cap Keys \subseteq named, ~e.task.undone,
           \A a \in Addresses : CallsNow(p, a) => (Callable(Database, a) <=> Callable(common, a))
    PROVE  Replays(t, msg, e.task, named, base, e.store)
  <1> SUFFICES ASSUME NEW store, Reference(store), Agree(base, store, named)
               PROVE  \E s : ReplaysTo(t, msg, e.task, named, e.store, store, s)
    BY DEF Replays
  <1>1. PICK s : ReplaysTo(t, msg, ran, named, common, store, s)
    BY DEF Replays
  <1>2. PICK f : f = Step(s)
    OBVIOUS
  <1>0. GoesOn(t, msg, store, p, e, s, f)
    BY <1>1, <1>2, ReplayStep, Zenon
  <1>4. p.task = ran /\ p.store = common
    BY DEF Pair
  <1>3. /\ Leads(t, msg, store, f) /\ SameSlots(e.task.rw, f.task.rw)
        /\ \A k \in Keys \ e.task.rw.writes : e.store.slots[k] = common.slots[k] /\ f.store.slots[k] = s.store.slots[k]
    BY <1>0, <1>4 DEF GoesOn
  <1>5. Leads(t, msg, store, s) /\ Gist(ran, s.task) /\ Agree(common, s.store, named)
    BY <1>1 DEF ReplaysTo
  <1>6. StepReady(s) /\ Reference(s.store)
    BY <1>5, ReplayUnder
  <1>7. Agree(common, s.store, Touched(e.task.rw))
    BY <1>5 DEF Agree
  <1>8. \A a \in Addresses : CallsNow(p, a) => (Callable(s.store, a) <=> Callable(p.store, a))
    BY <1>4, <1>6 DEF Reference
  <1>9. Gist(e.task, f.task) /\ Agree(e.store, f.store, Touched(e.task.rw))
    BY <1>2, <1>4, <1>5, <1>6, <1>7, <1>8, StepLevel
  <1>10. Agree(e.store, f.store, named)
    <2> SUFFICES ASSUME NEW k \in Keys, k \in named
                 PROVE  f.store.slots[k] = e.store.slots[k]
      BY DEF Agree
    <2>1. CASE k \in Touched(e.task.rw)
      BY <1>9, <2>1 DEF Agree
    <2>2. CASE k \notin Touched(e.task.rw)
      <3>1. k \notin e.task.rw.writes
        BY <2>2 DEF Touched
      <3> QED
        BY <1>3, <1>5, <3>1 DEF Agree
    <2> QED
      BY <2>1, <2>2
  <1>11. ReplaysTo(t, msg, e.task, named, e.store, store, f)
    BY <1>3, <1>9, <1>10 DEF ReplaysTo
  <1> QED
    BY <1>11

\* What it touches and calls next is what it touches and calls in the end.
LEMMA ReplaysTouch ==
    ASSUME NEW t, NEW msg, WellFormed(msg), NoBalance(msg), NEW ran, NEW named, NEW base, NEW common,
           Replays(t, msg, ran, named, base, common), NEW store, Reference(store), Agree(base, store, named),
           NEW p, p = Pair(ran, common), StepReady(p), ran.stage # "done", NEW e, e = Step(p),
           NEW rw, rw = ExecuteTx(t, msg, store).task.rw
    PROVE  /\ e.task.rw.writes \subseteq rw.writes /\ Touched(e.task.rw) \cap Keys \subseteq Touched(rw)
           /\ \A a \in Addresses : CallsNow(p, a) /\ Callable(Database, a) => <<a, "CODE">> \in Touched(rw)
  <1>1. PICK s : ReplaysTo(t, msg, ran, named, common, store, s)
    BY DEF Replays
  <1>2. PICK f : f = Step(s)
    OBVIOUS
  <1>0. GoesOn(t, msg, store, p, e, s, f)
    BY <1>1, <1>2, ReplayStep, Zenon
  <1>3. /\ Leads(t, msg, store, f) /\ SameSlots(e.task.rw, f.task.rw)
        /\ \A a \in Addresses : CallsNow(p, a) /\ Callable(Database, a) => <<a, "CODE">> \in Touched(f.task.rw)
    BY <1>0 DEF GoesOn
  <1>4. IsSomeStore(store)
    BY DEF Reference
  <1>5. Further(f.task, ExecuteTx(t, msg, store).task)
    BY <1>3, <1>4, LeadsUnder
  <1>6. f.task.rw.writes \subseteq rw.writes /\ Touched(f.task.rw) \subseteq Touched(rw)
    BY <1>5 DEF Further
  <1>7. Touched(e.task.rw) \cap Keys \subseteq Touched(f.task.rw)
    BY <1>3 DEF SameSlots, Touched
  <1> QED
    BY <1>3, <1>6, <1>7 DEF SameSlots

\* The end.
LEMMA ReplaysEnd ==
    ASSUME NEW t, NEW msg, WellFormed(msg), NoBalance(msg), NEW ran, NEW named, NEW base, NEW common,
           Replays(t, msg, ran, named, base, common), ran.stage = "done",
           NEW store, Reference(store), Agree(base, store, named), NEW left, left = ExecuteTx(t, msg, store).store
    PROVE  /\ Reference(left) /\ Agree(common, left, named)
           /\ \A k \in Keys \ ran.rw.writes : left.slots[k] = store.slots[k]
  <1>1. PICK s : ReplaysTo(t, msg, ran, named, common, store, s)
    BY DEF Replays
  <1>2. Leads(t, msg, store, s) /\ Gist(ran, s.task) /\ Agree(common, s.store, named) /\ s.task.stage = "done"
    BY <1>1 DEF ReplaysTo, Gist
  <1>3. ExecuteTx(t, msg, store) = s
    BY <1>2, ProgramFacts, LeadsToTheEnd
  <1>4. Reference(s.store) /\ \A k \in Keys \ s.task.rw.writes : s.store.slots[k] = store.slots[k]
    BY <1>2, ReplayUnder
  <1>5. left = s.store /\ s.task.rw.writes = ran.rw.writes
    BY <1>2, <1>3 DEF Gist
  <1> QED
    BY <1>2, <1>4, <1>5

LEMMA DatabaseIsReference == Reference(Database)
  <1>1. PICK accounts, slots, refund : Database = [shared |-> FALSE, accounts |-> accounts,
                                                   slots |-> [k \in Keys |-> slots[k]], refund |-> refund]
    BY FullStateAssumption
  <1>2. /\ IsMap(Database, {"shared", "accounts", "slots", "refund"}) /\ Database.shared = FALSE
        /\ IsMap(Database.slots, Keys)
    BY <1>1 DEF IsMap
  <1>3. /\ Database.refund \in Nat
        /\ Database.accounts \in
            [Addresses -> [held : BOOLEAN, balance : Nat, nonce : Nat, code : BOOLEAN, alive : BOOLEAN]]
        /\ \A a \in Addresses : Database.accounts[a].code => Database.accounts[a].held
    BY FullStateAssumption
  <1>4. IsMap(Database.accounts, Addresses) /\ \A a \in Addresses : IsAccount(Database.accounts[a])
    BY <1>3 DEF IsMap, IsAccount
  <1> QED
    BY <1>2, <1>3, <1>4 DEF Reference, IsSomeStore

\* The transactions listed each once, and the first of them.
Listing(order, n) ==
    /\ n \in Nat /\ DOMAIN order = 1..n /\ Len(order) = n
    /\ \A i \in 1..n : order[i] \in Txs
    /\ \A i, j \in 1..n : order[i] = order[j] => i = j
    /\ \A t \in Txs : \E i \in 1..n : order[i] = t

Upto(order, m) == {order[i] : i \in 1..m}

LEMMA IsListing ==
    ASSUME NEW order \in SetToSeqs(Txs)
    PROVE  Listing(order, Len(order))
  <1>1. IsFiniteSet(Txs)
    BY VerticesAreNumbers
  <1>2. /\ order \in Seq(Txs) /\ Len(order) \in Nat /\ DOMAIN order = 1..Len(order)
        /\ \A i, j \in 1..Len(order) : order[i] = order[j] => i = j
        /\ \A t \in Txs : \E i \in 1..Len(order) : order[i] = t
    BY <1>1, ListsEach
  <1> QED
    BY <1>2 DEF Listing

LEMMA UptoNext ==
    ASSUME NEW order, NEW n, Listing(order, n)
    PROVE  /\ Upto(order, 0) = {} /\ Upto(order, n) = Txs
           /\ \A i \in 1..n : order[i] \notin Upto(order, i - 1) /\ Upto(order, i) = Upto(order, i - 1) \cup {order[i]}
           /\ \A m \in 0..n : Upto(order, m) \subseteq Txs
           /\ \A i \in 1..n : \A m \in 0..n : order[i] \in Upto(order, m) <=> i <= m
  <1>0. n \in Nat
    BY DEF Listing
  <1> USE <1>0
  <1>1. \A i \in 1..n : 1..i = 1..(i - 1) \cup {i} /\ i \notin 1..(i - 1) /\ \A j \in 1..(i - 1) : j \in 1..n
    OBVIOUS
  <1>2. 1..0 = {} /\ \A m \in 0..n : \A i \in 1..m : i \in 1..n
    OBVIOUS
  <1>3. ASSUME NEW i \in 1..n
        PROVE  order[i] \notin Upto(order, i - 1) /\ Upto(order, i) = Upto(order, i - 1) \cup {order[i]}
    <2>1. order[i] \notin Upto(order, i - 1)
      BY <1>1 DEF Upto, Listing
    <2>2. Upto(order, i) = Upto(order, i - 1) \cup {order[i]}
      <3>1. PICK before, now : before = 1..(i - 1) /\ now = 1..i /\ now = before \cup {i}
        BY <1>1
      <3>2. {order[j] : j \in now} = {order[j] : j \in before} \cup {order[i]}
        BY <3>1
      <3> QED
        BY <3>1, <3>2 DEF Upto
    <2> QED
      BY <2>1, <2>2
  <1>4. Upto(order, 0) = {} /\ Upto(order, n) = Txs
    BY <1>2 DEF Upto, Listing
  <1>5. \A m \in 0..n : Upto(order, m) \subseteq Txs
    BY <1>2 DEF Upto, Listing
  <1>6. ASSUME NEW i \in 1..n, NEW m \in 0..n
        PROVE  order[i] \in Upto(order, m) <=> i <= m
    <2>1. i <= m <=> i \in 1..m
      OBVIOUS
    <2> QED
      BY <1>2, <2>1 DEF Upto, Listing
  <1> QED
    BY <1>3, <1>4, <1>5, <1>6

EarlierInBlock == {pair \in Txs \X Txs : pair[1] < pair[2]}

LEMMA BlockOrderIsSorted ==
    BlockOrder \in SetToSeqs(Txs) /\ Sorted(BlockOrder, EarlierInBlock)
  <1> DEFINE InTurn(order) == \A i, j \in DOMAIN order : i < j => order[i] < order[j]
  <1>0. Txs \subseteq Nat /\ IsFiniteSet(Txs)
    BY VerticesAreNumbers
  <1>1. ASSUME NEW order \in SetToSeqs(Txs)
        PROVE  InTurn(order) <=> Sorted(order, EarlierInBlock)
    <2>1. Listing(order, Len(order))
      BY IsListing
    <2> QED
      BY <2>1 DEF Sorted, Listing, EarlierInBlock
  <1>2. PICK listing \in SetToSeqs(Txs) : Sorted(listing, EarlierInBlock)
    <2>1. PICK less : less = EarlierInBlock
      OBVIOUS
    <2>2. \A t, u \in Txs : t # u => <<t, u>> \in less \/ <<u, t>> \in less
      BY <1>0, <2>1 DEF EarlierInBlock
    <2>3. \A t, u, v \in Txs : <<t, u>> \in less /\ <<u, v>> \in less => <<t, v>> \in less
      BY <1>0, <2>1 DEF EarlierInBlock
    <2> QED
      BY <1>0, <2>1, <2>2, <2>3, SortedList
  <1>3. BlockOrder = CHOOSE order \in SetToSeqs(Txs) : InTurn(order)
    BY DEF BlockOrder, InOrder
  <1> HIDE DEF InTurn
  <1>4. BlockOrder \in SetToSeqs(Txs) /\ InTurn(BlockOrder)
    BY <1>1, <1>2, <1>3
  <1> QED
    BY <1>1, <1>4

\* The states between the transactions of a block.
LEMMA ChainReferences ==
    ASSUME NEW order, NEW n, Listing(order, n), NEW messages, \A t \in Txs : WellFormed(messages[t]) /\ NoBalance(messages[t]),
           NEW h, SerialChain(h, n, order, Database, messages)
    PROVE  /\ \A i \in 0..n : Reference(h[i].store)
           /\ \A i \in 1..n : h[i].store = ExecuteTx(order[i], messages[order[i]], h[i - 1].store).store
           /\ h[0].store = Database
  <1>0. n \in Nat
    BY DEF Listing
  <1> USE <1>0
  <1>1. h[0].store = Database
    BY DEF SerialChain, Beginning
  <1>2. ASSUME NEW i \in 1..n
        PROVE  h[i].store = ExecuteTx(order[i], messages[order[i]], h[i - 1].store).store
    <2>1. h[i] = RunNext(h[i - 1], order[i], messages)
      BY DEF SerialChain
    <2> QED
      BY <2>1 DEF RunNext
  <1> DEFINE fine == {i \in 0..n : Reference(h[i].store)}
  <1>3. 0 \in fine
    BY <1>1, DatabaseIsReference
  <1>4. \A i \in 0..(n - 1) : i \in fine => i + 1 \in fine
    <2> SUFFICES ASSUME NEW i \in 0..(n - 1), Reference(h[i].store)
                 PROVE  Reference(h[i + 1].store)
      OBVIOUS
    <2>1. i + 1 \in 1..n /\ i + 1 - 1 = i
      OBVIOUS
    <2>2. PICK t, msg, store, s : t = order[i + 1] /\ msg = messages[t] /\ store = h[i].store
                                  /\ s = ExecuteTx(t, msg, store)
      OBVIOUS
    <2>3. t \in Txs /\ WellFormed(msg) /\ NoBalance(msg)
      BY <2>1, <2>2 DEF Listing
    <2>4. Under(msg, store, s)
      BY <2>2, <2>3, ExecutedUnder DEF Reference
    <2>5. Reference(s.store)
      BY <2>2, <2>4 DEF Under, Later, Reference
    <2>6. h[i + 1].store = s.store
      BY <1>2, <2>1, <2>2
    <2> QED
      BY <2>5, <2>6
  <1>5. \A i \in 0..n : i \in fine
    <2> HIDE DEF fine
    <2> QED
      BY <1>3, <1>4, NumbersUpTo
  <1> QED
    BY <1>1, <1>2, <1>5

(***************************************************************************)
(* TrueRWSets is the block on the database, one transaction after the      *)
(* other.                                                                  *)
(***************************************************************************)
Quiet == \A t \in Txs : NoBalance(block[t])

\* Those that are done have done what they do in the chain, and the one whose turn
\* it is has come to a point of that.
TruthAlong(h, order, n) ==
    \A j \in 1..n :
        LET t == order[j]
        IN  /\ truth[t].stage = "done" => truth[t] = ExecuteTx(t, block[t], h[j - 1].store).task
            /\ phase = "record" /\ Turn(truth, t) =>
                Leads(t, block[t], h[j - 1].store, Pair(truth[t], database))

TruthInvariant ==
    /\ phase = "predict" => \A t \in Txs : truth[t] = NewTask(t, block[t])
    /\ \A t, u \in Txs : u < t /\ truth[u].stage # "done" => truth[t] = NewTask(t, block[t])
    /\ phase \in {"execute", "done"} => Done(truth)
    /\ phase \in {"record", "execute", "done"} /\ Quiet =>
        \A h : SerialChain(h, Len(BlockOrder), BlockOrder, Database, block) =>
            TruthAlong(h, BlockOrder, Len(BlockOrder))

LEMMA BlockListing ==
    /\ Listing(BlockOrder, Len(BlockOrder))
    /\ \A i, j \in 1..Len(BlockOrder) : i < j => BlockOrder[i] < BlockOrder[j]
  BY BlockOrderIsSorted, IsListing DEF Sorted, EarlierInBlock

LEMMA EndPredictionsTruth ==
    ASSUME BlockInv, SupplyInvariant, TruthInvariant, EndPredictions
    PROVE  TruthInvariant'
  <1>1. /\ phase = "predict" /\ phase' = "record" /\ Done(forecast)
        /\ UNCHANGED <<predictions, block, method, forecast, truth, database, plan, round, full, task>>
    BY DEF EndPredictions
  <1>2. database = Database /\ \A t \in Txs : truth[t] = NewTask(t, block[t])
    BY <1>1 DEF SupplyInvariant, TruthInvariant
  <1>3. PICK order, n : order = BlockOrder /\ n = Len(BlockOrder)
    OBVIOUS
  <1>4. /\ Listing(order, n) /\ \A i, j \in 1..n : i < j => order[i] < order[j]
    BY <1>3, BlockListing
  <1>5. ASSUME NEW h, SerialChain(h, n, order, Database, block), NEW j \in 1..n, NEW t, t = order[j]
        PROVE  /\ truth[t].stage # "done"
               /\ Turn(truth, t) => Leads(t, block[t], h[j - 1].store, Pair(truth[t], database))
    <2>1. t \in Txs /\ n \in Nat
      BY <1>4, <1>5 DEF Listing
    <2>2. truth[t] = NewTask(t, block[t]) /\ \A u \in Txs : truth[u].stage # "done"
      BY <1>2, <2>1, NewTaskSound
    <2>3. ASSUME Turn(truth, t)
          PROVE  j = 1
      <3>0. 1 \in 1..n /\ order[1] \in Txs
        BY <1>4, <2>1 DEF Listing
      <3>4. \A v \in Txs : v \in Int
        BY VerticesAreNumbers
      <3>1. 1 \in 1..n /\ order[1] \in Txs /\ order[1] \in Int /\ t \in Int
        BY <2>1, <3>0, <3>4, Zenon
      <3>2. ~(order[1] < t)
        BY <2>2, <2>3, <3>1 DEF Turn
      <3>3. ~(1 < j)
        BY <1>4, <1>5, <3>1, <3>2
      <3> QED
        BY <3>3
    <2>4. h[0].store = Database
      BY <1>5 DEF SerialChain, Beginning
    <2>5. Leads(t, block[t], Database, Pair(NewTask(t, block[t]), Database))
      <3>1. PICK msg, store : msg = block[t] /\ store = Database
        OBVIOUS
      <3>2. WellFormed(msg)
        BY <2>1, <3>1 DEF BlockInv
      <3> QED
        BY <3>1, <3>2, LeadsAtFirst
    <2>6. Turn(truth, t) => h[j - 1].store = Database
      <3>1. j = 1 => j - 1 = 0
        OBVIOUS
      <3> QED
        BY <2>3, <2>4, <3>1
    <2> QED
      BY <1>2, <2>1, <2>2, <2>5, <2>6
  <1>6. \A h : SerialChain(h, n, order, Database, block) => TruthAlong(h, order, n)'
    BY <1>1, <1>5 DEF TruthAlong, Turn
  <1>7. block' = block /\ truth' = truth
    BY <1>1
  <1> QED
    BY <1>1, <1>2, <1>3, <1>6, <1>7 DEF TruthInvariant

\* The step of the one whose turn it is.
LEMMA RecordTruthStep ==
    ASSUME BlockInv, TruthInvariant, Quiet, NEW t \in Txs, RecordTx(t), DOMAIN truth = Txs,
           NEW h, SerialChain(h, Len(BlockOrder), BlockOrder, Database, block),
           NEW j \in 1..Len(BlockOrder), t = BlockOrder[j]
    PROVE  /\ Leads(t, block[t], h[j - 1].store, Pair(truth'[t], database'))
           /\ truth'[t].stage = "done" => /\ truth'[t] = ExecuteTx(t, block[t], h[j - 1].store).task
                                          /\ database' = h[j].store
  <1>1. PICK p, s : p = Pair(truth[t], database) /\ s = Step(p)
    OBVIOUS
  <1>2. phase = "record" /\ Turn(truth, t) /\ truth' = [truth EXCEPT ![t] = s.task] /\ database' = s.store
    BY <1>1 DEF RecordTx, Pair
  <1>3. truth'[t] = s.task /\ p.task = truth[t] /\ p.task.stage # "done"
    BY <1>1, <1>2 DEF Pair, Turn
  <1>4. PICK order, n, msg, store : order = BlockOrder /\ n = Len(BlockOrder) /\ msg = block[t] /\ store = h[j - 1].store
    OBVIOUS
  <1>5. Leads(t, msg, store, p)
    BY <1>1, <1>2, <1>4 DEF TruthInvariant, TruthAlong
  <1>6. WellFormed(msg) /\ NoBalance(msg) /\ Len(msg.program) \in Nat
    BY <1>4, ProgramFacts DEF BlockInv, Quiet
  <1>7. IsSomeStore(store) /\ h[j].store = ExecuteTx(t, msg, store).store
    <2>1. PICK messages : messages = block
      OBVIOUS
    <2>2. Listing(order, n) /\ \A u \in Txs : WellFormed(messages[u]) /\ NoBalance(messages[u])
      BY <1>4, <2>1, BlockListing DEF BlockInv, Quiet
    <2>3. SerialChain(h, n, order, Database, messages) /\ j \in 1..n /\ t = order[j] /\ j - 1 \in 0..n
      BY <1>4, <2>1, <2>2 DEF Listing
    <2>4. /\ \A i \in 0..n : Reference(h[i].store)
          /\ \A i \in 1..n : h[i].store = ExecuteTx(order[i], messages[order[i]], h[i - 1].store).store
      BY <2>2, <2>3, ChainReferences
    <2> QED
      BY <1>4, <2>1, <2>3, <2>4 DEF Reference
  <1>8. Under(msg, store, p)
    BY <1>5, <1>6, <1>7, LeadsUnder
  <1>9. StepReady(s) /\ Nearer(p.task, s.task)
    BY <1>1, <1>3, <1>6, <1>8, StepOn DEF Under
  <1>10. Leads(t, msg, store, s)
    BY <1>1, <1>3, <1>5, <1>6, <1>9, LeadsOn
  <1>11. s = Pair(s.task, s.store)
    BY <1>9 DEF StepReady, Sound, IsPair, IsMap, Pair
  <1>12. ASSUME s.task.stage = "done"
         PROVE  ExecuteTx(t, msg, store) = s
    BY <1>6, <1>10, <1>12, LeadsToTheEnd
  <1> QED
    BY <1>2, <1>3, <1>4, <1>7, <1>10, <1>11, <1>12

LEMMA RecordTruth ==
    ASSUME BlockInv, FullStateInvariant, TruthInvariant, NEW t \in Txs, RecordTx(t)
    PROVE  TruthInvariant'
  <1>1. /\ phase = "record" /\ phase' = phase /\ block' = block /\ Turn(truth, t) /\ DOMAIN truth = Txs
        /\ \E s : truth' = [truth EXCEPT ![t] = s.task]
    BY DEF RecordTx, FullStateInvariant
  <1>2. (\A u \in Txs : u # t => truth'[u] = truth[u]) /\ truth[t].stage # "done"
    BY <1>1 DEF Turn
  <1>3. \A u \in Txs : u < t => truth[u].stage = "done"
    BY <1>1 DEF Turn
  <1>4. \A u, v \in Txs : v < u /\ truth[v].stage # "done" => truth[u] = NewTask(u, block[u])
    BY DEF TruthInvariant
  <1>5. ASSUME NEW u \in Txs, NEW v \in Txs, v < u, truth'[v].stage # "done"
        PROVE  truth'[u] = NewTask(u, block'[u])
    <2>1. truth[v].stage # "done"
      BY <1>2, <1>5
    <2>2. u # t
      BY <1>3, <1>5, <2>1
    <2> QED
      BY <1>1, <1>2, <1>4, <1>5, <2>1, <2>2
  <1>6. PICK order, n : order = BlockOrder /\ n = Len(BlockOrder)
    OBVIOUS
  <1>7. Listing(order, n) /\ \A i, j \in 1..n : i < j => order[i] < order[j]
    BY <1>6, BlockListing
  <1>8. ASSUME Quiet, NEW h, SerialChain(h, n, order, Database, block), NEW i \in 1..n, NEW u, u = order[i]
        PROVE  /\ truth'[u].stage = "done" => truth'[u] = ExecuteTx(u, block[u], h[i - 1].store).task
               /\ Turn(truth', u) => Leads(u, block[u], h[i - 1].store, Pair(truth'[u], database'))
    <2>0. u \in Txs /\ n \in Nat
      BY <1>7, <1>8 DEF Listing
    <2>1. u \in Txs /\ n \in Nat /\ t \in Int /\ u \in Int
      BY <2>0, VerticesAreNumbers
    <2>2. TruthAlong(h, order, n)
      BY <1>1, <1>6, <1>8 DEF TruthInvariant
    <2>3. PICK j \in 1..n : order[j] = t
      BY <1>7 DEF Listing
    <2>4. /\ Leads(t, block[t], h[j - 1].store, Pair(truth'[t], database'))
          /\ truth'[t].stage = "done" => /\ truth'[t] = ExecuteTx(t, block[t], h[j - 1].store).task
                                         /\ database' = h[j].store
      BY <1>1, <1>6, <1>8, <2>3, RecordTruthStep
    <2>5. CASE u = t
      <3>1. i = j
        BY <1>7, <1>8, <2>3, <2>5 DEF Listing
      <3> QED
        BY <2>4, <2>5, <3>1
    <2>6. CASE u # t
      <3>1. truth'[u] = truth[u]
        BY <1>2, <2>1, <2>6
      <3>2. truth'[u].stage = "done" => truth'[u] = ExecuteTx(u, block[u], h[i - 1].store).task
        BY <1>8, <2>2, <3>1 DEF TruthAlong
      <3>3. ASSUME Turn(truth', u)
            PROVE  Leads(u, block[u], h[i - 1].store, Pair(truth'[u], database'))
        <4>1. truth[u].stage # "done" /\ \A v \in Txs : v < u => truth'[v].stage = "done"
          BY <3>1, <3>3 DEF Turn
        <4>2. t < u
          BY <1>3, <2>1, <2>6, <4>1
        <4>3. truth'[t].stage = "done" /\ truth[u] = NewTask(u, block[u])
          BY <1>2, <1>4, <2>1, <4>1, <4>2
        <4>4. j < i
          <5>1. ~(i < j) /\ i # j
            BY <1>7, <1>8, <2>1, <2>3, <2>6, <4>2
          <5> QED
            BY <2>1, <5>1
        <4>5. i = j + 1
          <5> SUFFICES ASSUME j + 1 < i
                       PROVE  FALSE
            BY <2>1, <4>4
          <5>1. j + 1 \in 1..n
            BY <2>1
          <5>2. PICK v : v = order[j + 1]
            OBVIOUS
          <5>3. v \in Txs /\ t < v /\ v < u
            BY <1>7, <1>8, <2>1, <2>3, <5>1, <5>2 DEF Listing
          <5>6. v # t
            BY <2>1, <5>3
          <5>7. truth'[v].stage = "done" /\ truth'[v] = truth[v]
            BY <1>2, <4>1, <5>3, <5>6
          <5>8. truth[v] = NewTask(v, block[v])
            BY <1>2, <1>4, <5>3
          <5>4. truth'[v].stage = "done" /\ truth'[v] = truth[v] /\ truth[v] = NewTask(v, block[v])
            BY <5>7, <5>8
          <5>5. truth[v].stage = "check"
            BY <5>4, NewTaskSound
          <5> QED
            BY <5>4, <5>5
        <4>6. database' = h[i - 1].store
          BY <2>1, <2>4, <4>3, <4>5
        <4>7. PICK msg, store : msg = block[u] /\ store = h[i - 1].store
          OBVIOUS
        <4>8. WellFormed(msg)
          BY <2>1, <4>7 DEF BlockInv
        <4>9. Leads(u, msg, store, Pair(NewTask(u, msg), store))
          BY <4>8, LeadsAtFirst
        <4> QED
          BY <3>1, <4>3, <4>6, <4>7, <4>9
      <3> QED
        BY <3>2, <3>3
    <2> QED
      BY <2>5, <2>6
  <1>9. Quiet => \A h : SerialChain(h, n, order, Database, block) => TruthAlong(h, order, n)'
    BY <1>1, <1>8 DEF TruthAlong, Turn
  <1>10. Quiet' = Quiet
    BY <1>1 DEF Quiet
  <1> QED
    BY <1>1, <1>5, <1>6, <1>9, <1>10 DEF TruthInvariant

LEMMA InitTruth == Init => TruthInvariant
  <1> SUFFICES ASSUME Init
               PROVE  TruthInvariant
    OBVIOUS
  <1>1. phase = "predict" /\ \A t \in Txs : truth[t] = NewTask(t, block[t])
    BY DEF Init
  <1> QED
    BY <1>1 DEF TruthInvariant

\* Where no execution of TrueRWSets goes on.
LEMMA TruthStays ==
    ASSUME TruthInvariant, UNCHANGED <<block, truth>>, phase' = "predict" => phase = "predict",
           phase' \in {"execute", "done"} => Done(truth),
           phase' \in {"record", "execute", "done"} => phase \in {"record", "execute", "done"},
           phase' = "record" => phase = "record" /\ database' = database
    PROVE  TruthInvariant'
  <1>1. PICK order, n : order = BlockOrder /\ n = Len(BlockOrder)
    OBVIOUS
  <1>2. ASSUME phase' \in {"record", "execute", "done"}, Quiet', NEW h, SerialChain(h, n, order, Database, block')
        PROVE  TruthAlong(h, order, n)'
    <2>1. Quiet /\ SerialChain(h, n, order, Database, block)
      BY <1>2 DEF Quiet
    <2>2. TruthAlong(h, order, n)
      BY <1>1, <1>2, <2>1 DEF TruthInvariant
    <2>3. \A j \in 1..n : truth[order[j]].stage = "done" =>
              truth[order[j]] = ExecuteTx(order[j], block[order[j]], h[j - 1].store).task
      BY <2>2 DEF TruthAlong
    <2>4. \A j \in 1..n : phase' = "record" /\ Turn(truth, order[j]) =>
              Leads(order[j], block[order[j]], h[j - 1].store, Pair(truth[order[j]], database'))
      BY <2>2 DEF TruthAlong
    <2> QED
      BY <2>3, <2>4 DEF TruthAlong, Turn
  <1>3. \A t, u \in Txs : u < t /\ truth'[u].stage # "done" => truth'[t] = NewTask(t, block'[t])
    BY DEF TruthInvariant
  <1>4. phase' = "predict" => \A t \in Txs : truth'[t] = NewTask(t, block'[t])
    BY DEF TruthInvariant
  <1>5. phase' \in {"execute", "done"} => Done(truth')
    BY DEF Done
  <1> QED
    BY <1>1, <1>2, <1>3, <1>4, <1>5 DEF TruthInvariant

LEMMA NextTruth ==
    ASSUME BlockInv, FullStateInvariant, SupplyInvariant, TruthInvariant, [Next]_vars
    PROVE  TruthInvariant'
  <1>1. CASE \E t \in Txs : RecordTx(t)
    BY <1>1, RecordTruth
  <1>2. CASE EndPredictions
    BY <1>2, EndPredictionsTruth
  <1>3. ASSUME UNCHANGED <<block, truth>>, phase' = "predict" => phase = "predict",
               phase' \in {"execute", "done"} => Done(truth),
               phase' \in {"record", "execute", "done"} => phase \in {"record", "execute", "done"},
               phase' = "record" => phase = "record" /\ database' = database
        PROVE  TruthInvariant'
    BY <1>3, TruthStays
  <1>4. phase \in {"execute", "done"} => Done(truth)
    BY DEF TruthInvariant
  <1>5. CASE \E t \in Txs : PredictTx(t) \/ StepTx(t)
    BY <1>3, <1>4, <1>5 DEF PredictTx, StepTx
  <1>6. CASE Panic \/ Prefetch
    BY <1>3, <1>6 DEF Panic, Prefetch
  <1>7. CASE EndRound
    BY <1>3, <1>4, <1>7 DEF EndRound
  <1>8. CASE UNCHANGED vars
    BY <1>3, <1>4, <1>8 DEF vars
  <1> QED
    BY <1>1, <1>2, <1>5, <1>6, <1>7, <1>8 DEF Next, Stopped

\* The true RW sets are those of the block executed on the database, one transaction
\* after the other: each execution of TrueRWSets comes to what it comes to there.
THEOREM TruthIsInvariant == Spec => []TruthInvariant
  <1>1. BlockInv /\ FullStateInvariant /\ SupplyInvariant /\ TruthInvariant /\ [Next]_vars => TruthInvariant'
    BY NextTruth
  <1> QED
    BY <1>1, InitTruth, BlockStays, ExecutionsAreSound, SupplyIsInvariant, PTL DEF Spec

(***************************************************************************)
(* Where the rounds are the layers of the graph, those that interfere are  *)
(* in rounds in the order of the block.                                    *)
(***************************************************************************)
InOrderOfBlock(p) ==
    \A i, j \in DOMAIN p : \A t \in InRound(p, i), u \in InRound(p, j) : Interfere(t, u) /\ t < u => i < j

LayersInvariant == phase \in {"execute", "done"} /\ method = "DegreeZero" => InOrderOfBlock(plan)

LEMMA NextLayers ==
    ASSUME RoundsInvariant, LayersInvariant, [Next]_vars
    PROVE  LayersInvariant'
  <1>1. CASE Prefetch
    <2>1. /\ phase = "record" /\ plan' \in Plans(method) /\ Vertices = Txs /\ UNCHANGED <<predictions, method>>
      BY <1>1 DEF Prefetch
    <2>2. PICK p : p = plan'
      OBVIOUS
    <2>3. method \in Methods /\ p \in Plans(method)
      BY <2>1, <2>2 DEF RoundsInvariant
    <2>4. GoodPlan(p, DOMAIN p, method)
      BY <2>3, PlansAreGood
    <2>5. method = "DegreeZero" => \A i, j \in DOMAIN p : \A t, u \in Txs :
              {t} \in p[i] /\ {u} \in p[j] /\ Interfere(t, u) /\ t < u => i < j
      BY <2>1, <2>4 DEF GoodPlan
    <2>6. method = "DegreeZero" => InOrderOfBlock(p)
      BY <2>5 DEF InOrderOfBlock, InRound
    <2>7. \A t, u : Interfere(t, u)' = Interfere(t, u)
      BY <2>1 DEF Interfere
    <2> QED
      BY <2>1, <2>2, <2>6, <2>7 DEF LayersInvariant, InOrderOfBlock
  <1>2. ASSUME UNCHANGED <<predictions, method, plan>>, phase' \in {"execute", "done"} => phase \in {"execute", "done"}
        PROVE  LayersInvariant'
    <2>1. \A t, u : Interfere(t, u)' = Interfere(t, u)
      BY <1>2 DEF Interfere
    <2> QED
      BY <1>2, <2>1 DEF LayersInvariant, InOrderOfBlock
  <1>3. ASSUME phase' \notin {"execute", "done"}
        PROVE  LayersInvariant'
    BY <1>3 DEF LayersInvariant
  <1>4. CASE \E t \in Txs : PredictTx(t) \/ RecordTx(t)
    BY <1>3, <1>4 DEF PredictTx, RecordTx
  <1>5. CASE \E t \in Txs : StepTx(t)
    BY <1>2, <1>5 DEF StepTx
  <1>6. CASE EndPredictions \/ Panic
    BY <1>3, <1>6 DEF EndPredictions, Panic
  <1>7. CASE EndRound
    BY <1>2, <1>7 DEF EndRound
  <1>8. CASE UNCHANGED vars
    BY <1>2, <1>8 DEF vars
  <1> QED
    BY <1>1, <1>4, <1>5, <1>6, <1>7, <1>8 DEF Next, Stopped

\* What the tracer has seen stays.
LEMMA StepTraces ==
    ASSUME NEW s, StepReady(s), s.task.stage # "done", NEW e, e = Step(s)
    PROVE  s.task.traced.reads \subseteq e.task.traced.reads
  <1>1. /\ IsPair(s) /\ IsSomeStore(s.store) /\ IsTask(s.task) /\ s.task.msg.from \in Addresses
        /\ s.task.stage \in {"check", "setNonce", "run", "credit"}
    BY ProgramFacts DEF StepReady, Sound, TaskInv, StageInv
  <1>2. CASE s.task.stage = "check"
    <2>1. e = Check(s)
      BY <1>2 DEF Step
    <2>2. (\E loaded : Admitted(s, e, loaded)) \/ Refused(s, e)
      BY <1>1, <2>1, CheckShape
    <2>3. e.task.traced = s.task.traced
      BY <1>1, <2>2 DEF IsTask, Admitted, Refused
    <2> QED
      BY <2>3
  <1>3. CASE s.task.stage = "credit"
    <2>1. e = Credit(s)
      BY <1>3 DEF Step
    <2>2. PICK pool : Credited(s, e, pool)
      BY <1>1, <2>1, CreditShape
    <2>3. e.task.traced = s.task.traced
      BY <1>1, <2>2 DEF IsTask, Credited
    <2> QED
      BY <2>3
  <1>4. CASE s.task.stage \in {"setNonce", "run"}
    <2>1. PICK c : Begins(s, c)
      BY <1>4, StepBegins
    <2>2. RunReady(c) /\ e = Run(c) /\ c.task.traced = s.task.traced
      BY <2>1 DEF Begins
    <2>3. IsPair(c) /\ IsTask(c.task)
      BY <2>2 DEF RunReady, Sound
    <2>4. PICK i, named : i = Instruction(c.task) /\ named = Traced(i, Self(c.task))
      OBVIOUS
    <2>5. CASE RanOn(c, i)
      <3>1. e.task.traced = Add(c.task.traced, named)
        BY <2>2, <2>4, <2>5, RunLater
      <3> QED
        BY <2>2, <3>1 DEF Add
    <2>6. CASE c.task.pc > Len(c.task.msg.program)
      <3>1. Ends(c, e)
        BY <2>2, <2>3, <2>6, RunShape
      <3>2. e.task.traced = c.task.traced
        BY <2>3, <3>1 DEF Ends, IsTask
      <3> QED
        BY <2>2, <3>2
    <2>7. CASE ~(c.task.pc > Len(c.task.msg.program)) /\ ~RanOn(c, i)
      <3>1. RunsOut(c, e, i)
        BY <2>2, <2>3, <2>4, <2>7, RunShape
      <3>2. e.task.traced = Add(c.task.traced, named)
        BY <2>3, <2>4, <3>1 DEF RunsOut, RunsOutWith, IsTask
      <3> QED
        BY <2>2, <3>2 DEF Add
    <2> QED
      BY <2>5, <2>6, <2>7
  <1> QED
    BY <1>1, <1>2, <1>3, <1>4

(***************************************************************************)
(* A round on the cache, and the block on the database.                    *)
(***************************************************************************)
Foreseen(t) == Touched(predictions[t])
Writers(k) == {u \in Txs : k \in predictions[u].writes}

LEMMA WhatInterferes ==
    ASSUME NEW t \in Txs, NEW u \in Txs, NEW k, k \in predictions[t].writes, k \in Foreseen(u)
    PROVE  Interfere(t, u) /\ Interfere(u, t) /\ k \in Foreseen(t)
  BY DEF Interfere, Foreseen, Touched

\* The block in an order, on the database.
OnDatabase(h, order, n) == Listing(order, n) /\ SerialChain(h, n, order, Database, block)

LEMMA OnDatabaseIs ==
    ASSUME BlockInv, Quiet, NEW h, NEW order, NEW n, OnDatabase(h, order, n)
    PROVE  /\ \A i \in 0..n : Reference(h[i].store)
           /\ \A i \in 1..n : h[i].store = ExecuteTx(order[i], block[order[i]], h[i - 1].store).store
           /\ h[0].store = Database
  <1>1. PICK messages : messages = block
    OBVIOUS
  <1>2. Listing(order, n) /\ SerialChain(h, n, order, Database, messages)
    BY <1>1 DEF OnDatabase
  <1>3. \A t \in Txs : WellFormed(messages[t]) /\ NoBalance(messages[t])
    BY <1>1 DEF BlockInv, Quiet
  <1>4. /\ \A i \in 0..n : Reference(h[i].store)
        /\ \A i \in 1..n : h[i].store = ExecuteTx(order[i], messages[order[i]], h[i - 1].store).store
        /\ h[0].store = Database
    BY <1>2, <1>3, ChainReferences
  <1> QED
    BY <1>1, <1>4

\* Where these have run, and no others: with independent sets, all of them and only
\* they; with layers, of those that are to write the key.
Point(S, order, m, k) ==
    IF method = "DegreeZero" THEN Upto(order, m) \cap Writers(k) = S \cap Writers(k) ELSE Upto(order, m) = S

\* A cache after the transactions of S holds what the database holds there.
Settled(S, base, h, order, n) ==
    \A k \in Keys \cap ToFetch : \A m \in 0..n : Point(S, order, m, k) => base.slots[k] = h[m].store.slots[k]

\* The transactions of a round that began with this cache.
Together(now, base) ==
    /\ \A t \in now : t \in Txs /\ Replays(t, block[t], task[t], Foreseen(t), base, full)
    /\ \A t \in now : task[t].rw.writes \subseteq predictions[t].writes
    /\ \A t, u \in now : t # u => ~Interfere(t, u)
    /\ \A k \in Keys : (\A t \in now : k \notin predictions[t].writes) => full.slots[k] = base.slots[k]

LEMMA TogetherEnds ==
    ASSUME BlockInv, Quiet, NEW now, NEW base, Together(now, base), NEW t \in now, task[t].stage = "done",
           NEW store, Reference(store), Agree(base, store, Foreseen(t)), NEW left, left = ExecuteTx(t, block[t], store).store
    PROVE  /\ \A k \in Keys \cap Foreseen(t) : left.slots[k] = full.slots[k]
           /\ \A k \in Keys \ predictions[t].writes : left.slots[k] = store.slots[k]
  <1>1. PICK msg, ran, named, common : msg = block[t] /\ ran = task[t] /\ named = Foreseen(t) /\ common = full
    OBVIOUS
  <1>2. /\ WellFormed(msg) /\ NoBalance(msg) /\ Replays(t, msg, ran, named, base, common) /\ ran.stage = "done"
        /\ Agree(base, store, named) /\ left = ExecuteTx(t, msg, store).store
    BY <1>1 DEF BlockInv, Quiet, Together
  <1>3. Agree(common, left, named) /\ \A k \in Keys \ ran.rw.writes : left.slots[k] = store.slots[k]
    BY <1>2, ReplaysEnd
  <1> QED
    BY <1>1, <1>3 DEF Agree, Together

\* An independent set that has run after the earlier ones.
LEMMA SetSettles ==
    ASSUME BlockInv, Quiet, method # "DegreeZero", NEW h, NEW order, NEW n, OnDatabase(h, order, n),
           NEW S, NEW now, S \cap now = {}, \A i, j \in 1..n : i < j /\ order[j] \in S => order[i] \in S,
           NEW base, Settled(S, base, h, order, n), Together(now, base), \A t \in now : task[t].stage = "done"
    PROVE  Settled(S \cup now, full, h, order, n)
  <1> DEFINE Over(i, k) == \E t \in now : t \in Upto(order, i) /\ k \in predictions[t].writes
             Holds(i, k) == h[i].store.slots[k] = IF Over(i, k) THEN full.slots[k] ELSE base.slots[k]
             fine == {i \in 0..n : S \subseteq Upto(order, i) /\ Upto(order, i) \subseteq S \cup now =>
                                        \A k \in Keys \cap ToFetch : Holds(i, k)}
  <1>0. n \in Nat /\ Listing(order, n)
    BY DEF OnDatabase, Listing
  <1>1. /\ Upto(order, 0) = {} /\ \A m \in 0..n : Upto(order, m) \subseteq Txs
        /\ \A i \in 1..n : order[i] \notin Upto(order, i - 1) /\ Upto(order, i) = Upto(order, i - 1) \cup {order[i]}
    BY <1>0, UptoNext
  <1>2. /\ \A i \in 0..n : Reference(h[i].store)
        /\ \A i \in 1..n : h[i].store = ExecuteTx(order[i], block[order[i]], h[i - 1].store).store
    BY OnDatabaseIs
  <1>3. ASSUME NEW i \in 0..n, Upto(order, i) = S, NEW k \in Keys \cap ToFetch
        PROVE  Holds(i, k)
    <2>1. ~Over(i, k)
      BY <1>3
    <2>2. base.slots[k] = h[i].store.slots[k]
      BY <1>3 DEF Settled, Point
    <2> QED
      BY <2>1, <2>2
  <1>4. 0 \in fine
    <2>1. 0 \in 0..n /\ (S \subseteq Upto(order, 0) => Upto(order, 0) = S)
      BY <1>0, <1>1
    <2> QED
      BY <1>3, <2>1
  <1>5. \A i \in 0..(n - 1) : i \in fine => i + 1 \in fine
    <2> SUFFICES ASSUME NEW i \in 0..(n - 1), i \in fine, S \subseteq Upto(order, i + 1),
                        Upto(order, i + 1) \subseteq S \cup now, NEW k \in Keys \cap ToFetch
                 PROVE  Holds(i + 1, k)
      BY <1>0
    <2>0. i \in 0..n /\ i + 1 \in 0..n /\ i + 1 \in 1..n /\ i + 1 - 1 = i
      BY <1>0
    <2>1. PICK t : t = order[i + 1]
      OBVIOUS
    <2>2. t \in S \cup now /\ t \notin Upto(order, i) /\ Upto(order, i + 1) = Upto(order, i) \cup {t}
      BY <1>1, <2>0, <2>1
    <2>3. CASE t \in S
      <3>1. \A j \in 1..i : j \in 1..n /\ j < i + 1
        BY <1>0
      <3>2. \A j \in 1..i : order[j] \in S
        BY <2>0, <2>1, <2>3, <3>1
      <3>3. Upto(order, i + 1) = S
        BY <2>2, <2>3, <3>2 DEF Upto
      <3> QED
        BY <1>3, <2>0, <3>3
    <2>4. CASE t \notin S
      <3>1. t \in now /\ S \subseteq Upto(order, i) /\ Upto(order, i) \subseteq S \cup now
        BY <2>2, <2>4
      <3>2. \A l \in Keys \cap ToFetch : Holds(i, l)
        BY <3>1
      <3>3. t \in Txs
        BY <3>1 DEF Together
      <3>4. ASSUME NEW l, l \in Foreseen(t), Over(i, l)
            PROVE  FALSE
        <4>1. PICK u \in now : u \in Upto(order, i) /\ l \in predictions[u].writes
          BY <3>4
        <4>2. u # t /\ u \in Txs
          BY <2>2, <4>1 DEF Together
        <4>3. Interfere(u, t)
          BY <3>3, <3>4, <4>1, <4>2, WhatInterferes
        <4> QED
          BY <3>1, <4>2, <4>3 DEF Together
      <3>5. PICK store, left : store = h[i].store /\ left = h[i + 1].store
        OBVIOUS
      <3>6. Agree(base, store, Foreseen(t))
        <4> SUFFICES ASSUME NEW l \in Keys, l \in Foreseen(t)
                     PROVE  store.slots[l] = base.slots[l]
          BY DEF Agree
        <4>1. l \in ToFetch
          BY <3>3 DEF ToFetch, Foreseen
        <4> QED
          BY <3>2, <3>4, <3>5, <4>1
      <3>7. Reference(store) /\ left = ExecuteTx(t, block[t], store).store
        BY <1>2, <2>0, <2>1, <3>5
      <3>8. /\ \A l \in Keys \cap Foreseen(t) : left.slots[l] = full.slots[l]
            /\ \A l \in Keys \ predictions[t].writes : left.slots[l] = store.slots[l]
        BY <3>1, <3>6, <3>7, TogetherEnds
      <3>9. CASE k \in predictions[t].writes
        <4>1. Over(i + 1, k) /\ k \in Foreseen(t)
          BY <2>2, <3>1, <3>9 DEF Foreseen, Touched
        <4> QED
          BY <3>5, <3>8, <4>1
      <3>10. CASE k \notin predictions[t].writes
        <4>1. Over(i + 1, k) <=> Over(i, k)
          BY <2>2, <3>10
        <4> QED
          BY <3>2, <3>5, <3>8, <3>10, <4>1
      <3> QED
        BY <3>9, <3>10
    <2> QED
      BY <2>3, <2>4
  <1>6. \A i \in 0..n : i \in fine
    <2> HIDE DEF fine
    <2> QED
      BY <1>0, <1>4, <1>5, NumbersUpTo
  <1>7. ASSUME NEW k \in Keys \cap ToFetch, NEW m \in 0..n, Upto(order, m) = S \cup now
        PROVE  full.slots[k] = h[m].store.slots[k]
    <2>1. Holds(m, k)
      BY <1>6, <1>7
    <2>2. ~Over(m, k) => full.slots[k] = base.slots[k]
      BY <1>7 DEF Together
    <2> QED
      BY <2>1, <2>2
  <1> QED
    BY <1>7 DEF Settled, Point

\* On the database a transaction writes no slot that it was not predicted to.
OnlyForeseen(h, order, n) ==
    \A j \in 1..n : \A k \in Keys \ predictions[order[j]].writes : h[j].store.slots[k] = h[j - 1].store.slots[k]

LEMMA NobodyWrites ==
    ASSUME NEW h, NEW order, NEW n, Listing(order, n), OnlyForeseen(h, order, n), NEW k \in Keys,
           NEW i \in 0..n, NEW m \in 0..n, i <= m, Upto(order, i) \cap Writers(k) = Upto(order, m) \cap Writers(k)
    PROVE  h[m].store.slots[k] = h[i].store.slots[k]
  <1> DEFINE same == {j \in 0..n : i <= j /\ j <= m => h[j].store.slots[k] = h[i].store.slots[k]}
  <1>0. n \in Nat
    BY DEF Listing
  <1>1. \A l \in 1..n : \A j \in 0..n : order[l] \in Upto(order, j) <=> l <= j
    BY UptoNext
  <1>2. 0 \in same
    BY <1>0
  <1>3. \A j \in 0..(n - 1) : j \in same => j + 1 \in same
    <2> SUFFICES ASSUME NEW j \in 0..(n - 1), j \in same, i <= j + 1, j + 1 <= m
                 PROVE  h[j + 1].store.slots[k] = h[i].store.slots[k]
      BY <1>0
    <2>0. j + 1 \in 1..n /\ j + 1 - 1 = j
      BY <1>0
    <2>1. CASE i = j + 1
      BY <2>1
    <2>2. CASE i # j + 1
      <3>1. i <= j /\ j <= m /\ ~(j + 1 <= i)
        BY <1>0, <2>2
      <3>2. order[j + 1] \notin Upto(order, i) /\ order[j + 1] \in Upto(order, m) /\ order[j + 1] \in Txs
        BY <1>1, <2>0, <3>1 DEF Listing
      <3>3. k \notin predictions[order[j + 1]].writes
        BY <3>2 DEF Writers
      <3>4. h[j + 1].store.slots[k] = h[j].store.slots[k]
        BY <2>0, <3>3 DEF OnlyForeseen
      <3> QED
        BY <3>1, <3>4
    <2> QED
      BY <2>1, <2>2
  <1>4. \A j \in 0..n : j \in same
    <2> HIDE DEF same
    <2> QED
      BY <1>0, <1>2, <1>3, NumbersUpTo
  <1>5. m \in same /\ i <= m /\ m <= m
    BY <1>0, <1>4
  <1> QED
    BY <1>5

\* A transaction of a layer, between the earlier layers and those to come.
Between(t, S, now) ==
    \A u \in Txs : u # t /\ Interfere(t, u) => u \notin now /\ (u < t => u \in S) /\ (t < u => u \notin S)

InBlockOrder(order, n) == \A i, j \in 1..n : i < j => order[i] < order[j]

\* Where it stands in the block it meets what its layer began with.
LEMMA MeetsInOrder ==
    ASSUME method = "DegreeZero", NEW h, NEW order, NEW n, OnDatabase(h, order, n), InBlockOrder(order, n),
           NEW S, NEW now, NEW base, Settled(S, base, h, order, n), NEW t \in Txs, t \notin S, Between(t, S, now),
           NEW j \in 1..n, t = order[j]
    PROVE  Agree(base, h[j - 1].store, Foreseen(t))
  <1>0. n \in Nat /\ Listing(order, n) /\ Txs \subseteq Nat
    BY VerticesAreNumbers DEF OnDatabase, Listing
  <1>1. \A i \in 1..n : \A m \in 0..n : order[i] \in Upto(order, m) <=> i <= m
    BY <1>0, UptoNext
  <1>2. j - 1 \in 0..n
    BY <1>0
  <1>3. ASSUME NEW k \in Keys, k \in Foreseen(t)
        PROVE  h[j - 1].store.slots[k] = base.slots[k]
    <2>1. k \in ToFetch
      BY <1>3 DEF ToFetch, Foreseen
    <2>2. ASSUME NEW u \in Txs, k \in predictions[u].writes
          PROVE  u \in Upto(order, j - 1) <=> u \in S
      <3>1. PICK i \in 1..n : order[i] = u
        BY <1>0 DEF Listing
      <3>2. u \in Upto(order, j - 1) <=> i < j
        <4>1. i <= j - 1 <=> i < j
          BY <1>0
        <4> QED
          BY <1>1, <1>2, <3>1, <4>1
      <3>3. CASE u = t
        <4>1. i = j
          BY <1>0, <3>1, <3>3 DEF Listing
        <4>2. ~(i < j)
          BY <1>0, <4>1
        <4> QED
          BY <3>2, <3>3, <4>2
      <3>4. CASE u # t
        <4>1. Interfere(t, u)
          BY <1>3, <2>2, WhatInterferes
        <4>2. (u < t => u \in S) /\ (t < u => u \notin S)
          BY <3>4, <4>1 DEF Between
        <4>3. (i < j => u < t) /\ (j < i => t < u) /\ i # j
          BY <3>1, <3>4 DEF InBlockOrder
        <4>4. i < j \/ j < i
          BY <1>0, <4>3
        <4>5. ~(i < j /\ j < i)
          BY <1>0
        <4> QED
          BY <3>2, <4>2, <4>3, <4>4, <4>5
      <3> QED
        BY <3>3, <3>4
    <2>3. Point(S, order, j - 1, k)
      BY <2>2 DEF Point, Writers
    <2> QED
      BY <1>2, <1>3, <2>1, <2>3 DEF Settled
  <1> QED
    BY <1>3 DEF Agree

\* A layer that has run after the earlier ones.
LEMMA LayerSettles ==
    ASSUME BlockInv, Quiet, method = "DegreeZero", NEW h, NEW order, NEW n, OnDatabase(h, order, n),
           InBlockOrder(order, n), OnlyForeseen(h, order, n),
           NEW S, NEW now, S \cap now = {}, \A t \in now : Between(t, S, now),
           NEW base, Settled(S, base, h, order, n), Together(now, base), \A t \in now : task[t].stage = "done"
    PROVE  Settled(S \cup now, full, h, order, n)
  <1>0. n \in Nat /\ Listing(order, n) /\ Txs \subseteq Nat
    BY VerticesAreNumbers DEF OnDatabase, Listing
  <1>1. /\ \A i \in 1..n : order[i] \notin Upto(order, i - 1) /\ Upto(order, i) = Upto(order, i - 1) \cup {order[i]}
        /\ \A i \in 1..n : \A m \in 0..n : order[i] \in Upto(order, m) <=> i <= m
    BY <1>0, UptoNext
  <1>2. /\ \A i \in 0..n : Reference(h[i].store)
        /\ \A i \in 1..n : h[i].store = ExecuteTx(order[i], block[order[i]], h[i - 1].store).store
    BY OnDatabaseIs
  <1> SUFFICES ASSUME NEW k \in Keys \cap ToFetch, NEW m \in 0..n,
                      Upto(order, m) \cap Writers(k) = (S \cup now) \cap Writers(k)
               PROVE  full.slots[k] = h[m].store.slots[k]
    BY DEF Settled, Point
  <1>3. CASE now \cap Writers(k) = {}
    <2>1. \A t \in now : k \notin predictions[t].writes
      BY <1>3 DEF Writers, Together
    <2>2. full.slots[k] = base.slots[k]
      BY <2>1 DEF Together
    <2>3. Point(S, order, m, k)
      BY <1>3 DEF Point
    <2> QED
      BY <2>2, <2>3 DEF Settled
  <1>4. ASSUME NEW t \in now, t \in Writers(k)
        PROVE  full.slots[k] = h[m].store.slots[k]
    <2>1. t \in Txs /\ t \notin S /\ k \in predictions[t].writes /\ k \in Foreseen(t) /\ Between(t, S, now)
      BY <1>4 DEF Writers, Foreseen, Touched
    <2>2. PICK j \in 1..n : order[j] = t
      BY <1>0, <2>1 DEF Listing
    <2>3. j <= m /\ j \in 0..n /\ j - 1 \in 0..n
      BY <1>0, <1>1, <1>4, <2>2
    <2>4. PICK store, left : store = h[j - 1].store /\ left = h[j].store
      OBVIOUS
    <2>5. Agree(base, store, Foreseen(t))
      BY <2>1, <2>2, <2>4, MeetsInOrder
    <2>6. Reference(store) /\ left = ExecuteTx(t, block[t], store).store
      BY <1>2, <2>2, <2>3, <2>4
    <2>7. left.slots[k] = full.slots[k]
      BY <1>4, <2>1, <2>5, <2>6, TogetherEnds
    <2>8. ASSUME NEW u \in Writers(k)
          PROVE  u \in Upto(order, j) <=> u \in Upto(order, m)
      <3>0. u \in Txs /\ k \in predictions[u].writes /\ k \in Foreseen(u)
        BY DEF Writers, Foreseen, Touched
      <3>1. PICK i \in 1..n : order[i] = u
        BY <1>0, <3>0 DEF Listing
      <3>2. (u \in Upto(order, j) <=> i <= j) /\ (u \in Upto(order, m) <=> i <= m)
        BY <1>1, <2>3, <3>1
      <3>3. i <= j => i <= m
        BY <1>0, <2>3
      <3>4. ASSUME u \in Upto(order, m), ~(i <= j)
            PROVE  FALSE
        <4>1. j < i /\ i # j
          BY <1>0, <3>4
        <4>2. t < u /\ u # t
          BY <1>0, <2>2, <3>1, <4>1 DEF InBlockOrder, Listing
        <4>3. Interfere(t, u)
          BY <2>1, <3>0, WhatInterferes
        <4>4. u \notin S /\ u \notin now
          BY <2>1, <3>0, <4>2, <4>3 DEF Between
        <4> QED
          BY <3>4, <4>4
      <3> QED
        BY <3>2, <3>3, <3>4
    <2>9. Upto(order, j) \cap Writers(k) = Upto(order, m) \cap Writers(k)
      BY <2>8
    <2>10. h[m].store.slots[k] = h[j].store.slots[k]
      BY <1>0, <2>3, <2>9, NobodyWrites
    <2> QED
      BY <2>4, <2>7, <2>10
  <1> QED
    BY <1>3, <1>4

\* What TrueRWSets has found is what the transactions do on the database.
LEMMA TruthOnDatabase ==
    ASSUME BlockInv, TruthInvariant, phase \in {"record", "execute", "done"}, Done(truth), Quiet, NoneCountedFalse,
           NEW h, NEW order, NEW n, order = BlockOrder, n = Len(BlockOrder), OnDatabase(h, order, n)
    PROVE  /\ OnlyForeseen(h, order, n)
           /\ \A j \in 1..n : /\ order[j] \in Txs
                              /\ ExecuteTx(order[j], block[order[j]], h[j - 1].store).task = truth[order[j]]
  <1>0. n \in Nat /\ Listing(order, n)
    BY DEF OnDatabase, Listing
  <1>1. /\ \A i \in 0..n : Reference(h[i].store)
        /\ \A i \in 1..n : h[i].store = ExecuteTx(order[i], block[order[i]], h[i - 1].store).store
    BY OnDatabaseIs
  <1>2. SerialChain(h, Len(BlockOrder), BlockOrder, Database, block)
    BY DEF OnDatabase
  <1>3. TruthAlong(h, order, n)
    BY <1>2 DEF TruthInvariant
  <1>4. ASSUME NEW j \in 1..n
        PROVE  order[j] \in Txs /\ ExecuteTx(order[j], block[order[j]], h[j - 1].store).task = truth[order[j]]
    <2>1. order[j] \in Txs
      BY <1>0 DEF Listing
    <2>2. truth[order[j]].stage = "done"
      BY <2>1 DEF Done
    <2> QED
      BY <1>3, <2>1, <2>2 DEF TruthAlong
  <1>5. ASSUME NEW j \in 1..n, NEW k \in Keys, k \notin predictions[order[j]].writes
        PROVE  h[j].store.slots[k] = h[j - 1].store.slots[k]
    <2>1. PICK t, msg, store, s : t = order[j] /\ msg = block[t] /\ store = h[j - 1].store /\ s = ExecuteTx(t, msg, store)
      OBVIOUS
    <2>2. j - 1 \in 0..n
      BY <1>0
    <2>3. t \in Txs /\ WellFormed(msg) /\ NoBalance(msg) /\ IsSomeStore(store)
      BY <1>1, <1>4, <2>1, <2>2 DEF BlockInv, Quiet, Reference
    <2>4. Under(msg, store, s)
      BY <2>1, <2>3, ExecutedUnder
    <2>5. Later(store, s.store, s.task.rw.writes) /\ s.task = truth[t] /\ h[j].store = s.store
      BY <1>1, <1>4, <2>1, <2>4 DEF Under
    <2>6. k \notin s.task.rw.writes
      BY <1>5, <2>1, <2>3, <2>5 DEF NoneCountedFalse, Equal
    <2> QED
      BY <2>1, <2>5, <2>6 DEF Later
  <1> QED
    BY <1>4, <1>5 DEF OnlyForeseen

\* The prefetch copies what the RW sets name, and names no contract that is not
\* in the database.
LEMMA FetchedLike ==
    ASSUME NEW keys
    PROVE  /\ \A k \in Keys : Fetched(keys).slots[k] = IF k \in keys THEN Database.slots[k] ELSE NoValue
           /\ \A a \in Addresses : Callable(Fetched(keys), a) => Callable(Database, a)
           /\ \A a \in Addresses : Callable(Database, a) /\ <<a, "CODE">> \in keys => Callable(Fetched(keys), a)
  <1>1. PICK f : f = Fetched(keys)
    OBVIOUS
  <1>2. \A k \in Keys : f.slots[k] = IF k \in keys THEN Database.slots[k] ELSE NoValue
    BY <1>1 DEF Fetched
  <1>3. \A a \in Addresses : /\ f.accounts[a].held = (\E k \in keys : k[1] = a)
                             /\ f.accounts[a].code = (<<a, "CODE">> \in keys /\ Database.accounts[a].code)
    BY <1>1 DEF Fetched
  <1>4. \A a \in Addresses : Database.accounts[a].code => Database.accounts[a].held
    BY FullStateAssumption
  <1>5. \A a \in Addresses : <<a, "CODE">> \in keys => f.accounts[a].held
    BY <1>3
  <1> QED
    BY <1>1, <1>2, <1>3, <1>4, <1>5 DEF Callable, Exist

LEMMA SettledAtFirst ==
    ASSUME BlockInv, Quiet, NEW h, NEW order, NEW n, OnDatabase(h, order, n),
           method = "DegreeZero" => OnlyForeseen(h, order, n)
    PROVE  Settled({}, Fetched(ToFetch), h, order, n)
  <1>0. n \in Nat /\ Listing(order, n)
    BY DEF OnDatabase, Listing
  <1>1. Upto(order, 0) = {} /\ \A l \in 1..n : \A j \in 0..n : order[l] \in Upto(order, j) <=> l <= j
    BY <1>0, UptoNext
  <1>2. h[0].store = Database
    BY OnDatabaseIs
  <1> SUFFICES ASSUME NEW k \in Keys \cap ToFetch, NEW m \in 0..n, Point({}, order, m, k)
               PROVE  Fetched(ToFetch).slots[k] = h[m].store.slots[k]
    BY DEF Settled
  <1>3. Fetched(ToFetch).slots[k] = h[0].store.slots[k]
    <2>1. PICK keys : keys = ToFetch
      OBVIOUS
    <2>2. Fetched(keys).slots[k] = Database.slots[k]
      BY <2>1, FetchedLike
    <2> QED
      BY <1>2, <2>1, <2>2
  <1>4. CASE method = "DegreeZero"
    <2>1. Upto(order, 0) \cap Writers(k) = Upto(order, m) \cap Writers(k)
      BY <1>1, <1>4 DEF Point
    <2>2. 0 \in 0..n /\ 0 <= m
      BY <1>0
    <2>3. h[m].store.slots[k] = h[0].store.slots[k]
      BY <1>0, <1>4, <2>1, <2>2, NobodyWrites
    <2> QED
      BY <1>3, <2>3
  <1>5. CASE method # "DegreeZero"
    <2>1. Upto(order, m) = {}
      BY <1>5 DEF Point
    <2>2. m = 0
      <3> SUFFICES ASSUME 1 <= m
                   PROVE  FALSE
        BY <1>0
      <3>1. 1 \in 1..n
        BY <1>0
      <3>2. order[1] \in Upto(order, m)
        BY <1>1, <3>1
      <3> QED
        BY <2>1, <3>2
    <2> QED
      BY <1>3, <2>2
  <1> QED
    BY <1>4, <1>5

\* The order in which the drivers' answers are those of the database.
PlanOrder == IF method = "DegreeZero" THEN BlockOrder ELSE RunOrder

LEMMA PlanOrderLists ==
    ASSUME Planned(plan), NEW order, order = PlanOrder, NEW n, n = Len(PlanOrder)
    PROVE  /\ Listing(order, n)
           /\ method = "DegreeZero" => InBlockOrder(order, n)
           /\ method # "DegreeZero" => Sorted(order, RunsBefore(plan))
  <1>1. CASE method = "DegreeZero"
    BY <1>1, BlockListing DEF PlanOrder, InBlockOrder
  <1>2. CASE method # "DegreeZero"
    <2>1. IsFiniteSet(Txs) /\ Txs \subseteq Nat
      BY VerticesAreNumbers
    <2>2. order = RunOrder /\ n = Len(order) /\ RunOrder \in SetToSeqs(Txs) /\ Sorted(RunOrder, RunsBefore(plan))
      BY <1>2, <2>1, RunOrderIsSorted DEF PlanOrder
    <2> QED
      BY <1>2, <2>2, IsListing
  <1> QED
    BY <1>1, <1>2

\* The earlier rounds are the beginning of the order.
LEMMA EarlierFirst ==
    ASSUME NEW p, Planned(p), NEW order, NEW n, Listing(order, n), Sorted(order, RunsBefore(p)),
           NEW i \in 1..n, NEW j \in 1..n, i < j, NEW r \in Nat, order[j] \in Earlier(p, r)
    PROVE  order[i] \in Earlier(p, r)
  <1>1. <<order[i], order[j]>> \in RunsBefore(p)
    BY DEF Sorted, Listing
  <1>2. PICK t, u : t = order[i] /\ u = order[j]
    OBVIOUS
  <1>3. t \in Txs /\ u \in Txs
    BY <1>2 DEF Listing
  <1>4. PICK a \in DOMAIN p, b \in DOMAIN p : {t} \in p[a] /\ {u} \in p[b] /\ (a < b \/ (a = b /\ t < u))
    BY <1>1, <1>2, <1>3 DEF RunsBefore
  <1>5. PICK c \in DOMAIN p : c < r /\ {u} \in p[c]
    BY <1>2 DEF Earlier
  <1>6. c = b
    BY <1>3, <1>4, <1>5 DEF Planned
  <1>7. a \in Int /\ b \in Int
    BY DEF Planned
  <1>8. a < r
    BY <1>4, <1>5, <1>6, <1>7
  <1> QED
    BY <1>2, <1>3, <1>4, <1>8 DEF Earlier

LEMMA LayersBetween ==
    ASSUME NEW p, Planned(p), InOrderOfBlock(p), NEW r \in DOMAIN p, NEW t \in InRound(p, r)
    PROVE  Between(t, Earlier(p, r), InRound(p, r)) /\ t \in Txs /\ t \notin Earlier(p, r)
  <1>1. t \in Txs /\ {t} \in p[r]
    BY DEF InRound
  <1>2. DOMAIN p \subseteq Int
    BY DEF Planned
  <1>3. t \notin Earlier(p, r)
    <2>1. \A i \in DOMAIN p : {t} \in p[i] => i = r
      BY <1>1 DEF Planned
    <2>2. ~(r < r)
      BY <1>2
    <2> QED
      BY <2>1, <2>2 DEF Earlier
  <1>4. ASSUME NEW u \in Txs, u # t, Interfere(t, u)
        PROVE  u \notin InRound(p, r) /\ (u < t => u \in Earlier(p, r)) /\ (t < u => u \notin Earlier(p, r))
    <2>1. PICK i \in DOMAIN p : {u} \in p[i]
      BY DEF Planned
    <2>2. Interfere(u, t)
      BY <1>4 DEF Interfere
    <2>3. u \in InRound(p, i)
      BY <2>1 DEF InRound
    <2>4. u < t => i < r
      BY <2>2, <2>3 DEF InOrderOfBlock
    <2>5. t < u => r < i
      BY <1>4, <2>3 DEF InOrderOfBlock
    <2>6. u \notin InRound(p, r)
      BY <1>1, <1>4 DEF Planned, InRound
    <2>7. ASSUME t < u, u \in Earlier(p, r)
          PROVE  FALSE
      <3>1. PICK j \in DOMAIN p : j < r /\ {u} \in p[j]
        BY <2>7 DEF Earlier
      <3>2. j = i
        BY <2>1, <3>1 DEF Planned
      <3> QED
        BY <1>2, <2>5, <2>7, <3>1, <3>2
    <2> QED
      BY <2>1, <2>4, <2>6, <2>7 DEF Earlier
  <1> QED
    BY <1>1, <1>3, <1>4 DEF Between

(***************************************************************************)
(* The rounds on the cache.                                                *)
(***************************************************************************)
\* The conditions of AnswersLikeDatabase, as they are on the way: what is broken
\* stays broken.
CalleesThere ==
    \A t \in Txs : \A a \in Addresses :
        <<a, "CODE">> \in task[t].traced.reads => (Callable(full, a) <=> Callable(Database, a))

FairSoFar ==
    /\ Quiet /\ \A t \in Txs : ~task[t].undone
    /\ IF method = "DegreeZero" THEN NoneCountedFalse ELSE RightlyPredicted /\ CalleesThere

WithinForeseen ==
    \A t \in Txs : task[t].rw.writes \subseteq predictions[t].writes /\ Touched(task[t].rw) \cap Keys \subseteq Foreseen(t)

\* The round began with what the database holds after the earlier rounds.
SettledBefore(base) ==
    \A h : OnDatabase(h, PlanOrder, Len(PlanOrder)) =>
        Settled(Earlier(plan, round), base, h, PlanOrder, Len(PlanOrder))

AnswersInvariant ==
    phase \in {"execute", "done"} =>
        /\ \A a \in Addresses : Callable(full, a) <=> Callable(Fetched(ToFetch), a)
        /\ FairSoFar =>
            /\ \A k \in Keys \ ToFetch : full.slots[k] = NoValue
            /\ WithinForeseen
            /\ \E base : Together(InRound(plan, round), base) /\ SettledBefore(base)

\* An execution on the cache, between two of its accesses.
LEMMA TaskReady ==
    ASSUME BlockInv, FullStateInvariant, IsCache(full), NEW t \in Txs, NEW p, p = Pair(task[t], full)
    PROVE  StepReady(p) /\ p.task = task[t] /\ p.store = full /\ p.task.msg = block[t]
  <1>1. PICK store, ran : store = full /\ ran = task[t]
    OBVIOUS
  <1>2. IsCache(store) /\ IsSomeStore(store) /\ store.shared = TRUE
    <2>1. IsCache(store)
      BY <1>1
    <2> QED
      BY <2>1, CacheIsStore DEF IsCache
  <1>3. WellFormed(ran.msg) /\ TaskInv(ran, TRUE) /\ ran.msg = block[t]
    BY <1>1 DEF BlockInv, FullStateInvariant
  <1>4. p.task = ran /\ p.store = store /\ IsPair(p)
    BY <1>1 DEF Pair, IsPair, IsMap
  <1>5. Backed(ran.frames, store, ran.rw.writes)
    BY <1>2 DEF Backed
  <1> QED
    BY <1>1, <1>2, <1>3, <1>4, <1>5 DEF StepReady, Sound

\* In a layer a transaction does what it does in the block, for what it meets is
\* what it meets there: so it keeps to the true RW set, and that to the prediction.
LEMMA LayerForeseen ==
    ASSUME BlockInv, TruthInvariant, phase \in {"record", "execute", "done"}, Done(truth), Quiet, NoneCountedFalse,
           method = "DegreeZero", Planned(plan), InOrderOfBlock(plan), round \in DOMAIN plan, NEW t \in InRound(plan, round),
           NEW base, Together(InRound(plan, round), base), SettledBefore(base),
           NEW p, p = Pair(task[t], full), StepReady(p), task[t].stage # "done", NEW e, e = Step(p)
    PROVE  /\ e.task.rw.writes \subseteq predictions[t].writes /\ Touched(e.task.rw) \cap Keys \subseteq Foreseen(t)
           /\ \A a \in Addresses : CallsNow(p, a) /\ Callable(Database, a) => <<a, "CODE">> \in ToFetch
  <1>1. PICK order, n : order = BlockOrder /\ n = Len(BlockOrder)
    OBVIOUS
  <1>2. order = PlanOrder /\ n = Len(PlanOrder) /\ Listing(order, n) /\ InBlockOrder(order, n) /\ n \in Nat /\ DOMAIN order = 1..n
    BY <1>1, BlockListing DEF PlanOrder, InBlockOrder, Listing
  <1>3. PICK h : SerialChain(h, n, order, Database, block)
    BY <1>2, SerialIsChain
  <1>4. OnDatabase(h, order, n)
    BY <1>2, <1>3 DEF OnDatabase
  <1>5. PICK S, now : S = Earlier(plan, round) /\ now = InRound(plan, round)
    OBVIOUS
  <1>6. Settled(S, base, h, order, n)
    BY <1>2, <1>4, <1>5 DEF SettledBefore
  <1>7. t \in Txs /\ t \notin S /\ Between(t, S, now)
    <2>1. PICK q, r : q = plan /\ r = round
      OBVIOUS
    <2>2. Between(t, Earlier(q, r), InRound(q, r)) /\ t \in Txs /\ t \notin Earlier(q, r)
      BY <2>1, LayersBetween
    <2> QED
      BY <1>5, <2>1, <2>2
  <1>8. PICK j \in 1..n : order[j] = t
    BY <1>2, <1>7 DEF Listing
  <1>9. PICK msg, ran, named, common, store, rw :
            /\ msg = block[t] /\ ran = task[t] /\ named = Foreseen(t) /\ common = full /\ store = h[j - 1].store
            /\ rw = ExecuteTx(t, msg, store).task.rw
    OBVIOUS
  <1>10. Agree(base, store, named)
    BY <1>2, <1>4, <1>6, <1>7, <1>8, <1>9, MeetsInOrder
  <1>11. Reference(store)
    <2>1. j - 1 \in 0..n
      BY <1>2
    <2> QED
      BY <1>4, <1>9, <2>1, OnDatabaseIs
  <1>12. rw = truth[t].rw
    <2>1. ExecuteTx(order[j], block[order[j]], h[j - 1].store).task = truth[order[j]]
      BY <1>1, <1>4, TruthOnDatabase
    <2> QED
      BY <1>8, <1>9, <2>1
  <1>13. WellFormed(msg) /\ NoBalance(msg) /\ Replays(t, msg, ran, named, base, common) /\ p = Pair(ran, common)
         /\ ran.stage # "done"
    BY <1>5, <1>7, <1>9 DEF BlockInv, Quiet, Together
  <1>14. /\ e.task.rw.writes \subseteq rw.writes /\ Touched(e.task.rw) \cap Keys \subseteq Touched(rw)
         /\ \A a \in Addresses : CallsNow(p, a) /\ Callable(Database, a) => <<a, "CODE">> \in Touched(rw)
    BY <1>9, <1>10, <1>11, <1>13, ReplaysTouch
  <1>15. rw.reads \subseteq predictions[t].reads /\ rw.writes \subseteq predictions[t].writes
    BY <1>7, <1>12 DEF NoneCountedFalse, Equal
  <1>16. Touched(rw) \subseteq Foreseen(t) /\ Touched(rw) \subseteq ToFetch
    BY <1>7, <1>12, <1>15 DEF Foreseen, Touched, ToFetch
  <1> QED
    BY <1>14, <1>15, <1>16

\* The others of the round go on as before.
LEMMA StepTogether ==
    ASSUME BlockInv, Quiet, NEW now, NEW base, Together(now, base), NEW t \in now,
           NEW p, p = Pair(task[t], full), StepReady(p), p.task.msg = block[t], task[t].stage # "done",
           NEW e, e = Step(p), e.task.rw.writes \subseteq predictions[t].writes,
           Touched(e.task.rw) \cap Keys \subseteq Foreseen(t), ~e.task.undone,
           \A a \in Addresses : CallsNow(p, a) => (Callable(Database, a) <=> Callable(full, a)),
           Later(full, e.store, e.task.rw.writes)
    PROVE  /\ Replays(t, block[t], e.task, Foreseen(t), base, e.store)
           /\ \A u \in now : u # t => Replays(u, block[u], task[u], Foreseen(u), base, e.store)
           /\ \A k \in Keys : (\A u \in now : k \notin predictions[u].writes) => e.store.slots[k] = base.slots[k]
  <1>1. t \in Txs
    BY DEF Together
  <1>2. Replays(t, block[t], e.task, Foreseen(t), base, e.store)
    <2>1. PICK msg, ran, named, common : msg = block[t] /\ ran = task[t] /\ named = Foreseen(t) /\ common = full
      OBVIOUS
    <2>2. /\ WellFormed(msg) /\ NoBalance(msg) /\ Replays(t, msg, ran, named, base, common) /\ p = Pair(ran, common)
          /\ ran.stage # "done" /\ Touched(e.task.rw) \cap Keys \subseteq named
          /\ \A a \in Addresses : CallsNow(p, a) => (Callable(Database, a) <=> Callable(common, a))
      BY <1>1, <2>1 DEF BlockInv, Quiet, Together
    <2>3. ran.msg = msg
      BY <2>1 DEF Pair
    <2>4. Replays(t, msg, e.task, named, base, e.store)
      BY <2>2, <2>3, ReplaysStep
    <2> QED
      BY <2>1, <2>4
  <1>3. ASSUME NEW u \in now, u # t
        PROVE  Replays(u, block[u], task[u], Foreseen(u), base, e.store)
    <2>1. u \in Txs /\ ~Interfere(t, u)
      BY <1>3 DEF Together
    <2>2. PICK msg, ran, named, common, left :
            msg = block[u] /\ ran = task[u] /\ named = Foreseen(u) /\ common = full /\ left = e.store
      OBVIOUS
    <2>3. Replays(u, msg, ran, named, base, common)
      BY <1>3, <2>2 DEF Together
    <2>4. Agree(common, left, named)
      <3> SUFFICES ASSUME NEW k \in Keys, k \in Foreseen(u)
                   PROVE  e.store.slots[k] = full.slots[k]
        BY <2>2 DEF Agree
      <3>1. k \notin predictions[t].writes
        BY <1>1, <2>1, WhatInterferes
      <3> QED
        BY <3>1 DEF Later
    <2>5. Replays(u, msg, ran, named, base, left)
      BY <2>3, <2>4, ReplaysOther
    <2> QED
      BY <2>2, <2>5
  <1>4. ASSUME NEW k \in Keys, \A u \in now : k \notin predictions[u].writes
        PROVE  e.store.slots[k] = base.slots[k]
    <2>1. k \notin e.task.rw.writes
      BY <1>4
    <2>2. e.store.slots[k] = full.slots[k]
      BY <2>1 DEF Later
    <2> QED
      BY <1>4, <2>2 DEF Together
  <1> QED
    BY <1>2, <1>3, <1>4

\* What is settled before the rounds stays.
LEMMA FactsStay ==
    ASSUME UNCHANGED <<predictions, block, method, truth>>
    PROVE  /\ ToFetch' = ToFetch /\ Quiet' = Quiet /\ NoneCountedFalse' = NoneCountedFalse
           /\ \A t : Foreseen(t)' = Foreseen(t)
           /\ \A t, u : Interfere(t, u)' = Interfere(t, u)
           /\ \A h, order, n : OnDatabase(h, order, n)' = OnDatabase(h, order, n)
           /\ \A S, base, h, order, n : Settled(S, base, h, order, n)' = Settled(S, base, h, order, n)
  <1>1. ToFetch' = ToFetch
    BY DEF ToFetch
  <1>2. \A t, u : Interfere(t, u)' = Interfere(t, u)
    BY DEF Interfere
  <1>3. \A t : Foreseen(t)' = Foreseen(t)
    BY DEF Foreseen
  <1>4. \A h, order, n : OnDatabase(h, order, n)' = OnDatabase(h, order, n)
    BY DEF OnDatabase
  <1>5. \A S, order, m, k : Point(S, order, m, k)' = Point(S, order, m, k)
    BY DEF Point, Writers
  <1>6. \A S, base, h, order, n : Settled(S, base, h, order, n)' = Settled(S, base, h, order, n)
    BY <1>1, <1>5 DEF Settled
  <1>7. Quiet' = Quiet /\ NoneCountedFalse' = NoneCountedFalse
    BY DEF Quiet, NoneCountedFalse
  <1> QED
    BY <1>1, <1>2, <1>3, <1>4, <1>6, <1>7

LEMMA OrderStays ==
    ASSUME UNCHANGED <<method, plan>>
    PROVE  PlanOrder' = PlanOrder
  <1>1. \A t : RoundOf(t)' = RoundOf(t)
    BY DEF RoundOf
  <1>2. RunOrder' = RunOrder
    BY <1>1 DEF RunOrder, InOrder
  <1> QED
    BY <1>2 DEF PlanOrder, BlockOrder, InOrder

LEMMA StepAnswers ==
    ASSUME BlockInv, FullStateInvariant, TruthInvariant, RoundsInvariant, LayersInvariant, AnswersInvariant,
           NEW t \in Txs, StepTx(t)
    PROVE  AnswersInvariant'
  <1>1. PICK p, e : p = Pair(task[t], full) /\ e = Step(p)
    OBVIOUS
  <1>2. /\ phase = "execute" /\ {t} \in plan[round] /\ task[t].stage # "done"
        /\ full' = e.store /\ task' = [task EXCEPT ![t] = e.task]
        /\ UNCHANGED <<predictions, block, method, phase, forecast, truth, database, plan, round>>
    BY <1>1 DEF StepTx, Pair
  <1>3. /\ IsMap(task, Txs) /\ round \in Nat \ {0} /\ Planned(plan) /\ round \in DOMAIN plan
        /\ IsCache(full) /\ TasksByRound
    BY <1>2 DEF RoundsInvariant
  <1>4. task'[t] = e.task /\ \A u \in Txs : u # t => task'[u] = task[u]
    BY <1>2, <1>3 DEF IsMap
  <1>5. StepReady(p) /\ p.task = task[t] /\ p.store = full /\ p.task.msg = block[t]
    BY <1>1, <1>3, TaskReady
  <1>6. Later(full, e.store, e.task.rw.writes) /\ Further(task[t], e.task)
    BY <1>1, <1>2, <1>5, StepLater
  <1>7. task[t].traced.reads \subseteq e.task.traced.reads
    BY <1>1, <1>2, <1>5, StepTraces
  <1>8. \A a \in Addresses : Callable(e.store, a) <=> Callable(full, a)
    BY <1>6 DEF Later
  <1>9. \A a \in Addresses : Callable(full, a) <=> Callable(Fetched(ToFetch), a)
    BY <1>2 DEF AnswersInvariant
  <1>10. /\ ToFetch' = ToFetch /\ PlanOrder' = PlanOrder /\ Quiet' = Quiet /\ NoneCountedFalse' = NoneCountedFalse
         /\ \A u : Foreseen(u)' = Foreseen(u)
         /\ \A u, v : Interfere(u, v)' = Interfere(u, v)
         /\ \A h, order, n : OnDatabase(h, order, n)' = OnDatabase(h, order, n)
         /\ \A S, base, h, order, n : Settled(S, base, h, order, n)' = Settled(S, base, h, order, n)
    BY <1>2, FactsStay, OrderStays
  <1>11. \A a \in Addresses : Callable(full', a) <=> Callable(Fetched(ToFetch'), a)
    BY <1>2, <1>8, <1>9, <1>10
  <1>12. ASSUME FairSoFar'
         PROVE  /\ \A k \in Keys \ ToFetch : e.store.slots[k] = NoValue
                /\ WithinForeseen'
                /\ \E base : Together(InRound(plan, round), base)' /\ SettledBefore(base)'
    <2>1. /\ Quiet /\ (\A u \in Txs : ~task'[u].undone) /\ ~e.task.undone
          /\ method = "DegreeZero" => NoneCountedFalse
          /\ method # "DegreeZero" => RightlyPredicted' /\ CalleesThere'
      BY <1>2, <1>4, <1>10, <1>12 DEF FairSoFar
    <2>2. FairSoFar
      <3>1. \A u \in Txs : ~task[u].undone
        BY <1>4, <1>6, <2>1 DEF Further
      <3>2. method # "DegreeZero" => RightlyPredicted
        <4> SUFFICES ASSUME method # "DegreeZero", NEW u \in Txs
                     PROVE  /\ Touched(task[u].rw) \subseteq Touched(predictions[u])
                            /\ task[u].rw.writes \subseteq predictions[u].writes
          BY DEF RightlyPredicted
        <4>1. /\ Touched(task'[u].rw) \subseteq Touched(predictions[u])
              /\ task'[u].rw.writes \subseteq predictions[u].writes
          BY <1>2, <2>1 DEF RightlyPredicted
        <4>2. task[u].rw.writes \subseteq task'[u].rw.writes /\ Touched(task[u].rw) \subseteq Touched(task'[u].rw)
          BY <1>4, <1>6 DEF Further
        <4> QED
          BY <4>1, <4>2
      <3>3. method # "DegreeZero" => CalleesThere
        <4> SUFFICES ASSUME method # "DegreeZero", NEW u \in Txs, NEW a \in Addresses,
                            <<a, "CODE">> \in task[u].traced.reads
                     PROVE  Callable(full, a) <=> Callable(Database, a)
          BY DEF CalleesThere
        <4>1. <<a, "CODE">> \in task'[u].traced.reads
          BY <1>4, <1>7
        <4>2. Callable(full', a) <=> Callable(Database, a)
          BY <2>1, <4>1 DEF CalleesThere
        <4> QED
          BY <1>2, <1>8, <4>2
      <3> QED
        BY <2>1, <3>1, <3>2, <3>3 DEF FairSoFar
    <2>3. (\A k \in Keys \ ToFetch : full.slots[k] = NoValue) /\ WithinForeseen
      BY <1>2, <2>2 DEF AnswersInvariant
    <2>4. PICK base : Together(InRound(plan, round), base) /\ SettledBefore(base)
      BY <1>2, <2>2 DEF AnswersInvariant
    <2>5. t \in InRound(plan, round) /\ InRound(plan, round) \subseteq Txs
      BY <1>2 DEF InRound
    <2>6. /\ e.task.rw.writes \subseteq predictions[t].writes /\ Touched(e.task.rw) \cap Keys \subseteq Foreseen(t)
          /\ \A a \in Addresses : CallsNow(p, a) => (Callable(Database, a) <=> Callable(full, a))
      <3>1. CASE method = "DegreeZero"
        <4>1. InOrderOfBlock(plan) /\ Done(truth)
          BY <1>2, <3>1 DEF LayersInvariant, TruthInvariant
        <4>2. /\ e.task.rw.writes \subseteq predictions[t].writes /\ Touched(e.task.rw) \cap Keys \subseteq Foreseen(t)
              /\ \A a \in Addresses : CallsNow(p, a) /\ Callable(Database, a) => <<a, "CODE">> \in ToFetch
          BY <1>1, <1>2, <1>3, <1>5, <2>1, <2>4, <2>5, <3>1, <4>1, LayerForeseen
        <4>3. PICK keys : keys = ToFetch
          OBVIOUS
        <4>4. /\ \A a \in Addresses : Callable(Fetched(keys), a) => Callable(Database, a)
              /\ \A a \in Addresses : Callable(Database, a) /\ <<a, "CODE">> \in keys => Callable(Fetched(keys), a)
          BY FetchedLike
        <4> QED
          BY <1>9, <4>2, <4>3, <4>4
      <3>2. CASE method # "DegreeZero"
        <4>1. Touched(e.task.rw) \subseteq Touched(predictions[t]) /\ e.task.rw.writes \subseteq predictions[t].writes
          BY <1>2, <1>4, <2>1, <3>2 DEF RightlyPredicted
        <4>2. ASSUME NEW a \in Addresses, CallsNow(p, a)
              PROVE  Callable(Database, a) <=> Callable(full, a)
          <5>1. <<a, "CODE">> \in task'[t].traced.reads
            BY <1>1, <1>4, <1>5, <4>2, StepCalls
          <5>2. Callable(full', a) <=> Callable(Database, a)
            BY <2>1, <3>2, <5>1 DEF CalleesThere
          <5> QED
            BY <1>2, <1>8, <5>2
        <4> QED
          BY <4>1, <4>2 DEF Foreseen
      <3> QED
        BY <3>1, <3>2
    <2>7. PICK now : now = InRound(plan, round)
      OBVIOUS
    <2>8. t \in now /\ Together(now, base)
      BY <2>4, <2>5, <2>7
    <2>9. /\ Replays(t, block[t], e.task, Foreseen(t), base, e.store)
          /\ \A u \in now : u # t => Replays(u, block[u], task[u], Foreseen(u), base, e.store)
          /\ \A k \in Keys : (\A u \in now : k \notin predictions[u].writes) => e.store.slots[k] = base.slots[k]
      BY <1>1, <1>2, <1>5, <1>6, <2>1, <2>6, <2>8, StepTogether
    <2>10. Together(now, base)'
      <3>1. \A u \in now : u \in Txs /\ Replays(u, block[u], task'[u], Foreseen(u), base, e.store)
        BY <1>4, <2>5, <2>7, <2>9
      <3>2. \A u \in now : task'[u].rw.writes \subseteq predictions[u].writes
        BY <1>4, <2>6, <2>8 DEF Together
      <3>3. \A u, v \in now : u # v => ~Interfere(u, v)
        BY <2>8 DEF Together
      <3> QED
        BY <1>2, <1>10, <2>9, <3>1, <3>2, <3>3 DEF Together
    <2>11. SettledBefore(base)'
      <3>1. Earlier(plan, round)' = Earlier(plan, round)
        BY <1>2
      <3> QED
        BY <1>10, <2>4, <3>1 DEF SettledBefore
    <2>12. WithinForeseen'
      <3>1. ASSUME NEW u \in Txs
            PROVE  task'[u].rw.writes \subseteq predictions[u].writes /\ Touched(task'[u].rw) \cap Keys \subseteq Foreseen(u)
        BY <1>4, <2>3, <2>6 DEF WithinForeseen
      <3> QED
        BY <1>2, <1>10, <3>1 DEF WithinForeseen
    <2>13. \A k \in Keys \ ToFetch : e.store.slots[k] = NoValue
      <3> SUFFICES ASSUME NEW k \in Keys, k \notin ToFetch
                   PROVE  e.store.slots[k] = NoValue
        OBVIOUS
      <3>1. k \notin e.task.rw.writes
        BY <2>6 DEF ToFetch, Touched
      <3> QED
        BY <1>6, <2>3, <3>1 DEF Later
    <2>14. Together(InRound(plan, round), base)'
      BY <1>2, <2>7, <2>10
    <2> QED
      BY <2>11, <2>12, <2>13, <2>14
  <1> QED
    BY <1>2, <1>10, <1>11, <1>12 DEF AnswersInvariant

LEMMA PrefetchAnswers ==
    ASSUME BlockInv, TruthInvariant, RoundsInvariant, Prefetch, RoundsInvariant'
    PROVE  AnswersInvariant'
  <1>1. /\ phase = "record" /\ Done(truth) /\ phase' = "execute" /\ full' = Fetched(ToFetch)
        /\ UNCHANGED <<predictions, block, method, forecast, truth, database, round, task>>
    BY DEF Prefetch
  <1>2. round = 1 /\ \A t \in Txs : task[t] = NewTask(t, block[t])
    BY <1>1 DEF RoundsInvariant
  <1>3. Planned(plan)'
    BY <1>1 DEF RoundsInvariant
  <1>4. /\ ToFetch' = ToFetch /\ Quiet' = Quiet /\ NoneCountedFalse' = NoneCountedFalse
        /\ \A t : Foreseen(t)' = Foreseen(t)
        /\ \A h, order, n : OnDatabase(h, order, n)' = OnDatabase(h, order, n)
        /\ \A S, base, h, order, n : Settled(S, base, h, order, n)' = Settled(S, base, h, order, n)
    BY <1>1, FactsStay
  <1>5. \A t \in Txs : task[t].rw.writes = {} /\ Touched(task[t].rw) = {}
    <2>1. \A t, msg : NewTask(t, msg).rw = NoTouch
      BY DEF NewTask
    <2> QED
      BY <1>2, <2>1 DEF NoTouch, Touched
  <1>6. WithinForeseen'
    BY <1>1, <1>5 DEF WithinForeseen
  <1>7. PICK base, now : base = Fetched(ToFetch) /\ now = InRound(plan, round)'
    OBVIOUS
  <1>8. now \subseteq Txs
    BY <1>7 DEF InRound
  <1>9. \A k \in Keys \ ToFetch : base.slots[k] = NoValue
    <2>1. PICK keys : keys = ToFetch
      OBVIOUS
    <2>2. \A k \in Keys : Fetched(keys).slots[k] = IF k \in keys THEN Database.slots[k] ELSE NoValue
      BY FetchedLike
    <2> QED
      BY <1>7, <2>1, <2>2
  <1>10. Together(now, base)'
    <2>1. ASSUME NEW t \in now
          PROVE  Replays(t, block[t], task[t], Foreseen(t), base, base)
      <3>1. PICK msg, named : msg = block[t] /\ named = Foreseen(t)
        OBVIOUS
      <3>2. WellFormed(msg) /\ task[t] = NewTask(t, msg)
        BY <1>2, <1>8, <3>1 DEF BlockInv
      <3>3. Replays(t, msg, NewTask(t, msg), named, base, base)
        BY <3>2, ReplaysAtFirst
      <3> QED
        BY <3>1, <3>2, <3>3
    <2>2. \A t, u \in now : t # u => ~Interfere(t, u)'
      <3>1. \A i \in DOMAIN plan' : \A t, u \in Txs : {t} \in plan'[i] /\ {u} \in plan'[i] /\ t # u => ~Interfere(t, u)'
        BY <1>3 DEF Planned
      <3>2. Txs = {} \/ round' \in DOMAIN plan'
        BY <1>1 DEF RoundsInvariant
      <3> QED
        BY <1>7, <1>8, <3>1, <3>2 DEF InRound
    <2>3. \A t \in now : t \in Txs /\ task[t].rw.writes \subseteq predictions[t].writes
      BY <1>5, <1>8
    <2> QED
      BY <1>1, <1>4, <1>7, <2>1, <2>2, <2>3 DEF Together
  <1>11. ASSUME FairSoFar'
         PROVE  SettledBefore(base)'
    <2>1. Quiet /\ (method = "DegreeZero" => NoneCountedFalse)
      BY <1>1, <1>4, <1>11 DEF FairSoFar
    <2>2. PICK order, n : order = PlanOrder' /\ n = Len(PlanOrder')
      OBVIOUS
    <2>3. method = "DegreeZero" => order = BlockOrder /\ n = Len(BlockOrder)
      BY <1>1, <2>2 DEF PlanOrder, BlockOrder, InOrder
    <2>4. Earlier(plan, round)' = {}
      <3>1. \A i \in DOMAIN plan' : ~(i < 1)
        BY <1>3 DEF Planned
      <3> QED
        BY <1>1, <1>2, <3>1 DEF Earlier
    <2>5. ASSUME NEW h, OnDatabase(h, order, n)
          PROVE  Settled({}, base, h, order, n)
      <3>1. method = "DegreeZero" => OnlyForeseen(h, order, n)
        BY <1>1, <2>1, <2>3, <2>5, TruthOnDatabase
      <3> QED
        BY <1>7, <2>1, <2>5, <3>1, SettledAtFirst
    <2>6. \A h : OnDatabase(h, order, n)' => Settled({}, base, h, order, n)'
      BY <1>4, <2>5
    <2> QED
      BY <2>2, <2>4, <2>6 DEF SettledBefore
  <1>12. FairSoFar' => Together(InRound(plan, round), base)' /\ SettledBefore(base)'
    BY <1>7, <1>10, <1>11
  <1> QED
    BY <1>1, <1>4, <1>6, <1>7, <1>9, <1>12 DEF AnswersInvariant

\* A round that is over has left what the database holds after its transactions too.
LEMMA RoundAnswers ==
    ASSUME BlockInv, TruthInvariant, RoundsInvariant, LayersInvariant, AnswersInvariant,
           phase \in {"execute", "done"}, RoundOver, FairSoFar,
           NEW h, NEW order, NEW n, order = PlanOrder, n = Len(PlanOrder), OnDatabase(h, order, n)
    PROVE  Settled(Earlier(plan, round) \cup InRound(plan, round), full, h, order, n)
  <1>1. /\ round \in Nat \ {0} /\ Planned(plan) /\ (Txs = {} \/ round \in DOMAIN plan)
    BY DEF RoundsInvariant
  <1>2. Quiet /\ (method = "DegreeZero" => NoneCountedFalse)
    BY DEF FairSoFar
  <1>3. PICK base : Together(InRound(plan, round), base) /\ SettledBefore(base)
    BY DEF AnswersInvariant
  <1>4. PICK S, now : S = Earlier(plan, round) /\ now = InRound(plan, round)
    OBVIOUS
  <1>5. Together(now, base) /\ Settled(S, base, h, order, n)
    BY <1>3, <1>4 DEF SettledBefore
  <1>6. \A t \in now : t \in Txs /\ {t} \in plan[round] /\ round \in DOMAIN plan /\ task[t].stage = "done"
    BY <1>1, <1>4 DEF InRound, RoundOver
  <1>7. S \cap now = {}
    <2> SUFFICES ASSUME NEW t \in now, t \in S
                 PROVE  FALSE
      OBVIOUS
    <2>1. PICK i \in DOMAIN plan : i < round /\ {t} \in plan[i]
      BY <1>4 DEF Earlier
    <2>2. i = round
      BY <1>1, <1>6, <2>1 DEF Planned
    <2> QED
      BY <1>1, <2>1, <2>2
  <1>8. CASE method = "DegreeZero"
    <2>1. order = BlockOrder /\ n = Len(BlockOrder) /\ InBlockOrder(order, n)
      BY <1>1, <1>8, PlanOrderLists DEF PlanOrder
    <2>2. Done(truth) /\ InOrderOfBlock(plan)
      BY <1>8 DEF TruthInvariant, LayersInvariant
    <2>3. OnlyForeseen(h, order, n)
      BY <1>2, <1>8, <2>1, <2>2, TruthOnDatabase
    <2>4. ASSUME NEW t \in now
          PROVE  Between(t, S, now)
      <3>1. PICK p, r : p = plan /\ r = round
        OBVIOUS
      <3>2. Planned(p) /\ InOrderOfBlock(p) /\ r \in DOMAIN p /\ t \in InRound(p, r)
        BY <1>1, <1>4, <1>6, <2>2, <3>1
      <3>3. Between(t, Earlier(p, r), InRound(p, r))
        BY <3>2, LayersBetween
      <3> QED
        BY <1>4, <3>1, <3>3
    <2>5. Settled(S \cup now, full, h, order, n)
      BY <1>2, <1>5, <1>6, <1>7, <1>8, <2>1, <2>3, <2>4, LayerSettles
    <2> QED
      BY <1>4, <2>5
  <1>9. CASE method # "DegreeZero"
    <2>1. Listing(order, n) /\ Sorted(order, RunsBefore(plan))
      BY <1>1, <1>9, PlanOrderLists
    <2>2. \A i, j \in 1..n : i < j /\ order[j] \in S => order[i] \in S
      <3>1. PICK p, r : p = plan /\ r = round
        OBVIOUS
      <3>2. Planned(p) /\ Sorted(order, RunsBefore(p)) /\ r \in Nat
        BY <1>1, <2>1, <3>1
      <3>3. \A i, j \in 1..n : i < j /\ order[j] \in Earlier(p, r) => order[i] \in Earlier(p, r)
        BY <2>1, <3>2, EarlierFirst
      <3> QED
        BY <1>4, <3>1, <3>3
    <2>3. Settled(S \cup now, full, h, order, n)
      BY <1>2, <1>5, <1>6, <1>7, <1>9, <2>2, SetSettles
    <2> QED
      BY <1>4, <2>3
  <1> QED
    BY <1>8, <1>9

LEMMA EndAnswers ==
    ASSUME BlockInv, TruthInvariant, RoundsInvariant, LayersInvariant, AnswersInvariant, EndRound
    PROVE  AnswersInvariant'
  <1>1. /\ phase = "execute" /\ RoundOver
        /\ UNCHANGED <<predictions, block, method, forecast, truth, database, plan, full, task>>
    BY DEF EndRound
  <1>2. /\ ToFetch' = ToFetch /\ PlanOrder' = PlanOrder /\ Quiet' = Quiet /\ NoneCountedFalse' = NoneCountedFalse
        /\ \A u : Foreseen(u)' = Foreseen(u)
        /\ \A u, v : Interfere(u, v)' = Interfere(u, v)
        /\ \A h, order, n : OnDatabase(h, order, n)' = OnDatabase(h, order, n)
        /\ \A S, base, h, order, n : Settled(S, base, h, order, n)' = Settled(S, base, h, order, n)
    BY <1>1, FactsStay, OrderStays
  <1>3. FairSoFar' = FairSoFar /\ WithinForeseen' = WithinForeseen
    BY <1>1, <1>2 DEF FairSoFar, CalleesThere, RightlyPredicted, WithinForeseen
  <1>4. \A now, base : Together(now, base)' = Together(now, base)
    BY <1>1, <1>2 DEF Together
  <1>5. /\ \A a \in Addresses : Callable(full, a) <=> Callable(Fetched(ToFetch), a)
        /\ FairSoFar => /\ \A k \in Keys \ ToFetch : full.slots[k] = NoValue
                        /\ WithinForeseen
                        /\ \E base : Together(InRound(plan, round), base) /\ SettledBefore(base)
    BY <1>1 DEF AnswersInvariant
  <1>6. ASSUME FairSoFar
        PROVE  \E base : Together(InRound(plan, round)', base) /\ SettledBefore(base)'
    <2>1. CASE round = Len(plan)
      <3>1. round' = round
        BY <2>1 DEF EndRound
      <3>2. \A base : SettledBefore(base)' = SettledBefore(base)
        BY <1>1, <1>2, <3>1 DEF SettledBefore, Earlier
      <3> QED
        BY <1>1, <1>5, <1>6, <3>1, <3>2 DEF InRound
    <2>2. CASE round # Len(plan)
      <3>1. round' = round + 1
        BY <2>2 DEF EndRound
      <3>2. /\ round \in Nat \ {0} /\ Planned(plan) /\ (Txs = {} \/ round \in DOMAIN plan) /\ TasksByRound
        BY <1>1 DEF RoundsInvariant
      <3>3. DOMAIN plan \subseteq Int
        BY <3>2 DEF Planned
      <3>4. Earlier(plan, round)' = Earlier(plan, round) \cup InRound(plan, round)
        <4>1. \A i \in DOMAIN plan : i < round + 1 <=> (i < round \/ i = round)
          BY <3>2, <3>3
        <4>2. ASSUME NEW t \in Txs
              PROVE  t \in Earlier(plan, round + 1) <=> t \in Earlier(plan, round) \cup InRound(plan, round)
          BY <3>2, <4>1 DEF Earlier, InRound
        <4>3. Earlier(plan, round + 1) = Earlier(plan, round) \cup InRound(plan, round)
          BY <4>2 DEF Earlier, InRound
        <4> QED
          BY <1>1, <3>1, <4>3
      <3>5. PICK base : base = full
        OBVIOUS
      <3>6. SettledBefore(base)'
        <4>1. PICK order, n : order = PlanOrder /\ n = Len(PlanOrder)
          OBVIOUS
        <4>2. ASSUME NEW h, OnDatabase(h, order, n)
              PROVE  Settled(Earlier(plan, round) \cup InRound(plan, round), full, h, order, n)
          BY <1>1, <1>6, <4>1, <4>2, RoundAnswers
        <4> QED
          BY <1>1, <1>2, <3>4, <3>5, <4>1, <4>2 DEF SettledBefore
      <3>7. Together(InRound(plan, round + 1), base)
        <4>1. PICK now : now = InRound(plan, round + 1)
          OBVIOUS
        <4>2. ASSUME NEW t \in now
              PROVE  /\ t \in Txs /\ round + 1 \in DOMAIN plan /\ task[t] = NewTask(t, block[t])
                     /\ Replays(t, block[t], task[t], Foreseen(t), full, full)
          <5>1. t \in Txs /\ {t} \in plan[round + 1]
            BY <4>1 DEF InRound
          <5>2. round + 1 \in DOMAIN plan
            <6>1. DOMAIN plan = 1..Len(plan) /\ Len(plan) \in Nat /\ round \in DOMAIN plan
              BY <3>2, <5>1 DEF Planned
            <6>2. PICK m \in Nat, last \in Nat : m = round /\ last = Len(plan)
              BY <3>2, <6>1
            <6>3. m \in 1..last /\ m # last => m + 1 \in 1..last
              OBVIOUS
            <6> QED
              BY <2>2, <6>1, <6>2, <6>3, Zenon
          <5>3. round + 1 > round
            BY <3>2
          <5>4. task[t] = NewTask(t, block[t])
            BY <3>2, <4>1, <5>2, <5>3 DEF TasksByRound
          <5>5. PICK msg, named, common : msg = block[t] /\ named = Foreseen(t) /\ common = full
            OBVIOUS
          <5>6. WellFormed(msg)
            BY <5>1, <5>5 DEF BlockInv
          <5>7. Replays(t, msg, NewTask(t, msg), named, common, common)
            BY <5>6, ReplaysAtFirst
          <5> QED
            BY <5>1, <5>2, <5>4, <5>5, <5>7
        <4>3. \A t, u \in now : t # u => ~Interfere(t, u)
          BY <3>2, <4>1, <4>2 DEF Planned, InRound
        <4>4. \A t \in now : task[t].rw.writes \subseteq predictions[t].writes
          <5>1. \A t \in now : t \in Txs
            BY <4>2
          <5> QED
            BY <1>5, <1>6, <5>1 DEF WithinForeseen
        <4> QED
          BY <3>5, <4>1, <4>2, <4>3, <4>4 DEF Together
      <3>8. InRound(plan, round)' = InRound(plan, round + 1)
        BY <1>1, <3>1 DEF InRound
      <3> QED
        BY <3>6, <3>7, <3>8
    <2> QED
      BY <2>1, <2>2
  <1>7. FairSoFar => \E base : Together(InRound(plan, round), base)' /\ SettledBefore(base)'
    BY <1>1, <1>2, <1>6 DEF Together
  <1> QED
    BY <1>1, <1>2, <1>3, <1>5, <1>7 DEF AnswersInvariant

LEMMA NextAnswers ==
    ASSUME BlockInv, FullStateInvariant, TruthInvariant, RoundsInvariant, RoundsInvariant', LayersInvariant,
           AnswersInvariant, [Next]_vars
    PROVE  AnswersInvariant'
  <1>1. CASE \E t \in Txs : StepTx(t)
    BY <1>1, StepAnswers
  <1>2. CASE Prefetch
    BY <1>2, PrefetchAnswers
  <1>3. CASE EndRound
    BY <1>3, EndAnswers
  <1>4. ASSUME phase' \notin {"execute", "done"}
        PROVE  AnswersInvariant'
    BY <1>4 DEF AnswersInvariant
  <1>5. CASE \E t \in Txs : PredictTx(t) \/ RecordTx(t)
    BY <1>4, <1>5 DEF PredictTx, RecordTx
  <1>6. CASE EndPredictions \/ Panic
    BY <1>4, <1>6 DEF EndPredictions, Panic
  <1>7. CASE UNCHANGED vars
    <2>1. /\ UNCHANGED <<predictions, block, method, phase, truth, plan, round, full, task>>
      BY <1>7 DEF vars
    <2>2. /\ ToFetch' = ToFetch /\ PlanOrder' = PlanOrder /\ Quiet' = Quiet /\ NoneCountedFalse' = NoneCountedFalse
          /\ \A u : Foreseen(u)' = Foreseen(u)
          /\ \A u, v : Interfere(u, v)' = Interfere(u, v)
          /\ \A h, order, n : OnDatabase(h, order, n)' = OnDatabase(h, order, n)
          /\ \A S, base, h, order, n : Settled(S, base, h, order, n)' = Settled(S, base, h, order, n)
      BY <2>1, FactsStay, OrderStays
    <2>3. FairSoFar' = FairSoFar /\ WithinForeseen' = WithinForeseen
      BY <2>1, <2>2 DEF FairSoFar, CalleesThere, RightlyPredicted, WithinForeseen
    <2>4. \A now, base : Together(now, base)' = Together(now, base)
      BY <2>1, <2>2 DEF Together
    <2>5. InRound(plan, round)' = InRound(plan, round) /\ Earlier(plan, round)' = Earlier(plan, round)
      BY <2>1 DEF InRound, Earlier
    <2>6. \A base : SettledBefore(base)' = SettledBefore(base)
      BY <2>2, <2>5 DEF SettledBefore
    <2>7. \A base : Together(InRound(plan, round), base)' = Together(InRound(plan, round), base)
      BY <2>1, <2>2 DEF Together, InRound
    <2> QED
      BY <2>1, <2>2, <2>3, <2>6, <2>7 DEF AnswersInvariant
  <1> QED
    BY <1>1, <1>2, <1>3, <1>5, <1>6, <1>7 DEF Next, Stopped

LEMMA InitAnswers == Init => AnswersInvariant /\ LayersInvariant
  BY DEF Init, AnswersInvariant, LayersInvariant

\* At every point of a round, whatever the order of the accesses, each of its
\* transactions stands where it stands when it is executed alone on a database that
\* holds what the cache held before the round in the slots it was predicted to touch;
\* and there the cache held what the database holds after the earlier rounds.
THEOREM AnswersAreInvariant == Spec => []AnswersInvariant
  <1>1. BlockInv /\ FullStateInvariant /\ TruthInvariant /\ RoundsInvariant /\ RoundsInvariant' /\ LayersInvariant
            /\ AnswersInvariant /\ [Next]_vars => AnswersInvariant'
    BY NextAnswers
  <1>2. RoundsInvariant /\ LayersInvariant /\ [Next]_vars => LayersInvariant'
    BY NextLayers
  <1> QED
    BY <1>1, <1>2, InitAnswers, BlockStays, ExecutionsAreSound, TruthIsInvariant, RoundsAreInvariant, PTL DEF Spec

\* What the executions on the unlocked full cache leave in its slots is what the
\* block leaves in the database, in the block's order under the layers and in that of
\* the rounds under the independent sets.
THEOREM AnswersAreLikeDatabase == Spec => []AnswersLikeDatabase
  <1>1. ASSUME BlockInv, TruthInvariant, RoundsInvariant, LayersInvariant, AnswersInvariant
        PROVE  AnswersLikeDatabase
    <2> DEFINE order == PlanOrder
               n == Len(PlanOrder)
    <2> SUFFICES ASSUME phase = "done", IF method = "DegreeZero" THEN NoneCountedFalse ELSE RightlyPredicted /\ CalleesFetched,
                        \A t \in Txs : ~task[t].undone,
                        \A t \in Txs : \A i \in DOMAIN block[t].program : block[t].program[i].op # "BALANCE"
                 PROVE  \A k \in Keys : full.slots[k] \in {NoValue, Serial(order, Database).store.slots[k]}
      BY DEF AnswersLikeDatabase, PlanOrder
    <2>1. FairSoFar
      <3>1. CalleesFetched => CalleesThere
        BY DEF CalleesFetched, CalleesThere, Callable, Exist
      <3> QED
        BY <3>1 DEF FairSoFar, Quiet, NoBalance
    <2>2. /\ round = Len(plan) /\ RoundOver /\ Planned(plan)
      BY <1>1 DEF RoundsInvariant
    <2>3. Listing(order, n)
      BY <2>2, PlanOrderLists
    <2>4. n \in Nat /\ DOMAIN order = 1..n
      BY <2>3 DEF Listing
    <2>5. PICK h : SerialChain(h, n, order, Database, block) /\ Serial(order, Database) = h[n]
      BY <2>4, SerialIsChain
    <2>6. OnDatabase(h, order, n)
      BY <2>3, <2>5 DEF OnDatabase
    <2>7. Settled(Earlier(plan, round) \cup InRound(plan, round), full, h, order, n)
      BY <1>1, <2>1, <2>2, <2>6, RoundAnswers
    <2>8. Earlier(plan, round) \cup InRound(plan, round) = Txs
      <3>1. DOMAIN plan = 1..Len(plan) /\ Len(plan) \in Nat
        BY <2>2 DEF Planned
      <3>2. \A i \in DOMAIN plan : i < round \/ i = round
        BY <2>2, <3>1
      <3> QED
        BY <2>2, <3>2 DEF Planned, Earlier, InRound
    <2>9. Upto(order, n) = Txs /\ n \in 0..n
      BY <2>3, <2>4, UptoNext
    <2>10. \A k \in Keys \cap ToFetch : full.slots[k] = h[n].store.slots[k]
      BY <2>7, <2>8, <2>9 DEF Settled, Point
    <2>11. \A k \in Keys \ ToFetch : full.slots[k] = NoValue
      BY <1>1, <2>1 DEF AnswersInvariant
    <2> QED
      BY <2>5, <2>10, <2>11
  <1>2. RoundsInvariant /\ LayersInvariant /\ [Next]_vars => LayersInvariant'
    BY NextLayers
  <1> QED
    BY <1>1, <1>2, InitAnswers, AnswersAreInvariant, BlockStays, TruthIsInvariant, RoundsAreInvariant, PTL DEF Spec
=============================================================================
