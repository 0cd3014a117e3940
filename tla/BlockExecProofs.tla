--------------------------- MODULE BlockExecProofs ---------------------------
(***************************************************************************)
(* The theorems about the block drivers: however the groups of a round     *)
(* interleave and their caches are merged, the full cache ends up as a     *)
(* serial execution of the accepted transactions leaves it.                *)
(***************************************************************************)
EXTENDS BlockExecInv, GroupPlansProofs, SequenceTheorems

(***************************************************************************)
(* What a plan keeps apart, and in which order.                            *)
(***************************************************************************)
LEMMA GroupsOfRoundApart ==
    ASSUME GoodPlan(plan, GroupRounds, driver.method), NEW i \in GroupRounds,
           NEW g \in plan[i], NEW h \in plan[i], g # h,
           NEW k, k \in Predicted(g), k \in PredictedWrites(h)
    PROVE  FALSE
  <1>1. PICK t \in g : k \in predictions[t].reads \cup predictions[t].writes
    BY DEF Predicted
  <1>2. PICK u \in h : k \in predictions[u].writes
    BY DEF PredictedWrites
  <1>3. Interfere(t, u)
    BY <1>1, <1>2 DEF Interfere
  <1> QED
    BY <1>3 DEF GoodPlan

LEMMA GroupsAreDisjoint ==
    ASSUME GoodPlan(plan, GroupRounds, driver.method), NEW i \in GroupRounds, NEW j \in GroupRounds,
           NEW g \in plan[i], NEW h \in plan[j], NEW v, v \in g, v \in h
    PROVE  i = j /\ g = h
  BY DEF GoodPlan

LEMMA RoundsAreNumbers ==
    ASSUME TypeOK
    PROVE  Len(plan) \in Nat /\ DOMAIN plan = 1..Len(plan) /\ GroupRounds \subseteq Nat /\ GroupRounds \subseteq DOMAIN plan
  BY DEF TypeOK, GroupRounds

\* Interfering transactions of different rounds are in order.
LEMMA RoundsInOrder ==
    ASSUME TypeOK, GoodPlan(plan, GroupRounds, driver.method),
           NEW i \in GroupRounds, NEW j \in GroupRounds, i < j,
           NEW g \in plan[i], NEW h \in plan[j], NEW t \in g, NEW u \in h,
           NEW k, k \in Predicted(g), k \in Predicted(h), k \in PredictedWrites(g) \cup PredictedWrites(h)
    PROVE  Before(t, u) /\ ~Before(u, t)
  <1>1. i \in Nat /\ j \in Nat /\ i # j
    BY RoundsAreNumbers
  <1>2. driver.method # "ConnectedComponents"
    BY <1>1 DEF GoodPlan
  <1>3. g = {t} /\ h = {u}
    BY <1>2 DEF GoodPlan
  <1>4. t \in Vertices /\ u \in Vertices
    BY DEF GoodPlan
  <1>5. t # u
    BY <1>1, <1>3, GroupsAreDisjoint
  <1>6. t \in Nat /\ u \in Nat
    BY <1>4, VerticesAreNumbers
  <1>7. CASE driver.method = "MIS"
    <2>1. Before(t, u)
      BY <1>3, <1>7 DEF Before
    <2>2. ASSUME Before(u, t)
          PROVE  FALSE
      <3>1. PICK a, b \in GroupRounds : {u} \in plan[a] /\ {t} \in plan[b] /\ (a < b \/ (a = b /\ u < t))
        BY <1>7, <2>2 DEF Before
      <3>2. a = j /\ b = i
        BY <1>3, <3>1, GroupsAreDisjoint
      <3> QED
        BY <1>1, <3>1, <3>2
    <2> QED
      BY <2>1, <2>2
  <1>8. CASE driver.method # "MIS"
    <2>1. driver.method = "DegreeZero"
      BY <1>2, <1>8, MethodsAssumption DEF TypeOK
    <2>2. Interfere(t, u) /\ Interfere(u, t)
      BY <1>3 DEF Interfere, Predicted, PredictedWrites
    <2>3. ~(u < t)
      BY <1>1, <1>3, <1>4, <2>1, <2>2 DEF GoodPlan
    <2> QED
      BY <1>5, <1>6, <1>8, <2>3 DEF Before
  <1> QED
    BY <1>7, <1>8

\* Transactions of one group are ordered by the block.
LEMMA GroupInOrder ==
    ASSUME TypeOK, GoodPlan(plan, GroupRounds, driver.method),
           NEW i \in GroupRounds, NEW g \in plan[i], NEW t \in g, NEW u \in g
    PROVE  Before(t, u) <=> t < u
  <1>1. CASE driver.method = "MIS"
    <2>1. g = {t} /\ t = u
      BY <1>1 DEF GoodPlan
    <2>2. ASSUME Before(t, u)
          PROVE  t < u
      <3>1. PICK a, b \in GroupRounds : {t} \in plan[a] /\ {u} \in plan[b] /\ (a < b \/ (a = b /\ t < u))
        BY <1>1, <2>2 DEF Before
      <3>2. a = i /\ b = i
        BY <2>1, <3>1, GroupsAreDisjoint
      <3>3. i \in Nat
        BY RoundsAreNumbers
      <3> QED
        BY <3>1, <3>2, <3>3
    <2>3. ~(t < u)
      <3>1. t \in Nat
        BY VerticesAreNumbers DEF GoodPlan
      <3> QED
        BY <2>1, <3>1
    <2> QED
      BY <2>2, <2>3
  <1>2. CASE driver.method # "MIS"
    BY <1>2 DEF Before
  <1> QED
    BY <1>1, <1>2

(***************************************************************************)
(* The initial states.                                                     *)
(***************************************************************************)
LEMMA InitBlock == Init => BlockInv
  <1> SUFFICES ASSUME Init
               PROVE  BlockInv
    OBVIOUS
  <1> USE DEF Init
  <1>1. Accepted = {} /\ phase = "start" /\ round = 1
    BY DEF Accepted
  <1>2. driver.method \in Methods /\ driver.kind \in {"concurrent", "older", "aria"}
    OBVIOUS
  <1>3. plan \in Seq(SUBSET SUBSET Txs)
    <2>1. CASE Aria
      <3>1. PICK groups : groups = {{t} : t \in Txs}
        OBVIOUS
      <3>2. groups \in SUBSET SUBSET Txs
        BY <3>1
      <3>3. PICK p : p = <<groups>>
        OBVIOUS
      <3>4. p \in Seq(SUBSET SUBSET Txs)
        BY <3>2, <3>3
      <3>5. plan = p
        BY <2>1, <3>1, <3>3
      <3> QED
        BY <3>4, <3>5
    <2>2. CASE ~Aria
      BY <1>2, <2>2, PlansAreGood
    <2> QED
      BY <2>1, <2>2
  <1>4. predictions \in [Txs -> RWSets \cup {NoPrediction}]
    BY ConflictGraphAssumption, BlockExecAssumption DEF GraphInit
  <1>5. TypeOK
    BY <1>3, <1>4 DEF TypeOK, RWSets, Empty
  <1>6. PlanInv
    <2>1. Len(plan) \in Nat /\ round \in 1..(Len(plan) + 1)
      BY <1>1, <1>3
    <2>2. CASE Aria
      BY <2>1, <2>2 DEF PlanInv, Undecided, InAriaRound
    <2>3. CASE ~Aria
      <3>1. GoodPlan(plan, DOMAIN plan, driver.method)
        BY <1>2, <2>3, PlansAreGood
      <3> QED
        BY <2>1, <2>3, <3>1 DEF PlanInv, Undecided, InAriaRound, GroupRounds
    <2> QED
      BY <2>2, <2>3
  <1>7. ProgressInv
    <2>1. \A t \in Txs : errs[t] = "none"
      OBVIOUS
    <2>2. \A i \in DOMAIN plan : \A g \in plan[i] : \A t \in g : t \in Txs
      BY <1>3
    <2> QED
      BY <1>1, <2>1, <2>2 DEF ProgressInv
  <1>8. HeldInv /\ CommitsInv
    BY <1>1 DEF HeldInv, CommitsInv, Undecided
  <1>9. DatabaseInv
    BY <1>1 DEF DatabaseInv
  <1>10. SawInv /\ StoresInv /\ MergeInv
    BY <1>1 DEF SawInv, StoresInv, MergeInv
  <1> QED
    BY <1>5, <1>6, <1>7, <1>8, <1>9, <1>10 DEF BlockInv, StructureInv

(***************************************************************************)
(* Steps that execute and decide nothing: every word about the plan and    *)
(* the transactions keeps its meaning.                                     *)
(***************************************************************************)
LEMMA SamePlan ==
    ASSUME predictions' = predictions, driver' = driver, plan' = plan
    PROVE  /\ Vertices' = Vertices /\ GroupRounds' = GroupRounds
           /\ (Aria' <=> Aria) /\ (OnDatabase' <=> OnDatabase)
           /\ \A g : Predicted(g)' = Predicted(g) /\ PredictedWrites(g)' = PredictedWrites(g)
           /\ \A t, u : Before(t, u)' <=> Before(t, u)
           /\ GoodPlan(plan, GroupRounds, driver.method)' <=> GoodPlan(plan, GroupRounds, driver.method)
  <1>1. Vertices' = Vertices /\ (Aria' <=> Aria) /\ (OnDatabase' <=> OnDatabase)
    BY DEF Vertices, Aria, OnDatabase
  <1>2. GroupRounds' = GroupRounds
    BY <1>1 DEF GroupRounds
  <1>3. \A g : Predicted(g)' = Predicted(g) /\ PredictedWrites(g)' = PredictedWrites(g)
    BY DEF Predicted, PredictedWrites
  <1>4. \A t, u : Before(t, u)' <=> Before(t, u)
    BY <1>2 DEF Before
  <1>5. \A t, u : Interfere(t, u)' <=> Interfere(t, u)
    BY DEF Interfere
  <1>6. GoodPlan(plan, GroupRounds, driver.method)' <=> GoodPlan(plan, GroupRounds, driver.method)
    <2>1. GoodPlan(plan, GroupRounds, driver.method)' =>
            GoodPlan(plan', GroupRounds', driver.method)
      BY <1>1, <1>5 DEF GoodPlan
    <2>2. GoodPlan(plan', GroupRounds', driver.method) =>
            GoodPlan(plan, GroupRounds, driver.method)'
      BY <1>1, <1>5 DEF GoodPlan
    <2> QED
      BY <1>2, <2>1, <2>2
  <1> QED
    BY <1>1, <1>2, <1>3, <1>4, <1>6

LEMMA SameWords ==
    ASSUME planVars' = planVars, rwSet' = rwSet, errs' = errs, saw' = saw
    PROVE  /\ Accepted' = Accepted /\ \A g : Dirty(g)' = Dirty(g)
           /\ \A t, u : Precedes(t, u)' <=> Precedes(t, u)
           /\ \A txs, k, v : Leaves(txs, k, v)' <=> Leaves(txs, k, v)
           /\ WritesForeseen' <=> WritesForeseen
  <1>1. predictions' = predictions /\ driver' = driver /\ plan' = plan
    BY DEF planVars
  <1>2. Accepted' = Accepted
    BY DEF Accepted
  <1>3. \A g : Dirty(g)' = Dirty(g)
    BY <1>2 DEF Dirty
  <1>4. \A t : AriaRank(t)' = AriaRank(t)
    BY <1>1, <1>2, SamePlan DEF AriaRank
  <1>5. \A t, u : Precedes(t, u)' <=> Precedes(t, u)
    BY <1>1, <1>4, SamePlan DEF Precedes
  <1>6. \A txs, k, v : Leaves(txs, k, v)' <=> Leaves(txs, k, v)
    BY <1>5 DEF Leaves, Value
  <1>7. WritesForeseen' <=> WritesForeseen
    BY <1>1, <1>2, SamePlan DEF WritesForeseen
  <1> QED
    BY <1>2, <1>3, <1>5, <1>6, <1>7

LEMMA MakeFullKeeps ==
    ASSUME BlockInv, MakeFull
    PROVE  BlockInv'
  <1> USE DEF MakeFull
  <1>1. /\ phase = "start" /\ phase' \in {"prefetch", "panic"} /\ round' = round /\ planVars' = planVars
        /\ rwSet' = rwSet /\ errs' = errs /\ saw' = saw /\ wroteBack' = wroteBack /\ state' = state
        /\ predictions' = predictions /\ driver' = driver /\ plan' = plan
    BY DEF planVars, historyVars
  <1>2. round = 1 /\ Accepted = {} /\ Accepted' = {} /\ TypeOK /\ PlanInv /\ ProgressInv /\ DatabaseInv
    <2>1. TypeOK /\ PlanInv /\ ProgressInv /\ DatabaseInv
      BY DEF BlockInv, StructureInv
    <2>2. round = 1 /\ \A t \in Txs : errs[t] = "none"
      BY <1>1, <2>1 DEF ProgressInv
    <2>3. Accepted = {}
      BY <2>2 DEF Accepted
    <2> QED
      BY <1>1, <2>1, <2>2, <2>3, SameWords
  <1>3. state = [k \in Keys |-> InitialValue]
    BY <1>1, <1>2 DEF DatabaseInv
  <1>4. /\ DOMAIN full' \subseteq Keys
        /\ phase' = "prefetch" => \A k \in DOMAIN full' : full'[k] = InitialValue
        /\ phase' = "prefetch" /\ Aria => Vertices = Txs /\ DOMAIN full' = Predicted(Vertices)
    <2>1. CASE OnDatabase
      BY <1>3, <2>1 DEF OnDatabase, Aria
    <2>2. CASE ~OnDatabase /\ Vertices # Txs
      BY <1>1, <1>2, <2>2 DEF TypeOK
    <2>3. CASE ~OnDatabase /\ Vertices = Txs
      <3>1. Predicted(Vertices) \subseteq Keys
        BY <1>2, BlockExecAssumption DEF TypeOK, Predicted, Vertices, RWSets
      <3>2. full' = Fetched(Predicted(Vertices), state)
        BY <2>3
      <3> QED
        BY <1>3, <2>3, <3>1, <3>2 DEF Fetched
    <2> QED
      BY <2>1, <2>2, <2>3
  <1>5. TypeOK'
    BY <1>1, <1>2, <1>4 DEF TypeOK
  <1>6. PlanInv'
    BY <1>1, <1>2, SamePlan DEF PlanInv, Undecided, InAriaRound
  <1>7. ProgressInv'
    BY <1>1, <1>2, SamePlan DEF ProgressInv
  <1>8. HeldInv'
    BY <1>1, <1>2, <1>4, SamePlan DEF HeldInv, Undecided, InAriaRound
  <1>9. CommitsInv'
    BY <1>2 DEF CommitsInv
  <1>10. DatabaseInv'
    BY <1>1, <1>3 DEF DatabaseInv
  <1>11. SawInv' /\ MergeInv'
    BY <1>1, <1>2 DEF SawInv, MergeInv
  <1>12. StoresInv'
    <2>1. Finished' = {}
      BY <1>2 DEF Finished
    <2>2. \A k, v : v = InitialValue => Leaves({}, k, v)'
      BY DEF Leaves
    <2> QED
      BY <1>1, <1>4, <2>1, <2>2 DEF StoresInv
  <1> QED
    BY <1>5, <1>6, <1>7, <1>8, <1>9, <1>10, <1>11, <1>12 DEF BlockInv, StructureInv

LEMMA PrefetchKeeps ==
    ASSUME BlockInv, Prefetch
    PROVE  BlockInv'
  <1> USE DEF Prefetch
  <1>1. /\ phase = "prefetch" /\ phase' = "execute" /\ round' = round /\ planVars' = planVars
        /\ rwSet' = rwSet /\ errs' = errs /\ saw' = saw /\ wroteBack' = wroteBack /\ state' = state
        /\ predictions' = predictions /\ driver' = driver /\ plan' = plan /\ full' = full
    BY DEF planVars, historyVars
  <1>2. TypeOK /\ PlanInv /\ ProgressInv /\ HeldInv /\ DatabaseInv
    BY DEF BlockInv, StructureInv
  <1>3. round \in DOMAIN plan /\ cache' = [g \in plan[round] |-> Fetched(Predicted(g), full)]
    OBVIOUS
  <1>4. /\ Accepted' = Accepted /\ \A g \in plan[round] : \A t \in g : t \notin Accepted
        /\ \A g \in plan[round] : \A t \in g : errs[t] = "none"
    <2>1. \A g \in plan[round] : \A t \in g : errs[t] = "none"
      BY <1>1, <1>2, <1>3 DEF ProgressInv
    <2> QED
      BY <1>1, <2>1, SameWords DEF Accepted
  <1>5. TypeOK' /\ PlanInv'
    <2>1. Undecided' <=> Undecided
      BY <1>1, SamePlan DEF Undecided, InAriaRound
    <2>2. PlanInv'
      BY <1>1, <1>2, <2>1, SamePlan DEF PlanInv
    <2> QED
      BY <1>1, <1>2, <2>2 DEF TypeOK
  <1>7. ProgressInv'
    <2>1. round <= Len(plan)
      BY <1>2, <1>3, RoundsAreNumbers
    <2> QED
      BY <1>1, <1>2, <1>4, <2>1, SamePlan DEF ProgressInv
  <1>8. HeldInv'
    <2>1. Undecided' <=> Undecided
      BY <1>1, SamePlan DEF Undecided, InAriaRound
    <2>2. \A g \in plan[round] : DOMAIN cache'[g] = Predicted(g)
      BY <1>3 DEF Fetched
    <2> QED
      BY <1>1, <1>2, <1>3, <1>4, <2>1, <2>2, SamePlan DEF HeldInv
  <1>9. CommitsInv' /\ DatabaseInv'
    BY <1>1, <1>2 DEF CommitsInv, DatabaseInv
  <1>10. ASSUME Condition'
         PROVE  SawInv' /\ StoresInv' /\ MergeInv'
    <2>1. Condition
      BY <1>1, <1>4, <1>10, SameWords DEF Condition, TouchesFetched
    <2>2. SawInv /\ StoresInv
      BY <2>1 DEF BlockInv
    <2>3. Undecided' <=> Undecided
      BY <1>1, SamePlan DEF Undecided, InAriaRound
    <2>4. SawInv'
      <3>1. \A t : {u \in Accepted : u # t /\ Precedes(u, t)}' = {u \in Accepted : u # t /\ Precedes(u, t)}
        BY <1>1, <1>4, SameWords
      <3> QED
        BY <1>1, <1>4, <2>2, <2>3, <3>1, SameWords DEF SawInv
    <2>5. Finished' = Finished
      BY <1>1, <1>4 DEF Finished
    <2>6. ASSUME NEW g \in plan[round], NEW k \in DOMAIN cache'[g] \cap DOMAIN full
          PROVE  Leaves(Finished \cup (g \cap Accepted), k, cache[g][k])'
      <3>1. g \cap Accepted' = {} /\ Finished' \cup {} = Finished
        BY <1>4, <2>5
      <3>2. cache'[g][k] = full[k]
        BY <1>3, <2>6 DEF Fetched
      <3>3. Leaves(Finished, k, full[k])
        BY <1>1, <2>2, <2>6 DEF StoresInv
      <3>4. Leaves(Finished, k, full[k])'
        BY <1>1, <2>5, <3>3, SameWords
      <3>5. Finished' \cup (g \cap Accepted') = Finished'
        BY <3>1
      <3> QED
        BY <1>1, <3>2, <3>4, <3>5
    <2>7. \A k \in DOMAIN full' : Leaves(Finished, k, full[k])'
      BY <1>1, <2>2, <2>5, SameWords DEF StoresInv
    <2>8. StoresInv'
      BY <1>1, <2>6, <2>7 DEF StoresInv
    <2> QED
      BY <1>1, <2>4, <2>8 DEF MergeInv
  <1> QED
    BY <1>5, <1>7, <1>8, <1>9, <1>10 DEF BlockInv, StructureInv

LEMMA ExecutedKeeps ==
    ASSUME BlockInv, Executed
    PROVE  BlockInv'
  <1> USE DEF Executed
  <1>1. /\ phase = "execute" /\ phase' = "merge" /\ round' = round /\ planVars' = planVars /\ ~InAriaRound
        /\ rwSet' = rwSet /\ errs' = errs /\ saw' = saw /\ wroteBack' = wroteBack /\ state' = state
        /\ predictions' = predictions /\ driver' = driver /\ plan' = plan /\ full' = full /\ cache' = cache
        /\ toMerge' = [g \in plan[round] |-> MergedKeys(g)]
    BY DEF planVars, historyVars, AllExecuted
  <1>2. TypeOK /\ PlanInv /\ ProgressInv /\ HeldInv /\ DatabaseInv
    BY DEF BlockInv, StructureInv
  <1>3. ~Undecided /\ ~Undecided' /\ ~InAriaRound'
    BY <1>1, SamePlan DEF Undecided, InAriaRound
  <1>4. Accepted' = Accepted /\ \A g : MergedKeys(g)' = MergedKeys(g)
    BY <1>1, SameWords DEF MergedKeys
  <1>5. TypeOK' /\ PlanInv' /\ ProgressInv'
    BY <1>1, <1>2, <1>3, <1>4, SamePlan DEF TypeOK, PlanInv, ProgressInv
  <1>6. HeldInv'
    BY <1>1, <1>2, <1>3, <1>4, SamePlan DEF HeldInv
  <1>7. CommitsInv' /\ DatabaseInv'
    BY <1>1, <1>2, <1>3 DEF CommitsInv, DatabaseInv
  <1>8. ASSUME Condition'
        PROVE  SawInv' /\ StoresInv' /\ MergeInv'
    <2>1. Condition
      BY <1>1, <1>4, <1>8, SameWords DEF Condition, TouchesFetched
    <2>2. SawInv /\ StoresInv
      BY <2>1 DEF BlockInv
    <2>3. SawInv'
      <3>1. \A t : {u \in Accepted : u # t /\ Precedes(u, t)}' = {u \in Accepted : u # t /\ Precedes(u, t)}
        BY <1>1, <1>4, SameWords
      <3> QED
        BY <1>1, <1>3, <1>4, <2>2, <3>1, SameWords DEF SawInv
    <2>4. Finished' = Finished
      BY <1>1, <1>4 DEF Finished
    <2>5. StoresInv'
      <3>1. ASSUME NEW g \in plan[round], NEW k \in MergedKeys(g) \cap DOMAIN full
            PROVE  Leaves(Finished \cup (g \cap Accepted), k, cache[g][k])'
        <4>1. k \in DOMAIN cache[g] \cap DOMAIN full
          BY <3>1 DEF MergedKeys
        <4>2. Leaves(Finished \cup (g \cap Accepted), k, cache[g][k])
          BY <1>1, <2>2, <4>1 DEF StoresInv
        <4> QED
          BY <1>1, <1>4, <2>4, <4>2, SameWords
      <3> QED
        BY <1>1, <1>4, <3>1 DEF StoresInv
    <2>6. MergeInv'
      <3>1. ASSUME NEW k \in DOMAIN full
            PROVE  /\ {g \in plan'[round'] : k \in MergedKeys(g)' \ toMerge'[g]} = {}
                   /\ Leaves(Finished, k, full[k])'
        <4>1. Leaves(Finished, k, full[k])
          BY <1>1, <2>2, <3>1 DEF StoresInv
        <4> QED
          BY <1>1, <1>4, <2>4, <4>1, SameWords
      <3> QED
        BY <1>1, <3>1 DEF MergeInv
    <2> QED
      BY <2>3, <2>5, <2>6
  <1> QED
    BY <1>5, <1>6, <1>7, <1>8 DEF BlockInv, StructureInv

LEMMA MergeKeyKeeps ==
    ASSUME BlockInv, NEW g \in plan[round], NEW k \in Keys, MergeKey(g, k)
    PROVE  BlockInv'
  <1> USE DEF MergeKey
  <1>1. /\ phase = "merge" /\ phase' = "merge" /\ round' = round /\ planVars' = planVars
        /\ rwSet' = rwSet /\ errs' = errs /\ saw' = saw /\ wroteBack' = wroteBack /\ state' = state
        /\ predictions' = predictions /\ driver' = driver /\ plan' = plan /\ cache' = cache
        /\ k \in toMerge[g] /\ toMerge' = [toMerge EXCEPT ![g] = @ \ {k}]
        /\ DOMAIN full' = DOMAIN full
        /\ \A key \in DOMAIN full : full'[key] = IF key = k THEN cache[g][k] ELSE full[key]
    BY DEF planVars, historyVars
  <1>2. TypeOK /\ PlanInv /\ ProgressInv /\ HeldInv /\ CommitsInv /\ DatabaseInv
    BY DEF BlockInv, StructureInv
  <1>3. (Undecided' <=> Undecided) /\ ~Undecided /\ (InAriaRound' <=> InAriaRound)
    BY <1>1, SamePlan DEF Undecided, InAriaRound
  <1>4. Accepted' = Accepted /\ \A h : MergedKeys(h)' = MergedKeys(h)
    BY <1>1, SameWords DEF MergedKeys
  <1>5. /\ DOMAIN toMerge = plan[round] /\ DOMAIN toMerge' = plan[round]
        /\ \A h \in plan[round] : toMerge[h] \subseteq MergedKeys(h)
        /\ \A h \in plan[round] : toMerge'[h] = IF h = g THEN toMerge[g] \ {k} ELSE toMerge[h]
    BY <1>1, <1>2 DEF HeldInv
  <1>6. TypeOK' /\ PlanInv' /\ ProgressInv'
    BY <1>1, <1>2, <1>3, <1>4, SamePlan DEF TypeOK, PlanInv, ProgressInv
  <1>7. HeldInv'
    <2>1. \A h \in plan[round] : toMerge'[h] \subseteq MergedKeys(h)
      BY <1>5
    <2> QED
      BY <1>1, <1>2, <1>3, <1>4, <1>5, <2>1, SamePlan DEF HeldInv
  <1>8. CommitsInv' /\ DatabaseInv'
    BY <1>1, <1>2, <1>3, <1>4 DEF CommitsInv, DatabaseInv
  <1>9. ASSUME Condition'
        PROVE  SawInv' /\ StoresInv' /\ MergeInv'
    <2>1. Condition
      BY <1>1, <1>4, <1>9, SameWords DEF Condition, TouchesFetched
    <2>2. SawInv /\ StoresInv /\ MergeInv
      BY <2>1 DEF BlockInv
    <2>3. SawInv'
      <3>1. \A t : {u \in Accepted : u # t /\ Precedes(u, t)}' = {u \in Accepted : u # t /\ Precedes(u, t)}
        BY <1>1, <1>4, SameWords
      <3> QED
        BY <1>1, <1>3, <1>4, <2>2, <3>1, SameWords DEF SawInv
    <2>4. Finished' = Finished
      BY <1>1, <1>4 DEF Finished
    <2>5. StoresInv'
      <3>1. ASSUME NEW h \in plan[round], NEW key \in MergedKeys(h) \cap DOMAIN full
            PROVE  Leaves(Finished \cup (h \cap Accepted), key, cache[h][key])'
        BY <1>1, <1>4, <2>2, <2>4, <3>1, SameWords DEF StoresInv
      <3> QED
        BY <1>1, <1>4, <3>1 DEF StoresInv
    <2>6. ASSUME NEW key \in DOMAIN full
          PROVE  LET merged == {h \in plan'[round'] : key \in MergedKeys(h)' \ toMerge'[h]}
                 IN  IF merged = {} THEN Leaves(Finished, key, full[key])'
                     ELSE \E h \in merged : full'[key] = cache'[h][key]
      <3>1. PICK old, new : /\ old = {h \in plan[round] : key \in MergedKeys(h) \ toMerge[h]}
                            /\ new = {h \in plan'[round'] : key \in MergedKeys(h)' \ toMerge'[h]}
        OBVIOUS
      <3>2. IF old = {} THEN Leaves(Finished, key, full[key])
            ELSE \E h \in old : full[key] = cache[h][key]
        BY <1>1, <2>2, <2>6, <3>1 DEF MergeInv
      <3>3. CASE key = k
        <4>1. g \in new
          BY <1>1, <1>4, <1>5, <3>1, <3>3
        <4>2. full'[key] = cache'[g][key]
          BY <1>1, <2>6, <3>3
        <4> QED
          BY <3>1, <4>1, <4>2
      <3>4. CASE key # k
        <4>1. new = old
          BY <1>1, <1>4, <1>5, <3>1, <3>4
        <4>2. full'[key] = full[key]
          BY <1>1, <2>6, <3>4
        <4>3. Leaves(Finished, key, full[key])' <=> Leaves(Finished, key, full[key])
          BY <1>1, <2>4, <4>2, SameWords
        <4> QED
          BY <1>1, <3>1, <3>2, <4>1, <4>2, <4>3
      <3> QED
        BY <3>3, <3>4
    <2>7. MergeInv'
      BY <1>1, <2>6 DEF MergeInv
    <2> QED
      BY <2>3, <2>5, <2>7
  <1> QED
    BY <1>6, <1>7, <1>8, <1>9 DEF BlockInv, StructureInv

LEMMA FinishKeeps ==
    ASSUME BlockInv, Finish
    PROVE  BlockInv'
  <1> USE DEF Finish
  <1>1. /\ phase = "prefetch" /\ phase' = "done" /\ round' = round /\ planVars' = planVars /\ round > Len(plan)
        /\ rwSet' = rwSet /\ errs' = errs /\ saw' = saw /\ wroteBack' = wroteBack
        /\ predictions' = predictions /\ driver' = driver /\ plan' = plan /\ full' = full /\ cache' = cache
    BY DEF planVars, historyVars
  <1>2. TypeOK /\ PlanInv /\ ProgressInv /\ HeldInv /\ DatabaseInv
    BY DEF BlockInv, StructureInv
  <1>3. (Undecided' <=> Undecided)
    BY <1>1, SamePlan DEF Undecided, InAriaRound
  <1>4. Accepted' = Accepted /\ \A g : Dirty(g)' = Dirty(g)
    BY <1>1, SameWords
  <1>5. TypeOK' /\ PlanInv'
    BY <1>1, <1>2, <1>3, <1>4, SamePlan DEF TypeOK, PlanInv
  <1>6. ProgressInv'
    <2>1. round = Len(plan) + 1
      BY <1>1, <1>2, RoundsAreNumbers DEF PlanInv
    <2> QED
      BY <1>1, <1>2, <1>4, <2>1, SamePlan DEF ProgressInv
  <1>7. HeldInv' /\ CommitsInv'
    BY <1>1, <1>2, <1>3, <1>4, SamePlan DEF HeldInv, CommitsInv
  <1>8. DatabaseInv'
    <2>1. state = [k \in Keys |-> InitialValue]
      BY <1>1, <1>2 DEF DatabaseInv
    <2>2. state' = [k \in Keys |->
            IF k \in DOMAIN full /\ (OnDatabase \/ (driver.kind = "older" /\ k[1] \in Dirty(Txs)))
            THEN full[k] ELSE InitialValue]
      BY <2>1
    <2> QED
      BY <1>1, <1>4, <2>2, SamePlan DEF DatabaseInv
  <1>9. ASSUME Condition'
        PROVE  SawInv' /\ StoresInv' /\ MergeInv'
    <2>1. Condition
      BY <1>1, <1>4, <1>9, SameWords DEF Condition, TouchesFetched
    <2>2. SawInv /\ StoresInv
      BY <2>1 DEF BlockInv
    <2>3. SawInv'
      <3>1. \A t : {u \in Accepted : u # t /\ Precedes(u, t)}' = {u \in Accepted : u # t /\ Precedes(u, t)}
        BY <1>1, <1>4, SameWords
      <3> QED
        BY <1>1, <1>3, <1>4, <2>2, <3>1, SameWords DEF SawInv
    <2>4. Finished' = Finished
      BY <1>1, <1>4 DEF Finished
    <2>5. StoresInv'
      BY <1>1, <2>2, <2>4, SameWords DEF StoresInv
    <2> QED
      BY <1>1, <2>3, <2>5 DEF MergeInv
  <1> QED
    BY <1>5, <1>6, <1>7, <1>8, <1>9 DEF BlockInv, StructureInv

\* What is written by an accepted transaction of a round is merged.
LEMMA WritesAreMerged ==
    ASSUME TypeOK, HeldInv, phase = "merge", NEW g \in plan[round], NEW t \in g \cap Accepted,
           NEW k \in rwSet[t].writes
    PROVE  k \in MergedKeys(g)
  <1>1. k \in DOMAIN cache[g]
    BY DEF HeldInv
  <1>2. k[1] \in Dirty(g)
    BY DEF Dirty, DirtyAccounts
  <1> QED
    BY <1>1, <1>2 DEF MergedKeys

LEMMA MergeIsByAccepted ==
    ASSUME NEW g, NEW k \in MergedKeys(g)
    PROVE  \E t \in g : t \in Accepted
  BY DEF MergedKeys, Dirty

\* No other group of the round has written what a cache merges.
LEMMA MergesDoNotClash ==
    ASSUME BlockInv, Condition, phase = "merge", NEW g \in plan[round], NEW h \in plan[round],
           NEW k \in MergedKeys(g), NEW t \in h \cap Accepted, k \in rwSet[t].writes
    PROVE  g = h
  <1>1. TypeOK /\ PlanInv /\ ProgressInv /\ HeldInv /\ CommitsInv
    BY DEF BlockInv, StructureInv
  <1>2. CASE InAriaRound
    <2>1. plan[round] = {{v} : v \in Txs}
      BY <1>1, <1>2 DEF InAriaRound, PlanInv
    <2>2. PICK u, v \in Txs : g = {u} /\ h = {v}
      BY <2>1
    <2>3. t = v /\ u \in Accepted
      BY <2>2, MergeIsByAccepted
    <2>4. ~wroteBack
      BY DEF Condition
    <2>5. u # v => rwSet[v].writes \cap MergedKeys({u}) = {}
      BY <1>1, <1>2, <2>3, <2>4 DEF CommitsInv
    <2> QED
      BY <2>2, <2>3, <2>5
  <1>3. CASE ~InAriaRound
    <2>1. GoodPlan(plan, GroupRounds, driver.method) /\ round \in GroupRounds
      <3>1. ~Undecided
        BY <1>3 DEF Undecided
      <3>2. round \in 1..Len(plan)
        BY <1>1, RoundsAreNumbers DEF PlanInv, ProgressInv
      <3> QED
        BY <1>1, <1>3, <3>1, <3>2, RoundsAreNumbers DEF PlanInv, GroupRounds, InAriaRound
    <2>2. k \in Predicted(g)
      BY <1>1, <1>3 DEF HeldInv, MergedKeys
    <2>3. k \in PredictedWrites(h)
      BY <2>1 DEF Condition, WritesForeseen
    <2> QED
      BY <2>1, <2>2, <2>3, GroupsOfRoundApart
  <1> QED
    BY <1>2, <1>3

\* Only the writers of a key matter to what is left in it.
LEMMA SameWriters ==
    ASSUME NEW A, NEW B, NEW k, NEW v,
           {u \in A : k \in rwSet[u].writes} = {u \in B : k \in rwSet[u].writes}, Leaves(A, k, v)
    PROVE  Leaves(B, k, v)
  BY DEF Leaves

LEMMA EndRoundKeeps ==
    ASSUME BlockInv, EndRound
    PROVE  BlockInv'
  <1> USE DEF EndRound
  <1>1. /\ phase = "merge" /\ phase' = "prefetch" /\ round' = round + 1 /\ planVars' = planVars
        /\ rwSet' = rwSet /\ errs' = errs /\ saw' = saw /\ wroteBack' = wroteBack /\ state' = state
        /\ predictions' = predictions /\ driver' = driver /\ plan' = plan /\ full' = full /\ cache' = cache
        /\ \A g \in plan[round] : toMerge[g] = {}
    BY DEF planVars, historyVars
  <1>2. TypeOK /\ PlanInv /\ ProgressInv /\ HeldInv /\ DatabaseInv
    BY DEF BlockInv, StructureInv
  <1>3. round \in 1..Len(plan) /\ Len(plan) \in Nat /\ DOMAIN plan = 1..Len(plan)
    BY <1>1, <1>2, RoundsAreNumbers DEF PlanInv, ProgressInv
  <1>4. ~Undecided /\ ~Undecided' /\ ~InAriaRound'
    BY <1>1, <1>3 DEF Undecided, InAriaRound
  <1>5. Accepted' = Accepted
    BY <1>1, SameWords
  <1>6. TypeOK' /\ PlanInv'
    BY <1>1, <1>2, <1>3, <1>4, SamePlan DEF TypeOK, PlanInv
  <1>7. ProgressInv'
    <2>1. \A i \in DOMAIN plan : i >= round + 1 => i > round
      BY <1>3
    <2> QED
      BY <1>1, <1>2, <1>3, <1>5, <2>1, SamePlan DEF ProgressInv
  <1>8. HeldInv' /\ CommitsInv' /\ DatabaseInv'
    BY <1>1, <1>2, <1>4, <1>5, SamePlan DEF HeldInv, CommitsInv, DatabaseInv
  <1>9. ASSUME Condition'
        PROVE  SawInv' /\ StoresInv' /\ MergeInv'
    <2>1. Condition
      BY <1>1, <1>5, <1>9, SameWords DEF Condition, TouchesFetched
    <2>2. SawInv /\ StoresInv /\ MergeInv
      BY <2>1 DEF BlockInv
    <2>3. SawInv'
      <3>1. \A t : {u \in Accepted : u # t /\ Precedes(u, t)}' = {u \in Accepted : u # t /\ Precedes(u, t)}
        BY <1>1, <1>5, SameWords
      <3> QED
        BY <1>1, <1>4, <1>5, <2>2, <3>1, SameWords DEF SawInv
    <2> DEFINE ended == {t \in Accepted : \E g \in plan[round] : t \in g}
    <2>4. Finished' = Finished \cup ended
      <3>1. \A i \in (round + 1)..Len(plan) : \A g \in plan[i] : \A t \in g : t \notin Accepted
        <4>1. \A i \in (round + 1)..Len(plan) : i \in DOMAIN plan /\ i > round
          BY <1>3
        <4> QED
          BY <1>2, <4>1 DEF ProgressInv, Accepted
      <3>2. \A i \in round..Len(plan) : i = round \/ i \in (round + 1)..Len(plan)
        BY <1>3
      <3>3. round \in round..Len(plan) /\ \A i \in (round + 1)..Len(plan) : i \in round..Len(plan)
        BY <1>3
      <3> QED
        BY <1>1, <1>5, <3>1, <3>2, <3>3 DEF Finished
    <2> HIDE DEF ended
    <2>5. ASSUME NEW k \in DOMAIN full
          PROVE  Leaves(Finished \cup ended, k, full[k])
      <3>1. PICK merged : merged = {g \in plan[round] : k \in MergedKeys(g)}
        OBVIOUS
      <3>2. merged = {g \in plan[round] : k \in MergedKeys(g) \ toMerge[g]}
        BY <1>1, <3>1
      <3>3. IF merged = {} THEN Leaves(Finished, k, full[k])
            ELSE \E g \in merged : full[k] = cache[g][k]
        BY <1>1, <2>2, <2>5, <3>2 DEF MergeInv
      <3>4. ASSUME NEW t \in ended, k \in rwSet[t].writes
            PROVE  \E h \in merged : t \in h \cap Accepted
        BY <1>1, <1>2, <3>1, <3>4, WritesAreMerged DEF ended
      <3>5. CASE merged = {}
        <4>1. {u \in Finished : k \in rwSet[u].writes} = {u \in Finished \cup ended : k \in rwSet[u].writes}
          BY <3>4, <3>5
        <4> QED
          BY <3>3, <3>5, <4>1, SameWriters
      <3>6. CASE merged # {}
        <4>1. PICK g \in merged : full[k] = cache[g][k]
          BY <3>3, <3>6
        <4>2. g \in plan[round] /\ k \in MergedKeys(g)
          BY <3>1, <4>1
        <4>3. Leaves(Finished \cup (g \cap Accepted), k, full[k])
          BY <1>1, <2>2, <2>5, <4>1, <4>2 DEF StoresInv
        <4>4. \A t \in ended : k \in rwSet[t].writes => t \in g \cap Accepted
          BY <1>1, <2>1, <3>1, <3>4, <4>2, MergesDoNotClash
        <4>5. \A t \in g \cap Accepted : t \in ended
          BY <4>2 DEF ended
        <4>6. {u \in Finished \cup (g \cap Accepted) : k \in rwSet[u].writes}
                = {u \in Finished \cup ended : k \in rwSet[u].writes}
          BY <4>4, <4>5
        <4> QED
          BY <4>3, <4>6, SameWriters
      <3> QED
        BY <3>5, <3>6
    <2>6. StoresInv'
      BY <1>1, <2>4, <2>5, SameWords DEF StoresInv
    <2> QED
      BY <1>1, <2>3, <2>6 DEF MergeInv
  <1> QED
    BY <1>6, <1>7, <1>8, <1>9 DEF BlockInv, StructureInv

(***************************************************************************)
(* The decision of an Aria round.                                          *)
(***************************************************************************)
LEMMA GoodPlanShifted ==
    ASSUME NEW p, NEW q, NEW n \in Nat, DOMAIN p = 1..n, NEW method, GoodPlan(p, 1..n, method),
           \A i \in 2..(n + 1) : q[i] = p[i - 1]
    PROVE  /\ GoodPlan(q, 2..(n + 1), method)
           /\ \A i \in 2..(n + 1) : \A g \in q[i] : g \subseteq Vertices
  <1>3. \A i \in 2..(n + 1) : i - 1 \in 1..n /\ q[i] = p[i - 1] /\ i \in Nat
    OBVIOUS
  <1>4. \A i \in 1..n : i + 1 \in 2..(n + 1) /\ q[i + 1] = p[i]
    BY <1>3
  <1>5. \A i, j \in 2..(n + 1) : (i - 1 < j - 1 <=> i < j) /\ (i - 1 = j - 1 <=> i = j)
    BY <1>3
  <1>6. \A i \in 2..(n + 1) : \A g \in q[i] : g \subseteq Vertices
    BY <1>3 DEF GoodPlan
  <1>7. \A v \in Vertices : \E i \in 2..(n + 1) : \E g \in q[i] : v \in g
    BY <1>4 DEF GoodPlan
  <1>8. ASSUME NEW i \in 2..(n + 1), NEW j \in 2..(n + 1)
        PROVE  /\ \A g \in q[i], h \in q[j] : i # j \/ g # h => g \cap h = {}
               /\ method = "ConnectedComponents" => i = j
               /\ method = "DegreeZero" => \A t, u \in Vertices :
                    {t} \in q[i] /\ {u} \in q[j] /\ Interfere(t, u) /\ t < u => i < j
    <2>1. PICK a, b : a = i - 1 /\ b = j - 1
      OBVIOUS
    <2>2. a \in 1..n /\ b \in 1..n /\ q[i] = p[a] /\ q[j] = p[b]
      BY <1>3, <2>1
    <2>3. (a < b <=> i < j) /\ (a = b <=> i = j)
      BY <1>5, <2>1
    <2>4. \A g \in p[a], h \in p[b] : a # b \/ g # h => g \cap h = {}
      BY <2>2 DEF GoodPlan
    <2>5. method = "ConnectedComponents" => a = b
      BY <2>2 DEF GoodPlan
    <2>6. method = "DegreeZero" => \A t, u \in Vertices :
            {t} \in p[a] /\ {u} \in p[b] /\ Interfere(t, u) /\ t < u => a < b
      BY <2>2 DEF GoodPlan
    <2> QED
      BY <2>2, <2>3, <2>4, <2>5, <2>6
  <1>10. \A i, j \in 2..(n + 1) : \A g \in q[i], h \in q[j] : i # j \/ g # h => g \cap h = {}
    BY <1>8
  <1>11. method = "ConnectedComponents" => \A i, j \in 2..(n + 1) : i = j
    BY <1>8
  <1>12. method = "DegreeZero" => \A i, j \in 2..(n + 1) : \A t, u \in Vertices :
            {t} \in q[i] /\ {u} \in q[j] /\ Interfere(t, u) /\ t < u => i < j
    BY <1>8
  <1>13. \A i \in 2..(n + 1) : \A g, h \in q[i] : g # h => \A t \in g, u \in h : ~Interfere(t, u)
    BY <1>3 DEF GoodPlan
  <1>14. method # "ConnectedComponents" => \A i \in 2..(n + 1) : \A g \in q[i] : \A t \in g : g = {t}
    BY <1>3 DEF GoodPlan
  <1>15. GoodPlan(q, 2..(n + 1), method)
    BY <1>6, <1>7, <1>10, <1>11, <1>12, <1>13, <1>14, Zenon DEF GoodPlan
  <1> QED
    BY <1>6, <1>15

\* The plan of the round, and after it that of the transactions returned.
LEMMA ShiftedPlan ==
    \A p, first \in Seq(SUBSET SUBSET Txs) : \A q, method :
        Len(first) = 1 /\ q = first \o p /\ GoodPlan(p, DOMAIN p, method) =>
            /\ q \in Seq(SUBSET SUBSET Txs) /\ Len(q) = Len(p) + 1 /\ q[1] = first[1]
            /\ GoodPlan(q, 2..Len(q), method)
            /\ \A i \in 2..Len(q) : \A g \in q[i] : g \subseteq Vertices
  <1> SUFFICES ASSUME NEW p \in Seq(SUBSET SUBSET Txs), NEW first \in Seq(SUBSET SUBSET Txs),
                      NEW q, NEW method,
                      Len(first) = 1, q = first \o p, GoodPlan(p, DOMAIN p, method)
               PROVE  /\ q \in Seq(SUBSET SUBSET Txs) /\ Len(q) = Len(p) + 1 /\ q[1] = first[1]
                      /\ GoodPlan(q, 2..Len(q), method)
                      /\ \A i \in 2..Len(q) : \A g \in q[i] : g \subseteq Vertices
    OBVIOUS
  <1>1. PICK n : n = Len(p) /\ n \in Nat /\ DOMAIN p = 1..n
    OBVIOUS
  <1>2. /\ q \in Seq(SUBSET SUBSET Txs) /\ Len(q) = 1 + n
        /\ \A i \in 1..(1 + n) : q[i] = IF i <= 1 THEN first[i] ELSE p[i - 1]
    <2>1. PICK S : S = SUBSET SUBSET Txs
      OBVIOUS
    <2>2. p \in Seq(S) /\ first \in Seq(S)
      BY <2>1
    <2>3. q \in Seq(S)
      BY <2>2, ConcatProperties
    <2>4. Len(q) = 1 + n
      BY <1>1, <2>2, ConcatProperties
    <2>5. \A i \in 1..(1 + n) : q[i] = IF i <= 1 THEN first[i] ELSE p[i - 1]
      <3>1. \A i \in 1..(Len(first) + Len(p)) :
                (first \o p)[i] = IF i <= Len(first) THEN first[i] ELSE p[i - Len(first)]
        BY <2>2, ConcatProperties
      <3> QED
        BY <1>1, <3>1
    <2> QED
      BY <2>1, <2>3, <2>4, <2>5
  <1>3. q[1] = first[1] /\ Len(q) = n + 1 /\ \A i \in 2..(n + 1) : q[i] = p[i - 1]
    BY <1>1, <1>2
  <1>4. GoodPlan(p, 1..n, method)
    BY <1>1
  <1>5. /\ GoodPlan(q, 2..(n + 1), method)
        /\ \A i \in 2..(n + 1) : \A g \in q[i] : g \subseteq Vertices
    BY <1>1, <1>3, <1>4, GoodPlanShifted
  <1> QED
    BY <1>1, <1>2, <1>3, <1>5

\* The same of the plans after a step.
LEMMA PlansAreGoodNext ==
    (\A method \in Methods : \A p \in Plans(method) :
        p \in Seq(SUBSET SUBSET Txs) /\ GoodPlan(p, DOMAIN p, method))'
  BY PlansAreGood, PTL

LEMMA ShiftedPlanNext ==
    (\A p, first \in Seq(SUBSET SUBSET Txs) : \A q, method :
        Len(first) = 1 /\ q = first \o p /\ GoodPlan(p, DOMAIN p, method) =>
            /\ q \in Seq(SUBSET SUBSET Txs) /\ Len(q) = Len(p) + 1 /\ q[1] = first[1]
            /\ GoodPlan(q, 2..Len(q), method)
            /\ \A i \in 2..Len(q) : \A g \in q[i] : g \subseteq Vertices)'
  BY ShiftedPlan, PTL

LEMMA PlanAfterDecision ==
    ASSUME BlockInv, AriaDecide
    PROVE  /\ plan' \in Seq(SUBSET SUBSET Txs) /\ plan'[1] = plan[1] /\ Len(plan') > 0
           /\ GoodPlan(plan, 2..Len(plan), driver.method)'
           /\ \A i \in 2..Len(plan') : \A g \in plan'[i] : g \subseteq Vertices'
  <1>1. TypeOK /\ PlanInv /\ InAriaRound /\ phase = "execute"
    BY DEF BlockInv, StructureInv, AriaDecide, AllExecuted
  <1>2. plan \in Seq(SUBSET SUBSET Txs) /\ Len(plan) = 1 /\ Aria /\ driver.method \in Methods /\ driver' = driver
    BY <1>1 DEF TypeOK, PlanInv, Undecided, InAriaRound, AriaDecide
  <1>3. PICK p : p \in Plans(driver.method)' /\ plan' = plan \o p
    BY DEF AriaDecide
  <1>5. PICK first, q, method : first = plan /\ q = plan' /\ method = driver.method
    OBVIOUS
  <1>6. p \in Seq(SUBSET SUBSET Txs) /\ GoodPlan(p, DOMAIN p, method)'
    BY <1>2, <1>3, <1>5, PlansAreGoodNext
  <1>8. /\ q \in Seq(SUBSET SUBSET Txs) /\ Len(q) = Len(p) + 1 /\ q[1] = first[1]
        /\ GoodPlan(q, 2..Len(q), method)'
        /\ \A i \in 2..Len(q) : \A g \in q[i] : g \subseteq Vertices'
    <2>1. first \in Seq(SUBSET SUBSET Txs) /\ Len(first) = 1 /\ q = first \o p
      BY <1>2, <1>3, <1>5
    <2> QED
      BY <1>6, <2>1, ShiftedPlanNext
  <1>9. Len(p) \in Nat
    BY <1>6
  <1> QED
    BY <1>2, <1>5, <1>8, <1>9

\* What the decision leaves as it was, and what it changes.
LEMMA DecisionFacts ==
    ASSUME BlockInv, AriaDecide, NEW rest, rest = {t \in Txs : Returned(t)}
    PROVE  /\ InAriaRound /\ InAriaRound' /\ Undecided /\ ~Undecided' /\ Aria' /\ round = 1 /\ round' = 1
           /\ phase = "execute" /\ phase' = "merge" /\ plan[1] = {{t} : t \in Txs}
           /\ plan'[1] = {{t} : t \in Txs} /\ GroupRounds' = 2..Len(plan')
           /\ Accepted' = Accepted \ rest /\ Vertices' = rest
           /\ \A t \in Txs : MergedKeys({t})' = IF t \in rest THEN {} ELSE MergedKeys({t})
           /\ toMerge' = [g \in plan[1] |-> MergedKeys(g)']
           /\ \A i \in 2..Len(plan') : \A g \in plan'[i] : g \subseteq rest
  <1>1. /\ InAriaRound /\ phase = "execute" /\ phase' = "merge" /\ driver' = driver /\ round' = round
        /\ rwSet' = rwSet /\ cache' = cache
        /\ predictions' = [t \in Txs |-> IF t \in rest THEN rwSet[t] ELSE NoPrediction]
        /\ errs' = [t \in Txs |-> IF t \in rest THEN "none" ELSE errs[t]]
        /\ toMerge' = [g \in plan[1] |-> IF g \subseteq rest THEN {} ELSE MergedKeys(g)]
    BY DEF AriaDecide, AllExecuted
  <1>2. TypeOK /\ PlanInv
    BY DEF BlockInv, StructureInv
  <1>3. Aria /\ Aria' /\ round = 1 /\ round' = 1 /\ InAriaRound' /\ Undecided /\ ~Undecided'
    BY <1>1 DEF InAriaRound, Aria, Undecided
  <1>4. plan[1] = {{t} : t \in Txs}
    BY <1>2, <1>3 DEF PlanInv
  <1>5. plan'[1] = plan[1] /\ \A i \in 2..Len(plan') : \A g \in plan'[i] : g \subseteq Vertices'
    BY PlanAfterDecision
  <1>6. GroupRounds' = 2..Len(plan')
    BY <1>3 DEF GroupRounds
  <1>7. Accepted' = Accepted \ rest
    BY <1>1 DEF Accepted
  <1>8. Vertices' = rest
    <2>1. \A t \in Txs : rwSet[t] # NoPrediction
      BY <1>2, BlockExecAssumption DEF TypeOK
    <2> QED
      BY <1>1, <2>1 DEF Vertices
  <1>9. ASSUME NEW t \in Txs
        PROVE  MergedKeys({t})' = IF t \in rest THEN {} ELSE MergedKeys({t})
    <2>1. {t} \cap Accepted' = IF t \in rest THEN {} ELSE {t} \cap Accepted
      BY <1>7
    <2>2. Dirty({t})' = IF t \in rest THEN {} ELSE Dirty({t})
      BY <1>1, <2>1 DEF Dirty
    <2> QED
      BY <1>1, <2>2 DEF MergedKeys
  <1>10. toMerge' = [g \in plan[1] |-> MergedKeys(g)']
    <2>1. ASSUME NEW g \in plan[1]
          PROVE  MergedKeys(g)' = IF g \subseteq rest THEN {} ELSE MergedKeys(g)
      <3>1. PICK t \in Txs : g = {t}
        BY <1>4, <2>1
      <3>2. g \subseteq rest <=> t \in rest
        BY <3>1
      <3> QED
        BY <1>9, <3>1, <3>2
    <2> QED
      BY <1>1, <2>1
  <1> QED
    BY <1>1, <1>3, <1>4, <1>5, <1>6, <1>7, <1>8, <1>9, <1>10

\* Two transactions that a round commits do not write the same slot, and one
\* that has read what a lower one writes has written nothing a lower one read.
LEMMA CommittedTogether ==
    ASSUME TypeOK, NEW t \in Txs, NEW u \in Txs, u < t, ~Returned(t)
    PROVE  /\ rwSet[t].writes \cap rwSet[u].writes = {}
           /\ \A w \in Txs : w < t =>
                rwSet[t].writes \cap rwSet[u].reads = {} \/ rwSet[t].reads \cap rwSet[w].writes = {}
  BY DEF Returned

LEMMA AriaDecideStructure ==
    ASSUME BlockInv, AriaDecide
    PROVE  StructureInv'
  <1>1. PICK rest : rest = {t \in Txs : Returned(t)}
    OBVIOUS
  <1>2. /\ InAriaRound /\ InAriaRound' /\ Undecided /\ ~Undecided' /\ Aria' /\ round = 1 /\ round' = 1
        /\ phase = "execute" /\ phase' = "merge" /\ plan[1] = {{t} : t \in Txs}
        /\ plan'[1] = {{t} : t \in Txs} /\ GroupRounds' = 2..Len(plan')
        /\ Accepted' = Accepted \ rest /\ Vertices' = rest
        /\ \A t \in Txs : MergedKeys({t})' = IF t \in rest THEN {} ELSE MergedKeys({t})
        /\ toMerge' = [g \in plan[1] |-> MergedKeys(g)']
        /\ \A i \in 2..Len(plan') : \A g \in plan'[i] : g \subseteq rest
    BY <1>1, DecisionFacts
  <1>3. /\ driver' = driver /\ rwSet' = rwSet /\ cache' = cache /\ full' = full /\ state' = state /\ saw' = saw
        /\ predictions' = [t \in Txs |-> IF t \in rest THEN rwSet[t] ELSE NoPrediction]
        /\ errs' = [t \in Txs |-> IF t \in rest THEN "none" ELSE errs[t]]
        /\ wroteBack' = \E t, u \in Accepted \ rest : t # u /\ rwSet[t].writes \cap MergedKeys({u}) # {}
    BY <1>1 DEF AriaDecide
  <1>4. TypeOK /\ PlanInv /\ ProgressInv /\ HeldInv /\ DatabaseInv
    BY DEF BlockInv, StructureInv
  <1>5. /\ plan' \in Seq(SUBSET SUBSET Txs) /\ Len(plan') > 0 /\ Len(plan') \in Nat /\ DOMAIN plan' = 1..Len(plan')
        /\ GoodPlan(plan, 2..Len(plan), driver.method)'
    BY PlanAfterDecision
  <1>6. TypeOK'
    <2>1. predictions' \in [Txs -> RWSets \cup {NoPrediction}]
      BY <1>3, <1>4 DEF TypeOK
    <2>2. errs' \in [Txs -> {"none", "nil", "ErrFalsePredict", "rejected"}]
      BY <1>3, <1>4 DEF TypeOK
    <2> QED
      BY <1>2, <1>3, <1>4, <1>5, <2>1, <2>2 DEF TypeOK
  <1>7. PlanInv'
    BY <1>2, <1>5 DEF PlanInv, GroupRounds
  <1>8. ProgressInv'
    <2>1. ASSUME NEW i \in DOMAIN plan', i > 1, NEW g \in plan'[i], NEW t \in g
          PROVE  errs'[t] = "none"
      <3>1. i \in 2..Len(plan')
        BY <1>5, <2>1
      <3>2. t \in rest
        BY <1>2, <2>1, <3>1
      <3> QED
        BY <1>1, <1>3, <3>2
    <2> QED
      BY <1>2, <1>5, <2>1 DEF ProgressInv
  <1>9. HeldInv'
    <2>1. \A i \in 2..Len(plan') : \A g \in plan'[i] : g \cap Accepted' = {}
      BY <1>2
    <2>2. DOMAIN cache = plan[1] /\ \A g \in plan[1] : \A t \in g \cap Accepted' :
                rwSet[t].reads \cup rwSet[t].writes \subseteq DOMAIN cache[g]
      BY <1>2, <1>4 DEF HeldInv
    <2>3. DOMAIN toMerge' = plan[1] /\ \A g \in plan[1] : toMerge'[g] \subseteq MergedKeys(g)'
      BY <1>2
    <2> QED
      BY <1>2, <1>3, <2>1, <2>2, <2>3 DEF HeldInv
  <1>10. CommitsInv'
    <2>1. ASSUME NEW t \in Accepted \ rest, NEW u \in Accepted \ rest, t # u
          PROVE  rwSet[t].writes \cap rwSet[u].writes = {}
      <3>1. t \in Txs /\ u \in Txs /\ ~Returned(t) /\ ~Returned(u) /\ t \in Nat /\ u \in Nat
        BY <1>1, <2>1, VerticesAreNumbers DEF Accepted
      <3>2. u < t \/ t < u
        BY <2>1, <3>1
      <3> QED
        BY <1>4, <3>1, <3>2, CommittedTogether
    <2>2. ASSUME ~wroteBack', NEW t \in Accepted \ rest, NEW u \in Accepted \ rest, t # u
          PROVE  rwSet[t].writes \cap MergedKeys({u})' = {}
      <3>1. u \in Txs /\ u \notin rest
        BY <2>2 DEF Accepted
      <3>2. MergedKeys({u})' = MergedKeys({u})
        BY <1>2, <3>1
      <3> QED
        BY <1>3, <2>2, <3>2
    <2> QED
      BY <1>2, <1>3, <2>1, <2>2 DEF CommitsInv
  <1>11. DatabaseInv'
    BY <1>2, <1>3, <1>4 DEF DatabaseInv
  <1> QED
    BY <1>6, <1>7, <1>8, <1>9, <1>10, <1>11 DEF StructureInv

\* Before the decision the condition holds, and nobody is finished.
LEMMA UndecidedFacts ==
    ASSUME BlockInv, Undecided, phase = "execute"
    PROVE  Condition /\ Finished = {} /\ Vertices = Txs /\ plan[round] = {{t} : t \in Txs} /\ round = 1
  <1>1. TypeOK /\ PlanInv /\ HeldInv
    BY DEF BlockInv, StructureInv
  <1>2. Aria /\ round = 1 /\ Len(plan) = 1 /\ ~wroteBack /\ plan[1] = {{t} : t \in Txs}
    BY <1>1 DEF Undecided, InAriaRound, PlanInv
  <1>3. Vertices = Txs /\ DOMAIN full = Predicted(Vertices)
    BY <1>1 DEF HeldInv
  <1>4. GroupRounds = {}
    BY <1>2 DEF GroupRounds
  <1>5. TouchesFetched
    <2>1. ASSUME NEW t \in Accepted
          PROVE  rwSet[t].reads \cup rwSet[t].writes \subseteq DOMAIN full
      <3>1. {t} \in plan[round] /\ t \in Txs
        BY <1>2 DEF Accepted
      <3>2. rwSet[t].reads \cup rwSet[t].writes \subseteq DOMAIN cache[{t}]
        BY <1>1, <2>1, <3>1 DEF HeldInv
      <3>3. DOMAIN cache[{t}] = Predicted({t})
        BY <1>1, <3>1 DEF HeldInv
      <3>4. Predicted({t}) \subseteq Predicted(Vertices)
        BY <1>3, <3>1 DEF Predicted
      <3> QED
        BY <1>3, <3>2, <3>3, <3>4
    <2> QED
      BY <2>1 DEF TouchesFetched
  <1>6. Condition
    BY <1>2, <1>4, <1>5 DEF Condition, WritesForeseen
  <1>7. Finished = {}
    <2>1. round \in round..Len(plan) /\ \A t \in Accepted : {t} \in plan[round]
      BY <1>2 DEF Accepted
    <2> QED
      BY <2>1 DEF Finished
  <1> QED
    BY <1>2, <1>3, <1>6, <1>7

\* No order matters to what one transaction leaves.
LEMMA LeavesAlone ==
    ASSUME NEW t, NEW k, NEW v
    PROVE  /\ Leaves({}, k, v) <=> v = InitialValue
           /\ Leaves({t}, k, v) <=> v = IF k \in rwSet[t].writes THEN Value(t) ELSE InitialValue
  BY DEF Leaves

LEMMA LeavesAloneNext ==
    (\A t, k, v :
        /\ Leaves({}, k, v) <=> v = InitialValue
        /\ Leaves({t}, k, v) <=> v = IF k \in rwSet[t].writes THEN Value(t) ELSE InitialValue)'
  <1>1. \A t, k, v :
        /\ Leaves({}, k, v) <=> v = InitialValue
        /\ Leaves({t}, k, v) <=> v = IF k \in rwSet[t].writes THEN Value(t) ELSE InitialValue
    BY LeavesAlone
  <1> QED
    BY <1>1, PTL

\* In the order of Aria's commits everybody reads a slot before it is written.
LEMMA CommitsReadFirst ==
    ASSUME BlockInv, AriaDecide, NEW rest, rest = {t \in Txs : Returned(t)},
           NEW t \in Accepted \ rest, NEW u \in Accepted \ rest, t # u,
           NEW r \in rwSet[t].reads, r \in rwSet[u].writes
    PROVE  ~Precedes(u, t)'
  <1>1. Accepted' = Accepted \ rest /\ Vertices' = rest /\ rwSet' = rwSet
    BY DecisionFacts DEF AriaDecide
  <1>2. TypeOK /\ t \in Txs /\ u \in Txs /\ t \in Nat /\ u \in Nat /\ ~Returned(t) /\ ~Returned(u)
    BY VerticesAreNumbers DEF Accepted, BlockInv, StructureInv
  <1>3. \A v \in Txs : AriaRank(v)' =
            IF \E w \in Accepted \ rest : w < v /\ rwSet[v].reads \cap rwSet[w].writes # {} THEN -1 - v ELSE v
    <2>1. Accepted' \ Vertices' = Accepted \ rest
      BY <1>1
    <2> QED
      BY <1>1, <2>1 DEF AriaRank
  <1>4. ~(AriaRank(u)' < AriaRank(t)')
    <2>1. CASE u < t
      <3>1. AriaRank(t)' = -1 - t
        BY <1>2, <1>3, <2>1
      <3>2. AriaRank(u)' = -1 - u \/ AriaRank(u)' = u
        BY <1>2, <1>3
      <3> QED
        BY <1>2, <2>1, <3>1, <3>2
    <2>2. CASE t < u
      <3>1. \A w \in Txs : w < u => rwSet[u].reads \cap rwSet[w].writes = {}
        BY <1>2, <2>2, CommittedTogether
      <3>2. Accepted \subseteq Txs
        BY DEF Accepted
      <3>3. AriaRank(u)' = u
        BY <1>2, <1>3, <3>1, <3>2
      <3>4. AriaRank(t)' = -1 - t \/ AriaRank(t)' = t
        BY <1>2, <1>3
      <3> QED
        BY <1>2, <2>2, <3>3, <3>4
    <2> QED
      BY <1>2, <2>1, <2>2
  <1> QED
    BY <1>1, <1>4 DEF Precedes

LEMMA AriaDecideKeeps ==
    ASSUME BlockInv, AriaDecide
    PROVE  BlockInv'
  <1>1. PICK rest : rest = {t \in Txs : Returned(t)}
    OBVIOUS
  <1>2. /\ Undecided /\ ~Undecided' /\ round = 1 /\ round' = 1 /\ Accepted' = Accepted \ rest
        /\ phase = "execute" /\ phase' = "merge" /\ plan'[1] = {{t} : t \in Txs}
        /\ \A t \in Txs : MergedKeys({t})' = IF t \in rest THEN {} ELSE MergedKeys({t})
        /\ toMerge' = [g \in plan[1] |-> MergedKeys(g)']
    BY <1>1, DecisionFacts
  <1>3. rwSet' = rwSet /\ cache' = cache /\ full' = full /\ saw' = saw
    BY DEF AriaDecide
  <1>4. Condition /\ Finished = {} /\ plan[1] = {{t} : t \in Txs}
    BY <1>2, UndecidedFacts
  <1>5. SawInv /\ StoresInv
    BY <1>4 DEF BlockInv
  <1>6. Finished' = {}
    <2>1. Len(plan') \in Nat /\ Len(plan') > 0
      BY PlanAfterDecision
    <2>2. 1 \in round'..Len(plan') /\ \A t \in Accepted' : {t} \in plan'[1]
      BY <1>2, <2>1 DEF Accepted
    <2> QED
      BY <2>2 DEF Finished
  <1>7. SawInv'
    <2>1. ASSUME NEW t \in Accepted'
          PROVE  /\ saw'[t] = [r \in rwSet'[t].reads |-> saw'[t][r]]
                 /\ \A r \in rwSet'[t].reads :
                        Leaves({u \in Accepted : u # t /\ Precedes(u, t)}, r, saw[t][r])'
      <3>1. /\ saw[t] = [r \in rwSet[t].reads |-> saw[t][r]]
            /\ \A r \in rwSet[t].reads : saw[t][r] = InitialValue
        BY <1>2, <1>5, <2>1 DEF SawInv
      <3>2. ASSUME NEW r \in rwSet[t].reads, NEW u \in Accepted', u # t, Precedes(u, t)'
            PROVE  r \notin rwSet'[u].writes
        BY <1>1, <1>2, <1>3, <2>1, <3>2, CommitsReadFirst
      <3>3. ASSUME NEW r \in rwSet[t].reads
            PROVE  Leaves({u \in Accepted : u # t /\ Precedes(u, t)}, r, saw[t][r])'
        BY <1>3, <3>1, <3>2, <3>3 DEF Leaves
      <3> QED
        BY <1>3, <3>1, <3>3
    <2> QED
      BY <1>2, <2>1 DEF SawInv
  <1>8. StoresInv'
    <2>1. ASSUME NEW g \in plan'[1], NEW k \in MergedKeys(g)' \cap DOMAIN full
          PROVE  Leaves(Finished \cup (g \cap Accepted), k, cache[g][k])'
      <3>1. PICK t \in Txs : g = {t}
        BY <1>2, <2>1
      <3>2. t \notin rest /\ k \in MergedKeys({t})
        BY <1>2, <2>1, <3>1
      <3>3. t \in Accepted
        BY <3>2, MergeIsByAccepted
      <3>4. Leaves(Finished \cup (g \cap Accepted), k, cache[g][k])
        <4>1. k \in DOMAIN cache[g] \cap DOMAIN full /\ g \in plan[round]
          BY <1>2, <1>4, <2>1, <3>1, <3>2 DEF MergedKeys
        <4> QED
          BY <1>2, <1>5, <4>1 DEF StoresInv
      <3>5. Finished \cup (g \cap Accepted) = {t} /\ Finished' \cup (g \cap Accepted') = {t}
        BY <1>2, <1>4, <1>6, <3>1, <3>2, <3>3
      <3>6. cache[g][k] = IF k \in rwSet[t].writes THEN Value(t) ELSE InitialValue
        BY <3>4, <3>5, LeavesAlone
      <3>7. cache'[g][k] = IF k \in rwSet'[t].writes THEN Value(t)' ELSE InitialValue
        BY <1>3, <3>6 DEF Value
      <3> QED
        BY <3>5, <3>7, LeavesAloneNext
    <2> QED
      BY <1>2, <1>3, <2>1 DEF StoresInv
  <1>9. MergeInv'
    <2>1. ASSUME NEW k \in DOMAIN full
          PROVE  /\ {g \in plan'[round'] : k \in MergedKeys(g)' \ toMerge'[g]} = {}
                 /\ Leaves(Finished, k, full[k])'
      <3>1. Leaves(Finished, k, full[k])
        BY <1>2, <1>5, <2>1 DEF StoresInv
      <3>2. full'[k] = InitialValue
        BY <1>3, <1>4, <3>1, LeavesAlone
      <3> QED
        BY <1>2, <1>4, <1>6, <3>2, LeavesAloneNext
    <2> QED
      BY <1>3, <2>1 DEF MergeInv
  <1> QED
    BY <1>7, <1>8, <1>9, AriaDecideStructure DEF BlockInv

(***************************************************************************)
(* The execution of a transaction.                                         *)
(***************************************************************************)

\* While the groups of a round execute: which round that is.
LEMMA ExecutingRound ==
    ASSUME TypeOK, PlanInv, ProgressInv, HeldInv, phase = "execute"
    PROVE  /\ round \in DOMAIN plan /\ round \in 1..Len(plan) /\ DOMAIN plan = 1..Len(plan) /\ Len(plan) \in Nat
           /\ \A g \in plan[round] : g \subseteq Vertices /\ g \subseteq Txs
           /\ \A g, h \in plan[round] : g # h => g \cap h = {}
           /\ Undecided => round = 1 /\ Len(plan) = 1 /\ plan[round] = {{t} : t \in Txs} /\ GroupRounds = {}
           /\ ~Undecided => round \in GroupRounds /\ GoodPlan(plan, GroupRounds, driver.method)
  <1>1. round \in 1..Len(plan) /\ DOMAIN plan = 1..Len(plan) /\ Len(plan) \in Nat
    BY RoundsAreNumbers DEF PlanInv, ProgressInv
  <1>2. CASE Undecided
    <2>1. round = 1 /\ Len(plan) = 1 /\ Aria /\ plan[1] = {{t} : t \in Txs} /\ Vertices = Txs
      BY <1>2 DEF Undecided, InAriaRound, PlanInv, HeldInv
    <2>2. GroupRounds = {}
      BY <2>1 DEF GroupRounds
    <2>3. \A g \in plan[round] : g \subseteq Txs
      BY <2>1
    <2>4. ASSUME NEW g \in plan[round], NEW h \in plan[round], g # h
          PROVE  g \cap h = {}
      <3>1. PICK t \in Txs, u \in Txs : g = {t} /\ h = {u}
        BY <2>1, <2>4
      <3> QED
        BY <2>4, <3>1
    <2> QED
      BY <1>1, <1>2, <2>1, <2>2, <2>3, <2>4
  <1>3. CASE ~Undecided
    <2>1. round \in GroupRounds
      BY <1>1, <1>3 DEF GroupRounds, Undecided, InAriaRound
    <2>2. GoodPlan(plan, GroupRounds, driver.method)
      BY <1>3 DEF PlanInv
    <2>3. \A g \in plan[round] : g \subseteq Vertices
      BY <2>1, <2>2 DEF GoodPlan
    <2>4. \A g, h \in plan[round] : g # h => g \cap h = {}
      BY <2>1, <2>2 DEF GoodPlan
    <2> QED
      BY <1>1, <1>3, <2>1, <2>2, <2>3, <2>4, VerticesAreNumbers
  <1> QED
    BY <1>2, <1>3

\* What one execution does, in one place.
Ran(g, t, rw, err) ==
    /\ g \in plan[round] /\ phase = "execute"
    /\ t \in g /\ t \in Txs /\ t \in Vertices /\ errs[t] = "none"
    /\ \A u \in g : u < t => errs[u] # "none"
    /\ rw \in RWSets /\ err \in {"nil", "ErrFalsePredict", "rejected"}
    /\ err = "nil" => rw.reads \cup rw.writes \subseteq DOMAIN cache[g]
    /\ rwSet' = [u \in Txs |-> IF u = t THEN rw ELSE rwSet[u]]
    /\ errs' = [u \in Txs |-> IF u = t THEN err ELSE errs[u]]
    /\ DOMAIN saw' = Txs /\ \A u \in Txs \ {t} : saw'[u] = saw[u]
    /\ saw'[t] = [k \in rw.reads \cap DOMAIN cache[g] |-> cache[g][k]]
    /\ DOMAIN cache' = plan[round] /\ \A h \in plan[round] \ {g} : cache'[h] = cache[h]
    /\ cache'[g] = IF err = "nil" THEN Written(t, rw, cache[g]) ELSE cache[g]
    /\ DOMAIN cache'[g] = DOMAIN cache[g]
    /\ predictions' = predictions /\ driver' = driver /\ plan' = plan /\ planVars' = planVars
    /\ round' = round /\ phase' = phase /\ toMerge' = toMerge /\ full' = full /\ state' = state
    /\ wroteBack' = wroteBack

LEMMA ExecutionRan ==
    ASSUME BlockInv, NEW g \in plan[round], phase = "execute", Execute(g)
    PROVE  \E t, rw, err : Ran(g, t, rw, err)
  <1>1. TypeOK /\ PlanInv /\ ProgressInv /\ HeldInv
    BY DEF BlockInv, StructureInv
  <1>2. g \subseteq Txs /\ g \subseteq Vertices /\ Txs \subseteq Nat
    BY <1>1, ExecutingRound, VerticesAreNumbers
  <1>3. PICK t : t = NextTx(g)
    OBVIOUS
  <1>4. t \in g /\ errs[t] = "none" /\ \A u \in g : u < t => errs[u] # "none"
    <2>1. PICK waiting : waiting = {u \in g : errs[u] = "none"}
      OBVIOUS
    <2>2. waiting \in SUBSET Nat /\ waiting # {}
      BY <1>2, <2>1 DEF Execute
    <2>3. PICK v \in waiting : \A u \in waiting : v <= u
      BY <2>2, SmallestNumber
    <2>4. \A u \in g : u < v => u \notin waiting
      BY <1>2, <2>1, <2>3
    <2>5. v \in g /\ errs[v] = "none" /\ \A u \in g : u < v => errs[u] # "none"
      BY <2>1, <2>3, <2>4
    <2> QED
      BY <1>3, <2>5 DEF NextTx
  <1>5. PICK rw, err :
            /\ rw \in Behaviours \cup {Empty}
            /\ err = "nil" => rw.reads \cup rw.writes \subseteq DOMAIN cache[g]
            /\ err \in {"nil", "ErrFalsePredict", "rejected"}
            /\ rwSet' = [rwSet EXCEPT ![t] = rw]
            /\ errs' = [errs EXCEPT ![t] = err]
            /\ cache' = [cache EXCEPT ![g] = WrittenIfAccepted(t, rw, err, @)]
            /\ saw' = [saw EXCEPT ![t] = [k \in rw.reads \cap DOMAIN cache[g] |-> cache[g][k]]]
    BY <1>3 DEF Execute
  <1>6. rw \in RWSets
    BY <1>5, BlockExecAssumption DEF Empty, RWSets
  <1>7. DOMAIN cache = plan[round]
    BY <1>1 DEF HeldInv
  <1>8. /\ DOMAIN cache' = plan[round] /\ \A h \in plan[round] \ {g} : cache'[h] = cache[h]
        /\ cache'[g] = IF err = "nil" THEN Written(t, rw, cache[g]) ELSE cache[g]
    BY <1>5, <1>7 DEF WrittenIfAccepted
  <1>9. DOMAIN cache'[g] = DOMAIN cache[g]
    BY <1>8 DEF Written
  <1>10. /\ rwSet' = [u \in Txs |-> IF u = t THEN rw ELSE rwSet[u]]
         /\ errs' = [u \in Txs |-> IF u = t THEN err ELSE errs[u]]
    BY <1>1, <1>5 DEF TypeOK
  <1>11. /\ DOMAIN saw' = Txs /\ \A u \in Txs \ {t} : saw'[u] = saw[u]
         /\ saw'[t] = [k \in rw.reads \cap DOMAIN cache[g] |-> cache[g][k]]
    BY <1>1, <1>2, <1>4, <1>5 DEF TypeOK
  <1>12. /\ predictions' = predictions /\ driver' = driver /\ plan' = plan /\ planVars' = planVars
         /\ round' = round /\ phase' = phase /\ toMerge' = toMerge /\ full' = full /\ state' = state
         /\ wroteBack' = wroteBack
    BY DEF Execute, planVars
  <1>13. Ran(g, t, rw, err)
    BY <1>2, <1>4, <1>5, <1>6, <1>8, <1>9, <1>10, <1>11, <1>12 DEF Ran
  <1> QED
    BY <1>13

LEMMA RanStructure ==
    ASSUME BlockInv, NEW g, NEW t, NEW rw, NEW err, Ran(g, t, rw, err)
    PROVE  /\ StructureInv' /\ Accepted' = IF err = "nil" THEN Accepted \cup {t} ELSE Accepted
           /\ t \notin Accepted /\ Finished' = Finished /\ t \notin Finished
           /\ (Undecided' <=> Undecided)
  <1> USE DEF Ran
  <1>1. TypeOK /\ PlanInv /\ ProgressInv /\ HeldInv /\ DatabaseInv
    BY DEF BlockInv, StructureInv
  <1>2. Undecided' <=> Undecided
    BY SamePlan DEF Undecided, InAriaRound
  <1>3. t \notin Accepted /\ Accepted' = IF err = "nil" THEN Accepted \cup {t} ELSE Accepted
    BY DEF Accepted
  <1>4. round \in 1..Len(plan) /\ Len(plan) \in Nat
    BY <1>1, ExecutingRound
  <1>5. Finished' = Finished /\ t \notin Finished
    <2>1. round \in round..Len(plan)
      BY <1>4
    <2> QED
      BY <1>3, <2>1 DEF Finished
  <1>6. \A h \in plan[round] : t \in h => h = g
    BY <1>1, ExecutingRound
  <1>7. TypeOK'
    <2>1. rwSet' \in [Txs -> RWSets] /\ errs' \in [Txs -> {"none", "nil", "ErrFalsePredict", "rejected"}]
      BY <1>1 DEF TypeOK
    <2> QED
      BY <1>1, <2>1 DEF TypeOK
  <1>8. PlanInv'
    BY <1>1, <1>2, SamePlan DEF PlanInv
  <1>9. ProgressInv'
    <2>1. ASSUME NEW i \in DOMAIN plan, i > round, NEW h \in plan[i], NEW u \in h
          PROVE  errs'[u] = "none"
      <3>1. errs[u] = "none"
        BY <1>1, <2>1 DEF ProgressInv
      <3>2. u \in Txs
        BY <1>1, <2>1 DEF TypeOK
      <3>3. u # t
        <4>1. ~Undecided
          BY <1>1, <1>4, <2>1, ExecutingRound
        <4>2. round \in GroupRounds /\ i \in GroupRounds /\ i # round
          <5>1. round \in GroupRounds
            BY <1>1, <4>1, ExecutingRound
          <5> QED
            BY <1>1, <1>4, <2>1, <5>1, ExecutingRound DEF GroupRounds
        <4>3. GoodPlan(plan, GroupRounds, driver.method)
          BY <1>1, <4>1, ExecutingRound
        <4> QED
          BY <2>1, <4>2, <4>3, GroupsAreDisjoint
      <3> QED
        BY <3>1, <3>2, <3>3
    <2>2. ASSUME NEW h \in plan[round], NEW u \in h, NEW w \in h, w < u, errs'[w] = "none"
          PROVE  errs'[u] = "none"
      <3>1. u \in Txs /\ w \in Txs /\ Txs \subseteq Nat
        BY <1>1, <2>2, ExecutingRound, VerticesAreNumbers
      <3>2. w # t /\ errs[w] = "none"
        BY <2>2, <3>1
      <3>3. errs[u] = "none"
        BY <1>1, <2>2, <3>2 DEF ProgressInv
      <3>4. u # t
        BY <1>6, <2>2, <3>2
      <3> QED
        BY <3>1, <3>3, <3>4
    <2>3. ~Aria => Accepted' \subseteq Vertices
      BY <1>1, <1>3 DEF ProgressInv
    <2> QED
      BY <1>1, <1>4, <2>1, <2>2, <2>3, SamePlan DEF ProgressInv
  <1>10. HeldInv'
    <2>1. \A h \in plan[round] : DOMAIN cache'[h] = DOMAIN cache[h] /\ DOMAIN cache[h] = Predicted(h)
      BY <1>1 DEF HeldInv
    <2>2. ASSUME NEW i \in GroupRounds, NEW h \in plan[i], NEW u \in h, u \in Accepted'
          PROVE  rwSet'[u].reads \cup rwSet'[u].writes \subseteq Predicted(h)
      <3>1. CASE u = t
        <4>1. ~Undecided
          BY <1>1, <2>2, ExecutingRound
        <4>2. round \in GroupRounds /\ GoodPlan(plan, GroupRounds, driver.method)
          BY <1>1, <4>1, ExecutingRound
        <4>3. h = g
          BY <2>2, <3>1, <4>2, GroupsAreDisjoint
        <4>4. err = "nil"
          BY <1>3, <2>2, <3>1
        <4> QED
          BY <2>1, <3>1, <4>3, <4>4
      <3>2. CASE u # t
        <4>1. u \in Accepted /\ u \in Txs
          BY <1>3, <2>2, <3>2 DEF Accepted
        <4>2. rwSet'[u] = rwSet[u]
          BY <3>2, <4>1
        <4> QED
          BY <1>1, <2>2, <4>1, <4>2 DEF HeldInv
      <3> QED
        BY <3>1, <3>2
    <2>3. ASSUME NEW h \in plan[round], NEW u \in h, u \in Accepted'
          PROVE  rwSet'[u].reads \cup rwSet'[u].writes \subseteq DOMAIN cache'[h]
      <3>1. CASE u = t
        <4>1. h = g /\ err = "nil"
          BY <1>3, <1>6, <2>3, <3>1
        <4> QED
          BY <2>1, <3>1, <4>1
      <3>2. CASE u # t
        <4>1. u \in Accepted /\ u \in Txs
          BY <1>3, <2>3, <3>2 DEF Accepted
        <4>2. rwSet'[u] = rwSet[u]
          BY <3>2, <4>1
        <4> QED
          BY <1>1, <2>1, <2>3, <4>1, <4>2 DEF HeldInv
      <3> QED
        BY <3>1, <3>2
    <2>4. phase' = "execute" /\ (Undecided' => Vertices' = Txs /\ DOMAIN full' = Predicted(Vertices)')
      <3>1. Undecided => Vertices = Txs /\ DOMAIN full = Predicted(Vertices)
        BY <1>1 DEF HeldInv
      <3>2. Vertices' = Vertices /\ Predicted(Vertices)' = Predicted(Vertices)
        BY SamePlan DEF Predicted
      <3> QED
        BY <1>2, <3>1, <3>2
    <2>5. GroupRounds' = GroupRounds /\ \A h \in SUBSET Txs : Predicted(h)' = Predicted(h)
      BY SamePlan DEF Predicted
    <2>6. \A i \in GroupRounds' : \A h \in plan'[i] : \A u \in h \cap Accepted' :
                rwSet'[u].reads \cup rwSet'[u].writes \subseteq Predicted(h)'
      BY <2>2, <2>5 DEF Predicted
    <2>7. \A h \in plan'[round'] : DOMAIN cache'[h] = Predicted(h)'
      BY <2>1 DEF Predicted
    <2>8. DOMAIN cache' = plan'[round']
      OBVIOUS
    <2>9. \A h \in plan'[round'] : \A u \in h \cap Accepted' :
                rwSet'[u].reads \cup rwSet'[u].writes \subseteq DOMAIN cache'[h]
      BY <2>3
    <2>10. phase' # "merge"
      BY <2>4
    <2> HIDE DEF Ran
    <2> QED
      BY <2>4, <2>6, <2>7, <2>8, <2>9, <2>10 DEF HeldInv
  <1>11. CommitsInv' /\ DatabaseInv'
    BY <1>1 DEF CommitsInv, DatabaseInv
  <1> QED
    BY <1>2, <1>3, <1>5, <1>7, <1>8, <1>9, <1>10, <1>11 DEF StructureInv

\* Of the transactions accepted before, nothing changes.
LEMMA PastRemains ==
    ASSUME BlockInv, NEW g, NEW t, NEW rw, NEW err, Ran(g, t, rw, err)
    PROVE  /\ \A u \in Accepted : rwSet'[u] = rwSet[u] /\ saw'[u] = saw[u]
           /\ \A u, w \in Txs : Precedes(u, w)' <=> Precedes(u, w)
           /\ \A txs \in SUBSET Accepted : \A k, v : Leaves(txs, k, v)' <=> Leaves(txs, k, v)
  <1>1. Accepted' = (IF err = "nil" THEN Accepted \cup {t} ELSE Accepted) /\ t \notin Accepted
    BY RanStructure
  <1>2. t \in Vertices /\ t \in Txs /\ Vertices' = Vertices /\ \A u, w : Before(u, w)' <=> Before(u, w)
    BY SamePlan DEF Ran
  <1>3. \A u \in Txs \ {t} : rwSet'[u] = rwSet[u] /\ saw'[u] = saw[u]
    BY DEF Ran
  <1>4. \A u \in Accepted : u \in Txs \ {t}
    BY <1>1 DEF Accepted
  <1>5. Accepted' \ Vertices' = Accepted \ Vertices
    BY <1>1, <1>2
  <1>6. ASSUME NEW u \in Txs \ Vertices
        PROVE  AriaRank(u)' = AriaRank(u)
    <2>1. rwSet'[u] = rwSet[u]
      BY <1>2, <1>3, <1>6
    <2>2. \A w \in Accepted \ Vertices : rwSet'[w] = rwSet[w]
      BY <1>3, <1>4
    <2> QED
      BY <1>5, <2>1, <2>2 DEF AriaRank
  <1>7. ASSUME NEW u \in Txs, NEW w \in Txs
        PROVE  Precedes(u, w)' <=> Precedes(u, w)
    <2>1. Before(u, w)' <=> Before(u, w)
      BY <1>2
    <2>2. u \notin Vertices => AriaRank(u)' = AriaRank(u)
      BY <1>6
    <2>3. w \notin Vertices => AriaRank(w)' = AriaRank(w)
      BY <1>6
    <2> QED
      BY <1>2, <2>1, <2>2, <2>3 DEF Precedes
  <1>8. ASSUME NEW txs \in SUBSET Accepted, NEW k, NEW v
        PROVE  Leaves(txs, k, v)' <=> Leaves(txs, k, v)
    <2>1. \A u \in txs : u \in Txs /\ rwSet'[u] = rwSet[u] /\ Value(u)' = Value(u)
      BY <1>3, <1>4 DEF Value
    <2>2. \A u, w \in txs : Precedes(u, w)' <=> Precedes(u, w)
      BY <1>7, <2>1
    <2> QED
      BY <2>1, <2>2 DEF Leaves
  <1> QED
    BY <1>3, <1>4, <1>7, <1>8

\* What the next transaction of a group may read has been written only by those
\* before it, and all of them have run; what it may write, those that have run
\* do not wait for.
LEMMA RunsInOrder ==
    ASSUME BlockInv, WritesForeseen, ~Undecided, phase = "execute",
           NEW g \in plan[round], NEW t \in g, errs[t] = "none", \A u \in g : u < t => errs[u] # "none",
           NEW u \in Accepted, NEW k
    PROVE  /\ k \in rwSet[u].writes /\ k \in Predicted(g) => u \in Finished \cup g /\ Precedes(u, t)
           /\ k \in rwSet[u].reads \cup rwSet[u].writes /\ k \in PredictedWrites(g) => ~Precedes(t, u)
  <1>1. TypeOK /\ PlanInv /\ ProgressInv /\ HeldInv
    BY DEF BlockInv, StructureInv
  <1>2. /\ round \in GroupRounds /\ GoodPlan(plan, GroupRounds, driver.method)
        /\ round \in 1..Len(plan) /\ Len(plan) \in Nat /\ DOMAIN plan = 1..Len(plan)
        /\ g \subseteq Vertices /\ GroupRounds \subseteq Nat /\ GroupRounds \subseteq DOMAIN plan
    BY <1>1, ExecutingRound, RoundsAreNumbers
  <1>3. \A i \in round..Len(plan) : i \in GroupRounds
    BY <1>2 DEF GroupRounds
  <1>4. t \in Vertices /\ t \in Nat /\ u \in Txs /\ u \in Nat /\ errs[u] = "nil"
    BY <1>2, VerticesAreNumbers DEF Accepted
  <1>5. CASE u \notin Vertices
    <2>1. u \in Finished
      BY <1>2, <1>3, <1>5 DEF Finished, GoodPlan
    <2> QED
      BY <1>4, <1>5, <2>1 DEF Precedes
  <1>6. CASE u \in Vertices
    <2>1. PICK j \in GroupRounds : \E h \in plan[j] : u \in h
      BY <1>2, <1>6 DEF GoodPlan
    <2>2. PICK h \in plan[j] : u \in h
      BY <2>1
    <2>3. j \in DOMAIN plan /\ j \in Nat /\ round \in Nat /\ ~(j > round)
      BY <1>1, <1>2, <1>4, <2>2 DEF ProgressInv
    <2>4. /\ k \in rwSet[u].reads \cup rwSet[u].writes => k \in Predicted(h)
          /\ k \in rwSet[u].writes => k \in PredictedWrites(h)
      BY <1>1, <2>2 DEF HeldInv, WritesForeseen
    <2>5. CASE j = round
      <3>1. /\ k \in rwSet[u].writes /\ k \in Predicted(g) => h = g
            /\ k \in rwSet[u].reads \cup rwSet[u].writes /\ k \in PredictedWrites(g) => h = g
        BY <1>2, <2>2, <2>4, <2>5, GroupsOfRoundApart
      <3>2. ASSUME h = g
            PROVE  u \in Finished \cup g /\ Precedes(u, t) /\ ~Precedes(t, u)
        <4>1. u < t
          <5>1. u # t
            BY <1>4
          <5>2. ~(t < u)
            BY <1>1, <1>4, <2>2, <3>2 DEF ProgressInv
          <5> QED
            BY <1>4, <5>1, <5>2
        <4>2. (Before(u, t) <=> u < t) /\ (Before(t, u) <=> t < u)
          BY <1>1, <1>2, <2>2, <3>2, GroupInOrder
        <4> QED
          BY <1>4, <1>6, <2>2, <3>2, <4>1, <4>2 DEF Precedes
      <3> QED
        BY <3>1, <3>2
    <2>6. CASE j < round
      <3>1. u \in Finished
        <4>1. \A i \in round..Len(plan) : i # j
          BY <2>3, <2>6
        <4> QED
          BY <1>2, <1>3, <2>2, <4>1, GroupsAreDisjoint DEF Finished
      <3>2. ASSUME k \in Predicted(h), k \in Predicted(g), k \in PredictedWrites(h) \cup PredictedWrites(g)
            PROVE  Precedes(u, t) /\ ~Precedes(t, u)
        <4>1. Before(u, t) /\ ~Before(t, u)
          BY <1>1, <1>2, <2>2, <2>6, <3>2, RoundsInOrder
        <4> QED
          BY <1>4, <1>6, <4>1 DEF Precedes
      <3>3. k \in PredictedWrites(g) => k \in Predicted(g)
        BY DEF PredictedWrites, Predicted
      <3> QED
        BY <2>4, <3>1, <3>2, <3>3
    <2> QED
      BY <2>3, <2>5, <2>6
  <1> QED
    BY <1>5, <1>6

LEMMA SameWritersNext ==
    (\A A, B, k, v :
        {u \in A : k \in rwSet[u].writes} = {u \in B : k \in rwSet[u].writes} /\ Leaves(A, k, v)
            => Leaves(B, k, v))'
  <1>1. \A A, B, k, v :
        {u \in A : k \in rwSet[u].writes} = {u \in B : k \in rwSet[u].writes} /\ Leaves(A, k, v)
            => Leaves(B, k, v)
    BY SameWriters
  <1> QED
    BY <1>1, PTL

LEMMA RanKeeps ==
    ASSUME BlockInv, NEW g, NEW t, NEW rw, NEW err, Ran(g, t, rw, err)
    PROVE  BlockInv'
  <1>1. /\ StructureInv' /\ Accepted' = (IF err = "nil" THEN Accepted \cup {t} ELSE Accepted)
        /\ t \notin Accepted /\ Finished' = Finished /\ t \notin Finished
        /\ (Undecided' <=> Undecided)
    BY RanStructure
  <1>2. /\ \A u \in Accepted : rwSet'[u] = rwSet[u] /\ saw'[u] = saw[u]
        /\ \A u, w \in Txs : Precedes(u, w)' <=> Precedes(u, w)
        /\ \A txs \in SUBSET Accepted : \A k, v : Leaves(txs, k, v)' <=> Leaves(txs, k, v)
    BY PastRemains
  <1>3. /\ g \in plan[round] /\ phase = "execute" /\ phase' = "execute" /\ plan' = plan /\ round' = round
        /\ full' = full /\ wroteBack' = wroteBack /\ t \in g /\ t \in Txs /\ t \in Vertices /\ errs[t] = "none"
        /\ \A u \in g : u < t => errs[u] # "none"
        /\ rwSet'[t] = rw /\ rw \in RWSets
        /\ err = "nil" => rw.reads \cup rw.writes \subseteq DOMAIN cache[g]
        /\ saw'[t] = [k \in rw.reads \cap DOMAIN cache[g] |-> cache[g][k]]
        /\ \A h \in plan[round] \ {g} : cache'[h] = cache[h]
        /\ cache'[g] = (IF err = "nil" THEN Written(t, rw, cache[g]) ELSE cache[g])
        /\ DOMAIN cache'[g] = DOMAIN cache[g]
    BY DEF Ran
  <1>4. /\ GroupRounds' = GroupRounds /\ \A h : Predicted(h)' = Predicted(h) /\ PredictedWrites(h)' = PredictedWrites(h)
    BY SamePlan DEF Ran
  <1>5. TypeOK /\ PlanInv /\ ProgressInv /\ HeldInv
    BY DEF BlockInv, StructureInv
  <1>6. /\ ~Undecided => round \in GroupRounds
        /\ Undecided => plan[round] = {{u} : u \in Txs}
        /\ \A h \in plan[round] : h # g => h \cap g = {}
    BY <1>3, <1>5, ExecutingRound
  <1>7. DOMAIN cache[g] = Predicted(g) /\ Accepted \subseteq Txs
    BY <1>3, <1>5 DEF HeldInv, Accepted
  <1>8. ASSUME Condition'
        PROVE  SawInv' /\ StoresInv' /\ MergeInv'
    <2>1. Condition
      <3>1. WritesForeseen
        <4>1. ASSUME NEW i \in GroupRounds, NEW h \in plan[i], NEW u \in h \cap Accepted
              PROVE  rwSet[u].writes \subseteq PredictedWrites(h)
          <5>1. i \in GroupRounds' /\ h \in plan'[i] /\ u \in h \cap Accepted'
            BY <1>1, <1>3, <1>4, <4>1
          <5>2. rwSet'[u].writes \subseteq PredictedWrites(h)'
            BY <1>8, <5>1 DEF Condition, WritesForeseen
          <5> QED
            BY <1>2, <1>4, <5>2
        <4> QED
          BY <4>1 DEF WritesForeseen
      <3>2. TouchesFetched
        BY <1>1, <1>2, <1>3, <1>8 DEF Condition, TouchesFetched
      <3> QED
        BY <1>3, <1>8, <3>1, <3>2 DEF Condition
    <2>2. SawInv /\ StoresInv /\ WritesForeseen
      BY <2>1 DEF BlockInv, Condition
    <2>3. err = "nil" => rw.reads \cup rw.writes \subseteq DOMAIN full
      BY <1>1, <1>3, <1>8 DEF Condition, TouchesFetched
    <2>4. err = "nil" /\ ~Undecided => rw.writes \subseteq PredictedWrites(g)
      <3>1. ASSUME err = "nil", ~Undecided
            PROVE  rwSet'[t].writes \subseteq PredictedWrites(g)'
        <4>1. round \in GroupRounds' /\ g \in plan'[round] /\ t \in g \cap Accepted'
          BY <1>1, <1>3, <1>4, <1>6, <3>1
        <4> QED
          BY <1>8, <4>1 DEF Condition, WritesForeseen
      <3> QED
        BY <1>3, <1>4, <3>1
    <2>5. ASSUME ~Undecided, NEW u \in Accepted, NEW k
          PROVE  /\ k \in rwSet[u].writes /\ k \in Predicted(g) => u \in Finished \cup g /\ Precedes(u, t)
                 /\ k \in rwSet[u].reads \cup rwSet[u].writes /\ k \in PredictedWrites(g) => ~Precedes(t, u)
      BY <1>3, <2>2, <2>5, RunsInOrder
    <2>6. Undecided => Finished = {} /\ g = {t}
      BY <1>3, <1>6, UndecidedFacts
    <2>7. PICK past : past = Finished \cup (g \cap Accepted)
      OBVIOUS
    <2>8. past \subseteq Accepted /\ Finished \subseteq Accepted /\ t \notin past /\ (Undecided => past = {})
      BY <1>1, <2>6, <2>7 DEF Finished
    <2>9. \A k \in DOMAIN cache[g] \cap DOMAIN full : Leaves(past, k, cache[g][k])
      BY <1>3, <2>2, <2>7 DEF StoresInv
    <2>10. ASSUME NEW u \in Accepted'
           PROVE  /\ saw'[u] = [r \in rwSet'[u].reads |-> saw'[u][r]]
                  /\ \A r \in rwSet'[u].reads :
                        IF Undecided THEN saw'[u][r] = InitialValue
                        ELSE Leaves({w \in Accepted : w # u /\ Precedes(w, u)}, r, saw[u][r])'
      <3>1. CASE u \in Accepted
        <4>1. /\ saw[u] = [r \in rwSet[u].reads |-> saw[u][r]]
              /\ \A r \in rwSet[u].reads :
                    IF Undecided THEN saw[u][r] = InitialValue
                    ELSE Leaves({w \in Accepted : w # u /\ Precedes(w, u)}, r, saw[u][r])
          BY <2>2, <3>1 DEF SawInv
        <4>2. ASSUME NEW r \in rwSet[u].reads, ~Undecided
              PROVE  Leaves({w \in Accepted : w # u /\ Precedes(w, u)}, r, saw[u][r])'
          <5>1. PICK before : before = {w \in Accepted : w # u /\ Precedes(w, u)}
            OBVIOUS
          <5>2. PICK after : after = {w \in Accepted' : w # u /\ Precedes(w, u)'}
            OBVIOUS
          <5>3. Leaves(before, r, saw[u][r])'
            <6>1. Leaves(before, r, saw[u][r])
              BY <4>1, <4>2, <5>1
            <6>2. PICK v : v = saw[u][r]
              OBVIOUS
            <6>3. Leaves(before, r, v)' <=> Leaves(before, r, v)
              BY <1>2, <5>1
            <6>4. v = saw'[u][r]
              BY <1>2, <3>1, <6>2
            <6> QED
              BY <6>1, <6>2, <6>3, <6>4
          <5>4. \A w \in Accepted : w \in before <=> w \in after
            BY <1>1, <1>2, <1>7, <3>1, <5>1, <5>2
          <5>5. r \in rwSet'[t].writes => t \notin after
            <6>1. t \in after => err = "nil"
              BY <1>1, <5>2
            <6>2. err = "nil" /\ r \in rw.writes => ~Precedes(t, u)
              BY <2>4, <2>5, <3>1, <4>2
            <6> QED
              BY <1>2, <1>3, <1>7, <3>1, <5>2, <6>1, <6>2
          <5>6. \A w \in after : w \in Accepted \/ w = t
            BY <1>1, <5>2
          <5>7. {w \in before : r \in rwSet'[w].writes} = {w \in after : r \in rwSet'[w].writes}
            BY <5>1, <5>4, <5>5, <5>6
          <5>8. Leaves(after, r, saw[u][r])'
            BY <5>3, <5>7, SameWritersNext
          <5> QED
            BY <5>2, <5>8
        <4> QED
          BY <1>2, <3>1, <4>1, <4>2
      <3>2. CASE u \notin Accepted
        <4>1. u = t /\ err = "nil"
          BY <1>1, <2>10, <3>2
        <4>2. rw.reads \subseteq DOMAIN cache[g] \cap DOMAIN full
          BY <1>3, <2>3, <4>1
        <4>3. saw'[t] = [r \in rw.reads |-> cache[g][r]]
          BY <1>3, <4>2
        <4>4. ASSUME NEW r \in rw.reads
              PROVE  IF Undecided THEN saw'[t][r] = InitialValue
                     ELSE Leaves({w \in Accepted : w # t /\ Precedes(w, t)}, r, saw[t][r])'
          <5>1. Leaves(past, r, cache[g][r])
            BY <2>9, <4>2
          <5>2. saw'[t][r] = cache[g][r]
            BY <4>3
          <5>3. CASE Undecided
            BY <2>8, <5>1, <5>2, <5>3, LeavesAlone
          <5>4. CASE ~Undecided
            <6>1. PICK after : after = {w \in Accepted' : w # t /\ Precedes(w, t)'}
              OBVIOUS
            <6>2. PICK v : v = cache[g][r]
              OBVIOUS
            <6>3. Leaves(past, r, v)'
              BY <1>2, <2>8, <5>1, <6>2
            <6>4. \A w : w \in after <=> w \in Accepted /\ Precedes(w, t)
              BY <1>1, <1>2, <1>3, <1>7, <6>1
            <6>5. \A w \in Accepted : r \in rwSet[w].writes => w \in past /\ Precedes(w, t)
              BY <1>7, <2>5, <2>7, <4>2, <5>4
            <6>6. \A w \in Accepted : r \in rwSet'[w].writes => w \in past /\ w \in after
              BY <1>2, <6>4, <6>5
            <6>7. {w \in past : r \in rwSet'[w].writes} = {w \in after : r \in rwSet'[w].writes}
              BY <2>8, <6>4, <6>6
            <6>8. Leaves(after, r, v)'
              BY <6>3, <6>7, SameWritersNext
            <6> QED
              BY <5>2, <5>4, <6>1, <6>2, <6>8
          <5> QED
            BY <5>3, <5>4
        <4> QED
          BY <1>3, <4>1, <4>3, <4>4
      <3> QED
        BY <3>1, <3>2
    <2>11. SawInv'
      BY <1>1, <2>10 DEF SawInv
    <2>12. ASSUME NEW k \in DOMAIN full
           PROVE  Leaves(Finished, k, full[k])'
      <3>1. Leaves(Finished, k, full[k])
        BY <1>3, <2>2, <2>12 DEF StoresInv
      <3>2. PICK v, done : v = full[k] /\ done = Finished
        OBVIOUS
      <3>3. Leaves(done, k, v)'
        BY <1>2, <2>8, <3>1, <3>2
      <3> QED
        BY <1>1, <1>3, <3>2, <3>3
    <2>13. ASSUME NEW h \in plan[round], NEW k \in DOMAIN cache'[h] \cap DOMAIN full
           PROVE  Leaves(Finished \cup (h \cap Accepted), k, cache[h][k])'
      <3>1. CASE h # g \/ err # "nil"
        <4>1. PICK v, txs : v = cache[h][k] /\ txs = Finished \cup (h \cap Accepted)
          OBVIOUS
        <4>2. cache'[h] = cache[h] /\ h \cap Accepted' = h \cap Accepted
          BY <1>1, <1>3, <1>6, <2>13, <3>1
        <4>3. Leaves(txs, k, v)
          BY <1>3, <2>2, <2>13, <4>1, <4>2 DEF StoresInv
        <4>4. txs \subseteq Accepted
          BY <2>8, <4>1
        <4>5. Leaves(txs, k, v)'
          BY <1>2, <4>3, <4>4
        <4> QED
          BY <1>1, <4>1, <4>2, <4>5
      <3>2. CASE h = g /\ err = "nil"
        <4>1. PICK before, after, txs :
                before = cache[g][k] /\ after = cache'[g][k] /\ txs = past \cup {t}
          OBVIOUS
        <4>2. Finished' \cup (g \cap Accepted') = txs
          BY <1>1, <1>3, <2>7, <3>2, <4>1
        <4>3. k \in DOMAIN cache[g] \cap DOMAIN full
          BY <1>3, <2>13, <3>2
        <4>4. Leaves(past, k, before) /\ Leaves(past, k, before)'
          BY <1>2, <2>8, <2>9, <4>1, <4>3
        <4>5. after = IF k \in rw.writes THEN [tx |-> t, saw |-> [r \in rw.reads |-> cache[g][r]]] ELSE before
          BY <1>3, <3>2, <4>1, <4>3 DEF Written
        <4>6. Value(t)' = [tx |-> t, saw |-> [r \in rw.reads |-> cache[g][r]]]
          <5>1. rw.reads \cap DOMAIN cache[g] = rw.reads
            BY <1>3, <3>2
          <5> QED
            BY <1>3, <5>1 DEF Value
        <4>7. Leaves(txs, k, after)'
          <5>1. CASE k \notin rw.writes
            <6>1. {w \in past : k \in rwSet'[w].writes} = {w \in txs : k \in rwSet'[w].writes}
              BY <1>3, <4>1, <5>1
            <6> QED
              BY <4>4, <4>5, <5>1, <6>1, SameWritersNext
          <5>2. CASE k \in rw.writes /\ Undecided
            BY <1>3, <2>8, <4>1, <4>5, <4>6, <5>2, LeavesAloneNext
          <5>3. CASE k \in rw.writes /\ ~Undecided
            <6>1. after = Value(t)'
              BY <4>5, <4>6, <5>3
            <6>2. t \in {w \in txs : k \in rwSet'[w].writes}
              BY <1>3, <4>1, <5>3
            <6>3. ASSUME NEW u \in past, k \in rwSet'[u].writes
                  PROVE  ~Precedes(t, u)'
              <7>1. u \in Accepted /\ u \in Txs /\ k \in rwSet[u].writes
                BY <1>2, <1>7, <2>8, <6>3
              <7>2. ~Precedes(t, u)
                BY <2>4, <2>5, <3>2, <5>3, <7>1
              <7> QED
                BY <1>2, <1>3, <7>1, <7>2
            <6>4. \A u \in txs : k \in rwSet'[u].writes /\ (t = u \/ Precedes(t, u)') => u = t
              BY <4>1, <6>3
            <6> QED
              BY <6>1, <6>2, <6>4 DEF Leaves
          <5> QED
            BY <5>1, <5>2, <5>3
        <4> QED
          BY <3>2, <4>1, <4>2, <4>7
      <3> QED
        BY <3>1, <3>2
    <2>14. StoresInv'
      BY <1>3, <2>12, <2>13 DEF StoresInv
    <2> QED
      BY <1>3, <2>11, <2>14 DEF MergeInv
  <1> QED
    BY <1>1, <1>8 DEF BlockInv

LEMMA StutterKeeps ==
    ASSUME BlockInv, UNCHANGED vars
    PROVE  BlockInv'
  <1>1. /\ predictions' = predictions /\ driver' = driver /\ plan' = plan /\ planVars' = planVars
        /\ round' = round /\ phase' = phase /\ cache' = cache /\ rwSet' = rwSet /\ errs' = errs
        /\ toMerge' = toMerge /\ full' = full /\ state' = state /\ saw' = saw /\ wroteBack' = wroteBack
    BY DEF vars, planVars, historyVars
  <1>2. /\ Vertices' = Vertices /\ GroupRounds' = GroupRounds
        /\ (Aria' <=> Aria) /\ (OnDatabase' <=> OnDatabase)
        /\ \A g : Predicted(g)' = Predicted(g)
        /\ (GoodPlan(plan, GroupRounds, driver.method)' <=> GoodPlan(plan, GroupRounds, driver.method))
    BY <1>1, SamePlan
  <1>3. /\ Accepted' = Accepted /\ \A g : Dirty(g)' = Dirty(g)
        /\ \A t, u : Precedes(t, u)' <=> Precedes(t, u)
        /\ \A txs, k, v : Leaves(txs, k, v)' <=> Leaves(txs, k, v)
        /\ WritesForeseen' <=> WritesForeseen
    BY <1>1, SameWords
  <1>4. (Undecided' <=> Undecided) /\ (InAriaRound' <=> InAriaRound)
    BY <1>1, <1>2 DEF Undecided, InAriaRound
  <1>5. \A g : MergedKeys(g)' = MergedKeys(g)
    BY <1>1, <1>3 DEF MergedKeys
  <1>6. Finished' = Finished
    BY <1>1, <1>3 DEF Finished
  <1>7. TypeOK' <=> TypeOK
    BY <1>1 DEF TypeOK
  <1>8. PlanInv' <=> PlanInv
    BY <1>1, <1>2, <1>4 DEF PlanInv
  <1>9. ProgressInv' <=> ProgressInv
    BY <1>1, <1>2, <1>3 DEF ProgressInv
  <1>10. HeldInv' <=> HeldInv
    BY <1>1, <1>2, <1>3, <1>4, <1>5 DEF HeldInv
  <1>11. (CommitsInv' <=> CommitsInv) /\ (DatabaseInv' <=> DatabaseInv)
    BY <1>1, <1>2, <1>3, <1>4, <1>5 DEF CommitsInv, DatabaseInv
  <1>12. Condition' <=> Condition
    BY <1>1, <1>3 DEF Condition, TouchesFetched
  <1>13. SawInv' <=> SawInv
    <2>1. \A t : {u \in Accepted : u # t /\ Precedes(u, t)}' = {u \in Accepted : u # t /\ Precedes(u, t)}
      BY <1>3
    <2> QED
      BY <1>1, <1>3, <1>4, <2>1 DEF SawInv
  <1>14. StoresInv => StoresInv'
    BY <1>1, <1>3, <1>5, <1>6 DEF StoresInv
  <1>15. MergeInv => MergeInv'
    BY <1>1, <1>3, <1>5, <1>6 DEF MergeInv
  <1> QED
    BY <1>7, <1>8, <1>9, <1>10, <1>11, <1>12, <1>13, <1>14, <1>15 DEF BlockInv, StructureInv

\* The invariant holds in every reachable state of every driver: what the groups
\* hold and merge is what some serial order of the accepted transactions leaves.
THEOREM BlockIsInvariant == Spec => []BlockInv
  <1>1. BlockInv /\ [Next]_vars => BlockInv'
    <2> SUFFICES ASSUME BlockInv, [Next]_vars
                 PROVE  BlockInv'
      OBVIOUS
    <2>1. CASE MakeFull
      BY <2>1, MakeFullKeeps
    <2>2. CASE Prefetch
      BY <2>2, PrefetchKeeps
    <2>3. CASE phase = "execute" /\ \E g \in plan[round] : Execute(g)
      <3>1. PICK g \in plan[round] : Execute(g)
        BY <2>3
      <3>2. PICK t, rw, err : Ran(g, t, rw, err)
        BY <2>3, <3>1, ExecutionRan
      <3> QED
        BY <3>2, RanKeeps
    <2>4. CASE Executed
      BY <2>4, ExecutedKeeps
    <2>5. CASE AriaDecide
      BY <2>5, AriaDecideKeeps
    <2>6. CASE phase = "merge" /\ \E g \in plan[round], k \in Keys : MergeKey(g, k)
      BY <2>6, MergeKeyKeeps
    <2>7. CASE EndRound
      BY <2>7, EndRoundKeeps
    <2>8. CASE Finish
      BY <2>8, FinishKeeps
    <2>9. CASE Stopped \/ UNCHANGED vars
      BY <2>9, StutterKeeps DEF Stopped
    <2> QED
      BY <2>1, <2>2, <2>3, <2>4, <2>5, <2>6, <2>7, <2>8, <2>9 DEF Next
  <1> QED
    BY <1>1, InitBlock, PTL DEF Spec

(***************************************************************************)
(* The serial execution.                                                   *)
(***************************************************************************)

\* The order of two vertices is that of the rounds of their groups, or of the block.
LEMMA BeforeIsOrder ==
    ASSUME TypeOK, GoodPlan(plan, GroupRounds, driver.method),
           NEW t \in Vertices, NEW u \in Vertices, NEW v \in Vertices
    PROVE  /\ t # u => Before(t, u) \/ Before(u, t)
           /\ ~Before(t, t)
           /\ Before(t, u) /\ Before(u, v) => Before(t, v)
  <1>1. t \in Nat /\ u \in Nat /\ v \in Nat
    BY VerticesAreNumbers
  <1>2. CASE driver.method # "MIS"
    BY <1>1, <1>2 DEF Before
  <1>3. CASE driver.method = "MIS"
    <2>1. \A x \in Vertices : \E i \in GroupRounds : {x} \in plan[i]
      <3>1. ASSUME NEW x \in Vertices
            PROVE  \E i \in GroupRounds : {x} \in plan[i]
        <4>1. PICK i \in GroupRounds : \E g \in plan[i] : x \in g
          BY <3>1 DEF GoodPlan
        <4>2. PICK g \in plan[i] : x \in g
          BY <4>1
        <4>3. g = {x}
          BY <1>3, <4>2 DEF GoodPlan
        <4> QED
          BY <4>2, <4>3
      <3> QED
        BY <3>1
    <2>2. \A x : \A i, j \in GroupRounds : {x} \in plan[i] /\ {x} \in plan[j] => i = j
      BY GroupsAreDisjoint
    <2>3. GroupRounds \subseteq Nat
      BY RoundsAreNumbers
    <2>4. PICK i \in GroupRounds : {t} \in plan[i]
      BY <2>1
    <2>5. PICK j \in GroupRounds : {u} \in plan[j]
      BY <2>1
    <2>6. PICK k \in GroupRounds : {v} \in plan[k]
      BY <2>1
    <2>7. /\ Before(t, u) <=> i < j \/ (i = j /\ t < u)
          /\ Before(u, t) <=> j < i \/ (i = j /\ u < t)
          /\ Before(u, v) <=> j < k \/ (j = k /\ u < v)
          /\ Before(t, v) <=> i < k \/ (i = k /\ t < v)
          /\ Before(t, t) <=> i < i \/ (i = i /\ t < t)
      BY <1>3, <2>2, <2>4, <2>5, <2>6 DEF Before
    <2>8. i \in Nat /\ j \in Nat /\ k \in Nat
      BY <2>3
    <2> QED
      BY <1>1, <2>7, <2>8
  <1> QED
    BY <1>2, <1>3

LEMMA PrecedesIsOrder ==
    ASSUME TypeOK, GoodPlan(plan, GroupRounds, driver.method),
           NEW t \in Txs, NEW u \in Txs, NEW v \in Txs
    PROVE  /\ t # u => Precedes(t, u) \/ Precedes(u, t)
           /\ ~Precedes(t, t)
           /\ Precedes(t, u) /\ Precedes(u, v) => Precedes(t, v)
  <1>1. \A x \in Txs : x \in Nat /\ (AriaRank(x) = -1 - x \/ AriaRank(x) = x)
    BY VerticesAreNumbers DEF AriaRank
  <1>2. t \in Nat /\ u \in Nat /\ v \in Nat
    BY <1>1
  <1>3. PICK a, b, c : a = AriaRank(t) /\ b = AriaRank(u) /\ c = AriaRank(v)
    OBVIOUS
  <1>4. (a = -1 - t \/ a = t) /\ (b = -1 - u \/ b = u) /\ (c = -1 - v \/ c = v)
    BY <1>1, <1>3
  <1>5. a \in Int /\ b \in Int /\ c \in Int /\ (t # u => a < b \/ b < a) /\ (a < b /\ b < c => a < c)
    BY <1>2, <1>4
  <1>6. /\ t # u => Precedes(t, u) \/ Precedes(u, t)
        /\ ~Precedes(t, t)
    BY <1>3, <1>5, BeforeIsOrder DEF Precedes
  <1>7. Precedes(t, u) /\ Precedes(u, v) => Precedes(t, v)
    BY <1>3, <1>5, BeforeIsOrder DEF Precedes
  <1> QED
    BY <1>6, <1>7

\* What a list in the order of the driver leaves in a slot, in the words of Execution.
LEMMA ListLeaves ==
    ASSUME NEW order, NEW i \in Nat,
           \A j, l \in 1..i : j < l => Precedes(order[j], order[l]),
           NEW store, NEW k, store[k] = InitialValue, NEW v,
           Leaves({order[j] : j \in 1..i}, k, v)
    PROVE  LeftAfter(i, k, v, order, rwSet, store, saw)
  <1>1. PICK writes : writes = {j \in 1..i : k \in rwSet[order[j]].writes}
    OBVIOUS
  <1>2. PICK writers : writers = {u \in {order[j] : j \in 1..i} : k \in rwSet[u].writes}
    OBVIOUS
  <1>3. /\ \A j \in writes : order[j] \in writers
        /\ \A w \in writers : \E j \in writes : w = order[j]
    BY <1>1, <1>2
  <1>4. /\ writers = {} => v = InitialValue
        /\ \A u \in writers : (\A w \in writers : w = u \/ Precedes(w, u)) => v = Value(u)
    BY <1>2 DEF Leaves
  <1>5. writes = {} => v = store[k]
    BY <1>3, <1>4
  <1>6. ASSUME NEW j \in writes, \A l \in writes : l <= j
        PROVE  v = [tx |-> order[j], saw |-> saw[order[j]]]
    <2>1. ASSUME NEW w \in writers
          PROVE  w = order[j] \/ Precedes(w, order[j])
      <3>1. PICK l \in writes : w = order[l]
        BY <1>3
      <3>2. l = j \/ l < j
        BY <1>1, <1>6
      <3> QED
        BY <1>1, <3>1, <3>2
    <2> QED
      BY <1>3, <1>4, <2>1 DEF Value
  <1> QED
    BY <1>1, <1>5, <1>6 DEF LeftAfter

\* At the end everything rests on the whole list.
LEMMA DoneIsSerial ==
    ASSUME BlockInv
    PROVE  BlockSerializable
  <1> SUFFICES ASSUME phase = "done", WritesForeseen, TouchesFetched, ~wroteBack
               PROVE  \E order \in Orders :
                        LET serial == SerialStore(order, rwSet, [k \in Keys |-> InitialValue])
                        IN  IF driver.kind = "older" THEN state = serial
                            ELSE \A k \in DOMAIN full : full[k] = serial[k]
    BY DEF BlockSerializable
  <1>1. TypeOK /\ PlanInv /\ ProgressInv /\ DatabaseInv /\ SawInv /\ StoresInv
    BY DEF BlockInv, StructureInv, Condition
  <1>2. Len(plan) \in Nat /\ round = Len(plan) + 1 /\ ~Undecided
    <2>1. Len(plan) \in Nat /\ round = Len(plan) + 1
      BY <1>1, RoundsAreNumbers DEF ProgressInv
    <2> QED
      BY <1>1, <2>1 DEF PlanInv, Undecided, InAriaRound
  <1>3. GoodPlan(plan, GroupRounds, driver.method)
    BY <1>1, <1>2 DEF PlanInv
  <1>4. Finished = Accepted
    <2>1. round..Len(plan) = {}
      BY <1>2
    <2> QED
      BY <2>1 DEF Finished
  <1>5. Accepted \subseteq Txs /\ IsFiniteSet(Accepted)
    <2>1. Accepted \subseteq Txs
      BY DEF Accepted
    <2> QED
      BY <2>1, VerticesAreNumbers, FS_Subset
  <1>6. PICK less : less = {e \in Accepted \X Accepted : Precedes(e[1], e[2])}
    OBVIOUS
  <1>7. \A t, u \in Accepted : <<t, u>> \in less <=> Precedes(t, u)
    BY <1>6
  <1>8. /\ \A t, u \in Accepted : t # u => Precedes(t, u) \/ Precedes(u, t)
        /\ \A t \in Accepted : ~Precedes(t, t)
        /\ \A t, u, v \in Accepted : Precedes(t, u) /\ Precedes(u, v) => Precedes(t, v)
    BY <1>1, <1>3, <1>5, PrecedesIsOrder
  <1>9. PICK all : all = Accepted
    OBVIOUS
  <1>10. PICK order \in SetToSeqs(all) : Sorted(order, less)
    <2>1. \A t, u \in all : t # u => <<t, u>> \in less \/ <<u, t>> \in less
      BY <1>7, <1>8, <1>9
    <2>2. \A t, u, v \in all : <<t, u>> \in less /\ <<u, v>> \in less => <<t, v>> \in less
      BY <1>7, <1>8, <1>9
    <2>3. IsFiniteSet(all)
      BY <1>5, <1>9
    <2> QED
      BY <2>1, <2>2, <2>3, SortedList
  <1>11. /\ order \in Seq(all) /\ Len(order) \in Nat /\ DOMAIN order = 1..Len(order)
         /\ \A i, j \in 1..Len(order) : order[i] = order[j] => i = j
         /\ \A t \in all : \E i \in 1..Len(order) : order[i] = t
    BY <1>5, <1>9, <1>10, ListsEach
  <1>12. \A i \in 1..Len(order) : order[i] \in Accepted
    BY <1>9, <1>11
  <1>13. \A i, j \in 1..Len(order) : i < j => Precedes(order[i], order[j])
    BY <1>7, <1>10, <1>12 DEF Sorted
  <1>14. order \in Orders
    <2>1. \A i, j \in DOMAIN order :
            i < j => (order[i] \in Vertices => order[j] \in Vertices /\ Before(order[i], order[j]))
      BY <1>11, <1>13 DEF Precedes
    <2> QED
      BY <1>9, <1>10, <2>1 DEF Orders
  <1>15. PICK store : store = [k \in Keys |-> InitialValue]
    OBVIOUS
  <1>16. IsStore(store) /\ \A k \in Keys : store[k] = InitialValue
    BY <1>15 DEF IsStore
  <1>17. \A t \in all : rwSet[t].reads \subseteq Keys /\ saw[t] = [r \in rwSet[t].reads |-> saw[t][r]]
    BY <1>1, <1>5, <1>9 DEF SawInv, TypeOK, RWSets
  <1>18. ASSUME NEW i \in 1..Len(order), NEW r \in rwSet[order[i]].reads
         PROVE  LeftAfter(i - 1, r, saw[order[i]][r], order, rwSet, store, saw)
    <2>1. PICK n : n = i - 1
      OBVIOUS
    <2>2. n \in Nat /\ 1..n \subseteq 1..Len(order) /\ i \notin 1..n
          /\ \A j \in 1..Len(order) : j \in 1..n <=> j < i
      BY <1>11, <1>18, <2>1
    <2>3. {u \in Accepted : u # order[i] /\ Precedes(u, order[i])} = {order[j] : j \in 1..n}
      <3>1. ASSUME NEW u \in Accepted, u # order[i], Precedes(u, order[i])
            PROVE  \E j \in 1..n : u = order[j]
        <4>1. PICK j \in 1..Len(order) : order[j] = u
          BY <1>9, <1>11, <3>1
        <4>2. ~(i < j)
          BY <1>8, <1>12, <1>13, <1>18, <3>1, <4>1
        <4>3. i # j
          BY <3>1, <4>1
        <4>4. j < i
          BY <1>11, <1>18, <4>2, <4>3
        <4> QED
          BY <2>2, <4>1, <4>4
      <3>2. ASSUME NEW j \in 1..n
            PROVE  order[j] \in Accepted /\ order[j] # order[i] /\ Precedes(order[j], order[i])
        BY <1>11, <1>12, <1>13, <2>2, <3>2
      <3> QED
        BY <3>1, <3>2
    <2>4. Leaves({order[j] : j \in 1..n}, r, saw[order[i]][r])
      BY <1>1, <1>2, <1>12, <2>3 DEF SawInv
    <2>5. r \in Keys /\ store[r] = InitialValue
      BY <1>9, <1>12, <1>16, <1>17, <1>18
    <2>6. \A j, l \in 1..n : j < l => Precedes(order[j], order[l])
      BY <1>13, <2>2
    <2>7. LeftAfter(n, r, saw[order[i]][r], order, rwSet, store, saw)
      BY <2>2, <2>4, <2>5, <2>6, ListLeaves
    <2> QED
      BY <2>1, <2>7
  <1>19. PICK serial : serial = SerialStore(order, rwSet, store)
    OBVIOUS
  <1>20. /\ IsStore(serial)
         /\ \A k \in Keys : \A v : LeftAfter(Len(order), k, v, order, rwSet, store, saw) => v = serial[k]
    <2>1. PICK sets, seen : sets = rwSet /\ seen = saw
      OBVIOUS
    <2>2. HasSeen(all, sets, seen)
      BY <1>17, <2>1 DEF HasSeen
    <2>3. SeenInTurn(order, sets, store, seen)
      BY <1>18, <2>1 DEF SeenInTurn
    <2>4. serial = SerialStore(order, sets, store)
      BY <1>19, <2>1
    <2>5. /\ IsStore(serial)
          /\ \A k \in Keys : \A v : LeftAfter(Len(order), k, v, order, sets, store, seen) => v = serial[k]
      <3>1. order \in Seq(all)
        BY <1>11
      <3>2. IsStore(store)
        BY <1>16
      <3> QED
        BY <2>2, <2>3, <2>4, <3>1, <3>2, SerialIsKnown
    <2> QED
      BY <2>1, <2>5
  <1>21. {order[j] : j \in 1..Len(order)} = Accepted
    BY <1>9, <1>11, <1>12
  <1>22. ASSUME NEW k \in Keys, NEW v, Leaves(Accepted, k, v)
         PROVE  v = serial[k]
    <2>1. LeftAfter(Len(order), k, v, order, rwSet, store, saw)
      <3>1. PICK n : n = Len(order)
        OBVIOUS
      <3>2. Leaves({order[j] : j \in 1..n}, k, v) /\ n \in Nat /\ store[k] = InitialValue
        BY <1>11, <1>16, <1>21, <1>22, <3>1
      <3>3. \A j, l \in 1..n : j < l => Precedes(order[j], order[l])
        BY <1>13, <3>1
      <3>4. LeftAfter(n, k, v, order, rwSet, store, saw)
        BY <3>2, <3>3, ListLeaves
      <3> QED
        BY <3>1, <3>4
    <2> QED
      BY <1>20, <2>1
  <1>23. \A k \in DOMAIN full : k \in Keys /\ full[k] = serial[k]
    BY <1>1, <1>4, <1>22 DEF StoresInv, TypeOK
  <1>24. ASSUME driver.kind = "older"
         PROVE  state = serial
    <2>1. ASSUME NEW k \in Keys, \A u \in Accepted : k \notin rwSet[u].writes
          PROVE  serial[k] = InitialValue
      <3>1. Leaves(Accepted, k, InitialValue)
        BY <2>1 DEF Leaves
      <3> QED
        BY <1>22, <3>1
    <2>2. ASSUME NEW k \in Keys, k \notin DOMAIN full
          PROVE  serial[k] = InitialValue
      BY <2>1, <2>2 DEF TouchesFetched
    <2>3. ASSUME NEW k \in Keys, k[1] \notin Dirty(Txs)
          PROVE  serial[k] = InitialValue
      <3>1. \A u \in Accepted : k \notin rwSet[u].writes
        BY <1>5, <2>3 DEF Dirty, DirtyAccounts
      <3> QED
        BY <2>1, <3>1
    <2>4. \A k \in Keys :
            serial[k] = IF phase = "done" /\ k \in DOMAIN full
                            /\ (OnDatabase \/ (driver.kind = "older" /\ k[1] \in Dirty(Txs)))
                        THEN full[k] ELSE InitialValue
      BY <1>23, <1>24, <2>2, <2>3
    <2>5. serial = [k \in Keys |-> serial[k]]
      BY <1>20 DEF IsStore
    <2> QED
      BY <1>1, <2>4, <2>5 DEF DatabaseInv
  <1>25. IF driver.kind = "older" THEN state = serial ELSE \A k \in DOMAIN full : full[k] = serial[k]
    BY <1>23, <1>24
  <1> QED
    BY <1>14, <1>15, <1>19, <1>25

\* Whatever the block, the grouping, the number of tasks and the interleaving of
\* the groups, a driver's result is that of a serial execution of the accepted
\* transactions in an order that it promises.
THEOREM BlocksAreSerializable == Spec => []BlockSerializable
  <1>1. BlockInv => BlockSerializable
    BY DoneIsSerial
  <1> QED
    BY <1>1, BlockIsInvariant, PTL
=============================================================================
