----------------------------- MODULE BlockExecInv -----------------------------
(***************************************************************************)
(* The inductive invariant behind BlockSerializable: what the caches hold  *)
(* while groups run side by side and while they are merged, in the words   *)
(* of the serial execution that it amounts to in the end.                  *)
(***************************************************************************)
EXTENDS BlockExec

TypeOK ==
    /\ driver \in [method : Methods, kind : {"concurrent", "older", "aria"}]
    /\ phase \in {"start", "prefetch", "execute", "merge", "done", "panic"}
    /\ plan \in Seq(SUBSET SUBSET Txs)
    /\ predictions \in [Txs -> RWSets \cup {NoPrediction}]
    /\ rwSet \in [Txs -> RWSets]
    /\ errs \in [Txs -> {"none", "nil", "ErrFalsePredict", "rejected"}]
    /\ DOMAIN full \subseteq Keys /\ DOMAIN saw = Txs

\* AriaOneRound has not judged yet.
Undecided == InAriaRound /\ phase # "merge"

-----------------------------------------------------------------------------
(* The plan.                                                                *)

PlanInv ==
    /\ round \in 1..(Len(plan) + 1)
    /\ Aria => Len(plan) > 0 /\ plan[1] = {{t} : t \in Txs}
    /\ IF Undecided THEN Len(plan) = 1 /\ ~wroteBack ELSE GoodPlan(plan, GroupRounds, driver.method)

-----------------------------------------------------------------------------
(* Who has been executed.                                                   *)

\* The accepted transactions whose rounds are over.
Finished == {t \in Accepted : \A i \in round..Len(plan) : \A g \in plan[i] : t \notin g}

ProgressInv ==
    /\ \A i \in DOMAIN plan :
        i > round \/ (i = round /\ phase \in {"start", "prefetch"}) =>
            \A g \in plan[i] : \A t \in g : errs[t] = "none"
    /\ phase = "execute" =>
        \A g \in plan[round] : \A t, u \in g : u < t /\ errs[u] = "none" => errs[t] = "none"
    /\ ~Aria => Accepted \subseteq Vertices
    /\ phase \in {"execute", "merge"} => round <= Len(plan)
    /\ phase = "done" => round = Len(plan) + 1
    /\ phase = "start" => round = 1 /\ \A t \in Txs : errs[t] = "none"

\* What is accepted has touched what was predicted for its group, which is what
\* the caches are for.
HeldInv ==
    /\ \A i \in GroupRounds : \A g \in plan[i] : \A t \in g \cap Accepted :
            rwSet[t].reads \cup rwSet[t].writes \subseteq Predicted(g)
    /\ phase \in {"execute", "merge"} =>
        /\ DOMAIN cache = plan[round]
        /\ \A g \in plan[round] : \A t \in g \cap Accepted :
                rwSet[t].reads \cup rwSet[t].writes \subseteq DOMAIN cache[g]
    /\ phase = "execute" \/ (phase = "merge" /\ ~InAriaRound) =>
        \A g \in plan[round] : DOMAIN cache[g] = Predicted(g)
    /\ phase \in {"prefetch", "execute"} /\ Undecided => Vertices = Txs /\ DOMAIN full = Predicted(Vertices)
    /\ phase = "merge" =>
        /\ DOMAIN toMerge = plan[round]
        /\ \A g \in plan[round] : toMerge[g] \subseteq MergedKeys(g)

-----------------------------------------------------------------------------
(* The serial execution that has taken place.                               *)

\* The order of Aria's commits: first those that have read what a lower one
\* writes, backwards, then the others.
AriaRank(t) ==
    IF \E u \in Accepted \ Vertices : u < t /\ rwSet[t].reads \cap rwSet[u].writes # {}
    THEN -1 - t ELSE t

Precedes(t, u) ==
    \/ t \notin Vertices /\ u \in Vertices
    \/ t \notin Vertices /\ u \notin Vertices /\ AriaRank(t) < AriaRank(u)
    \/ t \in Vertices /\ u \in Vertices /\ Before(t, u)

Value(t) == [tx |-> t, saw |-> saw[t]]

\* These transactions leave the value in the slot.
Leaves(txs, k, value) ==
    LET writers == {u \in txs : k \in rwSet[u].writes}
    IN  /\ writers = {} => value = InitialValue
        /\ \A u \in writers : (\A w \in writers : w = u \/ Precedes(w, u)) => value = Value(u)

Condition == WritesForeseen /\ TouchesFetched /\ ~wroteBack

\* Each has read what the ones before it leave, in whatever order they ran.
SawInv ==
    \A t \in Accepted :
        /\ saw[t] = [r \in rwSet[t].reads |-> saw[t][r]]
        /\ \A r \in rwSet[t].reads :
            IF Undecided THEN saw[t][r] = InitialValue
            ELSE Leaves({u \in Accepted : u # t /\ Precedes(u, t)}, r, saw[t][r])

\* Between the rounds the full cache holds what the finished transactions leave,
\* while a round runs each cache that and what its own group has added.
StoresInv ==
    /\ phase \in {"prefetch", "execute", "done"} =>
        \A k \in DOMAIN full : Leaves(Finished, k, full[k])
    /\ phase = "execute" =>
        \A g \in plan[round] : \A k \in DOMAIN cache[g] \cap DOMAIN full :
            Leaves(Finished \cup (g \cap Accepted), k, cache[g][k])
    /\ phase = "merge" =>
        \A g \in plan[round] : \A k \in MergedKeys(g) \cap DOMAIN full :
            Leaves(Finished \cup (g \cap Accepted), k, cache[g][k])

\* Halfway through the merges.
MergeInv ==
    phase = "merge" =>
        \A k \in DOMAIN full :
            LET merged == {g \in plan[round] : k \in MergedKeys(g) \ toMerge[g]}
            IN  IF merged = {} THEN Leaves(Finished, k, full[k])
                ELSE \E g \in merged : full[k] = cache[g][k]

\* What an Aria round commits does not share a write.
CommitsInv ==
    InAriaRound /\ phase = "merge" =>
        \A t, u \in Accepted : t # u =>
            /\ rwSet[t].writes \cap rwSet[u].writes = {}
            /\ ~wroteBack => rwSet[t].writes \cap MergedKeys({u}) = {}

DatabaseInv ==
    state = [k \in Keys |->
        IF phase = "done" /\ k \in DOMAIN full
           /\ (OnDatabase \/ (driver.kind = "older" /\ k[1] \in Dirty(Txs)))
        THEN full[k] ELSE InitialValue]

\* Who runs, what is held and where a result ends up.
StructureInv == TypeOK /\ PlanInv /\ ProgressInv /\ HeldInv /\ CommitsInv /\ DatabaseInv

\* Everything about values is said under the condition of BlockSerializable: a
\* step that leaves it true has it true before.
BlockInv == StructureInv /\ (Condition => SawInv /\ StoresInv /\ MergeInv)
=============================================================================
