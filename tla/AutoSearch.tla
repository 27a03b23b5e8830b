----------------------------- MODULE AutoSearch -----------------------------
(***************************************************************************)
(* One automatic capacity search on its own, over every outcome a sweep    *)
(* can meet: each rung's run is stable or not, in any pattern, because a   *)
(* server under load need not fail monotonically.  The rungs and the       *)
(* stopping rule are those of CapacitySearch.                              *)
(***************************************************************************)
EXTENDS CapacitySearch

CONSTANT LoadRanges      \* the <<start, max>> pairs an operator may ask for

MaxRPS == 2000           \* the highest load of either mode: MaxVUs is 500

\* ValidateAutoSearchConfig refuses load < 1 || config.MaxLoad < load, and a
\* maximum above the mode's limit.
ValidRange(range) == range[1] >= 1 /\ range[1] <= range[2] /\ range[2] <= MaxRPS

ASSUME LoadRangesAssumption ==
  /\ LoadRanges \subseteq Nat \X Nat
  /\ \A range \in LoadRanges : ValidRange(range)

VARIABLE search

Ladder == SweepLadder(search.start, search.max)

Step == [load : Nat, stable : BOOLEAN]

TypeOK ==
  /\ search.status \in {"running", "completed"}
  /\ <<search.start, search.max>> \in LoadRanges
  /\ search.steps \in Seq(Step)
  /\ {search.stableLoad, search.failedLoad, search.nextLoad,
      search.recommended, search.provision} \subseteq Nat

Requested(range) ==
  [status |-> "none", start |-> range[1], max |-> range[2], steps |-> << >>,
   stableLoad |-> 0, failedLoad |-> 0, nextLoad |-> 0, recommended |-> 0, provision |-> 0]

Init == \E range \in LoadRanges : search = PlannedSearch(Requested(range))

(***************************************************************************)
(* The run queued at nextLoad finishes with verdict `stable`, and the      *)
(* search advances.  nextLoad is the load queueSearchRunLocked put in the  *)
(* run's configuration, and no run is queued once it is 0.                 *)
(***************************************************************************)
FinishRung(stable) ==
  /\ search.status = "running"
  /\ search.nextLoad > 0
  /\ search' = Advance(search, [load |-> search.nextLoad, stable |-> stable])

Next == \E stable \in BOOLEAN : FinishRung(stable)

\* Every rung's run ends, one way or the other (RunStore states when).
Spec == Init /\ [][Next]_search /\ WF_search(Next)

-----------------------------------------------------------------------------
(***************************************************************************)
(* The planned ladder is a usable measuring plan: it climbs, ends exactly  *)
(* at the configured maximum, and never more than doubles the load from    *)
(* one rung to the next, although the doubling stops after 12 rungs: with  *)
(* the validation's limit on max_load the twelfth doubling is never short. *)
(***************************************************************************)
LadderClimbsToMax ==
  /\ Min(Ladder) = search.start
  /\ Max(Ladder) = search.max
  /\ \A rung \in Ladder \ {search.max} : \E q \in Ladder : rung < q /\ q <= 2 * rung

(***************************************************************************)
(* The bookkeeping a running search shows the operator is well typed and   *)
(* agrees with the rungs it measured: StableLoad is the highest rung that held, FailedLoad *)
(* the lowest that did not, and a sweep that goes on has held at least     *)
(* once and never failed twice in a row.                                   *)
(***************************************************************************)
BooksAgreeWithSteps ==
  LET held   == {search.steps[i].load : i \in {j \in DOMAIN search.steps : search.steps[j].stable}}
      failed == {search.steps[i].load : i \in {j \in DOMAIN search.steps : ~search.steps[j].stable}}
  IN  /\ TypeOK
      /\ search.stableLoad = Max({0} \cup held)
      /\ search.failedLoad = IF failed = {} THEN 0 ELSE Min(failed)
      /\ (search.status = "running" /\ search.steps # << >>) =>
            /\ held # {}
            /\ \A i \in 1 .. Len(search.steps) - 1 :
                 search.steps[i].stable \/ search.steps[i + 1].stable

(***************************************************************************)
(* A search whose runs finish reports an answer: the sweep cannot go on    *)
(* for ever nor stop without finishing.                                    *)
(***************************************************************************)
SweepEnds == <>(search.status = "completed")

(***************************************************************************)
(* The search implements CapacitySweep: rungs in order, none skipped,      *)
(* stopped only when conclusive, and the answer is the capacity that holds *)
(* from the bottom up.                                                     *)
(***************************************************************************)
Measured ==
  [r \in {search.steps[i].load : i \in DOMAIN search.steps} |->
     \E i \in DOMAIN search.steps : search.steps[i] = [load |-> r, stable |-> TRUE]]

Abstract == INSTANCE CapacitySweep WITH
  ladder   <- Ladder,
  measured <- Measured,
  answer   <- IF search.status = "completed" THEN search.recommended ELSE -1

ImplementsCapacitySweep == Abstract!Spec
=============================================================================
