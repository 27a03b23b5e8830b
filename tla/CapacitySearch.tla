--------------------------- MODULE CapacitySearch ---------------------------
(***************************************************************************)
(* The automatic capacity search of internal/core/search.go: which load    *)
(* rung is measured next, when the sweep stops, and which capacity it      *)
(* reports.  Operators only; AutoSearch runs one search on its own and     *)
(* RunStore runs searches inside the run store.                            *)
(*                                                                         *)
(* A search is a record with at least the fields                           *)
(*   status       "none" | "running" | "completed" | "cancelled"           *)
(*   start, max   Config.StartLoad, Config.MaxLoad                         *)
(*   steps        Steps: the finished rungs, [run, load, stable]           *)
(*   stableLoad, failedLoad, nextLoad, recommended, provision              *)
(* Each operator leaves the other fields alone.  Message texts and the     *)
(* latency figures copied into a step are left out.                        *)
(***************************************************************************)
EXTENDS Integers, Sequences, FiniteSetsExt

MaxDoublings == 12          \* len(ladder) >= 12 stops the doubling
HeadroomPercent == 70       \* provisionHeadroomPercent
UnstableRungsBeforeStopping == 2

(***************************************************************************)
(* SweepLadder: start, 2*start, 4*start, ... below max, at most 12 of      *)
(* them, then max itself.  The ladder climbs, so the set of its rungs      *)
(* determines it.                                                          *)
(***************************************************************************)
\* A ladder that ends with its last doubling.
SweepLadderWithoutMax(start, max) ==
  {start * 2 ^ k : k \in 0 .. MaxDoublings - 1} \cap start .. max

SweepLadder(start, max) ==
  LET first     == IF start < 1 THEN 1 ELSE start
      last      == IF max < first THEN first ELSE max
      doublings == {first * 2 ^ k : k \in 0 .. MaxDoublings - 1}
  IN  (doublings \cap first .. last - 1) \cup {last}

(***************************************************************************)
(* KneeLoad: walk up the steps in the order of their loads as far as the   *)
(* first unstable one.  (No two steps of a search have the same load.)     *)
(***************************************************************************)
\* Takes a passing rung above a failing one for capacity.
KneeLoadHighestStable(steps) ==
  Max({0} \cup {steps[i].load : i \in {j \in DOMAIN steps : steps[j].stable}})

KneeLoad(steps) ==
  LET unstable == {i \in DOMAIN steps : ~steps[i].stable}
      below    == {j \in DOMAIN steps : \A i \in unstable : steps[j].load < steps[i].load}
  IN  Max({0} \cup {steps[j].load : j \in below})

ConsecutiveUnstableTail(steps) ==
  Max({n \in 0 .. Len(steps) :
         \A i \in Len(steps) - n + 1 .. Len(steps) : ~steps[i].stable})

\* Forgets search.Status.
FinishSearchStillRunning(search) ==
  [search EXCEPT !.nextLoad = 0, !.recommended = KneeLoad(search.steps)]

FinishSearch(search) ==
  LET knee == KneeLoad(search.steps)
  IN  [search EXCEPT
         !.status      = "completed",
         !.nextLoad    = 0,
         !.recommended = knee,
         !.provision   = IF knee = 0 THEN @
                         ELSE Max({1, (knee * HeadroomPercent) \div 100})]

(***************************************************************************)
(* AdvanceSearch: record the finished rung, then stop or name the next     *)
(* rung of the ladder.  There is a next rung (the code's second result)    *)
(* iff nextLoad is not 0 afterwards.                                       *)
(***************************************************************************)
Recorded(search, step) ==
  [search EXCEPT
     !.steps      = Append(@, step),
     !.stableLoad = IF step.stable THEN Max({@, step.load}) ELSE @,
     !.failedLoad = IF ~step.stable /\ (@ = 0 \/ step.load < @) THEN step.load ELSE @]

\* search.Ladder is SweepLadder of its bounds, which never change.
RungsAbove(search, load) == {rung \in SweepLadder(search.start, search.max) : rung > load}

\* Nothing has met the SLO yet, or the server failed twice in a row.
ShouldStop(search, step) ==
  \/ search.stableLoad = 0 /\ ~step.stable
  \/ ConsecutiveUnstableTail(search.steps) >= UnstableRungsBeforeStopping

Advance(search, step) ==
  LET recorded == Recorded(search, step)
      above    == RungsAbove(search, step.load)
  IN  IF ShouldStop(recorded, step) \/ above = {}
        THEN FinishSearch(recorded)
        ELSE [recorded EXCEPT !.nextLoad = Min(above)]

(***************************************************************************)
(* CreateSearch: the bounds are recorded and the first rung comes next.    *)
(***************************************************************************)
PlannedSearch(search) == [search EXCEPT !.status = "running", !.nextLoad = search.start]
=============================================================================
