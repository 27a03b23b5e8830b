---------------------------- MODULE RunStoreProps ----------------------------
(***************************************************************************)
(* The properties of RunStore.                                             *)
(***************************************************************************)
EXTENDS RunStore

(***************************************************************************)
(* A shard is executed by one agent only, and while it is, the store has   *)
(* it as running and no result of it is under way.  This is the README's   *)
(* "Each Agent claims a distinct queued run": two agents polling ClaimRun  *)
(* at once never load the target with the same share of a run.             *)
(***************************************************************************)
ShardExecutedByOneAgent ==
  \A a \in Agents : agent[a] # Idle =>
    /\ shard[agent[a].shard] = "running"
    /\ report[agent[a].shard] = "none"
    /\ \A b \in Agents : agent[b].shard = agent[a].shard => a = b

(***************************************************************************)
(* A result is handled once.  A result under way is of a shard the store   *)
(* has as running, so none is counted twice; and of the handlers of a      *)
(* run's results at most one, that of a completed run, goes on to sample   *)
(* the run and to advance its search, however many agents post at once.    *)
(***************************************************************************)
Following(sh) == report[sh] \in {"sample", "advance"}

ResultHandledOnce ==
  /\ \A sh \in ShardIds :
       /\ shard[sh] # "none" => run[RunOf(sh)].status # "none"
       /\ report[sh] = "posted" => shard[sh] = "running"
       /\ Following(sh) => run[RunOf(sh)].status = "completed"
  /\ \A sh, other \in ShardIds :
       Following(sh) /\ Following(other) /\ RunOf(sh) = RunOf(other) => sh = other

(***************************************************************************)
(* CompleteShard merges a run exactly when its last shard is in: a run is  *)
(* completed iff it was not cancelled and every one of its shards is, in   *)
(* whatever order and however late the results of the agents arrive.       *)
(***************************************************************************)
CompletedWithLastShard ==
  \A r \in RunIds : run[r].status \notin {"none", "cancelled"} =>
    (run[r].status = "completed" <=> \A sh \in ShardsOf(r) : shard[sh] = "completed")

(***************************************************************************)
(* DeleteTarget refuses while a run is active and ClaimRun refuses without *)
(* a target; between them a run that agents are executing always has its   *)
(* target, although createRun checks the target in a step of its own.      *)
(***************************************************************************)
RunningRunKeepsItsTarget ==
  \A r \in RunIds : run[r].status = "running" => target[run[r].target] = "registered"

(***************************************************************************)
(* "Only one step of an automatic job is queued at once": a running search *)
(* has at most one active run, its latest; a search that is over has none, *)
(* even if a rung's result was being processed when it was cancelled.      *)
(***************************************************************************)
OneActiveRung ==
  \A s \in SearchForms : \A i \in DOMAIN search[s].runs :
    Active(search[s].runs[i]) =>
      search[s].status = "running" /\ i = Len(search[s].runs)

(***************************************************************************)
(* A running search is never left behind: its latest run is being worked   *)
(* on, or a handler is about to advance the search with it, or somebody    *)
(* cancelled that run by itself (or deleted its target), which is the one  *)
(* way a search stalls while all requests are served.                      *)
(***************************************************************************)
LatestRun(s) == search[s].runs[Len(search[s].runs)]

NoRungLost ==
  \A s \in SearchForms : search[s].status = "running" =>
    \/ Active(LatestRun(s))
    \/ run[LatestRun(s)].status = "cancelled"
    \/ \E sh \in ShardsOf(LatestRun(s)) : report[sh] \in {"sample", "advance"}

(***************************************************************************)
(* The curve a search shows is the runs it made: every run that belongs to *)
(* a search is listed, in the order of the rungs; the steps are the first  *)
(* of those runs, each completed with the load and verdict recorded, and   *)
(* at most the latest run has no step.                                     *)
(***************************************************************************)
StepsMatchRuns ==
  \A s \in SearchForms :
    LET runs  == search[s].runs
        steps == search[s].steps
    IN  /\ {r \in RunIds : run[r].search = s} = {runs[i] : i \in DOMAIN runs}
        /\ Len(steps) \in {Len(runs) - 1, Len(runs)}
           \/ search[s].status = "none"
        /\ \A i \in DOMAIN steps :
             /\ steps[i].run = runs[i]
             /\ run[runs[i]].status = "completed"
             /\ steps[i].load = run[runs[i]].load
             /\ steps[i].stable = run[runs[i]].stable

(***************************************************************************)
(* AdvanceSearch of store.go names the next rung from the run its handler  *)
(* brings, cancellations and other searches' handlers in between: the runs *)
(* of a search measure its ladder from the bottom, so those before a run   *)
(* are exactly the rungs below its load: none skipped, none measured twice.*)
(***************************************************************************)
RungLoad(s, i) == run[search[s].runs[i]].load

LadderOf(s) == SweepLadder(search[s].start, search[s].max)

RungsClimbTheLadder ==
  \A s \in SearchForms : \A i \in DOMAIN search[s].runs :
    /\ RungLoad(s, i) \in LadderOf(s)
    /\ \A rung \in LadderOf(s) :
         rung < RungLoad(s, i) <=> \E j \in 1 .. i - 1 : RungLoad(s, j) = rung

(***************************************************************************)
(* FinishSearch reports what the store's runs show, though the steps it    *)
(* computes from were copied there one handler at a time: every rung of    *)
(* the ladder up to the capacity has a run that held, and where runs went  *)
(* on above it, the lowest of them failed.                                 *)
(***************************************************************************)
CapacityIsWhatHeld ==
  \A s \in SearchForms : search[s].status = "completed" =>
    LET capacity == search[s].recommended
        runs     == search[s].runs
    IN  /\ capacity \in {0} \cup {RungLoad(s, i) : i \in DOMAIN runs}
        /\ \A rung \in LadderOf(s) : rung <= capacity =>
             \E i \in DOMAIN runs : RungLoad(s, i) = rung /\ run[runs[i]].stable
        /\ \A i \in DOMAIN runs : RungLoad(s, i) > capacity =>
             \E j \in DOMAIN runs :
               capacity < RungLoad(s, j) /\ RungLoad(s, j) <= RungLoad(s, i) /\ ~run[runs[j]].stable

(***************************************************************************)
(* What is over stays over: no late result, claim or cancellation changes  *)
(* the status or the verdict of a run that is completed or cancelled.      *)
(***************************************************************************)
EndedRunsStayEnded ==
  [][\A r \in RunIds : Ended(r) =>
       run'[r].status = run[r].status /\ run'[r].stable = run[r].stable]_vars

(***************************************************************************)
(* An agent is never sent to work for a run that is over, nor against a    *)
(* target that is gone, whatever was queued when it asked.                 *)
(***************************************************************************)
NoWorkForEndedRun ==
  [][\A a \in Agents : (agent[a] = Idle /\ agent'[a] # Idle) =>
       LET r == RunOf(agent'[a].shard)
       IN  /\ Active(r)
           /\ run'[r].status = "running"
           /\ target[run[r].target] = "registered"]_vars

(***************************************************************************)
(* RunStore implements LoadService: the state of a run is its status, a    *)
(* part is a shard that was queued, handed out once it has run, collected  *)
(* once it is completed.                                                   *)
(***************************************************************************)
StateOf(status) ==
  CASE status = "none"      -> "absent"
    [] status = "queued"    -> "waiting"
    [] status = "running"   -> "executing"
    [] status = "completed" -> "finished"
    [] status = "cancelled" -> "withdrawn"

ServiceState == [r \in RunIds |-> StateOf(run[r].status)]
Submitted    == {sh \in ShardIds : shard[sh] # "none"}
HandedOut    == {sh \in ShardIds : shard[sh] \in {"running", "completed"}}
Collected    == {sh \in ShardIds : shard[sh] = "completed"}

Service == INSTANCE LoadService WITH
  Parts     <- ShardIds,
  Indexes   <- 0 .. MaxShards - 1,
  state     <- ServiceState,
  parts     <- Submitted,
  handedOut <- HandedOut,
  collected <- Collected

ImplementsLoadService == Service!Spec

(***************************************************************************)
(* The inductive invariant behind the safety theorems of RunStoreProofs.   *)
(***************************************************************************)
RunInv ==
  /\ TypeOK
  /\ ShardExecutedByOneAgent
  /\ ResultHandledOnce
  /\ CompletedWithLastShard
  /\ RunningRunKeepsItsTarget

(***************************************************************************)
(* What the refinement needs beyond RunInv: a run with a shard that was    *)
(* handed out is no longer waiting.                                        *)
(***************************************************************************)
StartedWithItsShards ==
  \A sh \in HandedOut : run[RunOf(sh)].status # "queued"

(***************************************************************************)
(* The inductive invariant behind the theorems about searches: RunInv, the *)
(* three properties of searches above, and what ties a search to the runs  *)
(* it made and to the handler that is about to advance it.                 *)
(***************************************************************************)
\* A search's request that has not reached CreateSearch has made nothing.
PlannedByItsForm ==
  \A s \in SearchForms :
    /\ form[s].stage \in {"new", "checked"} => search[s].status = "none"
    /\ search[s].status = "none" <=> search[s].runs = << >>
    /\ search[s].status = "none" => search[s].steps = << >>

\* No run is listed twice, and an unused run ID belongs to no search.
RungsAreDistinct ==
  /\ \A s \in SearchForms : \A i, j \in DOMAIN search[s].runs :
       search[s].runs[i] = search[s].runs[j] => i = j
  /\ \A r \in RunIds : run[r].status = "none" => run[r].search = None

\* While a search is running its latest rung is the one without a step, and
\* it is the only one whose result can still be on its way to AdvanceSearch.
LatestRungIsOpen ==
  \A s \in SearchForms : search[s].status = "running" =>
    /\ Len(search[s].steps) = Len(search[s].runs) - 1
    /\ \A sh \in ShardIds :
         Following(sh) /\ run[RunOf(sh)].search = s => RunOf(sh) = LatestRun(s)

SearchInv ==
  /\ RunInv
  /\ PlannedByItsForm
  /\ RungsAreDistinct
  /\ LatestRungIsOpen
  /\ OneActiveRung
  /\ NoRungLost
  /\ StepsMatchRuns

\* A completed search has a step of each of its runs, and computed its
\* capacity from all of them.
CompletedWithAllSteps ==
  \A s \in SearchForms : search[s].status = "completed" =>
    /\ Len(search[s].steps) = Len(search[s].runs)
    /\ search[s].recommended = KneeLoad(search[s].steps)

LadderInv ==
  /\ SearchInv
  /\ RungsClimbTheLadder
  /\ CompletedWithAllSteps

-----------------------------------------------------------------------------
(***************************************************************************)
(* A shard nobody will ever report: its agent died, or its result or its   *)
(* assignment was lost.  The store has no timeout that would requeue it.   *)
(***************************************************************************)
Orphaned(sh) ==
  /\ shard[sh] = "running"
  /\ report[sh] = "none"
  /\ \A a \in Agents : agent[a].shard # sh

(***************************************************************************)
(* Every run ends, unless one of its shards was orphaned: nothing else     *)
(* (deleted targets, cancelled neighbours, dead shards in the queue, busy  *)
(* agents) keeps a run active for ever.                                    *)
(***************************************************************************)
RunSettles ==
  \A r \in RunIds : Active(r) ~> (Ended(r) \/ \E sh \in ShardsOf(r) : Orphaned(sh))

(***************************************************************************)
(* Every search ends, unless its latest run was orphaned or was cancelled  *)
(* by itself.                                                              *)
(***************************************************************************)
SearchSettles ==
  \A s \in SearchForms :
    search[s].status = "running" ~>
      \/ search[s].status # "running"
      \/ run[LatestRun(s)].status = "cancelled"
      \/ \E sh \in ShardsOf(LatestRun(s)) : Orphaned(sh)

(***************************************************************************)
(* The scoped-agent-cancellation design: "The Agent polls the Controller   *)
(* for the specific run it claimed; when that run becomes cancelled it     *)
(* cancels" its own requests.  An agent does not go on loading for a       *)
(* cancelled run just because the load phase is not over.                  *)
(***************************************************************************)
LoadingForCancelledRun(a, sh) ==
  agent[a].shard = sh /\ ~agent[a].stopping /\ run[RunOf(sh)].status = "cancelled"

CancellationReachesAgent ==
  \A a \in Agents, sh \in ShardIds :
    LoadingForCancelledRun(a, sh) ~> ~LoadingForCancelledRun(a, sh)
=============================================================================
