------------------------------ MODULE RunStore ------------------------------
(***************************************************************************)
(* The run store of internal/store/store.go together with everything that  *)
(* drives it: the browser's requests and the agents' requests as the       *)
(* handlers of internal/controller/server.go carry them out, and the       *)
(* agents of internal/agent/client.go.                                     *)
(*                                                                         *)
(* Every exported MemoryStore method holds one mutex from start to end, so *)
(* a method is one atomic step.  A handler that calls several methods is   *)
(* not atomic: each of its calls is a step of its own, and the stage it    *)
(* has reached is part of the state (form, report).                        *)
(*                                                                         *)
(* Left out: the numbers inside a result (a completed run keeps only       *)
(* whether IsRunStable holds of it), created_by, the load split, captures, *)
(* the text of messages, and the heartbeat clock.                          *)
(***************************************************************************)
EXTENDS CapacitySearch

CONSTANTS
  Targets,        \* identities of targets
  RunIds,         \* identities of runs (run-<nextID>; never reused)
  Agents,         \* agent processes
  RunForms,       \* POST /api/runs requests users may send, one use each
  SearchForms,    \* POST /api/searches requests; also names the search made
  MaxShards,      \* largest Config.Shards
  StartLoad,      \* Config.StartLoad of every search
  MaxLoad,        \* Config.MaxLoad of every search
  MaxMonitoring,  \* maxMonitoringSamples
  AuthEnabled,    \* auth.Gate configured: GET /api/runs/{id} needs a session
  WithSampler,    \* NewServerWithMonitor: the sampler goroutine runs
  Publishers,     \* agents whose live progress posts are followed
  None            \* "no such thing"

Forms    == RunForms \cup SearchForms
ShardIds == RunIds \X (0 .. MaxShards - 1)

ASSUME RunStoreAssumption ==
  /\ MaxShards \in Nat \ {0} /\ MaxMonitoring \in Nat \ {0}
  /\ StartLoad \in Nat \ {0} /\ MaxLoad \in Nat /\ StartLoad <= MaxLoad
  /\ AuthEnabled \in BOOLEAN /\ WithSampler \in BOOLEAN
  /\ Publishers \subseteq Agents
  /\ RunForms \cap SearchForms = {}
  /\ None \notin Targets \cup RunIds \cup SearchForms \cup ShardIds

VARIABLES
  target,      \* store.targets: [Targets -> "none" | "registered" | "deleted"]
  run,         \* store.runs and store.searchRun
  shard,       \* store.shards: the status of each shard
  search,      \* store.searches
  progress,    \* store.progress: the shards that have live telemetry
  form,        \* how far each create request has come in its handler
  report,      \* how far each shard's result has come in completeShard
  publishing,  \* shards with a progress post under way
  scrape,      \* run IDs the sampler has still to attach its sample to
  agent        \* what each agent is running

vars == <<target, run, shard, search, progress, form, report, publishing, scrape, agent>>
handlers == <<form, report, publishing, scrape>>

-----------------------------------------------------------------------------
(***************************************************************************)
(* Types and initial state (NewMemoryStore; idle agents).                  *)
(***************************************************************************)
RunStatus   == {"none", "queued", "running", "completed", "cancelled"}
ShardStatus == {"none", "queued", "running", "completed", "cancelled"}

Load        == 0 .. MaxLoad

Run == [status : RunStatus, target : Targets \cup {None}, search : SearchForms \cup {None},
        load : Load, stable : BOOLEAN, monitoring : 0 .. MaxMonitoring]

Step == [run : RunIds, load : Load, stable : BOOLEAN]

Search == [status : {"none", "running", "completed", "cancelled"},
           target : Targets \cup {None}, shards : 1 .. MaxShards, runs : Seq(RunIds),
           start : {StartLoad}, max : {MaxLoad}, steps : Seq(Step), stableLoad : Load,
           failedLoad : Load, nextLoad : Load, recommended : Load, provision : Load]

Form == [stage : {"new", "checked", "sampling", "done"}, target : Targets \cup {None},
         shards : 1 .. MaxShards, run : RunIds \cup {None}]

Idle == [shard |-> None, stopping |-> FALSE]

AgentState == {Idle} \cup [shard : ShardIds, stopping : BOOLEAN]

NewRun == [status |-> "none", target |-> None, search |-> None, load |-> 0,
           stable |-> FALSE, monitoring |-> 0]

NoSearch == [status |-> "none", target |-> None, shards |-> 1, runs |-> << >>,
             start |-> StartLoad, max |-> MaxLoad, steps |-> << >>, stableLoad |-> 0,
             failedLoad |-> 0, nextLoad |-> 0, recommended |-> 0, provision |-> 0]

NewForm == [stage |-> "new", target |-> None, shards |-> 1, run |-> None]

TypeOK ==
  /\ target \in [Targets -> {"none", "registered", "deleted"}]
  /\ run \in [RunIds -> Run]
  /\ shard \in [ShardIds -> ShardStatus]
  /\ search \in [SearchForms -> Search]
  /\ progress \subseteq ShardIds
  /\ form \in [Forms -> Form]
  /\ report \in [ShardIds -> {"none", "posted", "sample", "advance"}]
  /\ publishing \subseteq ShardIds
  /\ scrape \subseteq RunIds
  /\ agent \in [Agents -> AgentState]

Init ==
  /\ target = [t \in Targets |-> "none"]
  /\ run = [r \in RunIds |-> NewRun]
  /\ shard = [sh \in ShardIds |-> "none"]
  /\ search = [s \in SearchForms |-> NoSearch]
  /\ progress = {}
  /\ form = [f \in Forms |-> NewForm]
  /\ report = [sh \in ShardIds |-> "none"]
  /\ publishing = {}
  /\ scrape = {}
  /\ agent = [a \in Agents |-> Idle]

-----------------------------------------------------------------------------
(***************************************************************************)
(* Helpers of the store methods.  Some are preceded by the form a slip in  *)
(* the code would give them; no specification uses those.                  *)
(***************************************************************************)
RunOf(sh)   == sh[1]
ShardsOf(r) == {sh \in ShardIds : RunOf(sh) = r /\ shard[sh] # "none"}

Active(r) == run[r].status \in {"queued", "running"}
Ended(r)  == run[r].status \in {"completed", "cancelled"}

\* Any run that is not cancelled yet can be cancelled.
CancellableAnyTime(r) == run[r].status \notin {"none", "cancelled"}

\* cancelRunLocked: run.Status != "queued" && run.Status != "running" returns.
Cancellable(r) == run[r].status \in {"queued", "running"}

ShardsAfterCancel(R) ==
  [sh \in ShardIds |-> IF RunOf(sh) \in R /\ shard[sh] = "queued"
                         THEN "cancelled" ELSE shard[sh]]

\* cancelRunLocked for each of the runs R.
CancelRuns(R) ==
  LET over == {r \in R : Cancellable(r)}
  IN  /\ run' = [r \in RunIds |-> IF r \in over THEN [run[r] EXCEPT !.status = "cancelled"]
                                   ELSE run[r]]
      /\ shard' = ShardsAfterCancel(over)

\* The next unused run ID (nextID only grows).
FreshRun == CHOOSE r \in RunIds : run[r].status = "none"

\* CreateRun and queueSearchRunLocked with queueShardsLocked: a queued run
\* with max(1, Shards) queued shards.
QueueRun(r, t, n, s, load) ==
  /\ \E free \in RunIds : run[free].status = "none"
  /\ r = FreshRun
  /\ run' = [run EXCEPT ![r] = [NewRun EXCEPT !.status = "queued", !.target = t,
                                               !.search = s, !.load = load]]
  /\ shard' = [sh \in ShardIds |-> IF RunOf(sh) = r /\ sh[2] < n THEN "queued" ELSE shard[sh]]

\* AddMonitoring: no check of the run's status, only of the series' length.
Monitored(r) == [run EXCEPT ![r].monitoring = IF @ < MaxMonitoring THEN @ + 1 ELSE @]

-----------------------------------------------------------------------------
(***************************************************************************)
(* Browser requests.                                                       *)
(***************************************************************************)
\* POST /api/targets.
CreateTarget(t) ==
  /\ target[t] = "none"
  /\ target' = [target EXCEPT ![t] = "registered"]
  /\ UNCHANGED <<run, shard, search, progress, agent, handlers>>

\* Only a queued run keeps its target from being deleted.
InUseWhileQueued(t) == \E r \in RunIds : run[r].target = t /\ run[r].status = "queued"

InUse(t) == \E r \in RunIds : run[r].target = t /\ Active(r)

\* DELETE /api/targets/{id}: refused (TargetInUse) while an active run names it.
DeleteTarget(t) ==
  /\ target[t] = "registered"
  /\ ~InUse(t)
  /\ target' = [target EXCEPT ![t] = "deleted"]
  /\ UNCHANGED <<run, shard, search, progress, agent, handlers>>

\* createRun and createSearch up to GetTarget: the target exists and the
\* configuration is valid, but nothing is created yet.
CheckForm(f, t, n) ==
  /\ form[f].stage = "new"
  /\ target[t] = "registered"
  /\ form' = [form EXCEPT ![f] = [stage |-> "checked", target |-> t, shards |-> n, run |-> None]]
  /\ UNCHANGED <<target, run, shard, search, progress, report, publishing, scrape, agent>>

\* createRun: CreateRun.  The target is not looked at again.
CreateRun(f) ==
  /\ form[f].stage = "checked"
  /\ \E r \in RunIds :
       /\ QueueRun(r, form[f].target, form[f].shards, None, 0)
       /\ form' = [form EXCEPT ![f].stage = "sampling", ![f].run = r]
  /\ UNCHANGED <<target, search, progress, report, publishing, scrape, agent>>

\* createRun: AddMonitoring(monitor.Sample()), after a scrape of any length.
SampleNewRun(f) ==
  /\ form[f].stage = "sampling"
  /\ run' = Monitored(form[f].run)
  /\ form' = [form EXCEPT ![f].stage = "done"]
  /\ UNCHANGED <<target, shard, search, progress, report, publishing, scrape, agent>>

\* createSearch: CreateSearch plans the ladder and queues its first rung.
CreateSearch(f) ==
  /\ form[f].stage = "checked"
  /\ \E r \in RunIds :
       /\ QueueRun(r, form[f].target, form[f].shards, f, StartLoad)
       /\ search' = [search EXCEPT ![f] =
                       [PlannedSearch(@) EXCEPT !.target = form[f].target,
                                                !.shards = form[f].shards, !.runs = <<r>>]]
  /\ form' = [form EXCEPT ![f].stage = "done"]
  /\ UNCHANGED <<target, progress, report, publishing, scrape, agent>>

\* POST /api/runs/{id}/cancel.
CancelRun(r) ==
  /\ Cancellable(r)
  /\ CancelRuns({r})
  /\ UNCHANGED <<target, search, progress, agent, handlers>>

\* POST /api/searches/{id}/cancel: the status is overwritten whatever it was.
CancelSearch(s) ==
  /\ search[s].status \in {"running", "completed"}
  /\ search' = [search EXCEPT ![s].status = "cancelled"]
  /\ CancelRuns({search[s].runs[i] : i \in DOMAIN search[s].runs})
  /\ UNCHANGED <<target, progress, agent, handlers>>

-----------------------------------------------------------------------------
(***************************************************************************)
(* The agents, and the store methods they reach over HTTP.                 *)
(***************************************************************************)
Claimable == {sh \in ShardIds : /\ shard[sh] = "queued"
                                /\ Active(RunOf(sh))
                                /\ target[run[RunOf(sh)].target] = "registered"}

\* Skips a shard whose target is gone without dropping it.
DeadOfEndedRuns == {sh \in ShardIds : shard[sh] = "queued" /\ ~Active(RunOf(sh))}

\* Queued shards ClaimRun drops when it comes across them: their run is over,
\* or their target is gone.
Dead == {sh \in ShardIds : shard[sh] = "queued"} \ Claimable

\* Forgets to store the claimed shard's new status.
ShardsAfterClaimStale(taken, dropped) ==
  [sh \in ShardIds |-> IF sh \in dropped THEN "cancelled" ELSE shard[sh]]

ShardsAfterClaim(taken, dropped) ==
  [sh \in ShardIds |-> IF sh \in dropped THEN "cancelled"
                       ELSE IF sh \in taken THEN "running" ELSE shard[sh]]

RunsAfterClaim(taken, dropped) ==
  [r \in RunIds |->
     IF \E sh \in dropped : RunOf(sh) = r /\ Active(r)
       THEN [run[r] EXCEPT !.status = "cancelled"]
     ELSE IF \E sh \in taken : RunOf(sh) = r
       THEN [run[r] EXCEPT !.status = "running"] ELSE run[r]]

\* ClaimRun walks the shard map in no particular order, dropping dead shards,
\* until it meets one it can hand out.
ClaimRun(a) ==
  /\ agent[a] = Idle
  /\ \E sh \in Claimable, dropped \in SUBSET Dead :
       /\ shard' = ShardsAfterClaim({sh}, dropped)
       /\ run' = RunsAfterClaim({sh}, dropped)
       /\ agent' = [agent EXCEPT ![a] = [shard |-> sh, stopping |-> FALSE]]
  /\ UNCHANGED <<target, search, progress, handlers>>

\* ClaimRun finds nothing to hand out (204): every dead shard is dropped.
ClaimNothing(a) ==
  /\ agent[a] = Idle
  /\ Claimable = {}
  /\ Dead # {}
  /\ shard' = ShardsAfterClaim({}, Dead)
  /\ run' = RunsAfterClaim({}, Dead)
  /\ UNCHANGED <<target, search, progress, agent, handlers>>

\* watchCancellation reads the status only of a 200 response; with login
\* configured its GET, which carries no session, is answered 401.
CancellationVisible(r) == ~AuthEnabled /\ run[r].status = "cancelled"

ObserveCancellation(a) ==
  /\ agent[a] # Idle
  /\ ~agent[a].stopping
  /\ CancellationVisible(RunOf(agent[a].shard))
  /\ agent' = [agent EXCEPT ![a].stopping = TRUE]
  /\ UNCHANGED <<target, run, shard, search, progress, handlers>>

\* RunTargetWithProgress returns (the load is over, or was cancelled) and the
\* result is posted, once.  RunOnce returns on the response or on an error;
\* as the connection may break right after the post, the agent is free here.
FinishLoad(a) ==
  /\ agent[a] # Idle
  /\ report' = [report EXCEPT ![agent[a].shard] = "posted"]
  /\ agent' = [agent EXCEPT ![a] = Idle]
  /\ UNCHANGED <<target, run, shard, search, progress, form, publishing, scrape>>

\* The agent process dies and is restarted; also: a claim's answer is lost.
\* The load it was running is not resumed and nobody is told.
AgentCrash(a) ==
  /\ agent[a] # Idle
  /\ agent' = [agent EXCEPT ![a] = Idle]
  /\ UNCHANGED <<target, run, shard, search, progress, handlers>>

\* The result never reaches the controller; RunOnce does not send it again.
LoseReport(sh) ==
  /\ report[sh] = "posted"
  /\ report' = [report EXCEPT ![sh] = "none"]
  /\ UNCHANGED <<target, run, shard, search, progress, form, publishing, scrape, agent>>

\* sampleLoop posts a snapshot; it posts the next one when this one is answered.
Publish(a) ==
  /\ a \in Publishers
  /\ agent[a] # Idle
  /\ agent[a].shard \notin publishing
  /\ publishing' = publishing \cup {agent[a].shard}
  /\ UNCHANGED <<target, run, shard, search, progress, form, report, scrape, agent>>

\* reportProgress: SetShardProgress looks only whether the shard exists.  The
\* post outlives the load: nothing waits for sampleLoop to end.
SetShardProgress(sh) ==
  /\ sh \in publishing
  /\ progress' = IF shard[sh] # "none" THEN progress \cup {sh} ELSE progress
  /\ publishing' = publishing \ {sh}
  /\ UNCHANGED <<target, run, shard, search, form, report, scrape, agent>>

LoseProgress(sh) ==
  /\ sh \in publishing
  /\ publishing' = publishing \ {sh}
  /\ UNCHANGED <<target, run, shard, search, progress, form, report, scrape, agent>>

-----------------------------------------------------------------------------
(***************************************************************************)
(* completeShard: CompleteShard; then, if the run it returns is completed, *)
(* AddMonitoring and AdvanceSearch.                                        *)
(***************************************************************************)
\* Waits only for shards nobody has claimed.
OthersOutstandingQueued(sh) ==
  \E other \in ShardsOf(RunOf(sh)) \ {sh} : shard[other] = "queued"

OthersOutstanding(sh) ==
  \E other \in ShardsOf(RunOf(sh)) \ {sh} : shard[other] # "completed"

CompleteShard(sh) ==
  /\ report[sh] = "posted"
  /\ shard[sh] # "none"
  /\ shard' = [shard EXCEPT ![sh] = "completed"]
  /\ \/ /\ run[RunOf(sh)].status = "cancelled" \/ OthersOutstanding(sh)
        /\ report' = [report EXCEPT ![sh] = "none"]
        /\ UNCHANGED <<run, progress>>
     \/ /\ run[RunOf(sh)].status # "cancelled"
        /\ ~OthersOutstanding(sh)
        /\ \E stable \in BOOLEAN :
             run' = [run EXCEPT ![RunOf(sh)].status = "completed", ![RunOf(sh)].stable = stable]
        /\ progress' = progress \ ShardsOf(RunOf(sh))
        /\ report' = [report EXCEPT ![sh] = "sample"]
  /\ UNCHANGED <<target, search, form, publishing, scrape, agent>>

SampleCompletedRun(sh) ==
  /\ report[sh] = "sample"
  /\ run' = Monitored(RunOf(sh))
  /\ report' = [report EXCEPT ![sh] = "advance"]
  /\ UNCHANGED <<target, shard, search, progress, form, publishing, scrape, agent>>

\* Does not look at the search's status.
WantsAdvanceAnyTime(r) == run[r].search # None

\* Forgets the rungs that failed.
WantsAdvanceStable(r) ==
  /\ run[r].search # None
  /\ search[run[r].search].status = "running"
  /\ run[r].stable

\* AdvanceSearch returns early for a run of no search and for a search that
\* is no longer running.
WantsAdvance(r) ==
  /\ run[r].search # None
  /\ search[run[r].search].status = "running"

\* The next rung's run is queued but not added to the search's list.
WithRunForgotten(s, r) == s

WithRun(s, r) == [s EXCEPT !.runs = Append(@, r)]

AdvanceSearch(sh) ==
  LET r    == RunOf(sh)
      s    == run[r].search
      next == Advance(search[s], [run |-> r, load |-> run[r].load, stable |-> run[r].stable])
  IN  /\ report[sh] = "advance"
      /\ report' = [report EXCEPT ![sh] = "none"]
      /\ \/ /\ ~WantsAdvance(r)
            /\ UNCHANGED <<search, run, shard>>
         \/ /\ WantsAdvance(r)
            /\ next.nextLoad = 0
            /\ search' = [search EXCEPT ![s] = next]
            /\ UNCHANGED <<run, shard>>
         \/ /\ WantsAdvance(r)
            /\ next.nextLoad # 0
            /\ \E q \in RunIds :
                 /\ QueueRun(q, search[s].target, search[s].shards, s, next.nextLoad)
                 /\ search' = [search EXCEPT ![s] = WithRun(next, q)]
      /\ UNCHANGED <<target, progress, form, publishing, scrape, agent>>

-----------------------------------------------------------------------------
(***************************************************************************)
(* The sampler goroutine: once a second it reads ActiveRunIDs, scrapes the *)
(* servers, and then attaches the sample to each of those runs.            *)
(***************************************************************************)
SamplerTick ==
  /\ WithSampler
  /\ scrape = {}
  /\ \E r \in RunIds : run[r].status = "running"
  /\ scrape' = {r \in RunIds : run[r].status = "running"}
  /\ UNCHANGED <<target, run, shard, search, progress, form, report, publishing, agent>>

SamplerAttach(r) ==
  /\ r \in scrape
  /\ run' = Monitored(r)
  /\ scrape' = scrape \ {r}
  /\ UNCHANGED <<target, shard, search, progress, form, report, publishing, agent>>

-----------------------------------------------------------------------------
Next ==
  \/ \E t \in Targets : CreateTarget(t) \/ DeleteTarget(t)
  \/ \E f \in Forms, t \in Targets, n \in 1 .. MaxShards : CheckForm(f, t, n)
  \/ \E f \in RunForms : CreateRun(f) \/ SampleNewRun(f)
  \/ \E f \in SearchForms : CreateSearch(f) \/ CancelSearch(f)
  \/ \E r \in RunIds : CancelRun(r) \/ SamplerAttach(r)
  \/ \E a \in Agents : \/ ClaimRun(a) \/ ClaimNothing(a) \/ ObserveCancellation(a)
                       \/ FinishLoad(a) \/ AgentCrash(a) \/ Publish(a)
  \/ \E sh \in ShardIds : \/ CompleteShard(sh) \/ SampleCompletedRun(sh) \/ AdvanceSearch(sh)
                          \/ LoseReport(sh) \/ SetShardProgress(sh) \/ LoseProgress(sh)
  \/ SamplerTick

Spec == Init /\ [][Next]_vars

(***************************************************************************)
(* Fairness.  An agent's process goes on: idle, it polls for work (main's  *)
(* loop); busy, its load phase ends (LoadPhaseEnds of RunEngine; this      *)
(* takes for granted that the target answers the warm-up requests).  The   *)
(* controller goes on with the requests it has received.  Nothing is       *)
(* assumed of users, of lost messages or of crashes.                       *)
(***************************************************************************)
AgentStep(a) == ClaimRun(a) \/ ClaimNothing(a) \/ FinishLoad(a)

HandlerStep ==
  \/ \E f \in RunForms : CreateRun(f)
  \/ \E f \in SearchForms : CreateSearch(f)
  \/ \E sh \in ShardIds : CompleteShard(sh) \/ SampleCompletedRun(sh) \/ AdvanceSearch(sh)

Fairness == WF_vars(HandlerStep) /\ \A a \in Agents : WF_vars(AgentStep(a))

FairSpec == Spec /\ Fairness

\* Only the cancellation watcher's ticker is relied on: a load phase may last
\* as long as it likes (up to an hour per stage).
WatcherSpec == Spec /\ \A a \in Agents : WF_vars(ObserveCancellation(a))
=============================================================================
