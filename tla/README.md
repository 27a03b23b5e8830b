# Load Observatory: specifications

TLA+ models of Load Observatory: a Go controller that keeps targets, load runs
and automatic capacity searches, Go agents that claim shards of runs and put the
load on the target, and a browser client. The specifications follow the code in
`src/`; `PROJECT.json` maps each definition to the lines it models.

Contents: [inventory](#1-the-system) · [modules](#2-modules-and-the-code) ·
[runs](#3-what-the-runs-check) · [fairness](#4-fairness) ·
[proofs](#5-what-is-proved) · [disagreements](#6-disagreements-found) ·
[limits](#7-what-is-not-modelled) · [plan](#8-plan)

## 1. The system

```
 browser ──HTTP──> controller handlers ──> Store <── sampler goroutine (1 s)
                        ^      │             │             │
   agents ───HTTP───────┘      │         PostgresStore     └─> monitor.Client ─> Prometheus, /metrics
   (claim, progress, result,   └─> core.* (search, verdicts)
    status poll, heartbeat)
```

| component | state it keeps | operations | where it is hard |
|---|---|---|---|
| run store, `internal/store/store.go` | targets, runs, shards, searches, `searchRun`, live progress, capture sessions, nextID; one mutex | create/delete target, create/cancel run, create/cancel/advance search, claim, progress, complete shard, monitoring | every method is atomic, but handlers call several; shards of one run finish in any order on different agents; a map is walked in random order |
| handlers, `internal/controller/server.go` | none of their own | one per HTTP route | check-then-act across store calls (target check, then create; complete, then sample, then advance) |
| sampler goroutine, `server.go:74` | the run IDs it read | once a second: read active runs, scrape, attach | the run ends during the scrape |
| agent, `internal/agent/client.go`, `cmd/agent` | the claimed shard | poll, run the load, post progress, post the result once, watch for cancellation | crashes, lost answers and posts, no retry, progress goroutine nobody waits for |
| capacity search, `internal/core/search.go` | ladder bounds, steps, stable/failed/next/recommended/provision loads | plan, advance, finish | arbitrary patterns of stable and unstable rungs; boundaries of the doubling |
| load engine, `internal/agent/runner.go` | counters, latencies, samples, backoff, guardrail, stages | warm-up, stages, issue, drain, report | timeouts against drains, resets, in-flight limits, goroutines |
| durable store, `internal/store/postgres*.go` | the memory store and one encrypted snapshot row | each operation, then `persist` | two-step persistence without mutual exclusion, crash and restart, several replicas |
| shard split, results and merge, `store.go` ClaimRun / CompleteShard, `runner.go` result | counters and sample sets of a shard, its posted result, the run's result | split VUs and RPS, count and sample an attempt, post, merge | remainders; a sample set that halves itself; percentiles that cannot be merged; a Go map's order |
| capture proxy, `controller/capture.go`, `store.go` | settings, capture sessions and their events | forward and record a request, change the settings, delete a session | overlapping requests, idle split, limits lowered under stored sessions, updates in two store calls, a salt per process |
| metric resolver, `internal/monitor/monitor.go` | remembered candidate and retry time of each metric | sample, resolve (three locked sections around queries) | concurrent callers, exporters that come and go |
| login gate, `internal/auth/auth.go` | discovered provider; cookies in the browser | discover, login, callback, logout, require | background discovery with retry, several tabs with one state cookie, expiry, restarts |
| verdicts, `core/saturation.go`, `core/provenance.go`, `view` | monitoring samples and detected configuration of a run | attach a sample, set the detected configuration; saturation, validity, attribution, provenance | missing metrics, thresholds, an entry that contradicts the server |
| validation `core/target.go`, exports `controller/export.go`, web client `web/src`, manifests `deploy/` | none | – | – |

What makes the parts correct, in one line each:

* run store and agents: a shard is executed by one agent and counted once; a run
  is over exactly once and for good; work is handed out only for wanted runs;
  nothing but a lost agent or message keeps a run from ending;
* searches: one rung at a time, no rung lost, the curve shown is the runs made,
  and the capacity reported holds from the bottom rung up;
* sampler and progress: evidence is attached to the right runs, and stops when
  they stop;
* durable store: what was acknowledged survives a restart;
* load engine: every attempt is accounted for, stages do not overlap, a dead target is
  backed off from, and the phase ends whatever the target does;
* split and merge: the shards' loads add up to the configuration, and so do the
  results; samples stand for the whole run, and percentiles are exact or say that they are not;
* captures: a session holds the requests of one client that belong together, in a
  bounded history, and settings that were changed stay changed;
* metric resolver: exported metrics are found and dead ones left alone;
* login gate: the latest login works, and nothing behind the gate happens without one;
* verdicts: what was not measured is not taken for zero, and more load never looks like less.

All of these are specified here. `PROJECT.json` "hazards" lists the places in
the code where these can go wrong, each with the properties that watch it, or
the reason why none does.

## 2. Modules and the code

| module | what it is |
|---|---|
| `CapacitySearch` | the pure part of `core/search.go`: `SweepLadder`, `KneeLoad`, `Recorded`, `ShouldStop`, `FinishSearch`, `Advance` |
| `AutoSearch` | one search on its own: `Init` plans the ladder (CreateSearch), `FinishRung` is AdvanceSearch with either verdict |
| `CapacitySweep` | abstract: rungs measured from the bottom, none skipped; the answer holds from the bottom up |
| `RunStore` | the run store with its handlers, agents and sampler; uses `CapacitySearch` for searches |
| `RunStoreProps` | the properties of `RunStore` and its refinement mapping |
| `LoadService` | abstract: runs made of parts, each handed out once and collected once |
| `MCAutoSearch`, `MCRunStore` | instances for TLC (ranges of loads; symmetries) |
| `Persistence`, `MCPersistence` | PostgresStore: operations on memory, snapshots and writes, crashes and restarts, several controllers |
| `RunEngine`, `MCRunEngine` | one load phase of an agent: control goroutine, VUs and arrivals, backoff, guardrail, drain, lifecycle counters |
| `SampleSet` | `sampleSet` of the runner as an operator `add` on records |
| `Stability` | `CompletionShortfall`, `IsRunStable`, `InstabilityMessage` as operators |
| `RunResults`, `MCRunResults` | the numbers of a run: split, attempts, results, merge; uses `SampleSet` and `Stability` |
| `Verdicts` | `AssessSaturation`, `AssessRunValidity`, `AttributeTTFT` as operators on series of samples |
| `Assessment`, `MCAssessment` | the samples and the scraped configuration of a run, and the view derived from them; uses `Verdicts` |
| `MetricResolver`, `MCMetricResolver` | concurrent calls of `Sample` on one `resolver` |
| `Captures`, `Gate` | the capture proxy with its sessions and settings; the login gate |
| `FrontDoor`, `MCFrontDoor` | `ServeHTTP`: `Gate` and `Captures` composed on one controller |
| `CapacitySearchProofs`, `AutoSearchProofs`, `RunStoreProofs`, `PersistenceProofs`, `RunEngineProofs`, `RunResultsProofs`, `FrontDoorProofs` | theorems and proofs about the module of that name and its properties |
| `MonitoringProofs` | theorems and proofs about `MetricResolver` and `Assessment` |

### RunStore and the code

*Atomicity.* `MemoryStore` methods hold `s.mu` from first to last line, so a
method is one action. Handlers are sequences of methods with anything in between:

* `createRun`: `CheckForm` (GetTarget and validation), `CreateRun`, `SampleNewRun`
  (AddMonitoring after a scrape). `form[f].stage` is the handler's program counter.
* `createSearch`: `CheckForm`, `CreateSearch`.
* `completeShard`: `CompleteShard`, then for a completed run `SampleCompletedRun`
  and `AdvanceSearch`. `report[sh]` is the program counter.
* `DELETE target`, `cancel run`, `cancel search`: one step each.

*State.* `target`, `run`, `shard`, `search`, `progress` are the store's maps
(`run[r].search` is `searchRun`); `form`, `report`, `publishing`, `scrape` are
requests and goroutines under way; `agent` is what each agent is executing.

*Agents.* `ClaimRun` and `ClaimNothing` are the two outcomes of
`POST /api/agent/claim`. Go walks the shard map in random order, so any set of
dead shards (run over, or target gone) may be dropped before one is handed out;
`ClaimNothing` drops all of them. `FinishLoad` ends a load phase and posts the
result, `ObserveCancellation` is the status poll, `Publish` / `SetShardProgress`
a progress post. Failures: `AgentCrash` (also a claim whose answer is lost),
`LoseReport`, `LoseProgress`.
RunOnce posts a result once and the code has no other sender, so results are not
duplicated in the model.

*Search.* `AdvanceSearch` of the store is `Advance` of `CapacitySearch` followed,
if the search goes on, by `QueueRun` of the next rung, in one step. The verdict
`IsRunStable` of a completed run is an arbitrary Boolean, chosen when the
run completes.

*Bounds.* `RunIds` bounds the runs made (a create or an advance that needs one
more waits for it: no configuration below uses up its run IDs before its forms
and rungs are served), `RunForms` and `SearchForms` the create requests,
`MaxShards` the shards of a run, `StartLoad`/`MaxLoad` the ladder,
`MaxMonitoring` the length of a monitoring series (`maxMonitoringSamples`).

*Operator twins.* Some helpers have a sibling named after a slip
(`OthersOutstandingQueued`, `DeadOfEndedRuns`, ...). No specification uses
them; replacing the helper by its sibling must violate the property paired with
it in `PROJECT.json` "mutants", which shows that the property can tell.

### The search and the code

`SweepLadder` is written as a set: the doublings of the start load that lie below
the maximum (at most 12 of them) and the maximum; the code's slice is this set in
ascending order. `KneeLoad` is stated declaratively (below every unstable rung),
and checked against the code's reading through the refinement of `CapacitySweep`.
Integer division in `FinishSearch` is Go's. A range of `AutoSearch` is one that
`ValidateAutoSearchConfig` lets through, so its maximum is at most 2000 (`MaxRPS`,
the larger of the two modes' limits); without that limit twelve doublings could end
below half the maximum and the last rung would more than double the load.

### Persistence and the code

Every mutating method of `PostgresStore` calls the memory store's method and then
`persist()`. `Apply` is the first part (atomic under the memory store's lock),
`Snap` takes the snapshot (`Snapshot`, again under the lock), `Write` or `WriteFails`
is the upsert, after which the request is answered. Nothing orders the steps of
concurrent requests, so a snapshot can be taken before, and written after,
another one. `Start` reads the row into a new process, `StartUnread` is the
startup whose SELECT fails and is taken for an empty table, `Crash` loses memory
and the requests under way.

What an operation does to the maps is `RunStore`'s subject; here a store's
contents are the set of operations applied to it. `Needs` and `Bars` keep what
one operation requires of others (a claim needs its run and bars another claim
of the shard), `Follows` which answers its client waits for, `Volatile` which
methods do not persist: SetShardProgress, AddMonitoring, and a ClaimRun that
hands out nothing. `excused` is a history variable: the operations for which no
durability is claimed.

### RunEngine and the code

`RunEngine` is what `RunStore` takes as one step: `RunTargetWithProgress`, from
the claim to the result.

*Goroutines.* `pc` is the control goroutine: warm-up, then stage after stage
(`issuing`, `draining`, `joining` are the three waits of `runStage`), cool-down.
`worker[w].at` is where a VU, or the goroutine of an arrival, is in `runWorker`,
`runJourney`, `runAgentSession` and `doRequest`: at the head of its loop
(`ready`), before the backoff check (`due`), delayed by it (`held`), in
`client.Do` (`calling`) or in `think`. The warm-up requests are sent by the
control goroutine itself, which is sender `Main`. `arriving` is the dispatcher of
`runRPS` and `runTrace`.

*Contexts.* `runEnd` is runCtx (ended by the user or the guardrail), `issueOver`
the stage's deadline on issueCtx, `requestsCut` the cancellation of requestCtx,
which happens at the end of the drain or by the goroutine that watches runCtx
(`WatchRun`), a step of its own because it may come late.

*Answers.* What the target does is arbitrary: `Succeed`, `HTTPFailure`,
`TransportError`, or nothing at all until the request's context ends
(`CutShort`). `DialTimeout` is the error that `recordAborted` takes for a
cancellation. Whether a success reveals a missed SLO is arbitrary, too (`Trips`).

*Left out.* Times and rates, so a running timer may fire at any moment; the
length of a backoff; prompts, streams and token counts; sample sets, percentiles
and the timeline. `failures` stops counting at the threshold, where the code
stops looking at it but for the length of the delay.

*Bounds.* `MaxAttempts` bounds the attempts, delays and sessions begun,
`MaxDropped` the dropped arrivals; `Workers` is the largest number of VUs or
the in-flight limit. They guard only what a worker begins, never how it ends.

### RunResults and the code

An `Attempt` is one step from `beginAttempt` to the record of its outcome, with
the event of the backoff before it; their interleaving is `RunEngine`'s subject,
and `AttemptsAccounted` there justifies the single step here. `Share` is what
ClaimRun hands to a shard, `Offered` what the shard makes of it
(`newArrivalSchedule` raises a rate of 0 to 1). `Post` is CompleteShard: it
stores the shard's result, and with the last one `Merge`s them all in the order
of a Go map, that is any, and drops the samples.

Latency stands for the five metrics. A percentage is a numerator over a count,
as in `goodput`, and is compared by cross-multiplying. `old` holds the shards of
agents that report neither samples nor steady samples, for which the code has
fallbacks (`Weight`, `MergedByShard`). `OutcomeOf` is what stability looks at: the
output rate is tokens (one for each success) over seconds, which are a shard's own
(`elapsed`) in its result and `Config.DurationSeconds` (`Duration`) in the run's.
`measured` is a history variable: what was given to the sample set.

The counters by status, scenario and second are merged by the same sums and left
out. The scenarios' order, `Errors` and `GuardrailMessage` are left out, too: the merge
fills them as it walks the map, so they do depend on its order (section 6), and
`MergeIsFaithful` speaks of the numbers only.

### Assessment and the code

A monitoring sample is a function from the metrics that were measured to values,
so that a missing metric is missing in the model as well; `Observed` is `series`,
the values of one metric at the places of the samples that have it.
`View` is `view` of the handlers, and `Scraped` the merge of labels in
`Client.ServerConfig` when only some of the metrics answer. A setting is a number
with 0 for unknown; `Shown` is its text, which rounds the utilization to two
decimals, and conflicts compare texts. The sampler's `AddMonitoring` and
`SetDetectedServer` are the actions.

### MetricResolver and the code

A call of `Sample` is at one metric and one candidate: `Look` is the first locked
section of `resolve`, `QueryRemembered` and `Query` are queries outside the lock,
`Remember` and `GiveUp` the locked sections that write down the result. Between
any two of them other callers move and the exporters change (`Change`). A retry
time is ahead (`waiting`) or past (`due`); `RetryDue` lets the minute pass.
`rounds` is history: how often a metric was given up since its last retry.

### FrontDoor and the code

*Captures.* A request is `Admit`ted (the settings are read), `Forward`ed (the
target is looked up and the start noted) and `Record`ed when the model has
answered or failed; its stages interleave with those of other requests. A session's
identity is the process's salt (`epoch`), the client and, after a split, its
start. `ReadSettings` and `WriteSettings` are the two store calls of
`updateCaptureSettings`. An event keeps, as history, the gap to its session's last
update and the limit at that time. `crossed`, `hurried`, `largest` and `acked`
are history too, and say when a property does not apply.

*Gate.* One user with several tabs of one browser: cookies are variables of the
browser, `stateCookie` is shared by the tabs, and a state is a number.
The identity provider is external, goes down and comes back (`ProviderChanges`), and
may send a user back who did not sign in, or with a code that yields no ID token
the gate can verify (`Deny`): such a callback spends the state and opens no session.

*FrontDoor.* `Public` and `HumanAPI` are the two sides of `ServeHTTP` that
concern these components; `HumanAPI` passes `PassesRequire` first, and an update
that has passed it goes on even if the session ends meanwhile. `GateRestart` and
`CapturesRestart` are one step, the restart of the controller; captures and
settings come back from the snapshot (that the snapshot is current is
`Persistence`'s subject).

## 3. What the runs check

Every run finishes in less than three minutes. Deadlock is checked in `resolver`
only, where the sampler goes on for ever: the other models stop when their requests are
used up or the load phase is over, as the system does. The type invariants of `RunStore`,
`RunEngine`, `Persistence`, `MetricResolver` and `Assessment` are not among the runs, because section 5
proves them for every instance.

| run (configuration) | shows |
|---|---|
| `search` (`MCAutoSearch.cfg`) | for 79 load ranges and every pattern of verdicts: the ladder climbs to the maximum at most doubling (`LadderClimbsToMax`), every sweep ends (`SweepEnds`), and the search implements `CapacitySweep` |
| `store` (`MCRunStore.cfg`) | two agents, a run and a search of two rungs, one or two shards, crashes, lost results, cancellations, deletions: `RunningRunKeepsItsTarget`, although handlers check the target in a step of their own and a rung follows another, `ShardExecutedByOneAgent`, `ResultHandledOnce`, `OneActiveRung`, `NoRungLost`, `StepsMatchRuns`, `EndedRunsStayEnded`, and `RunStore` implements `LoadService` |
| `surroundings` (`_surroundings.cfg`) | a search of three rungs of up to two shards on a target that may be deleted, with the sampler and progress posts between everything: a completed search measured every rung up to its capacity with a run that held, and the lowest run above it failed (`CapacityIsWhatHeld`) |
| `settle` (`_settle.cfg`) | two targets, one agent, a run and a two-rung search, under `FairSpec`: every run ends unless one of its shards was orphaned (`RunSettles`), every search ends unless its latest run was orphaned or cancelled by itself (`SearchSettles`) |
| `engine` (`MCRunEngine.cfg`) | seven configurations (two stages with warm-up and guardrail, no drain, journeys, a one-job workflow, arrivals of requests and of sessions, a trace) on two workers: `AttemptsAccounted`, `QuietBetweenStages`, `DeadTargetIsSpared`, `CompletedSessionsSucceeded`; a cancelled run ends without any timer (`CancelledRunEnds`), and the phase ends whatever the target does (`LoadPhaseEnds`) |
| `persistence` (`MCPersistence.cfg`) | one controller, the requests around one shard, crashes, restarts, database failures: persists that neither fail nor overlap lose nothing (`SerialPersistIsDurable`), two claims of a shard are never both acknowledged, restart or not, unless one was excused (`ExclusiveAcrossRestarts`), and in the row and in each store a claim or a result has its run, and a result the claim before it unless that claim was excused (`StoresAreCoherent`) |
| `results` (`MCRunResults.cfg`) | two shards of agents of either release: the load offered is the load asked for (`OfferedIsAsked`), samples are evenly spread (`SamplesEvenlySpread`), pooled percentiles are exact or flagged and the fallback never understates (`PercentilesAreHonest`), the merge accounts for every attempt in whatever order it meets the shards (`MergeIsFaithful`), and a run whose shards are all stable is stable, with regard to the output rate if they took the configured duration between them (`StableShardsMakeAStableRun`) |
| `assessment` (`MCAssessment.cfg`) | series of samples with metrics missing, partial scrapes, typed configurations: the verdicts are those of series without gaps, so a metric that a scrape left out is not an idle second of it (`UnmeasuredIsNotZero`), only a second in which an empty queue was measured makes a run look less loaded, and a fault is never forgotten (`PressureNeverRelieves`), the scraped configuration outranks the typed one and says so (`OverruledOpenly`), and what is once known of the server stays (`ProvenanceSettles`) |
| `resolver` (`MCMetricResolver.cfg`) | sampler and handler on two metrics with two candidates and one: dead metrics are not probed every second (`ProbesAreBounded`), and samples settle on what is exported (`SamplesSettle`) |
| `front_door` (`MCFrontDoor.cfg`) | logins, captures and settings with restarts and outages: `SessionsStayBounded`, `EventsBelongTogether`, `SerialClientsReplayInOrder`, `TokenChangesSurvive`, `LatestLoginCompletes`, `DiscoverySettles` |
| `cancellation_login`, `snapshot_overtaken` | the counterexamples of section 6, each of one property and expected to fail |

Why the bounds suffice. Interference between shards needs two shards of a run
and two agents; between runs, two runs that compete for an agent; between a
search and its surroundings, a rung that is followed by another one and a
handler caught between completing and advancing. `MCRunStore.cfg` has all of
these at once (two agents, up to two shards, a free run next to a two-rung
search). `surroundings` adds a third rung, without which no rung can hold above one
that failed. The number of rungs otherwise matters only to the arithmetic of the
search, which `MCAutoSearch` covers separately with ladders of up to 12 rungs,
including the widest ranges the validation admits (500 VUs, 2000 RPS) and every
range within 20 with a start of at most 4. Agents are symmetric in `store`; run
IDs are not, because the store hands them out in order. `surroundings` and `settle`
have one agent, because their questions are about a search or a run and what happens around
it: the sampler, a target that goes away, a handler between two steps, and, in
`settle`, a second run that keeps the only agent busy.

In `persistence` each of six operations is requested once: creating a run, two
claims of its shard, a progress post, its result and an unrelated target. That is
enough for a snapshot to overtake another with an operation of the same run, and
of another object, between the two, and for the restart that follows. Crashes
and restarts are not bounded.

In `engine`, a threshold of one failure and a guardrail that looks from the first
sample (`BreakerThreshold`, `MinSamples`) bring the backoff and the guardrail within
the three attempts allowed (`MaxAttempts`): one to open the breaker, one that was past
the check already, and one that is held back. Two workers are enough for one to be
cut, held or in a session while the other one succeeds, fails or trips the
guardrail, and for an arrival to be dropped. TLC has two stages at most, which is one
step from a stage to the next; `RunEngine` and its proofs have up to the twelve that
`core/target.go` admits.

In `results`, two shards are enough for a merge to have an order. A load of 3
leaves a remainder, a load of 1 leaves a shard without any. Of the four attempts
(`MaxAttempts`) all may fall to one shard, whose samples are then full at three
(`MaxSamples`) and halved; a threshold of two failures brings backoff events. The
latencies lie below, at and above the limits, and one agent, both or none are of
an older release. The shards take two seconds together or three (`Elapsed`), on both sides of
the three configured (`Duration`), with and without a required output rate. The proof of `SamplesEvenlySpread` covers samples that are
halved any number of times.

In `assessment`, five samples (`MaxSamples`) of five kinds, one of them empty, put
a share of waiting samples on both sides of the quarter that counts as sustained,
and the clock on both sides of a decline of 5 %; the longer ones are the same
functions of a mean, a peak or a share. Two of the metrics that carry labels let a
scrape answer in part, and the typed utilization differs from the scraped one in
the text or only below its last decimal.

In `resolver`, a metric with two candidates and one with a single candidate
cover finding a later candidate, falling back from a remembered one and giving
up; `MaxChanges` lets an exporter go and come back. Two callers are enough for one
to write down what the other has just made untrue.

In `front_door` the limits are scaled down to two sessions, two events and no
idle tick, so that eviction, full sessions and splits happen within three requests
(`MaxCalls`) and two ticks (`MaxTime`); two updates cross, two tabs log in twice,
the controller restarts once (`MaxEpoch`) and the provider goes down and comes back
(`MaxOutages`). `MCInit` starts in three ways, with some of the bounds used up: logins, requests and
updates are each explored in full with little of the others, because they share
no more than the session check and the settings. The safety properties among
them that are proved hold for all of them together.

## 4. Fairness

`FairSpec` assumes weak fairness of

* the steps of an agent, `ClaimRun`, `ClaimNothing` and `FinishLoad`, together:
  `cmd/agent/main.go` polls in an endless loop, and a load phase ends, which is what
  `LoadPhaseEnds` of `RunEngine` shows from the end of the warm-up on. A warm-up
  request that the target never answers holds the agent for ever (section 6): it is
  then lost to the controller as if it had died;
* the steps of handlers, together: Go runs a handler to its end, and there are
  finitely many requests.

Users, crashes and lost messages are not fair: they may happen or not. Weak
fairness of an agent's steps says only that it gets some shard, not a
particular one; that no run starves in the model is due to the finitely many
runs, each of which occupies an agent only a bounded number of times.

`WatcherSpec`, used for the cancellation, assumes only the ticker of
`watchCancellation`. It deliberately omits `FinishLoad`: a stage may last an
hour, and the question is whether cancellation takes effect before the load
phase is over anyway. Without login the property holds under the same assumption;
it has no run of its own.

`Spec` of `RunEngine` assumes that goroutines go on and that a context that ended
wakes those who select on it: weak fairness of the control goroutine's steps, of
the watcher of runCtx, of the dispatcher's end and of each worker, but nothing of the
target: no fairness for answers of any kind. `CancelledRunEnds` holds under that alone.
`TimerFairness` adds that timers fire (stage, drain, cool-down, backoff, think time); it is
the premise of `LoadPhaseEnds`.

`MetricResolver` assumes that a call of `Sample` goes on (its queries end after 5
seconds at the latest), that the minute of a retry passes, and that the sampler calls
again, as it does every second while a run is active; handlers may never come, and
`SamplesSettle` asks nothing before the exporters have stopped changing. `FrontDoor` assumes only
that `discoverUntilReady` goes on trying: no user, request or restart is fair.

## 5. What is proved

For every value of the constants that satisfies `RunStoreAssumption` (positive
`MaxShards` and `MaxMonitoring`, `1 <= StartLoad <= MaxLoad`, Boolean flags,
disjoint forms, `None` is no identity), the proof system checks:

| theorem | says |
|---|---|
| `TypeCorrect` | `Spec => []TypeOK`; its content is that loads stay within the ladder's bounds and series within their cap, through `AdvanceType`, which needs `SweepLadderBounds` and `ProvisionBounds` |
| `ShardsAreExecutedOnce` | `[]ShardExecutedByOneAgent` |
| `ResultsAreHandledOnce` | `[]ResultHandledOnce` |
| `RunsCompleteWithTheirShards` | `[]CompletedWithLastShard` |
| `TargetsOutliveTheirRuns` | `[]RunningRunKeepsItsTarget` |
| `EndedRunsNeverChange` | `EndedRunsStayEnded` (an action property) |
| `AgentsGetWantedWork` | `NoWorkForEndedRun` (an action property) |
| `OneRungAtATime` | `[]OneActiveRung` |
| `SearchesAreNotForgotten` | `[]NoRungLost` |
| `CurvesAreTheRunsMade` | `[]StepsMatchRuns` |
| `NoRungIsSkipped` | `[]RungsClimbTheLadder` |
| `CapacitiesAreWhatHeld` | `[]CapacityIsWhatHeld` |
| `TheServiceIsImplemented` | `ImplementsLoadService`: `RunStore` implements `LoadService` |

*The argument.* None of the safety invariants is inductive alone. The inductive
invariant is `RunInv`, their conjunction with `TypeOK`:

* that a claim keeps one agent per shard needs that an agent's shard is
  `running` in the store (`ShardExecutedByOneAgent`), so that a `queued` one has
  no agent;
* that a run completes once needs that a posted result is of a `running` shard
  (`ResultHandledOnce`), which needs in turn that an executing agent's shard has
  no result under way;
* that the sampling and advancing handler is unique needs
  `CompletedWithLastShard`: a run with a posted result has a shard that is not
  completed, so it is not completed and has no such handler (lemma
  `PostedMeansNotCompleted`);
* that a running run keeps its target needs the target check of ClaimRun and the
  active-run check of DeleteTarget, and that runs which are over never become active.

`RunStoreProofs` first states what each helper does to `run` and `shard` (the
`...Effect` lemmas), then that each kind of step preserves the invariant (the
`...Preserves` lemmas), and `NextInv` puts the actions together.
`EndedRunsNeverChange` and `AgentsGetWantedWork` follow from single steps under
`RunInv`: a late result cannot touch an ended run because its posted shard is not completed.

*Searches.* `SearchInv` (in `RunStoreProps`) adds to `RunInv` what the three search
properties need from each other. The delicate step is `AdvanceSearch`, which a
handler reaches some time after it completed a run: it may append a step for that run only if
the run is the search's latest and has no step yet. That is `LatestRungIsOpen`: while
a search is running, the only run of it whose result is posted, sampled or about to
be advanced with is its latest. `RungsAreDistinct` keeps a new run from being one that is
listed already, and `PlannedByItsForm` keeps the loads of steps and runs apart from those of
other searches. A cancelled search is what remains: its handler finds it not
running and leaves it alone.

*Ladders.* `LadderInv` adds to `SearchInv` that a completed search has a step of each of its
runs and computed its capacity from them (`CompletedWithAllSteps`). It carries the arithmetic of
`AutoSearch`, which has a search to itself, over to the store, which interleaves searches with everything
else. When a handler advances a search, its run is the latest (`AdvancingTheLatest`), the
runs before that one are the rungs below its load, and the next rung is the lowest above it (`NextRung`): so
the runs up to now are the rungs below the next (`RungQueuedClimbs`). A run keeps the load it was queued with
(`LoadsStay`), which is why every other step leaves the climb alone (`SameRunsClimb`). The steps of a completed search
are its runs (`StepsMatchRuns`), and so what `KneeLoad` finds in the steps (`WithinTheKnee`) holds of the runs.

*The refinement.* A run of `LoadService` is the store's run without what it is made of: its parts
are its shards, those an agent ever got are handed out, and completed ones are collected.
`RunInv` is enough for it. Each kind of step is one of the service's four, or
none: create and advance are `Submit`, cancel and deletion are `Withdraw`, a
claim is a `HandOut` that withdraws the runs of dropped shards, and CompleteShard is
`Collect`, which finishes the run exactly when it was the last part. Everything else
leaves the mapped state alone.

For `CapacitySearch`, whose operators `RunStore` and `AutoSearch` share, and for `AutoSearch`,
whose ranges are any that the validation lets through (`LoadRangesAssumption`):

| theorem | says |
|---|---|
| `SweepLadderBounds`, `SweepLadderClimbs` | rungs lie within the bounds, the first is the start and the last the maximum, and each is at most twice the one below |
| `KneeHoldsFromTheBottom`, `ProvisionBounds` | a non-zero knee was measured stable and so was every measured rung below it; the advised load lies between 1 and the knee |
| `LaddersClimbToMax` | `[]LadderClimbsToMax` |
| `BooksAlwaysAgree` | `[]BooksAgreeWithSteps` |
| `SweepIsImplemented` | `ImplementsCapacitySweep`: `AutoSearch` implements `CapacitySweep` |
| `SweepsNeverStick`, `EveryRungBringsTheEndCloser` | what of `SweepEnds` needs no fairness: a running search has a rung left to measure, and each finished one leaves one fewer |

`SweepInv` says where a sweep is: its steps climb the ladder, and the rungs below the next
load are exactly those that were measured. So the next rung of the code (the least one above
the latest) is the next rung of the sweep (the least one that was not measured); the
code's two reasons to stop, read off the list of steps, are the sweep's, read off the set of
rungs (`TailOfTwo`); and the knee, the highest stable rung below every
unstable one, is the highest rung that holds with all below it. That twelve doublings
reach the maximum is arithmetic with the powers of two one by one (`Doublings`), so no induction is needed.

For `Persistence`, with the assumptions of `PersistenceAssumption`:

| theorem | says |
|---|---|
| `RestartsBringBackWholeStores` | `[]NeedsAreKept`, the part of `StoresAreCoherent` that holds for any number of controllers: no claim or result without its run |
| `StoresStayCoherent` | `[]StoresAreCoherent`, for one controller: and no result without the claim before it, unless that claim was excused |
| `SerialPersistsLoseNothing` | `[]SerialPersistIsDurable`, for one controller |
| `ClaimsStayExclusive` | `[]ExclusiveAcrossRestarts`, for one controller |

Coherence (`CoherenceInv`) is inductive once snapshots under way are included:
an operation is applied where its needs are, a snapshot is a copy of a store, and
the row is a copy of a snapshot. Durability (`DurableInv`) needs to say where an
operation is at each moment: while an operation that is not excused is in
flight it is the only one, so that the row it replaces is no newer than the
snapshot it writes, and whatever was acknowledged before is in the row, in the
memory of the serving process and in that snapshot. The assumption
`OneController` (no two elements of `Controllers` differ) is necessary: two
controllers on one row overwrite each other's operations (section 6). Exclusion follows: a claim that is acknowledged and not
excused is in the memory of the process, so the other claim's `Bars` guard fails.

`CompleteShard` does not ask whether a shard was claimed (`store.go:551`), so that a result has its claim
does not follow from coherence: with two controllers, or after an overtaken snapshot, it may
not. It follows from durability: a result is posted by an agent that was answered its claim
(`OrderInv`), and an answered claim that was not excused is wherever it could be missed.

For `RunEngine`, with `RunEngineAssumption` (workers are `1 .. n`, traces are not empty,
the breaker's threshold is positive), for any number of workers and any configurations of up to twelve stages:

| theorem | says |
|---|---|
| `EngineTypeCorrect` | `[]TypeOK` |
| `AttemptsAlwaysAccounted` | `[]AttemptsAccounted` |
| `StagesNeverOverlap` | `[]QuietBetweenStages` |
| `DeadTargetsAreSpared` | `[]DeadTargetIsSpared` |
| `SessionsAreEarned` | `[]CompletedSessionsSucceeded` |

The inductive invariant `EngineInv` adds to these that the control goroutine has a
request under way only in the warm-up, and that a trace's dispatcher runs only while events are
left (`WarmupIsAlone`). The books balance because each step of a sender is of one of
three kinds: it issues (one more in flight), it is answered or cut (one less
in flight, one more in one counter), or it is no concern of theirs; the
lemmas `IssuedIsAccounted`, `AnswerIsAccounted` and `OtherStepIsAccounted` count the set of
requests in flight in each case, and the reset after the warm-up is safe since
nothing is in flight between stages.

The other two invariants are about what is still to come. `SparedInv` counts, once the breaker is
open, the failures together with the senders past the check: each of these may fail without
another backoff. A sender gets past an open breaker only by a backoff event, which pays for
it; those that were past it when the threshold was reached are fewer than the
workers, since the sender that failed last is not one of them. `EarnedInv` counts the tasks
that a session under way has to show: a session that is still good at its n-th task
has n - 1 successes behind it, and one that completes hands them over. Both hold through the reset of
the counters, because no worker is in the middle of anything then.

For `RunResults` and `Stability`, with `RunResultsAssumption` and any number of shards:

| theorem | says |
|---|---|
| `SamplesAlwaysEvenlySpread` | `[]SamplesEvenlySpread`: however many values a shard measures, whatever the bound on samples |
| `ShardsOfferWhatIsAsked` | `[]OfferedIsAsked`: for every load and any number of shards |
| `CompletedRunsAccountForAttempts` | `[]RunAccountsForAttempts`, the part of `MergeIsFaithful` about the counters |
| `MergingIsFaithful` | `[]MergeIsFaithful`: and in the numbers modelled the order in which the merge meets the shards shows only in a rounded average |
| `PercentilesStayHonest` | `[]PercentilesAreHonest`: pooled percentiles are exact or flagged, merged ones never understate a shard's |
| `StableShardsGiveAStableRun` | `[]StableShardsMakeAStableRun`: for all limits, however samples and outcomes are divided among the shards; for the output rate, if these took the configured duration between them (`TimeIsCovered`) |
| `StableHasNoComplaint` | for every outcome and all limits, `IsRunStable` holds exactly when `InstabilityMessage` finds no complaint |

`SamplesInv` says of each sample set that it holds the values at the multiples of
its stride and is not over-full, and how many it has seen. Its lemmas are about
integer division: an added value belongs to the set exactly when its index is a
multiple of the stride, and every second multiple of a stride is a multiple of
twice the stride.

The sums over the shards are a recursive function on sets (`MapThenSumSet`), about which the
proof system knows nothing. `SumIs` shows that it equals any function that starts at 0
and grows by one element's share at a time: otherwise there is a smallest set
on which they differ, which is not empty, and without one element it would be a
smaller one. For the even split (`SharesAddUp`) that function is known: `n` shards, `k` of them among the
first `load % Count`, take `n * (load \div Count) + k`. For the merge a sum of
naturals is the number of units that it counts (`SigmaCounts`), so that sums may be added (`SigmaAdds`),
and elements that add nothing left out (`SigmaOfPart`), which is what
`CompleteShard` does with the goodput of a shard without successes. `AccountsInv`
carries this through the run: the books of each shard balance, a posted result has the
counters of its books, which no attempt changes any more, and the merged counters are their sums.
`NumbersInv` puts it together with `SamplesInv` and with `MergedInv`: a shard keeps no more samples than it had
successes, a posted result is the one of its books and samples, and the merged
result is the merge of the posted ones in some order.

What remains is about that merge, and so about sequences. A sequence is weighed by a function `w`
of its values: `Weigh(s, w)` is the sum of `w` over its places. Weights do not depend on the
order; joining sequences adds them (`FlattenWeighs`); the sum and the length are weights, and so is the number
of values at or below `u` (`AtMost`). The r-th smallest value is at most `u` exactly
when at least r values are (`RankOf`), so two sequences with the same weights have the
same order statistics (`DistributionIsOrderFree`). That gives the order of the merge where
samples are pooled, and the exactness: the pooled samples weigh what the shards measured, as long as no set was halved.
It gives stability too: if in every shard at least 95 % of the values lie at or below a limit, they do in
all of them together. The output rate adds up instead: each shard has at least its seconds' worth of tokens,
so the run has as many as all their seconds ask for, which is enough when these are no fewer than the configured ones. That an ascending order exists at all (`AscendingExists`) is shown
by ranking the places by their values and, among equals, by themselves: places are finitely many and
no two have one rank, so each rank is taken.

Without samples the code walks the shards and keeps the worse percentile. The loops
(`FoldLeft`) and sums are recursive functions of the library; that the function a definition
chooses exists is proved by the least argument at which it would not (`FoldExists`, `LoopExists`).
The loop's percentile is then the largest of the shards' (`ByShardIsWorst`), and
there is only one largest (`WorstIsUnique`), whatever the order. The mean of the
shards' means is rounded at each step, which is why `MergeOrderIrrelevant` leaves that number out.

For `MetricResolver`, with `MetricResolverAssumption` (finitely many callers, every
metric with at least one candidate), for any number of callers, metrics and candidates:

| theorem | says |
|---|---|
| `ResolverTypes` | `[]TypeOK`: no candidate past the last is tried or remembered |
| `MemoryStaysConsistent` | `[]MemoryIsConsistent`: no metric is remembered and given up at once |
| `ProbesStayBounded` | `[]ProbesAreBounded`: between two retries a metric is given up at most once by each caller |

Counting what was given up is not inductive; `RoundsInv` adds the callers that are
past their first look at the metric and may still give it up. Each of them looked
before the retry time was set, so the sum of both never exceeds the callers.

For `Assessment` and `Verdicts`, with `AssessmentAssumption` (a setting is a natural number, a
sample's values are integers), for any samples, entries, labels and policies:

| theorem | says |
|---|---|
| `ServerOverrulesOpenly` | `[]OverruledOpenly` |
| `ProvenanceAlwaysSettles` | `ProvenanceSettles` (an action property) |
| `PressureAlwaysTells` | `PressureNeverRelieves` (an action property) |
| `UnmeasuredNeverCounts` | `[]UnmeasuredIsNotZero` |

Here the invariant is only about types (`AssessmentInv`); the content is in the operators. A
setting is shown as empty exactly when it is unknown (`ShownFacts`), so a gap that is closed stays closed.
Another sample adds at most one value to each series (`ObservedGrows`): peaks only rise
(`PeakGrows`), and one more positive value among n keeps a share of a quarter (`SustainedGrows`),
so that each condition for a graver verdict still holds. A sample without the queue leaves its
series as they are, so only one that measured an empty queue can lower the share.

`Gapless` moves the values of each metric together, so that the k-th sample has the k-th value that was
measured of it. Each series thus goes to other places in the same order (`GaplessMoves`): the new place is the
rank of the old one among those at which the metric was measured. A series that is moved this way keeps its number
of values, the number above zero, its peak, its total and its last value (`MovedAlike`), and the verdicts look
at nothing else. For the total, `AnyFirst` shows that its recursion may take any place first. What this does not say is that
a metric without any value is unknown: beside another one it is taken for 0 (section 6).

For `FrontDoor`, with the assumptions of `Captures` and `Gate`, for any number of
tabs, logins, requests and updates and all limits:

| theorem | says |
|---|---|
| `LatestLoginAlwaysCompletes` | `[]LatestLoginCompletes` |
| `TokenChangesAlwaysSurvive` | `[]TokenChangesSurvive` |
| `SessionsAlwaysStayBounded` | `[]SessionsStayBounded` |
| `EventsAlwaysBelongTogether` | `[]EventsBelongTogether` |
| `SerialClientsAlwaysReplayInOrder` | `[]SerialClientsReplayInOrder` |
| `EvictionAlwaysTakesTheOldest` | `EvictionTakesTheOldest` (an action property): an evicted session was updated no later than any that stays |
| `HumanActionsAlwaysNeedASession` | `HumanActionsNeedASession` (an action property): where login is required, nothing that only users may do happens before someone has signed in |

`LoginInv` needs that the states of two tabs differ and that none is ahead of
the last one issued: an earlier login's callback then finds a state that is not its
own, and by the order of the code's checks leaves the cookie. `SettingsInv` says what an update
that has read the settings is going to write: as long as no two cross it is
alone, so that what it read is still in force. `SessionsInv` keeps the largest
limits at or above those in force; a session splits by the idle period of
the event that it records, whose gap is therefore within that period. `GateInv`
says that without a sign-in no session is live and no update has passed the gate.
`SerialInv` adds to the order of a session's events what a request under way is going to
record: while a client that never overlapped its requests has one, it has no other, and every
session of that client was last updated before the request was sent upstream, so that the
event comes after the answer before it, in a session continued or a new one.

*Only model-checked.*

* Liveness, and with it fairness and ENABLED, is out of the proof system's reach: `SweepEnds`,
  `RunSettles`, `SearchSettles`, `CancelledRunEnds`, `LoadPhaseEnds`, `SamplesSettle`,
  `DiscoverySettles`.
  `EveryRungBringsTheEndCloser` is the only step of these towards its end that is proved.
* The two properties of the runs that are expected to fail.

Every other property of a run, the invariants, the action properties and the refinements
of both abstract specifications, is a theorem above. The induction theorems of the library take
an operator as a parameter, which the backends cannot instantiate, so each recursive
function (sums over sets, loops over sequences, totals of series) has lemmas of its own that go around
them with a smallest counterexample.

## 6. Disagreements found

Two have a run that is expected to fail, because a document says otherwise:

* `cancellation_login`: with login configured, the agents' status poll
  `GET /api/runs/{id}` is behind `auth.Require`, the agent sends no session and
  ignores every answer but 200; a cancelled run keeps loading the target until
  its load phase is over.
* `snapshot_overtaken`: `persist` takes the snapshot and writes
  it in two unordered steps. An older snapshot can be written last; if the
  controller restarts before the next persist, an acknowledged operation is gone,
  and if that was a claim, the running shard would be handed out again.

Met while modelling, and without a run of their own:

*Store and controller.*

* `SetShardProgress` looks only whether the shard exists, and `RunOnce` does not
  wait for the progress goroutine: a late post leaves live telemetry on a completed run.
* With two controllers on one row, each write drops what the other acknowledged,
  since the row is read only at startup. The deployment keeps one replica, but
  its rolling update (`maxSurge: 1`, `maxUnavailable: 0`) makes two overlap.
* The sampler may attach a sample to a run that ended during its scrape, after
  `completeShard` answered with the series. Cancelling a completed search overwrites its outcome.
* Two settings updates that cross undo one another (`updateCaptureSettings` reads and
  writes in two store calls); `TokenChangesSurvive` excuses them.
* `CompleteShard` asks for the shard and its run, not for a claim (`store.go:551`): after a
  restart from a snapshot without the claim a result completes a shard that is queued.
* The raw samples that the merge needs are in the snapshots as long as a run waits
  for its other shards, and for good when it is cancelled meanwhile, where a comment
  (`store.go:694`) wants them out.

*Load and results.*

* `recordAborted` takes any deadline error for a cancellation. A dial timeout is one,
  so an unreachable target fills `cancelled` instead of `transportErrors`, and the
  backoff against dead targets does not begin.
* A warm-up request has no deadline; one that is never answered keeps the run in its warm-up.
* A guardrail that trips in the warm-up ends the run while `reset` clears its
  report; an attempt held back by the backoff may be released into the drain.
* `CompleteShard` does not merge `BackoffEvents` and `BackoffSeconds` (`types.go:332`),
  so the export of a completed run shows none.
* A shard whose share of the RPS is 0 sends one request per second (`runner.go:189`), and
  stages are not split among shards: each shard runs them as they are.
* A shard divides its tokens by the time it took (`runner.go:1202`), the run by
  `Config.DurationSeconds` (`store.go:689`). Shards that end early, at a guardrail or
  with their sessions done, can each meet `MinOutputTokensPerSecond` while the run does
  not; and nothing ties `DurationSeconds` to the durations of the stages, so the
  rates of a staged run may be off by any factor.
* The order of a result's scenarios, its `Errors` and, when several shards were stopped,
  its `GuardrailMessage` follow the random order of a Go map (`store.go:575`).
* Pooled percentiles are those of a single process only while no sample set was
  halved. Where shards of older and of newer agents meet, only the newer ones' samples are pooled.
* `TimelinePoint.Completed` counts transport errors, `RunResult.Completed` does not.

*Verdicts and metrics.*

* Comments say that an absent metric never counts as zero (`types.go:341`, `saturation.go:223`).
  That holds of gaps (`UnmeasuredIsNotZero`), not of a metric that was never measured: no queue beside a KV cache
  gives "headroom" (`saturation.go:44`), which `saturation_test.go:92` expects, and of queue and
  prefill time one that is unknown counts as 0 in the attribution.
* Conflicts compare displayed texts, so two values that round alike are none.
* The first scrape that answers anything fixes a run's detected configuration, even if
  it answered in part. One failed query of a metric blanks it for a minute.
* `AssessRunValidity` knows two cache policies, and the view takes no policy for "mixed".

*Captures.*

* A session that was idle for longer than the limit gets no more requests: the client's
  later ones go each to a session of its own, because the original ID stays the one
  that is compared. Requests that overlap have event times in the order of their
  answers, some of them before the session's start.
* A capture may hold 128 events, where a scenario takes 64 tasks.
* A restart changes the salt and with it the identity of every session. Lowering the
  retention evicts one session for each new one, not down to the limit.

The design document of the capacity search still describes a binary search down to
an interval of one unit, where the code sweeps a doubling ladder.

Known and by design of the model rather than a finding: an agent's death orphans
its shard and no timeout requeues it, and a search whose current run is cancelled by
itself stays `running`; `RunSettles` and `SearchSettles` name these exceptions.

## 7. What is not modelled

* In `RunStore`: the numbers of results (they are in `RunResults`), the detected server (in
  `Assessment`), `created_by`, message texts and timestamps
  (the heartbeat sets one). `CompleteRun` of the store has no caller in the
  controller. Reads (views, exports) change nothing.
* In `Persistence`: the encryption of API keys, a write that reaches the database
  after its process died, and identities (a restart from an older snapshot also
  brings back an older `nextID`).
* In `RunEngine`: see the end of its part of section 2.
* In `RunResults`: the counters by status and scenario and the timeline, which are merged
  by the same sums as the counters that are there; the scenarios' order, `Errors` and
  `GuardrailMessage`; token counts other than one per success; stages.
* In `Assessment`: the texts, and the values of metrics that no verdict looks at.
* In `MetricResolver`: the values, the queries' texts and their 5 second limit as a time.
* In `Captures` and `Gate`: token counts and metadata of events, the streaming of
  answers, and cryptography: a signature, a state or a token that is accepted is the right one.
  A discovery call ends in the model; in the code it has no timeout of its own.
* Validation and address rules of `core/target.go` judge one request at a time;
  the models start from requests that passed. Views, exports, the web client and
  manifests keep no state a property here is about.

## 8. Plan

Done: the search (`CapacitySearch`, `AutoSearch`, `CapacitySweep`), the store
(`RunStore`, `LoadService`), `Persistence`, `RunEngine`, the numbers of a run
(`SampleSet`, `Stability`, `RunResults`), the verdicts (`Verdicts`, `Assessment`),
`MetricResolver`, and captures with the login gate (`FrontDoor`), each with the proofs of section 5;
both refinements are proved.

Left:

1. `Persistence` composed with the identities of `RunStore`: what an ID that is handed out again
   after a restart does to a result that is still under way.
2. Safety halves of the other liveness properties, like that of `SweepEnds`: a
   measure that no step of the load phase raises once the run has ended.
