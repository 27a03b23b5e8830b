------------------------------ MODULE RunResults ------------------------------
(***************************************************************************)
(* The numbers of a run: how its load is split among its shards (ClaimRun, *)
(* internal/store/store.go), what each shard counts and samples            *)
(* (measurements and result, internal/agent/runner.go), and how the        *)
(* controller merges the shards' results (CompleteShard).                  *)
(*                                                                         *)
(* An attempt is one step from issue to outcome: how attempts, stages and  *)
(* contexts interleave within an agent is RunEngine's subject, how shards  *)
(* are claimed and results posted is RunStore's.  Latency stands for the   *)
(* five metrics, which are sampled and merged alike.  Percentages are kept *)
(* as a numerator over a count; the maps by status code and the timeline   *)
(* are sums like the counters here, and so are the numbers of a scenario.  *)
(* Left out of a result are its texts and lists: the scenarios in their    *)
(* order, Errors and GuardrailMessage.  CompleteShard fills them in the    *)
(* order in which it meets the shards, so that they depend on that order.  *)
(***************************************************************************)
EXTENDS SampleSet, Stability, SequencesExt, FiniteSetsExt

CONSTANTS
  Count,         \* Config.Shards
  Loads,         \* Config.VUs or Config.RPS
  Latencies,     \* latencies a request can have
  SLO,           \* Config.MaxP95Millis
  Duration,      \* Config.DurationSeconds
  Elapsed,       \* seconds each shard may take from its reset to its result
  Ramps,         \* attempts a shard makes before its steady state begins
  OldAgents,     \* sets of shards that agents of an older release may run
  RunLimits,     \* limits the run may be judged by
  Threshold,     \* circuitBreakerThreshold
  MaxAttempts    \* bound: attempts of all the shards together

ASSUME RunResultsAssumption ==
  /\ Count \in Nat \ {0} /\ Loads \subseteq Nat \ {0} /\ Latencies \subseteq Nat \ {0}
  /\ Duration \in Nat \ {0} /\ Elapsed \subseteq [0 .. Count - 1 -> Nat \ {0}]
  /\ SLO \in Nat /\ Threshold \in Nat \ {0} /\ Ramps \subseteq Nat /\ MaxAttempts \in Nat
  /\ OldAgents \subseteq SUBSET (0 .. Count - 1) /\ RunLimits \subseteq Limits

VARIABLES
  mode,      \* Config.Mode
  load,      \* the load asked for
  ramp,      \* attempts before SteadyStateSeconds, in each shard
  elapsed,   \* seconds from a shard's reset to its result; they pass unseen
  old,       \* shards whose agent reports neither samples nor steady samples
  books,     \* measurements of each shard: [count, failures], the counters and
             \* consecutiveFailures
  sample,    \* measurements.latencies of each shard, as SampleSet has it
  measured,  \* the latencies each shard gave to its sample set (history)
  result,    \* store.shardResults, one as ResultOf gives it, or Missing
  merged     \* run.Result, as Merge gives it, or Missing until the run is completed

vars == <<mode, load, ramp, elapsed, old, books, sample, measured, result, merged>>

-----------------------------------------------------------------------------
Shards   == 0 .. Count - 1
Outcomes == {"success", "httpFailure", "transportError", "cancelled"}

Counters == {"successes", "httpFailures", "transportErrors", "cancelled", "issued",
             "goodput", "backoffEvents"}

\* A merge that forgets the successes.
SummedButSuccesses == Counters \ {"backoffEvents", "successes"}

\* What CompleteShard adds up: BackoffEvents and BackoffSeconds are not merged.
Summed == Counters \ {"backoffEvents"}

Percentages == {50, 95, 99}

\* core.Distribution{}.
NoDistribution == [min |-> 0, avg |-> 0, max |-> 0, at |-> [p \in Percentages |-> 0]]

Missing == [posted |-> FALSE]

Init ==
  /\ mode \in {"vu", "rps"} /\ load \in Loads /\ ramp \in Ramps /\ elapsed \in Elapsed
  /\ old \in OldAgents
  /\ books = [i \in Shards |-> [count |-> [c \in Counters |-> 0], failures |-> 0]]
  /\ sample = [i \in Shards |-> EmptySet]
  /\ measured = [i \in Shards |-> << >>]
  /\ result = [i \in Shards |-> Missing]
  /\ merged = Missing

-----------------------------------------------------------------------------
(***************************************************************************)
(* The load of a shard.                                                    *)
(***************************************************************************)
\* A remainder handed out to one shard too many.
ShareTooMany(i) == load \div Count + (IF i <= load % Count THEN 1 ELSE 0)

\* ClaimRun: the first load % Count shards take one more than the others.
Share(i) == load \div Count + (IF i < load % Count THEN 1 ELSE 0)

\* newArrivalSchedule takes a rate below 1 for 1; no VUs are no load.
Offered(i) == IF mode = "rps" /\ Share(i) < 1 THEN 1 ELSE Share(i)

-----------------------------------------------------------------------------
(***************************************************************************)
(* An attempt: backoffBeforeAttempt, beginAttempt and one of recordSuccess,*)
(* recordHTTPFailure, recordTransportError and recordCancelled.            *)
(***************************************************************************)
Attempts == MapThenSumSet(LAMBDA i : books[i].count.issued, Shards)

\* The counters that one attempt of shard i with this outcome adds one to.
Counted(i, outcome, latency) ==
  {"issued"}
  \cup (CASE outcome = "success"        -> {"successes"}
          [] outcome = "httpFailure"    -> {"httpFailures"}
          [] outcome = "transportError" -> {"transportErrors"}
          [] outcome = "cancelled"      -> {"cancelled"})
  \cup (IF outcome = "success" /\ latency <= SLO THEN {"goodput"} ELSE {})
  \cup (IF books[i].failures >= Threshold THEN {"backoffEvents"} ELSE {})

\* consecutiveFailures after the outcome; it is compared with Threshold only.
FailuresAfter(i, outcome) ==
  CASE outcome = "success"   -> 0
    [] outcome = "cancelled" -> books[i].failures
    [] OTHER                 -> Min({Threshold, books[i].failures + 1})

\* Agents of an older release have no ramp to leave out.
Steady(i) == i \in old \/ books[i].count.issued >= ramp

Attempt(i, outcome, latency) ==
  /\ result[i] = Missing /\ Offered(i) > 0 /\ Attempts < MaxAttempts
  /\ books' = [books EXCEPT ![i] =
                 [count |-> [c \in Counters |->
                               @.count[c] + (IF c \in Counted(i, outcome, latency) THEN 1 ELSE 0)],
                  failures |-> FailuresAfter(i, outcome)]]
  /\ IF outcome = "success" /\ Steady(i)
       THEN /\ sample' = [sample EXCEPT ![i] = add(@, latency)]
            /\ measured' = [measured EXCEPT ![i] = Append(@, latency)]
       ELSE UNCHANGED <<sample, measured>>
  /\ UNCHANGED <<mode, load, ramp, elapsed, old, result, merged>>

-----------------------------------------------------------------------------
(***************************************************************************)
(* Distributions.                                                          *)
(***************************************************************************)
Sum(values) == FoldLeft(LAMBDA a, b : a + b, 0, values)

\* An index rounded down.
RankRoundedDown(n, p) == Max({1, (n * p) \div 100})

\* percentile: the index, counted from 1, of the p-th percentile of n values.
Rank(n, p) == (n * p + 99) \div 100

\* The values in ascending order, as sort.Slice leaves them.
Sorted(values) ==
  LET places    == DOMAIN values
      ascending == CHOOSE p \in Bijection(places, places) :
                     \A i, j \in places : i < j => values[p[i]] <= values[p[j]]
  IN  [i \in places |-> values[ascending[i]]]

\* distribution: order statistics over all the values.
DistributionOf(values) ==
  IF values = << >> THEN NoDistribution
  ELSE LET sorted == Sorted(values)
           n      == Len(values)
       IN  [min |-> sorted[1], avg |-> Sum(values) \div n, max |-> sorted[n],
            at |-> [p \in Percentages |-> sorted[Rank(n, p)]]]

\* mergeDistribution: the worse percentile of the two.
mergeDistribution(current, next, currentWeight, nextWeight) ==
  IF currentWeight = 0 THEN next
  ELSE [min |-> Min({current.min, next.min}),
        avg |-> (current.avg * currentWeight + next.avg * nextWeight)
                  \div (currentWeight + nextWeight),
        max |-> Max({current.max, next.max}),
        at |-> [p \in Percentages |-> Max({current.at[p], next.at[p]})]]

-----------------------------------------------------------------------------
(***************************************************************************)
(* Posting a result and merging the results of all shards.                 *)
(***************************************************************************)
\* measurements.result: samples are nil when nothing was sampled.
ResultOf(i) ==
  [posted |-> TRUE, count |-> books[i].count, seconds |-> elapsed[i],
   steadySamples |-> IF i \in old THEN 0 ELSE sample[i].seen,
   latency |-> DistributionOf(sample[i].values),
   samples |-> IF i \in old THEN << >> ELSE sample[i].values,
   decimated |-> i \notin old /\ sample[i].decimated]

\* The samples a percentile stands for, or the successes of an older agent.
Weight(r) == IF r.steadySamples = 0 THEN r.count.successes ELSE r.steadySamples

Pooled(order, results) == FlattenSeq([k \in 1 .. Count |-> results[order[k]].samples])

\* The shards' own distributions one after another, each with its weight.
MergedByShard(order, results) ==
  LET Join(acc, i) ==
        LET w == Weight(results[i])
        IN  IF w = 0 THEN acc
            ELSE [weight |-> acc.weight + w,
                  latency |-> mergeDistribution(acc.latency, results[i].latency, acc.weight, w)]
  IN  FoldLeft(Join, [weight |-> 0, latency |-> NoDistribution], order).latency

\* A goodput of a shard without successes is not added.
Total(c, results) ==
  MapThenSumSet(LAMBDA i : results[i].count[c],
                IF c = "goodput" THEN {i \in Shards : results[i].count.successes > 0} ELSE Shards)

\* A merge that forgets that a shard thinned its samples out.
MergeUnflagged(order, results) ==
  LET pooled == Pooled(order, results)
  IN  [posted |-> TRUE,
       count |-> [c \in Counters |-> IF c \in Summed THEN Total(c, results) ELSE 0],
       seconds |-> Duration,
       latency |-> IF pooled # << >> THEN DistributionOf(pooled) ELSE MergedByShard(order, results),
       scope |-> IF pooled # << >> THEN "pooled_samples"
                 ELSE IF Count > 1 THEN "worst_shard_p95" ELSE "",
       decimated |-> results[order[Count]].decimated]

\* The loop of CompleteShard, which takes the shards in the order of a Go map.  The
\* rates of a run are per second of its configuration, whatever the shards took.
Merge(order, results) ==
  LET pooled == Pooled(order, results)
  IN  [posted |-> TRUE,
       count |-> [c \in Counters |-> IF c \in Summed THEN Total(c, results) ELSE 0],
       seconds |-> Duration,
       latency |-> IF pooled # << >> THEN DistributionOf(pooled) ELSE MergedByShard(order, results),
       scope |-> IF pooled # << >> THEN "pooled_samples"
                 ELSE IF Count > 1 THEN "worst_shard_p95" ELSE "",
       decimated |-> \E i \in Shards : results[i].decimated]

Orders == SetToSeqs(Shards)

\* CompleteShard; the last result completes the run and drops the samples.
Post(i) ==
  /\ result[i] = Missing
  /\ LET results == [result EXCEPT ![i] = ResultOf(i)]
     IN  IF \E j \in Shards : results[j] = Missing
           THEN result' = results /\ UNCHANGED merged
           ELSE /\ \E order \in Orders : merged' = Merge(order, results)
                /\ result' = [j \in Shards |-> [results[j] EXCEPT !.samples = << >>]]
  /\ UNCHANGED <<mode, load, ramp, elapsed, old, books, sample, measured>>

Next == \/ \E i \in Shards, latency \in Latencies : Attempt(i, "success", latency)
        \/ \E i \in Shards, outcome \in Outcomes \ {"success"} : Attempt(i, outcome, 0)
        \/ \E i \in Shards : Post(i)

Spec == Init /\ [][Next]_vars

-----------------------------------------------------------------------------
(***************************************************************************)
(* Properties.                                                             *)
(***************************************************************************)
\* The kept samples of every shard are every stride-th measured latency, from
\* its first to its last: halving a full set never thins out one end of the run.
SamplesEvenlySpread == \A i \in Shards : EvenlySpread(sample[i], measured[i])

\* The shards together offer the load asked for and differ by one at most;
\* only a rate below one arrival per shard and second is raised.
OfferedIsAsked ==
  /\ mode = "vu" \/ load >= Count => MapThenSumSet(Offered, Shards) = load
  /\ \A i, j \in Shards : Offered(i) <= Offered(j) + 1

RunAccountsForAttempts ==
  merged.posted =>
    LET c == merged.count
    IN  /\ c.issued = Attempts
        /\ c.issued = c.successes + c.httpFailures + c.transportErrors + c.cancelled
        /\ c.goodput = MapThenSumSet(LAMBDA i : books[i].count.goodput, Shards)

\* v is the p-th percentile of the values: the least of them that at least p
\* percent do not exceed.
IsPercentile(v, p, values) ==
  LET UpTo(u) == Cardinality({k \in DOMAIN values : values[k] <= u})
      enough  == {u \in Latencies : UpTo(u) * 100 >= p * Len(values)}
  IN  v \in enough /\ \A u \in enough : v <= u

Measured == FlattenSeq([k \in 1 .. Count |-> measured[k - 1]])

PooledExactOrFlagged ==
  merged.posted /\ merged.scope = "pooled_samples" /\ old = {} =>
    \/ merged.decimated
    \/ \A p \in Percentages : IsPercentile(merged.latency.at[p], p, Measured)

WorstShardNeverUnderstates ==
  merged.posted /\ merged.scope = "worst_shard_p95" /\ Measured # << >>
                /\ (\A i \in Shards : ~sample[i].decimated) =>
    \A p \in Percentages :
      \E v \in Latencies : IsPercentile(v, p, Measured) /\ v <= merged.latency.at[p]

\* Percentiles pooled over shards are those one process would have computed over
\* everything that was measured, or the result says that samples were left out.
\* Where shards sent no samples, the percentile of the worst shard stands in: it
\* may overstate the percentile of the run but never understates it.
PercentilesAreHonest == PooledExactOrFlagged /\ WorstShardNeverUnderstates

MergeOrderIrrelevant ==
  merged.posted =>
    \A order \in Orders :
      LET other == Merge(order, [i \in Shards |-> ResultOf(i)])
          BlindTo(m) == IF m.scope = "pooled_samples" THEN m ELSE [m EXCEPT !.latency.avg = 0]
      IN  BlindTo(other) = BlindTo(merged)

\* CompleteShard loses no count and shuffles none: the counters of a completed run
\* account for every attempt of every shard, and of the numbers modelled only the
\* rounding of an average merged from averages shows in which order it met the shards.
MergeIsFaithful == RunAccountsForAttempts /\ MergeOrderIrrelevant

\* The numbers of a result, of one shard or of the run, that stability is judged by;
\* every success brings one token.  A result's rate is its tokens over its seconds.
OutcomeOf(r) ==
  [total |-> r.count.successes + r.count.httpFailures + r.count.transportErrors,
   failures |-> r.count.httpFailures + r.count.transportErrors,
   issued |-> r.count.issued, completed |-> r.count.successes + r.count.httpFailures,
   p95 |-> r.latency.at[95], ttft |-> r.latency.at[95],
   tokens |-> r.count.successes, seconds |-> r.seconds]

\* The shards together took at least the configured duration.
TimeIsCovered == MapThenSumSet(LAMBDA i : elapsed[i], Shards) >= Duration

\* Merging makes no run fail that its shards passed: if the result of every shard
\* meets the limits, so does the run, whatever the order and the agents' releases.  The
\* output rate is the exception, because a shard divides by the time it took and the
\* run by its configured duration: shards that all end early may each be fast enough
\* where the run is not.  Once they took that duration between them, it is.
StableShardsMakeAStableRun ==
  merged.posted =>
    \A limits \in RunLimits :
      (\A i \in Shards : IsRunStable(OutcomeOf(ResultOf(i)), limits))
        => /\ IsRunStable(OutcomeOf(merged), [limits EXCEPT !.minRate = 0])
           /\ TimeIsCovered => IsRunStable(OutcomeOf(merged), limits)
=============================================================================
