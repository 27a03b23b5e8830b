------------------------------ MODULE Verdicts ------------------------------
(***************************************************************************)
(* What a run's monitoring samples say of it: AssessSaturation,            *)
(* AssessRunValidity and AttributeTTFT of internal/core/saturation.go.     *)
(* A sample is a function from the metrics that were measured to integers; *)
(* a metric that could not be measured is not in its domain.  Means and    *)
(* percentages are compared by cross-multiplying, a hit rate is a          *)
(* percentage, and the texts are left out but for which case they report.  *)
(***************************************************************************)
EXTENDS Integers, SequencesExt, FiniteSetsExt

\* A metric that was not measured taken for 0.
ObservedOrZero(samples, metric) ==
  [i \in DOMAIN samples |-> IF metric \in DOMAIN samples[i] THEN samples[i][metric] ELSE 0]

\* series: the values of one metric, at the places of the samples that have it.
Observed(samples, metric) ==
  [i \in {j \in DOMAIN samples : metric \in DOMAIN samples[j]} |-> samples[i][metric]]

Number(values)  == Cardinality(DOMAIN values)
Peak(values)    == Max({0} \cup {values[i] : i \in DOMAIN values})
Latest(values)  == values[Max(DOMAIN values)]
NonZero(values) == Cardinality({i \in DOMAIN values : values[i] > 0})
Total(values)   == FoldFunction(+, 0, values)

\* fractionActive of at least 0.25.
Sustained(values) == Number(values) > 0 /\ 4 * NonZero(values) >= Number(values)

AssessSaturation(samples, maxNumSeqs) ==
  LET waiting     == Observed(samples, "waiting")
      running     == Observed(samples, "running")
      preemptions == Observed(samples, "preemptions")
      queued      == Sustained(waiting)
  IN  IF Number(waiting) = 0 /\ Number(Observed(samples, "kv")) = 0 THEN "unknown"
      ELSE IF queued /\ Peak(preemptions) > 0 THEN "saturated"
      ELSE IF queued /\ maxNumSeqs > 0 /\ Peak(running) >= maxNumSeqs
        THEN "config_limited at max_num_seqs"
      ELSE IF queued THEN "config_limited"
      ELSE "headroom"

-----------------------------------------------------------------------------
Faults == {"xid", "power", "thermal", "corrupted"}

\* declinePercent of at least 5: from the peak to the last value.
Declines(values) ==
  /\ Number(values) >= 3 /\ Peak(values) > 0
  /\ (Peak(values) - Latest(values)) * 100 >= 5 * Peak(values)

\* Faults shown by the last sample only.
AssessRunValidityLast(samples, policy) ==
  {fault \in Faults : LET seen == Observed(samples, fault)
                      IN  Number(seen) > 0 /\ Latest(seen) > 0}

\* The reasons for which a run cannot be trusted.  Faults show by their peaks.
AssessRunValidity(samples, policy) ==
  LET prefix == Observed(samples, "prefixHit")
      hits   == Total(prefix)
  IN  {fault \in Faults : Peak(Observed(samples, fault)) > 0}
      \cup (IF Declines(Observed(samples, "clock")) THEN {"clock"} ELSE {})
      \cup (IF Number(prefix) > 0 /\ (\/ policy = "bypass" /\ hits > 50 * Number(prefix)
                                      \/ policy = "reuse" /\ hits < 20 * Number(prefix))
              THEN {"prefix"} ELSE {})

-----------------------------------------------------------------------------
\* AttributeTTFT: whether the client's TTFT is explained by the mean queue and
\* prefill times of the server, that is by accounted / scale milliseconds.
AttributeTTFT(client, samples) ==
  LET queue     == Observed(samples, "queueTime")
      prefill   == Observed(samples, "prefillTime")
      per(v)    == Max({1, Number(v)})
      scale     == per(queue) * per(prefill)
      accounted == Total(queue) * per(prefill) + Total(prefill) * per(queue)
  IN  IF client = 0 \/ (Number(queue) = 0 /\ Number(prefill) = 0) THEN "unknown"
      ELSE IF 5 * accounted > 6 * client * scale THEN "metrics_not_this_run"
      ELSE IF 10 * accounted < 7 * client * scale THEN "client_or_network_bound"
      ELSE "server_bound"
=============================================================================
