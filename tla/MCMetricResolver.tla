-------------------------- MODULE MCMetricResolver --------------------------
(***************************************************************************)
(* MetricResolver for TLC: the queue metric of two engines and one GPU     *)
(* metric.                                                                 *)
(***************************************************************************)
EXTENDS MetricResolver

MCMetrics    == <<"requests_waiting", "dram_active">>
MCCandidates == [key \in {"requests_waiting", "dram_active"} |->
                   IF key = "requests_waiting" THEN 2 ELSE 1]
MCNeeded     == {"requests_waiting", "dram_active"}
=============================================================================
