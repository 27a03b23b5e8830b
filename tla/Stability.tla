------------------------------ MODULE Stability ------------------------------
(***************************************************************************)
(* When a run counts as stable: CompletionShortfall, IsRunStable and       *)
(* InstabilityMessage of internal/core/search.go.  An outcome holds the    *)
(* numbers of a result that they look at, limits those of a configuration; *)
(* percentages and rates are compared by cross-multiplying.                *)
(***************************************************************************)
EXTENDS Integers

Outcome == [total : Nat, failures : Nat, issued : Nat, completed : Nat, p95 : Nat,
            ttft : Nat, tokens : Nat, seconds : Nat \ {0}]

\* 0 stands for the default of minCompletion, and for no limit of TTFT and rate.
Limits == [minCompletion : 0 .. 100, maxError : 0 .. 100, maxP95 : Nat, maxTTFT : Nat,
           minRate : Nat]

CompletionShortfall(r, limits) ==
  LET limit == IF limits.minCompletion = 0 THEN 95 ELSE limits.minCompletion
  IN  r.issued # 0 /\ r.completed * 100 < limit * r.issued

ErrorsExceed(r, limits) == r.failures * 100 > limits.maxError * r.total

\* Tokens.OutputPerSecond, tokens / seconds, is below its limit.
RateFallsShort(r, limits) == limits.minRate > 0 /\ r.tokens < limits.minRate * r.seconds

IsRunStable(r, limits) ==
  /\ r.total > 0
  /\ ~CompletionShortfall(r, limits)
  /\ ~ErrorsExceed(r, limits)
  /\ r.p95 <= limits.maxP95
  /\ limits.maxTTFT > 0 => r.ttft <= limits.maxTTFT
  /\ ~RateFallsShort(r, limits)

\* The first complaint; the last is for a run without any.
InstabilityMessage(r, limits) ==
  IF r.total = 0 THEN "no completed requests"
  ELSE IF CompletionShortfall(r, limits) THEN "too few finished"
  ELSE IF ErrorsExceed(r, limits) THEN "error rate"
  ELSE IF r.p95 > limits.maxP95 THEN "P95"
  ELSE IF limits.maxTTFT > 0 /\ r.ttft > limits.maxTTFT THEN "TTFT P95"
  ELSE IF RateFallsShort(r, limits) THEN "output rate"
  ELSE "no complaint"
=============================================================================
