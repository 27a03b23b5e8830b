------------------------------ MODULE SampleSet ------------------------------
(***************************************************************************)
(* The sampleSet of internal/agent/runner.go: a bounded subset of the      *)
(* values an agent measured.  Every stride-th value is kept; when the set  *)
(* is full every second kept value goes and the stride doubles.  The same  *)
(* code serves every metric, so a value is whatever add is given; here a   *)
(* set is a record and add an operator on it.                              *)
(***************************************************************************)
EXTENDS Integers, Sequences

CONSTANT MaxSamples    \* maxSamplesPerMetric

ASSUME SampleSetAssumption == MaxSamples \in Nat /\ MaxSamples >= 2

\* The zero sampleSet: its stride of 0 is taken for 1 by the first add.
EmptySet == [values |-> << >>, stride |-> 1, seen |-> 0, decimated |-> FALSE]

\* The 1st, 3rd, ...: a slip in the loop's first index.
EveryFirst(values) == [i \in 1 .. (Len(values) + 1) \div 2 |-> values[2 * i - 1]]

\* The 2nd, 4th, ... of the values.
EverySecond(values) == [i \in 1 .. Len(values) \div 2 |-> values[2 * i]]

Full(values) == Len(values) >= MaxSamples

add(set, value) ==
  LET seen  == set.seen + 1
      grown == Append(set.values, value)
  IN  IF seen % set.stride # 0
        THEN [set EXCEPT !.seen = seen]
      ELSE IF Full(grown)
        THEN [values |-> EverySecond(grown), stride |-> 2 * set.stride, seen |-> seen,
              decimated |-> TRUE]
      ELSE [values |-> grown, stride |-> set.stride, seen |-> seen, decimated |-> set.decimated]

\* What is wanted of a set that was given the values of `given', in order:
\* every stride-th of them from the beginning to the end, and no other.
EvenlySpread(set, given) ==
  /\ set.seen = Len(given)
  /\ set.values = [i \in 1 .. Len(given) \div set.stride |-> given[i * set.stride]]
  /\ Len(set.values) < MaxSamples
  /\ set.decimated <=> set.stride > 1
  /\ set.decimated => Len(set.values) >= MaxSamples \div 2
=============================================================================
