-------------------------- MODULE RunResultsProofs --------------------------
(***************************************************************************)
(* What the numbers of a run are, for any number of shards, any bound on   *)
(* samples and any course of the attempts: its samples stand for the whole *)
(* run, its shards offer the load asked for, its counters account for      *)
(* every attempt of every shard, its percentiles are exact or flagged, and *)
(* the order of the merge does not matter.  And the two sides of a         *)
(* stability verdict, which a run meets when all of its shards do, its     *)
(* output rate only when they took its duration between them.              *)
(***************************************************************************)
EXTENDS RunResults, SequenceTheorems, FiniteSetTheorems, WellFoundedInduction, TLAPS

-----------------------------------------------------------------------------
(***************************************************************************)
(* Integer division by a stride.                                           *)
(***************************************************************************)
LEMMA DivFacts ==
  ASSUME NEW n \in Nat, NEW s \in Nat \ {0}
  PROVE  /\ n \div s \in Nat /\ s * (n \div s) <= n /\ n < s * (n \div s) + s
         /\ n % s = n - s * (n \div s)
OBVIOUS

LEMMA MulMono ==
  ASSUME NEW s \in Nat, NEW a \in Nat, NEW b \in Nat, a <= b
  PROVE  s * a <= s * b
OBVIOUS

LEMMA DivUnique ==
  ASSUME NEW n \in Nat, NEW s \in Nat \ {0}, NEW q \in Nat, s * q <= n, n < s * q + s
  PROVE  n \div s = q
<1> DEFINE p == n \div s
<1>1. p \in Nat /\ s * p <= n /\ n < s * p + s
  BY DivFacts
<1> HIDE DEF p
<1>2. s * (p + 1) = s * p + s /\ s * (q + 1) = s * q + s
  BY <1>1
<1>3. ~(p < q)
  BY <1>1, <1>2, MulMono
<1>4. ~(q < p)
  BY <1>1, <1>2, MulMono
<1>5. p = q
  BY <1>1, <1>3, <1>4
<1> QED BY <1>5 DEF p

(***************************************************************************)
(* One more value: either the stride does not reach it, or it is the next  *)
(* multiple of the stride.                                                 *)
(***************************************************************************)
LEMMA DivNext ==
  ASSUME NEW n \in Nat, NEW s \in Nat \ {0}
  PROVE  /\ (n + 1) % s # 0 => (n + 1) \div s = n \div s
         /\ (n + 1) % s = 0 => /\ (n + 1) \div s = n \div s + 1
                               /\ n + 1 = (n \div s + 1) * s
<1> DEFINE p == n \div s
           q == (n + 1) \div s
<1>1. p \in Nat /\ s * p <= n /\ n < s * p + s
  BY DivFacts
<1>2. q \in Nat /\ s * q <= n + 1 /\ n + 1 < s * q + s /\ (n + 1) % s = n + 1 - s * q
  <2> DEFINE m == n + 1
  <2>1. m \in Nat
    OBVIOUS
  <2> HIDE DEF m
  <2>2. /\ m \div s \in Nat /\ s * (m \div s) <= m /\ m < s * (m \div s) + s
        /\ m % s = m - s * (m \div s)
    BY <2>1, DivFacts
  <2> QED BY <2>2 DEF m
<1> HIDE DEF p, q
<1>3. ASSUME (n + 1) % s # 0
      PROVE  q = p
  <2>1. s * q <= n /\ n < s * q + s
    BY <1>2, <1>3
  <2>2. n \div s = q
    BY <1>2, <2>1, DivUnique
  <2> QED BY <2>2 DEF p
<1>4. ASSUME (n + 1) % s = 0
      PROVE  q = p + 1 /\ n + 1 = (p + 1) * s
  <2>1. n + 1 = s * q
    BY <1>2, <1>4
  <2>2. q >= 1
    BY <1>2, <2>1
  <2>3. s * (q - 1) = s * q - s /\ q - 1 \in Nat
    BY <1>2, <2>2
  <2>4. s * (q - 1) <= n /\ n < s * (q - 1) + s
    BY <2>1, <2>3
  <2>5. n \div s = q - 1
    BY <2>3, <2>4, DivUnique
  <2>6. q = p + 1
    BY <1>2, <2>5 DEF p
  <2> QED BY <1>1, <2>1, <2>6
<1> QED BY <1>3, <1>4 DEF p, q

LEMMA DivDouble ==
  ASSUME NEW m \in Nat, NEW s \in Nat \ {0}
  PROVE  (m * s) \div (2 * s) = m \div 2
<1> DEFINE h == m \div 2
<1>1. h \in Nat /\ 2 * h <= m /\ m < 2 * h + 2
  OBVIOUS
<1> HIDE DEF h
<1>2. s * (2 * h) <= s * m /\ s * (m + 1) <= s * (2 * h + 2)
  BY <1>1, MulMono
<1>3. (2 * s) * h = s * (2 * h) /\ s * (2 * h + 2) = (2 * s) * h + 2 * s
      /\ s * (m + 1) = s * m + s /\ s * m = m * s /\ m * s \in Nat
  BY <1>1
<1>4. (2 * s) * h <= m * s /\ m * s < (2 * s) * h + 2 * s
  BY <1>1, <1>2, <1>3
<1>5. 2 * s \in Nat \ {0}
  OBVIOUS
<1>6. (m * s) \div (2 * s) = h
  BY <1>1, <1>3, <1>4, <1>5, DivUnique
<1> QED BY <1>6 DEF h

(***************************************************************************)
(* Sequences as functions.                                                 *)
(***************************************************************************)
LEMMA FunctionIsSeq ==
  ASSUME NEW S, NEW n \in Nat, NEW f \in [1 .. n -> S]
  PROVE  f \in Seq(S) /\ Len(f) = n
OBVIOUS

-----------------------------------------------------------------------------
(***************************************************************************)
(* A sample set, and what it keeps of what it was given: the i-th value    *)
(* kept is the (i * stride)-th given.                                      *)
(***************************************************************************)
SampleRec(S) == [values : Seq(S), stride : Nat \ {0}, seen : Nat, decimated : BOOLEAN]

Keeps(values, stride, given) ==
  /\ Len(values) = Len(given) \div stride
  /\ \A i \in 1 .. Len(values) : values[i] = given[i * stride]

Spread(set, given) ==
  /\ set.seen = Len(given) /\ Keeps(set.values, set.stride, given)
  /\ Len(set.values) < MaxSamples
  /\ set.decimated <=> set.stride > 1
  /\ set.decimated => Len(set.values) >= MaxSamples \div 2

LEMMA KeepsIsEvery ==
  ASSUME NEW S, NEW values \in Seq(S), NEW given \in Seq(S), NEW stride \in Nat \ {0},
         Keeps(values, stride, given)
  PROVE  values = [i \in 1 .. Len(given) \div stride |-> given[i * stride]]
<1>1. values \in [1 .. Len(values) -> S]
  BY LenProperties
<1> QED BY <1>1 DEF Keeps

LEMMA SpreadIsEven ==
  ASSUME NEW S, NEW set \in SampleRec(S), NEW given \in Seq(S), Spread(set, given)
  PROVE  EvenlySpread(set, given)
<1>1. set.values = [i \in 1 .. Len(given) \div set.stride |-> given[i * set.stride]]
  BY KeepsIsEvery DEF Spread, SampleRec
<1> QED BY <1>1 DEF Spread, EvenlySpread

(***************************************************************************)
(* The three ways of a value: passed over, kept, or kept with every second *)
(* one before it going.                                                    *)
(***************************************************************************)
LEMMA PassedOver ==
  ASSUME NEW S, NEW values \in Seq(S), NEW given \in Seq(S), NEW s \in Nat \ {0}, NEW v \in S,
         Keeps(values, s, given), (Len(given) + 1) % s # 0
  PROVE  Keeps(values, s, Append(given, v))
<1> DEFINE n == Len(given)
<1>1. n \in Nat /\ Append(given, v) \in Seq(S) /\ Len(Append(given, v)) = n + 1
  OBVIOUS
<1>2. \A j \in 1 .. n : Append(given, v)[j] = given[j]
  OBVIOUS
<1> HIDE DEF n
<1>3. Len(values) = n \div s /\ Len(values) = (n + 1) \div s
  BY <1>1, DivNext DEF Keeps, n
<1>4. ASSUME NEW i \in 1 .. Len(values)
      PROVE  Append(given, v)[i * s] = given[i * s]
  <2>1. Len(values) \in Nat /\ s * Len(values) <= n
    BY <1>1, <1>3, DivFacts
  <2>2. s * 1 <= s * i /\ s * i <= s * Len(values)
    BY <2>1, MulMono
  <2>3. i * s = s * i /\ s * 1 = s /\ i * s \in Nat
    OBVIOUS
  <2>4. i * s \in 1 .. n
    BY <1>1, <2>1, <2>2, <2>3
  <2> QED BY <1>2, <2>4
<1> QED BY <1>1, <1>3, <1>4 DEF Keeps

LEMMA KeptAsWell ==
  ASSUME NEW S, NEW values \in Seq(S), NEW given \in Seq(S), NEW s \in Nat \ {0}, NEW v \in S,
         Keeps(values, s, given), (Len(given) + 1) % s = 0
  PROVE  Keeps(Append(values, v), s, Append(given, v))
<1> DEFINE n == Len(given)
           m == Len(values)
<1>1. n \in Nat /\ Append(given, v) \in Seq(S) /\ Len(Append(given, v)) = n + 1
  OBVIOUS
<1>2. (\A j \in 1 .. n : Append(given, v)[j] = given[j]) /\ Append(given, v)[n + 1] = v
  OBVIOUS
<1>3. m \in Nat /\ Append(values, v) \in Seq(S) /\ Len(Append(values, v)) = m + 1
  OBVIOUS
<1>4. (\A j \in 1 .. m : Append(values, v)[j] = values[j]) /\ Append(values, v)[m + 1] = v
  OBVIOUS
<1> HIDE DEF n, m
<1>5. m = n \div s /\ m + 1 = (n + 1) \div s /\ n + 1 = (m + 1) * s
  BY <1>1, DivNext DEF Keeps, n, m
<1>6. ASSUME NEW i \in 1 .. m
      PROVE  Append(values, v)[i] = Append(given, v)[i * s]
  <2>1. s * m <= n
    BY <1>1, <1>5, DivFacts
  <2>2. s * 1 <= s * i /\ s * i <= s * m
    BY <1>3, MulMono
  <2>3. i * s = s * i /\ s * 1 = s /\ i * s \in Nat
    BY <1>3
  <2>4. i * s \in 1 .. n
    BY <1>1, <1>3, <2>1, <2>2, <2>3
  <2>5. values[i] = given[i * s]
    BY DEF Keeps, m
  <2> QED BY <1>2, <1>4, <2>4, <2>5
<1>7. Append(values, v)[m + 1] = Append(given, v)[(m + 1) * s]
  BY <1>2, <1>4, <1>5
<1> DEFINE after == Append(values, v)
           more  == Append(given, v)
<1>8. /\ Len(after) = m + 1 /\ Len(more) = n + 1
      /\ \A i \in 1 .. m : after[i] = more[i * s]
      /\ after[m + 1] = more[(m + 1) * s]
  BY <1>1, <1>3, <1>6, <1>7
<1> HIDE DEF after, more
<1>9. ASSUME NEW i \in 1 .. m + 1
      PROVE  after[i] = more[i * s]
  <2>1. i \in 1 .. m \/ i = m + 1
    BY <1>3
  <2> QED BY <1>8, <2>1
<1>10. Keeps(after, s, more)
  BY <1>5, <1>8, <1>9 DEF Keeps
<1> QED BY <1>10 DEF after, more

LEMMA EverySecondType ==
  ASSUME NEW S, NEW values \in Seq(S)
  PROVE  /\ EverySecond(values) \in Seq(S) /\ Len(EverySecond(values)) = Len(values) \div 2
         /\ \A i \in 1 .. Len(values) \div 2 : EverySecond(values)[i] = values[2 * i]
<1>1. Len(values) \in Nat /\ \A j \in 1 .. Len(values) : values[j] \in S
  OBVIOUS
<1>2. \A i \in 1 .. Len(values) \div 2 : 2 * i \in 1 .. Len(values)
  BY <1>1
<1>3. EverySecond(values) \in [1 .. Len(values) \div 2 -> S]
  BY <1>1, <1>2 DEF EverySecond
<1>4. Len(values) \div 2 \in Nat
  BY <1>1
<1>5. \A i \in 1 .. Len(values) \div 2 : EverySecond(values)[i] = values[2 * i]
  BY DEF EverySecond
<1> QED BY <1>3, <1>4, <1>5, FunctionIsSeq

LEMMA Thinned ==
  ASSUME NEW S, NEW values \in Seq(S), NEW given \in Seq(S), NEW s \in Nat \ {0},
         Keeps(values, s, given), Len(given) = Len(values) * s
  PROVE  Keeps(EverySecond(values), 2 * s, given)
<1> DEFINE m == Len(values)
<1>1. m \in Nat
  OBVIOUS
<1> HIDE DEF m
<1>2. Len(given) \div (2 * s) = m \div 2
  BY <1>1, DivDouble DEF m
<1>3. ASSUME NEW i \in 1 .. m \div 2
      PROVE  EverySecond(values)[i] = given[i * (2 * s)]
  <2>1. 2 * i \in 1 .. m
    BY <1>1
  <2>3. (2 * i) * s = i * (2 * s)
    OBVIOUS
  <2>2. values[2 * i] = given[(2 * i) * s]
    BY <2>1 DEF Keeps, m
  <2> QED BY <2>2, <2>3, EverySecondType DEF m
<1> QED BY <1>2, <1>3, EverySecondType DEF Keeps, m

(***************************************************************************)
(* add keeps the sample spread evenly over what was given, whatever the    *)
(* bound on samples is.                                                    *)
(***************************************************************************)
LEMMA AddKeepsSpread ==
  ASSUME NEW S, NEW set \in SampleRec(S), NEW given \in Seq(S), NEW v \in S, Spread(set, given)
  PROVE  add(set, v) \in SampleRec(S) /\ Spread(add(set, v), Append(given, v))
<1> DEFINE n     == Len(given)
           s     == set.stride
           grown == Append(set.values, v)
           more  == Append(given, v)
           new   == add(set, v)
<1>1. /\ n \in Nat /\ more \in Seq(S) /\ Len(more) = n + 1 /\ set.seen = n
      /\ set.values \in Seq(S) /\ Len(set.values) \in Nat /\ s \in Nat \ {0}
      /\ set.decimated \in BOOLEAN /\ MaxSamples \in Nat /\ MaxSamples >= 2
  BY SampleSetAssumption DEF Spread, SampleRec
<1>2. grown \in Seq(S) /\ Len(grown) = Len(set.values) + 1
  BY <1>1
<1>3. CASE (n + 1) % s # 0
  <2>1. new = [set EXCEPT !.seen = n + 1]
    BY <1>1, <1>3 DEF add
  <2>2. /\ new.seen = n + 1 /\ new.values = set.values /\ new.stride = s
        /\ new.decimated = set.decimated /\ new \in SampleRec(S)
    BY <1>1, <2>1 DEF SampleRec
  <2>3. Keeps(set.values, s, more)
    BY <1>1, <1>3, PassedOver DEF Spread
  <2>4. n + 1 = Len(more) /\ Len(set.values) < MaxSamples /\ (set.decimated <=> s > 1)
        /\ (set.decimated => Len(set.values) >= MaxSamples \div 2)
    BY <1>1 DEF Spread
  <2> HIDE DEF new, more, s, n
  <2>5. Spread(new, more)
    BY <2>2, <2>3, <2>4 DEF Spread
  <2> QED BY <2>2, <2>5 DEF new, more
<1>4. CASE (n + 1) % s = 0 /\ ~Full(grown)
  <2>1. new = [values |-> grown, stride |-> s, seen |-> n + 1, decimated |-> set.decimated]
    BY <1>1, <1>4 DEF add
  <2>2. Keeps(grown, s, more)
    BY <1>1, <1>4, KeptAsWell DEF Spread
  <2>3. Len(grown) < MaxSamples
    BY <1>1, <1>2, <1>4 DEF Full
  <2>4. set.decimated => Len(grown) >= MaxSamples \div 2
    BY <1>1, <1>2 DEF Spread
  <2>5. /\ new.seen = n + 1 /\ new.values = grown /\ new.stride = s
        /\ new.decimated = set.decimated
    BY <2>1
  <2>6. new \in SampleRec(S)
    BY <1>1, <1>2, <2>1 DEF SampleRec
  <2>7. set.decimated <=> s > 1
    BY DEF Spread
  <2> HIDE DEF new, more, grown, s, n
  <2>8. Spread(new, more)
    BY <1>1, <2>2, <2>3, <2>4, <2>5, <2>7 DEF Spread
  <2> QED BY <2>6, <2>8 DEF new, more
<1>5. CASE (n + 1) % s = 0 /\ Full(grown)
  <2>1. new = [values |-> EverySecond(grown), stride |-> 2 * s, seen |-> n + 1, decimated |-> TRUE]
    BY <1>1, <1>5 DEF add
  <2>2. Keeps(grown, s, more)
    BY <1>1, <1>5, KeptAsWell DEF Spread
  <2>3. n + 1 = Len(grown) * s
    <3>1. Len(set.values) = n \div s
      BY DEF Spread, Keeps
    <3>2. n + 1 = (n \div s + 1) * s
      BY <1>1, <1>5, DivNext
    <3> QED BY <1>2, <3>1, <3>2
  <2>4. Keeps(EverySecond(grown), 2 * s, more)
    BY <1>1, <1>2, <2>2, <2>3, Thinned
  <2>5. Len(grown) = MaxSamples
    BY <1>1, <1>2, <1>5 DEF Spread, Full
  <2>6. EverySecond(grown) \in Seq(S) /\ Len(EverySecond(grown)) = MaxSamples \div 2
    BY <1>2, <2>5, EverySecondType
  <2>7. MaxSamples \div 2 < MaxSamples /\ MaxSamples \div 2 \in Nat /\ 2 * s > 1 /\ 2 * s \in Nat \ {0}
    BY <1>1
  <2>8. /\ new.seen = n + 1 /\ new.values = EverySecond(grown) /\ new.stride = 2 * s
        /\ new.decimated = TRUE
    BY <2>1
  <2>9. new \in SampleRec(S)
    BY <1>1, <2>1, <2>6, <2>7 DEF SampleRec
  <2> HIDE DEF new, more, grown, s, n
  <2>10. Spread(new, more)
    BY <1>1, <2>4, <2>6, <2>7, <2>8 DEF Spread
  <2> QED BY <2>9, <2>10 DEF new, more
<1> QED BY <1>3, <1>4, <1>5

-----------------------------------------------------------------------------
(***************************************************************************)
(* The samples of every shard.                                             *)
(***************************************************************************)
SamplesInv ==
  /\ sample \in [Shards -> SampleRec(Latencies)] /\ measured \in [Shards -> Seq(Latencies)]
  /\ \A i \in Shards : Spread(sample[i], measured[i])

LEMMA InitSamples == Init => SamplesInv
<1>1. << >> \in Seq(Latencies) /\ Len(<< >>) = 0 /\ 0 \div 1 = 0
  OBVIOUS
<1>2. EmptySet \in SampleRec(Latencies)
  BY <1>1 DEF EmptySet, SampleRec
<1>3. Spread(EmptySet, << >>)
  BY <1>1, SampleSetAssumption DEF EmptySet, Spread, Keeps
<1> QED BY <1>1, <1>2, <1>3 DEF Init, SamplesInv

LEMMA AttemptKeepsSamples ==
  ASSUME SamplesInv, NEW i \in Shards, NEW outcome,
         NEW latency, outcome = "success" => latency \in Latencies, Attempt(i, outcome, latency)
  PROVE  SamplesInv'
<1>1. CASE outcome = "success" /\ Steady(i)
  <2>1. /\ sample' = [sample EXCEPT ![i] = add(sample[i], latency)]
        /\ measured' = [measured EXCEPT ![i] = Append(measured[i], latency)]
    BY <1>1 DEF Attempt
  <2>2. /\ add(sample[i], latency) \in SampleRec(Latencies)
        /\ Spread(add(sample[i], latency), Append(measured[i], latency))
    BY <1>1, AddKeepsSpread DEF SamplesInv
  <2>3. Append(measured[i], latency) \in Seq(Latencies)
    BY <1>1 DEF SamplesInv
  <2> QED BY <2>1, <2>2, <2>3 DEF SamplesInv
<1>2. CASE ~(outcome = "success" /\ Steady(i))
  <2>1. UNCHANGED <<sample, measured>>
    BY <1>2 DEF Attempt
  <2> QED BY <2>1 DEF SamplesInv
<1> QED BY <1>1, <1>2

LEMMA NextKeepsSamples == SamplesInv /\ [Next]_vars => SamplesInv'
<1> SUFFICES ASSUME SamplesInv, [Next]_vars PROVE SamplesInv'
  OBVIOUS
<1>1. CASE \E i \in Shards, latency \in Latencies : Attempt(i, "success", latency)
  BY <1>1, AttemptKeepsSamples
<1>2. CASE \E i \in Shards, outcome \in Outcomes \ {"success"} : Attempt(i, outcome, 0)
  BY <1>2, AttemptKeepsSamples
<1>3. CASE (\E i \in Shards : Post(i)) \/ UNCHANGED vars
  <2>1. UNCHANGED <<sample, measured>>
    BY <1>3 DEF Post, vars
  <2> QED BY <2>1 DEF SamplesInv
<1> QED BY <1>1, <1>2, <1>3 DEF Next

(***************************************************************************)
(* What an agent samples is spread evenly over the whole run, for every    *)
(* bound on samples and every number of shards.                            *)
(***************************************************************************)
THEOREM SamplesAlwaysEvenlySpread == Spec => []SamplesEvenlySpread
<1>1. SamplesInv => SamplesEvenlySpread
  BY SpreadIsEven DEF SamplesInv, SamplesEvenlySpread
<1> QED BY <1>1, InitSamples, NextKeepsSamples, PTL DEF Spec

-----------------------------------------------------------------------------
(***************************************************************************)
(* IsRunStable and InstabilityMessage never disagree, on any outcome and   *)
(* under any limits: every gate of the one is a complaint of the other.    *)
(***************************************************************************)
THEOREM StableHasNoComplaint ==
  ASSUME NEW r \in Outcome, NEW limits \in Limits
  PROVE  IsRunStable(r, limits) <=> InstabilityMessage(r, limits) = "no complaint"
<1>1. r.total \in Nat /\ r.p95 \in Nat /\ r.ttft \in Nat
  BY DEF Outcome
<1>2. limits.maxP95 \in Nat /\ limits.maxTTFT \in Nat
  BY DEF Limits
<1> QED BY <1>1, <1>2 DEF IsRunStable, InstabilityMessage

-----------------------------------------------------------------------------
(***************************************************************************)
(* Sums over finite sets.  MapThenSumSet adds up along a recursive         *)
(* function on the subsets; what that function is, is proved for all       *)
(* subsets at once from a smallest one on which it would be wrong.         *)
(***************************************************************************)
AnyOf(s) == CHOOSE x \in s : TRUE

\* it sums h up: h[s] is the share of the element of s that is taken first.
AddsUp(it, h, S) == it = [s \in SUBSET S |-> IF s = {} THEN 0 ELSE h[s] + it[s \ {AnyOf(s)}]]

LEMMA LeastNat ==
  ASSUME NEW S, S \subseteq Nat, S # {}
  PROVE  \E m \in S : \A x \in S : m <= x
<1>1. PICK m \in S : \A x \in S : <<x, m>> \notin OpToRel(<, Nat)
  BY NatLessThanWellFounded, WFMin
<1>2. ASSUME NEW x \in S PROVE m <= x
  <2>1. ~(x < m)
    BY <1>1 DEF OpToRel
  <2>. QED  BY <2>1
<1>. QED  BY <1>2

LEMMA OneLess ==
  ASSUME NEW S, IsFiniteSet(S), NEW s \in SUBSET S, s # {}
  PROVE  /\ AnyOf(s) \in s /\ s \ {AnyOf(s)} \in SUBSET S
         /\ IsFiniteSet(s) /\ IsFiniteSet(s \ {AnyOf(s)})
         /\ Cardinality(s) \in Nat /\ Cardinality(s \ {AnyOf(s)}) \in Nat
         /\ Cardinality(s) = Cardinality(s \ {AnyOf(s)}) + 1
<1>1. AnyOf(s) \in s
  BY DEF AnyOf
<1>2. IsFiniteSet(s)
  BY FS_Subset
<1>3. IsFiniteSet(s \ {AnyOf(s)})
  BY <1>2, FS_RemoveElement
<1>4. Cardinality(s) \in Nat /\ Cardinality(s \ {AnyOf(s)}) \in Nat
  BY <1>2, <1>3, FS_CardinalityType
<1>5. Cardinality(s \ {AnyOf(s)}) = IF AnyOf(s) \in s THEN Cardinality(s) - 1 ELSE Cardinality(s)
  BY <1>2, FS_RemoveElement
<1>. QED  BY <1>1, <1>2, <1>3, <1>4, <1>5

LEMMA SumIs ==
  ASSUME NEW S, IsFiniteSet(S), NEW h, NEW it, AddsUp(it, h, S),
         NEW sum, sum[{}] = 0,
         \A s \in (SUBSET S) \ {{}} : sum[s] = h[s] + sum[s \ {AnyOf(s)}]
  PROVE  \A s \in SUBSET S : it[s] = sum[s]
<1>. DEFINE Wrong == {s \in SUBSET S : it[s] # sum[s]}
            Sizes == {Cardinality(s) : s \in Wrong}
<1>1. SUFFICES ASSUME Wrong # {} PROVE FALSE
  OBVIOUS
<1>2. Sizes \subseteq Nat /\ Sizes # {}
  <2>1. \A s \in Wrong : IsFiniteSet(s)
    BY FS_Subset
  <2>2. \A s \in Wrong : Cardinality(s) \in Nat
    BY <2>1, FS_CardinalityType
  <2>. QED  BY <1>1, <2>2
<1>3. PICK least \in Sizes : \A n \in Sizes : least <= n
  <2>. HIDE DEF Sizes
  <2>. QED  BY <1>2, LeastNat
<1>4. PICK s \in Wrong : Cardinality(s) = least
  OBVIOUS
<1>5. \A t \in SUBSET S : it[t] = IF t = {} THEN 0 ELSE h[t] + it[t \ {AnyOf(t)}]
  <2>. DEFINE body == [t \in SUBSET S |-> IF t = {} THEN 0 ELSE h[t] + it[t \ {AnyOf(t)}]]
  <2>1. it = body
    BY DEF AddsUp
  <2>2. \A t \in SUBSET S : body[t] = IF t = {} THEN 0 ELSE h[t] + it[t \ {AnyOf(t)}]
    OBVIOUS
  <2>. HIDE DEF body
  <2>. QED  BY <2>1, <2>2
<1>6. s # {}
  BY <1>4, <1>5
<1>7. s \ {AnyOf(s)} \in SUBSET S
  BY <1>4, <1>6, OneLess
<1>8. s \ {AnyOf(s)} \notin Wrong
  <2>1. SUFFICES ASSUME s \ {AnyOf(s)} \in Wrong PROVE FALSE
    OBVIOUS
  <2>2. Cardinality(s \ {AnyOf(s)}) \in Sizes
    BY <2>1
  <2>3. least <= Cardinality(s \ {AnyOf(s)})
    BY <1>3, <2>2
  <2>. HIDE DEF Sizes
  <2>4. s \in SUBSET S
    OBVIOUS
  <2>. HIDE DEF Wrong
  <2>. QED  BY <1>4, <1>6, <2>3, <2>4, OneLess
<1>9. it[s \ {AnyOf(s)}] = sum[s \ {AnyOf(s)}]
  BY <1>7, <1>8
<1>10. it[s] = sum[s]
  BY <1>5, <1>6, <1>9
<1>. QED  BY <1>10

\* A closed form of the partial sums is a function that adds up.
LEMMA SumExists ==
  ASSUME NEW S, IsFiniteSet(S), NEW h, NEW sum, sum[{}] = 0,
         \A s \in (SUBSET S) \ {{}} : sum[s] = h[s] + sum[s \ {AnyOf(s)}]
  PROVE  \E it : AddsUp(it, h, S)
<1>. DEFINE it == [s \in SUBSET S |-> sum[s]]
<1>1. ASSUME NEW s \in SUBSET S PROVE sum[s] = IF s = {} THEN 0 ELSE h[s] + it[s \ {AnyOf(s)}]
  <2>1. CASE s = {}
    BY <2>1
  <2>2. CASE s # {}
    <3>1. s \ {AnyOf(s)} \in SUBSET S
      OBVIOUS
    <3>2. it[s \ {AnyOf(s)}] = sum[s \ {AnyOf(s)}]
      BY <3>1
    <3>. HIDE DEF it
    <3>. QED  BY <2>2, <3>2
  <2>. QED  BY <2>1, <2>2
<1>2. it = [s \in SUBSET S |-> IF s = {} THEN 0 ELSE h[s] + it[s \ {AnyOf(s)}]]
  BY <1>1
<1>3. AddsUp(it, h, S)
  BY <1>2 DEF AddsUp
<1>. QED  BY <1>3

-----------------------------------------------------------------------------
(***************************************************************************)
(* The load of the shards.                                                 *)
(***************************************************************************)
OfferInv == mode \in {"vu", "rps"} /\ load \in Loads

\* The shards of a set that take one more than the others.
Fuller(s) == {i \in s : i < load % Count}

LEMMA ShareFacts ==
  ASSUME load \in Loads
  PROVE  /\ load \in Nat /\ Count \in Nat \ {0}
         /\ load \div Count \in Nat /\ load % Count \in 0 .. Count - 1
         /\ load = Count * (load \div Count) + (load % Count)
BY RunResultsAssumption

LEMMA FullerByOne ==
  ASSUME load \in Loads, NEW s \in SUBSET Shards, s # {}
  PROVE  /\ Cardinality(s \ {AnyOf(s)}) \in Nat /\ Cardinality(s) = Cardinality(s \ {AnyOf(s)}) + 1
         /\ Cardinality(Fuller(s \ {AnyOf(s)})) \in Nat
         /\ Cardinality(Fuller(s))
              = Cardinality(Fuller(s \ {AnyOf(s)})) + IF AnyOf(s) < load % Count THEN 1 ELSE 0
<1>1. IsFiniteSet(Shards)
  BY RunResultsAssumption, FS_Interval DEF Shards
<1>2. /\ AnyOf(s) \in s /\ IsFiniteSet(s \ {AnyOf(s)})
      /\ Cardinality(s \ {AnyOf(s)}) \in Nat /\ Cardinality(s) = Cardinality(s \ {AnyOf(s)}) + 1
  BY <1>1, OneLess
<1>. DEFINE rest == s \ {AnyOf(s)}
<1>3. Fuller(rest) \subseteq rest
  BY DEF Fuller
<1>4. IsFiniteSet(Fuller(rest))
  BY <1>2, <1>3, FS_Subset
<1>5. Cardinality(Fuller(rest)) \in Nat
  BY <1>4, FS_CardinalityType
<1>6. CASE AnyOf(s) < load % Count
  <2>1. Fuller(s) = Fuller(rest) \cup {AnyOf(s)} /\ AnyOf(s) \notin Fuller(rest)
    BY <1>2, <1>6 DEF Fuller
  <2>2. Cardinality(Fuller(rest) \cup {AnyOf(s)})
          = IF AnyOf(s) \in Fuller(rest) THEN Cardinality(Fuller(rest)) ELSE Cardinality(Fuller(rest)) + 1
    BY <1>4, FS_AddElement
  <2>. QED  BY <1>2, <1>5, <1>6, <2>1, <2>2
<1>7. CASE ~(AnyOf(s) < load % Count)
  <2>1. Fuller(s) = Fuller(rest)
    BY <1>2, <1>7 DEF Fuller
  <2>. HIDE DEF rest
  <2>. QED  BY <1>2, <1>5, <1>7, <2>1 DEF rest
<1>. QED  BY <1>6, <1>7

\* What ClaimRun hands out adds up to the load of the run.
LEMMA SharesAddUp ==
  ASSUME load \in Loads, \A i \in Shards : Offered(i) = Share(i)
  PROVE  MapThenSumSet(Offered, Shards) = load
<1>. DEFINE base == load \div Count
            h    == [s \in SUBSET Shards |-> Offered(AnyOf(s))]
            sum  == [s \in SUBSET Shards |-> base * Cardinality(s) + Cardinality(Fuller(s))]
            body(it) == [s \in SUBSET Shards |->
                           IF s = {} THEN 0 ELSE Offered(AnyOf(s)) + it[s \ {AnyOf(s)}]]
<1>0. base \in Nat /\ IsFiniteSet(Shards)
  BY ShareFacts, FS_Interval, RunResultsAssumption DEF Shards
<1>. HIDE DEF base
<1>1. sum[{}] = 0
  <2>1. Fuller({}) = {} /\ Cardinality({}) = 0
    BY FS_EmptySet DEF Fuller
  <2>. QED  BY <1>0, <2>1
<1>2. ASSUME NEW s \in (SUBSET Shards) \ {{}} PROVE sum[s] = h[s] + sum[s \ {AnyOf(s)}]
  <2>. DEFINE n == Cardinality(s \ {AnyOf(s)})
              f == Cardinality(Fuller(s \ {AnyOf(s)}))
              e == IF AnyOf(s) < load % Count THEN 1 ELSE 0
  <2>1. s \in SUBSET Shards /\ s # {} /\ s \ {AnyOf(s)} \in SUBSET Shards /\ AnyOf(s) \in Shards
    BY DEF AnyOf
  <2>2. n \in Nat /\ f \in Nat /\ Cardinality(s) = n + 1 /\ Cardinality(Fuller(s)) = f + e
    BY <2>1, FullerByOne
  <2>3. h[s] = base + e
    BY <2>1 DEF Share, base
  <2>4. sum[s] = base * Cardinality(s) + Cardinality(Fuller(s)) /\ sum[s \ {AnyOf(s)}] = base * n + f
    BY <2>1
  <2>5. e \in Nat
    OBVIOUS
  <2>. HIDE DEF n, f, e, sum, h
  <2>6. base * (n + 1) = base * n + base
    BY <1>0, <2>2
  <2>7. base * n \in Nat
    BY <1>0, <2>2
  <2>. QED  BY <1>0, <2>2, <2>3, <2>4, <2>5, <2>6, <2>7
<1>3. sum[Shards] = load
  <2>1. Cardinality(Shards) = Count
    BY RunResultsAssumption, FS_Interval DEF Shards
  <2>2. Fuller(Shards) = 0 .. (load % Count) - 1
    <3>1. PICK r \in 0 .. Count - 1 : r = load % Count
      BY ShareFacts
    <3>2. {i \in 0 .. Count - 1 : i < r} = 0 .. r - 1
      BY <3>1, RunResultsAssumption
    <3>. QED  BY <3>1, <3>2 DEF Fuller, Shards
  <2>3. Cardinality(Fuller(Shards)) = load % Count
    BY <2>2, ShareFacts, FS_Interval
  <2>4. Shards \in SUBSET Shards
    OBVIOUS
  <2>5. sum[Shards] = base * Count + (load % Count)
    BY <2>1, <2>3, <2>4
  <2>. HIDE DEF sum
  <2>6. base * Count = Count * base
    BY <1>0, ShareFacts
  <2>. QED  BY <2>5, <2>6, ShareFacts DEF base
<1>4. \A it : AddsUp(it, h, Shards) <=> it = body(it)
  <2>1. \A it : body(it) = [s \in SUBSET Shards |-> IF s = {} THEN 0 ELSE h[s] + it[s \ {AnyOf(s)}]]
    OBVIOUS
  <2>. HIDE DEF body, h
  <2>. QED  BY <2>1 DEF AddsUp
<1>. HIDE DEF h, sum
<1>5. \E it : AddsUp(it, h, Shards)
  BY <1>0, <1>1, <1>2, SumExists
<1>6. \A it : AddsUp(it, h, Shards) => it[Shards] = load
  <2>1. ASSUME NEW it, AddsUp(it, h, Shards) PROVE \A s \in SUBSET Shards : it[s] = sum[s]
    BY <1>0, <1>1, <1>2, <2>1, SumIs
  <2>. QED  BY <1>3, <2>1
<1>7. \E it : it = body(it)
  BY <1>4, <1>5
<1>8. \A it : it = body(it) => it[Shards] = load
  BY <1>4, <1>6
<1>9. MapThenSumSet(Offered, Shards) = (CHOOSE it : it = body(it))[Shards]
  BY DEF MapThenSumSet, MapThenFoldSet, AnyOf
<1>. HIDE DEF body
<1>. QED  BY <1>7, <1>8, <1>9

(***************************************************************************)
(* ClaimRun splits a run evenly and leaves nothing over, whatever the load *)
(* and the number of shards: the shards offer together what was asked for, *)
(* and no shard offers two more than another.                              *)
(***************************************************************************)
THEOREM ShardsOfferWhatIsAsked == Spec => []OfferedIsAsked
<1>1. Init => OfferInv
  BY DEF Init, OfferInv
<1>2. OfferInv /\ [Next]_vars => OfferInv'
  <2>1. [Next]_vars => UNCHANGED <<mode, load>>
    BY DEF Next, Attempt, Post, vars
  <2>. QED  BY <2>1 DEF OfferInv
<1>3. OfferInv => OfferedIsAsked
  <2>. SUFFICES ASSUME OfferInv PROVE OfferedIsAsked
    OBVIOUS
  <2>1. /\ load \in Nat /\ Count \in Nat \ {0} /\ load \div Count \in Nat
        /\ load = Count * (load \div Count) + (load % Count) /\ load % Count \in 0 .. Count - 1
    BY ShareFacts DEF OfferInv
  <2>2. load >= Count => load \div Count >= 1
    <3>1. load \div Count = 0 => load = load % Count
      BY <2>1
    <3>. QED  BY <2>1, <3>1
  <2>3. \A i \in Shards : Share(i) \in {load \div Count, load \div Count + 1}
    BY <2>1 DEF Share
  <2>4. ASSUME mode = "vu" \/ load >= Count PROVE MapThenSumSet(Offered, Shards) = load
    <3>1. ASSUME NEW i \in Shards PROVE Offered(i) = Share(i)
      BY <2>1, <2>2, <2>3, <2>4 DEF Offered
    <3>. QED  BY <3>1, SharesAddUp DEF OfferInv
  <2>5. \A i, j \in Shards : Offered(i) <= Offered(j) + 1
    BY <2>1, <2>3 DEF Offered
  <2>. QED  BY <2>4, <2>5 DEF OfferedIsAsked
<1>. QED  BY <1>1, <1>2, <1>3, PTL DEF Spec

-----------------------------------------------------------------------------
(***************************************************************************)
(* Sums of naturals, counted: f[i] units for every i.  The count does not  *)
(* depend on the order in which the elements are taken.                    *)
(***************************************************************************)
Sigma(f, D) == MapThenSumSet(LAMBDA i : f[i], D)

Units(f, s)  == {u \in s \X Nat : u[2] \in 1 .. f[u[1]]}
Column(f, x) == {x} \X (1 .. f[x])

LEMMA SigmaIs ==
  ASSUME NEW D, IsFiniteSet(D), NEW f, NEW sum, sum[{}] = 0,
         \A s \in (SUBSET D) \ {{}} : sum[s] = f[AnyOf(s)] + sum[s \ {AnyOf(s)}]
  PROVE  Sigma(f, D) = sum[D]
<1>. DEFINE h        == [s \in SUBSET D |-> f[AnyOf(s)]]
            body(it) == [s \in SUBSET D |-> IF s = {} THEN 0 ELSE f[AnyOf(s)] + it[s \ {AnyOf(s)}]]
<1>1. \A it : AddsUp(it, h, D) <=> it = body(it)
  <2>1. \A it : body(it) = [s \in SUBSET D |-> IF s = {} THEN 0 ELSE h[s] + it[s \ {AnyOf(s)}]]
    OBVIOUS
  <2>. HIDE DEF body, h
  <2>. QED  BY <2>1 DEF AddsUp
<1>2. \A s \in (SUBSET D) \ {{}} : sum[s] = h[s] + sum[s \ {AnyOf(s)}]
  OBVIOUS
<1>. HIDE DEF h
<1>3. \E it : it = body(it)
  <2>1. \E it : AddsUp(it, h, D)
    BY <1>2, SumExists
  <2>. QED  BY <1>1, <2>1
<1>4. ASSUME NEW it, it = body(it) PROVE it[D] = sum[D]
  <2>1. AddsUp(it, h, D)
    BY <1>1, <1>4
  <2>2. \A s \in SUBSET D : it[s] = sum[s]
    BY <1>2, <2>1, SumIs
  <2>. QED  BY <2>2
<1>5. Sigma(f, D) = (CHOOSE it : it = body(it))[D]
  BY DEF Sigma, MapThenSumSet, MapThenFoldSet, AnyOf
<1>. HIDE DEF body
<1>. QED  BY <1>3, <1>4, <1>5

LEMMA UnitsOfOneLess ==
  ASSUME NEW D, NEW f \in [D -> Nat], NEW s \in SUBSET D, NEW x \in s
  PROVE  /\ Units(f, s) = Units(f, s \ {x}) \cup Column(f, x)
         /\ Units(f, s \ {x}) \cap Column(f, x) = {}
         /\ IsFiniteSet(Column(f, x)) /\ Cardinality(Column(f, x)) = f[x]
<1>1. f[x] \in Nat
  OBVIOUS
<1>2. \A u : u \in {x} \X (1 .. f[x]) <=> u \in {x} \X Nat /\ u[2] \in 1 .. f[x]
  BY <1>1
<1>3. Units(f, s) = Units(f, s \ {x}) \cup ({x} \X (1 .. f[x]))
  BY <1>2 DEF Units
<1>4. Units(f, s \ {x}) \cap ({x} \X (1 .. f[x])) = {}
  BY DEF Units
<1>5. IsFiniteSet({x}) /\ Cardinality({x}) = 1
  BY FS_Singleton
<1>6. IsFiniteSet(1 .. f[x]) /\ Cardinality(1 .. f[x]) = f[x]
  BY <1>1, FS_Interval
<1>7. /\ IsFiniteSet({x} \X (1 .. f[x]))
      /\ Cardinality({x} \X (1 .. f[x])) = Cardinality({x}) * Cardinality(1 .. f[x])
  BY <1>5, <1>6, FS_Product
<1>8. 1 * f[x] = f[x]
  BY <1>1
<1>9. Cardinality(Column(f, x)) = f[x]
  BY <1>5, <1>6, <1>7, <1>8, Zenon DEF Column
<1>10. /\ Units(f, s) = Units(f, s \ {x}) \cup Column(f, x)
       /\ Units(f, s \ {x}) \cap Column(f, x) = {} /\ IsFiniteSet(Column(f, x))
  BY <1>3, <1>4, <1>7, Zenon DEF Column
<1>. QED  BY <1>9, <1>10, Zenon

LEMMA UnitsFinite ==
  ASSUME NEW D, IsFiniteSet(D), NEW f \in [D -> Nat]
  PROVE  \A s \in SUBSET D : IsFiniteSet(Units(f, s))
<1>. DEFINE Wrong == {s \in SUBSET D : ~IsFiniteSet(Units(f, s))}
            Sizes == {Cardinality(s) : s \in Wrong}
<1>1. SUFFICES ASSUME Wrong # {} PROVE FALSE
  OBVIOUS
<1>2. Sizes \subseteq Nat /\ Sizes # {}
  <2>1. \A s \in Wrong : IsFiniteSet(s)
    BY FS_Subset
  <2>2. \A s \in Wrong : Cardinality(s) \in Nat
    BY <2>1, FS_CardinalityType
  <2>. QED  BY <1>1, <2>2
<1>3. PICK least \in Sizes : \A n \in Sizes : least <= n
  <2>. HIDE DEF Sizes
  <2>. QED  BY <1>2, LeastNat
<1>4. PICK s \in Wrong : Cardinality(s) = least
  OBVIOUS
<1>5. s \in SUBSET D /\ ~IsFiniteSet(Units(f, s))
  OBVIOUS
<1>6. s # {}
  <2>1. Units(f, {}) = {}
    BY DEF Units
  <2>. QED  BY <1>5, <2>1, FS_EmptySet
<1>. DEFINE x    == AnyOf(s)
            rest == s \ {x}
<1>7. x \in s /\ rest \in SUBSET D /\ Cardinality(rest) \in Nat /\ least = Cardinality(rest) + 1
  <2>. HIDE DEF Wrong, Sizes
  <2>. QED  BY <1>4, <1>5, <1>6, OneLess
<1>8. rest \notin Wrong
  <2>1. SUFFICES ASSUME rest \in Wrong PROVE FALSE
    OBVIOUS
  <2>2. Cardinality(rest) \in Sizes
    BY <2>1
  <2>. HIDE DEF Wrong, Sizes, rest
  <2>. QED  BY <1>3, <1>7, <2>2
<1>9. IsFiniteSet(Units(f, rest))
  BY <1>7, <1>8
<1>. HIDE DEF x, Wrong, Sizes
<1>10. Units(f, s) = Units(f, rest) \cup Column(f, x) /\ IsFiniteSet(Column(f, x))
  <2>1. s \in SUBSET D
    BY <1>5
  <2>2. \A y \in s : /\ Units(f, s) = Units(f, s \ {y}) \cup Column(f, y)
                     /\ IsFiniteSet(Column(f, y))
    BY <2>1, UnitsOfOneLess
  <2>. QED  BY <1>7, <2>2
<1>. HIDE DEF rest
<1>11. IsFiniteSet(Units(f, rest) \cup Column(f, x))
  BY <1>9, <1>10, FS_Union
<1>. QED  BY <1>5, <1>10, <1>11

LEMMA UnitsAddUp ==
  ASSUME NEW D, IsFiniteSet(D), NEW f \in [D -> Nat], NEW s \in SUBSET D, s # {}
  PROVE  /\ AnyOf(s) \in D /\ s \ {AnyOf(s)} \in SUBSET D
         /\ f[AnyOf(s)] \in Nat /\ Cardinality(Units(f, s \ {AnyOf(s)})) \in Nat
         /\ Cardinality(Units(f, s)) = f[AnyOf(s)] + Cardinality(Units(f, s \ {AnyOf(s)}))
<1>. DEFINE x     == AnyOf(s)
            rest  == s \ {x}
            extra == Column(f, x)
<1>1. x \in s /\ rest \in SUBSET D
  BY DEF AnyOf
<1>. HIDE DEF x
<1>2. f[x] \in Nat
  BY <1>1
<1>3. /\ Units(f, s) = Units(f, rest) \cup extra /\ Units(f, rest) \cap extra = {}
      /\ IsFiniteSet(extra) /\ Cardinality(extra) = f[x]
  <2>1. \A y \in s : IsFiniteSet(Column(f, y))
    BY UnitsOfOneLess
  <2>2. ASSUME NEW y \in s PROVE Units(f, s) = Units(f, s \ {y}) \cup Column(f, y)
    <3>. HIDE DEF rest, extra
    <3>. QED  BY UnitsOfOneLess, SMTT(60)
  <2>3. \A y \in s : Cardinality(Column(f, y)) = f[y]
    BY UnitsOfOneLess
  <2>4. Units(f, rest) \cap extra = {}
    BY DEF Units, Column
  <2>. QED  BY <1>1, <2>1, <2>2, <2>3, <2>4
<1>4. IsFiniteSet(Units(f, rest))
  BY <1>1, UnitsFinite
<1>. HIDE DEF extra
<1>5. Cardinality(Units(f, rest)) \in Nat
  BY <1>4, FS_CardinalityType
<1>6. Cardinality(Units(f, rest) \cup extra)
        = Cardinality(Units(f, rest)) + Cardinality(extra) - Cardinality(Units(f, rest) \cap extra)
  BY <1>3, <1>4, FS_Union
<1>7. Cardinality({}) = 0
  BY FS_EmptySet
<1>8. Cardinality(Units(f, s)) = f[x] + Cardinality(Units(f, rest))
  <2>. DEFINE n == Cardinality(Units(f, rest))
  <2>1. Cardinality(Units(f, s)) = n + f[x] - 0
    BY <1>3, <1>6, <1>7, Zenon
  <2>2. n \in Nat
    BY <1>5
  <2>. HIDE DEF n
  <2>3. n + f[x] - 0 = f[x] + n
    BY <1>2, <2>2
  <2>. QED  BY <2>1, <2>3, Zenon DEF n
<1>9. x \in D
  BY <1>1
<1>. QED  BY <1>1, <1>2, <1>5, <1>8, <1>9 DEF x

LEMMA NoUnits == \A f : Cardinality(Units(f, {})) = 0
<1>1. \A f : Units(f, {}) = {}
  BY DEF Units
<1>. QED  BY <1>1, FS_EmptySet

LEMMA SigmaCounts ==
  ASSUME NEW D, IsFiniteSet(D), NEW f \in [D -> Nat]
  PROVE  Sigma(f, D) = Cardinality(Units(f, D)) /\ Sigma(f, D) \in Nat
<1>. DEFINE sum == [s \in SUBSET D |-> Cardinality(Units(f, s))]
<1>1. sum[{}] = 0
  BY NoUnits
<1>2. ASSUME NEW s \in (SUBSET D) \ {{}} PROVE sum[s] = f[AnyOf(s)] + sum[s \ {AnyOf(s)}]
  BY UnitsAddUp
<1>3. sum[D] = Cardinality(Units(f, D))
  OBVIOUS
<1>. HIDE DEF sum
<1>4. Sigma(f, D) = sum[D]
  BY <1>1, <1>2, SigmaIs
<1>5. IsFiniteSet(Units(f, D))
  BY UnitsFinite
<1>. QED  BY <1>3, <1>4, <1>5, FS_CardinalityType

LEMMA UnitsStep ==
  ASSUME NEW D, IsFiniteSet(D), NEW f \in [D -> Nat]
  PROVE  \A s \in (SUBSET D) \ {{}} :
           /\ AnyOf(s) \in D /\ f[AnyOf(s)] \in Nat
           /\ s \ {AnyOf(s)} \in SUBSET D /\ Cardinality(Units(f, s \ {AnyOf(s)})) \in Nat
           /\ Cardinality(Units(f, s)) = f[AnyOf(s)] + Cardinality(Units(f, s \ {AnyOf(s)}))
  BY UnitsAddUp

\* sum has, for every part of D, the sum of f over that part.
Totals(sum, f, D) ==
  sum[{}] = 0 /\ \A s \in (SUBSET D) \ {{}} : sum[s] = f[AnyOf(s)] + sum[s \ {AnyOf(s)}]

LEMMA SigmaOf ==
  ASSUME NEW D, IsFiniteSet(D)
  PROVE  \A f, sum : Totals(sum, f, D) => Sigma(f, D) = sum[D]
<1>. SUFFICES ASSUME NEW f, NEW sum, Totals(sum, f, D) PROVE Sigma(f, D) = sum[D]
  OBVIOUS
<1>. QED  BY SigmaIs DEF Totals

LEMMA SigmaAdds ==
  ASSUME NEW D, IsFiniteSet(D), NEW f \in [D -> Nat], NEW g \in [D -> Nat], NEW h \in [D -> Nat],
         \A i \in D : h[i] = f[i] + g[i]
  PROVE  Sigma(h, D) = Sigma(f, D) + Sigma(g, D)
<1>. DEFINE F(s) == Cardinality(Units(f, s))
            G(s) == Cardinality(Units(g, s))
            sum  == [s \in SUBSET D |-> F(s) + G(s)]
<1>1. sum[{}] = 0
  BY NoUnits
<1>2. ASSUME NEW s \in (SUBSET D) \ {{}} PROVE sum[s] = h[AnyOf(s)] + sum[s \ {AnyOf(s)}]
  <2>. DEFINE x    == AnyOf(s)
              rest == s \ {x}
  <2>1. /\ x \in D /\ f[x] \in Nat /\ rest \in SUBSET D /\ F(rest) \in Nat
        /\ F(s) = f[x] + F(rest)
    BY UnitsStep
  <2>2. g[x] \in Nat /\ G(rest) \in Nat /\ G(s) = g[x] + G(rest)
    BY UnitsStep
  <2>3. h[x] = f[x] + g[x]
    BY <2>1
  <2>4. sum[s] = F(s) + G(s) /\ sum[rest] = F(rest) + G(rest)
    BY <2>1
  <2>. HIDE DEF F, G, sum, x, rest
  <2>5. sum[s] = h[x] + sum[rest]
    BY <2>1, <2>2, <2>3, <2>4
  <2>. QED  BY <2>5 DEF x, rest
<1>3. sum[D] = F(D) + G(D)
  OBVIOUS
<1>4. Totals(sum, h, D)
  <2>. HIDE DEF sum
  <2>. QED  BY <1>1, <1>2 DEF Totals
<1>. HIDE DEF F, G, sum
<1>5. Sigma(h, D) = sum[D]
  BY <1>4, SigmaOf
<1>6. Sigma(f, D) = F(D) /\ Sigma(g, D) = G(D)
  BY SigmaCounts DEF F, G
<1>. QED  BY <1>3, <1>5, <1>6

\* What adds nothing can be left out.
LEMMA SigmaOfPart ==
  ASSUME NEW D, IsFiniteSet(D), NEW f \in [D -> Nat], NEW E \in SUBSET D, NEW g \in [E -> Nat],
         \A i \in E : g[i] = f[i], \A i \in D \ E : f[i] = 0
  PROVE  Sigma(g, E) = Sigma(f, D)
<1>1. Units(g, E) = Units(f, D)
  BY DEF Units
<1>2. IsFiniteSet(E)
  BY FS_Subset
<1>3. Sigma(f, D) = Cardinality(Units(f, D))
  BY SigmaCounts
<1>4. Sigma(g, E) = Cardinality(Units(g, E))
  BY <1>2, SigmaCounts
<1>. QED  BY <1>1, <1>3, <1>4

\* The sums of the model are sums of a counter over the shards.
LEMMA SumOfCounter ==
  ASSUME NEW rs, NEW c, NEW D
  PROVE  MapThenSumSet(LAMBDA i : rs[i].count[c], D) = Sigma([i \in D |-> rs[i].count[c]], D)
<1>. DEFINE f     == [i \in D |-> rs[i].count[c]]
            a(it) == [s \in SUBSET D |-> IF s = {} THEN 0 ELSE rs[AnyOf(s)].count[c] + it[s \ {AnyOf(s)}]]
            b(it) == [s \in SUBSET D |-> IF s = {} THEN 0 ELSE f[AnyOf(s)] + it[s \ {AnyOf(s)}]]
<1>1. \A s \in (SUBSET D) \ {{}} : AnyOf(s) \in D
  BY DEF AnyOf
<1>2. \A s \in (SUBSET D) \ {{}} : f[AnyOf(s)] = rs[AnyOf(s)].count[c]
  BY <1>1
<1>3. \A it : a(it) = b(it)
  <2>. HIDE DEF f
  <2>. QED  BY <1>2
<1>4. MapThenSumSet(LAMBDA i : rs[i].count[c], D) = (CHOOSE it : it = a(it))[D]
  BY DEF MapThenSumSet, MapThenFoldSet, AnyOf
<1>5. Sigma(f, D) = (CHOOSE it : it = b(it))[D]
  <2>. HIDE DEF f
  <2>. QED  BY DEF Sigma, MapThenSumSet, MapThenFoldSet, AnyOf
<1>. HIDE DEF a, b
<1>6. (CHOOSE it : it = a(it)) = (CHOOSE it : it = b(it))
  BY <1>3
<1>. QED  BY <1>4, <1>5, <1>6

-----------------------------------------------------------------------------
(***************************************************************************)
(* The counters of a completed run.                                        *)
(***************************************************************************)
Tally(c) == [i \in Shards |-> books[i].count[c]]

\* The counters of a shard are balanced.
Balanced(count) ==
  /\ count \in [Counters -> Nat]
  /\ count.issued = count.successes + count.httpFailures + count.transportErrors + count.cancelled
  /\ count.goodput <= count.successes

BooksBalance == \A i \in Shards : Balanced(books[i].count)

\* A posted result has the counters of the books, which are closed then.
ResultsAreTheBooks ==
  /\ DOMAIN result = Shards
  /\ \A i \in Shards : result[i] # Missing =>
       /\ {"posted", "count"} \subseteq DOMAIN result[i]
       /\ result[i].posted = TRUE /\ result[i].count = books[i].count

MergedIsTheSum ==
  merged.posted =>
    /\ \A i \in Shards : result[i] # Missing
    /\ \A c \in Summed : merged.count[c] = Sigma(Tally(c), Shards)

AccountsInv == /\ DOMAIN books = Shards /\ BooksBalance
               /\ ResultsAreTheBooks /\ MergedIsTheSum

LEMMA ShardsFinite == IsFiniteSet(Shards)
  BY FS_Interval, RunResultsAssumption DEF Shards

LEMMA InitAccounts == Init => AccountsInv
  BY DEF Init, AccountsInv, BooksBalance, Balanced, Counters, ResultsAreTheBooks, MergedIsTheSum, Missing

LEMMA AttemptBalances ==
  ASSUME AccountsInv, NEW i \in Shards, NEW outcome \in Outcomes, NEW latency,
         Attempt(i, outcome, latency)
  PROVE  BooksBalance'
<1>. DEFINE count == books[i].count
            plus(c) == IF c \in Counted(i, outcome, latency) THEN 1 ELSE 0
<1>1. Balanced(count)
  BY DEF AccountsInv, BooksBalance
<1>2. /\ \A j \in Shards \ {i} : books'[j] = books[j]
      /\ books'[i].count = [c \in Counters |-> count[c] + plus(c)]
  BY DEF Attempt, AccountsInv
<1>3. /\ plus("issued") = plus("successes") + plus("httpFailures") + plus("transportErrors")
                            + plus("cancelled")
      /\ plus("goodput") <= plus("successes")
  BY DEF Counted, Outcomes
<1>4. \A c \in Counters : plus(c) \in {0, 1}
  OBVIOUS
<1>. HIDE DEF plus, count
<1>5. \A c \in Counters : count[c] \in Nat /\ count[c] + plus(c) \in Nat
  BY <1>1, <1>4 DEF Balanced
<1>6. Balanced([c \in Counters |-> count[c] + plus(c)])
  <2>. DEFINE after == [c \in Counters |-> count[c] + plus(c)]
  <2>1. after \in [Counters -> Nat]
    BY <1>5
  <2>2. \A c \in Counters : after[c] = count[c] + plus(c)
    OBVIOUS
  <2>. HIDE DEF after
  <2>3. /\ after.issued = count.issued + plus("issued")
        /\ after.successes = count.successes + plus("successes")
        /\ after.httpFailures = count.httpFailures + plus("httpFailures")
        /\ after.transportErrors = count.transportErrors + plus("transportErrors")
        /\ after.cancelled = count.cancelled + plus("cancelled")
        /\ after.goodput = count.goodput + plus("goodput")
    BY <2>2 DEF Counters
  <2>4. \A c \in {"issued", "successes", "httpFailures", "transportErrors", "cancelled", "goodput"} :
          count[c] \in Nat /\ plus(c) \in {0, 1}
    BY <1>4, <1>5 DEF Counters
  <2>5. /\ after.issued = after.successes + after.httpFailures + after.transportErrors + after.cancelled
        /\ after.goodput <= after.successes
    BY <1>1, <1>3, <2>3, <2>4 DEF Balanced
  <2>. QED  BY <2>1, <2>5 DEF Balanced, after
<1>7. ASSUME NEW j \in Shards PROVE Balanced(books'[j].count)
  <2>1. CASE j = i
    BY <1>2, <1>6, <2>1
  <2>2. CASE j # i
    BY <1>2, <2>2 DEF AccountsInv, BooksBalance
  <2>. QED  BY <2>1, <2>2
<1>. QED  BY <1>7 DEF BooksBalance

LEMMA AttemptKeepsAccounts ==
  ASSUME AccountsInv, NEW i \in Shards, NEW outcome \in Outcomes, NEW latency,
         Attempt(i, outcome, latency)
  PROVE  AccountsInv'
<1>1. BooksBalance'
  BY AttemptBalances
<1>2. /\ DOMAIN books' = Shards /\ result' = result /\ merged' = merged /\ result[i] = Missing
      /\ \A j \in Shards \ {i} : books'[j] = books[j]
  BY DEF Attempt, AccountsInv
<1>3. ResultsAreTheBooks'
  BY <1>2 DEF AccountsInv, ResultsAreTheBooks, Missing
<1>4. MergedIsTheSum'
  BY <1>2 DEF AccountsInv, MergedIsTheSum, Missing
<1>. QED  BY <1>1, <1>2, <1>3, <1>4 DEF AccountsInv

LEMMA TotalIsSigma ==
  ASSUME NEW results, NEW c
  PROVE  LET E == IF c = "goodput" THEN {i \in Shards : results[i].count.successes > 0} ELSE Shards
         IN  Total(c, results) = Sigma([i \in E |-> results[i].count[c]], E)
<1>. DEFINE E == IF c = "goodput" THEN {i \in Shards : results[i].count.successes > 0} ELSE Shards
<1>1. Total(c, results) = MapThenSumSet(LAMBDA i : results[i].count[c], E)
  BY DEF Total
<1>. HIDE DEF E
<1>2. MapThenSumSet(LAMBDA i : results[i].count[c], E) = Sigma([i \in E |-> results[i].count[c]], E)
  BY SumOfCounter
<1>. QED  BY <1>1, <1>2 DEF E

\* What CompleteShard adds up for a counter is the sum of the books.
LEMMA TotalIsTally ==
  ASSUME BooksBalance, NEW results, \A i \in Shards : results[i].count = books[i].count,
         NEW c \in Counters
  PROVE  Total(c, results) = Sigma(Tally(c), Shards)
<1>. DEFINE E == IF c = "goodput" THEN {i \in Shards : results[i].count.successes > 0} ELSE Shards
            g == [i \in E |-> results[i].count[c]]
<1>1. Total(c, results) = Sigma(g, E)
  BY TotalIsSigma
<1>2. \A i \in Shards : books[i].count[c] \in Nat
  BY DEF BooksBalance, Balanced
<1>3. Tally(c) \in [Shards -> Nat] /\ \A i \in Shards : Tally(c)[i] = books[i].count[c]
  BY <1>2 DEF Tally
<1>4. E \in SUBSET Shards
  OBVIOUS
<1>5. \A i \in Shards \ E : Tally(c)[i] = 0
  <2>1. SUFFICES ASSUME NEW i \in Shards \ E PROVE Tally(c)[i] = 0
    OBVIOUS
  <2>2. c = "goodput" /\ ~(results[i].count.successes > 0)
    OBVIOUS
  <2>3. Balanced(books[i].count) /\ results[i].count = books[i].count
    BY DEF BooksBalance
  <2>4. books[i].count.successes \in Nat /\ books[i].count.goodput \in Nat
    BY <2>3 DEF Balanced, Counters
  <2>5. books[i].count.goodput = 0
    BY <2>2, <2>3, <2>4 DEF Balanced
  <2>. QED  BY <1>3, <2>2, <2>5
<1>. HIDE DEF E
<1>6. g \in [E -> Nat] /\ \A i \in E : g[i] = Tally(c)[i]
  BY <1>2, <1>3, <1>4
<1>. HIDE DEF g
<1>7. Sigma(g, E) = Sigma(Tally(c), Shards)
  BY <1>3, <1>4, <1>5, <1>6, ShardsFinite, SigmaOfPart
<1>. QED  BY <1>1, <1>7

LEMMA PostKeepsAccounts ==
  ASSUME AccountsInv, NEW i \in Shards, Post(i)
  PROVE  AccountsInv'
<1>. DEFINE results == [result EXCEPT ![i] = ResultOf(i)]
<1>1. books' = books /\ result[i] = Missing /\ DOMAIN result = Shards
  BY DEF Post, AccountsInv, ResultsAreTheBooks
<1>2. DOMAIN books' = Shards /\ BooksBalance'
  BY <1>1 DEF AccountsInv, BooksBalance
<1>3. /\ {"posted", "count"} \subseteq DOMAIN ResultOf(i)
      /\ ResultOf(i).posted = TRUE /\ ResultOf(i).count = books[i].count
  BY DEF ResultOf
<1>4. /\ DOMAIN results = Shards /\ results[i] = ResultOf(i)
      /\ \A j \in Shards \ {i} : results[j] = result[j]
  BY <1>1
<1>. HIDE DEF results
<1>5. \A j \in Shards : results[j] # Missing =>
        /\ {"posted", "count"} \subseteq DOMAIN results[j]
        /\ results[j].posted = TRUE /\ results[j].count = books[j].count
  BY <1>3, <1>4 DEF AccountsInv, ResultsAreTheBooks
<1>6. CASE \E j \in Shards : results[j] = Missing
  <2>1. result' = results /\ merged' = merged
    BY <1>6 DEF Post, results
  <2>2. ResultsAreTheBooks'
    BY <1>1, <1>4, <1>5, <2>1 DEF ResultsAreTheBooks
  <2>3. ~merged.posted
    BY <1>1 DEF AccountsInv, MergedIsTheSum
  <2>4. MergedIsTheSum'
    BY <2>1, <2>3 DEF MergedIsTheSum
  <2>. QED  BY <1>2, <2>2, <2>4 DEF AccountsInv
<1>7. CASE \A j \in Shards : results[j] # Missing
  <2>1. PICK order : merged' = Merge(order, results)
    BY <1>7 DEF Post, results
  <2>2. result' = [j \in Shards |-> [results[j] EXCEPT !.samples = << >>]]
    BY <1>7 DEF Post, results
  <2>3. ASSUME NEW j \in Shards
        PROVE  /\ {"posted", "count"} \subseteq DOMAIN result'[j]
               /\ result'[j].posted = TRUE /\ result'[j].count = books[j].count
    <3>1. /\ {"posted", "count"} \subseteq DOMAIN results[j]
          /\ results[j].posted = TRUE /\ results[j].count = books[j].count
      BY <1>5, <1>7
    <3>2. result'[j] = [results[j] EXCEPT !.samples = << >>]
      BY <2>2
    <3>. QED  BY <3>1, <3>2
  <2>4. ResultsAreTheBooks'
    BY <1>1, <2>2, <2>3 DEF ResultsAreTheBooks
  <2>5. \A j \in Shards : result'[j] # Missing
    BY <2>3 DEF Missing
  <2>6. merged'.count = [c \in Counters |-> IF c \in Summed THEN Total(c, results) ELSE 0]
    BY <2>1 DEF Merge
  <2>7. ASSUME NEW c \in Summed PROVE merged'.count[c] = Sigma(Tally(c), Shards)
    <3>1. c \in Counters /\ merged'.count[c] = Total(c, results)
      BY <2>6 DEF Summed
    <3>2. Total(c, results) = Sigma(Tally(c), Shards)
      BY <1>5, <1>7, <3>1, TotalIsTally DEF AccountsInv
    <3>. QED  BY <3>1, <3>2
  <2>8. \A c : Tally(c)' = Tally(c)
    BY <1>1 DEF Tally
  <2>9. MergedIsTheSum'
    BY <2>5, <2>7, <2>8 DEF MergedIsTheSum
  <2>. QED  BY <1>2, <2>4, <2>9 DEF AccountsInv
<1>. QED  BY <1>6, <1>7

LEMMA NextKeepsAccounts == AccountsInv /\ [Next]_vars => AccountsInv'
<1>. SUFFICES ASSUME AccountsInv, [Next]_vars PROVE AccountsInv'
  OBVIOUS
<1>1. ASSUME NEW i \in Shards, NEW latency \in Latencies, Attempt(i, "success", latency)
      PROVE  AccountsInv'
  BY <1>1, AttemptKeepsAccounts DEF Outcomes
<1>2. ASSUME NEW i \in Shards, NEW outcome \in Outcomes \ {"success"}, Attempt(i, outcome, 0)
      PROVE  AccountsInv'
  BY <1>2, AttemptKeepsAccounts
<1>3. ASSUME NEW i \in Shards, Post(i) PROVE AccountsInv'
  BY <1>3, PostKeepsAccounts
<1>4. CASE UNCHANGED vars
  <2>1. books' = books /\ result' = result /\ merged' = merged
    BY <1>4 DEF vars
  <2>2. \A c : Tally(c)' = Tally(c)
    BY <2>1 DEF Tally
  <2>3. MergedIsTheSum'
    BY <2>1, <2>2 DEF AccountsInv, MergedIsTheSum
  <2>. QED  BY <2>1, <2>3 DEF AccountsInv, BooksBalance, ResultsAreTheBooks
<1>. QED  BY <1>1, <1>2, <1>3, <1>4 DEF Next

LEMMA AccountsAddUp == AccountsInv => RunAccountsForAttempts
<1>. SUFFICES ASSUME AccountsInv, merged.posted
              PROVE  LET c == merged.count
                     IN  /\ c.issued = Attempts
                         /\ c.issued = c.successes + c.httpFailures + c.transportErrors + c.cancelled
                         /\ c.goodput = MapThenSumSet(LAMBDA i : books[i].count.goodput, Shards)
  BY DEF RunAccountsForAttempts
<1>. DEFINE T(c) == Sigma(Tally(c), Shards)
            two == [i \in Shards |-> Tally("successes")[i] + Tally("httpFailures")[i]]
            three == [i \in Shards |-> two[i] + Tally("transportErrors")[i]]
<1>1. \A c \in Counters : Tally(c) \in [Shards -> Nat] /\ \A i \in Shards : Tally(c)[i] = books[i].count[c]
  BY DEF AccountsInv, BooksBalance, Balanced, Tally
<1>2. /\ merged.count.issued = T("issued") /\ merged.count.successes = T("successes")
      /\ merged.count.httpFailures = T("httpFailures")
      /\ merged.count.transportErrors = T("transportErrors")
      /\ merged.count.cancelled = T("cancelled") /\ merged.count.goodput = T("goodput")
  BY DEF AccountsInv, MergedIsTheSum, Summed, Counters
<1>3. /\ Tally("issued") \in [Shards -> Nat] /\ Tally("successes") \in [Shards -> Nat]
      /\ Tally("httpFailures") \in [Shards -> Nat] /\ Tally("transportErrors") \in [Shards -> Nat]
      /\ Tally("cancelled") \in [Shards -> Nat]
  BY <1>1 DEF Counters
<1>4. /\ two \in [Shards -> Nat] /\ three \in [Shards -> Nat]
      /\ \A i \in Shards : Tally("issued")[i] = three[i] + Tally("cancelled")[i]
  <2>1. ASSUME NEW i \in Shards
        PROVE  Tally("issued")[i] = Tally("successes")[i] + Tally("httpFailures")[i]
                                      + Tally("transportErrors")[i] + Tally("cancelled")[i]
    BY <1>1 DEF AccountsInv, BooksBalance, Balanced, Counters
  <2>. QED  BY <1>3, <2>1
<1>5. /\ \A i \in Shards : two[i] = Tally("successes")[i] + Tally("httpFailures")[i]
      /\ \A i \in Shards : three[i] = two[i] + Tally("transportErrors")[i]
  OBVIOUS
<1>. HIDE DEF two, three
<1>6. Sigma(two, Shards) = T("successes") + T("httpFailures")
  <2>. DEFINE f == Tally("successes")
              g == Tally("httpFailures")
  <2>1. f \in [Shards -> Nat] /\ g \in [Shards -> Nat] /\ \A i \in Shards : two[i] = f[i] + g[i]
    BY <1>3, <1>5
  <2>. HIDE DEF f, g
  <2>2. Sigma(two, Shards) = Sigma(f, Shards) + Sigma(g, Shards)
    BY <1>4, <2>1, ShardsFinite, SigmaAdds
  <2>. QED  BY <2>2 DEF f, g
<1>7. Sigma(three, Shards) = Sigma(two, Shards) + T("transportErrors")
  <2>. DEFINE g == Tally("transportErrors")
  <2>1. g \in [Shards -> Nat] /\ \A i \in Shards : three[i] = two[i] + g[i]
    BY <1>3, <1>5
  <2>. HIDE DEF g
  <2>2. Sigma(three, Shards) = Sigma(two, Shards) + Sigma(g, Shards)
    BY <1>4, <2>1, ShardsFinite, SigmaAdds
  <2>. QED  BY <2>2 DEF g
<1>8. T("issued") = Sigma(three, Shards) + T("cancelled")
  BY <1>3, <1>4, ShardsFinite, SigmaAdds
<1>9. Attempts = T("issued")
  <2>1. MapThenSumSet(LAMBDA i : books[i].count["issued"], Shards) = T("issued")
    BY SumOfCounter DEF Tally
  <2>. QED  BY <2>1 DEF Attempts
<1>10. MapThenSumSet(LAMBDA i : books[i].count.goodput, Shards) = T("goodput")
  <2>1. MapThenSumSet(LAMBDA i : books[i].count["goodput"], Shards) = T("goodput")
    BY SumOfCounter DEF Tally
  <2>. QED  BY <2>1
<1>. QED  BY <1>2, <1>6, <1>7, <1>8, <1>9, <1>10

(***************************************************************************)
(* CompleteShard loses no attempt: the counters of a completed run account *)
(* for every attempt of every shard, however many shards there are, though *)
(* the goodput of shards without a success is left out of the sum.         *)
(***************************************************************************)
THEOREM CompletedRunsAccountForAttempts == Spec => []RunAccountsForAttempts
<1>1. Spec => []AccountsInv
  BY InitAccounts, NextKeepsAccounts, PTL DEF Spec
<1>. QED  BY <1>1, AccountsAddUp, PTL

-----------------------------------------------------------------------------
(***************************************************************************)
(* More about sums: of two parts, of the same numbers in another place,    *)
(* and of numbers that are bounded one by one.                             *)
(***************************************************************************)
LEMMA SigmaJoins ==
  ASSUME NEW A, NEW B, IsFiniteSet(A), IsFiniteSet(B), A \cap B = {}
  PROVE  \A f \in [A \cup B -> Nat], a \in [A -> Nat], b \in [B -> Nat] :
           (\A i \in A : f[i] = a[i]) /\ (\A i \in B : f[i] = b[i])
             => Sigma(f, A \cup B) = Sigma(a, A) + Sigma(b, B)
<1>. SUFFICES ASSUME NEW f \in [A \cup B -> Nat], NEW a \in [A -> Nat], NEW b \in [B -> Nat],
                     \A i \in A : f[i] = a[i], \A i \in B : f[i] = b[i]
              PROVE  Sigma(f, A \cup B) = Sigma(a, A) + Sigma(b, B)
  OBVIOUS
<1>1. IsFiniteSet(A \cup B)
  BY FS_Union
<1>2. IsFiniteSet(Units(a, A)) /\ IsFiniteSet(Units(b, B))
  BY UnitsFinite
<1>3. Units(f, A \cup B) = Units(a, A) \cup Units(b, B)
  BY DEF Units
<1>4. Units(a, A) \cap Units(b, B) = {}
  BY DEF Units
<1>5. Cardinality(Units(a, A) \cup Units(b, B))
        = Cardinality(Units(a, A)) + Cardinality(Units(b, B)) - 0
  BY <1>2, <1>4, FS_Union, FS_EmptySet
<1>6. Sigma(f, A \cup B) = Cardinality(Units(f, A \cup B))
  BY <1>1, SigmaCounts
<1>7. /\ Sigma(a, A) = Cardinality(Units(a, A)) /\ Sigma(a, A) \in Nat
      /\ Sigma(b, B) = Cardinality(Units(b, B)) /\ Sigma(b, B) \in Nat
  BY SigmaCounts
<1>8. Sigma(f, A \cup B) = Sigma(a, A) + Sigma(b, B) - 0
  BY <1>3, <1>5, <1>6, <1>7, Zenon
<1>. QED  BY <1>7, <1>8

LEMMA SigmaOfOne ==
  ASSUME NEW x, NEW f \in [{x} -> Nat]
  PROVE  Sigma(f, {x}) = f[x]
<1>1. IsFiniteSet({x})
  BY FS_Singleton
<1>2. Sigma(f, {x}) = Cardinality(Units(f, {x}))
  BY <1>1, SigmaCounts
<1>3. Units(f, {x}) = Column(f, x)
  BY DEF Units, Column
<1>4. \A s \in SUBSET {x} : \A y \in s : Cardinality(Column(f, y)) = f[y]
  BY UnitsOfOneLess
<1>5. Cardinality(Column(f, x)) = f[x]
  BY <1>4
<1>. QED  BY <1>2, <1>3, <1>5

LEMMA SigmaOfNone == \A f : Sigma(f, {}) = 0
<1>. SUFFICES ASSUME NEW f PROVE Sigma(f, {}) = 0
  OBVIOUS
<1>1. Totals([s \in SUBSET {} |-> 0], f, {})
  BY DEF Totals
<1>2. IsFiniteSet({})
  BY FS_EmptySet
<1>3. Sigma(f, {}) = [s \in SUBSET {} |-> 0][{}]
  BY <1>1, <1>2, SigmaOf
<1>. QED  BY <1>3

\* g has the numbers of f in other places.
Moved(g, D, f, E) == \E b \in Bijection(D, E) : \A i \in D : g[i] = f[b[i]]

LEMMA SigmaMoves ==
  ASSUME NEW D, NEW E, IsFiniteSet(D)
  PROVE  \A f \in [E -> Nat], g \in [D -> Nat] : Moved(g, D, f, E) => Sigma(g, D) = Sigma(f, E)
<1>. SUFFICES ASSUME NEW b \in Bijection(D, E), NEW f \in [E -> Nat], NEW g \in [D -> Nat],
                     \A i \in D : g[i] = f[b[i]]
              PROVE  Sigma(g, D) = Sigma(f, E)
  BY DEF Moved
<1>. DEFINE move == [u \in Units(g, D) |-> <<b[u[1]], u[2]>>]
<1>1. /\ b \in [D -> E] /\ \A i, j \in D : b[i] = b[j] => i = j
      /\ \A e \in E : \E i \in D : b[i] = e
  BY DEF Bijection, Injection, Surjection, IsInjective
<1>2. IsFiniteSet(E)
  <2>1. ExistsBijection(D, E)
    BY DEF ExistsBijection
  <2>. QED  BY <2>1, FS_Bijection
<1>3. \A u \in Units(g, D) : /\ u[1] \in D /\ u[2] \in 1 .. g[u[1]] /\ u = <<u[1], u[2]>>
                             /\ move[u] = <<b[u[1]], u[2]>> /\ move[u] \in Units(f, E)
  BY <1>1 DEF Units
<1>4. ASSUME NEW v \in Units(f, E) PROVE \E u \in Units(g, D) : move[u] = v
  <2>1. v[1] \in E /\ v[2] \in Nat /\ v[2] \in 1 .. f[v[1]] /\ v = <<v[1], v[2]>>
    BY DEF Units
  <2>2. PICK i \in D : b[i] = v[1]
    BY <1>1, <2>1
  <2>3. <<i, v[2]>> \in Units(g, D)
    BY <2>1, <2>2 DEF Units
  <2>4. move[<<i, v[2]>>] = v
    BY <2>1, <2>2, <2>3
  <2>. QED  BY <2>3, <2>4
<1>5. ASSUME NEW u \in Units(g, D), NEW v \in Units(g, D), move[u] = move[v] PROVE u = v
  <2>. HIDE DEF move
  <2>1. b[u[1]] = b[v[1]] /\ u[2] = v[2]
    BY <1>3, <1>5
  <2>. QED  BY <1>1, <1>3, <2>1
<1>6. DOMAIN move = Units(g, D) /\ move \in [Units(g, D) -> Units(f, E)]
  BY <1>3
<1>. HIDE DEF move
<1>7. move \in Bijection(Units(g, D), Units(f, E))
  BY <1>4, <1>5, <1>6 DEF Bijection, Injection, Surjection, IsInjective
<1>8. ExistsBijection(Units(g, D), Units(f, E)) /\ IsFiniteSet(Units(g, D))
  BY <1>7, UnitsFinite DEF ExistsBijection
<1>9. Cardinality(Units(f, E)) = Cardinality(Units(g, D))
  BY <1>8, FS_Bijection
<1>. QED  BY <1>2, <1>9, SigmaCounts

\* Numbers that are bounded one by one by multiples of others.
LEMMA SigmaScales ==
  ASSUME NEW D, IsFiniteSet(D), NEW f \in [D -> Nat], NEW h \in [D -> Nat], NEW n \in Nat,
         \A i \in D : h[i] = n * f[i]
  PROVE  Sigma(h, D) = n * Sigma(f, D)
<1>. DEFINE F(s) == Cardinality(Units(f, s))
            sum  == [s \in SUBSET D |-> n * F(s)]
<1>1. sum[{}] = 0
  BY NoUnits
<1>2. ASSUME NEW s \in (SUBSET D) \ {{}} PROVE sum[s] = h[AnyOf(s)] + sum[s \ {AnyOf(s)}]
  <2>. DEFINE x    == AnyOf(s)
              rest == s \ {x}
  <2>0. \A t \in (SUBSET D) \ {{}} :
           /\ AnyOf(t) \in D /\ f[AnyOf(t)] \in Nat
           /\ t \ {AnyOf(t)} \in SUBSET D /\ F(t \ {AnyOf(t)}) \in Nat
           /\ F(t) = f[AnyOf(t)] + F(t \ {AnyOf(t)})
    BY UnitsStep
  <2>1. /\ x \in D /\ f[x] \in Nat /\ rest \in SUBSET D /\ F(rest) \in Nat
        /\ F(s) = f[x] + F(rest)
    <3>. HIDE DEF sum, F
    <3>. QED  BY <2>0
  <2>2. h[x] = n * f[x]
    BY <2>1
  <2>3. sum[s] = n * F(s) /\ sum[rest] = n * F(rest)
    BY <2>1
  <2>. HIDE DEF F, sum, x, rest
  <2>4. n * (f[x] + F(rest)) = n * f[x] + n * F(rest)
    BY <2>1
  <2>5. sum[s] = h[x] + sum[rest]
    BY <2>1, <2>2, <2>3, <2>4
  <2>. QED  BY <2>5 DEF x, rest
<1>3. sum[D] = n * F(D)
  OBVIOUS
<1>4. Totals(sum, h, D)
  <2>. HIDE DEF sum
  <2>. QED  BY <1>1, <1>2 DEF Totals
<1>. HIDE DEF F, sum
<1>5. Sigma(h, D) = sum[D]
  BY <1>4, SigmaOf
<1>6. Sigma(f, D) = F(D)
  BY SigmaCounts DEF F
<1>. QED  BY <1>3, <1>5, <1>6

LEMMA SigmaAtMost ==
  ASSUME NEW D, IsFiniteSet(D), NEW f \in [D -> Nat], NEW g \in [D -> Nat],
         NEW m \in Nat, NEW n \in Nat, \A i \in D : m * f[i] <= n * g[i]
  PROVE  m * Sigma(f, D) <= n * Sigma(g, D)
<1>. DEFINE mf   == [i \in D |-> m * f[i]]
            ng   == [i \in D |-> n * g[i]]
            rest == [i \in D |-> ng[i] - mf[i]]
<1>1. mf \in [D -> Nat] /\ ng \in [D -> Nat] /\ \A i \in D : mf[i] = m * f[i] /\ ng[i] = n * g[i]
  OBVIOUS
<1>2. rest \in [D -> Nat] /\ \A i \in D : ng[i] = mf[i] + rest[i]
  <2>. HIDE DEF mf, ng
  <2>. QED  BY <1>1
<1>. HIDE DEF mf, ng, rest
<1>3. Sigma(ng, D) = Sigma(mf, D) + Sigma(rest, D)
  BY <1>1, <1>2, SigmaAdds
<1>4. Sigma(mf, D) = m * Sigma(f, D) /\ Sigma(ng, D) = n * Sigma(g, D)
  BY <1>1, SigmaScales
<1>5. Sigma(mf, D) \in Nat /\ Sigma(rest, D) \in Nat
  BY <1>1, <1>2, SigmaCounts
<1>. QED  BY <1>3, <1>4, <1>5

-----------------------------------------------------------------------------
(***************************************************************************)
(* Loops.  A fold over 1 .. n takes the last element last: it is a loop    *)
(* with the state it[1 .. k] after k rounds.  That a function with these   *)
(* states exists, for all parts of 1 .. n, follows by their size.          *)
(***************************************************************************)
LEMMA Inductive ==
  ASSUME NEW G, 0 \in G, \A n \in Nat : n \in G => n + 1 \in G
  PROVE  \A n \in Nat : n \in G
<1>. DEFINE Missed == Nat \ G
<1>1. SUFFICES ASSUME Missed # {} PROVE FALSE
  OBVIOUS
<1>2. PICK m \in Missed : \A n \in Missed : m <= n
  BY <1>1, LeastNat
<1>3. m # 0 /\ m - 1 \in Nat
  BY <1>2
<1>4. m - 1 \in G
  BY <1>2, <1>3
<1>5. (m - 1) + 1 = m
  BY <1>2
<1>. QED  BY <1>2, <1>3, <1>4, <1>5

LEMMA MaxOfInterval == \A n \in Nat \ {0} : Max(1 .. n) = n
<1>. SUFFICES ASSUME NEW n \in Nat \ {0} PROVE Max(1 .. n) = n
  OBVIOUS
<1>1. n \in 1 .. n /\ \A x \in 1 .. n : n >= x
  OBVIOUS
<1>2. \A y \in 1 .. n : (\A x \in 1 .. n : y >= x) => y = n
  BY <1>1
<1>. QED  BY <1>1, <1>2 DEF Max

LEMMA MaxOfPart ==
  ASSUME NEW n \in Nat, NEW s \in SUBSET (1 .. n), s # {}
  PROVE  Max(s) \in s
<1>. DEFINE G == {k \in Nat : \A t \in SUBSET (1 .. k) :
                                t # {} => \E m \in t : \A x \in t : m >= x}
<1>1. 0 \in G
  <2>1. 1 .. 0 = {}
    OBVIOUS
  <2>. QED  BY <2>1
<1>2. ASSUME NEW k \in Nat, k \in G PROVE k + 1 \in G
  <2>1. SUFFICES ASSUME NEW t \in SUBSET (1 .. k + 1), t # {}
                 PROVE  \E m \in t : \A x \in t : m >= x
    OBVIOUS
  <2>2. CASE k + 1 \in t
    <3>1. \A x \in t : k + 1 >= x
      OBVIOUS
    <3>. QED  BY <2>2, <3>1
  <2>3. CASE k + 1 \notin t
    <3>1. \A x \in t : x \in 1 .. k
      BY <2>3
    <3>. QED  BY <1>2, <2>1, <3>1
  <2>. QED  BY <2>2, <2>3
<1>. HIDE DEF G
<1>3. n \in G
  BY <1>1, <1>2, Inductive
<1>4. \E m \in s : \A x \in s : m >= x
  BY <1>3 DEF G
<1>. QED  BY <1>4 DEF Max

\* it has the state of the loop for every part of S.
Folds(it, S, base, h) ==
  \A s \in SUBSET S : it[s] = IF s = {} THEN base ELSE h[<<Max(s), it[s \ {Max(s)}]>>]

LEMMA FoldExists ==
  ASSUME NEW n \in Nat, NEW V, NEW base \in V, NEW h \in [(1 .. n) \X V -> V]
  PROVE  \E it \in [SUBSET (1 .. n) -> V] : Folds(it, 1 .. n, base, h)
<1>. DEFINE S == 1 .. n
            Small(s, k) == Cardinality(s) <= k
            State(it, s) == IF s = {} THEN base ELSE h[<<Max(s), it[s \ {Max(s)}]>>]
            UpTo(it, k) == \A s \in SUBSET S : Small(s, k) => it[s] = State(it, s)
            G == {k \in Nat : \E it \in [SUBSET S -> V] : UpTo(it, k)}
<1>0. IsFiniteSet(S) /\ Cardinality(S) \in Nat
  BY FS_Interval, FS_CardinalityType
<1>1. \A s \in SUBSET S : Cardinality(s) \in Nat /\ Cardinality(s) <= Cardinality(S)
  BY <1>0, FS_Subset, FS_CardinalityType
<1>2. \A s \in SUBSET S : s # {} => /\ Max(s) \in S /\ s \ {Max(s)} \in SUBSET S
                                    /\ Cardinality(s \ {Max(s)}) = Cardinality(s) - 1
  <2>1. \A s \in SUBSET S : IsFiniteSet(s)
    BY <1>0, FS_Subset
  <2>2. \A s \in SUBSET S : s # {} => Max(s) \in s
    BY MaxOfPart
  <2>3. ASSUME NEW s \in SUBSET S, s # {} PROVE Cardinality(s \ {Max(s)}) = Cardinality(s) - 1
    BY <2>1, <2>2, <2>3, FS_RemoveElement
  <2>. QED  BY <2>2, <2>3
<1>3. \A s \in SUBSET S : Cardinality(s) = 0 => s = {}
  BY <1>0, FS_Subset, FS_EmptySet
<1>. HIDE DEF S
<1>4. 0 \in G
  <2>. DEFINE it == [s \in SUBSET S |-> base]
  <2>1. it \in [SUBSET S -> V]
    OBVIOUS
  <2>2. \A s \in SUBSET S : Small(s, 0) => s = {}
    BY <1>1, <1>3
  <2>3. UpTo(it, 0)
    BY <2>2
  <2>. QED  BY <2>1, <2>3
<1>5. ASSUME NEW k \in Nat, k \in G PROVE k + 1 \in G
  <2>1. PICK it \in [SUBSET S -> V] : UpTo(it, k)
    BY <1>5
  <2>. DEFINE next == [s \in SUBSET S |-> State(it, s)]
  <2>2. ASSUME NEW s \in SUBSET S PROVE State(it, s) \in V
    <3>1. CASE s = {}
      BY <3>1
    <3>2. CASE s # {}
      <4>1. <<Max(s), it[s \ {Max(s)}]>> \in S \X V
        BY <1>2, <3>2
      <4>. QED  BY <3>2, <4>1 DEF S
    <3>. QED  BY <3>1, <3>2
  <2>3. next \in [SUBSET S -> V]
    <3>. HIDE DEF State
    <3>. QED  BY <2>2
  <2>4. ASSUME NEW s \in SUBSET S, Small(s, k + 1) PROVE next[s] = State(next, s)
    <3>1. CASE s = {}
      BY <3>1
    <3>2. CASE s # {}
      <4>. DEFINE t == s \ {Max(s)}
      <4>1. t \in SUBSET S /\ Small(t, k)
        BY <1>1, <1>2, <2>4, <3>2
      <4>2. it[t] = State(it, t)
        BY <2>1, <4>1
      <4>3. next[t] = State(it, t)
        BY <4>1
      <4>4. next[s] = State(it, s)
        OBVIOUS
      <4>5. next[t] = it[t]
        BY <4>2, <4>3
      <4>. HIDE DEF next
      <4>6. State(it, s) = h[<<Max(s), it[t]>>] /\ State(next, s) = h[<<Max(s), next[t]>>]
        BY <3>2
      <4>. QED  BY <4>4, <4>5, <4>6
    <3>. QED  BY <3>1, <3>2
  <2>. HIDE DEF next, State
  <2>. QED  BY <2>3, <2>4
<1>. HIDE DEF G
<1>6. Cardinality(S) \in G
  BY <1>0, <1>4, <1>5, Inductive
<1>. QED  BY <1>1, <1>6 DEF G, Folds, S

\* The states of the loop, round by round.
LEMMA LoopOfFold ==
  ASSUME NEW n \in Nat, NEW it, NEW base, NEW h, Folds(it, 1 .. n, base, h)
  PROVE  /\ it[1 .. 0] = base
         /\ \A k \in 1 .. n : it[1 .. k] = h[<<k, it[1 .. (k - 1)]>>]
<1>1. 1 .. 0 = {}
  OBVIOUS
<1>2. ASSUME NEW k \in 1 .. n PROVE it[1 .. k] = h[<<k, it[1 .. (k - 1)]>>]
  <2>1. 1 .. k \in SUBSET (1 .. n) /\ 1 .. k # {}
    <3>1. k \in 1 .. k /\ \A x \in 1 .. k : x \in 1 .. n
      OBVIOUS
    <3>. QED  BY <3>1
  <2>2. Max(1 .. k) = k
    BY MaxOfInterval
  <2>3. (1 .. k) \ {k} = 1 .. (k - 1)
    OBVIOUS
  <2>. QED  BY <2>1, <2>2, <2>3 DEF Folds
<1>. QED  BY <1>1, <1>2 DEF Folds

IsLoop(f, n, base, h) == f[0] = base /\ \A k \in 1 .. n : f[k] = h[<<k, f[k - 1]>>]

LEMMA LoopExists ==
  ASSUME NEW n \in Nat, NEW V, NEW base \in V, NEW h \in [(1 .. n) \X V -> V]
  PROVE  \E f \in [0 .. n -> V] : IsLoop(f, n, base, h)
<1>1. PICK it \in [SUBSET (1 .. n) -> V] : Folds(it, 1 .. n, base, h)
  BY FoldExists
<1>. DEFINE f == [k \in 0 .. n |-> it[1 .. k]]
<1>2. f \in [0 .. n -> V]
  <2>1. ASSUME NEW k \in 0 .. n PROVE it[1 .. k] \in V
    <3>1. \A x \in 1 .. k : x \in 1 .. n
      OBVIOUS
    <3>2. 1 .. k \in SUBSET (1 .. n)
      BY <3>1
    <3>. QED  BY <3>2
  <2>. QED  BY <2>1
<1>3. it[1 .. 0] = base /\ \A k \in 1 .. n : it[1 .. k] = h[<<k, it[1 .. (k - 1)]>>]
  BY <1>1, LoopOfFold
<1>4. f[0] = base /\ \A k \in 1 .. n : f[k] = h[<<k, f[k - 1]>>]
  <2>1. \A k \in 1 .. n : k \in 0 .. n /\ k - 1 \in 0 .. n
    OBVIOUS
  <2>. QED  BY <1>3, <2>1
<1>. QED  BY <1>2, <1>4 DEF IsLoop

-----------------------------------------------------------------------------
(***************************************************************************)
(* Weights of sequences: the sum of w over the elements.  Length, sum and  *)
(* the number of elements up to a bound are weights; a weight does not     *)
(* depend on the order of the elements.                                    *)
(***************************************************************************)
Weigh(s, w) == Sigma([k \in DOMAIN s |-> w[s[k]]], DOMAIN s)

LEMMA SeqFacts ==
  ASSUME NEW s \in Seq(Nat)
  PROVE  /\ Len(s) \in Nat /\ DOMAIN s = 1 .. Len(s) /\ IsFiniteSet(DOMAIN s)
         /\ \A k \in DOMAIN s : s[k] \in Nat
         /\ \A w \in [Nat -> Nat] : [k \in DOMAIN s |-> w[s[k]]] \in [DOMAIN s -> Nat]
<1>1. Len(s) \in Nat /\ DOMAIN s = 1 .. Len(s) /\ \A k \in DOMAIN s : s[k] \in Nat
  OBVIOUS
<1>2. IsFiniteSet(DOMAIN s)
  BY <1>1, FS_Interval
<1>. QED  BY <1>1, <1>2

LEMMA WeighType ==
  ASSUME NEW s \in Seq(Nat), NEW w \in [Nat -> Nat]
  PROVE  Weigh(s, w) \in Nat
BY SeqFacts, SigmaCounts DEF Weigh

LEMMA WeighMoves ==
  ASSUME NEW s \in Seq(Nat), NEW t \in Seq(Nat), NEW b \in Bijection(DOMAIN t, DOMAIN s),
         \A k \in DOMAIN t : t[k] = s[b[k]], NEW w \in [Nat -> Nat]
  PROVE  Weigh(t, w) = Weigh(s, w)
<1>. DEFINE D == DOMAIN t
            E == DOMAIN s
            g == [k \in D |-> w[t[k]]]
            f == [k \in E |-> w[s[k]]]
<1>1. IsFiniteSet(D) /\ g \in [D -> Nat] /\ f \in [E -> Nat]
  BY SeqFacts
<1>2. \A k \in D : b[k] \in E
  BY DEF Bijection, Injection
<1>3. \A k \in D : g[k] = f[b[k]]
  BY <1>2
<1>4. Moved(g, D, f, E)
  BY <1>3 DEF Moved
<1>. HIDE DEF D, E, f, g
<1>5. Sigma(g, D) = Sigma(f, E)
  <2>1. \A F \in [E -> Nat], G \in [D -> Nat] : Moved(G, D, F, E) => Sigma(G, D) = Sigma(F, E)
    BY <1>1, SigmaMoves
  <2>. QED  BY <1>1, <1>4, <2>1
<1>. QED  BY <1>5 DEF Weigh, D, E, f, g

LEMMA WeighConcat ==
  ASSUME NEW s \in Seq(Nat), NEW t \in Seq(Nat), NEW w \in [Nat -> Nat]
  PROVE  Weigh(s \o t, w) = Weigh(s, w) + Weigh(t, w)
<1>. DEFINE m == Len(s)
            n == Len(t)
            A == 1 .. m
            B == m + 1 .. m + n
            C == 1 .. n
            f == [k \in DOMAIN (s \o t) |-> w[(s \o t)[k]]]
            a == [k \in A |-> w[s[k]]]
            b == [k \in B |-> w[t[k - m]]]
            c == [k \in C |-> w[t[k]]]
            up == [k \in C |-> k + m]
<1>1. m \in Nat /\ n \in Nat /\ DOMAIN s = A /\ DOMAIN t = C
  BY SeqFacts
<1>2. s \o t \in Seq(Nat) /\ Len(s \o t) = m + n
  BY ConcatProperties
<1>3. DOMAIN (s \o t) = A \cup B /\ A \cap B = {}
  <2>1. DOMAIN (s \o t) = 1 .. m + n
    BY <1>2
  <2>. HIDE DEF m, n
  <2>0. m \in Nat /\ n \in Nat
    BY <1>1
  <2>2. 1 .. m + n = A \cup B
    <3>1. \A k \in 1 .. m + n : k \in A \/ k \in B
      BY <2>0
    <3>2. \A k \in A : k \in 1 .. m + n
      BY <2>0
    <3>3. \A k \in B : k \in 1 .. m + n
      BY <2>0
    <3>. HIDE DEF A, B
    <3>. QED  BY <3>1, <3>2, <3>3
  <2>3. A \cap B = {}
    BY <2>0
  <2>. QED  BY <2>1, <2>2, <2>3, Zenon
<1>4. /\ IsFiniteSet(A) /\ IsFiniteSet(B) /\ IsFiniteSet(C)
  BY <1>1, FS_Interval
<1>5. /\ \A k \in A : s[k] \in Nat /\ (s \o t)[k] = s[k]
      /\ \A k \in B : k - m \in C /\ t[k - m] \in Nat /\ (s \o t)[k] = t[k - m]
  <2>1. \A k \in 1 .. m + n : (s \o t)[k] = IF k <= m THEN s[k] ELSE t[k - m]
    BY ConcatProperties
  <2>2. (\A k \in A : s[k] \in Nat) /\ \A k \in C : t[k] \in Nat
    BY <1>1, SeqFacts
  <2>. HIDE DEF m, n
  <2>3. \A k \in A : k \in 1 .. m + n /\ k <= m
    BY <1>1
  <2>4. \A k \in B : k \in 1 .. m + n /\ ~(k <= m) /\ k - m \in C
    BY <1>1
  <2>. QED  BY <2>1, <2>2, <2>3, <2>4
<1>6. f \in [A \cup B -> Nat] /\ a \in [A -> Nat] /\ b \in [B -> Nat] /\ c \in [C -> Nat]
  <2>1. \A k \in C : t[k] \in Nat
    BY <1>1, SeqFacts
  <2>. QED  BY <1>3, <1>5, <2>1
<1>7. (\A k \in A : f[k] = a[k]) /\ \A k \in B : f[k] = b[k]
  BY <1>3, <1>5
<1>8. up \in Bijection(C, B) /\ \A k \in C : c[k] = b[up[k]]
  <2>. HIDE DEF m, n
  <2>1. up \in [C -> B]
    BY <1>1
  <2>2. \A k \in C : up[k] = k + m /\ (k + m) - m = k
    BY <1>1
  <2>3. \A k \in B : k - m \in C /\ up[k - m] = k
    BY <1>1
  <2>4. \A j, k \in C : up[j] = up[k] => j = k
    BY <1>1
  <2>5. DOMAIN up = C
    OBVIOUS
  <2>6. up \in Bijection(C, B)
    <3>. HIDE DEF up, B, C
    <3>. QED  BY <2>1, <2>3, <2>4, <2>5 DEF Bijection, Injection, Surjection, IsInjective
  <2>. QED  BY <2>1, <2>2, <2>6
<1>. HIDE DEF A, B, C, a, b, c, f, up
<1>9. Sigma(f, A \cup B) = Sigma(a, A) + Sigma(b, B)
  <2>1. \A F \in [A \cup B -> Nat], G \in [A -> Nat], H \in [B -> Nat] :
           (\A i \in A : F[i] = G[i]) /\ (\A i \in B : F[i] = H[i])
             => Sigma(F, A \cup B) = Sigma(G, A) + Sigma(H, B)
    BY <1>3, <1>4, SigmaJoins
  <2>. QED  BY <1>6, <1>7, <2>1
<1>10. Sigma(c, C) = Sigma(b, B)
  <2>1. Moved(c, C, b, B)
    BY <1>8 DEF Moved
  <2>2. \A F \in [B -> Nat], G \in [C -> Nat] : Moved(G, C, F, B) => Sigma(G, C) = Sigma(F, B)
    BY <1>4, SigmaMoves
  <2>. QED  BY <1>6, <2>1, <2>2
<1>11. /\ Weigh(s \o t, w) = Sigma(f, A \cup B)
       /\ Weigh(s, w) = Sigma(a, A) /\ Weigh(t, w) = Sigma(c, C)
  BY <1>1, <1>3, Zenon DEF Weigh, a, c, f
<1>. QED  BY <1>9, <1>10, <1>11

LEMMA WeighOne ==
  ASSUME NEW v \in Nat, NEW w \in [Nat -> Nat]
  PROVE  Weigh(<<v>>, w) = w[v]
<1>1. DOMAIN <<v>> = {1} /\ <<v>>[1] = v /\ w[v] \in Nat
  OBVIOUS
<1>2. [k \in {1} |-> w[<<v>>[k]]] \in [{1} -> Nat] /\ [k \in {1} |-> w[<<v>>[k]]][1] = w[v]
  BY <1>1
<1>3. Sigma([k \in {1} |-> w[<<v>>[k]]], {1}) = w[v]
  BY <1>2, SigmaOfOne
<1>. QED  BY <1>1, <1>3 DEF Weigh

LEMMA WeighNone == \A w : Weigh(<< >>, w) = 0
<1>1. DOMAIN << >> = {}
  OBVIOUS
<1>. QED  BY <1>1, SigmaOfNone DEF Weigh

LEMMA SigmaOfOnes ==
  ASSUME NEW D, IsFiniteSet(D), NEW f, \A i \in D : f[i] = 1
  PROVE  Sigma(f, D) = Cardinality(D)
<1>. DEFINE sum == [s \in SUBSET D |-> Cardinality(s)]
<1>1. sum[{}] = 0
  BY FS_EmptySet
<1>2. ASSUME NEW s \in (SUBSET D) \ {{}} PROVE sum[s] = f[AnyOf(s)] + sum[s \ {AnyOf(s)}]
  <2>1. /\ AnyOf(s) \in s /\ s \ {AnyOf(s)} \in SUBSET D
        /\ Cardinality(s \ {AnyOf(s)}) \in Nat /\ Cardinality(s) = Cardinality(s \ {AnyOf(s)}) + 1
    BY OneLess
  <2>2. f[AnyOf(s)] = 1
    BY <2>1
  <2>3. sum[s] = Cardinality(s) /\ sum[s \ {AnyOf(s)}] = Cardinality(s \ {AnyOf(s)})
    BY <2>1
  <2>. HIDE DEF sum
  <2>. QED  BY <2>1, <2>2, <2>3
<1>3. sum[D] = Cardinality(D)
  OBVIOUS
<1>4. Totals(sum, f, D)
  <2>. HIDE DEF sum
  <2>. QED  BY <1>1, <1>2 DEF Totals
<1>. HIDE DEF sum
<1>. QED  BY <1>3, <1>4, SigmaOf

Ones       == [v \in Nat |-> 1]
Itself     == [v \in Nat |-> v]
UpToOne(u) == [v \in Nat |-> IF v <= u THEN 1 ELSE 0]

AtMost(s, u) == Cardinality({k \in DOMAIN s : s[k] <= u})

LEMMA WeightTypes ==
  Ones \in [Nat -> Nat] /\ Itself \in [Nat -> Nat] /\ \A u : UpToOne(u) \in [Nat -> Nat]
BY DEF Ones, Itself, UpToOne

LEMMA LenIsWeight ==
  ASSUME NEW s \in Seq(Nat)
  PROVE  Len(s) = Weigh(s, Ones)
<1>. DEFINE f == [k \in DOMAIN s |-> Ones[s[k]]]
<1>1. IsFiniteSet(DOMAIN s) /\ Cardinality(DOMAIN s) = Len(s)
  <2>1. Len(s) \in Nat /\ DOMAIN s = 1 .. Len(s)
    BY SeqFacts
  <2>2. 1 \in Int /\ Len(s) \in Int
    BY <2>1
  <2>3. IsFiniteSet(1 .. Len(s)) /\ Cardinality(1 .. Len(s)) = Len(s)
    <3>. DEFINE n == Len(s)
    <3>1. n \in Nat
      BY <2>1
    <3>. HIDE DEF n
    <3>2. IsFiniteSet(1 .. n) /\ Cardinality(1 .. n) = n
      BY <3>1, FS_Interval
    <3>. QED  BY <3>2 DEF n
  <2>. QED  BY <2>1, <2>3
<1>2. \A k \in DOMAIN s : f[k] = 1
  BY SeqFacts DEF Ones
<1>. HIDE DEF f
<1>3. Sigma(f, DOMAIN s) = Len(s)
  BY <1>1, <1>2, SigmaOfOnes
<1>. QED  BY <1>3 DEF Weigh, f

LEMMA AtMostIsWeight ==
  ASSUME NEW s \in Seq(Nat), NEW u \in Nat
  PROVE  AtMost(s, u) = Weigh(s, UpToOne(u))
<1>. DEFINE D == DOMAIN s
            E == {k \in D : s[k] <= u}
            f == [k \in D |-> UpToOne(u)[s[k]]]
            g == [k \in E |-> 1]
<1>1. IsFiniteSet(D) /\ f \in [D -> Nat]
  BY SeqFacts, WeightTypes
<1>2. E \in SUBSET D /\ g \in [E -> Nat] /\ \A k \in E : g[k] = 1
  OBVIOUS
<1>3. (\A k \in E : g[k] = f[k]) /\ \A k \in D \ E : f[k] = 0
  BY SeqFacts DEF UpToOne
<1>. HIDE DEF D, E, f, g
<1>4. IsFiniteSet(E)
  BY <1>1, <1>2, FS_Subset
<1>5. Sigma(g, E) = Sigma(f, D)
  BY <1>1, <1>2, <1>3, SigmaOfPart
<1>6. Sigma(g, E) = Cardinality(E)
  BY <1>2, <1>4, SigmaOfOnes
<1>. QED  BY <1>5, <1>6 DEF AtMost, Weigh, D, E, f

(***************************************************************************)
(* What a loop adds up is the sum, in whatever way its states are given.   *)
(***************************************************************************)
LEMMA LoopAddsUp ==
  ASSUME NEW n \in Nat, NEW f \in [1 .. n -> Nat], NEW g, g[0] = 0,
         \A k \in 1 .. n : g[k] = g[k - 1] + f[k]
  PROVE  g[n] = Sigma(f, 1 .. n)
<1>. DEFINE part(k) == [j \in 1 .. k |-> f[j]]
            G == {k \in Nat : k <= n => g[k] = Sigma(part(k), 1 .. k)}
<1>1. 0 \in G
  <2>1. 1 .. 0 = {}
    OBVIOUS
  <2>. QED  BY <2>1, SigmaOfNone
<1>2. ASSUME NEW k \in Nat, k \in G PROVE k + 1 \in G
  <2>1. SUFFICES ASSUME k + 1 <= n PROVE g[k + 1] = Sigma(part(k + 1), 1 .. k + 1)
    OBVIOUS
  <2>. DEFINE A == 1 .. k
              B == {k + 1}
              last == [j \in {k + 1} |-> f[j]]
  <2>2. g[k] = Sigma(part(k), A)
    BY <1>2, <2>1
  <2>3. k + 1 \in 1 .. n /\ (k + 1) - 1 = k
    BY <2>1
  <2>4. g[k + 1] = g[k] + f[k + 1]
    BY <2>3
  <2>5. 1 .. k + 1 = A \cup B /\ A \cap B = {}
    OBVIOUS
  <2>6. \A j \in 1 .. k + 1 : j \in 1 .. n /\ f[j] \in Nat
    BY <2>1
  <2>7. part(k + 1) \in [A \cup B -> Nat] /\ part(k) \in [A -> Nat] /\ last \in [B -> Nat]
    <3>1. part(k + 1) \in [1 .. k + 1 -> Nat]
      BY <2>6
    <3>2. \A j \in A : f[j] \in Nat
      BY <2>6
    <3>3. \A j \in B : f[j] \in Nat
      BY <2>6
    <3>. QED  BY <2>5, <3>1, <3>2, <3>3
  <2>8. (\A j \in A : part(k + 1)[j] = part(k)[j]) /\ \A j \in B : part(k + 1)[j] = last[j]
    BY <2>5
  <2>9. IsFiniteSet(A) /\ IsFiniteSet(B)
    <3>1. 1 \in Int /\ k \in Int
      OBVIOUS
    <3>2. IsFiniteSet(1 .. k)
      BY <3>1, FS_Interval
    <3>. QED  BY <3>2, FS_Singleton
  <2>10. Sigma(last, B) = f[k + 1] /\ Sigma(part(k), A) \in Nat /\ f[k + 1] \in Nat
    <3>1. Sigma(last, B) = last[k + 1]
      BY <2>7, SigmaOfOne
    <3>. HIDE DEF part
    <3>. QED  BY <2>3, <2>7, <2>9, <3>1, SigmaCounts
  <2>. HIDE DEF A, B, part, last
  <2>11. \A F \in [A \cup B -> Nat], G0 \in [A -> Nat], H \in [B -> Nat] :
           (\A i \in A : F[i] = G0[i]) /\ (\A i \in B : F[i] = H[i])
             => Sigma(F, A \cup B) = Sigma(G0, A) + Sigma(H, B)
    BY <2>5, <2>9, SigmaJoins
  <2>12. Sigma(part(k + 1), A \cup B) = Sigma(part(k), A) + Sigma(last, B)
    BY <2>7, <2>8, <2>11
  <2>. QED  BY <2>2, <2>4, <2>5, <2>10, <2>12
<1>3. part(n) = f
  OBVIOUS
<1>. HIDE DEF G, part
<1>4. n \in G
  BY <1>1, <1>2, Inductive
<1>. QED  BY <1>3, <1>4 DEF G

LEMMA SumIsWeight ==
  ASSUME NEW s \in Seq(Nat)
  PROVE  Sum(s) = Weigh(s, Itself)
<1>. DEFINE n == Len(s)
            D == 1 .. n
            a(it) == [S \in SUBSET D |-> IF S = {} THEN 0 ELSE it[S \ {Max(S)}] + s[Max(S)]]
            h == [x \in D \X Nat |-> x[2] + s[x[1]]]
<1>1. n \in Nat /\ DOMAIN s = D /\ \A k \in D : s[k] \in Nat
  BY SeqFacts
<1>2. Sum(s) = (CHOOSE it : it = a(it))[D]
  BY <1>1 DEF Sum, FoldLeft, MapThenFoldSet
<1>3. \E it : it = a(it)
  <2>1. h \in [D \X Nat -> Nat]
    BY <1>1
  <2>2. PICK it \in [SUBSET D -> Nat] : Folds(it, D, 0, h)
    <3>. HIDE DEF n, h
    <3>. QED  BY <1>1, <2>1, FoldExists
  <2>3. ASSUME NEW S \in SUBSET D
        PROVE  it[S] = IF S = {} THEN 0 ELSE it[S \ {Max(S)}] + s[Max(S)]
    <3>1. it[S] = IF S = {} THEN 0 ELSE h[<<Max(S), it[S \ {Max(S)}]>>]
      BY <2>2 DEF Folds
    <3>2. CASE S # {}
      <4>1. Max(S) \in D
        <5>. HIDE DEF n
        <5>. QED  BY <1>1, <3>2, MaxOfPart
      <4>2. it[S \ {Max(S)}] \in Nat
        OBVIOUS
      <4>3. h[<<Max(S), it[S \ {Max(S)}]>>] = it[S \ {Max(S)}] + s[Max(S)]
        BY <4>1, <4>2
      <4>. QED  BY <3>1, <3>2, <4>3
    <3>. QED  BY <3>1, <3>2
  <2>4. it = a(it)
    BY <2>3
  <2>. QED  BY <2>4
<1>4. ASSUME NEW it, it = a(it) PROVE it[D] = Sigma(s, D)
  <2>. DEFINE g == [k \in 0 .. n |-> it[1 .. k]]
  <2>1. \A S \in SUBSET D : it[S] = IF S = {} THEN 0 ELSE it[S \ {Max(S)}] + s[Max(S)]
    <3>1. \A S \in SUBSET D : a(it)[S] = IF S = {} THEN 0 ELSE it[S \ {Max(S)}] + s[Max(S)]
      OBVIOUS
    <3>. HIDE DEF a
    <3>. QED  BY <1>4, <3>1
  <2>. HIDE DEF a
  <2>2. it[1 .. 0] = 0
    <3>1. 1 .. 0 = {} /\ {} \in SUBSET D
      OBVIOUS
    <3>. QED  BY <2>1, <3>1
  <2>3. ASSUME NEW k \in D PROVE it[1 .. k] = it[1 .. (k - 1)] + s[k]
    <3>. HIDE DEF n
    <3>1. k \in 1 .. k /\ \A x \in 1 .. k : x \in D
      BY <1>1
    <3>2. 1 .. k \in SUBSET D /\ 1 .. k # {}
      BY <3>1
    <3>3. Max(1 .. k) = k
      BY <1>1, MaxOfInterval
    <3>4. (1 .. k) \ {k} = 1 .. (k - 1)
      BY <1>1
    <3>. QED  BY <2>1, <3>2, <3>3, <3>4
  <2>4. g[0] = 0 /\ g[n] = it[D] /\ \A k \in D : g[k] = g[k - 1] + s[k]
    <3>1. \A k \in D : k \in 0 .. n /\ k - 1 \in 0 .. n
      BY <1>1
    <3>2. 0 \in 0 .. n /\ n \in 0 .. n
      BY <1>1
    <3>3. g[0] = it[1 .. 0] /\ g[n] = it[1 .. n]
      BY <3>2
    <3>4. \A k \in D : g[k] = it[1 .. k] /\ g[k - 1] = it[1 .. (k - 1)]
      BY <3>1
    <3>. HIDE DEF g
    <3>. QED  BY <2>2, <2>3, <3>3, <3>4
  <2>5. s \in [1 .. n -> Nat]
    BY <1>1
  <2>. HIDE DEF g, n
  <2>. QED  BY <1>1, <2>4, <2>5, LoopAddsUp
<1>. HIDE DEF a, n
<1>5. Sum(s) = Sigma(s, D)
  BY <1>2, <1>3, <1>4
<1>6. [k \in DOMAIN s |-> Itself[s[k]]] = s
  <2>1. \A k \in DOMAIN s : Itself[s[k]] = s[k]
    BY <1>1 DEF Itself
  <2>. QED  BY <2>1
<1>. QED  BY <1>1, <1>5, <1>6 DEF Weigh

(***************************************************************************)
(* FlattenSeq weighs what its parts weigh.                                 *)
(***************************************************************************)
LEMMA FlattenWeighs ==
  ASSUME NEW n \in Nat \ {0}, NEW seqs \in [1 .. n -> Seq(Nat)]
  PROVE  /\ FlattenSeq(seqs) \in Seq(Nat)
         /\ \A w \in [Nat -> Nat] :
              Weigh(FlattenSeq(seqs), w) = Sigma([k \in 1 .. n |-> Weigh(seqs[k], w)], 1 .. n)
<1>. DEFINE a(g) == [i \in 1 .. n |-> IF i = 1 THEN seqs[i] ELSE g[i - 1] \o seqs[i]]
            h    == [x \in (1 .. n) \X Seq(Nat) |-> x[2] \o seqs[x[1]]]
<1>0. n \in Nat /\ 1 \in 1 .. n /\ n \in 1 .. n
  OBVIOUS
<1>1. Len(seqs) = n
  OBVIOUS
<1>2. FlattenSeq(seqs) = (CHOOSE g : g = a(g))[n]
  BY <1>1 DEF FlattenSeq
<1>3. \E g : g = a(g)
  <2>1. \A x \in (1 .. n) \X Seq(Nat) : x[2] \o seqs[x[1]] \in Seq(Nat)
    BY ConcatProperties
  <2>2. h \in [(1 .. n) \X Seq(Nat) -> Seq(Nat)] /\ << >> \in Seq(Nat)
    BY <2>1
  <2>3. PICK f \in [0 .. n -> Seq(Nat)] :
          f[0] = << >> /\ \A k \in 1 .. n : f[k] = h[<<k, f[k - 1]>>]
    <3>. DEFINE V == Seq(Nat)
    <3>1. << >> \in V /\ h \in [(1 .. n) \X V -> V]
      BY <2>2
    <3>. HIDE DEF h, V
    <3>2. \E f \in [0 .. n -> V] : IsLoop(f, n, << >>, h)
      BY <1>0, <3>1, LoopExists
    <3>. QED  BY <3>2 DEF V, IsLoop
  <2>4. \A k \in 1 .. n : f[k] = f[k - 1] \o seqs[k]
    <3>1. \A k \in 1 .. n : f[k - 1] \in Seq(Nat)
      OBVIOUS
    <3>. QED  BY <2>3, <3>1
  <2>. DEFINE g == [k \in 1 .. n |-> f[k]]
  <2>5. ASSUME NEW i \in 1 .. n PROVE g[i] = IF i = 1 THEN seqs[i] ELSE g[i - 1] \o seqs[i]
    <3>1. CASE i = 1
      <4>0. 1 - 1 = 0
        OBVIOUS
      <4>1. f[1] = f[1 - 1] \o seqs[1]
        BY <1>0, <2>4, Zenon
      <4>2. f[1] = << >> \o seqs[1] /\ seqs[1] \in Seq(Nat)
        BY <1>0, <2>3, <4>0, <4>1
      <4>3. f[1] = seqs[1]
        BY <4>2, ConcatEmptySeq
      <4>. QED  BY <3>1, <4>3
    <3>2. CASE i # 1
      <4>1. i - 1 \in 1 .. n
        BY <3>2
      <4>. QED  BY <2>4, <3>2, <4>1
    <3>. QED  BY <3>1, <3>2
  <2>6. g = a(g)
    BY <2>5
  <2>. QED  BY <2>6
<1>4. ASSUME NEW g, g = a(g)
      PROVE  /\ g[n] \in Seq(Nat)
             /\ \A w \in [Nat -> Nat] :
                  Weigh(g[n], w) = Sigma([k \in 1 .. n |-> Weigh(seqs[k], w)], 1 .. n)
  <2>1. \A i \in 1 .. n : g[i] = IF i = 1 THEN seqs[i] ELSE g[i - 1] \o seqs[i]
    <3>1. \A i \in 1 .. n : a(g)[i] = IF i = 1 THEN seqs[i] ELSE g[i - 1] \o seqs[i]
      OBVIOUS
    <3>. HIDE DEF a
    <3>. QED  BY <1>4, <3>1
  <2>. HIDE DEF a
  <2>2. g[1] = seqs[1] /\ \A i \in 1 .. n : i # 1 => g[i] = g[i - 1] \o seqs[i]
    BY <1>0, <2>1
  <2>. DEFINE G == {k \in Nat : k + 1 <= n => g[k + 1] \in Seq(Nat)}
  <2>3. 0 \in G
    BY <2>2
  <2>4. ASSUME NEW k \in Nat, k \in G PROVE k + 1 \in G
    <3>1. SUFFICES ASSUME k + 1 + 1 <= n PROVE g[k + 1 + 1] \in Seq(Nat)
      OBVIOUS
    <3>2. k + 1 + 1 \in 1 .. n /\ k + 1 + 1 # 1 /\ (k + 1 + 1) - 1 = k + 1 /\ k + 1 <= n
      BY <3>1
    <3>3. g[k + 1] \in Seq(Nat)
      BY <2>4, <3>2
    <3>4. g[k + 1 + 1] = g[k + 1] \o seqs[k + 1 + 1]
      BY <2>2, <3>2
    <3>. QED  BY <3>2, <3>3, <3>4, ConcatProperties
  <2>5. \A i \in 1 .. n : g[i] \in Seq(Nat)
    <3>. HIDE DEF G
    <3>1. \A k \in Nat : k \in G
      BY <2>3, <2>4, Inductive
    <3>2. ASSUME NEW i \in 1 .. n PROVE g[i] \in Seq(Nat)
      <4>1. PICK j \in Nat : j + 1 = i
        OBVIOUS
      <4>2. j \in G /\ j + 1 <= n
        BY <3>1, <4>1
      <4>3. g[j + 1] \in Seq(Nat)
        BY <4>2 DEF G
      <4>. QED  BY <4>1, <4>3
    <3>. QED  BY <3>2
  <2>6. ASSUME NEW w \in [Nat -> Nat]
        PROVE  Weigh(g[n], w) = Sigma([k \in 1 .. n |-> Weigh(seqs[k], w)], 1 .. n)
    <3>. DEFINE f == [k \in 1 .. n |-> Weigh(seqs[k], w)]
                e == [k \in 0 .. n |-> IF k = 0 THEN 0 ELSE Weigh(g[k], w)]
    <3>1. f \in [1 .. n -> Nat]
      BY WeighType
    <3>2. e[0] = 0 /\ e[n] = Weigh(g[n], w) /\ \A k \in 1 .. n : e[k] = Weigh(g[k], w)
      OBVIOUS
    <3>3. ASSUME NEW k \in 1 .. n PROVE e[k] = e[k - 1] + f[k]
      <4>1. CASE k = 1
        <5>0. k - 1 = 0 /\ g[k] = seqs[k]
          BY <2>2, <4>1
        <5>1. e[k - 1] = 0 /\ e[k] = f[k]
          <6>1. e[k - 1] = 0
            BY <3>2, <5>0
          <6>2. e[k] = Weigh(g[k], w) /\ f[k] = Weigh(seqs[k], w)
            BY <3>2
          <6>. HIDE DEF e, f
          <6>. QED  BY <5>0, <6>1, <6>2
        <5>. HIDE DEF e, f
        <5>2. f[k] \in Nat
          BY <3>1
        <5>3. \A x \in Nat : 0 + x = x
          OBVIOUS
        <5>. QED  BY <5>1, <5>2, <5>3, Zenon
      <4>2. CASE k # 1
        <5>1. k - 1 \in 1 .. n
          BY <4>2
        <5>2. e[k] = Weigh(g[k], w) /\ e[k - 1] = Weigh(g[k - 1], w) /\ f[k] = Weigh(seqs[k], w)
          BY <3>2, <5>1
        <5>3. g[k] = g[k - 1] \o seqs[k] /\ g[k - 1] \in Seq(Nat) /\ seqs[k] \in Seq(Nat)
          BY <2>2, <2>5, <4>2, <5>1
        <5>. HIDE DEF e, f
        <5>4. Weigh(g[k - 1] \o seqs[k], w) = Weigh(g[k - 1], w) + Weigh(seqs[k], w)
          BY <5>3, WeighConcat
        <5>. QED  BY <5>2, <5>3, <5>4
      <4>. QED  BY <4>1, <4>2
    <3>. HIDE DEF e, f
    <3>4. e[n] = Sigma(f, 1 .. n)
      BY <3>1, <3>2, <3>3, LoopAddsUp
    <3>. QED  BY <3>2, <3>4 DEF f
  <2>. QED  BY <1>0, <2>5, <2>6
<1>. HIDE DEF a
<1>. QED  BY <1>2, <1>3, <1>4

-----------------------------------------------------------------------------
(***************************************************************************)
(* Order statistics.  Sorted exists: the place of a value is the number of *)
(* those that come before it, equal ones by their own places.  The value   *)
(* at rank r is at most u exactly when r values are.                       *)
(***************************************************************************)
ComesBefore(s, j, i) == s[j] < s[i] \/ (s[j] = s[i] /\ j <= i)
Before(s, i)         == {j \in DOMAIN s : ComesBefore(s, j, i)}

LEMMA BeforeGrows ==
  ASSUME NEW s \in Seq(Nat), NEW i \in DOMAIN s, NEW k \in DOMAIN s, i # k, ComesBefore(s, i, k)
  PROVE  Cardinality(Before(s, i)) < Cardinality(Before(s, k))
<1>1. \A j \in DOMAIN s : j \in Nat /\ s[j] \in Nat
  BY SeqFacts
<1>2. Before(s, i) \subseteq Before(s, k)
  BY <1>1 DEF Before, ComesBefore
<1>3. k \in Before(s, k) /\ k \notin Before(s, i)
  BY <1>1 DEF Before, ComesBefore
<1>4. IsFiniteSet(Before(s, k))
  <2>1. Before(s, k) \in SUBSET (DOMAIN s) /\ IsFiniteSet(DOMAIN s)
    BY SeqFacts DEF Before
  <2>. QED  BY <2>1, FS_Subset
<1>5. /\ Cardinality(Before(s, i)) <= Cardinality(Before(s, k)) /\ IsFiniteSet(Before(s, i))
      /\ Cardinality(Before(s, k)) = Cardinality(Before(s, i)) => Before(s, k) = Before(s, i)
  BY <1>2, <1>4, FS_Subset
<1>6. Cardinality(Before(s, i)) \in Nat /\ Cardinality(Before(s, k)) \in Nat
  BY <1>4, <1>5, FS_CardinalityType
<1>. QED  BY <1>3, <1>5, <1>6

\* p takes the places in the order of the values.
Ascends(s, p) == \A i, j \in DOMAIN s : i < j => s[p[i]] <= s[p[j]]

LEMMA AscendingExists ==
  ASSUME NEW s \in Seq(Nat)
  PROVE  \E p \in Bijection(DOMAIN s, DOMAIN s) : Ascends(s, p)
<1>. DEFINE D    == DOMAIN s
            rank == [i \in D |-> Cardinality(Before(s, i))]
            p    == [r \in D |-> CHOOSE i \in D : rank[i] = r]
<1>1. /\ IsFiniteSet(D) /\ Len(s) \in Nat /\ D = 1 .. Len(s) /\ Cardinality(D) = Len(s)
      /\ \A i \in D : s[i] \in Nat
  <2>1. IsFiniteSet(D) /\ Len(s) \in Nat /\ D = 1 .. Len(s) /\ \A i \in D : s[i] \in Nat
    BY SeqFacts
  <2>. DEFINE n == Len(s)
  <2>2. n \in Nat
    BY <2>1
  <2>. HIDE DEF n
  <2>3. Cardinality(1 .. n) = n
    BY <2>2, FS_Interval
  <2>. QED  BY <2>1, <2>3 DEF n
<1>2. ASSUME NEW i \in D PROVE rank[i] \in D
  <2>1. Before(s, i) \in SUBSET D /\ i \in Before(s, i)
    BY <1>1 DEF Before, ComesBefore
  <2>2. IsFiniteSet(Before(s, i)) /\ Cardinality(Before(s, i)) <= Cardinality(D)
    BY <1>1, <2>1, FS_Subset
  <2>3. Cardinality(Before(s, i)) \in Nat /\ Cardinality(Before(s, i)) # 0
    BY <2>1, <2>2, FS_CardinalityType, FS_EmptySet
  <2>. QED  BY <1>1, <2>2, <2>3
<1>3. \A i, k \in D : i # k /\ ComesBefore(s, i, k) => rank[i] < rank[k]
  BY BeforeGrows
<1>4. \A i, k \in D : ComesBefore(s, i, k) \/ ComesBefore(s, k, i)
  BY <1>1 DEF ComesBefore
<1>5. DOMAIN rank = D /\ rank \in [D -> D]
  BY <1>2
<1>. HIDE DEF rank
<1>6. \A i \in D : rank[i] \in Nat
  <2>1. \A i \in D : i \in Nat
    BY <1>1
  <2>. QED  BY <1>2, <2>1
<1>7. \A i, k \in D : rank[i] = rank[k] => i = k
  BY <1>3, <1>4, <1>6
<1>8. rank \in Injection(D, D)
  BY <1>5, <1>7 DEF Injection, IsInjective
<1>9. rank \in Surjection(D, D)
  BY <1>1, <1>8, FS_Injection
<1>10. \A r \in D : \E i \in D : rank[i] = r
  BY <1>9 DEF Surjection
<1>11. \A r \in D : p[r] \in D /\ rank[p[r]] = r
  BY <1>10
<1>12. p \in Bijection(D, D)
  <2>1. DOMAIN p = D
    OBVIOUS
  <2>. HIDE DEF p
  <2>2. \A i \in D : p[rank[i]] = i
    BY <1>5, <1>7, <1>11
  <2>3. p \in [D -> D]
    <3>1. \A r \in D : (CHOOSE i \in D : rank[i] = r) \in D
      BY <1>10
    <3>. QED  BY <3>1 DEF p
  <2>. QED  BY <1>5, <1>11, <2>1, <2>2, <2>3 DEF Bijection, Injection, Surjection, IsInjective
<1>13. Ascends(s, p)
  <2>. HIDE DEF p
  <2>1. SUFFICES ASSUME NEW i \in D, NEW j \in D, i < j PROVE s[p[i]] <= s[p[j]]
    BY DEF Ascends
  <2>2. rank[p[i]] = i /\ rank[p[j]] = j /\ p[i] \in D /\ p[j] \in D
    BY <1>11
  <2>3. i \in Nat /\ j \in Nat /\ s[p[i]] \in Nat /\ s[p[j]] \in Nat
    BY <1>1, <2>2
  <2>4. p[i] # p[j]
    BY <2>1, <2>2, <2>3
  <2>5. ~ComesBefore(s, p[j], p[i])
    BY <1>3, <2>1, <2>2, <2>3, <2>4
  <2>6. ComesBefore(s, p[i], p[j])
    BY <1>4, <2>2, <2>5
  <2>. QED  BY <2>3, <2>6 DEF ComesBefore
<1>. QED  BY <1>12, <1>13

LEMMA SortedFacts ==
  ASSUME NEW s \in Seq(Nat)
  PROVE  /\ Sorted(s) \in Seq(Nat) /\ Len(Sorted(s)) = Len(s) /\ DOMAIN Sorted(s) = DOMAIN s
         /\ \A i, j \in DOMAIN s : i < j => Sorted(s)[i] <= Sorted(s)[j]
         /\ \A w \in [Nat -> Nat] : Weigh(Sorted(s), w) = Weigh(s, w)
         /\ \A k \in DOMAIN s : \E i \in DOMAIN s : Sorted(s)[k] = s[i]
<1>. DEFINE D == DOMAIN s
            P(p) == \A i, j \in D : i < j => s[p[i]] <= s[p[j]]
            p == CHOOSE p \in Bijection(D, D) : P(p)
            t == [i \in D |-> s[p[i]]]
<1>1. \E q \in Bijection(D, D) : P(q)
  BY AscendingExists DEF Ascends
<1>2. p \in Bijection(D, D) /\ P(p)
  <2>. HIDE DEF P
  <2>. QED  BY <1>1
<1>3. Sorted(s) = t
  BY DEF Sorted
<1>. HIDE DEF p
<1>4. p \in [D -> D]
  BY <1>2 DEF Bijection, Injection
<1>5. Len(s) \in Nat /\ D = 1 .. Len(s) /\ \A k \in D : s[k] \in Nat
  BY SeqFacts
<1>6. t \in [1 .. Len(s) -> Nat] /\ DOMAIN t = D
  BY <1>4, <1>5
<1>7. t \in Seq(Nat) /\ Len(t) = Len(s)
  BY <1>5, <1>6, FunctionIsSeq
<1>8. \A k \in D : t[k] = s[p[k]] /\ p[k] \in D
  BY <1>4
<1>9. \A i, j \in D : i < j => t[i] <= t[j]
  BY <1>2, <1>8
<1>. HIDE DEF t, P
<1>10. \A w \in [Nat -> Nat] : Weigh(t, w) = Weigh(s, w)
  BY <1>2, <1>6, <1>7, <1>8, WeighMoves
<1>. QED  BY <1>3, <1>6, <1>7, <1>8, <1>9, <1>10

LEMMA RankOf ==
  ASSUME NEW s \in Seq(Nat), NEW r \in 1 .. Len(s), NEW u \in Nat
  PROVE  Sorted(s)[r] <= u <=> AtMost(s, u) >= r
<1>. DEFINE t == Sorted(s)
            E == {k \in DOMAIN t : t[k] <= u}
<1>1. /\ t \in Seq(Nat) /\ Len(t) = Len(s) /\ DOMAIN t = DOMAIN s
      /\ \A i, j \in DOMAIN s : i < j => t[i] <= t[j]
      /\ Weigh(t, UpToOne(u)) = Weigh(s, UpToOne(u))
  BY SortedFacts, WeightTypes
<1>. HIDE DEF t
<1>2. Len(s) \in Nat /\ DOMAIN s = 1 .. Len(s) /\ \A k \in 1 .. Len(s) : t[k] \in Nat
  BY <1>1, SeqFacts
<1>3. AtMost(s, u) = Cardinality(E)
  BY <1>1, AtMostIsWeight DEF AtMost
<1>4. IsFiniteSet(E) /\ Cardinality(E) \in Nat
  <2>1. E \in SUBSET (DOMAIN t) /\ IsFiniteSet(DOMAIN t)
    BY <1>1, SeqFacts
  <2>. QED  BY <2>1, FS_Subset, FS_CardinalityType
<1>5. r \in Nat /\ r - 1 \in Nat
  BY <1>2
<1>6. /\ Cardinality(1 .. r) = r
      /\ IsFiniteSet(1 .. (r - 1)) /\ Cardinality(1 .. (r - 1)) = r - 1
  <2>1. \A n \in Nat : IsFiniteSet(1 .. n) /\ Cardinality(1 .. n) = n
    <3>1. SUFFICES ASSUME NEW n \in Nat PROVE IsFiniteSet(1 .. n) /\ Cardinality(1 .. n) = n
      OBVIOUS
    <3>. QED  BY FS_Interval
  <2>. QED  BY <1>5, <2>1
<1>7. ASSUME t[r] <= u PROVE Cardinality(E) >= r
  <2>1. \A k \in 1 .. r : k \in DOMAIN t /\ t[k] <= u
    <3>1. SUFFICES ASSUME NEW k \in 1 .. r PROVE k \in DOMAIN t /\ t[k] <= u
      OBVIOUS
    <3>2. k \in DOMAIN s /\ r \in DOMAIN s /\ (k = r \/ k < r)
      BY <1>2
    <3>3. k < r => t[k] <= t[r]
      BY <1>1, <3>2
    <3>4. t[k] \in Nat /\ t[r] \in Nat
      BY <1>2, <3>2
    <3>. QED  BY <1>1, <1>7, <3>2, <3>3, <3>4
  <2>2. 1 .. r \in SUBSET E
    BY <2>1
  <2>. HIDE DEF E
  <2>3. Cardinality(1 .. r) <= Cardinality(E)
    BY <1>4, <2>2, FS_Subset
  <2>. QED  BY <1>4, <1>5, <1>6, <2>3
<1>8. ASSUME ~(t[r] <= u) PROVE ~(Cardinality(E) >= r)
  <2>1. \A k \in E : k \in 1 .. (r - 1)
    <3>1. SUFFICES ASSUME NEW k \in E PROVE k \in 1 .. (r - 1)
      OBVIOUS
    <3>2. k \in DOMAIN s /\ r \in DOMAIN s /\ t[k] <= u
      BY <1>1, <1>2
    <3>3. r < k => t[r] <= t[k]
      BY <1>1, <3>2
    <3>4. t[k] \in Nat /\ t[r] \in Nat /\ k \in 1 .. Len(s)
      BY <1>2, <3>2
    <3>5. ~(k = r) /\ ~(r < k)
      BY <1>8, <3>2, <3>3, <3>4
    <3>. QED  BY <1>2, <3>4, <3>5
  <2>2. E \in SUBSET (1 .. (r - 1))
    BY <2>1
  <2>. HIDE DEF E
  <2>3. Cardinality(E) <= Cardinality(1 .. (r - 1))
    BY <1>6, <2>2, FS_Subset
  <2>. QED  BY <1>4, <1>5, <1>6, <2>3
<1>. QED  BY <1>3, <1>7, <1>8 DEF t

\* The rank of a percentile is what the least number of values is that make p percent.
LEMMA RankFacts ==
  ASSUME NEW n \in Nat \ {0}, NEW p \in Percentages
  PROVE  /\ Rank(n, p) \in 1 .. n
         /\ \A m \in Nat : m >= Rank(n, p) <=> m * 100 >= p * n
<1>1. p \in {50, 95, 99}
  BY DEF Percentages
<1>2. CASE p = 50
  BY <1>2 DEF Rank
<1>3. CASE p = 95
  BY <1>3 DEF Rank
<1>4. CASE p = 99
  BY <1>4 DEF Rank
<1>. QED  BY <1>1, <1>2, <1>3, <1>4

(***************************************************************************)
(* What distribution computes depends on the weights of the values only.   *)
(***************************************************************************)
SameWeights(s, t) == \A w \in [Nat -> Nat] : Weigh(s, w) = Weigh(t, w)

LEMMA SameWeightsFacts ==
  ASSUME NEW s \in Seq(Nat), NEW t \in Seq(Nat), SameWeights(s, t)
  PROVE  /\ Len(s) = Len(t) /\ Sum(s) = Sum(t)
         /\ \A u \in Nat : AtMost(s, u) = AtMost(t, u)
         /\ \A r \in 1 .. Len(s) : Sorted(s)[r] = Sorted(t)[r]
<1>1. Len(s) = Len(t)
  BY LenIsWeight, WeightTypes DEF SameWeights
<1>2. Sum(s) = Sum(t)
  BY SumIsWeight, WeightTypes DEF SameWeights
<1>3. \A u \in Nat : AtMost(s, u) = AtMost(t, u)
  BY AtMostIsWeight, WeightTypes DEF SameWeights
<1>4. ASSUME NEW r \in 1 .. Len(s) PROVE Sorted(s)[r] = Sorted(t)[r]
  <2>1. Sorted(s)[r] \in Nat /\ Sorted(t)[r] \in Nat
    <3>1. r \in DOMAIN s /\ r \in DOMAIN t
      BY <1>1, SeqFacts
    <3>2. /\ Sorted(s) \in Seq(Nat) /\ Sorted(t) \in Seq(Nat)
          /\ r \in DOMAIN Sorted(s) /\ r \in DOMAIN Sorted(t)
      BY <3>1, SortedFacts
    <3>. QED  BY <3>2, SeqFacts
  <2>2. \A u \in Nat : Sorted(s)[r] <= u <=> Sorted(t)[r] <= u
    BY <1>1, <1>3, RankOf
  <2>. QED  BY <2>1, <2>2
<1>. QED  BY <1>1, <1>2, <1>3, <1>4

LEMMA DistributionIsOrderFree ==
  ASSUME NEW s \in Seq(Nat), NEW t \in Seq(Nat), SameWeights(s, t)
  PROVE  DistributionOf(s) = DistributionOf(t) /\ (s = << >> <=> t = << >>)
<1>1. Len(s) = Len(t) /\ Sum(s) = Sum(t) /\ Len(s) \in Nat
  BY SameWeightsFacts, SeqFacts
<1>2. (s = << >> <=> Len(s) = 0) /\ (t = << >> <=> Len(t) = 0)
  BY EmptySeq
<1>3. CASE s = << >>
  BY <1>1, <1>2, <1>3
<1>4. CASE s # << >>
  <2>1. Len(s) \in Nat \ {0} /\ t # << >>
    BY <1>1, <1>2, <1>4
  <2>2. \A r \in 1 .. Len(s) : Sorted(s)[r] = Sorted(t)[r]
    BY SameWeightsFacts
  <2>3. \A p \in Percentages : Rank(Len(s), p) \in 1 .. Len(s)
    BY <2>1, RankFacts
  <2>4. 1 \in 1 .. Len(s) /\ Len(s) \in 1 .. Len(s)
    BY <2>1
  <2>5. [p \in Percentages |-> Sorted(s)[Rank(Len(s), p)]]
          = [p \in Percentages |-> Sorted(t)[Rank(Len(t), p)]]
    BY <1>1, <2>2, <2>3
  <2>6. Sorted(s)[1] = Sorted(t)[1] /\ Sorted(s)[Len(s)] = Sorted(t)[Len(t)]
    BY <1>1, <2>2, <2>4
  <2>. QED  BY <1>1, <1>4, <2>1, <2>5, <2>6 DEF DistributionOf
<1>. QED  BY <1>3, <1>4

-----------------------------------------------------------------------------
\* A sum is no less than any of its terms.
LEMMA SigmaCovers ==
  ASSUME NEW D, IsFiniteSet(D), NEW f \in [D -> Nat], NEW x \in D
  PROVE  f[x] <= Sigma(f, D) /\ Sigma(f, D) \in Nat
<1>. DEFINE one == [i \in D |-> IF i = x THEN f[x] ELSE 0]
            own == [i \in {x} |-> f[x]]
<1>1. one \in [D -> Nat] /\ \A i \in D : 1 * one[i] <= 1 * f[i]
  OBVIOUS
<1>2. /\ {x} \in SUBSET D /\ own \in [{x} -> Nat] /\ own[x] = f[x]
      /\ (\A i \in {x} : own[i] = one[i]) /\ \A i \in D \ {x} : one[i] = 0
  OBVIOUS
<1>. HIDE DEF one, own
<1>3. Sigma(own, {x}) = Sigma(one, D)
  BY <1>1, <1>2, SigmaOfPart
<1>4. Sigma(own, {x}) = f[x]
  BY <1>2, SigmaOfOne
<1>5. 1 * Sigma(one, D) <= 1 * Sigma(f, D)
  BY <1>1, SigmaAtMost
<1>6. Sigma(one, D) \in Nat /\ Sigma(f, D) \in Nat
  BY <1>1, SigmaCounts
<1>. QED  BY <1>3, <1>4, <1>5, <1>6

LEMMA SigmaIsZero ==
  ASSUME NEW D, IsFiniteSet(D), NEW f \in [D -> Nat]
  PROVE  Sigma(f, D) = 0 <=> \A i \in D : f[i] = 0
<1>1. ASSUME Sigma(f, D) = 0 PROVE \A i \in D : f[i] = 0
  <2>1. \A i \in D : f[i] <= Sigma(f, D) /\ f[i] \in Nat
    BY SigmaCovers
  <2>. QED  BY <1>1, <2>1
<1>2. ASSUME \A i \in D : f[i] = 0 PROVE Sigma(f, D) = 0
  <2>1. Units(f, D) = {}
    BY <1>2 DEF Units
  <2>2. Sigma(f, D) = Cardinality(Units(f, D))
    BY SigmaCounts
  <2>. QED  BY <2>1, <2>2, FS_EmptySet
<1>. QED  BY <1>1, <1>2

-----------------------------------------------------------------------------
(***************************************************************************)
(* Samples of all shards in one sequence, in whatever order the shards are *)
(* taken.                                                                  *)
(***************************************************************************)
LEMMA OrderFacts ==
  /\ Cardinality(Shards) = Count /\ Count \in Nat \ {0}
  /\ \A order \in Orders : order \in Bijection(1 .. Count, Shards)
  /\ [k \in 1 .. Count |-> k - 1] \in Orders
<1>1. Count \in Nat \ {0} /\ 0 \in Int /\ Count - 1 \in Int
  BY RunResultsAssumption
<1>2. Cardinality(Shards) = Count /\ IsFiniteSet(Shards)
  <2>1. Cardinality(0 .. (Count - 1)) = IF 0 <= Count - 1 THEN (Count - 1) - 0 + 1 ELSE 0
    BY <1>1, FS_Interval
  <2>. QED  BY <1>1, <2>1, ShardsFinite DEF Shards
<1>3. IsFiniteSet(1 .. Count) /\ Cardinality(1 .. Count) = Count
  <2>1. 1 \in Int /\ Count \in Int
    BY <1>1
  <2>. DEFINE n == Count
  <2>2. n \in Nat
    BY <1>1
  <2>. HIDE DEF n
  <2>3. IsFiniteSet(1 .. n) /\ Cardinality(1 .. n) = n
    BY <2>2, FS_Interval
  <2>. QED  BY <2>3 DEF n
<1>4. ASSUME NEW order \in Orders PROVE order \in Bijection(1 .. Count, Shards)
  <2>1. order \in [1 .. Count -> Shards] /\ \A i, j \in 1 .. Count : i # j => order[i] # order[j]
    BY <1>2 DEF Orders, SetToSeqs
  <2>2. order \in Injection(1 .. Count, Shards)
    BY <2>1 DEF Injection, IsInjective
  <2>3. order \in Surjection(1 .. Count, Shards)
    BY <1>2, <1>3, <2>2, FS_Injection
  <2>. QED  BY <2>2, <2>3 DEF Bijection
<1>5. [k \in 1 .. Count |-> k - 1] \in Orders
  <2>1. \A k \in 1 .. Count : k - 1 \in Shards
    BY <1>1 DEF Shards
  <2>. QED  BY <1>2, <2>1 DEF Orders, SetToSeqs
<1>. QED  BY <1>1, <1>2, <1>4, <1>5

LEMMA ShardsInOrder ==
  ASSUME NEW vals \in [Shards -> Seq(Nat)], NEW order \in Orders
  PROVE  LET all == FlattenSeq([k \in 1 .. Count |-> vals[order[k]]])
         IN  /\ all \in Seq(Nat)
             /\ \A w \in [Nat -> Nat] :
                  Weigh(all, w) = Sigma([i \in Shards |-> Weigh(vals[i], w)], Shards)
<1>. DEFINE D    == 1 .. Count
            seqs == [k \in D |-> vals[order[k]]]
            all  == FlattenSeq(seqs)
<1>1. Count \in Nat \ {0} /\ order \in Bijection(D, Shards) /\ IsFiniteSet(D)
  BY OrderFacts, FS_Interval
<1>2. order \in [D -> Shards]
  BY <1>1 DEF Bijection, Injection
<1>3. seqs \in [D -> Seq(Nat)] /\ \A k \in D : seqs[k] = vals[order[k]]
  BY <1>2
<1>. HIDE DEF seqs
<1>4. all \in Seq(Nat) /\ \A w \in [Nat -> Nat] : Weigh(all, w) = Sigma([k \in D |-> Weigh(seqs[k], w)], D)
  BY <1>1, <1>3, FlattenWeighs
<1>5. ASSUME NEW w \in [Nat -> Nat]
      PROVE  Sigma([k \in D |-> Weigh(seqs[k], w)], D) = Sigma([i \in Shards |-> Weigh(vals[i], w)], Shards)
  <2>. DEFINE g == [k \in D |-> Weigh(seqs[k], w)]
              f == [i \in Shards |-> Weigh(vals[i], w)]
  <2>1. g \in [D -> Nat] /\ f \in [Shards -> Nat]
    BY <1>3, WeighType
  <2>2. \A k \in D : g[k] = f[order[k]]
    BY <1>2, <1>3
  <2>. HIDE DEF f, g, D
  <2>3. Moved(g, D, f, Shards)
    BY <1>1, <2>2 DEF Moved
  <2>4. Sigma(g, D) = Sigma(f, Shards)
    <3>1. \A x \in [Shards -> Nat], y \in [D -> Nat] :
            Moved(y, D, x, Shards) => Sigma(y, D) = Sigma(x, Shards)
      BY <1>1, SigmaMoves
    <3>. QED  BY <2>1, <2>3, <3>1
  <2>. QED  BY <2>4 DEF f, g
<1>. QED  BY <1>4, <1>5 DEF seqs

\* The whole has the values of all parts: its length and the number up to a bound.
LEMMA AllShards ==
  ASSUME NEW vals \in [Shards -> Seq(Nat)], NEW all \in Seq(Nat),
         \A w \in [Nat -> Nat] : Weigh(all, w) = Sigma([i \in Shards |-> Weigh(vals[i], w)], Shards)
  PROVE  /\ Len(all) = Sigma([i \in Shards |-> Len(vals[i])], Shards)
         /\ \A u \in Nat : AtMost(all, u) = Sigma([i \in Shards |-> AtMost(vals[i], u)], Shards)
         /\ [i \in Shards |-> Len(vals[i])] \in [Shards -> Nat]
         /\ \A u \in Nat : [i \in Shards |-> AtMost(vals[i], u)] \in [Shards -> Nat]
         /\ all = << >> <=> \A i \in Shards : vals[i] = << >>
<1>1. \A i \in Shards : vals[i] \in Seq(Nat)
  OBVIOUS
<1>2. Len(all) = Sigma([i \in Shards |-> Len(vals[i])], Shards)
  <2>1. [i \in Shards |-> Len(vals[i])] = [i \in Shards |-> Weigh(vals[i], Ones)]
    BY <1>1, LenIsWeight
  <2>. QED  BY <2>1, LenIsWeight, WeightTypes
<1>3. ASSUME NEW u \in Nat
      PROVE  /\ AtMost(all, u) = Sigma([i \in Shards |-> AtMost(vals[i], u)], Shards)
             /\ [i \in Shards |-> AtMost(vals[i], u)] \in [Shards -> Nat]
  <2>1. [i \in Shards |-> AtMost(vals[i], u)] = [i \in Shards |-> Weigh(vals[i], UpToOne(u))]
    BY <1>1, AtMostIsWeight
  <2>2. \A i \in Shards : Weigh(vals[i], UpToOne(u)) \in Nat
    BY <1>1, WeighType, WeightTypes
  <2>. QED  BY <2>1, <2>2, AtMostIsWeight, WeightTypes
<1>4. [i \in Shards |-> Len(vals[i])] \in [Shards -> Nat]
  BY <1>1, SeqFacts
<1>5. all = << >> <=> Len(all) = 0
  BY EmptySeq
<1>6. \A i \in Shards : vals[i] = << >> <=> Len(vals[i]) = 0
  BY <1>1, EmptySeq
<1>7. Len(all) = 0 <=> \A i \in Shards : Len(vals[i]) = 0
  <2>. DEFINE f == [i \in Shards |-> Len(vals[i])]
  <2>1. f \in [Shards -> Nat] /\ \A i \in Shards : f[i] = Len(vals[i])
    BY <1>4
  <2>. HIDE DEF f
  <2>2. Sigma(f, Shards) = 0 <=> \A i \in Shards : f[i] = 0
    BY <2>1, ShardsFinite, SigmaIsZero
  <2>. QED  BY <1>2, <2>1, <2>2 DEF f
<1>. QED  BY <1>2, <1>3, <1>4, <1>5, <1>6, <1>7

-----------------------------------------------------------------------------
(***************************************************************************)
(* Percentiles.                                                            *)
(***************************************************************************)
\* Latencies are numbers, and so are the percentiles of a distribution.
LEMMA LatenciesAreNumbers ==
  ASSUME NEW s \in Seq(Latencies)
  PROVE  s \in Seq(Nat) /\ \A k \in DOMAIN s : s[k] \in Latencies
<1>1. Latencies \subseteq Nat
  BY RunResultsAssumption
<1>2. Len(s) \in Nat /\ s \in [1 .. Len(s) -> Latencies] /\ DOMAIN s = 1 .. Len(s)
  BY LenProperties
<1>3. s \in [1 .. Len(s) -> Nat]
  BY <1>1, <1>2
<1>. QED  BY <1>2, <1>3, FunctionIsSeq

Distributions == [min : Nat, avg : Nat, max : Nat, at : [Percentages -> Nat]]

LEMMA DistributionFacts ==
  ASSUME NEW s \in Seq(Nat)
  PROVE  /\ DistributionOf(s) \in Distributions
         /\ s # << >> => \A p \in Percentages :
              /\ Rank(Len(s), p) \in 1 .. Len(s)
              /\ DistributionOf(s).at[p] = Sorted(s)[Rank(Len(s), p)]
<1>1. Len(s) \in Nat /\ DOMAIN s = 1 .. Len(s) /\ (s = << >> <=> Len(s) = 0)
  BY SeqFacts, EmptySeq
<1>2. CASE s = << >>
  BY <1>2 DEF DistributionOf, NoDistribution, Distributions
<1>3. CASE s # << >>
  <2>1. Len(s) \in Nat \ {0}
    BY <1>1, <1>3
  <2>2. \A p \in Percentages : Rank(Len(s), p) \in 1 .. Len(s)
    BY <2>1, RankFacts
  <2>3. \A r \in 1 .. Len(s) : Sorted(s)[r] \in Nat
    <3>1. Sorted(s) \in Seq(Nat) /\ DOMAIN Sorted(s) = 1 .. Len(s)
      BY <1>1, SortedFacts
    <3>. QED  BY <3>1, SeqFacts
  <2>4. 1 \in 1 .. Len(s) /\ Len(s) \in 1 .. Len(s)
    BY <2>1
  <2>5. Sum(s) \div Len(s) \in Nat
    <3>1. Sum(s) \in Nat
      BY SumIsWeight, WeighType, WeightTypes
    <3>. QED  BY <2>1, <3>1, DivFacts
  <2>. DEFINE d == [min |-> Sorted(s)[1], avg |-> Sum(s) \div Len(s), max |-> Sorted(s)[Len(s)],
                    at |-> [p \in Percentages |-> Sorted(s)[Rank(Len(s), p)]]]
  <2>6. DistributionOf(s) = d
    BY <1>3 DEF DistributionOf
  <2>7. d \in Distributions
    BY <2>2, <2>3, <2>4, <2>5 DEF Distributions
  <2>. QED  BY <2>2, <2>6, <2>7
<1>. QED  BY <1>2, <1>3

LEMMA AtMostType ==
  ASSUME NEW s \in Seq(Nat), NEW u \in Nat
  PROVE  AtMost(s, u) \in Nat
<1>1. AtMost(s, u) = Weigh(s, UpToOne(u)) /\ UpToOne(u) \in [Nat -> Nat]
  BY AtMostIsWeight, WeightTypes
<1>. QED  BY <1>1, WeighType

\* A percentile is at most u exactly when enough of the values are.
LEMMA PercentileAtMost ==
  ASSUME NEW s \in Seq(Nat), s # << >>, NEW p \in Percentages, NEW u \in Nat
  PROVE  DistributionOf(s).at[p] <= u <=> AtMost(s, u) * 100 >= p * Len(s)
<1>1. Len(s) \in Nat \ {0}
  BY SeqFacts, EmptySeq
<1>2. AtMost(s, u) \in Nat
  BY AtMostType
<1>3. Rank(Len(s), p) \in 1 .. Len(s)
  BY <1>1, RankFacts
<1>4. Sorted(s)[Rank(Len(s), p)] <= u <=> AtMost(s, u) >= Rank(Len(s), p)
  BY <1>3, RankOf
<1>5. AtMost(s, u) >= Rank(Len(s), p) <=> AtMost(s, u) * 100 >= p * Len(s)
  BY <1>1, <1>2, RankFacts
<1>. QED  BY <1>4, <1>5, DistributionFacts

\* The same for any bound on it, and of no values at all.
LEMMA EnoughAtMost ==
  ASSUME NEW s \in Seq(Nat), NEW p \in Percentages, NEW u \in Nat, DistributionOf(s).at[p] <= u
  PROVE  p * Len(s) <= 100 * AtMost(s, u)
<1>1. AtMost(s, u) \in Nat /\ Len(s) \in Nat /\ p \in Nat
  <2>1. AtMost(s, u) \in Nat
    BY AtMostType
  <2>2. Len(s) \in Nat /\ p \in Nat
    BY SeqFacts DEF Percentages
  <2>. QED  BY <2>1, <2>2
<1>2. CASE s = << >>
  <2>1. Len(s) = 0
    BY <1>2
  <2>. QED  BY <1>1, <2>1
<1>3. CASE s # << >>
  BY <1>1, <1>3, PercentileAtMost
<1>. QED  BY <1>2, <1>3

LEMMA IsPercentileFacts ==
  ASSUME NEW s \in Seq(Latencies), s # << >>, NEW p \in Percentages
  PROVE  IsPercentile(DistributionOf(s).at[p], p, s)
<1>. DEFINE v == DistributionOf(s).at[p]
<1>1. s \in Seq(Nat) /\ Latencies \subseteq Nat
  BY LatenciesAreNumbers, RunResultsAssumption
<1>2. v \in Latencies
  <2>1. Rank(Len(s), p) \in 1 .. Len(s) /\ v = Sorted(s)[Rank(Len(s), p)]
    BY <1>1, DistributionFacts
  <2>2. Rank(Len(s), p) \in DOMAIN s
    BY <1>1, <2>1, SeqFacts
  <2>3. \E i \in DOMAIN s : v = s[i]
    BY <1>1, <2>1, <2>2, SortedFacts
  <2>. QED  BY <2>3, LatenciesAreNumbers
<1>3. \A u \in Latencies : v <= u <=> AtMost(s, u) * 100 >= p * Len(s)
  BY <1>1, PercentileAtMost
<1>. HIDE DEF v
<1>4. v <= v
  BY <1>1, <1>2
<1>5. IsPercentile(v, p, s)
  BY <1>2, <1>3, <1>4 DEF IsPercentile, AtMost
<1>. QED  BY <1>5 DEF v

LEMMA IsPercentileOfAll ==
  ASSUME NEW s \in Seq(Nat), NEW t \in Seq(Nat), SameWeights(s, t), NEW v, NEW p,
         IsPercentile(v, p, s)
  PROVE  IsPercentile(v, p, t)
<1>1. Len(s) = Len(t) /\ (\A u \in Nat : AtMost(s, u) = AtMost(t, u)) /\ Latencies \subseteq Nat
  BY SameWeightsFacts, RunResultsAssumption
<1>2. \A u \in Latencies : AtMost(s, u) = AtMost(t, u)
  BY <1>1
<1>. QED  BY <1>1, <1>2 DEF IsPercentile, AtMost

-----------------------------------------------------------------------------
(***************************************************************************)
(* Results merged shard by shard: after any rounds of the loop the worst   *)
(* of the distributions met so far that weigh anything.                    *)
(***************************************************************************)
Mergeable(results) ==
  \A i \in Shards : Weight(results[i]) \in Nat /\ results[i].latency \in Distributions

States == [weight : Nat, latency : Distributions]
Start  == [weight |-> 0, latency |-> NoDistribution]

\* A round of the loop.
Joined(acc, r) ==
  IF Weight(r) = 0 THEN acc
  ELSE [weight |-> acc.weight + Weight(r),
        latency |-> mergeDistribution(acc.latency, r.latency, acc.weight, Weight(r))]

\* d has the extremes of the distributions of P.
Worst(d, P, results) ==
  /\ \E i \in P : d.min = results[i].latency.min
  /\ \E i \in P : d.max = results[i].latency.max
  /\ \A p \in Percentages : \E i \in P : d.at[p] = results[i].latency.at[p]
  /\ \A i \in P : /\ d.min <= results[i].latency.min /\ d.max >= results[i].latency.max
                  /\ \A p \in Percentages : d.at[p] >= results[i].latency.at[p]

Weighty(Q, results) == {i \in Q : Weight(results[i]) # 0}

WorstSoFar(acc, Q, results) ==
  /\ acc \in States
  /\ acc.weight = 0 => acc.latency = NoDistribution /\ Weighty(Q, results) = {}
  /\ acc.weight # 0 => Worst(acc.latency, Weighty(Q, results), results)

LEMMA MinOfTwo ==
  ASSUME NEW a \in Nat, NEW b \in Nat
  PROVE  Min({a, b}) \in {a, b} /\ Min({a, b}) <= a /\ Min({a, b}) <= b
<1>1. \E x \in {a, b} : \A y \in {a, b} : x <= y
  OBVIOUS
<1>. QED  BY <1>1 DEF Min

LEMMA MaxOfTwo ==
  ASSUME NEW a \in Nat, NEW b \in Nat
  PROVE  Max({a, b}) \in {a, b} /\ Max({a, b}) >= a /\ Max({a, b}) >= b
<1>1. \E x \in {a, b} : \A y \in {a, b} : x >= y
  OBVIOUS
<1>. QED  BY <1>1 DEF Max

LEMMA MergedDistribution ==
  ASSUME NEW d \in Distributions, NEW e \in Distributions, NEW m \in Nat \ {0}, NEW n \in Nat \ {0}
  PROVE  LET both == mergeDistribution(d, e, m, n)
         IN  /\ both \in Distributions
             /\ both.min \in {d.min, e.min} /\ both.min <= d.min /\ both.min <= e.min
             /\ both.max \in {d.max, e.max} /\ both.max >= d.max /\ both.max >= e.max
             /\ \A p \in Percentages : /\ both.at[p] \in {d.at[p], e.at[p]}
                                       /\ both.at[p] >= d.at[p] /\ both.at[p] >= e.at[p]
<1>. DEFINE both == [min |-> Min({d.min, e.min}), avg |-> (d.avg * m + e.avg * n) \div (m + n),
                     max |-> Max({d.max, e.max}),
                     at |-> [p \in Percentages |-> Max({d.at[p], e.at[p]})]]
<1>1. mergeDistribution(d, e, m, n) = both
  BY DEF mergeDistribution
<1>2. /\ d.min \in Nat /\ d.avg \in Nat /\ d.max \in Nat /\ \A p \in Percentages : d.at[p] \in Nat
      /\ e.min \in Nat /\ e.avg \in Nat /\ e.max \in Nat /\ \A p \in Percentages : e.at[p] \in Nat
  BY DEF Distributions
<1>3. Min({d.min, e.min}) \in {d.min, e.min} /\ Min({d.min, e.min}) <= d.min /\ Min({d.min, e.min}) <= e.min
  BY <1>2, MinOfTwo
<1>4. Max({d.max, e.max}) \in {d.max, e.max} /\ Max({d.max, e.max}) >= d.max /\ Max({d.max, e.max}) >= e.max
  BY <1>2, MaxOfTwo
<1>5. \A p \in Percentages : /\ Max({d.at[p], e.at[p]}) \in {d.at[p], e.at[p]}
                             /\ Max({d.at[p], e.at[p]}) >= d.at[p] /\ Max({d.at[p], e.at[p]}) >= e.at[p]
  BY <1>2, MaxOfTwo
<1>6. (d.avg * m + e.avg * n) \div (m + n) \in Nat
  <2>1. d.avg * m + e.avg * n \in Nat /\ m + n \in Nat \ {0}
    BY <1>2
  <2>. HIDE DEF both
  <2>. QED  BY <2>1, DivFacts
<1>7. both \in Distributions
  BY <1>2, <1>3, <1>4, <1>5, <1>6 DEF Distributions
<1>. QED  BY <1>1, <1>3, <1>4, <1>5, <1>7

LEMMA StartIsWorst == \A results : WorstSoFar(Start, {}, results)
  BY DEF WorstSoFar, Start, States, NoDistribution, Distributions, Weighty

LEMMA JoinedIsWorst ==
  ASSUME NEW results, Mergeable(results), NEW i \in Shards, NEW Q \in SUBSET Shards,
         NEW acc, WorstSoFar(acc, Q, results)
  PROVE  WorstSoFar(Joined(acc, results[i]), Q \cup {i}, results)
<1>. DEFINE r     == results[i]
            after == Joined(acc, r)
            P     == Weighty(Q, results)
            R     == Weighty(Q \cup {i}, results)
<1>1. Weight(r) \in Nat /\ r.latency \in Distributions
  BY DEF Mergeable
<1>2. acc.weight \in Nat /\ acc.latency \in Distributions
  BY DEF WorstSoFar, States
<1>3. CASE Weight(r) = 0
  <2>1. after = acc /\ R = P
    BY <1>3 DEF Joined, Weighty
  <2>. QED  BY <2>1 DEF WorstSoFar
<1>4. CASE Weight(r) # 0
  <2>. DEFINE d == mergeDistribution(acc.latency, r.latency, acc.weight, Weight(r))
  <2>1. after = [weight |-> acc.weight + Weight(r), latency |-> d] /\ R = P \cup {i} /\ i \in R
    BY <1>4 DEF Joined, Weighty
  <2>2. acc.weight + Weight(r) \in Nat \ {0}
    BY <1>1, <1>2, <1>4
  <2>3. d \in Distributions /\ Worst(d, R, results)
    <3>1. CASE acc.weight = 0
      <4>1. d = r.latency /\ R = {i}
        BY <2>1, <3>1 DEF mergeDistribution, WorstSoFar
      <4>2. /\ r.latency.min \in Nat /\ r.latency.max \in Nat
            /\ \A p \in Percentages : r.latency.at[p] \in Nat
        BY <1>1 DEF Distributions
      <4>. HIDE DEF d, R
      <4>. QED  BY <1>1, <4>1, <4>2 DEF Worst
    <3>2. CASE acc.weight # 0
      <4>. DEFINE e == acc.latency
                  f == r.latency
      <4>1. acc.weight \in Nat \ {0} /\ Weight(r) \in Nat \ {0}
        BY <1>1, <1>2, <1>4, <3>2
      <4>2. /\ d \in Distributions
            /\ d.min \in {e.min, f.min} /\ d.min <= e.min /\ d.min <= f.min
            /\ d.max \in {e.max, f.max} /\ d.max >= e.max /\ d.max >= f.max
            /\ \A p \in Percentages : /\ d.at[p] \in {e.at[p], f.at[p]}
                                      /\ d.at[p] >= e.at[p] /\ d.at[p] >= f.at[p]
        BY <1>1, <1>2, <4>1, MergedDistribution
      <4>3. Worst(e, P, results)
        BY <3>2 DEF WorstSoFar
      <4>4. /\ d.min \in Nat /\ d.max \in Nat /\ \A p \in Percentages : d.at[p] \in Nat
            /\ e.min \in Nat /\ e.max \in Nat /\ \A p \in Percentages : e.at[p] \in Nat
        BY <1>2, <4>2 DEF Distributions
      <4>5. \A j \in P : /\ results[j].latency.min \in Nat /\ results[j].latency.max \in Nat
                         /\ \A p \in Percentages : results[j].latency.at[p] \in Nat
        BY DEF Mergeable, Distributions, Weighty
      <4>. HIDE DEF d, P, R
      <4>6. (\E j \in R : d.min = results[j].latency.min) /\ (\E j \in R : d.max = results[j].latency.max)
        BY <2>1, <4>2, <4>3 DEF Worst
      <4>7. \A p \in Percentages : \E j \in R : d.at[p] = results[j].latency.at[p]
        BY <2>1, <4>2, <4>3 DEF Worst
      <4>8. ASSUME NEW j \in R
            PROVE  /\ d.min <= results[j].latency.min /\ d.max >= results[j].latency.max
                   /\ \A p \in Percentages : d.at[p] >= results[j].latency.at[p]
        <5>1. CASE j = i
          BY <4>2, <5>1
        <5>2. CASE j \in P
          <6>1. /\ e.min <= results[j].latency.min /\ e.max >= results[j].latency.max
                /\ \A p \in Percentages : e.at[p] >= results[j].latency.at[p]
            BY <4>3, <5>2 DEF Worst
          <6>2. /\ results[j].latency.min \in Nat /\ results[j].latency.max \in Nat
                /\ \A p \in Percentages : results[j].latency.at[p] \in Nat
            BY <4>5, <5>2
          <6>3. d.min <= results[j].latency.min /\ d.max >= results[j].latency.max
            BY <4>2, <4>4, <6>1, <6>2
          <6>4. \A p \in Percentages : d.at[p] >= results[j].latency.at[p]
            BY <4>2, <4>4, <6>1, <6>2
          <6>. QED  BY <6>3, <6>4
        <5>. QED  BY <2>1, <5>1, <5>2
      <4>. QED  BY <4>2, <4>6, <4>7, <4>8 DEF Worst
    <3>. QED  BY <3>1, <3>2
  <2>. HIDE DEF d, R, P
  <2>4. after \in States /\ after.weight # 0 /\ after.latency = d
    BY <2>1, <2>2, <2>3 DEF States
  <2>. HIDE DEF after
  <2>5. WorstSoFar(after, Q \cup {i}, results)
    BY <2>3, <2>4 DEF WorstSoFar, R
  <2>. QED  BY <2>5 DEF after
<1>. QED  BY <1>3, <1>4

LEMMA JoinedIsState ==
  ASSUME NEW results, Mergeable(results), NEW i \in Shards, NEW acc \in States
  PROVE  Joined(acc, results[i]) \in States
<1>. DEFINE r == results[i]
            d == mergeDistribution(acc.latency, r.latency, acc.weight, Weight(r))
<1>1. /\ Weight(r) \in Nat /\ r.latency \in Distributions
      /\ acc.weight \in Nat /\ acc.latency \in Distributions
  BY DEF Mergeable, States
<1>2. CASE Weight(r) = 0
  BY <1>2 DEF Joined
<1>3. CASE Weight(r) # 0
  <2>1. d \in Distributions
    <3>1. CASE acc.weight = 0
      BY <1>1, <3>1 DEF mergeDistribution
    <3>2. CASE acc.weight # 0
      <4>1. Weight(r) \in Nat \ {0} /\ acc.weight \in Nat \ {0}
        BY <1>1, <1>3, <3>2
      <4>. QED  BY <1>1, <4>1, MergedDistribution
    <3>. QED  BY <3>1, <3>2
  <2>2. Joined(acc, r) = [weight |-> acc.weight + Weight(r), latency |-> d]
    BY <1>3 DEF Joined
  <2>. HIDE DEF d
  <2>. QED  BY <1>1, <2>1, <2>2 DEF States
<1>. QED  BY <1>2, <1>3

\* In whatever order the shards are taken, the loop ends with the worst of all.
LEMMA ByShardIsWorst ==
  ASSUME NEW results, Mergeable(results), NEW order \in Orders
  PROVE  \E acc : MergedByShard(order, results) = acc.latency /\ WorstSoFar(acc, Shards, results)
<1>. DEFINE n    == Count
            D    == 1 .. n
            a(it) == [S \in SUBSET D |-> IF S = {} THEN Start
                                         ELSE Joined(it[S \ {Max(S)}], results[order[Max(S)]])]
            h    == [x \in D \X States |-> Joined(x[2], results[order[x[1]]])]
<1>1. /\ n \in Nat /\ n \in Nat \ {0} /\ DOMAIN order = D /\ order \in [D -> Shards]
      /\ \A i \in Shards : \E k \in D : order[k] = i
  BY OrderFacts DEF Bijection, Injection, Surjection
<1>2. MergedByShard(order, results) = (CHOOSE it : it = a(it))[D].latency
  BY <1>1 DEF MergedByShard, FoldLeft, MapThenFoldSet, Joined, Start
<1>3. \E it : it = a(it)
  <2>1. h \in [D \X States -> States]
    <3>1. \A x \in D \X States : Joined(x[2], results[order[x[1]]]) \in States
      BY <1>1, JoinedIsState
    <3>. QED  BY <3>1
  <2>2. PICK it \in [SUBSET D -> States] : Folds(it, D, Start, h)
    <3>. HIDE DEF n, h
    <3>1. Start \in States
      BY StartIsWorst DEF WorstSoFar
    <3>. QED  BY <1>1, <2>1, <3>1, FoldExists
  <2>3. ASSUME NEW S \in SUBSET D
        PROVE  it[S] = IF S = {} THEN Start ELSE Joined(it[S \ {Max(S)}], results[order[Max(S)]])
    <3>1. it[S] = IF S = {} THEN Start ELSE h[<<Max(S), it[S \ {Max(S)}]>>]
      BY <2>2 DEF Folds
    <3>2. CASE S # {}
      <4>1. Max(S) \in D
        <5>. HIDE DEF n
        <5>. QED  BY <1>1, <3>2, MaxOfPart
      <4>2. it[S \ {Max(S)}] \in States
        OBVIOUS
      <4>3. h[<<Max(S), it[S \ {Max(S)}]>>] = Joined(it[S \ {Max(S)}], results[order[Max(S)]])
        BY <4>1, <4>2
      <4>. QED  BY <3>1, <3>2, <4>3
    <3>. QED  BY <3>1, <3>2
  <2>4. it = a(it)
    BY <2>3
  <2>. QED  BY <2>4
<1>4. ASSUME NEW it, it = a(it) PROVE WorstSoFar(it[D], Shards, results)
  <2>1. \A S \in SUBSET D : it[S] = IF S = {} THEN Start
                                    ELSE Joined(it[S \ {Max(S)}], results[order[Max(S)]])
    <3>1. \A S \in SUBSET D : a(it)[S] = IF S = {} THEN Start
                                         ELSE Joined(it[S \ {Max(S)}], results[order[Max(S)]])
      OBVIOUS
    <3>. HIDE DEF a
    <3>. QED  BY <1>4, <3>1
  <2>. HIDE DEF a
  <2>. DEFINE Met(k) == {order[j] : j \in 1 .. k}
              G == {k \in Nat : k <= n => WorstSoFar(it[1 .. k], Met(k), results)}
  <2>2. 0 \in G
    <3>1. 1 .. 0 = {} /\ {} \in SUBSET D
      OBVIOUS
    <3>2. it[1 .. 0] = Start /\ Met(0) = {}
      BY <2>1, <3>1
    <3>. QED  BY <3>2, StartIsWorst
  <2>3. ASSUME NEW k \in Nat, k \in G PROVE k + 1 \in G
    <3>. SUFFICES ASSUME k + 1 <= n PROVE WorstSoFar(it[1 .. (k + 1)], Met(k + 1), results)
      OBVIOUS
    <3>. HIDE DEF n
    <3>1. WorstSoFar(it[1 .. k], Met(k), results)
      BY <1>1, <2>3
    <3>2. k + 1 \in D /\ k + 1 \in Nat \ {0} /\ k + 1 \in 1 .. (k + 1)
      BY <1>1
    <3>3. \A x \in 1 .. (k + 1) : x \in D
      BY <1>1
    <3>4. 1 .. (k + 1) \in SUBSET D /\ 1 .. (k + 1) # {}
      BY <3>2, <3>3
    <3>5. Max(1 .. (k + 1)) = k + 1
      BY <3>2, MaxOfInterval
    <3>6. (1 .. (k + 1)) \ {k + 1} = 1 .. k
      OBVIOUS
    <3>7. it[1 .. (k + 1)] = Joined(it[1 .. k], results[order[k + 1]])
      BY <2>1, <3>4, <3>5, <3>6
    <3>8. order[k + 1] \in Shards /\ Met(k) \in SUBSET Shards
      <4>1. \A j \in 1 .. k : j \in D
        BY <1>1
      <4>. QED  BY <1>1, <3>2, <4>1
    <3>9. Met(k + 1) = Met(k) \cup {order[k + 1]}
      <4>1. \A j : j \in 1 .. (k + 1) <=> j \in 1 .. k \/ j = k + 1
        OBVIOUS
      <4>. QED  BY <4>1
    <3>. HIDE DEF Met
    <3>. QED  BY <3>1, <3>7, <3>8, <3>9, JoinedIsWorst
  <2>4. n \in G
    <3>. HIDE DEF G, n
    <3>. QED  BY <1>1, <2>2, <2>3, Inductive
  <2>5. Met(n) = Shards
    BY <1>1
  <2>6. n <= n => WorstSoFar(it[1 .. n], Met(n), results)
    BY <2>4
  <2>. HIDE DEF Met
  <2>. QED  BY <1>1, <2>5, <2>6
<1>. HIDE DEF a, D
<1>. DEFINE it == CHOOSE it : it = a(it)
<1>5. it = a(it)
  BY <1>3
<1>. HIDE DEF it
<1>6. WorstSoFar(it[D], Shards, results)
  BY <1>4, <1>5
<1>. QED  BY <1>2, <1>6 DEF it

-----------------------------------------------------------------------------
(***************************************************************************)
(* What was posted, and what was merged from it: a shard that has posted   *)
(* neither counts nor samples any more, so its result stays the one its    *)
(* books and samples give.                                                 *)
(***************************************************************************)
Results == [i \in Shards |-> ResultOf(i)]

\* Only successes are sampled, in their steady state.
SamplesAreSuccesses == \A i \in Shards : Len(measured[i]) <= books[i].count.successes

PostedIsResult == \A i \in Shards : result[i] # Missing /\ ~merged.posted => result[i] = ResultOf(i)

MergedOfResults ==
  merged.posted => /\ \A i \in Shards : result[i] # Missing
                   /\ \E order \in Orders : merged = Merge(order, Results)

MergedInv == SamplesAreSuccesses /\ PostedIsResult /\ MergedOfResults

TimesAreTaken == elapsed \in Elapsed

NumbersInv == SamplesInv /\ AccountsInv /\ MergedInv /\ TimesAreTaken

LEMMA InitMerged == Init => MergedInv
  BY DEF Init, MergedInv, SamplesAreSuccesses, PostedIsResult, MergedOfResults, Missing, Counters

LEMMA AttemptKeepsMerged ==
  ASSUME NumbersInv, NEW i \in Shards, NEW outcome \in Outcomes, NEW latency,
         Attempt(i, outcome, latency)
  PROVE  MergedInv'
<1>1. /\ result' = result /\ merged' = merged /\ old' = old /\ elapsed' = elapsed
      /\ result[i] = Missing
      /\ \A j \in Shards \ {i} : books'[j] = books[j] /\ sample'[j] = sample[j] /\ measured'[j] = measured[j]
  BY DEF Attempt, NumbersInv, AccountsInv, SamplesInv
<1>2. ~merged.posted
  BY <1>1 DEF NumbersInv, MergedInv, MergedOfResults
<1>3. \A j \in Shards \ {i} : ResultOf(j)' = ResultOf(j)
  BY <1>1 DEF ResultOf
<1>4. PostedIsResult'
  BY <1>1, <1>2, <1>3 DEF NumbersInv, MergedInv, PostedIsResult
<1>5. MergedOfResults'
  BY <1>1, <1>2 DEF MergedOfResults
<1>6. Len(measured'[i]) <= books'[i].count.successes
  <2>. DEFINE count == books[i].count
              plus == IF "successes" \in Counted(i, outcome, latency) THEN 1 ELSE 0
  <2>1. books'[i].count.successes = count.successes + plus
    BY DEF Attempt, NumbersInv, AccountsInv, Counters
  <2>2. count.successes \in Nat /\ Len(measured[i]) \in Nat /\ Len(measured[i]) <= count.successes
    <3>1. Balanced(count) /\ "successes" \in Counters /\ measured[i] \in Seq(Latencies)
      BY DEF NumbersInv, AccountsInv, BooksBalance, Counters, SamplesInv
    <3>2. Len(measured[i]) \in Nat
      BY <3>1, LenProperties
    <3>3. Len(measured[i]) <= count.successes
      BY DEF NumbersInv, MergedInv, SamplesAreSuccesses
    <3>. QED  BY <3>1, <3>2, <3>3 DEF Balanced
  <2>3. plus \in {0, 1}
    OBVIOUS
  <2>4. CASE outcome = "success" /\ Steady(i)
    <3>1. measured' = [measured EXCEPT ![i] = Append(measured[i], latency)]
      BY <2>4 DEF Attempt
    <3>2. Len(measured'[i]) = Len(measured[i]) + 1
      <4>1. measured'[i] = Append(measured[i], latency)
        BY <3>1 DEF NumbersInv, SamplesInv
      <4>. QED  BY <4>1 DEF NumbersInv, SamplesInv
    <3>3. plus = 1
      BY <2>4 DEF Counted
    <3>. HIDE DEF plus, count
    <3>. QED  BY <2>1, <2>2, <3>2, <3>3
  <2>5. CASE ~(outcome = "success" /\ Steady(i))
    <3>1. measured' = measured
      BY <2>5 DEF Attempt
    <3>. HIDE DEF plus, count
    <3>. QED  BY <2>1, <2>2, <2>3, <3>1
  <2>. QED  BY <2>4, <2>5
<1>7. SamplesAreSuccesses'
  <2>1. ASSUME NEW j \in Shards PROVE Len(measured'[j]) <= books'[j].count.successes
    <3>1. CASE j # i
      BY <1>1, <3>1 DEF NumbersInv, MergedInv, SamplesAreSuccesses
    <3>. QED  BY <1>6, <3>1
  <2>. QED  BY <2>1 DEF SamplesAreSuccesses
<1>. QED  BY <1>4, <1>5, <1>7 DEF MergedInv

LEMMA PostKeepsMerged ==
  ASSUME NumbersInv, NEW i \in Shards, Post(i)
  PROVE  MergedInv'
<1>. DEFINE results == [result EXCEPT ![i] = ResultOf(i)]
<1>1. /\ books' = books /\ sample' = sample /\ measured' = measured /\ old' = old
      /\ elapsed' = elapsed /\ result[i] = Missing /\ DOMAIN result = Shards
  BY DEF Post, NumbersInv, AccountsInv, ResultsAreTheBooks
<1>2. (\A j : ResultOf(j)' = ResultOf(j)) /\ Results' = Results
  BY <1>1 DEF Results, ResultOf
<1>3. SamplesAreSuccesses'
  BY <1>1 DEF NumbersInv, MergedInv, SamplesAreSuccesses
<1>4. ~merged.posted
  BY <1>1 DEF NumbersInv, MergedInv, MergedOfResults
<1>5. \A j \in Shards : ResultOf(j) # Missing
  BY DEF ResultOf, Missing
<1>6. \A j \in Shards : results[j] # Missing => results[j] = ResultOf(j)
  BY <1>1, <1>4 DEF NumbersInv, MergedInv, PostedIsResult
<1>7. CASE \E j \in Shards : results[j] = Missing
  <2>1. result' = results /\ merged' = merged
    BY <1>7 DEF Post
  <2>. HIDE DEF results
  <2>. QED  BY <1>2, <1>3, <1>4, <1>6, <2>1 DEF MergedInv, PostedIsResult, MergedOfResults
<1>8. CASE \A j \in Shards : results[j] # Missing
  <2>1. PICK order \in Orders : merged' = Merge(order, results)
    BY <1>8 DEF Post
  <2>2. results = Results
    BY <1>1, <1>6, <1>8 DEF Results
  <2>3. result' = [j \in Shards |-> [results[j] EXCEPT !.samples = << >>]]
    BY <1>8 DEF Post
  <2>4. \A j \in Shards : result'[j] # Missing
    <3>1. \A j \in Shards : result'[j] = [ResultOf(j) EXCEPT !.samples = << >>]
      BY <1>6, <1>8, <2>3
    <3>2. \A j \in Shards : result'[j].posted = TRUE
      BY <3>1 DEF ResultOf
    <3>. QED  BY <3>2 DEF Missing
  <2>5. merged'.posted = TRUE
    BY <2>1 DEF Merge
  <2>. HIDE DEF results
  <2>6. MergedOfResults'
    BY <1>2, <2>1, <2>2, <2>4 DEF MergedOfResults
  <2>7. PostedIsResult'
    BY <2>5 DEF PostedIsResult
  <2>. QED  BY <1>3, <2>6, <2>7 DEF MergedInv
<1>. QED  BY <1>7, <1>8

LEMMA NumbersHold == Spec => []NumbersInv
<1>1. Init => NumbersInv
  BY InitSamples, InitAccounts, InitMerged DEF NumbersInv, Init, TimesAreTaken
<1>2. NumbersInv /\ [Next]_vars => NumbersInv'
  <2>. SUFFICES ASSUME NumbersInv, [Next]_vars PROVE NumbersInv'
    OBVIOUS
  <2>1. SamplesInv' /\ AccountsInv'
    BY NextKeepsSamples, NextKeepsAccounts DEF NumbersInv
  <2>2. ASSUME NEW i \in Shards, NEW latency \in Latencies, Attempt(i, "success", latency)
        PROVE  MergedInv'
    BY <2>2, AttemptKeepsMerged DEF Outcomes
  <2>3. ASSUME NEW i \in Shards, NEW outcome \in Outcomes \ {"success"}, Attempt(i, outcome, 0)
        PROVE  MergedInv'
    BY <2>3, AttemptKeepsMerged
  <2>4. ASSUME NEW i \in Shards, Post(i) PROVE MergedInv'
    BY <2>4, PostKeepsMerged
  <2>5. ASSUME UNCHANGED vars PROVE MergedInv'
    <3>1. /\ books' = books /\ sample' = sample /\ measured' = measured /\ old' = old
          /\ elapsed' = elapsed /\ result' = result /\ merged' = merged
      BY <2>5 DEF vars
    <3>2. (\A j : ResultOf(j)' = ResultOf(j)) /\ Results' = Results
      BY <3>1 DEF Results, ResultOf
    <3>3. SamplesAreSuccesses'
      BY <3>1 DEF NumbersInv, MergedInv, SamplesAreSuccesses
    <3>4. PostedIsResult'
      BY <3>1, <3>2 DEF NumbersInv, MergedInv, PostedIsResult
    <3>5. MergedOfResults'
      BY <3>1, <3>2 DEF NumbersInv, MergedInv, MergedOfResults
    <3>. QED  BY <3>3, <3>4, <3>5 DEF MergedInv
  <2>6. MergedInv'
    <3>1. CASE \E i \in Shards, latency \in Latencies : Attempt(i, "success", latency)
      BY <2>2, <3>1
    <3>2. CASE \E i \in Shards, outcome \in Outcomes \ {"success"} : Attempt(i, outcome, 0)
      BY <2>3, <3>2
    <3>3. CASE \E i \in Shards : Post(i)
      BY <2>4, <3>3
    <3>. QED  BY <2>5, <3>1, <3>2, <3>3 DEF Next
  <2>7. TimesAreTaken'
    BY DEF NumbersInv, TimesAreTaken, Next, Attempt, Post, vars
  <2>. QED  BY <2>1, <2>6, <2>7 DEF NumbersInv
<1>. QED  BY <1>1, <1>2, PTL DEF Spec

-----------------------------------------------------------------------------
(***************************************************************************)
(* The results as they are merged.                                         *)
(***************************************************************************)
Sent == [i \in Shards |-> ResultOf(i).samples]

LEMMA ShardFacts ==
  ASSUME NumbersInv, NEW i \in Shards
  PROVE  /\ sample[i].values \in Seq(Nat) /\ measured[i] \in Seq(Nat) /\ measured[i] \in Seq(Latencies)
         /\ Results[i].latency = DistributionOf(sample[i].values)
         /\ Results[i].latency \in Distributions
         /\ Sent[i] = (IF i \in old THEN << >> ELSE sample[i].values) /\ Sent[i] \in Seq(Nat)
         /\ Weight(Results[i]) = (IF i \in old \/ sample[i].seen = 0
                                    THEN books[i].count.successes ELSE sample[i].seen)
         /\ Weight(Results[i]) \in Nat
         /\ Results[i].count = books[i].count /\ Results[i].count \in [Counters -> Nat]
         /\ Results[i].samples = Sent[i]
         /\ Results[i].decimated = (i \notin old /\ sample[i].decimated)
<1>1. Results[i] = ResultOf(i) /\ Sent[i] = ResultOf(i).samples
  BY DEF Results, Sent
<1>2. /\ sample[i] \in SampleRec(Latencies) /\ measured[i] \in Seq(Latencies)
      /\ books[i].count \in [Counters -> Nat]
  BY DEF NumbersInv, SamplesInv, AccountsInv, BooksBalance, Balanced
<1>3. sample[i].values \in Seq(Latencies) /\ sample[i].seen \in Nat
  BY <1>2 DEF SampleRec
<1>4. sample[i].values \in Seq(Nat) /\ measured[i] \in Seq(Nat)
  BY <1>2, <1>3, LatenciesAreNumbers
<1>5. DistributionOf(sample[i].values) \in Distributions
  BY <1>4, DistributionFacts
<1>6. books[i].count.successes \in Nat
  BY <1>2 DEF Counters
<1>7. /\ ResultOf(i).latency = DistributionOf(sample[i].values)
      /\ ResultOf(i).samples = (IF i \in old THEN << >> ELSE sample[i].values)
      /\ ResultOf(i).count = books[i].count
      /\ ResultOf(i).decimated = (i \notin old /\ sample[i].decimated)
      /\ ResultOf(i).steadySamples = (IF i \in old THEN 0 ELSE sample[i].seen)
  BY DEF ResultOf
<1>8. Weight(Results[i]) = (IF i \in old \/ sample[i].seen = 0
                              THEN books[i].count.successes ELSE sample[i].seen)
  BY <1>1, <1>7 DEF Weight
<1>9. << >> \in Seq(Nat)
  OBVIOUS
<1>. QED  BY <1>1, <1>2, <1>3, <1>4, <1>5, <1>6, <1>7, <1>8, <1>9

LEMMA ResultsMergeable == NumbersInv => Mergeable(Results) /\ Sent \in [Shards -> Seq(Nat)]
<1>. SUFFICES ASSUME NumbersInv PROVE Mergeable(Results) /\ Sent \in [Shards -> Seq(Nat)]
  OBVIOUS
<1>1. \A i \in Shards : /\ Weight(Results[i]) \in Nat /\ Results[i].latency \in Distributions
                        /\ Sent[i] \in Seq(Nat)
  BY ShardFacts
<1>2. DOMAIN Sent = Shards /\ Sent = [i \in Shards |-> Sent[i]]
  BY DEF Sent
<1>. QED  BY <1>1, <1>2 DEF Mergeable

LEMMA PooledFacts ==
  ASSUME NumbersInv, NEW order \in Orders
  PROVE  /\ Pooled(order, Results) \in Seq(Nat)
         /\ \A w \in [Nat -> Nat] :
              Weigh(Pooled(order, Results), w) = Sigma([i \in Shards |-> Weigh(Sent[i], w)], Shards)
         /\ Pooled(order, Results) = << >> <=> \A i \in Shards : Sent[i] = << >>
<1>1. Sent \in [Shards -> Seq(Nat)]
  BY ResultsMergeable
<1>2. Pooled(order, Results) = FlattenSeq([k \in 1 .. Count |-> Sent[order[k]]])
  <2>1. \A k \in 1 .. Count : order[k] \in Shards
    BY OrderFacts DEF Bijection, Injection
  <2>2. \A k \in 1 .. Count : Results[order[k]].samples = Sent[order[k]]
    BY <2>1, ShardFacts
  <2>. QED  BY <2>2 DEF Pooled
<1>3. /\ Pooled(order, Results) \in Seq(Nat)
      /\ \A w \in [Nat -> Nat] :
           Weigh(Pooled(order, Results), w) = Sigma([i \in Shards |-> Weigh(Sent[i], w)], Shards)
  BY <1>1, <1>2, ShardsInOrder
<1>4. Pooled(order, Results) = << >> <=> \A i \in Shards : Sent[i] = << >>
  <2>. DEFINE all == Pooled(order, Results)
  <2>. HIDE DEF all
  <2>1. /\ all \in Seq(Nat)
        /\ \A w \in [Nat -> Nat] :
             Weigh(all, w) = Sigma([i \in Shards |-> Weigh(Sent[i], w)], Shards)
    BY <1>3 DEF all
  <2>2. all = << >> <=> \A i \in Shards : Sent[i] = << >>
    BY <1>1, <2>1, AllShards
  <2>. QED  BY <2>2 DEF all
<1>. QED  BY <1>3, <1>4

\* The merged distribution, in both scopes.
LEMMA MergeFacts ==
  ASSUME NumbersInv, NEW order \in Orders
  PROVE  LET m == Merge(order, Results)
             pooled == Pooled(order, Results)
         IN  /\ pooled # << >> => m.scope = "pooled_samples" /\ m.latency = DistributionOf(pooled)
             /\ pooled = << >> => /\ m.scope = (IF Count > 1 THEN "worst_shard_p95" ELSE "")
                                  /\ \E acc : m.latency = acc.latency /\ WorstSoFar(acc, Shards, Results)
             /\ m.decimated <=> \E i \in Shards : i \notin old /\ sample[i].decimated
             /\ m.latency \in Distributions
<1>. DEFINE m == Merge(order, Results)
            pooled == Pooled(order, Results)
<1>1. pooled \in Seq(Nat)
  BY PooledFacts
<1>2. \E acc : MergedByShard(order, Results) = acc.latency /\ WorstSoFar(acc, Shards, Results)
  BY ResultsMergeable, ByShardIsWorst
<1>3. DistributionOf(pooled) \in Distributions
  BY <1>1, DistributionFacts
<1>4. MergedByShard(order, Results) \in Distributions
  BY <1>2 DEF WorstSoFar, States
<1>5. /\ m.latency = (IF pooled # << >> THEN DistributionOf(pooled) ELSE MergedByShard(order, Results))
      /\ m.scope = (IF pooled # << >> THEN "pooled_samples"
                    ELSE IF Count > 1 THEN "worst_shard_p95" ELSE "")
      /\ m.decimated = \E i \in Shards : Results[i].decimated
  BY DEF Merge
<1>6. \A i \in Shards : Results[i].decimated = (i \notin old /\ sample[i].decimated)
  BY ShardFacts
<1>. HIDE DEF m, pooled
<1>7. m.decimated <=> \E i \in Shards : i \notin old /\ sample[i].decimated
  BY <1>5, <1>6
<1>8. m.latency \in Distributions
  BY <1>3, <1>4, <1>5
<1>9. pooled # << >> => m.scope = "pooled_samples" /\ m.latency = DistributionOf(pooled)
  BY <1>5
<1>10. pooled = << >> => /\ m.scope = (IF Count > 1 THEN "worst_shard_p95" ELSE "")
                         /\ \E acc : m.latency = acc.latency /\ WorstSoFar(acc, Shards, Results)
  BY <1>2, <1>5
<1>. QED  BY <1>7, <1>8, <1>9, <1>10 DEF m, pooled

-----------------------------------------------------------------------------
(***************************************************************************)
(* The order in which a Go map gives the shards.                           *)
(***************************************************************************)
LEMMA WorstIsUnique ==
  ASSUME NEW results, Mergeable(results), NEW a, NEW b,
         WorstSoFar(a, Shards, results), WorstSoFar(b, Shards, results)
  PROVE  /\ a.latency.min = b.latency.min /\ a.latency.max = b.latency.max
         /\ a.latency.at = b.latency.at
<1>. DEFINE P == Weighty(Shards, results)
            d == a.latency
            e == b.latency
<1>1. d \in Distributions /\ e \in Distributions
  BY DEF WorstSoFar, States
<1>2. \A i \in P : results[i].latency \in Distributions
  BY DEF Mergeable, Weighty
<1>3. CASE P = {}
  <2>1. a.weight = 0 /\ b.weight = 0
    BY <1>3 DEF WorstSoFar, Worst
  <2>. QED  BY <2>1 DEF WorstSoFar
<1>4. CASE P # {}
  <2>1. Worst(d, P, results) /\ Worst(e, P, results)
    BY <1>4 DEF WorstSoFar
  <2>2. /\ d.min \in Nat /\ d.max \in Nat /\ \A p \in Percentages : d.at[p] \in Nat
        /\ e.min \in Nat /\ e.max \in Nat /\ \A p \in Percentages : e.at[p] \in Nat
        /\ d.at \in [Percentages -> Nat] /\ e.at \in [Percentages -> Nat]
    BY <1>1 DEF Distributions
  <2>. HIDE DEF d, e, P
  <2>3. d.min = e.min
    <3>1. d.min <= e.min /\ e.min <= d.min
      BY <2>1 DEF Worst
    <3>. QED  BY <2>2, <3>1
  <2>4. d.max = e.max
    <3>1. d.max >= e.max /\ e.max >= d.max
      BY <2>1 DEF Worst
    <3>. QED  BY <2>2, <3>1
  <2>5. ASSUME NEW p \in Percentages PROVE d.at[p] = e.at[p]
    <3>1. d.at[p] >= e.at[p] /\ e.at[p] >= d.at[p]
      BY <2>1 DEF Worst
    <3>. QED  BY <2>2, <3>1
  <2>6. d.at = e.at
    BY <2>2, <2>5
  <2>. QED  BY <2>3, <2>4, <2>6 DEF d, e
<1>. QED  BY <1>3, <1>4

LEMMA SameButOneField ==
  ASSUME NEW m, NEW n, DOMAIN m = DOMAIN n, NEW f, \A x \in DOMAIN m : x # f => m[x] = n[x], NEW e
  PROVE  [m EXCEPT ![f] = e] = [n EXCEPT ![f] = e]
OBVIOUS

LEMMA OrderIsIrrelevant ==
  ASSUME NumbersInv, NEW one \in Orders, NEW two \in Orders
  PROVE  LET m == Merge(one, Results)
             n == Merge(two, Results)
         IN  /\ m.scope = n.scope
             /\ m.scope = "pooled_samples" => m = n
             /\ [m EXCEPT !.latency.avg = 0] = [n EXCEPT !.latency.avg = 0]
<1>. DEFINE m == Merge(one, Results)
            n == Merge(two, Results)
            p == Pooled(one, Results)
            q == Pooled(two, Results)
            Same(d) == [posted |-> TRUE,
                        count |-> [c \in Counters |-> IF c \in Summed THEN Total(c, Results) ELSE 0],
                        seconds |-> Duration, latency |-> d, scope |-> m.scope,
                        decimated |-> \E i \in Shards : Results[i].decimated]
<1>1. p \in Seq(Nat) /\ q \in Seq(Nat) /\ (p = << >> <=> q = << >>) /\ SameWeights(p, q)
  BY PooledFacts DEF SameWeights
<1>2. m.scope = n.scope
  BY <1>1 DEF Merge
<1>3. m = Same(m.latency) /\ n = Same(n.latency)
  BY <1>1 DEF Merge
<1>4. m.latency \in Distributions /\ n.latency \in Distributions
  BY MergeFacts
<1>5. CASE p # << >>
  <2>1. DistributionOf(p) = DistributionOf(q)
    BY <1>1, DistributionIsOrderFree
  <2>2. m.latency = DistributionOf(p) /\ n.latency = DistributionOf(q)
    BY <1>1, <1>5, MergeFacts
  <2>. HIDE DEF m, n, p, q, Same
  <2>3. m = n
    BY <1>3, <2>1, <2>2
  <2>. QED  BY <1>2, <2>3 DEF m, n
<1>6. CASE p = << >>
  <2>1. m.scope # "pooled_samples"
    BY <1>6 DEF Merge
  <2>2. /\ \E a : m.latency = a.latency /\ WorstSoFar(a, Shards, Results)
        /\ \E b : n.latency = b.latency /\ WorstSoFar(b, Shards, Results)
    BY <1>1, <1>6, MergeFacts
  <2>. HIDE DEF m, n, p, q
  <2>3. PICK a, b : /\ m.latency = a.latency /\ WorstSoFar(a, Shards, Results)
                    /\ n.latency = b.latency /\ WorstSoFar(b, Shards, Results)
    BY <2>2
  <2>4. Mergeable(Results)
    BY ResultsMergeable
  <2>5. /\ m.latency.min = n.latency.min /\ m.latency.max = n.latency.max
        /\ m.latency.at = n.latency.at
    BY <2>3, <2>4, WorstIsUnique
  <2>6. [m.latency EXCEPT !.avg = 0] = [n.latency EXCEPT !.avg = 0]
    BY <1>4, <2>5 DEF Distributions
  <2>7. DOMAIN m = DOMAIN n /\ \A x \in DOMAIN m : x # "latency" => m[x] = n[x]
    <3>1. \A d : DOMAIN Same(d) = {"posted", "count", "seconds", "latency", "scope", "decimated"}
      OBVIOUS
    <3>2. \A d, e : /\ Same(d).posted = Same(e).posted /\ Same(d).count = Same(e).count
                    /\ Same(d).scope = Same(e).scope /\ Same(d).decimated = Same(e).decimated
                    /\ Same(d).seconds = Same(e).seconds
      OBVIOUS
    <3>. HIDE DEF Same
    <3>3. /\ m.posted = n.posted /\ m.count = n.count /\ m.seconds = n.seconds
          /\ m.scope = n.scope /\ m.decimated = n.decimated /\ DOMAIN m = DOMAIN n
          /\ DOMAIN m = {"posted", "count", "seconds", "latency", "scope", "decimated"}
      BY <1>3, <3>1, <3>2
    <3>. QED  BY <3>3
  <2>8. /\ [m EXCEPT !.latency.avg = 0] = [m EXCEPT !.latency = [m.latency EXCEPT !.avg = 0]]
        /\ [n EXCEPT !.latency.avg = 0] = [n EXCEPT !.latency = [n.latency EXCEPT !.avg = 0]]
    OBVIOUS
  <2>. HIDE DEF Same
  <2>9. [m EXCEPT !.latency.avg = 0] = [n EXCEPT !.latency.avg = 0]
    BY <2>6, <2>7, <2>8, SameButOneField
  <2>. QED  BY <1>2, <2>1, <2>9 DEF m, n
<1>. QED  BY <1>5, <1>6

(***************************************************************************)
(* CompleteShard merges faithfully, for any number of shards and whatever  *)
(* mix of agent releases: its counters lose nothing, and the order of a    *)
(* Go map shows in no count, no extreme and no percentile, of the numbers  *)
(* modelled only in the rounding of an average merged from averages.       *)
(***************************************************************************)
THEOREM MergingIsFaithful == Spec => []MergeIsFaithful
<1>1. ASSUME NumbersInv PROVE MergeOrderIrrelevant
  <2>1. SUFFICES ASSUME merged.posted, NEW order \in Orders
                 PROVE  LET other == Merge(order, [i \in Shards |-> ResultOf(i)])
                            BlindTo(m) == IF m.scope = "pooled_samples" THEN m
                                          ELSE [m EXCEPT !.latency.avg = 0]
                        IN  BlindTo(other) = BlindTo(merged)
    BY DEF MergeOrderIrrelevant
  <2>2. PICK first \in Orders : merged = Merge(first, Results)
    BY <1>1, <2>1 DEF NumbersInv, MergedInv, MergedOfResults
  <2>. DEFINE m == Merge(order, Results)
              n == Merge(first, Results)
  <2>3. /\ m.scope = n.scope
        /\ m.scope = "pooled_samples" => m = n
        /\ [m EXCEPT !.latency.avg = 0] = [n EXCEPT !.latency.avg = 0]
    BY <1>1, OrderIsIrrelevant
  <2>4. merged = n /\ Merge(order, [i \in Shards |-> ResultOf(i)]) = m
    BY <2>2 DEF Results
  <2>. HIDE DEF m, n
  <2>. QED  BY <2>3, <2>4
<1>2. NumbersInv => RunAccountsForAttempts
  BY AccountsAddUp DEF NumbersInv
<1>3. NumbersInv => MergeIsFaithful
  BY <1>1, <1>2 DEF MergeIsFaithful
<1>. QED  BY <1>3, NumbersHold, PTL

-----------------------------------------------------------------------------
(***************************************************************************)
(* Percentiles of a merged result.                                         *)
(***************************************************************************)
\* A bound that every part meets for its percentile is one that the whole meets.
LEMMA PartsMeetBound ==
  ASSUME NEW vals \in [Shards -> Seq(Nat)], NEW all \in Seq(Nat), all # << >>,
         \A w \in [Nat -> Nat] : Weigh(all, w) = Sigma([i \in Shards |-> Weigh(vals[i], w)], Shards),
         NEW p \in Percentages, NEW u \in Nat,
         \A i \in Shards : p * Len(vals[i]) <= 100 * AtMost(vals[i], u)
  PROVE  DistributionOf(all).at[p] <= u
<1>. DEFINE f == [i \in Shards |-> Len(vals[i])]
            g == [i \in Shards |-> AtMost(vals[i], u)]
<1>1. /\ Len(all) = Sigma(f, Shards) /\ AtMost(all, u) = Sigma(g, Shards)
      /\ f \in [Shards -> Nat] /\ g \in [Shards -> Nat]
  BY AllShards
<1>2. \A i \in Shards : p * f[i] <= 100 * g[i]
  OBVIOUS
<1>. HIDE DEF f, g
<1>3. p \in Nat /\ 100 \in Nat
  BY DEF Percentages
<1>4. p * Sigma(f, Shards) <= 100 * Sigma(g, Shards)
  BY <1>1, <1>2, <1>3, ShardsFinite, SigmaAtMost
<1>5. Sigma(f, Shards) \in Nat /\ Sigma(g, Shards) \in Nat
  BY <1>1, ShardsFinite, SigmaCounts
<1>6. AtMost(all, u) * 100 >= p * Len(all)
  BY <1>1, <1>3, <1>4, <1>5
<1>. QED  BY <1>6, PercentileAtMost

\* What no shard left out is everything that was measured.
LEMMA UndecimatedIsMeasured ==
  ASSUME NumbersInv, NEW i \in Shards, ~sample[i].decimated
  PROVE  sample[i].values = measured[i]
<1>. DEFINE set == sample[i]
            s   == set.values
            t   == measured[i]
<1>1. set \in SampleRec(Latencies) /\ t \in Seq(Latencies) /\ Spread(set, t)
  BY DEF NumbersInv, SamplesInv
<1>2. s \in Seq(Latencies) /\ set.stride \in Nat \ {0}
  BY <1>1 DEF SampleRec
<1>3. set.stride = 1
  BY <1>1, <1>2 DEF Spread
<1>4. Len(t) \in Nat /\ Len(s) = Len(t) \div 1 /\ \A k \in 1 .. Len(s) : s[k] = t[k * 1]
  <2>1. Keeps(s, 1, t) /\ Len(t) \in Nat
    <3>1. Keeps(s, set.stride, t)
      BY <1>1 DEF Spread
    <3>2. Len(t) \in Nat
      BY <1>1, LenProperties
    <3>. HIDE DEF set, s, t
    <3>. QED  BY <1>3, <3>1, <3>2
  <2>. HIDE DEF s, t
  <2>. QED  BY <2>1 DEF Keeps
<1>. HIDE DEF s, t
<1>5. Len(s) = Len(t) /\ \A k \in 1 .. Len(s) : s[k] = t[k]
  BY <1>4
<1>6. s = t
  BY <1>1, <1>2, <1>5
<1>. QED  BY <1>6 DEF s, t

LEMMA MeasuredFacts ==
  ASSUME NumbersInv
  PROVE  /\ measured \in [Shards -> Seq(Nat)] /\ Measured \in Seq(Nat) /\ Measured \in Seq(Latencies)
         /\ \A w \in [Nat -> Nat] :
              Weigh(Measured, w) = Sigma([i \in Shards |-> Weigh(measured[i], w)], Shards)
<1>1. measured \in [Shards -> Seq(Latencies)] /\ \A i \in Shards : measured[i] \in Seq(Nat)
  BY ShardFacts DEF NumbersInv, SamplesInv
<1>2. measured \in [Shards -> Seq(Nat)]
  BY <1>1
<1>. DEFINE order == [k \in 1 .. Count |-> k - 1]
<1>3. order \in Orders
  BY OrderFacts
<1>4. Measured = FlattenSeq([k \in 1 .. Count |-> measured[order[k]]])
  BY DEF Measured
<1>. HIDE DEF order
<1>5. /\ Measured \in Seq(Nat)
      /\ \A w \in [Nat -> Nat] :
           Weigh(Measured, w) = Sigma([i \in Shards |-> Weigh(measured[i], w)], Shards)
  BY <1>2, <1>3, <1>4, ShardsInOrder
<1>6. Measured \in Seq(Latencies)
  <2>. DEFINE w == [v \in Nat |-> IF v \in Latencies THEN 0 ELSE 1]
  <2>1. w \in [Nat -> Nat] /\ \A v \in Nat : w[v] = 0 <=> v \in Latencies
    OBVIOUS
  <2>. HIDE DEF w
  <2>2. \A s \in Seq(Nat) : Weigh(s, w) = 0 <=> \A k \in DOMAIN s : s[k] \in Latencies
    <3>. SUFFICES ASSUME NEW s \in Seq(Nat)
                  PROVE  Weigh(s, w) = 0 <=> \A k \in DOMAIN s : s[k] \in Latencies
      OBVIOUS
    <3>. DEFINE D == DOMAIN s
                f == [k \in D |-> w[s[k]]]
    <3>1. IsFiniteSet(D) /\ f \in [D -> Nat] /\ (\A k \in D : f[k] = w[s[k]] /\ s[k] \in Nat)
      BY <2>1, SeqFacts
    <3>2. Weigh(s, w) = Sigma(f, D)
      BY DEF Weigh
    <3>. HIDE DEF D, f
    <3>3. Sigma(f, D) = 0 <=> \A k \in D : f[k] = 0
      BY <3>1, SigmaIsZero
    <3>4. \A k \in D : f[k] = 0 <=> s[k] \in Latencies
      BY <2>1, <3>1
    <3>5. Weigh(s, w) = 0 <=> \A k \in D : s[k] \in Latencies
      BY <3>2, <3>3, <3>4
    <3>. QED  BY <3>5 DEF D
  <2>3. \A i \in Shards : Weigh(measured[i], w) = 0
    BY <1>1, <2>2, LatenciesAreNumbers
  <2>. DEFINE g == [i \in Shards |-> Weigh(measured[i], w)]
  <2>4. g \in [Shards -> Nat] /\ \A i \in Shards : g[i] = 0
    BY <2>3
  <2>5. Weigh(Measured, w) = Sigma(g, Shards)
    BY <1>5, <2>1
  <2>. HIDE DEF g
  <2>6. Weigh(Measured, w) = 0
    BY <2>4, <2>5, ShardsFinite, SigmaIsZero
  <2>7. \A k \in DOMAIN Measured : Measured[k] \in Latencies
    BY <1>5, <2>2, <2>6
  <2>8. DOMAIN Measured = 1 .. Len(Measured) /\ Len(Measured) \in Nat
    BY <1>5, SeqFacts
  <2>9. Measured \in [1 .. Len(Measured) -> Latencies]
    BY <1>5, <2>7, <2>8
  <2>. QED  BY <2>8, <2>9, FunctionIsSeq
<1>. QED  BY <1>2, <1>5, <1>6

\* A shard that bounds its percentile and sent samples has enough of them.
LEMMA SentMeetsBound ==
  ASSUME NumbersInv, NEW i \in Shards, NEW p \in Percentages, NEW u \in Nat,
         Results[i].latency.at[p] <= u
  PROVE  p * Len(Sent[i]) <= 100 * AtMost(Sent[i], u)
<1>. DEFINE s == sample[i].values
<1>1. s \in Seq(Nat) /\ DistributionOf(s).at[p] <= u /\ Sent[i] = (IF i \in old THEN << >> ELSE s)
  BY ShardFacts
<1>. HIDE DEF s
<1>2. CASE i \in old
  <2>1. Sent[i] = << >> /\ Sent[i] \in Seq(Nat)
    BY <1>1, <1>2
  <2>2. Len(Sent[i]) = 0 /\ AtMost(Sent[i], u) \in Nat /\ p \in Nat
    <3>1. AtMost(Sent[i], u) \in Nat
      BY <2>1, AtMostType
    <3>. QED  BY <2>1, <3>1 DEF Percentages
  <2>. QED  BY <2>2
<1>3. CASE i \notin old
  BY <1>1, <1>3, EnoughAtMost
<1>. QED  BY <1>2, <1>3

\* The percentile of the run exceeds no bound that every shard's meets.
LEMMA MergeMeetsBound ==
  ASSUME NumbersInv, NEW order \in Orders, NEW p \in Percentages, NEW u \in Nat,
         \A i \in Shards : Results[i].latency.at[p] <= u
  PROVE  Merge(order, Results).latency.at[p] <= u
<1>. DEFINE d   == Merge(order, Results).latency
            all == Pooled(order, Results)
<1>1. CASE all # << >>
  <2>1. d = DistributionOf(all)
    BY <1>1, MergeFacts
  <2>2. /\ Sent \in [Shards -> Seq(Nat)] /\ all \in Seq(Nat)
        /\ \A w \in [Nat -> Nat] : Weigh(all, w) = Sigma([i \in Shards |-> Weigh(Sent[i], w)], Shards)
    BY ResultsMergeable, PooledFacts
  <2>3. \A i \in Shards : p * Len(Sent[i]) <= 100 * AtMost(Sent[i], u)
    BY SentMeetsBound
  <2>. HIDE DEF d, all
  <2>4. DistributionOf(all).at[p] <= u
    BY <1>1, <2>2, <2>3, PartsMeetBound
  <2>. QED  BY <2>1, <2>4 DEF d
<1>2. CASE all = << >>
  <2>1. \E acc : d = acc.latency /\ WorstSoFar(acc, Shards, Results)
    BY <1>2, MergeFacts
  <2>. HIDE DEF d, all
  <2>2. PICK acc : d = acc.latency /\ WorstSoFar(acc, Shards, Results)
    BY <2>1
  <2>3. CASE acc.weight = 0
    BY <2>2, <2>3 DEF WorstSoFar, NoDistribution, d
  <2>4. CASE acc.weight # 0
    <3>1. Worst(d, Weighty(Shards, Results), Results)
      BY <2>2, <2>4 DEF WorstSoFar
    <3>2. \E i \in Shards : d.at[p] = Results[i].latency.at[p]
      BY <3>1 DEF Worst, Weighty
    <3>. QED  BY <3>2 DEF d
  <2>. QED  BY <2>3, <2>4
<1>. QED  BY <1>1, <1>2

LEMMA PooledIsExact == NumbersInv => PooledExactOrFlagged
<1>. SUFFICES ASSUME NumbersInv, merged.posted, merged.scope = "pooled_samples", old = {},
                     ~merged.decimated, NEW p \in Percentages
              PROVE  IsPercentile(merged.latency.at[p], p, Measured)
  BY DEF PooledExactOrFlagged
<1>1. PICK order \in Orders : merged = Merge(order, Results)
  BY DEF NumbersInv, MergedInv, MergedOfResults
<1>. DEFINE all == Pooled(order, Results)
<1>2. all # << >> /\ merged.latency = DistributionOf(all)
  <2>1. all # << >>
    BY <1>1, MergeFacts
  <2>. QED  BY <1>1, <2>1, MergeFacts
<1>3. \A i \in Shards : ~sample[i].decimated
  BY <1>1, MergeFacts
<1>4. \A i \in Shards : Sent[i] = measured[i]
  <2>1. \A i \in Shards : Sent[i] = sample[i].values
    BY ShardFacts
  <2>. QED  BY <1>3, <2>1, UndecimatedIsMeasured
<1>5. /\ all \in Seq(Nat)
      /\ \A w \in [Nat -> Nat] : Weigh(all, w) = Sigma([i \in Shards |-> Weigh(Sent[i], w)], Shards)
  BY PooledFacts
<1>. HIDE DEF all
<1>6. SameWeights(Measured, all)
  <2>1. \A w \in [Nat -> Nat] :
          [i \in Shards |-> Weigh(Sent[i], w)] = [i \in Shards |-> Weigh(measured[i], w)]
    BY <1>4
  <2>. QED  BY <1>5, <2>1, MeasuredFacts DEF SameWeights
<1>7. DistributionOf(Measured) = DistributionOf(all) /\ Measured # << >>
  BY <1>2, <1>5, <1>6, MeasuredFacts, DistributionIsOrderFree
<1>8. IsPercentile(DistributionOf(Measured).at[p], p, Measured)
  BY <1>7, MeasuredFacts, IsPercentileFacts
<1>. QED  BY <1>2, <1>7, <1>8

LEMMA WorstShardIsEnough == NumbersInv => WorstShardNeverUnderstates
<1>. SUFFICES ASSUME NumbersInv, merged.posted, merged.scope = "worst_shard_p95", Measured # << >>,
                     \A i \in Shards : ~sample[i].decimated, NEW p \in Percentages
              PROVE  \E v \in Latencies : IsPercentile(v, p, Measured) /\ v <= merged.latency.at[p]
  BY DEF WorstShardNeverUnderstates
<1>1. PICK order \in Orders : merged = Merge(order, Results)
  BY DEF NumbersInv, MergedInv, MergedOfResults
<1>. DEFINE all == Pooled(order, Results)
            d   == merged.latency
            u   == d.at[p]
<1>2. all = << >>
  BY <1>1, MergeFacts
<1>3. PICK acc : d = acc.latency /\ WorstSoFar(acc, Shards, Results)
  BY <1>1, <1>2, MergeFacts
<1>4. u \in Nat
  BY <1>1, MergeFacts DEF Distributions
<1>5. \A i \in Shards : Sent[i] = << >>
  BY <1>2, PooledFacts
<1>. HIDE DEF u
<1>6. ASSUME NEW i \in Shards PROVE p * Len(measured[i]) <= 100 * AtMost(measured[i], u)
  <2>. DEFINE s == measured[i]
  <2>1. s \in Seq(Nat) /\ sample[i].values = s
    BY ShardFacts, UndecimatedIsMeasured
  <2>. HIDE DEF s
  <2>2. Len(s) \in Nat /\ (s = << >> <=> Len(s) = 0) /\ AtMost(s, u) \in Nat /\ p \in Nat
    <3>1. AtMost(s, u) \in Nat
      BY <1>4, <2>1, AtMostType
    <3>2. Len(s) \in Nat /\ (s = << >> <=> Len(s) = 0)
      BY <2>1, SeqFacts, EmptySeq
    <3>. QED  BY <3>1, <3>2 DEF Percentages
  <2>3. CASE s = << >>
    BY <2>2, <2>3 DEF s
  <2>4. CASE s # << >>
    <3>1. i \in old
      BY <1>5, <2>1, <2>4, ShardFacts
    <3>2. books[i].count.successes \in Nat /\ Len(s) <= books[i].count.successes
      BY ShardFacts
         DEF NumbersInv, MergedInv, SamplesAreSuccesses, s, AccountsInv, BooksBalance, Balanced, Counters
    <3>3. Weight(Results[i]) # 0
      <4>1. Weight(Results[i]) = books[i].count.successes
        BY <3>1, ShardFacts
      <4>. QED  BY <2>2, <2>4, <3>2, <4>1
    <3>4. i \in Weighty(Shards, Results)
      BY <3>3 DEF Weighty
    <3>5. d.at[p] >= Results[i].latency.at[p]
      BY <1>3, <3>4 DEF WorstSoFar, Worst
    <3>6. Results[i].latency = DistributionOf(s) /\ Results[i].latency \in Distributions
      BY <2>1, ShardFacts
    <3>7. DistributionOf(s).at[p] <= u
      BY <1>4, <3>5, <3>6 DEF u, Distributions
    <3>. QED  BY <1>4, <2>1, <3>7, EnoughAtMost DEF s
  <2>. QED  BY <2>3, <2>4
<1>7. DistributionOf(Measured).at[p] <= u
  BY <1>4, <1>6, MeasuredFacts, PartsMeetBound
<1>8. IsPercentile(DistributionOf(Measured).at[p], p, Measured)
  BY MeasuredFacts, IsPercentileFacts
<1>9. DistributionOf(Measured).at[p] \in Latencies
  BY <1>8 DEF IsPercentile
<1>. QED  BY <1>7, <1>8, <1>9 DEF u

(***************************************************************************)
(* The percentiles of a completed run are honest, for any number of shards *)
(* and any bound on samples: pooled samples give what one process would    *)
(* have computed over all that was measured, or the result is flagged; and *)
(* the percentile of the worst shard, which stands in for them where older *)
(* agents sent no samples, is never below that of the run.                 *)
(***************************************************************************)
THEOREM PercentilesStayHonest == Spec => []PercentilesAreHonest
<1>1. NumbersInv => PercentilesAreHonest
  BY PooledIsExact, WorstShardIsEnough DEF PercentilesAreHonest
<1>. QED  BY <1>1, NumbersHold, PTL

-----------------------------------------------------------------------------
(***************************************************************************)
(* The verdict on a run whose shards all met the limits.                   *)
(***************************************************************************)
Of(field, i) == OutcomeOf(ResultOf(i))[field]

LEMMA ShardsAdd ==
  ASSUME NEW f, NEW g, NEW h, f \in [Shards -> Nat], g \in [Shards -> Nat], h \in [Shards -> Nat],
         \A i \in Shards : h[i] = f[i] + g[i]
  PROVE  Sigma(h, Shards) = Sigma(f, Shards) + Sigma(g, Shards)
BY ShardsFinite, SigmaAdds

LEMMA ShardsAtMost ==
  ASSUME NEW f, NEW g, NEW m, NEW n, f \in [Shards -> Nat], g \in [Shards -> Nat],
         m \in Nat, n \in Nat, \A i \in Shards : m * f[i] <= n * g[i]
  PROVE  m * Sigma(f, Shards) <= n * Sigma(g, Shards)
BY ShardsFinite, SigmaAtMost

\* The limits are at most hundreds, and a default of 95.
LEMMA LimitsFacts ==
  ASSUME NEW limits \in RunLimits
  PROVE  /\ limits.minCompletion \in Nat /\ limits.maxError \in Nat /\ limits.maxP95 \in Nat
         /\ limits.maxTTFT \in Nat /\ limits.minRate \in Nat
<1>1. limits \in Limits
  BY RunResultsAssumption
<1>. QED  BY <1>1 DEF Limits

\* The outcomes of the shards add up to that of the run, its percentiles aside.
LEMMA OutcomesAddUp ==
  ASSUME NumbersInv, merged.posted
  PROVE  LET r == OutcomeOf(merged)
             Over(f) == [i \in Shards |-> Of(f, i)]
         IN  /\ \A f \in {"total", "failures", "issued", "completed", "tokens"} :
                  /\ Over(f) \in [Shards -> Nat] /\ Sigma(Over(f), Shards) \in Nat
             /\ r.total = Sigma(Over("total"), Shards)
             /\ r.failures = Sigma(Over("failures"), Shards)
             /\ r.issued = Sigma(Over("issued"), Shards)
             /\ r.completed = Sigma(Over("completed"), Shards)
             /\ r.tokens = Sigma(Over("tokens"), Shards)
<1>. DEFINE r == OutcomeOf(merged)
            s == Tally("successes")
            h == Tally("httpFailures")
            t == Tally("transportErrors")
            failed == [i \in Shards |-> Of("failures", i)]
            done   == [i \in Shards |-> Of("completed", i)]
            total  == [i \in Shards |-> Of("total", i)]
<1>1. \A i \in Shards : /\ books[i].count \in [Counters -> Nat]
                        /\ ResultOf(i).count = books[i].count
  BY DEF NumbersInv, AccountsInv, BooksBalance, Balanced, ResultOf
<1>2. /\ s \in [Shards -> Nat] /\ h \in [Shards -> Nat] /\ t \in [Shards -> Nat]
      /\ Tally("issued") \in [Shards -> Nat]
      /\ \A i \in Shards : /\ s[i] = books[i].count.successes /\ h[i] = books[i].count.httpFailures
                           /\ t[i] = books[i].count.transportErrors
  BY <1>1 DEF Tally, Counters
<1>3. /\ [i \in Shards |-> Of("issued", i)] = Tally("issued")
      /\ [i \in Shards |-> Of("tokens", i)] = s
  BY <1>1 DEF Of, OutcomeOf, Tally
<1>4. \A i \in Shards : /\ failed[i] = h[i] + t[i] /\ done[i] = s[i] + h[i]
                        /\ total[i] = s[i] + h[i] + t[i]
  BY <1>1, <1>2 DEF Of, OutcomeOf
<1>5. DOMAIN failed = Shards /\ DOMAIN done = Shards /\ DOMAIN total = Shards
      /\ failed = [i \in Shards |-> failed[i]] /\ done = [i \in Shards |-> done[i]]
      /\ total = [i \in Shards |-> total[i]]
  OBVIOUS
<1>6. /\ merged.count.successes = Sigma(s, Shards) /\ merged.count.httpFailures = Sigma(h, Shards)
      /\ merged.count.transportErrors = Sigma(t, Shards)
      /\ merged.count.issued = Sigma(Tally("issued"), Shards)
  BY DEF NumbersInv, AccountsInv, MergedIsTheSum, Summed, Counters
<1>. HIDE DEF s, h, t, failed, done, total
<1>7. \A i \in Shards : s[i] \in Nat /\ h[i] \in Nat /\ t[i] \in Nat
  BY <1>2
<1>8. failed \in [Shards -> Nat] /\ done \in [Shards -> Nat] /\ total \in [Shards -> Nat]
  BY <1>4, <1>5, <1>7
<1>9. Sigma(failed, Shards) = Sigma(h, Shards) + Sigma(t, Shards)
  <2>1. \A i \in Shards : failed[i] = h[i] + t[i]
    BY <1>4
  <2>2. s \in [Shards -> Nat] /\ h \in [Shards -> Nat] /\ t \in [Shards -> Nat]
    BY <1>2
  <2>. QED  BY <1>8, <2>1, <2>2, ShardsAdd
<1>10. Sigma(done, Shards) = Sigma(s, Shards) + Sigma(h, Shards)
  <2>1. \A i \in Shards : done[i] = s[i] + h[i]
    BY <1>4
  <2>2. s \in [Shards -> Nat] /\ h \in [Shards -> Nat] /\ t \in [Shards -> Nat]
    BY <1>2
  <2>. QED  BY <1>8, <2>1, <2>2, ShardsAdd
<1>11. Sigma(total, Shards) = Sigma(done, Shards) + Sigma(t, Shards)
  <2>1. \A i \in Shards : total[i] = done[i] + t[i]
    BY <1>4, <1>7
  <2>2. s \in [Shards -> Nat] /\ h \in [Shards -> Nat] /\ t \in [Shards -> Nat]
    BY <1>2
  <2>. QED  BY <1>8, <2>1, <2>2, ShardsAdd
<1>12. /\ Sigma(failed, Shards) \in Nat /\ Sigma(done, Shards) \in Nat /\ Sigma(total, Shards) \in Nat
       /\ Sigma(s, Shards) \in Nat /\ Sigma(h, Shards) \in Nat /\ Sigma(t, Shards) \in Nat
       /\ Sigma(Tally("issued"), Shards) \in Nat
  BY <1>2, <1>8, ShardsFinite, SigmaCounts
<1>13. /\ r.total = Sigma(total, Shards) /\ r.failures = Sigma(failed, Shards)
       /\ r.issued = Sigma(Tally("issued"), Shards) /\ r.completed = Sigma(done, Shards)
       /\ r.tokens = Sigma(s, Shards)
  <2>1. /\ r.total = merged.count.successes + merged.count.httpFailures + merged.count.transportErrors
        /\ r.failures = merged.count.httpFailures + merged.count.transportErrors
        /\ r.issued = merged.count.issued
        /\ r.completed = merged.count.successes + merged.count.httpFailures
        /\ r.tokens = merged.count.successes
    BY DEF OutcomeOf
  <2>. QED  BY <1>6, <1>9, <1>10, <1>11, <1>12, <2>1
<1>. QED  BY <1>2, <1>3, <1>8, <1>12, <1>13 DEF total, failed, done

(***************************************************************************)
(* IsRunStable of a merged result: a run whose every shard met the limits  *)
(* meets them, whatever the limits and however many shards there are, so   *)
(* that merging never makes a capacity search step down from a load that   *)
(* all its agents called stable.  For the output rate, which a shard       *)
(* divides by the time it took and the run by its configured duration, it  *)
(* takes that the shards together took that duration.                      *)
(***************************************************************************)
THEOREM StableShardsGiveAStableRun == Spec => []StableShardsMakeAStableRun
<1>1. ASSUME NumbersInv PROVE StableShardsMakeAStableRun
  <2>1. SUFFICES ASSUME merged.posted, NEW limits \in RunLimits,
                        \A i \in Shards : IsRunStable(OutcomeOf(ResultOf(i)), limits)
                 PROVE  /\ IsRunStable(OutcomeOf(merged), [limits EXCEPT !.minRate = 0])
                        /\ TimeIsCovered => IsRunStable(OutcomeOf(merged), limits)
    BY DEF StableShardsMakeAStableRun
  <2>. DEFINE r == OutcomeOf(merged)
              total  == [i \in Shards |-> Of("total", i)]
              failed == [i \in Shards |-> Of("failures", i)]
              issued == [i \in Shards |-> Of("issued", i)]
              done   == [i \in Shards |-> Of("completed", i)]
              tokens == [i \in Shards |-> Of("tokens", i)]
              least  == IF limits.minCompletion = 0 THEN 95 ELSE limits.minCompletion
  <2>2. /\ total \in [Shards -> Nat] /\ failed \in [Shards -> Nat] /\ issued \in [Shards -> Nat]
        /\ done \in [Shards -> Nat] /\ tokens \in [Shards -> Nat]
        /\ r.total = Sigma(total, Shards) /\ r.failures = Sigma(failed, Shards)
        /\ r.issued = Sigma(issued, Shards) /\ r.completed = Sigma(done, Shards)
        /\ r.tokens = Sigma(tokens, Shards)
    BY <1>1, <2>1, OutcomesAddUp
  <2>3. /\ limits.maxError \in Nat /\ limits.maxP95 \in Nat /\ limits.maxTTFT \in Nat
        /\ limits.minRate \in Nat /\ least \in Nat
    BY LimitsFacts
  <2>4. 0 \in Shards
    BY RunResultsAssumption DEF Shards
  <2>5. \A i \in Shards :
          /\ Of("total", i) > 0
          /\ Of("issued", i) = 0 \/ ~(Of("completed", i) * 100 < least * Of("issued", i))
          /\ ~(Of("failures", i) * 100 > limits.maxError * Of("total", i))
          /\ Of("p95", i) <= limits.maxP95
          /\ limits.maxTTFT > 0 => Of("ttft", i) <= limits.maxTTFT
    BY <2>1 DEF IsRunStable, CompletionShortfall, ErrorsExceed, Of
  <2>6. \A i \in Shards :
          /\ total[i] > 0
          /\ least * issued[i] <= 100 * done[i]
          /\ 100 * failed[i] <= limits.maxError * total[i]
    <3>1. ASSUME NEW i \in Shards
          PROVE  /\ total[i] > 0
                 /\ least * issued[i] <= 100 * done[i]
                 /\ 100 * failed[i] <= limits.maxError * total[i]
      <4>1. /\ total[i] = Of("total", i) /\ failed[i] = Of("failures", i) /\ issued[i] = Of("issued", i)
            /\ done[i] = Of("completed", i)
        OBVIOUS
      <4>. HIDE DEF total, failed, issued, done, least
      <4>2. /\ total[i] \in Nat /\ failed[i] \in Nat /\ issued[i] \in Nat /\ done[i] \in Nat
        BY <2>2
      <4>3. least * issued[i] \in Nat /\ limits.maxError * total[i] \in Nat /\ least * 0 = 0
        BY <2>3, <4>2
      <4>4. least * issued[i] <= 100 * done[i]
        BY <2>5, <4>1, <4>2, <4>3
      <4>5. 100 * failed[i] <= limits.maxError * total[i]
        BY <2>5, <4>1, <4>2, <4>3
      <4>. QED  BY <2>5, <4>1, <4>4, <4>5
    <3>. QED  BY <3>1
  <2>. HIDE DEF total, failed, issued, done, tokens, least, r
  <2>7. r.total > 0
    <3>1. total[0] <= Sigma(total, Shards) /\ Sigma(total, Shards) \in Nat /\ total[0] \in Nat
      BY <2>2, <2>4, ShardsFinite, SigmaCovers
    <3>. QED  BY <2>2, <2>4, <2>6, <3>1
  <2>8. least * r.issued <= 100 * r.completed
    <3>1. 100 \in Nat /\ \A i \in Shards : least * issued[i] <= 100 * done[i]
      BY <2>6
    <3>2. least * Sigma(issued, Shards) <= 100 * Sigma(done, Shards)
      <4>1. /\ issued \in [Shards -> Nat] /\ done \in [Shards -> Nat] /\ least \in Nat
        BY <2>2, <2>3
      <4>. QED  BY <3>1, <4>1, ShardsAtMost
    <3>. QED  BY <2>2, <3>2
  <2>9. 100 * r.failures <= limits.maxError * r.total
    <3>1. 100 \in Nat /\ \A i \in Shards : 100 * failed[i] <= limits.maxError * total[i]
      BY <2>6
    <3>2. 100 * Sigma(failed, Shards) <= limits.maxError * Sigma(total, Shards)
      <4>1. /\ failed \in [Shards -> Nat] /\ total \in [Shards -> Nat] /\ limits.maxError \in Nat
        BY <2>2, <2>3
      <4>. QED  BY <3>1, <4>1, ShardsAtMost
    <3>. QED  BY <2>2, <3>2
  <2>10. TimeIsCovered => ~RateFallsShort(r, limits)
    <3>. SUFFICES ASSUME TimeIsCovered, limits.minRate > 0
                  PROVE  limits.minRate * Duration <= r.tokens
      <4>1. r.seconds = Duration
        <5>1. PICK order \in Orders : merged = Merge(order, Results)
          BY <1>1, <2>1 DEF NumbersInv, MergedInv, MergedOfResults
        <5>. QED  BY <5>1 DEF Merge, r, OutcomeOf
      <4>2. limits.minRate * Duration \in Nat /\ r.tokens \in Nat
        BY <2>2, <2>3, RunResultsAssumption, ShardsFinite, SigmaCounts
      <4>. QED  BY <4>1, <4>2 DEF RateFallsShort
    <3>1. elapsed \in [Shards -> Nat]
      BY <1>1, RunResultsAssumption DEF NumbersInv, TimesAreTaken, Shards
    <3>2. Duration <= Sigma(elapsed, Shards) /\ Sigma(elapsed, Shards) \in Nat
      BY <3>1, ShardsFinite, SigmaCounts DEF TimeIsCovered, Sigma
    <3>3. \A i \in Shards : limits.minRate * elapsed[i] <= 1 * tokens[i]
      <4>. SUFFICES ASSUME NEW i \in Shards PROVE limits.minRate * elapsed[i] <= tokens[i]
        BY <2>2
      <4>1. ~RateFallsShort(OutcomeOf(ResultOf(i)), limits)
        BY <2>1 DEF IsRunStable
      <4>2. OutcomeOf(ResultOf(i)).seconds = elapsed[i] /\ OutcomeOf(ResultOf(i)).tokens = tokens[i]
        BY DEF OutcomeOf, ResultOf, tokens, Of
      <4>3. limits.minRate * elapsed[i] \in Nat /\ tokens[i] \in Nat
        BY <2>2, <2>3, <3>1
      <4>. QED  BY <4>1, <4>2, <4>3 DEF RateFallsShort
    <3>4. limits.minRate * Sigma(elapsed, Shards) <= 1 * Sigma(tokens, Shards)
      BY <2>2, <2>3, <3>1, <3>3, ShardsAtMost
    <3>5. limits.minRate * Duration <= limits.minRate * Sigma(elapsed, Shards)
      BY <2>3, <3>2, RunResultsAssumption, MulMono
    <3>6. /\ limits.minRate * Sigma(elapsed, Shards) \in Nat /\ limits.minRate * Duration \in Nat
          /\ Sigma(tokens, Shards) \in Nat
      BY <2>2, <2>3, <3>2, RunResultsAssumption, ShardsFinite, SigmaCounts
    <3>. QED  BY <2>2, <3>4, <3>5, <3>6
  <2>11. \A u \in Nat : (\A i \in Shards : Of("p95", i) <= u) => r.p95 <= u
    <3>. SUFFICES ASSUME NEW u \in Nat, \A i \in Shards : Of("p95", i) <= u PROVE r.p95 <= u
      OBVIOUS
    <3>1. PICK order \in Orders : merged = Merge(order, Results)
      BY <1>1, <2>1 DEF NumbersInv, MergedInv, MergedOfResults
    <3>2. 95 \in Percentages /\ \A i \in Shards : Results[i].latency.at[95] <= u
      BY DEF Of, OutcomeOf, Results, Percentages
    <3>3. Merge(order, Results).latency.at[95] <= u
      BY <1>1, <3>2, MergeMeetsBound
    <3>. QED  BY <3>1, <3>3 DEF r, OutcomeOf
  <2>12. r.ttft = r.p95 /\ \A i \in Shards : Of("ttft", i) = Of("p95", i)
    BY DEF r, Of, OutcomeOf
  <2>13. r.p95 <= limits.maxP95 /\ (limits.maxTTFT > 0 => r.ttft <= limits.maxTTFT)
    BY <2>3, <2>5, <2>11, <2>12
  <2>14. ~CompletionShortfall(r, limits) /\ ~ErrorsExceed(r, limits)
    <3>1. r.issued \in Nat /\ r.completed \in Nat /\ r.failures \in Nat /\ r.total \in Nat
      BY <2>2, ShardsFinite, SigmaCounts
    <3>2. least * r.issued \in Nat /\ limits.maxError * r.total \in Nat
      BY <2>3, <3>1
    <3>3. ~(r.completed * 100 < least * r.issued) /\ ~(r.failures * 100 > limits.maxError * r.total)
      BY <2>8, <2>9, <3>1, <3>2
    <3>. QED  BY <3>3 DEF CompletionShortfall, ErrorsExceed, least
  <2>15. TimeIsCovered => IsRunStable(r, limits)
    BY <2>7, <2>10, <2>13, <2>14 DEF IsRunStable
  <2>16. IsRunStable(r, [limits EXCEPT !.minRate = 0])
    <3>. DEFINE blind == [limits EXCEPT !.minRate = 0]
    <3>1. /\ blind.minCompletion = limits.minCompletion /\ blind.maxError = limits.maxError
          /\ blind.maxP95 = limits.maxP95 /\ blind.maxTTFT = limits.maxTTFT /\ blind.minRate = 0
      <4>1. limits \in Limits
        BY RunResultsAssumption
      <4>. QED  BY <4>1 DEF Limits
    <3>. HIDE DEF blind
    <3>2. ~RateFallsShort(r, blind)
      BY <3>1 DEF RateFallsShort
    <3>3. ~CompletionShortfall(r, blind) /\ ~ErrorsExceed(r, blind)
      BY <2>14, <3>1 DEF CompletionShortfall, ErrorsExceed
    <3>. QED  BY <2>7, <2>13, <3>1, <3>2, <3>3 DEF IsRunStable, blind
  <2>. QED  BY <2>15, <2>16 DEF r
<1>. QED  BY <1>1, NumbersHold, PTL
=============================================================================
