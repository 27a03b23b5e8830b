------------------------ MODULE CapacitySearchProofs ------------------------
(***************************************************************************)
(* Facts about the operators of CapacitySearch, for all inputs.            *)
(***************************************************************************)
EXTENDS CapacitySearch, WellFoundedInduction, TLAPS

(***************************************************************************)
(* Min and Max are elements of the sets of naturals they are taken of.     *)
(***************************************************************************)
LEMMA MinOfNats ==
  ASSUME NEW S, S \subseteq Nat, S # {}
  PROVE  Min(S) \in S /\ \A x \in S : Min(S) <= x
<1>1. PICK m \in S : \A x \in S : <<x, m>> \notin OpToRel(<, Nat)
  BY NatLessThanWellFounded, WFMin
<1>2. ASSUME NEW x \in S PROVE m <= x
  <2>1. ~(x < m)
    BY <1>1 DEF OpToRel
  <2>. QED  BY <2>1
<1>. QED  BY <1>2 DEF Min

LEMMA MaxOfNats ==
  ASSUME NEW n \in Nat, NEW S, S \subseteq 0 .. n, S # {}
  PROVE  Max(S) \in S /\ \A x \in S : x <= Max(S)
<1>. DEFINE Mirror == {y \in 0 .. n : n - y \in S}
<1>1. \A x \in S : x \in 0 .. n /\ n - x \in Mirror
  <2>1. ASSUME NEW x \in S PROVE x \in 0 .. n
    OBVIOUS
  <2>2. ASSUME NEW x \in 0 .. n PROVE n - x \in 0 .. n /\ n - (n - x) = x
    OBVIOUS
  <2>. QED  BY <2>1, <2>2
<1>2. Mirror \subseteq Nat /\ Mirror # {}
  <2>1. PICK x \in S : TRUE
    OBVIOUS
  <2>2. n - x \in Mirror
    BY <1>1, <2>1
  <2>3. \A y \in Mirror : y \in Nat
    OBVIOUS
  <2>. HIDE DEF Mirror
  <2>. QED  BY <2>2, <2>3
<1>3. PICK m \in Mirror : \A y \in Mirror : m <= y
  <2>. HIDE DEF Mirror
  <2>. QED  BY <1>2, MinOfNats
<1>4. n - m \in S /\ m \in 0 .. n
  OBVIOUS
<1>5. ASSUME NEW x \in S PROVE x <= n - m
  <2>1. x \in 0 .. n /\ m <= n - x
    BY <1>1, <1>3
  <2>. QED  BY <2>1, <1>4
<1>. HIDE DEF Mirror
<1>. QED  BY <1>4, <1>5, <1>1, <1>3 DEF Max

\* What is least, or greatest, in a set is its Min, or its Max.
LEMMA MinIs ==
  ASSUME NEW S, S \subseteq Nat, NEW m \in S, \A x \in S : m <= x
  PROVE  Min(S) = m
<1>1. Min(S) \in S /\ Min(S) <= m
  BY MinOfNats
<1>2. m <= Min(S) /\ m \in Nat /\ Min(S) \in Nat
  BY <1>1
<1>. QED  BY <1>1, <1>2

LEMMA MaxIs ==
  ASSUME NEW S, S \subseteq Nat, NEW m \in S, \A x \in S : x <= m
  PROVE  Max(S) = m
<1>1. S \subseteq 0 .. m /\ m \in Nat
  OBVIOUS
<1>2. Max(S) \in S /\ m <= Max(S)
  BY <1>1, MaxOfNats
<1>3. Max(S) <= m /\ Max(S) \in Nat
  BY <1>1, <1>2
<1>. QED  BY <1>1, <1>2, <1>3

(***************************************************************************)
(* Every rung SweepLadder plans lies between the configured bounds, and    *)
(* the highest is the configured maximum, whatever the bounds are.         *)
(***************************************************************************)
LEMMA SweepLadderBounds ==
  ASSUME NEW start \in Nat \ {0}, NEW max \in Nat, start <= max
  PROVE  SweepLadder(start, max) \subseteq start .. max /\ max \in SweepLadder(start, max)
BY DEF SweepLadder

\* The doublings a ladder can reach, one by one: their number is a constant
\* of the code, so no induction is needed.
LEMMA Doublings ==
  ASSUME NEW k \in 0 .. MaxDoublings - 1
  PROVE  /\ 2 ^ k \in Nat \ {0}
         /\ k < MaxDoublings - 1 => 2 ^ (k + 1) = 2 * 2 ^ k
<1>1. MaxDoublings - 1 = 11
  BY DEF MaxDoublings
<1>2. k \in Nat /\ k <= 11
  BY <1>1
<1>3. /\ 2 ^ k \in Nat \ {0}
      /\ k < 11 => 2 ^ (k + 1) = 2 * 2 ^ k
  <2>1. CASE k = 0 BY <2>1, SMT
  <2>2. CASE k = 1 BY <2>2, SMT
  <2>3. CASE k = 2 BY <2>3, SMT
  <2>4. CASE k = 3 BY <2>4, SMT
  <2>5. CASE k = 4 BY <2>5, SMT
  <2>6. CASE k = 5 BY <2>6, SMT
  <2>7. CASE k = 6 BY <2>7, SMT
  <2>8. CASE k = 7 BY <2>8, SMT
  <2>9. CASE k = 8 BY <2>9, SMT
  <2>10. CASE k = 9 BY <2>10, SMT
  <2>11. CASE k = 10 BY <2>11, SMT
  <2>12. CASE k = 11 BY <2>12, SMT
  <2>. QED  BY <1>2, <2>1, <2>2, <2>3, <2>4, <2>5, <2>6, <2>7, <2>8, <2>9, <2>10, <2>11, <2>12, SMT
<1>. QED  BY <1>1, <1>3

(***************************************************************************)
(* The ladder of validated bounds starts at start, ends at max, and no     *)
(* rung of it is more than twice the rung before: the cap of 12 doublings  *)
(* never cuts it short, since the last, start * 2^11, is at least 2048 and *)
(* the validation lets no maximum above 2000 through.                      *)
(***************************************************************************)
THEOREM SweepLadderClimbs ==
  ASSUME NEW start \in Nat \ {0}, NEW max \in Nat, start <= max,
         max < 2 ^ (MaxDoublings - 1)
  PROVE  /\ Min(SweepLadder(start, max)) = start
         /\ Max(SweepLadder(start, max)) = max
         /\ \A rung \in SweepLadder(start, max) \ {max} :
              \E q \in SweepLadder(start, max) : rung < q /\ q <= 2 * rung
<1>. DEFINE doublings == {start * 2 ^ k : k \in 0 .. MaxDoublings - 1}
            ladder    == (doublings \cap start .. max - 1) \cup {max}
<1>1. SweepLadder(start, max) = ladder
  BY DEF SweepLadder
<1>2. ladder \subseteq start .. max /\ max \in ladder
  OBVIOUS
<1>3. start \in ladder
  <2>1. CASE start = max
    BY <2>1
  <2>2. CASE start < max
    <3>1. 0 \in 0 .. MaxDoublings - 1 /\ start = start * 2 ^ 0
      BY SMT DEF MaxDoublings
    <3>2. \E k \in 0 .. MaxDoublings - 1 : start = start * 2 ^ k
      BY <3>1, Zenon
    <3>3. start \in doublings
      BY <3>2, Zenon
    <3>. HIDE DEF doublings
    <3>. QED  BY <3>3, <2>2
  <2>. QED  BY <2>1, <2>2
<1>4. ASSUME NEW rung \in ladder, rung # max
      PROVE  \E q \in ladder : rung < q /\ q <= 2 * rung
  <2>1. rung \in start .. max - 1 /\ rung \in doublings
    BY <1>4
  <2>2. CASE max <= 2 * rung
    BY <2>1, <2>2
  <2>3. CASE 2 * rung < max
    <3>1. PICK k \in 0 .. MaxDoublings - 1 : rung = start * 2 ^ k
      BY <2>1
    <3>2. PICK p \in Nat \ {0} : p = 2 ^ k
      BY Doublings, Zenon
    <3>3. k # MaxDoublings - 1
      <4>1. SUFFICES ASSUME k = MaxDoublings - 1 PROVE FALSE
        OBVIOUS
      <4>2. rung = start * p /\ max < p
        BY <3>1, <3>2, <4>1, Zenon
      <4>. HIDE DEF doublings, ladder
      <4>. QED  BY <4>2, <2>1
    <3>4. k < MaxDoublings - 1
      <4>. HIDE DEF doublings, ladder
      <4>. QED  BY <3>3 DEF MaxDoublings
    <3>5. 2 ^ (k + 1) = 2 * p
      BY <3>2, <3>4, Doublings, Zenon
    <3>6. k + 1 \in 0 .. MaxDoublings - 1
      <4>. HIDE DEF doublings, ladder
      <4>. QED  BY <3>4 DEF MaxDoublings
    <3>7. rung = start * p
      BY <3>1, <3>2, Zenon
    <3>8. 2 * rung = start * (2 * p)
      <4>. HIDE DEF doublings, ladder
      <4>. QED  BY <3>7
    <3>9. 2 * rung = start * 2 ^ (k + 1)
      BY <3>5, <3>8, Zenon
    <3>10. 2 * rung \in doublings
      BY <3>6, <3>9, Zenon
    <3>. HIDE DEF doublings
    <3>11. 2 * rung \in ladder
      BY <3>10, <2>1, <2>3
    <3>. QED  BY <3>11, <2>1
  <2>. HIDE DEF doublings
  <2>. QED  BY <2>1, <2>2, <2>3
<1>. HIDE DEF ladder, doublings
<1>5. ladder \subseteq Nat /\ (\A x \in ladder : start <= x /\ x <= max)
  BY <1>2
<1>6. Min(ladder) = start
  BY <1>3, <1>5, MinIs
<1>7. Max(ladder) = max
  BY <1>2, <1>5, MaxIs
<1>. QED  BY <1>1, <1>4, <1>6, <1>7

(***************************************************************************)
(* consecutiveUnstableTail reaches the stopping count exactly when the two *)
(* latest rungs both failed.                                               *)
(***************************************************************************)
LEMMA TailOfTwo ==
  ASSUME NEW steps, Len(steps) \in Nat
  PROVE  ConsecutiveUnstableTail(steps) >= UnstableRungsBeforeStopping
           <=> /\ Len(steps) >= 2
               /\ ~steps[Len(steps)].stable
               /\ ~steps[Len(steps) - 1].stable
<1>. DEFINE n     == Len(steps)
            tails == {t \in 0 .. n : \A i \in n - t + 1 .. n : ~steps[i].stable}
<1>1. ConsecutiveUnstableTail(steps) = Max(tails)
  BY Zenon DEF ConsecutiveUnstableTail
<1>2. tails \subseteq 0 .. n /\ 0 \in tails
  OBVIOUS
<1>3. Max(tails) \in tails /\ \A t \in tails : t <= Max(tails)
  <2>. HIDE DEF tails
  <2>. QED  BY <1>2, MaxOfNats
<1>4. ASSUME n >= 2, ~steps[n].stable, ~steps[n - 1].stable PROVE Max(tails) >= 2
  <2>1. \A i \in n - 2 + 1 .. n : i = n \/ i = n - 1
    OBVIOUS
  <2>2. 2 \in tails
    BY <1>4, <2>1
  <2>. HIDE DEF tails
  <2>. QED  BY <1>2, <1>3, <2>2
<1>5. ASSUME Max(tails) >= 2 PROVE n >= 2 /\ ~steps[n].stable /\ ~steps[n - 1].stable
  <2>1. PICK t \in 0 .. n : t >= 2 /\ \A i \in n - t + 1 .. n : ~steps[i].stable
    BY <1>3, <1>5
  <2>2. n \in n - t + 1 .. n /\ n - 1 \in n - t + 1 .. n
    BY <2>1
  <2>. QED  BY <2>1, <2>2
<1>. QED  BY <1>1, <1>4, <1>5 DEF UnstableRungsBeforeStopping

(***************************************************************************)
(* The knee is a load the search may report as capacity: within the loads  *)
(* measured, and if there is one, it is the load of a stable step and      *)
(* every step at or below it was stable ("capacity has to hold             *)
(* continuously from the bottom", KneeLoad in search.go).                  *)
(***************************************************************************)
THEOREM KneeHoldsFromTheBottom ==
  ASSUME NEW n \in Nat, NEW steps,
         \A i \in DOMAIN steps : steps[i].load \in 0 .. n
  PROVE  /\ KneeLoad(steps) \in 0 .. n
         /\ KneeLoad(steps) > 0 =>
              /\ \E i \in DOMAIN steps : steps[i].load = KneeLoad(steps) /\ steps[i].stable
              /\ \A i \in DOMAIN steps : steps[i].load <= KneeLoad(steps) => steps[i].stable
<1>. DEFINE unstable == {i \in DOMAIN steps : ~steps[i].stable}
            below    == {j \in DOMAIN steps : \A i \in unstable : steps[j].load < steps[i].load}
            loads    == {0} \cup {steps[j].load : j \in below}
<1>1. KneeLoad(steps) = Max(loads)
  BY Zenon DEF KneeLoad
<1>2. loads \subseteq 0 .. n /\ loads # {}
  OBVIOUS
<1>3. Max(loads) \in loads
  <2>. HIDE DEF loads
  <2>. QED  BY <1>2, MaxOfNats
<1>4. \A j \in below : steps[j].stable
  <2>1. SUFFICES ASSUME NEW j \in DOMAIN steps, ~steps[j].stable, j \in below PROVE FALSE
    OBVIOUS
  <2>2. steps[j].load < steps[j].load
    BY <2>1
  <2>. QED  BY <2>2
<1>5. ASSUME Max(loads) > 0, NEW i \in DOMAIN steps, steps[i].load <= Max(loads), ~steps[i].stable PROVE FALSE
  <2>1. PICK j \in below : Max(loads) = steps[j].load
    BY <1>3, <1>5
  <2>2. steps[j].load < steps[i].load
    BY <1>5
  <2>3. steps[j].load \in 0 .. n /\ steps[i].load \in 0 .. n
    OBVIOUS
  <2>. HIDE DEF loads
  <2>. QED  BY <2>1, <2>2, <2>3, <1>5
<1>6. Max(loads) = 0 \/ \E i \in DOMAIN steps : steps[i].load = Max(loads) /\ steps[i].stable
  BY <1>3, <1>4
<1>7. Max(loads) \in 0 .. n
  BY <1>2, <1>3
<1>. HIDE DEF loads
<1>. QED  BY <1>1, <1>5, <1>6, <1>7

\* KneeLoad, exactly: a step is within the knee iff it and all lower ones held.
LEMMA WithinTheKnee ==
  ASSUME NEW n \in Nat, NEW steps, \A i \in DOMAIN steps : steps[i].load \in 1 .. n
  PROVE  /\ KneeLoad(steps) \in {0} \cup {steps[i].load : i \in DOMAIN steps}
         /\ \A i \in DOMAIN steps :
              steps[i].load <= KneeLoad(steps)
                <=> \A j \in DOMAIN steps : steps[j].load <= steps[i].load => steps[j].stable
<1>. DEFINE unstable == {i \in DOMAIN steps : ~steps[i].stable}
            below    == {j \in DOMAIN steps : \A i \in unstable : steps[j].load < steps[i].load}
            loads    == {0} \cup {steps[j].load : j \in below}
            knee     == KneeLoad(steps)
<1>0. /\ \A i \in DOMAIN steps : steps[i].load \in 0 .. n /\ steps[i].load \in Nat \ {0}
      /\ knee \in 0 .. n
      /\ knee > 0 =>
           /\ \E i \in DOMAIN steps : steps[i].load = knee /\ steps[i].stable
           /\ \A i \in DOMAIN steps : steps[i].load <= knee => steps[i].stable
  <2>1. \A i \in DOMAIN steps : steps[i].load \in 0 .. n
    OBVIOUS
  <2>. QED  BY <2>1, KneeHoldsFromTheBottom
<1>1. knee = Max(loads)
  BY Zenon DEF KneeLoad
<1>2. loads \subseteq 0 .. n /\ loads # {}
  BY <1>0
<1>3. \A x \in loads : x <= knee
  <2>. HIDE DEF loads, knee
  <2>. QED  BY <1>1, <1>2, MaxOfNats
<1>4. knee \in {0} \cup {steps[i].load : i \in DOMAIN steps}
  <2>. HIDE DEF knee
  <2>. QED  BY <1>0
<1>5. ASSUME NEW i \in DOMAIN steps, steps[i].load <= knee,
             NEW j \in DOMAIN steps, steps[j].load <= steps[i].load
      PROVE  steps[j].stable
  <2>1. steps[i].load \in Nat \ {0} /\ steps[j].load \in Nat /\ knee \in Nat
    BY <1>0
  <2>2. knee > 0 /\ steps[j].load <= knee
    <3>. HIDE DEF knee
    <3>. QED  BY <1>5, <2>1
  <2>. QED  BY <1>0, <2>2
<1>6. ASSUME NEW i \in DOMAIN steps,
             \A j \in DOMAIN steps : steps[j].load <= steps[i].load => steps[j].stable
      PROVE  steps[i].load <= knee
  <2>1. \A j \in unstable : steps[i].load < steps[j].load
    BY <1>0, <1>6
  <2>2. steps[i].load \in loads
    BY <2>1
  <2>. QED  BY <1>3, <2>2
<1>. QED  BY <1>4, <1>5, <1>6

(***************************************************************************)
(* finishSearch advises a load that is usable whatever the knee: none when *)
(* there is no knee, otherwise between 1 and the knee, although 70 % of a  *)
(* knee of 1 rounds down to 0.                                             *)
(***************************************************************************)
LEMMA ProvisionBounds ==
  ASSUME NEW knee \in Nat \ {0}
  PROVE  Max({1, (knee * HeadroomPercent) \div 100}) \in 1 .. knee
<1>1. (knee * HeadroomPercent) \div 100 \in 0 .. knee
  BY DEF HeadroomPercent
<1>2. Max({1, (knee * HeadroomPercent) \div 100}) \in {1, (knee * HeadroomPercent) \div 100}
  BY <1>1, MaxOfNats
<1>3. 1 <= Max({1, (knee * HeadroomPercent) \div 100})
  BY <1>1, MaxOfNats
<1>. QED  BY <1>1, <1>2, <1>3
=============================================================================
