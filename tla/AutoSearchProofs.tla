--------------------------- MODULE AutoSearchProofs ---------------------------
(***************************************************************************)
(* Theorems about one automatic capacity search: its ladder is a usable    *)
(* plan, its books agree with the rungs it measured, it always has a rung  *)
(* left until it is over, and it implements CapacitySweep, for every set   *)
(* of ranges the validation lets through and every pattern of stable and   *)
(* unstable rungs.                                                         *)
(***************************************************************************)
EXTENDS AutoSearch, CapacitySearchProofs, FiniteSetTheorems

SearchRecord ==
  [status : {"running", "completed"}, start : Nat, max : Nat, steps : Seq(Step),
   stableLoad : Nat, failedLoad : Nat, nextLoad : Nat, recommended : Nat, provision : Nat]

Loads(steps)  == {steps[i].load : i \in DOMAIN steps}
Held(steps)   == {steps[i].load : i \in {j \in DOMAIN steps : steps[j].stable}}
Failed(steps) == {steps[i].load : i \in {j \in DOMAIN steps : ~steps[j].stable}}

HighestHeld(steps)  == Max({0} \cup Held(steps))
LowestFailed(steps) == IF Failed(steps) = {} THEN 0 ELSE Min(Failed(steps))

\* The rungs were measured from the bottom up.
Climbs(steps) ==
  \A i, j \in 1 .. Len(steps) : i < j => steps[i].load < steps[j].load

\* The measured rungs are the ladder's lowest, and a search that goes on
\* waits for the one after them.
LadderInOrder ==
  /\ Climbs(search.steps)
  /\ Loads(search.steps) \subseteq Ladder
  /\ search.status = "running" =>
       /\ search.nextLoad \in Ladder
       /\ \A rung \in Ladder : rung \in Loads(search.steps) <=> rung < search.nextLoad

SweepInv == search \in SearchRecord /\ LadderInOrder /\ BooksAgreeWithSteps

-----------------------------------------------------------------------------
(***************************************************************************)
(* One more step.                                                          *)
(***************************************************************************)
LEMMA OneMoreStep ==
  ASSUME NEW steps \in Seq(Step), NEW step \in Step, NEW longer, longer = Append(steps, step)
  PROVE  /\ longer \in Seq(Step) /\ Len(longer) = Len(steps) + 1 /\ Len(steps) \in Nat
         /\ DOMAIN steps = 1 .. Len(steps)
         /\ DOMAIN longer = 1 .. Len(steps) + 1
         /\ \A i \in DOMAIN steps : steps[i] \in Step /\ i \in DOMAIN longer /\ longer[i] = steps[i]
         /\ Len(steps) + 1 \in DOMAIN longer /\ longer[Len(steps) + 1] = step
         /\ \A i \in DOMAIN longer : i \in DOMAIN steps \/ i = Len(steps) + 1
OBVIOUS

LEMMA OneMoreLoad ==
  ASSUME NEW steps \in Seq(Step), NEW step \in Step, NEW longer, longer = Append(steps, step)
  PROVE  /\ Loads(longer) = Loads(steps) \cup {step.load}
         /\ Held(longer) = IF step.stable THEN Held(steps) \cup {step.load} ELSE Held(steps)
         /\ Failed(longer) = IF step.stable THEN Failed(steps) ELSE Failed(steps) \cup {step.load}
<1>1. /\ \A i \in DOMAIN steps : i \in DOMAIN longer /\ longer[i] = steps[i]
      /\ Len(steps) + 1 \in DOMAIN longer /\ longer[Len(steps) + 1] = step
      /\ \A i \in DOMAIN longer : i \in DOMAIN steps \/ i = Len(steps) + 1
  BY OneMoreStep
<1>2. Loads(longer) = Loads(steps) \cup {step.load}
  BY <1>1, Zenon DEF Loads
<1>3. CASE step.stable
  <2>1. Held(longer) = Held(steps) \cup {step.load}
    BY <1>1, <1>3, Zenon DEF Held
  <2>2. Failed(longer) = Failed(steps)
    BY <1>1, <1>3, Zenon DEF Failed
  <2>. QED  BY <1>2, <1>3, <2>1, <2>2
<1>4. CASE ~step.stable
  <2>1. Held(longer) = Held(steps)
    BY <1>1, <1>4, Zenon DEF Held
  <2>2. Failed(longer) = Failed(steps) \cup {step.load}
    BY <1>1, <1>4, Zenon DEF Failed
  <2>. QED  BY <1>2, <1>4, <2>1, <2>2
<1>. QED  BY <1>3, <1>4

LEMMA LoadsAreNats ==
  ASSUME NEW steps \in Seq(Step)
  PROVE  /\ Loads(steps) \subseteq Nat
         /\ Held(steps) \subseteq Loads(steps) /\ Failed(steps) \subseteq Loads(steps)
<1>1. \A i \in DOMAIN steps : steps[i] \in Step
  OBVIOUS
<1>2. \A i \in DOMAIN steps : steps[i].load \in Nat
  BY <1>1 DEF Step
<1>. QED  BY <1>2 DEF Loads, Held, Failed

LEMMA NoneHeldIsZero ==
  ASSUME NEW steps, Held(steps) = {}
  PROVE  HighestHeld(steps) = 0
<1>. DEFINE zero == {0}
<1>1. zero \subseteq Nat /\ 0 \in zero /\ \A x \in zero : x <= 0
  OBVIOUS
<1>2. {0} \cup Held(steps) = zero
  OBVIOUS
<1>. HIDE DEF zero
<1>3. Max(zero) = 0
  BY <1>1, MaxIs
<1>. QED  BY <1>2, <1>3 DEF HighestHeld

\* A rung above every measured one keeps the steps climbing.
LEMMA StillClimbs ==
  ASSUME NEW steps \in Seq(Step), NEW step \in Step, NEW longer, longer = Append(steps, step),
         Climbs(steps), \A load \in Loads(steps) : load < step.load
  PROVE  Climbs(longer)
<1>. SUFFICES ASSUME NEW i \in 1 .. Len(longer), NEW j \in 1 .. Len(longer), i < j
              PROVE  longer[i].load < longer[j].load
  BY DEF Climbs
<1>1. i \in DOMAIN steps /\ longer[i] = steps[i]
  BY OneMoreStep
<1>2. CASE j \in DOMAIN steps
  BY <1>1, <1>2, OneMoreStep DEF Climbs
<1>3. CASE j = Len(steps) + 1
  <2>1. steps[i].load \in Loads(steps)
    BY <1>1 DEF Loads
  <2>2. longer[j] = step
    BY <1>3, OneMoreStep
  <2>. QED  BY <1>1, <2>1, <2>2
<1>. QED  BY <1>2, <1>3, OneMoreStep

\* No doubling of a ladder falls short of what the validation lets through.
LEMMA UpperBoundOfRanges == \A range \in LoadRanges : range[2] < 2 ^ (MaxDoublings - 1)
<1>1. \A range \in LoadRanges : range[2] \in Nat /\ range[2] <= MaxRPS
  BY LoadRangesAssumption DEF ValidRange
<1>2. MaxRPS \in Nat /\ MaxRPS < 2 ^ 11
  BY SMT DEF MaxRPS
<1>3. MaxDoublings - 1 = 11
  BY DEF MaxDoublings
<1>4. 2 ^ 11 \in Nat
  BY SMT
<1>. QED  BY <1>1, <1>2, <1>3, <1>4

(***************************************************************************)
(* What recording a rung above all the others does to the books.           *)
(***************************************************************************)
LEMMA BooksOfOneMore ==
  ASSUME NEW steps \in Seq(Step), NEW step \in Step, NEW longer, longer = Append(steps, step),
         \A load \in Loads(steps) : 0 < load /\ load < step.load
  PROVE  /\ Max({HighestHeld(steps), step.load}) = step.load
         /\ HighestHeld(longer) = IF step.stable THEN step.load ELSE HighestHeld(steps)
         /\ LowestFailed(longer)
              = IF ~step.stable /\ (LowestFailed(steps) = 0 \/ step.load < LowestFailed(steps))
                  THEN step.load ELSE LowestFailed(steps)
<1>0. step.load \in Nat
  BY DEF Step
<1>1. /\ Loads(steps) \subseteq Nat
      /\ Held(steps) \subseteq Loads(steps) /\ Failed(steps) \subseteq Loads(steps)
  BY LoadsAreNats
<1>2. /\ Held(longer) = IF step.stable THEN Held(steps) \cup {step.load} ELSE Held(steps)
      /\ Failed(longer) = IF step.stable THEN Failed(steps) ELSE Failed(steps) \cup {step.load}
  BY OneMoreLoad
<1>3. HighestHeld(steps) \in Nat /\ HighestHeld(steps) <= step.load
  <2>1. {0} \cup Held(steps) \subseteq 0 .. step.load
    BY <1>0, <1>1
  <2>2. HighestHeld(steps) \in {0} \cup Held(steps)
    BY <1>0, <2>1, MaxOfNats DEF HighestHeld
  <2>. QED  BY <2>1, <2>2
<1>4. Max({HighestHeld(steps), step.load}) = step.load
  <2>. DEFINE pair == {HighestHeld(steps), step.load}
  <2>1. pair \subseteq Nat /\ step.load \in pair /\ \A x \in pair : x <= step.load
    BY <1>0, <1>3
  <2>. HIDE DEF pair
  <2>2. Max(pair) = step.load
    BY <2>1, MaxIs
  <2>. QED  BY <2>2 DEF pair
<1>5. ASSUME step.stable PROVE HighestHeld(longer) = step.load
  <2>1. /\ {0} \cup Held(longer) \subseteq Nat
        /\ step.load \in {0} \cup Held(longer)
        /\ \A x \in {0} \cup Held(longer) : x <= step.load
    BY <1>0, <1>1, <1>2, <1>5
  <2>. QED  BY <2>1, MaxIs DEF HighestHeld
<1>6. CASE step.stable
  BY <1>2, <1>4, <1>5, <1>6 DEF LowestFailed
<1>7. CASE ~step.stable
  <2>1. Held(longer) = Held(steps) /\ Failed(longer) = Failed(steps) \cup {step.load}
    BY <1>2, <1>7
  <2>2. CASE Failed(steps) = {}
    <3>1. Min({step.load}) = step.load
      <4>. DEFINE only == {step.load}
      <4>1. only \subseteq Nat /\ step.load \in only /\ \A x \in only : step.load <= x
        BY <1>0
      <4>. HIDE DEF only
      <4>2. Min(only) = step.load
        BY <4>1, MinIs
      <4>. QED  BY <4>2 DEF only
    <3>2. Failed(longer) = {step.load}
      BY <2>1, <2>2
    <3>. QED  BY <1>4, <1>7, <2>1, <2>2, <3>1, <3>2 DEF HighestHeld, LowestFailed
  <2>3. CASE Failed(steps) # {}
    <3>. DEFINE least == LowestFailed(steps)
    <3>0. Failed(steps) \subseteq Nat
      BY <1>1
    <3>1. least \in Failed(steps) /\ \A x \in Failed(steps) : least <= x
      BY <3>0, <2>3, MinOfNats DEF LowestFailed
    <3>. HIDE DEF least
    <3>2. least \in Nat /\ 0 < least /\ least < step.load
      BY <1>1, <3>1
    <3>3. /\ Failed(longer) \subseteq Nat /\ least \in Failed(longer)
          /\ \A x \in Failed(longer) : least <= x
      BY <1>0, <1>1, <2>1, <3>1, <3>2
    <3>4. Min(Failed(longer)) = least
      BY <3>3, MinIs
    <3>5. LowestFailed(longer) = least
      BY <3>3, <3>4 DEF LowestFailed
    <3>6. HighestHeld(longer) = HighestHeld(steps)
      BY <2>1 DEF HighestHeld
    <3>7. ~(least = 0) /\ ~(step.load < least)
      BY <1>0, <3>2
    <3>. QED  BY <1>4, <1>7, <3>5, <3>6, <3>7, Zenon DEF least
  <2>. QED  BY <2>2, <2>3
<1>. QED  BY <1>6, <1>7

-----------------------------------------------------------------------------
(***************************************************************************)
(* The whole handler: what AdvanceSearch leaves behind once it has         *)
(* recorded the rung the search was waiting for.                           *)
(***************************************************************************)
LatestTwoFailed(steps) ==
  /\ Len(steps) >= 2
  /\ ~steps[Len(steps)].stable
  /\ ~steps[Len(steps) - 1].stable

NoneHeldYet(steps) == HighestHeld(steps) = 0 /\ ~steps[Len(steps)].stable

\* The rung that was measured, and the steps with it.
LEMMA RungMeasured ==
  ASSUME SweepInv, NEW stable \in BOOLEAN, FinishRung(stable),
         NEW step, step = [load |-> search.nextLoad, stable |-> stable]
  PROVE  /\ step \in Step /\ step.load = search.nextLoad /\ step.stable = stable
         /\ search.steps \in Seq(Step)
         /\ search.status = "running"
         /\ search.nextLoad \in Ladder
         /\ \A load \in Loads(search.steps) : 0 < load /\ load < step.load
         /\ Ladder \subseteq search.start .. search.max /\ Ladder \subseteq Nat \ {0}
<1>1. search \in SearchRecord /\ search.status = "running"
  BY DEF SweepInv, FinishRung
<1>2. search.steps \in Seq(Step) /\ search.nextLoad \in Nat
  BY <1>1 DEF SearchRecord
<1>3. step \in Step /\ step.load = search.nextLoad /\ step.stable = stable
  BY <1>2 DEF Step
<1>4. /\ search.nextLoad \in Ladder
      /\ Loads(search.steps) \subseteq Ladder
      /\ \A rung \in Ladder : rung \in Loads(search.steps) <=> rung < search.nextLoad
  BY <1>1 DEF SweepInv, LadderInOrder
<1>5. Ladder \subseteq search.start .. search.max /\ Ladder \subseteq Nat \ {0}
  <2>1. PICK range \in LoadRanges : range = <<search.start, search.max>>
    BY DEF SweepInv, BooksAgreeWithSteps, TypeOK
  <2>2. range \in Nat \X Nat /\ range[1] >= 1 /\ range[1] <= range[2]
    BY <2>1, LoadRangesAssumption DEF ValidRange
  <2>3. search.start \in Nat \ {0} /\ search.max \in Nat /\ search.start <= search.max
    BY <2>1, <2>2
  <2>. QED  BY <2>3, SweepLadderBounds DEF Ladder
<1>6. ASSUME NEW load \in Loads(search.steps) PROVE 0 < load /\ load < step.load
  <2>1. load \in Ladder
    BY <1>4, Zenon
  <2>2. load < search.nextLoad
    BY <1>4, <2>1, Zenon
  <2>3. load \in Nat \ {0}
    BY <1>5, <2>1, Zenon
  <2>. QED  BY <1>3, <2>2, <2>3
<1>. QED  BY <1>1, <1>2, <1>3, <1>4, <1>5, <1>6, Zenon

LEMMA FinishRungEffect ==
  ASSUME SweepInv, NEW stable \in BOOLEAN, FinishRung(stable),
         NEW longer, longer = Append(search.steps, [load |-> search.nextLoad, stable |-> stable]),
         NEW above, above = {rung \in Ladder : rung > search.nextLoad}
  PROVE  /\ search' \in SearchRecord
         /\ search'.start = search.start /\ search'.max = search.max
         /\ search'.steps = longer
         /\ search'.stableLoad = HighestHeld(longer)
         /\ search'.failedLoad = LowestFailed(longer)
         /\ IF NoneHeldYet(longer) \/ LatestTwoFailed(longer) \/ above = {}
              THEN search'.status = "completed" /\ search'.recommended = KneeLoad(longer)
              ELSE search'.status = "running" /\ search'.nextLoad = Min(above)
<1>. DEFINE step     == [load |-> search.nextLoad, stable |-> stable]
            recorded == Recorded(search, step)
<1>1. /\ step \in Step /\ step.load = search.nextLoad /\ step.stable = stable
      /\ search.steps \in Seq(Step)
      /\ search.status = "running"
      /\ search.nextLoad \in Ladder
      /\ \A load \in Loads(search.steps) : 0 < load /\ load < step.load
      /\ Ladder \subseteq search.start .. search.max /\ Ladder \subseteq Nat \ {0}
  <2>. HIDE DEF step
  <2>1. step = [load |-> search.nextLoad, stable |-> stable]
    BY DEF step
  <2>. QED  BY <2>1, RungMeasured
<1>2. longer \in Seq(Step) /\ Len(longer) \in Nat /\ longer[Len(longer)] = step
  BY <1>1, OneMoreStep
<1>3. search \in SearchRecord
  BY DEF SweepInv
<1>4. /\ search.stableLoad \in Nat /\ search.failedLoad \in Nat
      /\ search.stableLoad = HighestHeld(search.steps)
      /\ search.failedLoad = LowestFailed(search.steps)
  <2>1. search.stableLoad \in Nat /\ search.failedLoad \in Nat
    BY <1>3 DEF SearchRecord
  <2>. QED  BY <2>1, Zenon DEF SweepInv, BooksAgreeWithSteps, HighestHeld, LowestFailed, Held, Failed
<1>5. /\ Max({search.stableLoad, search.nextLoad}) = search.nextLoad
      /\ HighestHeld(longer) = IF stable THEN search.nextLoad ELSE search.stableLoad
      /\ LowestFailed(longer)
           = IF ~stable /\ (search.failedLoad = 0 \/ search.nextLoad < search.failedLoad)
               THEN search.nextLoad ELSE search.failedLoad
  <2>1. longer = Append(search.steps, step)
    OBVIOUS
  <2>. HIDE DEF step
  <2>2. /\ Max({HighestHeld(search.steps), step.load}) = step.load
        /\ HighestHeld(longer) = IF step.stable THEN step.load ELSE HighestHeld(search.steps)
        /\ LowestFailed(longer)
             = IF ~step.stable /\ (\/ LowestFailed(search.steps) = 0
                                  \/ step.load < LowestFailed(search.steps))
                 THEN step.load ELSE LowestFailed(search.steps)
    BY <1>1, <2>1, BooksOfOneMore
  <2>. QED  BY <1>1, <1>4, <2>2, Zenon
<1>6. /\ recorded \in SearchRecord
      /\ recorded.start = search.start /\ recorded.max = search.max
      /\ recorded.status = "running"
      /\ recorded.steps = longer
      /\ recorded.stableLoad = HighestHeld(longer)
      /\ recorded.failedLoad = LowestFailed(longer)
  <2>. DEFINE stableLoad == IF stable THEN search.nextLoad ELSE search.stableLoad
              failedLoad == IF ~stable /\ (search.failedLoad = 0 \/ search.nextLoad < search.failedLoad)
                              THEN search.nextLoad ELSE search.failedLoad
  <2>1. search.nextLoad \in Nat /\ stableLoad \in Nat /\ failedLoad \in Nat
    BY <1>3 DEF SearchRecord
  <2>2. recorded = [search EXCEPT !.steps = longer, !.stableLoad = stableLoad, !.failedLoad = failedLoad]
    BY <1>1, <1>5 DEF Recorded
  <2>3. stableLoad = HighestHeld(longer) /\ failedLoad = LowestFailed(longer)
    BY <1>5
  <2>. HIDE DEF stableLoad, failedLoad, recorded, step
  <2>4. /\ recorded \in SearchRecord
        /\ recorded.start = search.start /\ recorded.max = search.max
        /\ recorded.status = "running" /\ recorded.steps = longer
        /\ recorded.stableLoad = stableLoad /\ recorded.failedLoad = failedLoad
    BY <1>1, <1>2, <1>3, <2>1, <2>2 DEF SearchRecord
  <2>. QED  BY <2>3, <2>4
<1>7. ShouldStop(recorded, step) <=> NoneHeldYet(longer) \/ LatestTwoFailed(longer)
  <2>. HIDE DEF recorded
  <2>1. recorded.stableLoad = 0 /\ ~step.stable <=> NoneHeldYet(longer)
    BY <1>2, <1>6 DEF NoneHeldYet
  <2>2. ConsecutiveUnstableTail(recorded.steps) >= UnstableRungsBeforeStopping <=> LatestTwoFailed(longer)
    BY <1>2, <1>6, TailOfTwo DEF LatestTwoFailed
  <2>. QED  BY <2>1, <2>2, Zenon DEF ShouldStop
<1>8. RungsAbove(search, step.load) = above
  BY DEF RungsAbove, Ladder
<1>9. search' = IF NoneHeldYet(longer) \/ LatestTwoFailed(longer) \/ above = {}
                  THEN FinishSearch(recorded)
                  ELSE [recorded EXCEPT !.nextLoad = Min(above)]
  <2>1. search' = Advance(search, step)
    BY DEF FinishRung
  <2>. HIDE DEF step
  <2>. QED  BY <1>7, <1>8, <2>1 DEF Advance
<1>. HIDE DEF recorded, step
<1>10. ASSUME search' = FinishSearch(recorded)
       PROVE  /\ search' \in SearchRecord
              /\ search'.start = recorded.start /\ search'.max = recorded.max
              /\ search'.steps = recorded.steps
              /\ search'.stableLoad = recorded.stableLoad /\ search'.failedLoad = recorded.failedLoad
              /\ search'.status = "completed" /\ search'.recommended = KneeLoad(longer)
  <2>. DEFINE knee      == KneeLoad(longer)
              provision == IF knee = 0 THEN recorded.provision
                           ELSE Max({1, (knee * HeadroomPercent) \div 100})
  <2>1. knee \in Nat
    <3>1. search.max \in Nat
      BY <1>3 DEF SearchRecord
    <3>2. \A load \in Loads(longer) : load \in 0 .. search.max
      <4>1. Loads(longer) = Loads(search.steps) \cup {search.nextLoad}
        BY <1>1, OneMoreLoad DEF step
      <4>2. Loads(search.steps) \subseteq Ladder
        BY DEF SweepInv, LadderInOrder
      <4>3. Loads(longer) \subseteq Ladder
        BY <1>1, <4>1, <4>2
      <4>4. search.start \in Nat /\ search.max \in Nat
        BY <1>3 DEF SearchRecord
      <4>5. Loads(longer) \subseteq search.start .. search.max
        BY <1>1, <4>3, Zenon
      <4>. QED  BY <4>4, <4>5
    <3>3. \A i \in DOMAIN longer : longer[i].load \in 0 .. search.max
      BY <3>2 DEF Loads
    <3>4. knee \in 0 .. search.max
      BY <3>1, <3>3, KneeHoldsFromTheBottom
    <3>. QED  BY <3>1, <3>4
  <2>2. provision \in Nat
    <3>1. CASE knee = 0
      BY <3>1, <1>6 DEF SearchRecord
    <3>2. CASE knee # 0
      <4>1. Max({1, (knee * HeadroomPercent) \div 100}) \in 1 .. knee
        <5>1. knee \in Nat \ {0}
          BY <2>1, <3>2
        <5>. HIDE DEF knee
        <5>. QED  BY <5>1, ProvisionBounds
      <4>. QED  BY <4>1, <3>2, <2>1
    <3>. QED  BY <3>1, <3>2
  <2>3. search' = [recorded EXCEPT !.status = "completed", !.nextLoad = 0, !.recommended = knee,
                                   !.provision = provision]
    BY <1>6, <1>10 DEF FinishSearch
  <2>. HIDE DEF provision
  <2>. QED  BY <1>6, <2>1, <2>2, <2>3 DEF SearchRecord
<1>11. ASSUME above # {}, search' = [recorded EXCEPT !.nextLoad = Min(above)]
       PROVE  /\ search' \in SearchRecord
              /\ search'.start = recorded.start /\ search'.max = recorded.max
              /\ search'.steps = recorded.steps
              /\ search'.stableLoad = recorded.stableLoad /\ search'.failedLoad = recorded.failedLoad
              /\ search'.status = "running" /\ search'.nextLoad = Min(above)
  <2>1. above \subseteq Nat
    BY <1>1
  <2>2. Min(above) \in Nat
    BY <2>1, <1>11, MinOfNats
  <2>. QED  BY <1>6, <1>11, <2>2 DEF SearchRecord
<1>. QED  BY <1>6, <1>9, <1>10, <1>11, Zenon

-----------------------------------------------------------------------------
(***************************************************************************)
(* The invariant.                                                          *)
(***************************************************************************)
\* A sweep that did not stop has held once, and never failed twice in a row.
HoldsNowAndThen(steps) ==
  /\ Held(steps) # {}
  /\ \A i \in 1 .. Len(steps) - 1 : steps[i].stable \/ steps[i + 1].stable

LEMMA GoesOnHolding ==
  ASSUME NEW steps \in Seq(Step), NEW step \in Step, NEW longer, longer = Append(steps, step),
         steps # << >> => HoldsNowAndThen(steps),
         ~NoneHeldYet(longer), ~LatestTwoFailed(longer)
  PROVE  HoldsNowAndThen(longer)
<1>1. /\ Len(longer) = Len(steps) + 1 /\ Len(steps) \in Nat
      /\ DOMAIN steps = 1 .. Len(steps)
      /\ \A i \in DOMAIN steps : longer[i] = steps[i]
      /\ longer[Len(steps) + 1] = step
  BY OneMoreStep
<1>2. Held(longer) # {}
  <2>1. CASE step.stable
    <3>1. Held(longer) = IF step.stable THEN Held(steps) \cup {step.load} ELSE Held(steps)
      BY OneMoreLoad
    <3>. QED  BY <2>1, <3>1
  <2>2. CASE ~step.stable
    <3>1. HighestHeld(longer) # 0
      BY <1>1, <2>2 DEF NoneHeldYet
    <3>. QED  BY <3>1, NoneHeldIsZero
  <2>. QED  BY <2>1, <2>2
<1>3. ASSUME NEW i \in 1 .. Len(longer) - 1 PROVE longer[i].stable \/ longer[i + 1].stable
  <2>1. CASE i = Len(steps)
    <3>1. Len(longer) >= 2 /\ i = Len(longer) - 1 /\ i + 1 = Len(longer)
      BY <1>1, <2>1
    <3>. QED  BY <3>1 DEF LatestTwoFailed
  <2>2. CASE i # Len(steps)
    <3>0. i \in 1 .. Len(steps) - 1 /\ i \in 1 .. Len(steps) /\ i + 1 \in 1 .. Len(steps)
      <4>1. PICK n \in Nat : n = Len(steps) /\ n + 1 = Len(longer)
        BY <1>1
      <4>2. i \in 1 .. (n + 1) - 1 /\ i # n
        BY <2>2, <4>1, Zenon
      <4>3. i \in 1 .. n - 1 /\ i \in 1 .. n /\ i + 1 \in 1 .. n
        BY <4>2
      <4>. QED  BY <4>1, <4>3, Zenon
    <3>1. i \in DOMAIN steps /\ i + 1 \in DOMAIN steps /\ i \in 1 .. Len(steps) - 1 /\ steps # << >>
      <4>1. Len(steps) # 0
        BY <3>0, <1>1
      <4>2. steps # << >>
        BY <4>1
      <4>. QED  BY <1>1, <3>0, <4>2
    <3>2. steps[i].stable \/ steps[i + 1].stable
      BY <3>1 DEF HoldsNowAndThen
    <3>. QED  BY <1>1, <3>1, <3>2
  <2>. QED  BY <2>1, <2>2
<1>. QED  BY <1>2, <1>3 DEF HoldsNowAndThen

LEMMA FinishRungPreserves ==
  ASSUME SweepInv, NEW stable \in BOOLEAN, FinishRung(stable)
  PROVE  SweepInv'
<1>. DEFINE load   == search.nextLoad
            step   == [load |-> load, stable |-> stable]
            longer == Append(search.steps, step)
            above  == {rung \in Ladder : rung > load}
<1>1. /\ step \in Step /\ step.load = load /\ step.stable = stable
      /\ search.steps \in Seq(Step)
      /\ search.status = "running"
      /\ load \in Ladder
      /\ \A x \in Loads(search.steps) : 0 < x /\ x < step.load
      /\ Ladder \subseteq search.start .. search.max /\ Ladder \subseteq Nat \ {0}
  BY RungMeasured
<1>2. /\ search' \in SearchRecord
      /\ search'.start = search.start /\ search'.max = search.max
      /\ search'.steps = longer
      /\ search'.stableLoad = HighestHeld(longer)
      /\ search'.failedLoad = LowestFailed(longer)
      /\ IF NoneHeldYet(longer) \/ LatestTwoFailed(longer) \/ above = {}
           THEN search'.status = "completed" /\ search'.recommended = KneeLoad(longer)
           ELSE search'.status = "running" /\ search'.nextLoad = Min(above)
  BY FinishRungEffect
<1>. HIDE DEF step
<1>3. Ladder' = Ladder
  BY <1>2 DEF Ladder
<1>4. Loads(longer) = Loads(search.steps) \cup {load}
  <2>1. longer = Append(search.steps, step)
    OBVIOUS
  <2>. HIDE DEF longer
  <2>2. Loads(longer) = Loads(search.steps) \cup {step.load}
    BY <1>1, <2>1, OneMoreLoad
  <2>. QED  BY <1>1, <2>2
<1>5. /\ Climbs(search.steps) /\ Loads(search.steps) \subseteq Ladder
      /\ \A rung \in Ladder : rung \in Loads(search.steps) <=> rung < load
  BY <1>1 DEF SweepInv, LadderInOrder
<1>6. Climbs(longer)
  BY <1>1, <1>5, StillClimbs
<1>. HIDE DEF longer, above
<1>7. ASSUME search'.status = "running"
      PROVE  /\ search'.nextLoad \in Ladder
             /\ \A rung \in Ladder : rung \in Loads(longer) <=> rung < search'.nextLoad
  <2>1. above # {} /\ search'.nextLoad = Min(above)
    BY <1>2, <1>7
  <2>2. above \subseteq Ladder /\ above \subseteq Nat /\ \A x \in above : load < x
    BY <1>1 DEF above
  <2>3. Min(above) \in above /\ \A x \in above : Min(above) <= x
    BY <2>1, <2>2, MinOfNats
  <2>4. ASSUME NEW rung \in Ladder PROVE rung \in Loads(longer) <=> rung < Min(above)
    <3>1. rung \in Nat /\ load \in Nat /\ Min(above) \in Nat /\ load < Min(above)
      BY <1>1, <2>2, <2>3
    <3>2. rung \in Loads(longer) <=> rung < load \/ rung = load
      BY <1>4, <1>5, Zenon
    <3>3. rung > load => Min(above) <= rung
      BY <2>3 DEF above
    <3>. QED  BY <3>1, <3>2, <3>3
  <2>. QED  BY <2>1, <2>2, <2>3, <2>4
<1>8. LadderInOrder'
  <2>1. Loads(longer) \subseteq Ladder
    BY <1>1, <1>4, <1>5
  <2>. QED  BY <1>2, <1>3, <1>6, <1>7, <2>1 DEF LadderInOrder
<1>9. TypeOK'
  <2>1. <<search.start, search.max>> \in LoadRanges
    BY DEF SweepInv, BooksAgreeWithSteps, TypeOK
  <2>. QED  BY <1>2, <2>1 DEF TypeOK, SearchRecord
<1>10. ASSUME search'.status = "running" PROVE HoldsNowAndThen(longer)
  <2>1. search.steps # << >> => HoldsNowAndThen(search.steps)
    BY <1>1, Zenon DEF SweepInv, BooksAgreeWithSteps, HoldsNowAndThen, Held
  <2>2. ~NoneHeldYet(longer) /\ ~LatestTwoFailed(longer)
    BY <1>2, <1>10
  <2>3. longer = Append(search.steps, step)
    BY DEF longer
  <2>. QED  BY <1>1, <2>1, <2>2, <2>3, GoesOnHolding
<1>11. BooksAgreeWithSteps'
  <2>1. /\ search'.stableLoad = HighestHeld(search'.steps)
        /\ search'.failedLoad = LowestFailed(search'.steps)
        /\ search'.status = "running" => HoldsNowAndThen(search'.steps)
    BY <1>2, <1>10
  <2>. QED  BY <1>9, <2>1, Zenon
            DEF BooksAgreeWithSteps, HighestHeld, LowestFailed, HoldsNowAndThen, Held, Failed
<1>. QED  BY <1>2, <1>8, <1>11 DEF SweepInv

LEMMA InitSweepInv == Init => SweepInv
<1>. SUFFICES ASSUME NEW range \in LoadRanges, search = PlannedSearch(Requested(range))
              PROVE  SweepInv
  BY DEF Init
<1>1. /\ range = <<range[1], range[2]>> /\ range[1] \in Nat \ {0} /\ range[2] \in Nat
      /\ range[1] <= range[2]
  BY LoadRangesAssumption DEF ValidRange
<1>2. search = [status |-> "running", start |-> range[1], max |-> range[2], steps |-> << >>,
                stableLoad |-> 0, failedLoad |-> 0, nextLoad |-> range[1],
                recommended |-> 0, provision |-> 0]
  BY DEF PlannedSearch, Requested
<1>3. search \in SearchRecord
  BY <1>1, <1>2 DEF SearchRecord
<1>4. Held(search.steps) = {} /\ Failed(search.steps) = {} /\ Loads(search.steps) = {}
  BY <1>2 DEF Held, Failed, Loads
<1>5. LadderInOrder
  <2>1. Climbs(search.steps)
    BY <1>2 DEF Climbs
  <2>2. search.nextLoad \in Ladder
    <3>1. range[2] < 2 ^ (MaxDoublings - 1)
      BY UpperBoundOfRanges
    <3>2. \E rung \in SweepLadder(range[1], range[2]) : rung = range[1]
      <4>1. Min(SweepLadder(range[1], range[2])) = range[1]
        BY <1>1, <3>1, SweepLadderClimbs
      <4>2. /\ SweepLadder(range[1], range[2]) \subseteq range[1] .. range[2]
            /\ range[2] \in SweepLadder(range[1], range[2])
        BY <1>1, SweepLadderBounds
      <4>3. SweepLadder(range[1], range[2]) \subseteq Nat
        BY <1>1, <4>2
      <4>4. Min(SweepLadder(range[1], range[2])) \in SweepLadder(range[1], range[2])
        BY <4>2, <4>3, MinOfNats
      <4>. QED  BY <4>1, <4>4
    <3>. QED  BY <1>2, <3>2 DEF Ladder
  <2>3. \A rung \in Ladder : ~(rung < search.nextLoad)
    <3>1. Ladder \subseteq range[1] .. range[2]
      BY <1>1, <1>2, SweepLadderBounds DEF Ladder
    <3>. QED  BY <1>1, <1>2, <3>1
  <2>. QED  BY <1>4, <2>1, <2>2, <2>3 DEF LadderInOrder
<1>6. BooksAgreeWithSteps
  <2>1. TypeOK
    BY <1>1, <1>2, <1>3 DEF TypeOK, SearchRecord
  <2>2. HighestHeld(search.steps) = 0
    BY <1>4, NoneHeldIsZero
  <2>3. search.stableLoad = 0 /\ search.failedLoad = 0 /\ search.steps = << >>
    BY <1>2
  <2>4. LowestFailed(search.steps) = 0
    BY <1>4 DEF LowestFailed
  <2>. QED  BY <2>1, <2>2, <2>3, <2>4, Zenon
            DEF BooksAgreeWithSteps, HighestHeld, LowestFailed, Held, Failed
<1>. QED  BY <1>3, <1>5, <1>6 DEF SweepInv

THEOREM SweepSafety == Spec => []SweepInv
<1>1. SweepInv /\ [Next]_search => SweepInv'
  <2>1. ASSUME SweepInv, Next PROVE SweepInv'
    BY <2>1, FinishRungPreserves DEF Next
  <2>2. ASSUME SweepInv, UNCHANGED search PROVE SweepInv'
    BY <2>2 DEF SweepInv, LadderInOrder, BooksAgreeWithSteps, TypeOK, Ladder
  <2>. QED  BY <2>1, <2>2
<1>. QED  BY InitSweepInv, <1>1, PTL DEF Spec

(***************************************************************************)
(* StableLoad is the highest rung that held and FailedLoad the lowest that *)
(* did not, and a sweep that goes on has held at least once and has not    *)
(* failed twice in a row (AdvanceSearch in search.go), however the server  *)
(* behaves under load.                                                     *)
(***************************************************************************)
THEOREM BooksAlwaysAgree == Spec => []BooksAgreeWithSteps
<1>1. SweepInv => BooksAgreeWithSteps
  BY DEF SweepInv
<1>. QED  BY SweepSafety, <1>1, PTL

(***************************************************************************)
(* Every search's ladder starts at its start load, ends at its maximum and *)
(* never more than doubles: SweepLadder's cap of 12 rungs does not leave a *)
(* gap below the maximum in any search ValidateAutoSearchConfig accepts.   *)
(***************************************************************************)
THEOREM LaddersClimbToMax == Spec => []LadderClimbsToMax
<1>1. SweepInv => LadderClimbsToMax
  <2>. SUFFICES ASSUME SweepInv PROVE LadderClimbsToMax
    OBVIOUS
  <2>1. PICK range \in LoadRanges : range = <<search.start, search.max>>
    BY DEF SweepInv, BooksAgreeWithSteps, TypeOK
  <2>2. /\ range \in Nat \X Nat /\ range[1] >= 1 /\ range[1] <= range[2]
        /\ range[2] < 2 ^ (MaxDoublings - 1)
    BY <2>1, LoadRangesAssumption, UpperBoundOfRanges DEF ValidRange
  <2>3. /\ search.start \in Nat \ {0} /\ search.max \in Nat /\ search.start <= search.max
        /\ search.max < 2 ^ (MaxDoublings - 1)
    BY <2>1, <2>2
  <2>. QED  BY <2>3, SweepLadderClimbs DEF LadderClimbsToMax, Ladder
<1>. QED  BY SweepSafety, <1>1, PTL

-----------------------------------------------------------------------------
(***************************************************************************)
(* What of SweepEnds does not need fairness: the rungs that are left.      *)
(***************************************************************************)
Left == Ladder \ Loads(search.steps)

LEMMA LeftIsFinite == SweepInv => Ladder \subseteq Nat /\ IsFiniteSet(Ladder) /\ IsFiniteSet(Left)
<1>. SUFFICES ASSUME SweepInv PROVE Ladder \subseteq Nat /\ IsFiniteSet(Ladder) /\ IsFiniteSet(Left)
  OBVIOUS
<1>1. PICK range \in LoadRanges : range = <<search.start, search.max>>
  BY DEF SweepInv, BooksAgreeWithSteps, TypeOK
<1>2. search.start \in Nat \ {0} /\ search.max \in Nat /\ search.start <= search.max
  <2>1. range \in Nat \X Nat /\ range[1] >= 1 /\ range[1] <= range[2]
    BY LoadRangesAssumption DEF ValidRange
  <2>. QED  BY <1>1, <2>1
<1>3. Ladder \subseteq search.start .. search.max
  BY <1>2, SweepLadderBounds DEF Ladder
<1>4. IsFiniteSet(search.start .. search.max)
  <2>. DEFINE a == search.start
              b == search.max
  <2>1. a \in Int /\ b \in Int
    BY <1>2
  <2>. HIDE DEF a, b
  <2>2. IsFiniteSet(a .. b)
    BY <2>1, FS_Interval
  <2>. QED  BY <2>2 DEF a, b
<1>5. IsFiniteSet(Ladder)
  BY <1>3, <1>4, FS_Subset
<1>. QED  BY <1>2, <1>3, <1>5, FS_Subset DEF Left

(***************************************************************************)
(* A running search always has a rung to measure, one of its ladder that   *)
(* it has not measured yet: AdvanceSearch never leaves a search running    *)
(* with nothing queued.                                                    *)
(***************************************************************************)
THEOREM SweepsNeverStick ==
  Spec => [](search.status = "running" => search.nextLoad > 0 /\ search.nextLoad \in Left)
<1>1. SweepInv => (search.status = "running" => search.nextLoad > 0 /\ search.nextLoad \in Left)
  <2>. SUFFICES ASSUME SweepInv, search.status = "running"
                PROVE  search.nextLoad > 0 /\ search.nextLoad \in Left
    OBVIOUS
  <2>1. /\ search.nextLoad \in Ladder
        /\ search.nextLoad \in Loads(search.steps) <=> search.nextLoad < search.nextLoad
    BY DEF SweepInv, LadderInOrder
  <2>2. search.nextLoad \in Nat
    BY <2>1, LeftIsFinite
  <2>3. search.nextLoad \in Left
    BY <2>1, <2>2 DEF Left
  <2>4. search.nextLoad # 0
    <3>1. PICK range \in LoadRanges : range = <<search.start, search.max>>
      BY DEF SweepInv, BooksAgreeWithSteps, TypeOK
    <3>2. search.start \in Nat \ {0} /\ search.max \in Nat /\ search.start <= search.max
      <4>1. range \in Nat \X Nat /\ range[1] >= 1 /\ range[1] <= range[2]
        BY LoadRangesAssumption DEF ValidRange
      <4>. QED  BY <3>1, <4>1
    <3>3. search.nextLoad \in search.start .. search.max
      BY <2>1, <3>2, SweepLadderBounds DEF Ladder
    <3>. QED  BY <3>2, <3>3
  <2>. QED  BY <2>2, <2>3, <2>4
<1>. QED  BY <1>1, SweepSafety, PTL

(***************************************************************************)
(* With every rung that finishes, stable or not, the rungs that are left   *)
(* are fewer: a search makes at most as many runs as its ladder has rungs, *)
(* and AdvanceSearch goes over none twice.                                 *)
(***************************************************************************)
THEOREM EveryRungBringsTheEndCloser ==
  Spec => [][Ladder' = Ladder /\ Left' \subseteq Left /\ Cardinality(Left') = Cardinality(Left) - 1]_search
<1>1. ASSUME SweepInv, SweepInv', NEW stable \in BOOLEAN, FinishRung(stable)
      PROVE  Ladder' = Ladder /\ Left' \subseteq Left /\ Cardinality(Left') = Cardinality(Left) - 1
  <2>. DEFINE load   == search.nextLoad
              step   == [load |-> load, stable |-> stable]
              longer == Append(search.steps, step)
              above  == {rung \in Ladder : rung > load}
  <2>1. /\ step \in Step /\ step.load = load /\ search.steps \in Seq(Step)
        /\ load \in Ladder /\ \A x \in Loads(search.steps) : 0 < x /\ x < load
    BY <1>1, RungMeasured
  <2>2. search'.start = search.start /\ search'.max = search.max /\ search'.steps = longer
    BY <1>1, FinishRungEffect
  <2>3. Ladder' = Ladder
    BY <2>2 DEF Ladder
  <2>4. Loads(search'.steps) = Loads(search.steps) \cup {load}
    <3>. HIDE DEF step
    <3>1. Loads(longer) = Loads(search.steps) \cup {step.load}
      <4>1. longer = Append(search.steps, step)
        OBVIOUS
      <4>. HIDE DEF longer
      <4>. QED  BY <2>1, <4>1, OneMoreLoad
    <3>. QED  BY <2>1, <2>2, <3>1
  <2>5. load \in Nat /\ IsFiniteSet(Left)
    BY <1>1, <2>1, LeftIsFinite
  <2>6. load \in Left
    BY <2>1, <2>5 DEF Left
  <2>7. Left' = Left \ {load}
    BY <2>3, <2>4 DEF Left
  <2>8. Cardinality(Left \ {load}) = Cardinality(Left) - 1
    BY <2>5, <2>6, FS_RemoveElement
  <2>. QED  BY <2>3, <2>7, <2>8
<1>2. SweepInv /\ SweepInv' /\ [Next]_search
        => [Ladder' = Ladder /\ Left' \subseteq Left /\ Cardinality(Left') = Cardinality(Left) - 1]_search
  BY <1>1 DEF Next
<1>. QED  BY <1>2, SweepSafety, PTL DEF Spec

-----------------------------------------------------------------------------
(***************************************************************************)
(* The refinement.  What the steps say of the rungs, as CapacitySweep sees *)
(* it: a function, since no rung is measured twice.                        *)
(***************************************************************************)
MeasuredIn(steps) ==
  [r \in Loads(steps) |-> \E i \in DOMAIN steps : steps[i] = [load |-> r, stable |-> TRUE]]

LEMMA MeasuredReadsBack ==
  ASSUME NEW steps \in Seq(Step), Climbs(steps)
  PROVE  /\ MeasuredIn(steps) \in [Loads(steps) -> BOOLEAN]
         /\ \A i \in DOMAIN steps : /\ steps[i].load \in Loads(steps)
                                    /\ MeasuredIn(steps)[steps[i].load] = steps[i].stable
         /\ \A r \in Loads(steps) : \E i \in DOMAIN steps : steps[i].load = r
<1>1. MeasuredIn(steps) \in [Loads(steps) -> BOOLEAN]
  BY DEF MeasuredIn
<1>2. ASSUME NEW i \in DOMAIN steps
      PROVE  /\ steps[i].load \in Loads(steps)
             /\ MeasuredIn(steps)[steps[i].load] = steps[i].stable
  <2>1. steps[i].load \in Loads(steps)
    BY DEF Loads
  <2>2. steps[i] \in Step
    OBVIOUS
  <2>3. MeasuredIn(steps)[steps[i].load]
          = \E j \in DOMAIN steps : steps[j] = [load |-> steps[i].load, stable |-> TRUE]
    BY <2>1 DEF MeasuredIn
  <2>4. steps[i].stable => steps[i] = [load |-> steps[i].load, stable |-> TRUE]
    BY <2>2 DEF Step
  <2>5. ASSUME NEW j \in DOMAIN steps, steps[j] = [load |-> steps[i].load, stable |-> TRUE]
        PROVE  steps[i].stable
    <3>1. steps[j].load = steps[i].load /\ steps[j].stable
      BY <2>5
    <3>2. i \in 1 .. Len(steps) /\ j \in 1 .. Len(steps)
      OBVIOUS
    <3>3. steps[i].load \in Nat /\ steps[j].load \in Nat
      BY <2>2, <3>1 DEF Step
    <3>4. ~(i < j) /\ ~(j < i)
      BY <3>1, <3>2, <3>3 DEF Climbs
    <3>5. i = j
      BY <3>2, <3>4
    <3>. QED  BY <3>1, <3>5
  <2>6. steps[i].stable \in BOOLEAN
    BY <2>2 DEF Step
  <2>. QED  BY <2>1, <2>3, <2>4, <2>5, <2>6, Zenon
<1>3. \A r \in Loads(steps) : \E i \in DOMAIN steps : steps[i].load = r
  BY DEF Loads
<1>. QED  BY <1>1, <1>2, <1>3

LEMMA MeasuredGrows ==
  ASSUME NEW steps \in Seq(Step), NEW step \in Step, NEW longer, longer = Append(steps, step),
         Climbs(steps), \A load \in Loads(steps) : load < step.load
  PROVE  MeasuredIn(longer) = [r \in DOMAIN MeasuredIn(steps) \cup {step.load} |->
                                 IF r = step.load THEN step.stable ELSE MeasuredIn(steps)[r]]
<1>1. /\ longer \in Seq(Step)
      /\ \A i \in DOMAIN steps : i \in DOMAIN longer /\ longer[i] = steps[i]
      /\ Len(steps) + 1 \in DOMAIN longer /\ longer[Len(steps) + 1] = step
  BY OneMoreStep
<1>2. Climbs(longer)
  BY StillClimbs
<1>3. Loads(longer) = Loads(steps) \cup {step.load}
  BY OneMoreLoad
<1>4. DOMAIN MeasuredIn(longer) = Loads(longer) /\ DOMAIN MeasuredIn(steps) = Loads(steps)
  BY DEF MeasuredIn
<1>0. \A i \in DOMAIN longer : MeasuredIn(longer)[longer[i].load] = longer[i].stable
  <2>. HIDE DEF MeasuredIn
  <2>. QED  BY <1>1, <1>2, MeasuredReadsBack
<1>5. MeasuredIn(longer)[step.load] = step.stable
  BY <1>0, <1>1, Zenon
<1>6. ASSUME NEW r \in Loads(steps) PROVE r # step.load /\ MeasuredIn(longer)[r] = MeasuredIn(steps)[r]
  <2>1. PICK i \in DOMAIN steps : steps[i].load = r
    BY MeasuredReadsBack
  <2>2. MeasuredIn(steps)[r] = steps[i].stable
    BY <2>1, MeasuredReadsBack
  <2>3. i \in DOMAIN longer /\ longer[i] = steps[i]
    BY <1>1
  <2>4. MeasuredIn(longer)[r] = steps[i].stable
    BY <1>0, <2>1, <2>3, Zenon
  <2>5. r < step.load /\ r \in Nat /\ step.load \in Nat
    BY LoadsAreNats DEF Step
  <2>. QED  BY <2>2, <2>4, <2>5
<1>7. MeasuredIn(longer) = [r \in Loads(longer) |-> MeasuredIn(longer)[r]]
  BY DEF MeasuredIn
<1>. DEFINE grown == [r \in DOMAIN MeasuredIn(steps) \cup {step.load} |->
                        IF r = step.load THEN step.stable ELSE MeasuredIn(steps)[r]]
<1>8. DOMAIN grown = Loads(longer) /\ grown = [r \in Loads(longer) |-> grown[r]]
  BY <1>3, <1>4
<1>9. \A r \in Loads(longer) : MeasuredIn(longer)[r] = grown[r]
  BY <1>3, <1>4, <1>5, <1>6
<1>. HIDE DEF grown
<1>10. MeasuredIn(longer) = grown
  BY <1>7, <1>8, <1>9
<1>. QED  BY <1>10 DEF grown

(***************************************************************************)
(* KneeLoad's walk finds the abstract capacity: both stop below the lowest *)
(* rung that failed.                                                       *)
(***************************************************************************)
LEMMA KneeIsCapacity ==
  ASSUME NEW steps \in Seq(Step), Climbs(steps)
  PROVE  KneeLoad(steps) = Abstract!Capacity(MeasuredIn(steps))
<1>. DEFINE m        == MeasuredIn(steps)
            unstable == {i \in DOMAIN steps : ~steps[i].stable}
            below    == {j \in DOMAIN steps : \A i \in unstable : steps[j].load < steps[i].load}
            knees    == {steps[j].load : j \in below}
            holding  == {r \in Loads(steps) : \A q \in Loads(steps) : q <= r => m[q]}
<1>1. /\ \A i \in DOMAIN steps : /\ steps[i].load \in Loads(steps)
                                 /\ m[steps[i].load] = steps[i].stable
      /\ \A r \in Loads(steps) : \E i \in DOMAIN steps : steps[i].load = r
      /\ DOMAIN m = Loads(steps)
      /\ Loads(steps) \subseteq Nat
  BY MeasuredReadsBack, LoadsAreNats
<1>. HIDE DEF m
<1>2. ASSUME NEW j \in below PROVE steps[j].load \in holding
  <2>1. SUFFICES ASSUME NEW q \in Loads(steps), q <= steps[j].load, ~m[q] PROVE FALSE
    BY <1>1
  <2>2. PICK i \in DOMAIN steps : steps[i].load = q
    BY <1>1
  <2>3. i \in unstable
    BY <1>1, <2>1, <2>2
  <2>4. steps[j].load < q
    BY <2>2, <2>3
  <2>5. steps[j].load \in Nat /\ q \in Nat
    BY <1>1
  <2>. QED  BY <2>1, <2>4, <2>5
<1>3. ASSUME NEW r \in holding PROVE r \in knees
  <2>1. PICK j \in DOMAIN steps : steps[j].load = r
    BY <1>1
  <2>2. ASSUME NEW i \in unstable PROVE steps[j].load < steps[i].load
    <3>1. steps[i].load \in Loads(steps) /\ ~m[steps[i].load]
      BY <1>1
    <3>2. ~(steps[i].load <= r)
      BY <3>1
    <3>3. steps[i].load \in Nat /\ r \in Nat
      BY <1>1, <3>1
    <3>. QED  BY <2>1, <3>2, <3>3
  <2>3. j \in below
    BY <2>2
  <2>. QED  BY <2>1, <2>3
<1>4. knees = holding
  <2>. HIDE DEF holding, below
  <2>. QED  BY <1>2, <1>3
<1>5. KneeLoad(steps) = Max({0} \cup knees)
  BY Zenon DEF KneeLoad
<1>6. Abstract!Capacity(m) = Max({0} \cup holding)
  BY <1>1 DEF Abstract!Capacity, Abstract!Max, Max
<1>. QED  BY <1>4, <1>5, <1>6 DEF m

(***************************************************************************)
(* The two stopping rules agree: AdvanceSearch, which looks at StableLoad, *)
(* at the tail of its steps and at what is left of the ladder, stops       *)
(* exactly when what was measured is conclusive.                           *)
(***************************************************************************)
LEMMA StopsWhenConclusive ==
  ASSUME SweepInv, NEW stable \in BOOLEAN, FinishRung(stable),
         NEW longer, longer = Append(search.steps, [load |-> search.nextLoad, stable |-> stable]),
         NEW above, above = {rung \in Ladder : rung > search.nextLoad}
  PROVE  Abstract!Conclusive(MeasuredIn(longer))
           <=> NoneHeldYet(longer) \/ LatestTwoFailed(longer) \/ above = {}
<1>. DEFINE steps == search.steps
            load  == search.nextLoad
            step  == [load |-> load, stable |-> stable]
            m     == MeasuredIn(longer)
            D     == Loads(longer)
<1>1. /\ step \in Step /\ step.load = load /\ step.stable = stable
      /\ steps \in Seq(Step)
      /\ search.status = "running"
      /\ load \in Ladder
      /\ \A x \in Loads(steps) : 0 < x /\ x < step.load
      /\ Ladder \subseteq Nat \ {0}
  BY RungMeasured
<1>2. /\ Climbs(steps) /\ Loads(steps) \subseteq Ladder
      /\ \A rung \in Ladder : rung \in Loads(steps) <=> rung < load
  BY <1>1 DEF SweepInv, LadderInOrder
<1>3. longer = Append(steps, step)
  OBVIOUS
<1>. HIDE DEF step
<1>4. /\ longer \in Seq(Step) /\ Len(longer) = Len(steps) + 1 /\ Len(steps) \in Nat
      /\ DOMAIN steps = 1 .. Len(steps) /\ DOMAIN longer = 1 .. Len(steps) + 1
      /\ \A i \in DOMAIN steps : i \in DOMAIN longer /\ longer[i] = steps[i]
      /\ Len(longer) \in DOMAIN longer /\ longer[Len(longer)] = step
  <2>1. Len(longer) = Len(steps) + 1 /\ longer[Len(steps) + 1] = step /\ Len(steps) + 1 \in DOMAIN longer
    BY <1>1, <1>3, OneMoreStep
  <2>. QED  BY <1>1, <1>3, <2>1, OneMoreStep
<1>5. Climbs(longer)
  BY <1>1, <1>2, <1>3, StillClimbs
<1>6. D = Loads(steps) \cup {load} /\ D \subseteq Nat /\ load \in D
  <2>1. Loads(longer) = Loads(steps) \cup {step.load}
    BY <1>1, <1>3, OneMoreLoad
  <2>. QED  BY <1>1, <1>2, <2>1
<1>. HIDE DEF steps
<1>7. /\ DOMAIN m = D
      /\ \A i \in DOMAIN longer : longer[i].load \in D /\ m[longer[i].load] = longer[i].stable
      /\ \A r \in D : \E i \in DOMAIN longer : longer[i].load = r
  <2>1. DOMAIN m = D
    BY DEF MeasuredIn
  <2>. QED  BY <1>4, <1>5, <2>1, MeasuredReadsBack
<1>8. m[load] = stable
  <2>. HIDE DEF m, D, load
  <2>1. m[longer[Len(longer)].load] = longer[Len(longer)].stable
    BY <1>4, <1>7
  <2>. QED  BY <1>1, <1>4, <2>1
<1>9. \A x \in D : 0 < x /\ x <= load
  BY <1>1, <1>6
<1>10. Max(D) = load
  <2>. HIDE DEF D
  <2>. QED  BY <1>6, <1>9, MaxIs
<1>11. D = Ladder <=> above = {}
  <2>1. \A rung \in Ladder : rung \in D <=> ~(rung > load)
    <3>1. ASSUME NEW rung \in Ladder PROVE rung \in D <=> ~(rung > load)
      <4>1. rung \in Nat /\ load \in Nat
        BY <1>1
      <4>2. rung \in D <=> rung < load \/ rung = load
        BY <1>2, <1>6, Zenon
      <4>. QED  BY <4>1, <4>2
    <3>. QED  BY <3>1
  <2>2. D \subseteq Ladder
    BY <1>1, <1>2, <1>6
  <2>. HIDE DEF D
  <2>. QED  BY <2>1, <2>2
<1>. HIDE DEF D, m
<1>12. (\A r \in D : ~m[r]) <=> NoneHeldYet(longer)
  <2>1. ASSUME \A r \in D : ~m[r] PROVE NoneHeldYet(longer)
    <3>1. \A i \in DOMAIN longer : ~longer[i].stable
      BY <1>7, <2>1
    <3>2. Held(longer) = {}
      BY <3>1 DEF Held
    <3>3. HighestHeld(longer) = 0
      BY <3>2, NoneHeldIsZero
    <3>. QED  BY <3>1, <3>3, <1>4 DEF NoneHeldYet
  <2>2. ASSUME NoneHeldYet(longer), NEW r \in D, m[r] PROVE FALSE
    <3>1. PICK i \in DOMAIN longer : longer[i].load = r
      BY <1>7
    <3>2. r \in Held(longer)
      BY <1>7, <2>2, <3>1 DEF Held
    <3>3. {0} \cup Held(longer) \subseteq 0 .. load /\ load \in Nat
      <4>1. Held(longer) \subseteq D
        BY <1>4, LoadsAreNats DEF D
      <4>. QED  BY <1>6, <1>9, <4>1
    <3>4. \A x \in {0} \cup Held(longer) : x <= HighestHeld(longer)
      <4>. DEFINE all == {0} \cup Held(longer)
      <4>1. all # {} /\ all \subseteq 0 .. load
        BY <3>3
      <4>2. HighestHeld(longer) = Max(all)
        BY DEF HighestHeld
      <4>. HIDE DEF all
      <4>3. \A x \in all : x <= Max(all)
        BY <3>3, <4>1, MaxOfNats
      <4>. QED  BY <4>2, <4>3 DEF all
    <3>5. r <= 0 /\ 0 < r /\ r \in Nat
      BY <1>6, <1>9, <2>2, <3>2, <3>4 DEF NoneHeldYet
    <3>. QED  BY <3>5
  <2>. QED  BY <2>1, <2>2
<1>13. D \ {load} = Loads(steps)
  <2>1. ASSUME load \in Loads(steps) PROVE FALSE
    <3>1. load < step.load /\ step.load = load /\ load \in Nat
      BY <1>1, <1>6, <2>1
    <3>. HIDE DEF load
    <3>. QED  BY <3>1
  <2>. QED  BY <1>6, <2>1
<1>14. (~m[load] /\ D # {load} /\ ~m[Max(D \ {load})]) <=> LatestTwoFailed(longer)
  <2>1. CASE Len(steps) = 0
    <3>1. Loads(steps) = {}
      BY <1>4, <2>1 DEF Loads
    <3>2. D = {load}
      BY <1>6, <3>1
    <3>3. ~(Len(longer) >= 2)
      BY <1>4, <2>1
    <3>. QED  BY <3>2, <3>3 DEF LatestTwoFailed
  <2>2. CASE Len(steps) # 0
    <3>. DEFINE n == Len(steps)
    <3>1. n \in DOMAIN steps /\ n \in Nat /\ Len(longer) >= 2 /\ Len(longer) - 1 = n
      BY <1>4, <2>2
    <3>2. steps[n].load \in Loads(steps)
      BY <3>1 DEF Loads
    <3>3. Loads(steps) \subseteq Nat
      BY <1>6
    <3>4. ASSUME NEW x \in Loads(steps) PROVE x <= steps[n].load
      <4>1. PICK i \in DOMAIN steps : steps[i].load = x
        BY DEF Loads
      <4>2. i \in 1 .. n /\ n \in 1 .. n
        BY <1>4, <3>1
      <4>3. i = n \/ i < n
        BY <4>2
      <4>4. i < n => x < steps[n].load
        BY <1>2, <4>1, <4>2 DEF Climbs
      <4>5. x \in Nat /\ steps[n].load \in Nat
        BY <3>2, <3>3
      <4>. QED  BY <4>1, <4>3, <4>4, <4>5
    <3>5. Max(Loads(steps)) = steps[n].load
      BY <3>2, <3>3, <3>4, MaxIs
    <3>6. m[steps[n].load] = longer[n].stable
      BY <1>4, <1>7, <3>1
    <3>7. D # {load}
      BY <1>1, <1>6, <3>2
    <3>8. longer[Len(longer)].stable = stable /\ Len(longer) - 1 = n
      BY <1>1, <1>4, <3>1
    <3>. HIDE DEF n
    <3>. QED  BY <1>8, <1>13, <3>1, <3>5, <3>6, <3>7, <3>8 DEF LatestTwoFailed
  <2>. QED  BY <2>1, <2>2
<1>15. Abstract!Conclusive(m)
         <=> \/ D = Ladder
             \/ \A r \in D : ~m[r]
             \/ ~m[load] /\ D # {load} /\ ~m[Max(D \ {load})]
  <2>1. \A S : Abstract!Max(S) = Max(S)
    BY DEF Abstract!Max, Max
  <2>. QED  BY <1>7, <1>10, <2>1, Zenon DEF Abstract!Conclusive
<1>. QED  BY <1>11, <1>12, <1>14, <1>15, Zenon DEF m

\* One rung's run is one Measure of the abstract sweep.
LEMMA FinishRungMeasures ==
  ASSUME SweepInv, NEW stable \in BOOLEAN, FinishRung(stable)
  PROVE  Abstract!Next
<1>. DEFINE load   == search.nextLoad
            step   == [load |-> load, stable |-> stable]
            longer == Append(search.steps, step)
            above  == {rung \in Ladder : rung > load}
<1>1. /\ step \in Step /\ step.load = load /\ step.stable = stable
      /\ search.steps \in Seq(Step)
      /\ search.status = "running"
      /\ load \in Ladder
      /\ \A x \in Loads(search.steps) : 0 < x /\ x < step.load
      /\ Ladder \subseteq Nat \ {0}
  BY RungMeasured
<1>2. /\ search'.start = search.start /\ search'.max = search.max
      /\ search'.steps = longer
      /\ IF NoneHeldYet(longer) \/ LatestTwoFailed(longer) \/ above = {}
           THEN search'.status = "completed" /\ search'.recommended = KneeLoad(longer)
           ELSE search'.status = "running"
  BY FinishRungEffect
<1>3. Abstract!Conclusive(MeasuredIn(longer))
        <=> NoneHeldYet(longer) \/ LatestTwoFailed(longer) \/ above = {}
  BY StopsWhenConclusive
<1>. HIDE DEF above
<1>4. longer = Append(search.steps, step)
  OBVIOUS
<1>. HIDE DEF step
<1>5. /\ Climbs(search.steps)
      /\ \A rung \in Ladder : rung \in Loads(search.steps) <=> rung < load
  BY <1>1 DEF SweepInv, LadderInOrder
<1>6. longer \in Seq(Step) /\ Climbs(longer)
  <2>1. step \in Step /\ search.steps \in Seq(Step) /\ longer = Append(search.steps, step)
    BY <1>1, <1>4
  <2>2. Climbs(search.steps) /\ \A x \in Loads(search.steps) : x < step.load
    BY <1>1, <1>5
  <2>. HIDE DEF longer
  <2>3. longer \in Seq(Step)
    BY <2>1, OneMoreStep
  <2>4. Climbs(longer)
    BY <2>1, <2>2, StillClimbs
  <2>. QED  BY <2>3, <2>4
<1>7. MeasuredIn(longer) = [r \in DOMAIN MeasuredIn(search.steps) \cup {step.load} |->
                              IF r = step.load THEN step.stable ELSE MeasuredIn(search.steps)[r]]
  BY <1>1, <1>4, <1>5, MeasuredGrows
<1>8. KneeLoad(longer) = Abstract!Capacity(MeasuredIn(longer))
  BY <1>6, KneeIsCapacity
<1>. HIDE DEF longer
<1>9. Ladder' = Ladder
  BY <1>2 DEF Ladder
<1>10. Measured = MeasuredIn(search.steps) /\ Measured' = MeasuredIn(longer)
  <2>1. Measured = MeasuredIn(search.steps)
    BY DEF Measured, MeasuredIn, Loads
  <2>2. Measured' = MeasuredIn(search'.steps)
    BY DEF Measured, MeasuredIn, Loads
  <2>. QED  BY <1>2, <2>1, <2>2
<1>11. load \in Ladder \ DOMAIN Measured /\ load = Min(Ladder \ DOMAIN Measured)
  <2>. DEFINE left == Ladder \ DOMAIN Measured
  <2>1. DOMAIN Measured = Loads(search.steps)
    BY <1>10 DEF MeasuredIn
  <2>2. load \in Nat /\ left \subseteq Nat
    BY <1>1
  <2>3. ASSUME NEW x \in Ladder PROVE x \in left <=> load <= x
    <3>1. x \in Nat
      BY <1>1
    <3>2. x \in left <=> ~(x < load)
      BY <1>5, <2>1
    <3>. QED  BY <2>2, <3>1, <3>2
  <2>4. load \in left /\ \A x \in left : load <= x
    BY <1>1, <2>2, <2>3
  <2>. HIDE DEF left
  <2>5. Min(left) = load
    BY <2>2, <2>4, MinIs
  <2>. QED  BY <2>4, <2>5 DEF left
<1>12. \A S : Abstract!Min(S) = Min(S)
  BY DEF Abstract!Min, Min
<1>13. /\ (IF search.status = "completed" THEN search.recommended ELSE -1) = -1
       /\ (IF search'.status = "completed" THEN search'.recommended ELSE -1)
            = IF Abstract!Conclusive(MeasuredIn(longer))
                THEN Abstract!Capacity(MeasuredIn(longer)) ELSE -1
  BY <1>1, <1>2, <1>3, <1>8
<1>14. Abstract!Measure(load, stable)
  <2>. HIDE DEF load
  <2>1. Measured' = [r \in DOMAIN Measured \cup {load} |-> IF r = load THEN stable ELSE Measured[r]]
    BY <1>1, <1>7, <1>10
  <2>2. load = Abstract!Min(Ladder \ DOMAIN Measured)
    BY <1>11, <1>12
  <2>. QED  BY <1>9, <1>10, <1>13, <2>1, <2>2
            DEF Abstract!Measure, Abstract!Unanswered
<1>. QED  BY <1>11, <1>14 DEF Abstract!Next

(***************************************************************************)
(* AdvanceSearch implements CapacitySweep: rungs from the bottom, none     *)
(* skipped, no stop before what was measured is conclusive, and the answer *)
(* the highest rung that holds with every rung below it.                   *)
(***************************************************************************)
THEOREM SweepIsImplemented == Spec => ImplementsCapacitySweep
<1>1. Init => Abstract!Init
  <2>. SUFFICES ASSUME NEW range \in LoadRanges, search = PlannedSearch(Requested(range))
                PROVE  Abstract!Init
    BY DEF Init
  <2>1. search.steps = << >> /\ search.status = "running"
    BY DEF PlannedSearch, Requested
  <2>2. Measured = << >>
    BY <2>1 DEF Measured
  <2>. QED  BY <2>1, <2>2 DEF Abstract!Init, Abstract!Unanswered
<1>2. SweepInv /\ [Next]_search => [Abstract!Next]_(Abstract!vars)
  <2>1. ASSUME SweepInv, Next PROVE Abstract!Next
    BY <2>1, FinishRungMeasures DEF Next
  <2>2. ASSUME UNCHANGED search PROVE UNCHANGED Abstract!vars
    BY <2>2 DEF Abstract!vars, Measured, Ladder
  <2>. QED  BY <2>1, <2>2
<1>. QED  BY <1>1, <1>2, SweepSafety, PTL DEF Spec, ImplementsCapacitySweep, Abstract!Spec
=============================================================================
