---------------------------- MODULE MonitoringProofs ----------------------------
(***************************************************************************)
(* Proofs about how a model server is watched.  The metric resolver, for   *)
(* any number of callers, metrics and candidates, however often the        *)
(* exporters change: no metric is remembered and given up at once, and     *)
(* probes are bounded.  What is made of the samples, for any series of     *)
(* them and any scrapes: pressure and faults that were seen are never      *)
(* unseen, seconds without a measurement change no verdict, and the        *)
(* server's word wins, openly and for good.  The two parts share no state. *)
(***************************************************************************)
EXTENDS MetricResolver, Assessment, SequenceTheorems, FiniteSetTheorems, WellFoundedInduction, TLAPS

(***************************************************************************)
(* Callers past their first look at a metric: each of them may still give  *)
(* the metric up once.                                                     *)
(***************************************************************************)
Past == {"remembered", "probing", "found", "lost"}

InRound(key) == {c \in Callers : Key(c) = key /\ caller[c].at \in Past}

(***************************************************************************)
(* The vain rounds since the last retry and those that callers still have  *)
(* under way never exceed the callers; a metric that is not given up has   *)
(* none.                                                                   *)
(***************************************************************************)
RoundsInv ==
  \A key \in Keys :
    /\ absent[key] # "waiting" => rounds[key] = 0
    /\ rounds[key] + Cardinality(InRound(key)) <= Cardinality(Callers)

ResolverInv == TypeOK /\ MemoryIsConsistent /\ RoundsInv

CallerRec == [at : {"idle", "looking", "remembered", "probing", "found", "lost"},
              query : DOMAIN Metrics, option : Nat, found : SUBSET Keys]

-----------------------------------------------------------------------------
(***************************************************************************)
(* Facts about the constants.                                              *)
(***************************************************************************)
LEMMA ConstantFacts ==
  /\ Len(Metrics) \in Nat \ {0} /\ DOMAIN Metrics = 1 .. Len(Metrics)
  /\ \A i \in DOMAIN Metrics : Metrics[i] \in Keys
  /\ \A key \in Keys : Candidates[key] \in Nat \ {0}
  /\ IsFiniteSet(Callers) /\ Cardinality(Callers) \in Nat
<1>1. Len(Metrics) \in Nat \ {0} /\ DOMAIN Metrics = 1 .. Len(Metrics)
  BY MetricResolverAssumption
<1>2. \A i \in DOMAIN Metrics : Metrics[i] \in Keys
  BY DEF Keys
<1>3. \A key \in Keys : Candidates[key] \in Nat \ {0}
  BY MetricResolverAssumption
<1>4. IsFiniteSet({Sampler} \cup Handlers)
  <2>1. IsFiniteSet(Handlers \cup {Sampler})
    BY FS_AddElement, MetricResolverAssumption
  <2>2. Handlers \cup {Sampler} = {Sampler} \cup Handlers
    OBVIOUS
  <2> QED BY <2>1, <2>2
<1> QED BY <1>1, <1>2, <1>3, <1>4, FS_CardinalityType DEF Callers

(***************************************************************************)
(* What TypeOK says of one caller.                                         *)
(***************************************************************************)
LEMMA CallerFacts ==
  ASSUME TypeOK, NEW c \in Callers
  PROVE  /\ caller \in [Callers -> CallerRec]
         /\ caller[c] \in CallerRec
         /\ Key(c) \in Keys
         /\ caller[c].option <= Candidates[Key(c)]
BY ConstantFacts DEF TypeOK, CallerRec, Key

(***************************************************************************)
(* A step of one caller keeps TypeOK if the caller's record stays well     *)
(* typed.                                                                  *)
(***************************************************************************)
LEMMA CallerStepType ==
  ASSUME TypeOK, NEW c \in Callers, NEW r \in CallerRec, caller' = [caller EXCEPT ![c] = r],
         r.option <= Candidates[Metrics[r.query]]
  PROVE  /\ caller' \in [Callers -> CallerRec]
         /\ \A d \in Callers : caller'[d].option <= Candidates[Metrics[caller'[d].query]]
BY CallerFacts DEF Key

(***************************************************************************)
(* No candidate is a candidate number in range.                            *)
(***************************************************************************)
LEMMA OptionOfZero ==
  ASSUME NEW r \in CallerRec, r.option = 0
  PROVE  r.option <= Candidates[Metrics[r.query]]
BY ConstantFacts DEF CallerRec

(***************************************************************************)
(* Return leaves the metric: the caller is looking at the next one, or is  *)
(* done.                                                                   *)
(***************************************************************************)
LEMMA ReturnLeaves ==
  ASSUME TypeOK, NEW c \in Callers, NEW found \in SUBSET Keys, Return(c, found)
  PROVE  \E r \in CallerRec :
           /\ caller' = [caller EXCEPT ![c] = r]
           /\ r.option <= Candidates[Metrics[r.query]] /\ r.at \notin Past
           /\ status' = status \/ status' \in Statuses
<1>1. CASE caller[c].query < Len(Metrics)
  <2> DEFINE r == [at |-> "looking", query |-> caller[c].query + 1, option |-> 0, found |-> found]
  <2>1. caller[c].query + 1 \in DOMAIN Metrics
    BY <1>1, CallerFacts, ConstantFacts DEF CallerRec
  <2>2. r \in CallerRec /\ r.option = 0 /\ r.at \notin Past
    BY <2>1 DEF CallerRec, Past
  <2>3. caller' = [caller EXCEPT ![c] = r] /\ status' = status
    BY <1>1, CallerFacts DEF Return
  <2> HIDE DEF r
  <2> QED BY <2>2, <2>3, OptionOfZero
<1>2. CASE ~(caller[c].query < Len(Metrics))
  <2>1. Idle \in CallerRec /\ Idle.option = 0 /\ Idle.at \notin Past
    BY ConstantFacts DEF Idle, CallerRec, Past
  <2>2. caller' = [caller EXCEPT ![c] = Idle]
    BY <1>2 DEF Return
  <2>3. status' = status \/ status' \in Statuses
    BY <1>2 DEF Return, StatusOf, Statuses
  <2> QED BY <2>1, <2>2, <2>3, OptionOfZero
<1> QED BY <1>1, <1>2

(***************************************************************************)
(* Move leaves the caller at its metric.                                   *)
(***************************************************************************)
LEMMA MoveStays ==
  ASSUME TypeOK, NEW c \in Callers, NEW at \in Past, NEW n \in Nat, n <= Candidates[Key(c)],
         Move(c, at, n)
  PROVE  \E r \in CallerRec :
           /\ caller' = [caller EXCEPT ![c] = r]
           /\ r.option <= Candidates[Metrics[r.query]] /\ r.query = caller[c].query
           /\ r.at = at
<1> DEFINE r == [at |-> at, query |-> caller[c].query, option |-> n, found |-> caller[c].found]
<1>1. r \in CallerRec /\ r.query = caller[c].query /\ r.option = n /\ r.at = at
  BY CallerFacts DEF CallerRec, Past
<1>2. caller' = [caller EXCEPT ![c] = r]
  BY CallerFacts DEF Move
<1> QED BY <1>1, <1>2 DEF Key

(***************************************************************************)
(* The callers in a round, when one caller moves on or leaves.             *)
(***************************************************************************)
LEMMA RoundsFinite ==
  ASSUME NEW S \in SUBSET Callers
  PROVE  IsFiniteSet(S) /\ Cardinality(S) \in Nat /\ Cardinality(S) <= Cardinality(Callers)
<1>1. IsFiniteSet(S) /\ Cardinality(S) <= Cardinality(Callers)
  BY ConstantFacts, FS_Subset
<1> QED BY <1>1, FS_CardinalityType

LEMMA InRoundFinite ==
  ASSUME NEW key \in Keys
  PROVE  /\ Cardinality(InRound(key)) \in Nat /\ IsFiniteSet(InRound(key))
         /\ Cardinality(InRound(key)) <= Cardinality(Callers)
         /\ Cardinality(InRound(key)') \in Nat
         /\ Cardinality(InRound(key)') <= Cardinality(Callers)
<1>1. InRound(key) \in SUBSET Callers /\ InRound(key)' \in SUBSET Callers
  BY DEF InRound
<1> QED BY <1>1, RoundsFinite

LEMMA StaysInRound ==
  ASSUME TypeOK, NEW c \in Callers, NEW r \in CallerRec, caller' = [caller EXCEPT ![c] = r],
         r.query = caller[c].query, caller[c].at \in Past, NEW key \in Keys
  PROVE  InRound(key)' \subseteq InRound(key)
BY CallerFacts DEF InRound, Key

LEMMA LeavesRound ==
  ASSUME TypeOK, NEW c \in Callers, NEW r \in CallerRec, caller' = [caller EXCEPT ![c] = r],
         r.at \notin Past, NEW key \in Keys
  PROVE  InRound(key)' = InRound(key) \ {c}
BY CallerFacts DEF InRound, Key

(***************************************************************************)
(* The bound on rounds stays where nobody enters a round, and where a      *)
(* round begins anew.                                                      *)
(***************************************************************************)
LEMMA BoundKept ==
  ASSUME TypeOK, RoundsInv, NEW key \in Keys, rounds'[key] = rounds[key],
         InRound(key)' \subseteq InRound(key)
  PROVE  rounds'[key] + Cardinality(InRound(key)') <= Cardinality(Callers)
<1>1. Cardinality(InRound(key)') <= Cardinality(InRound(key))
  BY InRoundFinite, FS_Subset
<1>2. rounds[key] \in Nat /\ rounds[key] + Cardinality(InRound(key)) <= Cardinality(Callers)
  BY DEF TypeOK, RoundsInv
<1> QED BY <1>1, <1>2, InRoundFinite, ConstantFacts

LEMMA BoundFresh ==
  ASSUME NEW key \in Keys, rounds'[key] = 0
  PROVE  rounds'[key] + Cardinality(InRound(key)') <= Cardinality(Callers)
BY InRoundFinite, ConstantFacts

-----------------------------------------------------------------------------
(***************************************************************************)
(* Nothing is known at first.                                              *)
(***************************************************************************)
LEMMA InitResolver == Init => ResolverInv
<1> SUFFICES ASSUME Init PROVE ResolverInv
  OBVIOUS
<1>1. Idle \in CallerRec /\ Idle.option = 0 /\ Idle.at = "idle" /\ Idle.query = 1
  BY ConstantFacts DEF Idle, CallerRec
<1>2. Candidates[Metrics[1]] \in Nat
  BY ConstantFacts
<1>3. TypeOK
  BY <1>1, <1>2, ConstantFacts, MetricResolverAssumption DEF Init, TypeOK, CallerRec, Statuses
<1>4. MemoryIsConsistent
  BY DEF Init, MemoryIsConsistent
<1>5. \A key \in Keys : InRound(key) = {}
  BY <1>1 DEF Init, InRound, Past
<1>6. \A key \in Keys : Cardinality(InRound(key)) = 0
  BY <1>5, FS_EmptySet
<1>7. RoundsInv
  BY <1>6, ConstantFacts DEF Init, RoundsInv
<1> QED BY <1>3, <1>4, <1>7 DEF ResolverInv

(***************************************************************************)
(* The exporters and the clock touch no caller.                            *)
(***************************************************************************)
LEMMA SurroundingsKeepResolver ==
  ASSUME ResolverInv, Change \/ \E key \in Keys : RetryDue(key)
  PROVE  ResolverInv'
<1>1. TypeOK'
  <2>1. CASE Change
    BY <2>1, MetricResolverAssumption DEF ResolverInv, TypeOK, Change
  <2>2. CASE \E key \in Keys : RetryDue(key)
    BY <2>2 DEF ResolverInv, TypeOK, RetryDue
  <2> QED BY <2>1, <2>2
<1>2. MemoryIsConsistent'
  BY DEF ResolverInv, TypeOK, MemoryIsConsistent, Change, RetryDue
<1>3. \A key \in Keys : InRound(key)' = InRound(key)
  BY DEF Change, RetryDue, InRound, Key
<1>4. ASSUME NEW key \in Keys
      PROVE  /\ absent'[key] # "waiting" => rounds'[key] = 0
             /\ rounds'[key] + Cardinality(InRound(key)') <= Cardinality(Callers)
  <2>1. rounds'[key] = rounds[key] \/ rounds'[key] = 0
    BY DEF Change, RetryDue, ResolverInv, TypeOK
  <2>2. rounds'[key] + Cardinality(InRound(key)') <= Cardinality(Callers)
    BY <1>3, <2>1, BoundKept, BoundFresh DEF ResolverInv
  <2>3. absent'[key] # "waiting" => rounds'[key] = 0
    BY DEF Change, RetryDue, ResolverInv, TypeOK, RoundsInv
  <2> QED BY <2>2, <2>3
<1> QED BY <1>1, <1>2, <1>4 DEF ResolverInv, RoundsInv

(***************************************************************************)
(* A step of a caller that writes nothing down.  It enters a round only    *)
(* for a metric that is not given up, and such a metric has no vain round. *)
(***************************************************************************)
LEMMA QuietStep ==
  ASSUME ResolverInv, NEW c \in Callers, NEW r \in CallerRec, caller' = [caller EXCEPT ![c] = r],
         r.option <= Candidates[Metrics[r.query]],
         UNCHANGED <<answering, changes, resolved, absent, rounds>>,
         status' = status \/ status' \in Statuses,
         \/ r.at \notin Past
         \/ r.query = caller[c].query /\ (caller[c].at \in Past \/ absent[Key(c)] # "waiting")
  PROVE  ResolverInv'
<1>1. TypeOK'
  BY CallerStepType DEF ResolverInv, TypeOK, CallerRec
<1>2. MemoryIsConsistent'
  BY DEF ResolverInv, MemoryIsConsistent
<1>3. ASSUME NEW key \in Keys
      PROVE  rounds'[key] + Cardinality(InRound(key)') <= Cardinality(Callers)
  <2>1. CASE r.at \notin Past
    <3>1. InRound(key)' \subseteq InRound(key)
      BY <2>1, LeavesRound DEF ResolverInv
    <3> QED BY <3>1, BoundKept DEF ResolverInv
  <2>2. CASE r.query = caller[c].query /\ caller[c].at \in Past
    <3>1. InRound(key)' \subseteq InRound(key)
      BY <2>2, StaysInRound DEF ResolverInv
    <3> QED BY <3>1, BoundKept DEF ResolverInv
  <2>3. CASE r.query = caller[c].query /\ absent[Key(c)] # "waiting" /\ key = Key(c)
    <3>1. rounds'[key] = 0
      BY <2>3 DEF ResolverInv, RoundsInv
    <3> QED BY <3>1, BoundFresh
  <2>4. CASE r.query = caller[c].query /\ key # Key(c)
    <3>1. InRound(key)' \subseteq InRound(key)
      BY <2>4, CallerFacts DEF ResolverInv, InRound, Key
    <3> QED BY <3>1, BoundKept DEF ResolverInv
  <2> QED BY <2>1, <2>2, <2>3, <2>4
<1>4. \A key \in Keys : absent'[key] # "waiting" => rounds'[key] = 0
  BY DEF ResolverInv, RoundsInv
<1> QED BY <1>1, <1>2, <1>3, <1>4 DEF ResolverInv, RoundsInv

LEMMA BeginKeepsResolver ==
  ASSUME ResolverInv, NEW c \in Callers, Begin(c)
  PROVE  ResolverInv'
<1> DEFINE r == [at |-> "looking", query |-> 1, option |-> 0, found |-> {}]
<1>1. r \in CallerRec /\ r.option = 0 /\ r.at \notin Past
  BY ConstantFacts DEF CallerRec, Past
<1>2. caller' = [caller EXCEPT ![c] = r]
  <2>1. [Idle EXCEPT !.at = "looking"] = r
    BY DEF Idle
  <2> QED BY <2>1 DEF Begin
<1>3. UNCHANGED <<answering, changes, resolved, absent, rounds, status>>
  BY DEF Begin
<1> HIDE DEF r
<1> QED BY <1>1, <1>2, <1>3, OptionOfZero, QuietStep

(***************************************************************************)
(* Moving on within a round, returning without a change of the memory, and *)
(* the first look at a metric are quiet steps.                             *)
(***************************************************************************)
LEMMA QuietMove ==
  ASSUME ResolverInv, NEW c \in Callers, NEW at \in Past, NEW n \in Nat, n <= Candidates[Key(c)],
         Move(c, at, n), caller[c].at \in Past \/ absent[Key(c)] # "waiting",
         UNCHANGED <<answering, changes, resolved, absent, rounds, status>>
  PROVE  ResolverInv'
<1>1. PICK r \in CallerRec : /\ caller' = [caller EXCEPT ![c] = r]
                             /\ r.option <= Candidates[Metrics[r.query]] /\ r.query = caller[c].query
  BY MoveStays DEF ResolverInv
<1> QED BY <1>1, QuietStep

LEMMA QuietReturn ==
  ASSUME ResolverInv, NEW c \in Callers, NEW found \in SUBSET Keys, Return(c, found),
         UNCHANGED <<answering, changes, resolved, absent, rounds>>
  PROVE  ResolverInv'
<1>1. PICK r \in CallerRec : /\ caller' = [caller EXCEPT ![c] = r]
                             /\ r.option <= Candidates[Metrics[r.query]] /\ r.at \notin Past
                             /\ status' = status \/ status' \in Statuses
  BY ReturnLeaves DEF ResolverInv
<1> QED BY <1>1, QuietStep

LEMMA LookKeepsResolver ==
  ASSUME ResolverInv, NEW c \in Callers, Look(c)
  PROVE  ResolverInv'
<1>1. Key(c) \in Keys /\ caller[c].found \in SUBSET Keys
  BY CallerFacts DEF ResolverInv, CallerRec
<1>2. resolved[Key(c)] \in Nat /\ resolved[Key(c)] <= Candidates[Key(c)]
  BY <1>1 DEF ResolverInv, TypeOK
<1>3. UNCHANGED <<answering, changes, resolved, absent, rounds>>
  BY DEF Look
<1>4. CASE resolved[Key(c)] # 0
  <2>1. absent[Key(c)] # "waiting"
    BY <1>1, <1>4 DEF ResolverInv, MemoryIsConsistent
  <2>2. Move(c, "remembered", resolved[Key(c)]) /\ UNCHANGED status
    BY <1>4 DEF Look
  <2> QED BY <1>2, <1>3, <2>1, <2>2, QuietMove DEF Past
<1>5. CASE resolved[Key(c)] = 0 /\ absent[Key(c)] = "waiting"
  BY <1>1, <1>3, <1>5, QuietReturn DEF Look
<1>6. CASE resolved[Key(c)] = 0 /\ absent[Key(c)] # "waiting"
  <2>1. Move(c, "probing", 1) /\ UNCHANGED status
    BY <1>6 DEF Look
  <2>2. 1 <= Candidates[Key(c)]
    BY <1>1, ConstantFacts
  <2> QED BY <1>3, <1>6, <2>1, <2>2, QuietMove DEF Past
<1> QED BY <1>4, <1>5, <1>6

LEMMA QueryRememberedKeepsResolver ==
  ASSUME ResolverInv, NEW c \in Callers, QueryRemembered(c)
  PROVE  ResolverInv'
<1>1. Key(c) \in Keys /\ caller[c].found \cup {Key(c)} \in SUBSET Keys
  BY CallerFacts DEF ResolverInv, CallerRec
<1>2. UNCHANGED <<answering, changes, resolved, absent, rounds>> /\ caller[c].at \in Past
  BY DEF QueryRemembered, Past
<1>3. CASE <<Key(c), caller[c].option>> \in answering
  BY <1>1, <1>2, <1>3, QuietReturn DEF QueryRemembered
<1>4. CASE <<Key(c), caller[c].option>> \notin answering
  <2>1. Move(c, "probing", 1) /\ UNCHANGED status
    BY <1>4 DEF QueryRemembered
  <2>2. 1 <= Candidates[Key(c)]
    BY <1>1, ConstantFacts
  <2> QED BY <1>2, <2>1, <2>2, QuietMove DEF Past
<1> QED BY <1>3, <1>4

LEMMA QueryKeepsResolver ==
  ASSUME ResolverInv, NEW c \in Callers, Query(c)
  PROVE  ResolverInv'
<1> DEFINE n == caller[c].option
<1>1. n \in Nat /\ n <= Candidates[Key(c)] /\ Candidates[Key(c)] \in Nat
  BY CallerFacts, ConstantFacts DEF ResolverInv, CallerRec
<1>2. UNCHANGED <<answering, changes, resolved, absent, rounds, status>> /\ caller[c].at \in Past
  BY DEF Query, Past
<1>3. \/ Move(c, "found", n) \/ Move(c, "lost", n)
      \/ n < Candidates[Key(c)] /\ Move(c, "probing", n + 1)
  BY DEF Query
<1> HIDE DEF n
<1>4. CASE Move(c, "found", n)
  BY <1>1, <1>2, <1>4, QuietMove DEF Past
<1>5. CASE Move(c, "lost", n)
  BY <1>1, <1>2, <1>5, QuietMove DEF Past
<1>6. CASE n < Candidates[Key(c)] /\ Move(c, "probing", n + 1)
  <2>1. n + 1 \in Nat /\ n + 1 <= Candidates[Key(c)]
    BY <1>1, <1>6
  <2> QED BY <1>2, <1>6, <2>1, QuietMove DEF Past
<1> QED BY <1>3, <1>4, <1>5, <1>6

(***************************************************************************)
(* Remember clears the absence and the vain rounds together.               *)
(***************************************************************************)
LEMMA RememberKeepsResolver ==
  ASSUME ResolverInv, NEW c \in Callers, Remember(c)
  PROVE  ResolverInv'
<1>1. Key(c) \in Keys /\ caller[c] \in CallerRec /\ caller[c].option <= Candidates[Key(c)]
  BY CallerFacts DEF ResolverInv
<1>2. caller[c].found \cup {Key(c)} \in SUBSET Keys
  BY <1>1 DEF CallerRec
<1>3. PICK r \in CallerRec : /\ caller' = [caller EXCEPT ![c] = r]
                             /\ r.option <= Candidates[Metrics[r.query]] /\ r.at \notin Past
                             /\ status' = status \/ status' \in Statuses
  BY <1>2, ReturnLeaves DEF ResolverInv, Remember
<1>4. TypeOK'
  <2>1. /\ caller' \in [Callers -> CallerRec]
        /\ \A d \in Callers : caller'[d].option <= Candidates[Metrics[caller'[d].query]]
    BY <1>3, CallerStepType DEF ResolverInv
  <2>2. caller[c].option \in Nat
    BY <1>1 DEF CallerRec
  <2>3. /\ resolved' \in [Keys -> Nat] /\ \A key \in Keys : resolved'[key] <= Candidates[key]
        /\ absent' \in [Keys -> {"no", "waiting", "due"}] /\ rounds' \in [Keys -> Nat]
    BY <1>1, <2>2 DEF ResolverInv, TypeOK, Remember
  <2>4. UNCHANGED <<answering, changes>>
    BY DEF Remember
  <2> QED BY <1>3, <2>1, <2>3, <2>4 DEF ResolverInv, TypeOK, CallerRec
<1>5. MemoryIsConsistent'
  BY <1>1 DEF ResolverInv, TypeOK, MemoryIsConsistent, Remember
<1>6. ASSUME NEW key \in Keys
      PROVE  /\ absent'[key] # "waiting" => rounds'[key] = 0
             /\ rounds'[key] + Cardinality(InRound(key)') <= Cardinality(Callers)
  <2>1. InRound(key)' \subseteq InRound(key)
    BY <1>3, LeavesRound DEF ResolverInv
  <2>2. rounds'[key] = rounds[key] \/ rounds'[key] = 0
    BY DEF Remember, ResolverInv, TypeOK
  <2>3. rounds'[key] + Cardinality(InRound(key)') <= Cardinality(Callers)
    BY <2>1, <2>2, BoundKept, BoundFresh DEF ResolverInv
  <2>4. absent'[key] # "waiting" => rounds'[key] = 0
    BY DEF Remember, ResolverInv, TypeOK, RoundsInv
  <2> QED BY <2>3, <2>4
<1> QED BY <1>4, <1>5, <1>6 DEF ResolverInv, RoundsInv

(***************************************************************************)
(* GiveUp turns a round under way into a vain one.                         *)
(***************************************************************************)
LEMMA GiveUpKeepsResolver ==
  ASSUME ResolverInv, NEW c \in Callers, GiveUp(c)
  PROVE  ResolverInv'
<1>1. Key(c) \in Keys /\ caller[c].found \in SUBSET Keys
  BY CallerFacts DEF ResolverInv, CallerRec
<1>2. PICK r \in CallerRec : /\ caller' = [caller EXCEPT ![c] = r]
                             /\ r.option <= Candidates[Metrics[r.query]] /\ r.at \notin Past
                             /\ status' = status \/ status' \in Statuses
  BY <1>1, ReturnLeaves DEF ResolverInv, GiveUp
<1>3. TypeOK'
  <2>1. /\ caller' \in [Callers -> CallerRec]
        /\ \A d \in Callers : caller'[d].option <= Candidates[Metrics[caller'[d].query]]
    BY <1>2, CallerStepType DEF ResolverInv
  <2>2. /\ resolved' \in [Keys -> Nat] /\ \A key \in Keys : resolved'[key] <= Candidates[key]
        /\ absent' \in [Keys -> {"no", "waiting", "due"}] /\ rounds' \in [Keys -> Nat]
    BY <1>1, ConstantFacts DEF ResolverInv, TypeOK, GiveUp
  <2>3. UNCHANGED <<answering, changes>>
    BY DEF GiveUp
  <2> QED BY <1>2, <2>1, <2>2, <2>3 DEF ResolverInv, TypeOK, CallerRec
<1>4. MemoryIsConsistent'
  BY <1>1 DEF ResolverInv, TypeOK, MemoryIsConsistent, GiveUp
<1>5. ASSUME NEW key \in Keys
      PROVE  /\ absent'[key] # "waiting" => rounds'[key] = 0
             /\ rounds'[key] + Cardinality(InRound(key)') <= Cardinality(Callers)
  <2>1. InRound(key)' = InRound(key) \ {c}
    BY <1>2, LeavesRound DEF ResolverInv
  <2>2. CASE key = Key(c)
    <3>1. c \in InRound(key) /\ rounds'[key] = rounds[key] + 1 /\ absent'[key] = "waiting"
      BY <1>1, <2>2 DEF GiveUp, InRound, Past, ResolverInv, TypeOK
    <3>2. Cardinality(InRound(key)') = Cardinality(InRound(key)) - 1
      BY <2>1, <3>1, InRoundFinite, FS_RemoveElement
    <3>3. rounds[key] \in Nat /\ rounds[key] + Cardinality(InRound(key)) <= Cardinality(Callers)
      BY DEF ResolverInv, TypeOK, RoundsInv
    <3> QED BY <3>1, <3>2, <3>3, InRoundFinite, ConstantFacts
  <2>3. CASE key # Key(c)
    <3>1. rounds'[key] = rounds[key] /\ absent'[key] = absent[key]
      BY <2>3 DEF GiveUp, ResolverInv, TypeOK
    <3>2. rounds'[key] + Cardinality(InRound(key)') <= Cardinality(Callers)
      BY <2>1, <3>1, BoundKept DEF ResolverInv
    <3> QED BY <3>1, <3>2 DEF ResolverInv, RoundsInv
  <2> QED BY <2>2, <2>3
<1> QED BY <1>3, <1>4, <1>5 DEF ResolverInv, RoundsInv

-----------------------------------------------------------------------------
LEMMA StutterKeepsResolver == ResolverInv /\ UNCHANGED vars => ResolverInv'
<1> SUFFICES ASSUME ResolverInv, UNCHANGED vars PROVE ResolverInv'
  OBVIOUS
<1>1. TypeOK' /\ MemoryIsConsistent'
  BY DEF ResolverInv, TypeOK, MemoryIsConsistent, vars
<1>2. \A key \in Keys : InRound(key)' = InRound(key)
  BY DEF InRound, Key, vars
<1>3. RoundsInv'
  BY <1>2 DEF ResolverInv, RoundsInv, vars
<1> QED BY <1>1, <1>3 DEF ResolverInv

LEMMA NextKeepsResolver == ResolverInv /\ [Next]_vars => ResolverInv'
<1> SUFFICES ASSUME ResolverInv, [Next]_vars PROVE ResolverInv'
  OBVIOUS
<1>1. CASE Change \/ \E key \in Keys : RetryDue(key)
  BY <1>1, SurroundingsKeepResolver
<1>2. CASE \E c \in Callers : Begin(c)
  BY <1>2, BeginKeepsResolver
<1>3. CASE \E c \in Callers : Step(c)
  BY <1>3, LookKeepsResolver, QueryRememberedKeepsResolver, QueryKeepsResolver,
     RememberKeepsResolver, GiveUpKeepsResolver DEF Step
<1>4. CASE UNCHANGED vars
  BY <1>4, StutterKeepsResolver
<1> QED BY <1>1, <1>2, <1>3, <1>4 DEF Next

(***************************************************************************)
(* The inductive invariant: types, the memory, and the rounds under way.   *)
(***************************************************************************)
THEOREM ResolverInvariant == Spec => []ResolverInv
BY InitResolver, NextKeepsResolver, PTL DEF Spec

(***************************************************************************)
(* Every variable of the resolver keeps the values the code gives it.      *)
(***************************************************************************)
THEOREM ResolverTypes == Spec => []TypeOK
<1>1. ResolverInv => TypeOK
  BY DEF ResolverInv
<1> QED BY <1>1, ResolverInvariant, PTL

(***************************************************************************)
(* No metric is both remembered and given up, whatever the interleaving of *)
(* the locked sections of resolve.                                         *)
(***************************************************************************)
THEOREM MemoryStaysConsistent == Spec => []MemoryIsConsistent
<1>1. ResolverInv => MemoryIsConsistent
  BY DEF ResolverInv
<1> QED BY <1>1, ResolverInvariant, PTL

(***************************************************************************)
(* Between two retries a dead metric is probed in vain at most once by     *)
(* each caller of Sample.                                                  *)
(***************************************************************************)
THEOREM ProbesStayBounded == Spec => []ProbesAreBounded
<1>1. ResolverInv => ProbesAreBounded
  <2> SUFFICES ASSUME ResolverInv, NEW key \in Keys
               PROVE  rounds[key] <= Cardinality(Callers)
    BY DEF ProbesAreBounded
  <2>1. rounds[key] \in Nat /\ rounds[key] + Cardinality(InRound(key)) <= Cardinality(Callers)
    BY DEF ResolverInv, TypeOK, RoundsInv
  <2> QED BY <2>1, InRoundFinite, ConstantFacts
<1> QED BY <1>1, ResolverInvariant, PTL

-----------------------------------------------------------------------------
(***************************************************************************)
(* The largest of finitely many integers.                                  *)
(***************************************************************************)
HasLargest(s) == \E m \in s : \A x \in s : x <= m

LEMMA SmallestSubset ==
  ASSUME NEW S, IsFiniteSet(S), NEW W, W \subseteq SUBSET S, W # {}
  PROVE  \E s \in W : \A r \in W : Cardinality(s) <= Cardinality(r)
<1>. DEFINE Sizes == {Cardinality(s) : s \in W}
<1>1. Sizes \subseteq Nat /\ Sizes # {}
  <2>1. \A s \in W : IsFiniteSet(s)
    BY FS_Subset
  <2>. QED  BY <2>1, FS_CardinalityType
<1>2. PICK least \in Sizes : \A x \in Sizes : <<x, least>> \notin OpToRel(<, Nat)
  <2>. HIDE DEF Sizes
  <2>. QED  BY <1>1, NatLessThanWellFounded, WFMin
<1>3. \A x \in Sizes : least <= x
  <2>. SUFFICES ASSUME NEW x \in Sizes PROVE least <= x
    OBVIOUS
  <2>. HIDE DEF Sizes
  <2>1. x \in Nat /\ least \in Nat /\ ~(x < least)
    BY <1>1, <1>2 DEF OpToRel
  <2>. QED  BY <2>1
<1>. QED  BY <1>3

LEMMA LargestExists ==
  ASSUME NEW S, IsFiniteSet(S), S \subseteq Int, S # {}
  PROVE  HasLargest(S)
<1>. DEFINE W == {s \in SUBSET S : s # {} /\ ~HasLargest(s)}
<1>1. SUFFICES ASSUME W # {} PROVE FALSE
  OBVIOUS
<1>2. PICK s \in W : \A r \in W : Cardinality(s) <= Cardinality(r)
  <2>1. W \subseteq SUBSET S
    OBVIOUS
  <2>. HIDE DEF W
  <2>. QED  BY <1>1, <2>1, SmallestSubset
<1>3. s \subseteq S /\ s \subseteq Int /\ s # {} /\ ~HasLargest(s)
  OBVIOUS
<1>4. PICK x \in s : TRUE
  BY <1>3
<1>. DEFINE rest == s \ {x}
<1>5. IsFiniteSet(s)
  BY <1>3, FS_Subset
<1>6. IsFiniteSet(rest) /\ Cardinality(rest) = Cardinality(s) - 1
  BY <1>4, <1>5, FS_RemoveElement
<1>7. Cardinality(s) \in Nat
  BY <1>5, FS_CardinalityType
<1>8. rest \notin W
  <2>1. ~(Cardinality(s) <= Cardinality(rest))
    BY <1>6, <1>7
  <2>. HIDE DEF W, rest
  <2>. QED  BY <1>2, <2>1
<1>9. rest = {} \/ HasLargest(rest)
  BY <1>3, <1>8
<1>10. CASE rest = {}
  BY <1>3, <1>4, <1>10 DEF HasLargest
<1>11. CASE HasLargest(rest)
  <2>1. PICK m \in rest : \A y \in rest : y <= m
    BY <1>11 DEF HasLargest
  <2>2. CASE x <= m
    BY <1>3, <1>4, <2>1, <2>2 DEF HasLargest
  <2>3. CASE m <= x
    <3>1. ASSUME NEW y \in s PROVE y <= x
      BY <1>3, <1>4, <2>1, <2>3
    <3>. QED  BY <1>3, <1>4, <3>1 DEF HasLargest
  <2>4. x \in Int /\ m \in Int
    BY <1>3, <1>4, <2>1
  <2>. QED  BY <2>2, <2>3, <2>4
<1>. QED  BY <1>9, <1>10, <1>11

LEMMA MaxIsLargest ==
  ASSUME NEW S, IsFiniteSet(S), S \subseteq Int, S # {}
  PROVE  Max(S) \in S /\ Max(S) \in Int /\ \A x \in S : x <= Max(S)
<1>1. PICK m \in S : \A x \in S : m >= x
  BY LargestExists DEF HasLargest
<1>2. Max(S) \in S /\ \A x \in S : Max(S) >= x
  BY <1>1 DEF Max
<1>. QED  BY <1>2

-----------------------------------------------------------------------------
(***************************************************************************)
(* Series.                                                                 *)
(***************************************************************************)
IntValued(s) == \A i \in DOMAIN s : \A m \in DOMAIN s[i] : s[i][m] \in Int

LEMMA SamplesAreIntValued == \A s \in Seq(Samples) : IntValued(s)
  BY AssessmentAssumption, ElementOfSeq DEF IntValued

LEMMA ObservedFacts ==
  ASSUME NEW s \in Seq(Samples), NEW m
  PROVE  /\ DOMAIN Observed(s, m) \subseteq 1 .. Len(s) /\ IsFiniteSet(DOMAIN Observed(s, m))
         /\ Observed(s, m) = [i \in DOMAIN Observed(s, m) |-> Observed(s, m)[i]]
         /\ \A i \in DOMAIN Observed(s, m) : Observed(s, m)[i] \in Int
<1>1. Len(s) \in Nat /\ DOMAIN s = 1 .. Len(s)
  BY LenProperties
<1>2. DOMAIN Observed(s, m) \subseteq 1 .. Len(s)
  BY <1>1 DEF Observed
<1>3. IsFiniteSet(1 .. Len(s))
  BY <1>1, FS_Interval
<1>4. IsFiniteSet(DOMAIN Observed(s, m))
  BY <1>2, <1>3, FS_Subset
<1>5. \A i \in DOMAIN Observed(s, m) : Observed(s, m)[i] \in Int
  BY SamplesAreIntValued DEF Observed, IntValued
<1>6. Observed(s, m) = [i \in DOMAIN Observed(s, m) |-> Observed(s, m)[i]]
  BY DEF Observed
<1>. QED  BY <1>2, <1>4, <1>5, <1>6

\* What another sample adds to a series.
Added(s, x, m) == IF m \in DOMAIN x THEN {Len(s) + 1} ELSE {}

LEMMA ObservedGrows ==
  ASSUME NEW s \in Seq(Samples), NEW x \in Samples, NEW m
  PROVE  /\ Append(s, x) \in Seq(Samples) /\ Len(s) + 1 \notin DOMAIN Observed(s, m)
         /\ \A i : i \in DOMAIN Observed(Append(s, x), m)
                    <=> i \in DOMAIN Observed(s, m) \/ i \in Added(s, x, m)
         /\ \A i \in DOMAIN Observed(s, m) : Observed(Append(s, x), m)[i] = Observed(s, m)[i]
         /\ \A i \in Added(s, x, m) : Observed(Append(s, x), m)[i] = x[m]
<1>. DEFINE t == Append(s, x)
            n == Len(s)
            new == Added(s, x, m)
<1>1. /\ n \in Nat /\ DOMAIN s = 1 .. n /\ t \in Seq(Samples) /\ DOMAIN t = 1 .. n + 1
      /\ t[n + 1] = x /\ \A i \in 1 .. n : t[i] = s[i]
  BY AppendProperties, LenProperties
<1>. HIDE DEF t
<1>2. n + 1 \notin DOMAIN Observed(s, m)
  BY <1>1 DEF Observed
<1>3. \A i : i \in DOMAIN Observed(t, m) <=> i \in DOMAIN Observed(s, m) \/ i \in new
  BY <1>1 DEF Observed, Added
<1>4. \A i \in DOMAIN Observed(s, m) : Observed(t, m)[i] = Observed(s, m)[i]
  BY <1>1, <1>3 DEF Observed
<1>5. \A i \in new : Observed(t, m)[i] = x[m]
  BY <1>1, <1>3 DEF Observed, Added
<1>. QED  BY <1>1, <1>2, <1>3, <1>4, <1>5 DEF t

LEMMA PeakFacts ==
  ASSUME NEW s \in Seq(Samples), NEW m
  PROVE  /\ Peak(Observed(s, m)) \in Int /\ 0 <= Peak(Observed(s, m))
         /\ \A i \in DOMAIN Observed(s, m) : Observed(s, m)[i] <= Peak(Observed(s, m))
         /\ Peak(Observed(s, m)) \in {0} \cup {Observed(s, m)[i] : i \in DOMAIN Observed(s, m)}
<1>. DEFINE v == Observed(s, m)
            S == {0} \cup {v[i] : i \in DOMAIN v}
<1>1. /\ IsFiniteSet(DOMAIN v) /\ v = [i \in DOMAIN v |-> v[i]]
      /\ \A i \in DOMAIN v : v[i] \in Int
  BY ObservedFacts, Zenon
<1>2. Peak(v) = Max(S)
  BY DEF Peak
<1>. HIDE DEF v
<1>3. IsFiniteSet({v[i] : i \in DOMAIN v})
  <2>1. v \in Surjection(DOMAIN v, {v[i] : i \in DOMAIN v})
    <3>1. v \in [DOMAIN v -> {v[i] : i \in DOMAIN v}]
      BY <1>1
    <3>. QED  BY <3>1 DEF Surjection
  <2>. QED  BY <1>1, <2>1, FS_Surjection
<1>4. IsFiniteSet(S)
  BY <1>3, FS_AddElement
<1>5. S \subseteq Int /\ 0 \in S
  BY <1>1
<1>6. \A i \in DOMAIN v : v[i] \in S
  OBVIOUS
<1>7. S = {0} \cup {v[i] : i \in DOMAIN v}
  OBVIOUS
<1>. HIDE DEF S
<1>8. Max(S) \in S /\ Max(S) \in Int /\ \A y \in S : y <= Max(S)
  BY <1>4, <1>5, MaxIsLargest
<1>9. Peak(v) \in Int /\ 0 <= Peak(v) /\ (\A i \in DOMAIN v : v[i] <= Peak(v))
        /\ Peak(v) \in {0} \cup {v[i] : i \in DOMAIN v}
  BY <1>2, <1>5, <1>6, <1>7, <1>8
<1>. QED  BY <1>9 DEF v

LEMMA PeakGrows ==
  ASSUME NEW s \in Seq(Samples), NEW x \in Samples, NEW m
  PROVE  Peak(Observed(s, m)) <= Peak(Observed(Append(s, x), m))
<1>. DEFINE t == Append(s, x)
<1>1. /\ t \in Seq(Samples) /\ DOMAIN Observed(s, m) \subseteq DOMAIN Observed(t, m)
      /\ \A i \in DOMAIN Observed(s, m) : Observed(t, m)[i] = Observed(s, m)[i]
  <2>1. t \in Seq(Samples)
    BY ObservedGrows
  <2>2. \A i : i \in DOMAIN Observed(t, m) <=> i \in DOMAIN Observed(s, m) \/ i \in Added(s, x, m)
    BY ObservedGrows
  <2>3. \A i \in DOMAIN Observed(s, m) : Observed(t, m)[i] = Observed(s, m)[i]
    BY ObservedGrows
  <2>. HIDE DEF t
  <2>. QED  BY <2>1, <2>2, <2>3
<1>. HIDE DEF t
<1>2. /\ Peak(Observed(s, m)) \in {0} \cup {Observed(s, m)[i] : i \in DOMAIN Observed(s, m)}
      /\ Peak(Observed(s, m)) \in Int
  BY PeakFacts
<1>3. /\ Peak(Observed(t, m)) \in Int /\ 0 <= Peak(Observed(t, m))
      /\ \A i \in DOMAIN Observed(t, m) : Observed(t, m)[i] <= Peak(Observed(t, m))
  BY <1>1, PeakFacts
<1>4. Peak(Observed(s, m)) <= Peak(Observed(t, m))
  BY <1>1, <1>2, <1>3
<1>. QED  BY <1>4 DEF t

\* A positive value more keeps a sustained series sustained.
LEMMA SustainedGrows ==
  ASSUME NEW s \in Seq(Samples), NEW x \in Samples, NEW m, m \in DOMAIN x, x[m] > 0
  PROVE  LET t == Append(s, x)
         IN  /\ Number(Observed(t, m)) # 0
             /\ Sustained(Observed(s, m)) => Sustained(Observed(t, m))
<1>. DEFINE t == Append(s, x)
            v == Observed(s, m)
            w == Observed(t, m)
            n == Len(s) + 1
            above(u) == {i \in DOMAIN u : u[i] > 0}
<1>1. /\ n \notin DOMAIN v /\ DOMAIN w = DOMAIN v \cup {n} /\ w[n] = x[m]
      /\ \A i \in DOMAIN v : w[i] = v[i]
  <2>1. /\ Len(s) + 1 \notin DOMAIN v
        /\ \A i : i \in DOMAIN w <=> i \in DOMAIN v \/ i \in Added(s, x, m)
        /\ \A i \in DOMAIN v : w[i] = v[i]
        /\ \A i \in Added(s, x, m) : w[i] = x[m]
    BY ObservedGrows
  <2>2. Added(s, x, m) = {n}
    BY DEF Added
  <2>. HIDE DEF v, w, t
  <2>. QED  BY <2>1, <2>2
<1>2. IsFiniteSet(DOMAIN v)
  BY ObservedFacts
<1>3. NonZero(v) = Cardinality(above(v)) /\ NonZero(w) = Cardinality(above(w))
  BY DEF NonZero
<1>4. Number(v) = Cardinality(DOMAIN v) /\ Number(w) = Cardinality(DOMAIN w)
  BY DEF Number
<1>. HIDE DEF v, w, n, t
<1>5. above(w) = above(v) \cup {n} /\ n \notin above(v)
  BY <1>1
<1>6. IsFiniteSet(above(v))
  BY <1>2, FS_Subset
<1>. HIDE DEF above
<1>7. Cardinality(above(w)) = Cardinality(above(v)) + 1 /\ Cardinality(above(v)) \in Nat
  BY <1>5, <1>6, FS_AddElement, FS_CardinalityType
<1>8. Cardinality(DOMAIN w) = Cardinality(DOMAIN v) + 1 /\ Cardinality(DOMAIN v) \in Nat
  BY <1>1, <1>2, FS_AddElement, FS_CardinalityType
<1>9. Number(w) # 0 /\ (Sustained(v) => Sustained(w))
  BY <1>3, <1>4, <1>7, <1>8 DEF Sustained
<1>. QED  BY <1>9 DEF v, w, t

\* A sample without the metric leaves its series as it is.
LEMMA ObservedStays ==
  ASSUME NEW s \in Seq(Samples), NEW x \in Samples, NEW m, m \notin DOMAIN x
  PROVE  Observed(Append(s, x), m) = Observed(s, m)
<1>. DEFINE v == Observed(s, m)
            w == Observed(Append(s, x), m)
<1>1. (\A i : i \in DOMAIN w <=> i \in DOMAIN v) /\ \A i \in DOMAIN v : w[i] = v[i]
  BY ObservedGrows DEF Added
<1>2. v = [i \in DOMAIN v |-> v[i]] /\ w = [i \in DOMAIN w |-> w[i]]
  BY DEF Observed
<1>. HIDE DEF v, w
<1>3. v = w
  BY <1>1, <1>2
<1>. QED  BY <1>3 DEF v, w

LEMMA NumberGrows ==
  ASSUME NEW s \in Seq(Samples), NEW x \in Samples, NEW m, Number(Observed(Append(s, x), m)) = 0
  PROVE  Number(Observed(s, m)) = 0
<1>. DEFINE v == Observed(s, m)
            w == Observed(Append(s, x), m)
<1>1. IsFiniteSet(DOMAIN v) /\ DOMAIN v \subseteq DOMAIN w
  <2>1. \A i : i \in DOMAIN w <=> i \in DOMAIN v \/ i \in Added(s, x, m)
    BY ObservedGrows
  <2>2. IsFiniteSet(DOMAIN v)
    BY ObservedFacts
  <2>. HIDE DEF v, w
  <2>. QED  BY <2>1, <2>2
<1>2. IsFiniteSet(DOMAIN w)
  <2>1. Append(s, x) \in Seq(Samples)
    BY ObservedGrows
  <2>. QED  BY <2>1, ObservedFacts
<1>3. Cardinality(DOMAIN w) = 0
  BY DEF Number
<1>. HIDE DEF v, w
<1>4. DOMAIN v = {}
  BY <1>1, <1>2, <1>3, FS_EmptySet
<1>5. Number(v) = 0
  BY <1>4, FS_EmptySet DEF Number
<1>. QED  BY <1>5 DEF v

-----------------------------------------------------------------------------
(***************************************************************************)
(* The verdicts.                                                           *)
(***************************************************************************)
LEMMA PressureRaises ==
  ASSUME NEW s \in Seq(Samples), NEW x \in Samples, NEW limit \in Nat,
         "waiting" \notin DOMAIN x \/ x["waiting"] > 0
  PROVE  Severity(AssessSaturation(Append(s, x), limit)) >= Severity(AssessSaturation(s, limit))
<1>. DEFINE t == Append(s, x)
<1>1. /\ Number(Observed(t, "waiting")) = 0 => Number(Observed(s, "waiting")) = 0
      /\ Sustained(Observed(s, "waiting")) => Sustained(Observed(t, "waiting"))
  <2>1. CASE "waiting" \in DOMAIN x
    BY <2>1, SustainedGrows
  <2>2. CASE "waiting" \notin DOMAIN x
    <3>1. Observed(t, "waiting") = Observed(s, "waiting")
      BY <2>2, ObservedStays
    <3>. QED  BY <3>1
  <2>. QED  BY <2>1, <2>2
<1>1a. Number(Observed(t, "kv")) = 0 => Number(Observed(s, "kv")) = 0
  BY NumberGrows
<1>2. t \in Seq(Samples)
  BY ObservedGrows
<1>3. /\ Peak(Observed(s, "running")) <= Peak(Observed(t, "running"))
      /\ Peak(Observed(s, "preemptions")) <= Peak(Observed(t, "preemptions"))
  BY PeakGrows
<1>. HIDE DEF t
<1>4. /\ Peak(Observed(s, "running")) \in Int /\ Peak(Observed(t, "running")) \in Int
      /\ Peak(Observed(s, "preemptions")) \in Int /\ Peak(Observed(t, "preemptions")) \in Int
  BY <1>2, PeakFacts
<1>. DEFINE Grade(blind, queued, preempted, full) ==
              IF blind THEN "unknown"
              ELSE IF queued /\ preempted THEN "saturated"
              ELSE IF queued /\ full THEN "config_limited at max_num_seqs"
              ELSE IF queued THEN "config_limited" ELSE "headroom"
            Of(u) == Grade(Number(Observed(u, "waiting")) = 0 /\ Number(Observed(u, "kv")) = 0,
                           Sustained(Observed(u, "waiting")),
                           Peak(Observed(u, "preemptions")) > 0,
                           limit > 0 /\ Peak(Observed(u, "running")) >= limit)
<1>5. AssessSaturation(s, limit) = Of(s) /\ AssessSaturation(t, limit) = Of(t)
  BY DEF AssessSaturation
<1>6. /\ Peak(Observed(s, "preemptions")) > 0 => Peak(Observed(t, "preemptions")) > 0
      /\ Peak(Observed(s, "running")) >= limit => Peak(Observed(t, "running")) >= limit
  BY <1>3, <1>4
<1>7. Severity(Of(t)) >= Severity(Of(s))
  BY <1>1, <1>1a, <1>6 DEF Severity
<1>. QED  BY <1>5, <1>7 DEF t

LEMMA FaultsStay ==
  ASSUME NEW s \in Seq(Samples), NEW x \in Samples, NEW policy
  PROVE  AssessRunValidity(s, policy) \cap Faults \subseteq AssessRunValidity(Append(s, x), policy)
<1>. SUFFICES ASSUME NEW fault \in AssessRunValidity(s, policy) \cap Faults
              PROVE  fault \in AssessRunValidity(Append(s, x), policy)
  OBVIOUS
<1>1. Peak(Observed(s, fault)) > 0
  BY DEF AssessRunValidity, Faults
<1>2. Append(s, x) \in Seq(Samples)
  BY ObservedGrows
<1>3. /\ Peak(Observed(s, fault)) \in Int /\ Peak(Observed(Append(s, x), fault)) \in Int
      /\ Peak(Observed(s, fault)) <= Peak(Observed(Append(s, x), fault))
  BY <1>2, PeakFacts, PeakGrows
<1>4. Peak(Observed(Append(s, x), fault)) > 0
  BY <1>1, <1>3
<1>. QED  BY <1>4 DEF AssessRunValidity

-----------------------------------------------------------------------------
(***************************************************************************)
(* Provenance.                                                             *)
(***************************************************************************)
LEMMA ScrapedType ==
  ASSUME NEW told \in SUBSET DOMAIN Labels
  PROVE  Scraped(told) \in ServerConfig
<1>1. ASSUME NEW f \in Fields PROVE Scraped(told)[f] \in Nat
  <2>. DEFINE telling == {i \in told : Labels[i][f] > 0}
  <2>1. CASE telling = {}
    BY <2>1 DEF Scraped
  <2>2. CASE telling # {}
    <3>1. Len(Labels) \in Nat /\ DOMAIN Labels = 1 .. Len(Labels)
      BY AssessmentAssumption, LenProperties
    <3>2. telling \subseteq 1 .. Len(Labels) /\ telling \subseteq Int
      BY <3>1
    <3>3. IsFiniteSet(1 .. Len(Labels))
      BY <3>1, FS_Interval
    <3>4. IsFiniteSet(telling)
      BY <3>2, <3>3, FS_Subset
    <3>5. Scraped(told)[f] = Labels[Max(telling)][f]
      BY <2>2 DEF Scraped
    <3>. HIDE DEF telling
    <3>6. Max(telling) \in 1 .. Len(Labels)
      BY <2>2, <3>2, <3>4, MaxIsLargest
    <3>7. Labels[Max(telling)] \in ServerConfig
      BY <3>6, AssessmentAssumption, ElementOfSeq
    <3>. QED  BY <3>5, <3>7 DEF ServerConfig
  <2>. QED  BY <2>1, <2>2
<1>. QED  BY <1>1 DEF Scraped, ServerConfig

AssessmentInv == entered \in ServerConfig /\ detected \in ServerConfig /\ samples \in Seq(Samples)

LEMMA AssessmentInvHolds == AssessmentSpec => []AssessmentInv
<1>1. AssessmentInit => AssessmentInv
  BY AssessmentAssumption, EmptySeq DEF AssessmentInit, AssessmentInv, Unknown, ServerConfig
<1>2. AssessmentInv /\ [AssessmentNext]_assessmentVars => AssessmentInv'
  <2>. SUFFICES ASSUME AssessmentInv, [AssessmentNext]_assessmentVars PROVE AssessmentInv'
    OBVIOUS
  <2>1. ASSUME NEW sample \in Samples, AddMonitoring(sample) PROVE AssessmentInv'
    BY <2>1, AppendProperties DEF AssessmentInv, AddMonitoring
  <2>2. ASSUME NEW told \in SUBSET DOMAIN Labels, SetDetectedServer(Scraped(told))
        PROVE  AssessmentInv'
    BY <2>2, ScrapedType DEF AssessmentInv, SetDetectedServer
  <2>3. CASE UNCHANGED assessmentVars
    BY <2>3 DEF assessmentVars, AssessmentInv
  <2>. QED  BY <2>1, <2>2, <2>3 DEF AssessmentNext
<1>. QED  BY <1>1, <1>2, PTL DEF AssessmentSpec

\* A setting is shown as empty only when it is not known.
LEMMA ShownFacts ==
  ASSUME NEW config \in ServerConfig, NEW f \in Fields
  PROVE  Shown(f, config) \in Nat /\ (Shown(f, config) = 0 <=> config[f] = 0)
<1>1. config[f] \in Nat
  BY DEF ServerConfig
<1>2. (config[f] + 5) \div 10 \in Nat
  BY <1>1
<1>. QED  BY <1>1, <1>2 DEF Shown

LEMMA EffectiveFacts ==
  ASSUME NEW typed \in ServerConfig, NEW scraped \in ServerConfig
  PROVE  LET config == EffectiveServerConfig(typed, scraped)
         IN  /\ config \in ServerConfig
             /\ \A f \in Fields : /\ scraped[f] \in Nat /\ typed[f] \in Nat
                                  /\ scraped[f] > 0 => config[f] = scraped[f]
                                  /\ scraped[f] = 0 => config[f] = typed[f]
  BY DEF EffectiveServerConfig, ServerConfig

\* Shown values depend on the value of their field only.
LEMMA ShownOfEqual ==
  ASSUME NEW f, NEW left, NEW right, left[f] = right[f]
  PROVE  Shown(f, left) = Shown(f, right)
  BY DEF Shown

(***************************************************************************)
(* What the server tells of itself wins, and openly: once its max_num_seqs *)
(* is known, no typed value changes the saturation verdict that view       *)
(* derives, and a setting that is shown otherwise than it was typed is     *)
(* listed as a conflict. It rests on Shown giving an empty text only to    *)
(* what is not known.                                                      *)
(***************************************************************************)
THEOREM ServerOverrulesOpenly == AssessmentSpec => []OverruledOpenly
<1>1. AssessmentInv => OverruledOpenly
  <2>. SUFFICES ASSUME AssessmentInv PROVE OverruledOpenly
    OBVIOUS
  <2>1. TypedValueNeverOutranks
    <3>. SUFFICES ASSUME detected["max_num_seqs"] > 0, NEW e \in Entries, NEW c, NEW policy
                  PROVE  View(e, c, policy).saturation = View(entered, c, policy).saturation
      BY DEF TypedValueNeverOutranks
    <3>1. "max_num_seqs" \in Fields
      BY AssessmentAssumption
    <3>2. EffectiveServerConfig(e, detected)["max_num_seqs"]
            = EffectiveServerConfig(entered, detected)["max_num_seqs"]
      BY <3>1 DEF EffectiveServerConfig
    <3>. QED  BY <3>2 DEF View
  <2>2. ASSUME NEW f \in Fields
        PROVE  Shown(f, entered) \in {0, Shown(f, Effective)}
                 \/ f \in ProvenanceConflicts(entered, detected)
    <3>1. /\ detected[f] \in Nat /\ Effective[f] = IF detected[f] > 0 THEN detected[f] ELSE entered[f]
          /\ Shown(f, detected) \in Nat /\ (Shown(f, detected) = 0 <=> detected[f] = 0)
      BY EffectiveFacts, ShownFacts DEF AssessmentInv, Effective
    <3>2. CASE detected[f] > 0
      <4>1. Shown(f, Effective) = Shown(f, detected) /\ Shown(f, detected) # 0
        BY <3>1, <3>2, ShownOfEqual
      <4>. QED  BY <4>1 DEF ProvenanceConflicts
    <3>3. CASE detected[f] = 0
      <4>1. Shown(f, Effective) = Shown(f, entered)
        BY <3>1, <3>3, ShownOfEqual
      <4>. QED  BY <4>1
    <3>. QED  BY <3>1, <3>2, <3>3
  <2>. QED  BY <2>1, <2>2 DEF OverruledOpenly, OverridesAreExplained
<1>. QED  BY <1>1, AssessmentInvHolds, PTL

(***************************************************************************)
(* SetDetectedServer keeps the first scrape that told anything, so no step *)
(* takes back a setting that was known, and none changes one after that    *)
(* scrape.                                                                 *)
(***************************************************************************)
THEOREM ProvenanceAlwaysSettles == AssessmentSpec => ProvenanceSettles
<1>. DEFINE Settled == /\ ProvenanceGaps(Effective') \subseteq ProvenanceGaps(Effective)
                       /\ detected # Unknown => ProvenanceDifferences(Effective, Effective') = {}
<1>1. AssessmentInv /\ [AssessmentNext]_assessmentVars => [Settled]_assessmentVars
  <2>. SUFFICES ASSUME AssessmentInv, AssessmentNext PROVE Settled
    OBVIOUS
  <2>1. ASSUME NEW sample \in Samples, AddMonitoring(sample) PROVE Settled
    <3>1. Effective' = Effective
      BY <2>1 DEF AddMonitoring, Effective
    <3>. QED  BY <3>1 DEF ProvenanceDifferences
  <2>2. ASSUME NEW told \in SUBSET DOMAIN Labels, SetDetectedServer(Scraped(told))
        PROVE  Settled
    <3>1. /\ detected = Unknown /\ entered' = entered /\ detected' \in ServerConfig
          /\ entered \in ServerConfig /\ detected \in ServerConfig
      BY <2>2, ScrapedType DEF SetDetectedServer, AssessmentInv
    <3>2. ASSUME NEW f \in Fields, Shown(f, Effective') = 0 PROVE Shown(f, Effective) = 0
      <4>1. /\ Effective \in ServerConfig /\ Effective' \in ServerConfig /\ detected[f] = 0
            /\ Effective[f] = entered[f] /\ detected'[f] \in Nat
            /\ detected'[f] > 0 => Effective'[f] = detected'[f]
            /\ detected'[f] = 0 => Effective'[f] = entered[f]
        BY <3>1, EffectiveFacts DEF Effective, Unknown
      <4>2. Effective'[f] = 0
        BY <3>2, <4>1, ShownFacts
      <4>3. Effective[f] = 0
        BY <4>1, <4>2
      <4>. QED  BY <4>1, <4>3, ShownFacts
    <3>. QED  BY <3>1, <3>2 DEF ProvenanceGaps
  <2>. QED  BY <2>1, <2>2 DEF AssessmentNext
<1>. QED  BY <1>1, AssessmentInvHolds, PTL DEF AssessmentSpec, ProvenanceSettles

(***************************************************************************)
(* Only a sample that measured an empty queue can lower the saturation     *)
(* verdict, and none hides a hardware fault that was seen: AddMonitoring   *)
(* only appends, peaks only rise, one more second with a queue keeps a     *)
(* sustained queue sustained, and a scrape without it leaves it as it was. *)
(***************************************************************************)
THEOREM PressureAlwaysTells == AssessmentSpec => PressureNeverRelieves
<1>. DEFINE Told ==
       Len(samples') > Len(samples) =>
         LET Now(s) == AssessSaturation(s, Effective["max_num_seqs"])
             sample == Last(samples')
         IN  /\ "waiting" \notin DOMAIN sample \/ sample["waiting"] > 0
                  => Severity(Now(samples')) >= Severity(Now(samples))
             /\ \A policy \in Policies :
                  AssessRunValidity(samples, policy) \cap Faults
                    \subseteq AssessRunValidity(samples', policy)
<1>1. AssessmentInv /\ [AssessmentNext]_assessmentVars => [Told]_assessmentVars
  <2>. SUFFICES ASSUME AssessmentInv, AssessmentNext PROVE Told
    OBVIOUS
  <2>1. ASSUME NEW sample \in Samples, AddMonitoring(sample) PROVE Told
    <3>1. samples' = Append(samples, sample) /\ samples \in Seq(Samples)
      BY <2>1 DEF AddMonitoring, AssessmentInv
    <3>2. Last(samples') = sample
      BY <3>1, AppendProperties DEF Last
    <3>3. Effective["max_num_seqs"] \in Nat
      BY AssessmentAssumption, EffectiveFacts DEF AssessmentInv, Effective, ServerConfig
    <3>4. \A policy \in Policies :
            AssessRunValidity(samples, policy) \cap Faults
              \subseteq AssessRunValidity(samples', policy)
      BY <3>1, FaultsStay
    <3>5. ASSUME "waiting" \notin DOMAIN sample \/ sample["waiting"] > 0
          PROVE  Severity(AssessSaturation(samples', Effective["max_num_seqs"]))
                   >= Severity(AssessSaturation(samples, Effective["max_num_seqs"]))
      BY <3>1, <3>3, <3>5, PressureRaises
    <3>. QED  BY <3>2, <3>4, <3>5
  <2>2. ASSUME NEW told \in SUBSET DOMAIN Labels, SetDetectedServer(Scraped(told))
        PROVE  Told
    <3>1. samples' = samples /\ Len(samples) \in Nat
      BY <2>2, LenProperties DEF SetDetectedServer, AssessmentInv
    <3>. QED  BY <3>1
  <2>. QED  BY <2>1, <2>2 DEF AssessmentNext
<1>. QED  BY <1>1, AssessmentInvHolds, PTL DEF AssessmentSpec, PressureNeverRelieves

-----------------------------------------------------------------------------
(***************************************************************************)
(* The sum of a series does not depend on where its values stand.  it has  *)
(* the sum of f over every part of D.                                      *)
(***************************************************************************)
Chosen(s) == CHOOSE x \in s : TRUE

SumsUp(it, f, D) ==
  \A s \in SUBSET D : it[s] = IF s = {} THEN 0 ELSE f[Chosen(s)] + it[s \ {Chosen(s)}]

LEMMA PartFacts ==
  ASSUME NEW D, IsFiniteSet(D), NEW s \in SUBSET D
  PROVE  /\ IsFiniteSet(s) /\ Cardinality(s) \in Nat /\ Cardinality(s) <= Cardinality(D)
         /\ s # {} => Chosen(s) \in s
         /\ \A x \in s : /\ s \ {x} \in SUBSET D
                         /\ Cardinality(s \ {x}) = Cardinality(s) - 1
                         /\ Cardinality(s \ {x}) < Cardinality(s)
<1>1. IsFiniteSet(s) /\ Cardinality(s) \in Nat /\ Cardinality(s) <= Cardinality(D)
  BY FS_Subset, FS_CardinalityType
<1>2. \A x \in s : Cardinality(s \ {x}) = Cardinality(s) - 1
  BY <1>1, FS_RemoveElement
<1>3. s # {} => Chosen(s) \in s
  BY DEF Chosen
<1>. QED  BY <1>1, <1>2, <1>3

\* A property that holds of a part when it holds of all smaller ones holds of all.
LEMMA BySize ==
  ASSUME NEW D, IsFiniteSet(D), NEW G,
         \A s \in SUBSET D :
           (\A r \in SUBSET D : Cardinality(r) < Cardinality(s) => r \in G) => s \in G
  PROVE  SUBSET D \subseteq G
<1>. DEFINE W == (SUBSET D) \ G
<1>1. SUFFICES ASSUME W # {} PROVE FALSE
  OBVIOUS
<1>2. PICK s \in W : \A r \in W : Cardinality(s) <= Cardinality(r)
  <2>1. W \subseteq SUBSET D
    OBVIOUS
  <2>. HIDE DEF W
  <2>. QED  BY <1>1, <2>1, SmallestSubset
<1>3. \A r \in SUBSET D : Cardinality(r) < Cardinality(s) => r \in G
  <2>. SUFFICES ASSUME NEW r \in SUBSET D, Cardinality(r) < Cardinality(s), r \in W PROVE FALSE
    OBVIOUS
  <2>1. Cardinality(r) \in Nat /\ Cardinality(s) \in Nat
    BY PartFacts
  <2>2. Cardinality(s) <= Cardinality(r)
    <3>. HIDE DEF W
    <3>. QED  BY <1>2
  <2>. QED  BY <2>1, <2>2
<1>. QED  BY <1>3

LEMMA SumsExist ==
  ASSUME NEW D, IsFiniteSet(D), NEW f \in [D -> Int]
  PROVE  \E it : SumsUp(it, f, D)
<1>. DEFINE Next1(it, s) == IF s = {} THEN 0 ELSE f[Chosen(s)] + it[s \ {Chosen(s)}]
            UpTo(it, k) == \A s \in SUBSET D : Cardinality(s) <= k => it[s] = Next1(it, s)
            K == {k \in Nat : \E it : UpTo(it, k)}
<1>0. Cardinality(D) \in Nat
  BY FS_CardinalityType
<1>1. 0 \in K
  <2>. DEFINE it == [s \in SUBSET D |-> 0]
  <2>1. \A s \in SUBSET D : Cardinality(s) <= 0 => s = {}
    <3>. SUFFICES ASSUME NEW s \in SUBSET D, Cardinality(s) <= 0 PROVE s = {}
      OBVIOUS
    <3>1. IsFiniteSet(s) /\ Cardinality(s) \in Nat
      BY PartFacts
    <3>. QED  BY <3>1, FS_EmptySet
  <2>2. UpTo(it, 0)
    BY <2>1
  <2>. QED  BY <2>2
<1>2. ASSUME NEW k \in Nat, k \in K PROVE k + 1 \in K
  <2>1. PICK it : UpTo(it, k)
    BY <1>2
  <2>. DEFINE next == [s \in SUBSET D |-> Next1(it, s)]
  <2>2. ASSUME NEW s \in SUBSET D, Cardinality(s) <= k + 1 PROVE next[s] = Next1(next, s)
    <3>1. CASE s = {}
      BY <3>1
    <3>2. CASE s # {}
      <4>. DEFINE t == s \ {Chosen(s)}
      <4>1. t \in SUBSET D /\ Cardinality(t) <= k
        <5>1. Chosen(s) \in s /\ Cardinality(s) \in Nat
          BY <3>2, PartFacts
        <5>2. t \in SUBSET D /\ Cardinality(t) = Cardinality(s) - 1
          BY <5>1, PartFacts
        <5>. HIDE DEF t
        <5>. QED  BY <2>2, <5>1, <5>2
      <4>2. it[t] = Next1(it, t) /\ next[t] = Next1(it, t)
        BY <2>1, <4>1
      <4>3. next[s] = Next1(it, s)
        OBVIOUS
      <4>4. next[t] = it[t]
        <5>. HIDE DEF next
        <5>. QED  BY <4>2
      <4>. HIDE DEF next
      <4>5. Next1(it, s) = f[Chosen(s)] + it[t] /\ Next1(next, s) = f[Chosen(s)] + next[t]
        BY <3>2
      <4>. QED  BY <4>3, <4>4, <4>5
    <3>. QED  BY <3>1, <3>2
  <2>3. UpTo(next, k + 1)
    <3>. HIDE DEF next, Next1
    <3>. QED  BY <2>2
  <2>. HIDE DEF UpTo
  <2>. QED  BY <2>3
<1>. HIDE DEF K
<1>3. Cardinality(D) \in K
  <2>1. \A n \in Nat : n \in K
    <3>. SUFFICES ASSUME NEW n \in Nat, n \notin K PROVE FALSE
      OBVIOUS
    <3>. DEFINE Missed == Nat \ K
    <3>1. Missed \subseteq Nat /\ Missed # {}
      OBVIOUS
    <3>2. PICK m \in Missed : \A x \in Missed : <<x, m>> \notin OpToRel(<, Nat)
      <4>. HIDE DEF Missed
      <4>. QED  BY <3>1, NatLessThanWellFounded, WFMin
    <3>3. m \in Nat /\ m \notin K
      BY <3>2
    <3>4. m - 1 \in Nat /\ (m - 1) + 1 = m /\ m - 1 < m
      BY <1>1, <3>3
    <3>5. <<m - 1, m>> \in OpToRel(<, Nat)
      BY <3>3, <3>4 DEF OpToRel
    <3>6. m - 1 \in K
      BY <3>2, <3>4, <3>5
    <3>7. (m - 1) + 1 \in K
      <4>. DEFINE j == m - 1
      <4>1. j \in Nat /\ j \in K
        BY <3>4, <3>6
      <4>. HIDE DEF j
      <4>2. j + 1 \in K
        BY <1>2, <4>1
      <4>. QED  BY <4>2 DEF j
    <3>. QED  BY <3>3, <3>4, <3>7
  <2>. QED  BY <1>0, <2>1
<1>4. PICK it : UpTo(it, Cardinality(D))
  BY <1>3 DEF K
<1>5. \A s \in SUBSET D : it[s] = Next1(it, s)
  BY <1>4, PartFacts
<1>. QED  BY <1>5 DEF SumsUp

LEMMA SumsType ==
  ASSUME NEW D, IsFiniteSet(D), NEW f \in [D -> Int], NEW it, SumsUp(it, f, D)
  PROVE  \A s \in SUBSET D : it[s] \in Int
<1>. DEFINE G == {s \in SUBSET D : it[s] \in Int}
<1>1. ASSUME NEW s \in SUBSET D, \A r \in SUBSET D : Cardinality(r) < Cardinality(s) => r \in G
      PROVE  s \in G
  <2>1. CASE s = {}
    <3>1. it[s] = 0
      BY <2>1 DEF SumsUp
    <3>. QED  BY <3>1
  <2>2. CASE s # {}
    <3>. DEFINE t == s \ {Chosen(s)}
    <3>1. Chosen(s) \in s /\ t \in SUBSET D /\ Cardinality(t) < Cardinality(s)
      BY <2>2, PartFacts
    <3>2. it[t] \in Int /\ it[s] = f[Chosen(s)] + it[t]
      BY <1>1, <2>2, <3>1 DEF SumsUp
    <3>. HIDE DEF t
    <3>. QED  BY <3>1, <3>2
  <2>. QED  BY <2>1, <2>2
<1>. HIDE DEF G
<1>2. SUBSET D \subseteq G
  BY <1>1, BySize
<1>. QED  BY <1>2 DEF G

\* Any value can be taken first.
LEMMA AnyFirst ==
  ASSUME NEW D, IsFiniteSet(D), NEW f \in [D -> Int], NEW it, SumsUp(it, f, D)
  PROVE  \A s \in SUBSET D : \A x \in s : it[s] = f[x] + it[s \ {x}]
<1>. DEFINE G == {s \in SUBSET D : \A x \in s : it[s] = f[x] + it[s \ {x}]}
<1>1. ASSUME NEW s \in SUBSET D, \A r \in SUBSET D : Cardinality(r) < Cardinality(s) => r \in G
      PROVE  s \in G
  <2>. SUFFICES ASSUME NEW x \in s PROVE it[s] = f[x] + it[s \ {x}]
    OBVIOUS
  <2>. DEFINE c == Chosen(s)
              a == s \ {c}
              b == s \ {x}
  <2>1. c \in s /\ it[s] = f[c] + it[a]
    BY PartFacts DEF SumsUp
  <2>2. CASE x = c
    BY <2>1, <2>2
  <2>3. CASE x # c
    <3>1. /\ a \in SUBSET D /\ Cardinality(a) < Cardinality(s)
          /\ b \in SUBSET D /\ Cardinality(b) < Cardinality(s)
      BY <2>1, PartFacts
    <3>2. x \in a /\ c \in b /\ a \ {x} = b \ {c} /\ a \ {x} \in SUBSET D
      BY <2>1, <2>3
    <3>. HIDE DEF a, c
    <3>3. it[a] = f[x] + it[a \ {x}] /\ it[b] = f[c] + it[b \ {c}]
      <4>. HIDE DEF b
      <4>. QED  BY <1>1, <3>1, <3>2
    <3>4. it[a \ {x}] \in Int /\ f[x] \in Int /\ f[c] \in Int
      BY <2>1, <3>2, SumsType
    <3>5. it[b \ {c}] = it[a \ {x}]
      BY <3>2
    <3>. DEFINE ia == it[a]
                ib == it[b]
                rest == it[a \ {x}]
    <3>6. it[s] = f[c] + ia /\ ia = f[x] + rest /\ ib = f[c] + rest
      BY <2>1, <3>3, <3>5
    <3>7. it[s] = f[x] + ib
      <4>1. rest \in Int
        BY <3>4
      <4>. HIDE DEF ia, ib, rest, b
      <4>. QED  BY <3>4, <3>6, <4>1
    <3>. QED  BY <3>7
  <2>. QED  BY <2>2, <2>3
<1>. HIDE DEF G
<1>2. SUBSET D \subseteq G
  BY <1>1, BySize
<1>. QED  BY <1>2 DEF G

\* Total folds + over the places.
LEMMA TotalIs ==
  ASSUME NEW D, IsFiniteSet(D), NEW f \in [D -> Int]
  PROVE  \E it : SumsUp(it, f, D) /\ Total(f) = it[D]
<1>. DEFINE Body(it) == [s \in SUBSET D |->
                           IF s = {} THEN 0 ELSE f[Chosen(s)] + it[s \ {Chosen(s)}]]
            it == CHOOSE it : it = Body(it)
<1>1. \E jt : jt = Body(jt)
  <2>1. PICK kt : SumsUp(kt, f, D)
    BY SumsExist
  <2>. DEFINE jt == [s \in SUBSET D |-> kt[s]]
  <2>2. ASSUME NEW s \in SUBSET D PROVE jt[s] = Body(jt)[s]
    <3>1. CASE s = {}
      BY <2>1, <3>1 DEF SumsUp
    <3>2. CASE s # {}
      <4>1. s \ {Chosen(s)} \in SUBSET D
        OBVIOUS
      <4>2. kt[s] = f[Chosen(s)] + kt[s \ {Chosen(s)}]
        BY <2>1, <3>2 DEF SumsUp
      <4>. QED  BY <3>2, <4>1, <4>2
    <3>. QED  BY <3>1, <3>2
  <2>3. jt = Body(jt)
    <3>1. jt = [s \in SUBSET D |-> jt[s]] /\ Body(jt) = [s \in SUBSET D |-> Body(jt)[s]]
      OBVIOUS
    <3>. HIDE DEF jt, Body
    <3>. QED  BY <2>2, <3>1
  <2>. QED  BY <2>3
<1>2. it = Body(it)
  <2>. HIDE DEF Body
  <2>. QED  BY <1>1
<1>3. DOMAIN f = D
  OBVIOUS
<1>4. Total(f) = it[D]
  BY <1>3 DEF Total, FoldFunction, FoldFunctionOnSet, MapThenFoldSet, Chosen
<1>. HIDE DEF it
<1>5. SumsUp(it, f, D)
  BY <1>2 DEF SumsUp
<1>. QED  BY <1>4, <1>5

\* A total does not depend on where the values stand.
LEMMA TotalMoves ==
  ASSUME NEW D, IsFiniteSet(D), NEW E, NEW b \in Bijection(D, E),
         NEW f \in [D -> Int], NEW g \in [E -> Int], \A i \in D : f[i] = g[b[i]]
  PROVE  Total(f) = Total(g)
<1>1. IsFiniteSet(E)
  BY FS_Bijection DEF ExistsBijection
<1>2. PICK it : SumsUp(it, f, D) /\ Total(f) = it[D]
  BY TotalIs
<1>3. PICK jt : SumsUp(jt, g, E) /\ Total(g) = jt[E]
  BY <1>1, TotalIs
<1>. DEFINE Moved(s) == {b[i] : i \in s}
            G == {s \in SUBSET D : it[s] = jt[Moved(s)]}
<1>4. /\ b \in [D -> E] /\ \A i, j \in D : b[i] = b[j] => i = j
      /\ \A e \in E : \E i \in D : b[i] = e
  BY DEF Bijection, Injection, Surjection, IsInjective
<1>5. ASSUME NEW s \in SUBSET D, \A r \in SUBSET D : Cardinality(r) < Cardinality(s) => r \in G
      PROVE  s \in G
  <2>1. CASE s = {}
    <3>1. Moved(s) = {} /\ {} \in SUBSET E
      BY <2>1
    <3>2. it[s] = 0 /\ jt[{}] = 0
      BY <1>2, <1>3, <2>1 DEF SumsUp
    <3>. QED  BY <3>1, <3>2
  <2>2. CASE s # {}
    <3>1. PICK x \in s : TRUE
      BY <2>2
    <3>. DEFINE r == s \ {x}
    <3>2. r \in SUBSET D /\ Cardinality(r) < Cardinality(s)
      BY <3>1, PartFacts
    <3>3. Moved(s) \in SUBSET E /\ b[x] \in Moved(s) /\ Moved(s) \ {b[x]} = Moved(r)
      BY <1>4, <3>1
    <3>. HIDE DEF r
    <3>4. it[r] = jt[Moved(r)]
      BY <1>5, <3>2
    <3>. HIDE DEF Moved
    <3>5. it[s] = f[x] + it[r]
      BY <1>2, <3>1, AnyFirst DEF r
    <3>6. jt[Moved(s)] = g[b[x]] + jt[Moved(s) \ {b[x]}]
      BY <1>1, <1>3, <3>3, AnyFirst
    <3>7. it[s] = jt[Moved(s)]
      BY <3>1, <3>3, <3>4, <3>5, <3>6
    <3>. QED  BY <3>7
  <2>. QED  BY <2>1, <2>2
<1>. HIDE DEF G
<1>6. SUBSET D \subseteq G
  BY <1>5, BySize
<1>. USE DEF G
<1>7. Moved(D) = E
  BY <1>4
<1>. HIDE DEF Moved
<1>8. it[D] = jt[Moved(D)]
  BY <1>6
<1>. QED  BY <1>2, <1>3, <1>7, <1>8

-----------------------------------------------------------------------------
(***************************************************************************)
(* A series whose values were moved, in their order.                       *)
(***************************************************************************)
IsSeries(v) == IsFiniteSet(DOMAIN v) /\ DOMAIN v \subseteq Int /\ v \in [DOMAIN v -> Int]

Moves(b, v, w) ==
  /\ b \in Bijection(DOMAIN v, DOMAIN w)
  /\ \A i \in DOMAIN v : v[i] = w[b[i]]
  /\ \A i, j \in DOMAIN v : i < j => b[i] < b[j]

LEMMA MovedBack ==
  ASSUME NEW v, NEW w, NEW b, Moves(b, v, w)
  PROVE  /\ b \in [DOMAIN v -> DOMAIN w]
         /\ \A i, j \in DOMAIN v : b[i] = b[j] => i = j
         /\ \A k \in DOMAIN w : \E i \in DOMAIN v : b[i] = k
  BY DEF Moves, Bijection, Injection, Surjection, IsInjective

LEMMA SameNumber ==
  ASSUME NEW v, NEW w, IsSeries(v), NEW b, Moves(b, v, w)
  PROVE  Number(v) = Number(w)
  BY FS_Bijection DEF Moves, ExistsBijection, IsSeries, Number

LEMMA SameNonZero ==
  ASSUME NEW v, NEW w, IsSeries(v), NEW b, Moves(b, v, w)
  PROVE  NonZero(v) = NonZero(w)
<1>. DEFINE V == {i \in DOMAIN v : v[i] > 0}
            W == {k \in DOMAIN w : w[k] > 0}
            c == [i \in V |-> b[i]]
<1>1. /\ b \in [DOMAIN v -> DOMAIN w]
      /\ \A i, j \in DOMAIN v : b[i] = b[j] => i = j
      /\ \A k \in DOMAIN w : \E i \in DOMAIN v : b[i] = k
      /\ \A i \in DOMAIN v : v[i] = w[b[i]]
  BY MovedBack DEF Moves
<1>2. c \in [V -> W]
  BY <1>1
<1>3. \A i, j \in V : c[i] = c[j] => i = j
  BY <1>1
<1>4. \A k \in W : \E i \in V : c[i] = k
  BY <1>1
<1>5. IsFiniteSet(V)
  BY FS_Subset DEF IsSeries
<1>6. NonZero(v) = Cardinality(V) /\ NonZero(w) = Cardinality(W)
  BY DEF NonZero
<1>. HIDE DEF V, W, c
<1>7. c \in Bijection(V, W)
  BY <1>2, <1>3, <1>4 DEF Bijection, Injection, Surjection, IsInjective
<1>. QED  BY <1>5, <1>6, <1>7, FS_Bijection DEF ExistsBijection

LEMMA SamePeak ==
  ASSUME NEW v, NEW w, NEW b, Moves(b, v, w)
  PROVE  Peak(v) = Peak(w)
<1>1. {v[i] : i \in DOMAIN v} = {w[k] : k \in DOMAIN w}
  <2>1. /\ b \in [DOMAIN v -> DOMAIN w]
        /\ \A k \in DOMAIN w : \E i \in DOMAIN v : b[i] = k
        /\ \A i \in DOMAIN v : v[i] = w[b[i]]
    BY MovedBack DEF Moves
  <2>2. \A i \in DOMAIN v : v[i] \in {w[k] : k \in DOMAIN w}
    BY <2>1
  <2>3. \A k \in DOMAIN w : w[k] \in {v[i] : i \in DOMAIN v}
    BY <2>1
  <2>. QED  BY <2>2, <2>3
<1>. QED  BY <1>1 DEF Peak

LEMMA SameLatest ==
  ASSUME NEW v, NEW w, IsSeries(v), IsSeries(w), NEW b, Moves(b, v, w), DOMAIN v # {}
  PROVE  Latest(v) = Latest(w)
<1>. DEFINE x == Max(DOMAIN v)
            y == Max(DOMAIN w)
<1>1. /\ b \in [DOMAIN v -> DOMAIN w]
      /\ \A k \in DOMAIN w : \E i \in DOMAIN v : b[i] = k
      /\ \A i \in DOMAIN v : v[i] = w[b[i]]
      /\ \A i, j \in DOMAIN v : i < j => b[i] < b[j]
  BY MovedBack DEF Moves
<1>2. IsFiniteSet(DOMAIN v) /\ IsFiniteSet(DOMAIN w) /\ DOMAIN v \subseteq Int /\ DOMAIN w \subseteq Int
  BY DEF IsSeries
<1>3. x \in DOMAIN v /\ x \in Int /\ \A i \in DOMAIN v : i <= x
  BY <1>2, MaxIsLargest
<1>4. y \in DOMAIN w /\ y \in Int /\ \A k \in DOMAIN w : k <= y
  <2>1. DOMAIN w # {}
    BY <1>1
  <2>. QED  BY <1>2, <2>1, MaxIsLargest
<1>5. Latest(v) = v[x] /\ Latest(w) = w[y]
  BY DEF Latest
<1>. HIDE DEF x, y
<1>6. PICK i \in DOMAIN v : b[i] = y
  BY <1>1, <1>4
<1>7. i = x
  <2>1. i \in Int /\ i <= x
    BY <1>2, <1>3
  <2>2. i < x => b[i] < b[x]
    BY <1>1, <1>3
  <2>3. b[x] \in DOMAIN w /\ b[x] \in Int
    BY <1>1, <1>2, <1>3
  <2>4. b[x] <= y
    BY <1>4, <2>3
  <2>. QED  BY <1>3, <1>4, <1>6, <2>1, <2>2, <2>3, <2>4
<1>. QED  BY <1>1, <1>3, <1>5, <1>6, <1>7

LEMMA SameTotal ==
  ASSUME NEW v, NEW w, IsSeries(v), IsSeries(w), NEW b, Moves(b, v, w)
  PROVE  Total(v) = Total(w)
<1>. DEFINE D == DOMAIN v
            E == DOMAIN w
<1>1. /\ IsFiniteSet(D) /\ b \in Bijection(D, E) /\ v \in [D -> Int] /\ w \in [E -> Int]
      /\ \A i \in D : v[i] = w[b[i]]
  BY DEF Moves, IsSeries
<1>. HIDE DEF D, E
<1>. QED  BY <1>1, TotalMoves

\* Series that a verdict cannot tell apart.
Alike(v, w) ==
  /\ Number(v) = Number(w) /\ NonZero(v) = NonZero(w) /\ Peak(v) = Peak(w) /\ Total(v) = Total(w)
  /\ Number(v) # 0 => Latest(v) = Latest(w)

LEMMA MovedAlike ==
  ASSUME NEW v, NEW w, IsSeries(v), IsSeries(w), NEW b, Moves(b, v, w)
  PROVE  Alike(v, w)
<1>1. Number(v) # 0 => DOMAIN v # {}
  BY FS_EmptySet DEF Number
<1>2. Number(v) # 0 => Latest(v) = Latest(w)
  BY <1>1, SameLatest
<1>. QED  BY <1>2, SameNumber, SameNonZero, SamePeak, SameTotal DEF Alike

-----------------------------------------------------------------------------
(***************************************************************************)
(* The measured values of a metric, moved together.                        *)
(***************************************************************************)
Upto(P, i) == {j \in P : j <= i}

LEMMA PlacesRank ==
  ASSUME NEW n \in Nat, NEW P \in SUBSET (1 .. n)
  PROVE  /\ IsFiniteSet(P) /\ Cardinality(P) \in Nat
         /\ \A i \in P : Cardinality(Upto(P, i)) \in 1 .. Cardinality(P)
         /\ \A i, j \in P : i < j => Cardinality(Upto(P, i)) < Cardinality(Upto(P, j))
         /\ \A i, j \in P : Cardinality(Upto(P, i)) = Cardinality(Upto(P, j)) => i = j
         /\ \A k \in 1 .. Cardinality(P) : \E i \in P : Cardinality(Upto(P, i)) = k
<1>1. IsFiniteSet(1 .. n) /\ \A i \in P : i \in Int
  BY FS_Interval
<1>2. IsFiniteSet(P) /\ Cardinality(P) \in Nat
  BY <1>1, FS_Subset, FS_CardinalityType
<1>. DEFINE N == Cardinality(P)
            rank == [i \in P |-> Cardinality(Upto(P, i))]
<1>3. ASSUME NEW i \in P
      PROVE  IsFiniteSet(Upto(P, i)) /\ rank[i] \in Nat /\ 1 <= rank[i] /\ rank[i] <= N
  <2>1. Upto(P, i) \in SUBSET P /\ i \in Upto(P, i)
    BY <1>1 DEF Upto
  <2>2. IsFiniteSet(Upto(P, i)) /\ Cardinality(Upto(P, i)) <= N
    BY <1>2, <2>1, FS_Subset
  <2>3. Cardinality(Upto(P, i)) \in Nat /\ Cardinality(Upto(P, i)) # 0
    BY <2>1, <2>2, FS_CardinalityType, FS_EmptySet
  <2>. QED  BY <2>2, <2>3
<1>4. ASSUME NEW i \in P, NEW j \in P, i < j PROVE rank[i] < rank[j]
  <2>1. Upto(P, i) \in SUBSET Upto(P, j) /\ j \in Upto(P, j) /\ j \notin Upto(P, i)
    <3>1. i \in Int /\ j \in Int
      BY <1>1
    <3>2. \A k \in P : k <= i => k <= j
      <4>. SUFFICES ASSUME NEW k \in P, k <= i PROVE k <= j
        OBVIOUS
      <4>1. k \in Int
        BY <1>1
      <4>. QED  BY <1>4, <3>1, <4>1
    <3>3. j <= j /\ ~(j <= i)
      BY <1>4, <3>1
    <3>. QED  BY <3>2, <3>3 DEF Upto
  <2>2. IsFiniteSet(Upto(P, j)) /\ Upto(P, i) # Upto(P, j)
    BY <1>3, <2>1
  <2>3. Cardinality(Upto(P, i)) <= Cardinality(Upto(P, j))
        /\ Cardinality(Upto(P, i)) # Cardinality(Upto(P, j))
    BY <2>1, <2>2, FS_Subset
  <2>4. rank[i] \in Nat /\ rank[j] \in Nat
    BY <1>3
  <2>. QED  BY <2>3, <2>4
<1>5. \A i \in P : rank[i] = Cardinality(Upto(P, i))
  OBVIOUS
<1>6. DOMAIN rank = P /\ rank = [i \in P |-> rank[i]]
  OBVIOUS
<1>. HIDE DEF rank
<1>7. ASSUME NEW i \in P, NEW j \in P, rank[i] = rank[j] PROVE i = j
  <2>1. i \in Int /\ j \in Int /\ rank[i] \in Nat /\ rank[j] \in Nat
    BY <1>1, <1>3
  <2>2. ~(i < j) /\ ~(j < i)
    BY <1>4, <1>7, <2>1
  <2>. QED  BY <2>1, <2>2
<1>. HIDE DEF N
<1>8. N \in Nat
  BY <1>2 DEF N
<1>9. IsFiniteSet(1 .. N) /\ Cardinality(1 .. N) = N
  BY <1>8, FS_Interval
<1>10. \A i \in P : rank[i] \in 1 .. N
  BY <1>3, <1>8
<1>11. rank \in Injection(P, 1 .. N)
  BY <1>6, <1>7, <1>10 DEF Injection, IsInjective
<1>12. rank \in Surjection(P, 1 .. N)
  BY <1>9, <1>11, FS_Injection DEF N
<1>13. \A k \in 1 .. N : \E i \in P : rank[i] = k
  BY <1>12 DEF Surjection
<1>. QED  BY <1>2, <1>4, <1>5, <1>7, <1>10, <1>13 DEF N

\* The measured values keep their order when the gaps between them are closed.
LEMMA GaplessMoves ==
  ASSUME samples \in Seq(Samples), NEW m \in VerdictMetrics
  PROVE  LET v == Observed(samples, m)
             w == Observed(Gapless, m)
         IN  IsSeries(v) /\ IsSeries(w) /\ \E b : Moves(b, v, w)
<1>. DEFINE P == MeasuredAt(m)
            N == Cardinality(P)
            n == Len(samples)
            at(k) == Place(k, m)
            rank(i) == Cardinality(Upto(P, i))
            v == Observed(samples, m)
            w == Observed(Gapless, m)
            b == [i \in DOMAIN v |-> rank(i)]
<1>1. n \in Nat /\ DOMAIN samples = 1 .. n /\ \A i \in 1 .. n : samples[i] \in Samples
  BY LenProperties, ElementOfSeq
<1>2. P \in SUBSET (1 .. n) /\ \A i \in P : samples[i][m] \in Int
  BY <1>1, AssessmentAssumption DEF MeasuredAt
<1>3. DOMAIN v = P /\ v = [i \in P |-> samples[i][m]]
  BY DEF Observed, MeasuredAt
<1>4. N <= n
  <2>. HIDE DEF P, n
  <2>1. IsFiniteSet(1 .. n) /\ Cardinality(1 .. n) = n
    BY <1>1, FS_Interval
  <2>. QED  BY <1>2, <2>1, FS_Subset
<1>5. DOMAIN w = {k \in 1 .. n : k <= N} /\ w = [k \in DOMAIN w |-> samples[at(k)][m]]
  BY <1>1 DEF Observed, Gapless
<1>6. \A k : at(k) = CHOOSE i \in P : rank(i) = k
  BY DEF Place, Upto
<1>. HIDE DEF P, n, v, w, at
<1>7. /\ IsFiniteSet(P) /\ N \in Nat
      /\ \A i \in P : rank(i) \in 1 .. N
      /\ \A i, j \in P : i < j => rank(i) < rank(j)
      /\ \A i, j \in P : rank(i) = rank(j) => i = j
      /\ \A k \in 1 .. N : \E i \in P : rank(i) = k
  BY <1>1, <1>2, PlacesRank
<1>. HIDE DEF rank, N
<1>8. \A k \in 1 .. N : at(k) \in P /\ rank(at(k)) = k
  BY <1>6, <1>7
<1>9. DOMAIN w = 1 .. N
  BY <1>1, <1>4, <1>5, <1>7
<1>10. \A i \in P : rank(i) \in DOMAIN w /\ at(rank(i)) = i
  BY <1>7, <1>8, <1>9
<1>11. DOMAIN b = P /\ \A i \in P : b[i] = rank(i)
  BY <1>3
<1>12. IsSeries(v)
  <2>1. P \subseteq Int
    BY <1>1, <1>2
  <2>. QED  BY <1>2, <1>3, <1>7, <2>1 DEF IsSeries
<1>13. IsSeries(w)
  <2>1. IsFiniteSet(1 .. N) /\ 1 .. N \subseteq Int
    BY <1>7, FS_Interval
  <2>2. \A k \in DOMAIN w : w[k] \in Int
    BY <1>2, <1>5, <1>8, <1>9
  <2>. QED  BY <1>5, <1>9, <2>1, <2>2 DEF IsSeries
<1>14. \A i \in P : v[i] = w[rank(i)]
  <2>. SUFFICES ASSUME NEW i \in P PROVE v[i] = w[rank(i)]
    OBVIOUS
  <2>1. w[rank(i)] = samples[at(rank(i))][m]
    BY <1>5, <1>10
  <2>. QED  BY <1>3, <1>10, <2>1
<1>15. b \in Bijection(DOMAIN v, DOMAIN w)
  <2>1. b \in [DOMAIN v -> DOMAIN w]
    BY <1>3, <1>10
  <2>. HIDE DEF b
  <2>2. \A i, j \in DOMAIN v : b[i] = b[j] => i = j
    BY <1>3, <1>7, <1>11
  <2>3. \A k \in DOMAIN w : \E i \in DOMAIN v : b[i] = k
    BY <1>3, <1>7, <1>9, <1>11
  <2>. QED  BY <2>1, <2>2, <2>3 DEF Bijection, Injection, Surjection, IsInjective
<1>16. Moves(b, v, w)
  <2>. HIDE DEF b
  <2>1. \A i, j \in DOMAIN v : i < j => b[i] < b[j]
    BY <1>3, <1>7, <1>11
  <2>2. \A i \in DOMAIN v : v[i] = w[b[i]]
    BY <1>3, <1>11, <1>14
  <2>. QED  BY <1>15, <2>1, <2>2 DEF Moves
<1>. QED  BY <1>12, <1>13, <1>16 DEF v, w

LEMMA GaplessAlike ==
  ASSUME samples \in Seq(Samples), NEW m \in VerdictMetrics
  PROVE  Alike(Observed(samples, m), Observed(Gapless, m))
<1>1. PICK b : Moves(b, Observed(samples, m), Observed(Gapless, m))
  BY GaplessMoves
<1>2. IsSeries(Observed(samples, m)) /\ IsSeries(Observed(Gapless, m))
  BY GaplessMoves
<1>. QED  BY <1>1, <1>2, MovedAlike

-----------------------------------------------------------------------------
\* The verdicts see no more of a series than what alike series share.
LEMMA SameSaturation ==
  ASSUME NEW s, NEW t, NEW limit,
         \A m \in SaturationMetrics : Alike(Observed(s, m), Observed(t, m))
  PROVE  AssessSaturation(s, limit) = AssessSaturation(t, limit)
<1>1. \A m \in SaturationMetrics :
        /\ Number(Observed(s, m)) = Number(Observed(t, m))
        /\ Peak(Observed(s, m)) = Peak(Observed(t, m))
        /\ Sustained(Observed(s, m)) = Sustained(Observed(t, m))
  BY DEF Alike, Sustained
<1>2. /\ Number(Observed(s, "waiting")) = Number(Observed(t, "waiting"))
      /\ Number(Observed(s, "kv")) = Number(Observed(t, "kv"))
      /\ Sustained(Observed(s, "waiting")) = Sustained(Observed(t, "waiting"))
      /\ Peak(Observed(s, "preemptions")) = Peak(Observed(t, "preemptions"))
      /\ Peak(Observed(s, "running")) = Peak(Observed(t, "running"))
  BY <1>1 DEF SaturationMetrics
<1>. QED  BY <1>2 DEF AssessSaturation

LEMMA SameValidity ==
  ASSUME NEW s, NEW t, NEW policy,
         \A m \in ValidityMetrics : Alike(Observed(s, m), Observed(t, m))
  PROVE  AssessRunValidity(s, policy) = AssessRunValidity(t, policy)
<1>1. \A m \in Faults : Peak(Observed(s, m)) = Peak(Observed(t, m))
  BY DEF Alike, ValidityMetrics
<1>2. Declines(Observed(s, "clock")) = Declines(Observed(t, "clock"))
  <2>1. Alike(Observed(s, "clock"), Observed(t, "clock"))
    BY DEF ValidityMetrics
  <2>. DEFINE v == Observed(s, "clock")
              w == Observed(t, "clock")
  <2>2. Number(v) = Number(w) /\ Peak(v) = Peak(w) /\ (Number(v) # 0 => Latest(v) = Latest(w))
    BY <2>1 DEF Alike
  <2>. HIDE DEF v, w
  <2>3. Declines(v) = Declines(w)
    BY <2>2 DEF Declines
  <2>. QED  BY <2>3 DEF v, w
<1>3. /\ Number(Observed(s, "prefixHit")) = Number(Observed(t, "prefixHit"))
      /\ Total(Observed(s, "prefixHit")) = Total(Observed(t, "prefixHit"))
  BY DEF Alike, ValidityMetrics
<1>. QED  BY <1>1, <1>2, <1>3 DEF AssessRunValidity

LEMMA SameAttribution ==
  ASSUME NEW s, NEW t, NEW client,
         \A m \in AttributionMetrics : Alike(Observed(s, m), Observed(t, m))
  PROVE  AttributeTTFT(client, s) = AttributeTTFT(client, t)
<1>1. \A m \in AttributionMetrics :
        /\ Number(Observed(s, m)) = Number(Observed(t, m))
        /\ Total(Observed(s, m)) = Total(Observed(t, m))
  BY DEF Alike
<1>2. /\ Number(Observed(s, "queueTime")) = Number(Observed(t, "queueTime"))
      /\ Total(Observed(s, "queueTime")) = Total(Observed(t, "queueTime"))
      /\ Number(Observed(s, "prefillTime")) = Number(Observed(t, "prefillTime"))
      /\ Total(Observed(s, "prefillTime")) = Total(Observed(t, "prefillTime"))
  BY <1>1 DEF AttributionMetrics
<1>. QED  BY <1>2 DEF AttributeTTFT

(***************************************************************************)
(* The gaps of a scrape change no verdict (series and the Assess functions *)
(* of internal/core/saturation.go), for any samples: a second that lacks a *)
(* metric is not counted as a zero of it, because a verdict sees of a      *)
(* series only what its values are, in their order, and not where they     *)
(* stand among the samples.                                                *)
(***************************************************************************)
THEOREM UnmeasuredNeverCounts == AssessmentSpec => []UnmeasuredIsNotZero
<1>1. AssessmentInv => UnmeasuredIsNotZero
  <2>. SUFFICES ASSUME AssessmentInv PROVE UnmeasuredIsNotZero
    OBVIOUS
  <2>1. samples \in Seq(Samples)
    BY DEF AssessmentInv
  <2>2. \A m \in VerdictMetrics : Alike(Observed(samples, m), Observed(Gapless, m))
    BY <2>1, GaplessAlike
  <2>3. AssessSaturation(samples, Effective["max_num_seqs"])
          = AssessSaturation(Gapless, Effective["max_num_seqs"])
    BY <2>2, SameSaturation DEF VerdictMetrics
  <2>4. ASSUME NEW client \in Clients
        PROVE  AttributeTTFT(client, samples) = AttributeTTFT(client, Gapless)
    BY <2>2, SameAttribution DEF VerdictMetrics
  <2>5. ASSUME NEW policy \in Policies
        PROVE  AssessRunValidity(samples, policy) = AssessRunValidity(Gapless, policy)
    BY <2>2, SameValidity DEF VerdictMetrics
  <2>. QED  BY <2>3, <2>4, <2>5 DEF UnmeasuredIsNotZero
<1>. QED  BY <1>1, AssessmentInvHolds, PTL
=============================================================================
