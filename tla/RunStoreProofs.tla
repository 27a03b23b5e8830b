--------------------------- MODULE RunStoreProofs ---------------------------
(***************************************************************************)
(* Proofs about RunStore, for any number of targets, runs, agents, shards, *)
(* requests and searches, and any bounds of the loads: type correctness,   *)
(* the runs and their shards (RunInv), what a step never does, the         *)
(* searches (SearchInv), the ladders they climb (LadderInv), and the       *)
(* refinement of LoadService.                                              *)
(***************************************************************************)
EXTENDS RunStoreProps, CapacitySearchProofs

-----------------------------------------------------------------------------
(***************************************************************************)
(* Type correctness of the helpers.                                        *)
(***************************************************************************)
LEMMA ShardIdFacts ==
  /\ \A sh \in ShardIds : RunOf(sh) \in RunIds /\ sh[2] \in 0 .. MaxShards - 1
  /\ None \notin RunIds /\ None \notin SearchForms /\ None \notin Targets
  /\ \A sh \in ShardIds : sh # None
BY RunStoreAssumption DEF ShardIds, RunOf

LEMMA MonitoredType ==
  ASSUME TypeOK, NEW r
  PROVE  Monitored(r) \in [RunIds -> Run]
<1>1. CASE r \in RunIds
  <2>. DEFINE longer == IF run[r].monitoring < MaxMonitoring THEN run[r].monitoring + 1
                        ELSE run[r].monitoring
  <2>1. run[r] \in Run /\ longer \in 0 .. MaxMonitoring
    BY <1>1, RunStoreAssumption DEF TypeOK, Run
  <2>2. [run[r] EXCEPT !.monitoring = longer] \in Run
    <3>. HIDE DEF longer
    <3>. QED  BY <2>1 DEF Run
  <2>3. Monitored(r) = [run EXCEPT ![r] = [run[r] EXCEPT !.monitoring = longer]]
    BY <1>1 DEF TypeOK, Monitored
  <2>. HIDE DEF longer
  <2>. QED  BY <2>2, <2>3 DEF TypeOK
<1>2. CASE r \notin RunIds
  BY <1>2 DEF TypeOK, Monitored
<1>. QED  BY <1>1, <1>2

LEMMA CancelRunsType ==
  ASSUME TypeOK, NEW R, CancelRuns(R)
  PROVE  run' \in [RunIds -> Run] /\ shard' \in [ShardIds -> ShardStatus]
<1>. DEFINE over == {r \in R : Cancellable(r)}
<1>1. \A r \in RunIds : [run[r] EXCEPT !.status = "cancelled"] \in Run
  BY DEF TypeOK, Run, RunStatus
<1>2. run' = [r \in RunIds |-> IF r \in over THEN [run[r] EXCEPT !.status = "cancelled"] ELSE run[r]]
  BY DEF CancelRuns
<1>3. shard' = ShardsAfterCancel(over)
  BY DEF CancelRuns
<1>. HIDE DEF over
<1>4. run' \in [RunIds -> Run]
  BY <1>1, <1>2 DEF TypeOK
<1>5. shard' \in [ShardIds -> ShardStatus]
  BY <1>3 DEF TypeOK, ShardsAfterCancel, ShardStatus
<1>. QED  BY <1>4, <1>5

LEMMA QueueRunType ==
  ASSUME TypeOK, NEW r \in RunIds, NEW t \in Targets \cup {None}, NEW n,
         NEW s \in SearchForms \cup {None}, NEW load \in Load, QueueRun(r, t, n, s, load)
  PROVE  run' \in [RunIds -> Run] /\ shard' \in [ShardIds -> ShardStatus]
<1>1. NewRun \in Run
  BY RunStoreAssumption DEF NewRun, Run, RunStatus, Load
<1>2. [NewRun EXCEPT !.status = "queued", !.target = t, !.search = s, !.load = load] \in Run
  BY <1>1 DEF Run, RunStatus
<1>. QED  BY <1>2 DEF TypeOK, QueueRun, ShardStatus

LEMMA ClaimType ==
  ASSUME TypeOK, NEW taken, NEW dropped
  PROVE  /\ RunsAfterClaim(taken, dropped) \in [RunIds -> Run]
         /\ ShardsAfterClaim(taken, dropped) \in [ShardIds -> ShardStatus]
<1>1. \A r \in RunIds : /\ [run[r] EXCEPT !.status = "cancelled"] \in Run
                        /\ [run[r] EXCEPT !.status = "running"] \in Run
  BY DEF TypeOK, Run, RunStatus
<1>2. RunsAfterClaim(taken, dropped) \in [RunIds -> Run]
  BY <1>1 DEF TypeOK, RunsAfterClaim
<1>3. ShardsAfterClaim(taken, dropped) \in [ShardIds -> ShardStatus]
  BY DEF TypeOK, ShardsAfterClaim, ShardStatus
<1>. QED  BY <1>2, <1>3

(***************************************************************************)
(* Advancing a search with the step of a run keeps its loads within the    *)
(* configured bounds.                                                      *)
(***************************************************************************)
LEMMA AdvanceType ==
  ASSUME NEW s \in Search, NEW step \in Step
  PROVE  Advance(s, step) \in Search
<1>. DEFINE recorded == Recorded(s, step)
            above    == RungsAbove(s, step.load)
<1>1. recorded \in Search
  <2>1. step.load \in 0 .. MaxLoad /\ s.stableLoad \in 0 .. MaxLoad
    BY DEF Search, Step, Load
  <2>2. Max({s.stableLoad, step.load}) \in 0 .. MaxLoad
    BY <2>1, MaxOfNats, RunStoreAssumption
  <2>3. Append(s.steps, step) \in Seq(Step)
    BY DEF Search
  <2>. QED  BY <2>2, <2>3 DEF Recorded, Search, Step, Load
<1>2. above # {} => Min(above) \in Load
  <2>1. above \subseteq 0 .. MaxLoad
    <3>1. s.start = StartLoad /\ s.max = MaxLoad
      BY DEF Search
    <3>2. SweepLadder(s.start, s.max) \subseteq StartLoad .. MaxLoad
      BY <3>1, SweepLadderBounds, RunStoreAssumption
    <3>. QED  BY <3>2, RunStoreAssumption DEF RungsAbove
  <2>. QED  BY <2>1, MinOfNats, RunStoreAssumption DEF Load
<1>3. FinishSearch(recorded) \in Search
  <2>. DEFINE knee == KneeLoad(recorded.steps)
  <2>1. \A i \in DOMAIN recorded.steps : recorded.steps[i].load \in 0 .. MaxLoad
    <3>1. recorded.steps \in Seq(Step)
      BY <1>1 DEF Search
    <3>2. \A i \in DOMAIN recorded.steps : recorded.steps[i] \in Step
      BY <3>1
    <3>. QED  BY <3>2 DEF Step, Load
  <2>2. knee \in 0 .. MaxLoad
    BY <2>1, KneeHoldsFromTheBottom, RunStoreAssumption
  <2>. DEFINE provision == IF knee = 0 THEN recorded.provision
                           ELSE Max({1, (knee * HeadroomPercent) \div 100})
  <2>3. provision \in 0 .. MaxLoad
    <3>1. CASE knee = 0
      BY <3>1, <1>1 DEF Search, Load
    <3>2. CASE knee # 0
      <4>1. Max({1, (knee * HeadroomPercent) \div 100}) \in 1 .. knee
        BY <2>2, <3>2, ProvisionBounds, RunStoreAssumption
      <4>. QED  BY <4>1, <3>2, <2>2, RunStoreAssumption
    <3>. QED  BY <3>1, <3>2
  <2>. HIDE DEF recorded
  <2>4. FinishSearch(recorded) =
          [recorded EXCEPT !.status = "completed", !.nextLoad = 0, !.recommended = knee,
                           !.provision = provision]
    BY DEF FinishSearch
  <2>5. 0 \in Load /\ knee \in Load /\ provision \in Load
    BY <2>2, <2>3, RunStoreAssumption DEF Load
  <2>. HIDE DEF knee, provision
  <2>6. [recorded EXCEPT !.status = "completed", !.nextLoad = 0, !.recommended = knee,
                         !.provision = provision] \in Search
    <3>1. \A x \in Search : /\ [x EXCEPT !.status = "completed"] \in Search
                            /\ [x EXCEPT !.nextLoad = 0] \in Search
      BY <2>5 DEF Search
    <3>2. \A x \in Search : /\ [x EXCEPT !.recommended = knee] \in Search
                            /\ [x EXCEPT !.provision = provision] \in Search
      BY <2>5 DEF Search
    <3>. QED  BY <1>1, <3>1, <3>2
  <2>. QED  BY <2>4, <2>6
<1>. QED  BY <1>1, <1>2, <1>3 DEF Advance, Search

-----------------------------------------------------------------------------
(***************************************************************************)
(* Every state the run store, its handlers and the agents can reach is     *)
(* well typed: in particular no rung leaves the configured bounds and no   *)
(* monitoring series grows beyond its limit.                               *)
(***************************************************************************)
LEMMA InitType == Init => TypeOK
<1>. SUFFICES ASSUME Init PROVE TypeOK
  OBVIOUS
<1>1. NewRun \in Run
  BY RunStoreAssumption DEF NewRun, Run, RunStatus, Load
<1>2. NoSearch \in Search
  <2>1. << >> \in Seq(RunIds) /\ << >> \in Seq(Step)
    OBVIOUS
  <2>2. 0 \in Load /\ 1 \in 1 .. MaxShards
    BY RunStoreAssumption DEF Load
  <2>. QED  BY <2>1, <2>2 DEF NoSearch, Search
<1>3. NewForm \in Form /\ Idle \in AgentState
  BY RunStoreAssumption DEF NewForm, Form, Idle, AgentState
<1>. QED  BY <1>1, <1>2, <1>3 DEF Init, TypeOK, ShardStatus

LEMMA AdvanceSearchType ==
  ASSUME TypeOK, NEW sh \in ShardIds, AdvanceSearch(sh)
  PROVE  TypeOK'
<1>. DEFINE r    == RunOf(sh)
            s    == run[r].search
            step == [run |-> r, load |-> run[r].load, stable |-> run[r].stable]
            next == Advance(search[s], step)
<1>1. r \in RunIds /\ run[r] \in Run
  BY ShardIdFacts DEF TypeOK
<1>2. report' \in [ShardIds -> {"none", "posted", "sample", "advance"}]
  BY DEF TypeOK, AdvanceSearch
<1>3. UNCHANGED <<target, progress, form, publishing, scrape, agent>>
  BY DEF AdvanceSearch
<1>4. CASE UNCHANGED <<search, run, shard>>
  BY <1>2, <1>3, <1>4 DEF TypeOK
<1>5. CASE WantsAdvance(r)
  <2>1. s \in SearchForms
    BY <1>1, <1>5 DEF WantsAdvance, Run
  <2>2. step \in Step
    BY <1>1 DEF Run, Step
  <2>3. next \in Search
    BY <2>1, <2>2, AdvanceType DEF TypeOK
  <2>4. CASE search' = [search EXCEPT ![s] = next] /\ UNCHANGED <<run, shard>>
    <3>. HIDE DEF next
    <3>. QED  BY <1>2, <1>3, <2>1, <2>3, <2>4 DEF TypeOK
  <2>5. CASE \E q \in RunIds :
               /\ QueueRun(q, search[s].target, search[s].shards, s, next.nextLoad)
               /\ search' = [search EXCEPT ![s] = WithRun(next, q)]
    <3>. HIDE DEF next
    <3>1. PICK q \in RunIds :
               /\ QueueRun(q, search[s].target, search[s].shards, s, next.nextLoad)
               /\ search' = [search EXCEPT ![s] = WithRun(next, q)]
      BY <2>5
    <3>2. search[s].target \in Targets \cup {None} /\ next.nextLoad \in Load
      BY <2>1, <2>3 DEF TypeOK, Search
    <3>3. run' \in [RunIds -> Run] /\ shard' \in [ShardIds -> ShardStatus]
      BY <2>1, <3>1, <3>2, QueueRunType
    <3>4. WithRun(next, q) \in Search
      <4>1. Append(next.runs, q) \in Seq(RunIds)
        BY <2>3 DEF Search
      <4>. QED  BY <2>3, <4>1 DEF WithRun, Search
    <3>. QED  BY <1>2, <1>3, <2>1, <3>1, <3>3, <3>4 DEF TypeOK
  <2>6. \/ search' = [search EXCEPT ![s] = next] /\ UNCHANGED <<run, shard>>
        \/ \E q \in RunIds :
              /\ QueueRun(q, search[s].target, search[s].shards, s, next.nextLoad)
              /\ search' = [search EXCEPT ![s] = WithRun(next, q)]
        \/ UNCHANGED <<search, run, shard>>
    BY <1>5 DEF AdvanceSearch
  <2>. QED  BY <1>4, <2>4, <2>5, <2>6
<1>. QED  BY <1>4, <1>5 DEF AdvanceSearch

LEMMA NextType == TypeOK /\ [Next]_vars => TypeOK'
<1>. SUFFICES ASSUME TypeOK, [Next]_vars PROVE TypeOK'
  OBVIOUS
<1>. USE DEF handlers
<1>1. ASSUME NEW t \in Targets, CreateTarget(t) PROVE TypeOK'
  BY <1>1 DEF TypeOK, CreateTarget
<1>2. ASSUME NEW t \in Targets, DeleteTarget(t) PROVE TypeOK'
  BY <1>2 DEF TypeOK, DeleteTarget
<1>3. ASSUME NEW f \in Forms, NEW t \in Targets, NEW n \in 1 .. MaxShards, CheckForm(f, t, n)
      PROVE  TypeOK'
  BY <1>3 DEF TypeOK, CheckForm, Form
<1>4. ASSUME NEW f \in RunForms, CreateRun(f) PROVE TypeOK'
  <2>1. PICK r \in RunIds : /\ QueueRun(r, form[f].target, form[f].shards, None, 0)
                            /\ form' = [form EXCEPT ![f].stage = "sampling", ![f].run = r]
    BY <1>4 DEF CreateRun
  <2>2. form[f] \in Form /\ 0 \in Load
    BY RunStoreAssumption DEF TypeOK, Forms, Load
  <2>3. run' \in [RunIds -> Run] /\ shard' \in [ShardIds -> ShardStatus]
    BY <2>1, <2>2, QueueRunType DEF Form
  <2>4. form' \in [Forms -> Form]
    <3>1. [[form[f] EXCEPT !.stage = "sampling"] EXCEPT !.run = r] \in Form
      BY <2>2 DEF Form
    <3>. QED  BY <2>1, <3>1 DEF TypeOK
  <2>. QED  BY <1>4, <2>3, <2>4 DEF TypeOK, CreateRun
<1>5. ASSUME NEW f \in RunForms, SampleNewRun(f) PROVE TypeOK'
  <2>1. run' \in [RunIds -> Run]
    BY <1>5, MonitoredType DEF SampleNewRun
  <2>2. form' \in [Forms -> Form]
    <3>1. [form[f] EXCEPT !.stage = "done"] \in Form
      BY DEF TypeOK, Forms, Form
    <3>. QED  BY <1>5, <3>1 DEF TypeOK, SampleNewRun
  <2>. QED  BY <1>5, <2>1, <2>2 DEF TypeOK, SampleNewRun
<1>6. ASSUME NEW f \in SearchForms, CreateSearch(f) PROVE TypeOK'
  <2>1. PICK r \in RunIds :
          /\ QueueRun(r, form[f].target, form[f].shards, f, StartLoad)
          /\ search' = [search EXCEPT ![f] =
                          [PlannedSearch(search[f]) EXCEPT !.target = form[f].target,
                                                           !.shards = form[f].shards,
                                                           !.runs = <<r>>]]
    BY <1>6 DEF CreateSearch
  <2>2. form[f] \in Form /\ StartLoad \in Load
    BY RunStoreAssumption DEF TypeOK, Forms, Load
  <2>3. run' \in [RunIds -> Run] /\ shard' \in [ShardIds -> ShardStatus]
    BY <2>1, <2>2, QueueRunType DEF Form
  <2>4. search' \in [SearchForms -> Search]
    <3>1. <<r>> \in Seq(RunIds)
      OBVIOUS
    <3>2. PlannedSearch(search[f]) \in Search
      <4>1. search[f] \in Search /\ search[f].start \in Load
        BY <2>2 DEF TypeOK, Search
      <4>. QED  BY <4>1 DEF PlannedSearch, Search
    <3>. QED  BY <2>1, <2>2, <3>1, <3>2 DEF TypeOK, Search, Form
  <2>5. form' \in [Forms -> Form]
    <3>1. [form[f] EXCEPT !.stage = "done"] \in Form
      BY <2>2 DEF Form
    <3>. QED  BY <1>6, <3>1 DEF TypeOK, CreateSearch
  <2>. QED  BY <1>6, <2>3, <2>4, <2>5 DEF TypeOK, CreateSearch
<1>7. ASSUME NEW r \in RunIds, CancelRun(r) PROVE TypeOK'
  BY <1>7, CancelRunsType DEF TypeOK, CancelRun
<1>8. ASSUME NEW s \in SearchForms, CancelSearch(s) PROVE TypeOK'
  <2>1. run' \in [RunIds -> Run] /\ shard' \in [ShardIds -> ShardStatus]
    BY <1>8, CancelRunsType DEF CancelSearch
  <2>2. search' \in [SearchForms -> Search]
    <3>1. [search[s] EXCEPT !.status = "cancelled"] \in Search
      <4>1. search[s] \in Search
        BY DEF TypeOK
      <4>. QED  BY <4>1 DEF Search
    <3>. QED  BY <1>8, <3>1 DEF TypeOK, CancelSearch
  <2>. QED  BY <1>8, <2>1, <2>2 DEF TypeOK, CancelSearch
<1>9. ASSUME NEW a \in Agents, ClaimRun(a) PROVE TypeOK'
  <2>1. PICK sh \in Claimable, dropped \in SUBSET Dead :
          /\ shard' = ShardsAfterClaim({sh}, dropped)
          /\ run' = RunsAfterClaim({sh}, dropped)
          /\ agent' = [agent EXCEPT ![a] = [shard |-> sh, stopping |-> FALSE]]
    BY <1>9 DEF ClaimRun
  <2>2. [shard |-> sh, stopping |-> FALSE] \in AgentState
    BY DEF AgentState, Claimable
  <2>. QED  BY <1>9, <2>1, <2>2, ClaimType DEF TypeOK, ClaimRun
<1>10. ASSUME NEW a \in Agents, ClaimNothing(a) PROVE TypeOK'
  BY <1>10, ClaimType DEF TypeOK, ClaimNothing
<1>11. ASSUME NEW a \in Agents, ObserveCancellation(a) PROVE TypeOK'
  BY <1>11 DEF TypeOK, ObserveCancellation, AgentState
<1>12. ASSUME NEW a \in Agents, FinishLoad(a) PROVE TypeOK'
  BY <1>12 DEF TypeOK, FinishLoad, AgentState, Idle
<1>13. ASSUME NEW a \in Agents, AgentCrash(a) PROVE TypeOK'
  BY <1>13 DEF TypeOK, AgentCrash, AgentState, Idle
<1>14. ASSUME NEW a \in Agents, Publish(a) PROVE TypeOK'
  <2>1. agent[a].shard \in ShardIds
    BY <1>14 DEF TypeOK, Publish, AgentState, Idle
  <2>. QED  BY <1>14, <2>1 DEF TypeOK, Publish
<1>15. ASSUME NEW sh \in ShardIds, LoseReport(sh) PROVE TypeOK'
  BY <1>15 DEF TypeOK, LoseReport
<1>16. ASSUME NEW sh \in ShardIds, SetShardProgress(sh) PROVE TypeOK'
  BY <1>16 DEF TypeOK, SetShardProgress
<1>17. ASSUME NEW sh \in ShardIds, LoseProgress(sh) PROVE TypeOK'
  BY <1>17 DEF TypeOK, LoseProgress
<1>18. ASSUME NEW sh \in ShardIds, CompleteShard(sh) PROVE TypeOK'
  <2>1. run' \in [RunIds -> Run]
    <3>1. RunOf(sh) \in RunIds
      BY DEF RunOf, ShardIds
    <3>2. \A x \in Run : [x EXCEPT !.status = "completed"] \in Run
      BY DEF Run, RunStatus
    <3>3. \A x \in Run, b \in BOOLEAN : [x EXCEPT !.stable = b] \in Run
      BY DEF Run
    <3>4. \A x \in Run, b \in BOOLEAN : [x EXCEPT !.status = "completed", !.stable = b] \in Run
      BY <3>2, <3>3
    <3>5. CASE run' = run
      BY <3>5 DEF TypeOK
    <3>6. ASSUME NEW b \in BOOLEAN,
                 run' = [run EXCEPT ![RunOf(sh)].status = "completed", ![RunOf(sh)].stable = b]
          PROVE  run' \in [RunIds -> Run]
      <4>. DEFINE done == [run[RunOf(sh)] EXCEPT !.status = "completed", !.stable = b]
      <4>1. done \in Run
        BY <3>1, <3>4 DEF TypeOK
      <4>2. run' = [run EXCEPT ![RunOf(sh)] = done]
        BY <3>1, <3>6 DEF TypeOK
      <4>. HIDE DEF done
      <4>. QED  BY <4>1, <4>2 DEF TypeOK
    <3>. QED  BY <1>18, <3>5, <3>6 DEF CompleteShard
  <2>2. progress' \subseteq ShardIds
    BY <1>18 DEF TypeOK, CompleteShard
  <2>3. report' \in [ShardIds -> {"none", "posted", "sample", "advance"}]
    BY <1>18 DEF TypeOK, CompleteShard
  <2>4. shard' \in [ShardIds -> ShardStatus]
    BY <1>18 DEF TypeOK, CompleteShard, ShardStatus
  <2>. QED  BY <1>18, <2>1, <2>2, <2>3, <2>4 DEF TypeOK, CompleteShard
<1>19. ASSUME NEW sh \in ShardIds, SampleCompletedRun(sh) PROVE TypeOK'
  BY <1>19, MonitoredType DEF TypeOK, SampleCompletedRun
<1>20. ASSUME NEW sh \in ShardIds, AdvanceSearch(sh) PROVE TypeOK'
  BY <1>20, AdvanceSearchType
<1>21. ASSUME SamplerTick PROVE TypeOK'
  BY <1>21 DEF TypeOK, SamplerTick
<1>22. ASSUME NEW r \in RunIds, SamplerAttach(r) PROVE TypeOK'
  BY <1>22, MonitoredType DEF TypeOK, SamplerAttach
<1>23. CASE UNCHANGED vars
  BY <1>23 DEF TypeOK, vars
<1>. QED
  BY <1>1, <1>2, <1>3, <1>4, <1>5, <1>6, <1>7, <1>8, <1>9, <1>10, <1>11, <1>12, <1>13, <1>14,
     <1>15, <1>16, <1>17, <1>18, <1>19, <1>20, <1>21, <1>22, <1>23 DEF Next

THEOREM TypeCorrect == Spec => []TypeOK
BY InitType, NextType, PTL DEF Spec

-----------------------------------------------------------------------------
(***************************************************************************)
(* The safety theorems, from the inductive invariant RunInv.               *)
(*                                                                         *)
(* Why the conjuncts of RunInv need one another: a claim gives an agent a  *)
(* shard nobody has because only queued shards are claimable and an agent  *)
(* only holds running ones; a posted result is of a running shard because  *)
(* the agent that posted it held it; so the result that completes a run    *)
(* meets a shard not yet completed, and by CompletedWithLastShard the run  *)
(* was not over before.                                                    *)
(***************************************************************************)

(***************************************************************************)
(* How each of the store's operations changes shards and runs.             *)
(***************************************************************************)
LEMMA MonitoredKeepsRuns ==
  ASSUME TypeOK, NEW r, run' = Monitored(r)
  PROVE  \A q \in RunIds : /\ run'[q].status = run[q].status
                           /\ run'[q].target = run[q].target
                           /\ run'[q].stable = run[q].stable
BY DEF TypeOK, Monitored, Run

LEMMA QueueRunEffect ==
  ASSUME TypeOK, NEW r \in RunIds, NEW t \in Targets \cup {None}, NEW n \in 1 .. MaxShards,
         NEW s \in SearchForms \cup {None}, NEW load \in Load, QueueRun(r, t, n, s, load)
  PROVE  /\ run[r].status = "none"
         /\ run'[r].status = "queued"
         /\ \A q \in RunIds \ {r} : run'[q] = run[q]
         /\ \A sh \in ShardIds : RunOf(sh) # r => shard'[sh] = shard[sh]
         /\ \A sh \in ShardIds : shard'[sh] \in {shard[sh], "queued"}
         /\ \E sh \in ShardIds : RunOf(sh) = r /\ shard'[sh] = "queued"
<1>1. PICK free \in RunIds : run[free].status = "none"
  BY DEF QueueRun
<1>2. run[r].status = "none"
  BY <1>1 DEF QueueRun, FreshRun
<1>3. <<r, 0>> \in ShardIds /\ RunOf(<<r, 0>>) = r /\ shard'[<<r, 0>>] = "queued"
  BY RunStoreAssumption DEF QueueRun, ShardIds, RunOf
<1>4. /\ run'[r].status = "queued"
      /\ \A q \in RunIds \ {r} : run'[q] = run[q]
  BY DEF TypeOK, QueueRun, NewRun
<1>5. /\ \A sh \in ShardIds : RunOf(sh) # r => shard'[sh] = shard[sh]
      /\ \A sh \in ShardIds : shard'[sh] \in {shard[sh], "queued"}
  BY DEF QueueRun
<1>. QED  BY <1>2, <1>3, <1>4, <1>5

LEMMA CancelRunsEffect ==
  ASSUME TypeOK, NEW R, CancelRuns(R)
  PROVE  /\ \A r \in RunIds :
              \/ run'[r] = run[r]
              \/ Active(r) /\ run'[r].status = "cancelled" /\ run'[r].target = run[r].target
         /\ \A sh \in ShardIds :
              \/ shard'[sh] = shard[sh]
              \/ shard[sh] = "queued" /\ shard'[sh] = "cancelled"
                   /\ run'[RunOf(sh)].status = "cancelled"
<1>1. \A r \in RunIds :
        \/ run'[r] = run[r]
        \/ Active(r) /\ run'[r].status = "cancelled" /\ run'[r].target = run[r].target
  BY DEF TypeOK, CancelRuns, Cancellable, Active, Run
<1>2. \A sh \in ShardIds :
        \/ shard'[sh] = shard[sh]
        \/ shard[sh] = "queued" /\ shard'[sh] = "cancelled" /\ run'[RunOf(sh)].status = "cancelled"
  BY ShardIdFacts DEF TypeOK, CancelRuns, ShardsAfterCancel, Run
<1>. QED  BY <1>1, <1>2

\* A claim takes at most one shard, a claimable one, and drops dead ones.
LEMMA ClaimEffect ==
  ASSUME TypeOK, NEW taken \in SUBSET Claimable, NEW dropped \in SUBSET Dead,
         run' = RunsAfterClaim(taken, dropped), shard' = ShardsAfterClaim(taken, dropped)
  PROVE  /\ \A sh \in taken : /\ shard[sh] = "queued" /\ shard'[sh] = "running"
                              /\ run'[RunOf(sh)].status = "running"
         /\ \A sh \in dropped : /\ shard[sh] = "queued" /\ shard'[sh] = "cancelled"
                                /\ \/ run'[RunOf(sh)].status = "cancelled"
                                   \/ run'[RunOf(sh)] = run[RunOf(sh)] /\ ~Active(RunOf(sh))
         /\ \A sh \in ShardIds \ (taken \cup dropped) : shard'[sh] = shard[sh]
         /\ \A r \in RunIds :
              \/ run'[r] = run[r]
              \/ /\ Active(r)
                 /\ run'[r].status = "cancelled" /\ run'[r].target = run[r].target
              \/ /\ \E sh \in taken : RunOf(sh) = r
                 /\ run'[r].status = "running" /\ run'[r].target = run[r].target
                 /\ target[run[r].target] = "registered"
<1>1. \A sh \in taken : /\ sh \in ShardIds /\ shard[sh] = "queued" /\ Active(RunOf(sh))
                        /\ target[run[RunOf(sh)].target] = "registered"
  BY DEF Claimable
<1>2. \A sh \in dropped : sh \in ShardIds /\ shard[sh] = "queued" /\ sh \notin Claimable
  BY DEF Dead
<1>3. \A sh \in dropped : Active(RunOf(sh)) => target[run[RunOf(sh)].target] # "registered"
  BY <1>2 DEF Claimable
<1>4. ASSUME NEW r \in RunIds
      PROVE  \/ run'[r] = run[r]
             \/ /\ Active(r)
                /\ run'[r].status = "cancelled" /\ run'[r].target = run[r].target
             \/ /\ \E sh \in taken : RunOf(sh) = r
                /\ run'[r].status = "running" /\ run'[r].target = run[r].target
                /\ target[run[r].target] = "registered"
  <2>1. run[r] \in Run
    BY DEF TypeOK
  <2>2. CASE \E sh \in dropped : RunOf(sh) = r /\ Active(r)
    BY <2>1, <2>2 DEF RunsAfterClaim, Run
  <2>3. CASE (\E sh \in taken : RunOf(sh) = r) /\ ~\E sh \in dropped : RunOf(sh) = r /\ Active(r)
    BY <1>1, <2>1, <2>3 DEF RunsAfterClaim, Run
  <2>. QED  BY <2>2, <2>3 DEF RunsAfterClaim
<1>5. ASSUME NEW sh \in taken
      PROVE  shard'[sh] = "running" /\ run'[RunOf(sh)].status = "running"
  <2>1. sh \notin dropped
    BY <1>2
  <2>2. ~\E d \in dropped : RunOf(d) = RunOf(sh) /\ Active(RunOf(sh))
    BY <1>1, <1>3
  <2>3. RunOf(sh) \in RunIds /\ run[RunOf(sh)] \in Run
    BY <1>1, ShardIdFacts DEF TypeOK
  <2>4. run'[RunOf(sh)] = [run[RunOf(sh)] EXCEPT !.status = "running"]
    BY <2>2, <2>3 DEF RunsAfterClaim
  <2>. QED  BY <1>1, <2>1, <2>3, <2>4 DEF ShardsAfterClaim, Run
<1>6. ASSUME NEW sh \in dropped
      PROVE  /\ shard'[sh] = "cancelled"
             /\ \/ run'[RunOf(sh)].status = "cancelled"
                \/ run'[RunOf(sh)] = run[RunOf(sh)] /\ ~Active(RunOf(sh))
  <2>1. RunOf(sh) \in RunIds /\ run[RunOf(sh)] \in Run
    BY <1>2, ShardIdFacts DEF TypeOK
  <2>2. CASE Active(RunOf(sh))
    BY <2>1, <2>2, <1>2 DEF RunsAfterClaim, ShardsAfterClaim, Run
  <2>3. CASE ~Active(RunOf(sh))
    <3>1. ~\E s \in taken : RunOf(s) = RunOf(sh)
      BY <1>1, <2>3
    <3>. QED  BY <2>1, <2>3, <3>1, <1>2 DEF RunsAfterClaim, ShardsAfterClaim
  <2>. QED  BY <2>2, <2>3
<1>7. \A sh \in ShardIds \ (taken \cup dropped) : shard'[sh] = shard[sh]
  BY DEF ShardsAfterClaim
<1>. QED  BY <1>1, <1>2, <1>4, <1>5, <1>6, <1>7

-----------------------------------------------------------------------------
(***************************************************************************)
(* RunInv is preserved by each kind of step.                               *)
(***************************************************************************)
\* The agents, facts used by every step.
LEMMA AgentFacts ==
  ASSUME RunInv
  PROVE  \A a \in Agents :
           agent[a] # Idle => /\ agent[a].shard \in ShardIds
                              /\ shard[agent[a].shard] = "running"
                              /\ report[agent[a].shard] = "none"
                              /\ run[RunOf(agent[a].shard)].status # "completed"
<1>1. \A a \in Agents :
        agent[a] # Idle => /\ agent[a].shard \in ShardIds
                           /\ shard[agent[a].shard] = "running"
                           /\ report[agent[a].shard] = "none"
  BY DEF RunInv, TypeOK, AgentState, ShardExecutedByOneAgent
<1>2. \A sh \in ShardIds :
        shard[sh] = "running" => run[RunOf(sh)].status # "completed"
  BY ShardIdFacts DEF RunInv, CompletedWithLastShard, ShardsOf
<1>. QED  BY <1>1, <1>2

LEMMA IdleHasNoShard ==
  ASSUME RunInv, NEW a \in Agents, agent[a] = Idle, NEW sh \in ShardIds
  PROVE  agent[a].shard # sh
BY ShardIdFacts DEF Idle

\* Steps that change no status, no assignment and no result on its way.
LEMMA FramePreserves ==
  ASSUME RunInv, TypeOK', UNCHANGED <<shard, report, agent>>,
         \A r \in RunIds : run'[r].status = run[r].status /\ run'[r].target = run[r].target,
         \A r \in RunIds : run[r].status = "running" =>
           target'[run[r].target] = target[run[r].target]
  PROVE  RunInv'
<1>1. ShardExecutedByOneAgent'
  BY DEF RunInv, ShardExecutedByOneAgent
<1>2. ResultHandledOnce'
  BY ShardIdFacts DEF RunInv, ResultHandledOnce, Following
<1>3. CompletedWithLastShard'
  BY DEF RunInv, CompletedWithLastShard, ShardsOf
<1>4. RunningRunKeepsItsTarget'
  BY DEF RunInv, RunningRunKeepsItsTarget
<1>. QED  BY <1>1, <1>2, <1>3, <1>4 DEF RunInv

\* Creating a run; at the end of AdvanceSearch a handler finishes as well.
LEMMA QueueRunPreserves ==
  ASSUME RunInv, TypeOK', NEW r \in RunIds, NEW t \in Targets \cup {None},
         NEW n \in 1 .. MaxShards, NEW s \in SearchForms \cup {None}, NEW load \in Load,
         QueueRun(r, t, n, s, load), UNCHANGED <<target, agent>>,
         \A sh \in ShardIds : report'[sh] \in {report[sh], "none"}
  PROVE  RunInv'
<1>1. /\ run[r].status = "none" /\ run'[r].status = "queued"
      /\ \A q \in RunIds \ {r} : run'[q] = run[q]
      /\ \A sh \in ShardIds : RunOf(sh) # r => shard'[sh] = shard[sh]
      /\ \A sh \in ShardIds : shard'[sh] \in {shard[sh], "queued"}
      /\ \E sh \in ShardIds : RunOf(sh) = r /\ shard'[sh] = "queued"
  BY QueueRunEffect DEF RunInv
<1>2. \A sh \in ShardIds : shard[sh] # "none" => RunOf(sh) # r
  BY <1>1 DEF RunInv, ResultHandledOnce
<1>3. ShardExecutedByOneAgent'
  <2>1. \A a \in Agents : agent[a] # Idle =>
          /\ shard'[agent[a].shard] = "running" /\ report'[agent[a].shard] = "none"
    BY <1>1, <1>2, AgentFacts
  <2>. QED  BY <2>1 DEF RunInv, ShardExecutedByOneAgent
<1>4. ResultHandledOnce'
  BY <1>1, <1>2, ShardIdFacts DEF RunInv, ResultHandledOnce, Following
<1>5. CompletedWithLastShard'
  <2>1. \A q \in RunIds \ {r} : ShardsOf(q)' = ShardsOf(q)
    BY <1>1 DEF ShardsOf
  <2>2. \A q \in RunIds \ {r} : \A sh \in ShardsOf(q) : shard'[sh] = shard[sh]
    BY <1>1 DEF ShardsOf
  <2>3. \E sh \in ShardsOf(r)' : shard'[sh] # "completed"
    BY <1>1 DEF ShardsOf
  <2>. QED  BY <1>1, <2>1, <2>2, <2>3 DEF RunInv, CompletedWithLastShard
<1>6. RunningRunKeepsItsTarget'
  BY <1>1 DEF RunInv, RunningRunKeepsItsTarget
<1>. QED  BY <1>3, <1>4, <1>5, <1>6 DEF RunInv

LEMMA CancelRunsPreserves ==
  ASSUME RunInv, TypeOK', NEW R, CancelRuns(R), UNCHANGED <<target, agent, report>>
  PROVE  RunInv'
<1>1. /\ \A r \in RunIds :
           \/ run'[r] = run[r]
           \/ Active(r) /\ run'[r].status = "cancelled" /\ run'[r].target = run[r].target
      /\ \A sh \in ShardIds :
           \/ shard'[sh] = shard[sh]
           \/ shard[sh] = "queued" /\ shard'[sh] = "cancelled"
                /\ run'[RunOf(sh)].status = "cancelled"
  BY CancelRunsEffect DEF RunInv
<1>2. ShardExecutedByOneAgent'
  <2>1. \A a \in Agents : agent[a] # Idle =>
          /\ shard'[agent[a].shard] = "running" /\ report'[agent[a].shard] = "none"
    BY <1>1, AgentFacts
  <2>. QED  BY <2>1 DEF RunInv, ShardExecutedByOneAgent
<1>3. ResultHandledOnce'
  BY <1>1, ShardIdFacts DEF RunInv, ResultHandledOnce, Following, Active
<1>4. CompletedWithLastShard'
  BY <1>1, ShardIdFacts DEF RunInv, CompletedWithLastShard, ShardsOf, Active
<1>5. RunningRunKeepsItsTarget'
  BY <1>1 DEF RunInv, RunningRunKeepsItsTarget
<1>. QED  BY <1>2, <1>3, <1>4, <1>5 DEF RunInv

\* ClaimRun whether or not it finds a shard; `claimant` is who polled.
LEMMA ClaimPreserves ==
  ASSUME RunInv, TypeOK', NEW taken \in SUBSET Claimable, NEW dropped \in SUBSET Dead,
         run' = RunsAfterClaim(taken, dropped), shard' = ShardsAfterClaim(taken, dropped),
         UNCHANGED <<target, report>>, NEW claimant \in Agents,
         \/ UNCHANGED agent
         \/ \E sh \in taken : agent' = [agent EXCEPT ![claimant] = [shard |-> sh, stopping |-> FALSE]]
  PROVE  RunInv'
<1>1. /\ \A sh \in taken : /\ shard[sh] = "queued" /\ shard'[sh] = "running"
                           /\ run'[RunOf(sh)].status = "running"
      /\ \A sh \in dropped : /\ shard[sh] = "queued" /\ shard'[sh] = "cancelled"
                             /\ \/ run'[RunOf(sh)].status = "cancelled"
                                \/ run'[RunOf(sh)] = run[RunOf(sh)] /\ ~Active(RunOf(sh))
      /\ \A sh \in ShardIds \ (taken \cup dropped) : shard'[sh] = shard[sh]
  BY ClaimEffect DEF RunInv
<1>2. \A r \in RunIds :
        \/ run'[r] = run[r]
        \/ /\ Active(r)
           /\ run'[r].status = "cancelled" /\ run'[r].target = run[r].target
        \/ /\ \E sh \in taken : RunOf(sh) = r
           /\ run'[r].status = "running" /\ run'[r].target = run[r].target
           /\ target[run[r].target] = "registered"
  BY ClaimEffect DEF RunInv
<1>3. taken \subseteq ShardIds /\ dropped \subseteq ShardIds
  BY DEF Claimable, Dead
<1>4. \A sh \in ShardIds : shard[sh] # "queued" => shard'[sh] = shard[sh]
  BY <1>1
<1>5. \A sh \in taken : Active(RunOf(sh))
  BY DEF Claimable
<1>6. \A sh \in ShardIds : shard[sh] = "queued" =>
        report[sh] = "none" /\ run[RunOf(sh)].status # "completed"
  <2>1. \A sh \in ShardIds : shard[sh] = "queued" => run[RunOf(sh)].status # "completed"
    BY ShardIdFacts DEF RunInv, CompletedWithLastShard, ShardsOf
  <2>. QED  BY <2>1 DEF RunInv, TypeOK, ResultHandledOnce, Following
<1>7. ShardExecutedByOneAgent'
  <2>1. \A a \in Agents : agent[a] # Idle => shard'[agent[a].shard] = "running"
    BY <1>4, AgentFacts
  <2>2. CASE UNCHANGED agent
    BY <2>1, <2>2 DEF RunInv, ShardExecutedByOneAgent
  <2>3. ASSUME NEW sh \in taken,
               agent' = [agent EXCEPT ![claimant] = [shard |-> sh, stopping |-> FALSE]]
        PROVE  ShardExecutedByOneAgent'
    <3>1. \A a \in Agents : agent[a].shard # sh
      BY <1>1, <1>3, AgentFacts, IdleHasNoShard
    <3>2. /\ agent'[claimant].shard = sh
          /\ \A a \in Agents \ {claimant} : agent'[a] = agent[a]
      BY <2>3 DEF RunInv, TypeOK
    <3>3. shard'[sh] = "running" /\ report'[sh] = "none"
      BY <1>1, <1>3, <1>6
    <3>. QED  BY <2>1, <3>1, <3>2, <3>3, AgentFacts DEF RunInv, ShardExecutedByOneAgent
  <2>. QED  BY <2>2, <2>3
<1>8. ResultHandledOnce'
  <2>1. \A sh \in ShardIds : shard'[sh] # "none" => run'[RunOf(sh)].status # "none"
    <3>1. \A sh \in ShardIds : shard'[sh] # "none" => shard[sh] # "none"
      BY <1>1, <1>3
    <3>. QED  BY <3>1, <1>2, ShardIdFacts DEF RunInv, ResultHandledOnce
  <2>2. \A sh \in ShardIds : report[sh] = "posted" => shard'[sh] = "running"
    BY <1>4 DEF RunInv, ResultHandledOnce
  <2>3. \A sh \in ShardIds : Following(sh) => run'[RunOf(sh)].status = "completed"
    BY <1>2, <1>5, ShardIdFacts DEF RunInv, ResultHandledOnce, Active
  <2>. QED  BY <2>1, <2>2, <2>3 DEF RunInv, ResultHandledOnce, Following
<1>9. CompletedWithLastShard'
  <2>1. SUFFICES ASSUME NEW r \in RunIds, run'[r].status \notin {"none", "cancelled"}
                 PROVE  run'[r].status = "completed"
                          <=> \A sh \in ShardsOf(r)' : shard'[sh] = "completed"
    BY DEF CompletedWithLastShard
  <2>2. run[r].status \notin {"none", "cancelled"}
    BY <1>2, <1>5, <2>1 DEF Active
  <2>3. run[r].status = "completed" <=> \A sh \in ShardsOf(r) : shard[sh] = "completed"
    BY <2>2 DEF RunInv, CompletedWithLastShard
  <2>4. ShardsOf(r)' = ShardsOf(r)
    BY <1>1, <1>3 DEF ShardsOf
  <2>5. CASE run[r].status = "completed"
    <3>1. run'[r].status = "completed"
      BY <1>2, <1>5, <2>5 DEF Active
    <3>. QED  BY <1>4, <2>3, <2>4, <2>5, <3>1 DEF ShardsOf
  <2>6. CASE run[r].status # "completed"
    <3>1. PICK sh \in ShardsOf(r) : shard[sh] # "completed"
      BY <2>3, <2>6
    <3>2. shard'[sh] # "completed"
      BY <1>1, <1>3, <3>1 DEF ShardsOf
    <3>3. run'[r].status # "completed"
      BY <1>2, <2>6
    <3>. QED  BY <2>4, <3>1, <3>2, <3>3
  <2>. QED  BY <2>5, <2>6
<1>10. RunningRunKeepsItsTarget'
  BY <1>2 DEF RunInv, RunningRunKeepsItsTarget
<1>. QED  BY <1>7, <1>8, <1>9, <1>10 DEF RunInv

\* Steps of an agent and of the network that leave runs and shards alone.
LEMMA AgentStepPreserves ==
  ASSUME RunInv, TypeOK', UNCHANGED <<target, run, shard>>, NEW a \in Agents, agent[a] # Idle,
         \/ /\ agent' = [agent EXCEPT ![a].stopping = TRUE]
            /\ UNCHANGED report
         \/ /\ agent' = [agent EXCEPT ![a] = Idle]
            /\ report' \in {report, [report EXCEPT ![agent[a].shard] = "posted"]}
  PROVE  RunInv'
<1>1. /\ agent[a].shard \in ShardIds /\ shard[agent[a].shard] = "running"
      /\ run[RunOf(agent[a].shard)].status # "completed"
  BY AgentFacts
<1>2. \A b \in Agents \ {a} : agent'[b] = agent[b]
  BY DEF RunInv, TypeOK
<1>3. \A b \in Agents \ {a} : agent[b] # Idle => agent[b].shard # agent[a].shard
  BY DEF RunInv, ShardExecutedByOneAgent
<1>4. agent'[a] = Idle \/ (agent'[a].shard = agent[a].shard /\ UNCHANGED report)
  <2>1. agent[a] \in [shard : ShardIds, stopping : BOOLEAN] /\ agent \in [Agents -> AgentState]
    BY DEF RunInv, TypeOK, AgentState
  <2>. QED  BY <2>1
<1>5. \A sh \in ShardIds : report'[sh] = report[sh] \/ (sh = agent[a].shard /\ report'[sh] = "posted")
  BY DEF RunInv, TypeOK
<1>6. ShardExecutedByOneAgent'
  <2>1. \A b \in Agents : agent'[b] # Idle =>
          agent[b] # Idle /\ agent'[b].shard = agent[b].shard
    BY <1>2, <1>4
  <2>2. \A b \in Agents : agent'[b] # Idle => report'[agent[b].shard] = "none"
    BY <1>2, <1>3, <1>4, <1>5, <2>1, AgentFacts
  <2>3. \A b, c \in Agents : agent'[b] # Idle /\ agent'[c].shard = agent'[b].shard => b = c
    <3>1. SUFFICES ASSUME NEW b \in Agents, NEW c \in Agents, agent'[b] # Idle,
                          agent'[c].shard = agent'[b].shard
                   PROVE  b = c
      OBVIOUS
    <3>2. agent'[b].shard \in ShardIds
      BY <2>1, <3>1, AgentFacts
    <3>3. agent'[c] # Idle
      BY <3>1, <3>2, ShardIdFacts DEF Idle
    <3>. QED  BY <2>1, <3>1, <3>3 DEF RunInv, ShardExecutedByOneAgent
  <2>. QED  BY <2>1, <2>2, <2>3 DEF RunInv, ShardExecutedByOneAgent
<1>7. ResultHandledOnce'
  BY <1>1, <1>5 DEF RunInv, ResultHandledOnce, Following
<1>8. CompletedWithLastShard' /\ RunningRunKeepsItsTarget'
  BY DEF RunInv, CompletedWithLastShard, ShardsOf, RunningRunKeepsItsTarget
<1>. QED  BY <1>6, <1>7, <1>8 DEF RunInv

\* A handler or the network takes a result one step further.
LEMMA ReportStepPreserves ==
  ASSUME RunInv, TypeOK', UNCHANGED <<target, shard, agent>>, NEW sh \in ShardIds,
         \A r \in RunIds : run'[r].status = run[r].status /\ run'[r].target = run[r].target,
         \/ report' = [report EXCEPT ![sh] = "none"]
         \/ report[sh] = "sample" /\ report' = [report EXCEPT ![sh] = "advance"]
  PROVE  RunInv'
<1>1. \A x \in ShardIds : report'[x] \in {report[x], "none"}
                            \/ (report[x] = "sample" /\ report'[x] = "advance")
  BY DEF RunInv, TypeOK
<1>2. ShardExecutedByOneAgent'
  <2>1. \A a \in Agents : agent[a] # Idle => report'[agent[a].shard] = "none"
    BY <1>1, AgentFacts
  <2>. QED  BY <2>1 DEF RunInv, ShardExecutedByOneAgent
<1>3. ResultHandledOnce'
  BY <1>1, ShardIdFacts DEF RunInv, ResultHandledOnce, Following
<1>4. CompletedWithLastShard' /\ RunningRunKeepsItsTarget'
  BY DEF RunInv, CompletedWithLastShard, ShardsOf, RunningRunKeepsItsTarget
<1>. QED  BY <1>2, <1>3, <1>4 DEF RunInv

\* The run a posted result belongs to is not over for another result's sake.
LEMMA PostedMeansNotCompleted ==
  ASSUME RunInv, NEW sh \in ShardIds, report[sh] = "posted"
  PROVE  /\ shard[sh] = "running"
         /\ run[RunOf(sh)].status \notin {"none", "completed"}
<1>1. shard[sh] = "running" /\ run[RunOf(sh)].status # "none"
  BY DEF RunInv, ResultHandledOnce
<1>2. run[RunOf(sh)].status # "completed"
  BY <1>1, ShardIdFacts DEF RunInv, CompletedWithLastShard, ShardsOf
<1>. QED  BY <1>1, <1>2

LEMMA CompleteShardPreserves ==
  ASSUME RunInv, TypeOK', NEW sh \in ShardIds, CompleteShard(sh)
  PROVE  RunInv'
<1>. DEFINE r == RunOf(sh)
<1>1. /\ report[sh] = "posted" /\ shard[sh] = "running" /\ r \in RunIds
      /\ run[r].status \notin {"none", "completed"}
  BY PostedMeansNotCompleted, ShardIdFacts DEF CompleteShard
<1>2. /\ shard'[sh] = "completed"
      /\ \A x \in ShardIds \ {sh} : shard'[x] = shard[x]
      /\ UNCHANGED <<target, agent>>
  BY DEF CompleteShard, RunInv, TypeOK
<1>3. \A x \in ShardIds \ {sh} : report'[x] = report[x]
  BY DEF CompleteShard, RunInv, TypeOK
<1>4. /\ \A q \in RunIds \ {r} : run'[q] = run[q]
      /\ run'[r].target = run[r].target
  BY <1>1 DEF CompleteShard, RunInv, TypeOK, Run
<1>5. \/ /\ run[r].status = "cancelled" \/ OthersOutstanding(sh)
         /\ UNCHANGED run /\ report'[sh] = "none"
      \/ /\ run[r].status # "cancelled" /\ ~OthersOutstanding(sh)
         /\ run'[r].status = "completed" /\ report'[sh] = "sample"
  BY <1>1 DEF CompleteShard, RunInv, TypeOK, Run
<1>6. \A q \in RunIds : ShardsOf(q)' = ShardsOf(q)
  BY <1>1, <1>2 DEF ShardsOf
<1>7. ShardExecutedByOneAgent'
  <2>1. \A a \in Agents : agent[a] # Idle => agent[a].shard # sh
    BY <1>1, AgentFacts
  <2>2. \A a \in Agents : agent[a] # Idle =>
          shard'[agent[a].shard] = "running" /\ report'[agent[a].shard] = "none"
    BY <1>2, <1>3, <2>1, AgentFacts
  <2>. QED  BY <1>2, <2>2 DEF RunInv, ShardExecutedByOneAgent
<1>8. ResultHandledOnce'
  <2>1. \A x \in ShardIds : Following(x) => RunOf(x) # r
    BY <1>1 DEF RunInv, ResultHandledOnce
  <2>2. \A x \in ShardIds : /\ shard'[x] # "none" => run'[RunOf(x)].status # "none"
                            /\ report'[x] = "posted" => shard'[x] = "running"
    BY <1>1, <1>2, <1>3, <1>4, <1>5, ShardIdFacts DEF RunInv, ResultHandledOnce
  <2>3. \A x \in ShardIds : Following(x)' => run'[RunOf(x)].status = "completed"
    BY <1>3, <1>4, <1>5, <2>1, ShardIdFacts DEF RunInv, ResultHandledOnce, Following
  <2>4. \A x, y \in ShardIds : Following(x)' /\ Following(y)' /\ RunOf(x) = RunOf(y) => x = y
    BY <1>3, <1>5, <2>1 DEF RunInv, ResultHandledOnce, Following
  <2>. QED  BY <2>2, <2>3, <2>4 DEF ResultHandledOnce
<1>9. CompletedWithLastShard'
  <2>1. \A q \in RunIds \ {r} : \A x \in ShardsOf(q) : shard'[x] = shard[x]
    BY <1>2 DEF ShardsOf
  <2>2. (\A x \in ShardsOf(r) : shard'[x] = "completed") <=> ~OthersOutstanding(sh)
    BY <1>1, <1>2 DEF OthersOutstanding, ShardsOf
  <2>3. run'[r].status \notin {"none", "cancelled"} =>
          (run'[r].status = "completed" <=> \A x \in ShardsOf(r) : shard'[x] = "completed")
    BY <1>1, <1>5, <2>2
  <2>. QED  BY <1>4, <1>6, <2>1, <2>3 DEF RunInv, CompletedWithLastShard
<1>10. RunningRunKeepsItsTarget'
  BY <1>2, <1>4, <1>5 DEF RunInv, RunningRunKeepsItsTarget
<1>. QED  BY <1>7, <1>8, <1>9, <1>10 DEF RunInv

-----------------------------------------------------------------------------
(***************************************************************************)
(* The invariant, and the properties of RunStore that follow from it.      *)
(***************************************************************************)
LEMMA InitInv == Init => RunInv
<1>. SUFFICES ASSUME Init PROVE RunInv
  OBVIOUS
<1>1. TypeOK
  BY InitType
<1>2. ShardExecutedByOneAgent
  BY DEF Init, ShardExecutedByOneAgent
<1>3. ResultHandledOnce
  BY DEF Init, ResultHandledOnce, Following
<1>4. CompletedWithLastShard /\ RunningRunKeepsItsTarget
  BY DEF Init, CompletedWithLastShard, RunningRunKeepsItsTarget, NewRun
<1>. QED  BY <1>1, <1>2, <1>3, <1>4 DEF RunInv

LEMMA AdvanceSearchPreserves ==
  ASSUME RunInv, TypeOK', NEW sh \in ShardIds, AdvanceSearch(sh)
  PROVE  RunInv'
<1>. DEFINE r    == RunOf(sh)
            s    == run[r].search
            next == Advance(search[s], [run |-> r, load |-> run[r].load,
                                        stable |-> run[r].stable])
<1>1. /\ report' = [report EXCEPT ![sh] = "none"]
      /\ UNCHANGED <<target, agent>>
  BY DEF AdvanceSearch
<1>2. CASE UNCHANGED <<run, shard>>
  BY <1>1, <1>2, ReportStepPreserves
<1>3. ASSUME WantsAdvance(r),
             NEW q \in RunIds,
             QueueRun(q, search[s].target, search[s].shards, s, next.nextLoad)
      PROVE  RunInv'
  <2>1. r \in RunIds /\ run[r] \in Run
    BY ShardIdFacts DEF RunInv, TypeOK
  <2>2. s \in SearchForms
    BY <1>3, <2>1 DEF WantsAdvance, Run
  <2>3. search[s] \in Search
    BY <2>2 DEF RunInv, TypeOK
  <2>4. [run |-> r, load |-> run[r].load, stable |-> run[r].stable] \in Step
    BY <2>1 DEF Run, Step
  <2>5. next \in Search
    BY <2>3, <2>4, AdvanceType
  <2>6. /\ search[s].target \in Targets \cup {None} /\ search[s].shards \in 1 .. MaxShards
        /\ next.nextLoad \in Load
    <3>. HIDE DEF next
    <3>. QED  BY <2>3, <2>5 DEF Search
  <2>7. \A x \in ShardIds : report'[x] \in {report[x], "none"}
    BY <1>1 DEF RunInv, TypeOK
  <2>. HIDE DEF next, s
  <2>. QED  BY <1>1, <1>3, <2>2, <2>6, <2>7, QueueRunPreserves
<1>. QED  BY <1>2, <1>3 DEF AdvanceSearch

LEMMA NextInv == RunInv /\ [Next]_vars => RunInv'
<1>. SUFFICES ASSUME RunInv, [Next]_vars PROVE RunInv'
  OBVIOUS
<1>. USE DEF handlers
<1>0. TypeOK /\ TypeOK'
  BY NextType DEF RunInv
<1>1. ASSUME NEW t \in Targets, CreateTarget(t) PROVE RunInv'
  <2>1. \A r \in RunIds : run[r].status = "running" => target[run[r].target] = "registered"
    BY DEF RunInv, RunningRunKeepsItsTarget
  <2>2. \A r \in RunIds : run[r].status = "running" =>
          target'[run[r].target] = target[run[r].target]
    BY <1>1, <2>1 DEF CreateTarget, RunInv, TypeOK
  <2>. QED  BY <1>0, <1>1, <2>2, FramePreserves DEF CreateTarget
<1>2. ASSUME NEW t \in Targets, DeleteTarget(t) PROVE RunInv'
  <2>1. \A r \in RunIds : run[r].status = "running" => run[r].target # t
    BY <1>2 DEF DeleteTarget, InUse, Active
  <2>2. \A r \in RunIds : run[r].status = "running" =>
          target'[run[r].target] = target[run[r].target]
    BY <1>2, <2>1 DEF DeleteTarget, RunInv, TypeOK
  <2>. QED  BY <1>0, <1>2, <2>2, FramePreserves DEF DeleteTarget
<1>3. ASSUME NEW f \in Forms, NEW t \in Targets, NEW n \in 1 .. MaxShards, CheckForm(f, t, n)
      PROVE  RunInv'
  BY <1>0, <1>3, FramePreserves DEF CheckForm
<1>4. ASSUME NEW f \in RunForms, CreateRun(f) PROVE RunInv'
  <2>1. form[f] \in Form /\ 0 \in Load
    BY <1>0, RunStoreAssumption DEF TypeOK, Forms, Load
  <2>2. form[f].target \in Targets \cup {None} /\ form[f].shards \in 1 .. MaxShards
    BY <2>1 DEF Form
  <2>. QED  BY <1>0, <1>4, <2>1, <2>2, QueueRunPreserves DEF CreateRun
<1>5. ASSUME NEW f \in RunForms, SampleNewRun(f) PROVE RunInv'
  BY <1>0, <1>5, MonitoredKeepsRuns, FramePreserves DEF SampleNewRun
<1>6. ASSUME NEW f \in SearchForms, CreateSearch(f) PROVE RunInv'
  <2>1. form[f] \in Form /\ StartLoad \in Load
    BY <1>0, RunStoreAssumption DEF TypeOK, Forms, Load
  <2>2. form[f].target \in Targets \cup {None} /\ form[f].shards \in 1 .. MaxShards
    BY <2>1 DEF Form
  <2>. QED  BY <1>0, <1>6, <2>1, <2>2, QueueRunPreserves DEF CreateSearch
<1>7. ASSUME NEW r \in RunIds, CancelRun(r) PROVE RunInv'
  BY <1>0, <1>7, CancelRunsPreserves DEF CancelRun
<1>8. ASSUME NEW s \in SearchForms, CancelSearch(s) PROVE RunInv'
  BY <1>0, <1>8, CancelRunsPreserves DEF CancelSearch
<1>9. ASSUME NEW a \in Agents, ClaimRun(a) PROVE RunInv'
  <2>1. PICK sh \in Claimable, dropped \in SUBSET Dead :
          /\ shard' = ShardsAfterClaim({sh}, dropped)
          /\ run' = RunsAfterClaim({sh}, dropped)
          /\ agent' = [agent EXCEPT ![a] = [shard |-> sh, stopping |-> FALSE]]
    BY <1>9 DEF ClaimRun
  <2>2. {sh} \in SUBSET Claimable
    BY <2>1
  <2>3. \E x \in {sh} : agent' = [agent EXCEPT ![a] = [shard |-> x, stopping |-> FALSE]]
    BY <2>1
  <2>. QED  BY <1>0, <1>9, <2>1, <2>2, <2>3, ClaimPreserves DEF ClaimRun
<1>10. ASSUME NEW a \in Agents, ClaimNothing(a) PROVE RunInv'
  BY <1>0, <1>10, ClaimPreserves DEF ClaimNothing
<1>11. ASSUME NEW a \in Agents, ObserveCancellation(a) PROVE RunInv'
  BY <1>0, <1>11, AgentStepPreserves DEF ObserveCancellation
<1>12. ASSUME NEW a \in Agents, FinishLoad(a) PROVE RunInv'
  BY <1>0, <1>12, AgentStepPreserves DEF FinishLoad
<1>13. ASSUME NEW a \in Agents, AgentCrash(a) PROVE RunInv'
  BY <1>0, <1>13, AgentStepPreserves DEF AgentCrash
<1>14. ASSUME NEW a \in Agents, Publish(a) PROVE RunInv'
  BY <1>0, <1>14, FramePreserves DEF Publish
<1>15. ASSUME NEW sh \in ShardIds, LoseReport(sh) PROVE RunInv'
  BY <1>0, <1>15, ReportStepPreserves DEF LoseReport
<1>16. ASSUME NEW sh \in ShardIds, SetShardProgress(sh) PROVE RunInv'
  BY <1>0, <1>16, FramePreserves DEF SetShardProgress
<1>17. ASSUME NEW sh \in ShardIds, LoseProgress(sh) PROVE RunInv'
  BY <1>0, <1>17, FramePreserves DEF LoseProgress
<1>18. ASSUME NEW sh \in ShardIds, CompleteShard(sh) PROVE RunInv'
  BY <1>0, <1>18, CompleteShardPreserves
<1>19. ASSUME NEW sh \in ShardIds, SampleCompletedRun(sh) PROVE RunInv'
  BY <1>0, <1>19, MonitoredKeepsRuns, ReportStepPreserves DEF SampleCompletedRun
<1>20. ASSUME NEW sh \in ShardIds, AdvanceSearch(sh) PROVE RunInv'
  BY <1>0, <1>20, AdvanceSearchPreserves
<1>21. ASSUME SamplerTick PROVE RunInv'
  BY <1>0, <1>21, FramePreserves DEF SamplerTick
<1>22. ASSUME NEW r \in RunIds, SamplerAttach(r) PROVE RunInv'
  BY <1>0, <1>22, MonitoredKeepsRuns, FramePreserves DEF SamplerAttach
<1>23. CASE UNCHANGED vars
  BY <1>0, <1>23, FramePreserves DEF vars
<1>. QED
  BY <1>1, <1>2, <1>3, <1>4, <1>5, <1>6, <1>7, <1>8, <1>9, <1>10, <1>11, <1>12, <1>13, <1>14,
     <1>15, <1>16, <1>17, <1>18, <1>19, <1>20, <1>21, <1>22, <1>23 DEF Next

\* RunInv holds in every reachable state.
THEOREM Safety == Spec => []RunInv
BY InitInv, NextInv, PTL DEF Spec

(***************************************************************************)
(* However many agents poll, a shard is executed by one of them at a time. *)
(***************************************************************************)
THEOREM ShardsAreExecutedOnce == Spec => []ShardExecutedByOneAgent
<1>1. RunInv => ShardExecutedByOneAgent
  BY DEF RunInv
<1>. QED  BY Safety, <1>1, PTL

(***************************************************************************)
(* completeShard goes on to advance a search once per run, whatever the    *)
(* number of shards and agents.                                            *)
(***************************************************************************)
THEOREM ResultsAreHandledOnce == Spec => []ResultHandledOnce
<1>1. RunInv => ResultHandledOnce
  BY DEF RunInv
<1>. QED  BY Safety, <1>1, PTL

(***************************************************************************)
(* A run that was not cancelled is completed iff all its shards are.       *)
(***************************************************************************)
THEOREM RunsCompleteWithTheirShards == Spec => []CompletedWithLastShard
<1>1. RunInv => CompletedWithLastShard
  BY DEF RunInv
<1>. QED  BY Safety, <1>1, PTL

(***************************************************************************)
(* DeleteTarget and ClaimRun between them never leave agents executing a   *)
(* run whose target is gone, despite createRun's unlocked check.           *)
(***************************************************************************)
THEOREM TargetsOutliveTheirRuns == Spec => []RunningRunKeepsItsTarget
<1>1. RunInv => RunningRunKeepsItsTarget
  BY DEF RunInv
<1>. QED  BY Safety, <1>1, PTL

-----------------------------------------------------------------------------
(***************************************************************************)
(* Action properties.                                                      *)
(***************************************************************************)
\* Nothing touches a run that is completed or cancelled, except that its
\* monitoring series may still grow.
LEMMA EndedRunsAreFinal ==
  ASSUME RunInv, [Next]_vars, NEW r \in RunIds, Ended(r)
  PROVE  run'[r].status = run[r].status /\ run'[r].stable = run[r].stable
<1>. USE DEF handlers
<1>0. TypeOK /\ run[r].status \in {"completed", "cancelled"} /\ ~Active(r)
  BY DEF RunInv, Ended, Active
<1>1. CASE UNCHANGED run
  BY <1>1
<1>2. ASSUME NEW q, run' = Monitored(q)
      PROVE  run'[r].status = run[r].status /\ run'[r].stable = run[r].stable
  BY <1>0, <1>2, MonitoredKeepsRuns
<1>3. ASSUME NEW q \in RunIds, NEW t, NEW n, NEW s, NEW load, QueueRun(q, t, n, s, load)
      PROVE  run'[r] = run[r]
  <2>1. run[q].status = "none"
    BY <1>3 DEF QueueRun, FreshRun
  <2>. QED  BY <1>0, <1>3, <2>1 DEF QueueRun, TypeOK
<1>4. ASSUME NEW R, CancelRuns(R) PROVE run'[r] = run[r]
  BY <1>0, <1>4, CancelRunsEffect
<1>5. ASSUME NEW a \in Agents, ClaimRun(a) PROVE run'[r] = run[r]
  <2>1. PICK sh \in Claimable, dropped \in SUBSET Dead : run' = RunsAfterClaim({sh}, dropped)
    BY <1>5 DEF ClaimRun
  <2>2. Active(RunOf(sh))
    BY DEF Claimable
  <2>. QED  BY <1>0, <2>1, <2>2 DEF RunsAfterClaim
<1>6. ASSUME NEW a \in Agents, ClaimNothing(a) PROVE run'[r] = run[r]
  BY <1>0, <1>6 DEF ClaimNothing, RunsAfterClaim
<1>7. ASSUME NEW sh \in ShardIds, CompleteShard(sh) PROVE run'[r] = run[r]
  <2>1. run[RunOf(sh)].status # "completed"
    BY <1>7, PostedMeansNotCompleted DEF CompleteShard
  <2>2. UNCHANGED run \/ run[RunOf(sh)].status # "cancelled"
    BY <1>7 DEF CompleteShard
  <2>3. UNCHANGED run \/ \E stable \in BOOLEAN :
          run' = [run EXCEPT ![RunOf(sh)].status = "completed", ![RunOf(sh)].stable = stable]
    BY <1>7 DEF CompleteShard
  <2>4. CASE RunOf(sh) = r
    BY <1>0, <2>1, <2>2, <2>4
  <2>5. CASE RunOf(sh) # r
    BY <1>0, <2>3, <2>5 DEF TypeOK
  <2>. QED  BY <2>4, <2>5
<1>8. ASSUME NEW sh \in ShardIds, AdvanceSearch(sh) PROVE run'[r] = run[r]
  BY <1>3, <1>8 DEF AdvanceSearch
<1>. QED
  BY <1>1, <1>2, <1>3, <1>4, <1>5, <1>6, <1>7, <1>8, ZenonT(60)
  DEF Next, vars, CreateTarget, DeleteTarget, CheckForm, CreateRun, SampleNewRun, CreateSearch,
      CancelRun, CancelSearch, ObserveCancellation, FinishLoad, AgentCrash, LoseReport, Publish,
      SetShardProgress, LoseProgress, SampleCompletedRun, SamplerTick, SamplerAttach

(***************************************************************************)
(* No late result, claim or cancellation changes the outcome of a run that *)
(* is over.                                                                *)
(***************************************************************************)
THEOREM EndedRunsNeverChange == Spec => EndedRunsStayEnded
<1>1. RunInv /\ [Next]_vars =>
        [\A r \in RunIds : Ended(r) =>
           run'[r].status = run[r].status /\ run'[r].stable = run[r].stable]_vars
  BY EndedRunsAreFinal
<1>. QED  BY Safety, <1>1, PTL DEF Spec, EndedRunsStayEnded

\* Only ClaimRun gives an agent work, and only claimable work.
LEMMA ClaimedWorkIsWanted ==
  ASSUME RunInv, [Next]_vars, NEW a \in Agents, agent[a] = Idle, agent'[a] # Idle
  PROVE  LET r == RunOf(agent'[a].shard)
         IN  /\ Active(r)
             /\ run'[r].status = "running"
             /\ target[run[r].target] = "registered"
<1>. USE DEF handlers
<1>1. PICK b \in Agents : ClaimRun(b)
  <2>1. agent' # agent
    OBVIOUS
  <2>2. ~\E b \in Agents : \/ ObserveCancellation(b) \/ FinishLoad(b) \/ AgentCrash(b)
    BY DEF RunInv, TypeOK, ObserveCancellation, FinishLoad, AgentCrash
  <2>. QED
    BY <2>1, <2>2, ZenonT(60)
    DEF Next, vars, CreateTarget, DeleteTarget, CheckForm, CreateRun, SampleNewRun, CreateSearch,
        CancelRun, CancelSearch, ClaimNothing, LoseReport, Publish, SetShardProgress,
        LoseProgress, CompleteShard, SampleCompletedRun, AdvanceSearch, SamplerTick, SamplerAttach
<1>2. PICK sh \in Claimable, dropped \in SUBSET Dead :
        /\ shard' = ShardsAfterClaim({sh}, dropped)
        /\ run' = RunsAfterClaim({sh}, dropped)
        /\ agent' = [agent EXCEPT ![b] = [shard |-> sh, stopping |-> FALSE]]
  BY <1>1 DEF ClaimRun
<1>3. agent'[a].shard = sh
  BY <1>2 DEF RunInv, TypeOK
<1>4. Active(RunOf(sh)) /\ target[run[RunOf(sh)].target] = "registered"
  BY DEF Claimable
<1>5. run'[RunOf(sh)].status = "running"
  <2>. DEFINE taken == {sh}
  <2>1. taken \in SUBSET Claimable /\ TypeOK
    BY DEF RunInv
  <2>2. shard' = ShardsAfterClaim(taken, dropped) /\ run' = RunsAfterClaim(taken, dropped)
    BY <1>2
  <2>3. sh \in taken
    OBVIOUS
  <2>. HIDE DEF taken
  <2>. QED  BY <2>1, <2>2, <2>3, ClaimEffect
<1>. QED  BY <1>3, <1>4, <1>5

(***************************************************************************)
(* An agent only gets work of a run that is wanted and has its target.     *)
(***************************************************************************)
THEOREM AgentsGetWantedWork == Spec => NoWorkForEndedRun
<1>1. RunInv /\ [Next]_vars =>
        [\A a \in Agents : (agent[a] = Idle /\ agent'[a] # Idle) =>
           LET r == RunOf(agent'[a].shard)
           IN  /\ Active(r)
               /\ run'[r].status = "running"
               /\ target[run[r].target] = "registered"]_vars
  BY ClaimedWorkIsWanted
<1>. QED  BY Safety, <1>1, PTL DEF Spec, NoWorkForEndedRun

-----------------------------------------------------------------------------
(***************************************************************************)
(* The searches of the run store, proved for any number of them and of     *)
(* everything else: one active rung at a time, no rung lost between the    *)
(* handler that completes its run and the one that advances the search,    *)
(* and a curve that is the runs the search made.  The inductive invariant  *)
(* is SearchInv.                                                           *)
(*                                                                         *)
(* Its conjuncts need one another like this.  AdvanceSearch appends a rung *)
(* without looking at the earlier ones: that none of them is active        *)
(* follows because the handler's own run is the latest (LatestRungIsOpen), *)
(* it is completed (ResultHandledOnce) and the others were not active      *)
(* before (OneActiveRung).  The handler's run is the latest because it was *)
(* active when its last shard came in, and only the latest can be active.  *)
(***************************************************************************)

(***************************************************************************)
(* What AdvanceSearch of search.go does to a running search: it records    *)
(* the step and either completes the search or names a next rung.          *)
(***************************************************************************)
LEMMA AdvanceOutcome ==
  ASSUME NEW s \in Search, NEW step \in Step, s.status = "running"
  PROVE  LET next == Advance(s, step)
         IN  /\ next.steps = Append(s.steps, step)
             /\ next.runs = s.runs
             /\ \/ next.nextLoad = 0 /\ next.status = "completed"
                \/ next.nextLoad # 0 /\ next.status = "running"
<1>. DEFINE recorded == Recorded(s, step)
            above    == RungsAbove(s, step.load)
<1>1. /\ recorded.steps = Append(s.steps, step)
      /\ recorded.runs = s.runs
      /\ recorded.status = "running"
      /\ {"status", "steps", "runs", "nextLoad", "recommended", "provision"} \subseteq DOMAIN recorded
  BY DEF Recorded, Search
<1>2. above # {} => Min(above) # 0
  <2>1. s.start = StartLoad /\ s.max = MaxLoad
    BY DEF Search
  <2>2. SweepLadder(s.start, s.max) \subseteq StartLoad .. MaxLoad
    BY <2>1, SweepLadderBounds, RunStoreAssumption
  <2>3. above \subseteq Nat /\ 0 \notin above
    BY <2>2, RunStoreAssumption DEF RungsAbove
  <2>. HIDE DEF above
  <2>. QED  BY <2>3, MinOfNats
<1>3. Advance(s, step) = IF ShouldStop(recorded, step) \/ above = {}
                           THEN FinishSearch(recorded)
                           ELSE [recorded EXCEPT !.nextLoad = Min(above)]
  BY DEF Advance
<1>4. /\ FinishSearch(recorded).steps = recorded.steps
      /\ FinishSearch(recorded).runs = recorded.runs
      /\ FinishSearch(recorded).nextLoad = 0
      /\ FinishSearch(recorded).status = "completed"
  <2>. HIDE DEF recorded
  <2>. QED  BY <1>1 DEF FinishSearch
<1>5. /\ [recorded EXCEPT !.nextLoad = Min(above)].steps = recorded.steps
      /\ [recorded EXCEPT !.nextLoad = Min(above)].runs = recorded.runs
      /\ [recorded EXCEPT !.nextLoad = Min(above)].status = recorded.status
      /\ [recorded EXCEPT !.nextLoad = Min(above)].nextLoad = Min(above)
  <2>. HIDE DEF recorded, above
  <2>. QED  BY <1>1
<1>. HIDE DEF recorded, above
<1>. QED  BY <1>1, <1>2, <1>3, <1>4, <1>5

-----------------------------------------------------------------------------
(***************************************************************************)
(* What most steps do to a run: it stays with its search, a run that is    *)
(* over is left alone, and an active one does not vanish.                  *)
(***************************************************************************)
RunGoesOn(r) ==
  /\ run'[r].search = run[r].search
  /\ run'[r].status = "none" => run[r].status = "none"
  /\ Ended(r) => /\ run'[r].status = run[r].status
                 /\ run'[r].stable = run[r].stable
                 /\ run'[r].load = run[r].load
  /\ Active(r) => run'[r].status \in {"queued", "running", "cancelled"}

LEMMA MonitoredGoesOn ==
  ASSUME TypeOK, NEW q, run' = Monitored(q)
  PROVE  \A r \in RunIds : RunGoesOn(r)
<1>1. \A r \in RunIds : run[r] \in Run
  BY DEF TypeOK
<1>2. \A r \in RunIds : /\ run'[r].status = run[r].status
                        /\ run'[r].stable = run[r].stable
                        /\ run'[r].search = run[r].search
                        /\ run'[r].load = run[r].load
  BY <1>1 DEF TypeOK, Monitored, Run
<1>. QED  BY <1>2 DEF RunGoesOn, Active

LEMMA CancelRunsGoesOn ==
  ASSUME TypeOK, NEW R, CancelRuns(R)
  PROVE  \A r \in RunIds : RunGoesOn(r) /\ (r \in R => ~Active(r)')
<1>. TAKE r \in RunIds
<1>1. run[r] \in Run
  BY DEF TypeOK
<1>2. run'[r] = IF r \in R /\ Cancellable(r) THEN [run[r] EXCEPT !.status = "cancelled"] ELSE run[r]
  BY DEF CancelRuns
<1>3. CASE r \in R /\ Cancellable(r)
  BY <1>1, <1>2, <1>3 DEF RunGoesOn, Cancellable, Active, Ended, Run
<1>4. CASE ~(r \in R /\ Cancellable(r))
  BY <1>1, <1>2, <1>4 DEF RunGoesOn, Cancellable, Active, Ended
<1>. QED  BY <1>3, <1>4

LEMMA ClaimGoesOn ==
  ASSUME TypeOK, NEW taken \in SUBSET Claimable, NEW dropped,
         run' = RunsAfterClaim(taken, dropped)
  PROVE  \A r \in RunIds : RunGoesOn(r)
<1>. TAKE r \in RunIds
<1>1. run[r] \in Run
  BY DEF TypeOK
<1>2. \/ run'[r] = run[r]
      \/ Active(r) /\ run'[r] = [run[r] EXCEPT !.status = "cancelled"]
      \/ Active(r) /\ run'[r] = [run[r] EXCEPT !.status = "running"]
  BY DEF RunsAfterClaim, Claimable
<1>. QED  BY <1>1, <1>2 DEF RunGoesOn, Active, Ended, Run

\* The records that go with a search.
LEMMA SearchFacts ==
  ASSUME TypeOK, NEW s \in SearchForms
  PROVE  /\ search[s] \in Search
         /\ search[s].runs \in Seq(RunIds) /\ search[s].steps \in Seq(Step)
         /\ Len(search[s].runs) \in Nat /\ Len(search[s].steps) \in Nat
         /\ DOMAIN search[s].runs = 1 .. Len(search[s].runs)
         /\ DOMAIN search[s].steps = 1 .. Len(search[s].steps)
         /\ \A i \in DOMAIN search[s].runs : search[s].runs[i] \in RunIds
<1>1. search[s] \in Search
  BY DEF TypeOK
<1>2. search[s].runs \in Seq(RunIds) /\ search[s].steps \in Seq(Step)
  BY <1>1 DEF Search
<1>. QED  BY <1>1, <1>2

\* The runs a search lists are its own, and exist.
LEMMA ListedRunFacts ==
  ASSUME SearchInv, NEW s \in SearchForms, NEW i \in DOMAIN search[s].runs
  PROVE  /\ search[s].runs[i] \in RunIds
         /\ run[search[s].runs[i]].search = s
         /\ run[search[s].runs[i]].status # "none"
<1>1. search[s].runs[i] \in RunIds
  BY SearchFacts DEF SearchInv, RunInv
<1>2. run[search[s].runs[i]].search = s
  BY <1>1 DEF SearchInv, StepsMatchRuns
<1>. QED  BY <1>1, <1>2, ShardIdFacts DEF SearchInv, RungsAreDistinct

\* A search that has a run has a latest one.
LEMMA LatestRunFacts ==
  ASSUME SearchInv, NEW s \in SearchForms, search[s].status # "none"
  PROVE  /\ Len(search[s].runs) \in DOMAIN search[s].runs
         /\ LatestRun(s) \in RunIds
         /\ run[LatestRun(s)].search = s
         /\ run[LatestRun(s)].status # "none"
<1>1. TypeOK /\ search[s].runs # << >>
  BY DEF SearchInv, RunInv, PlannedByItsForm
<1>2. Len(search[s].runs) \in DOMAIN search[s].runs
  BY <1>1, SearchFacts
<1>. QED  BY <1>2, ListedRunFacts DEF LatestRun

-----------------------------------------------------------------------------
(***************************************************************************)
(* SearchInv is preserved by each kind of step.                            *)
(***************************************************************************)
\* Every step that makes no run and moves no handler to or from the point
\* where it advances a search; CancelSearch is one of them.
LEMMA GoesOnPreserves ==
  ASSUME SearchInv, RunInv',
         \A s \in SearchForms :
           /\ search'[s].runs = search[s].runs /\ search'[s].steps = search[s].steps
           /\ \/ search'[s].status = search[s].status
              \/ /\ search[s].status # "none" /\ search'[s].status = "cancelled"
                 /\ \A i \in DOMAIN search[s].runs : ~Active(search[s].runs[i])',
         \A s \in SearchForms : form'[s].stage \in {"new", "checked"} =>
                                  form[s].stage \in {"new", "checked"},
         \A r \in RunIds : RunGoesOn(r),
         \A sh \in ShardIds : Following(sh) <=> Following(sh)',
         \A sh \in ShardIds : shard[sh] # "none" => shard'[sh] # "none"
  PROVE  SearchInv'
<1>0. TypeOK
  BY DEF SearchInv, RunInv
<1>1. PlannedByItsForm'
  BY DEF SearchInv, PlannedByItsForm
<1>2. RungsAreDistinct'
  BY DEF SearchInv, RungsAreDistinct, RunGoesOn
<1>3. LatestRungIsOpen'
  <2>. SUFFICES ASSUME NEW s \in SearchForms, search'[s].status = "running"
                PROVE  /\ Len(search'[s].steps) = Len(search'[s].runs) - 1
                       /\ \A sh \in ShardIds :
                            Following(sh)' /\ run'[RunOf(sh)].search = s => RunOf(sh) = LatestRun(s)'
    BY DEF LatestRungIsOpen
  <2>1. search[s].status = "running" /\ LatestRun(s)' = LatestRun(s)
    BY DEF LatestRun
  <2>2. \A sh \in ShardIds : run'[RunOf(sh)].search = run[RunOf(sh)].search
    BY ShardIdFacts DEF RunGoesOn
  <2>. QED  BY <2>1, <2>2 DEF SearchInv, LatestRungIsOpen
<1>4. OneActiveRung'
  <2>. SUFFICES ASSUME NEW s \in SearchForms, NEW i \in DOMAIN search'[s].runs,
                       run'[search'[s].runs[i]].status \in {"queued", "running"}
                PROVE  search'[s].status = "running" /\ i = Len(search'[s].runs)
    BY DEF OneActiveRung, Active
  <2>1. i \in DOMAIN search[s].runs /\ search'[s].runs[i] = search[s].runs[i]
    OBVIOUS
  <2>2. search[s].runs[i] \in RunIds /\ run[search[s].runs[i]].status # "none"
    BY <2>1, ListedRunFacts
  <2>3. run[search[s].runs[i]].status \in RunStatus
    BY <1>0, <2>2 DEF TypeOK, Run
  <2>4. Active(search[s].runs[i])
    BY <2>1, <2>2, <2>3 DEF RunGoesOn, Active, Ended, RunStatus
  <2>5. search[s].status = "running" /\ i = Len(search[s].runs)
    BY <2>1, <2>4 DEF SearchInv, OneActiveRung
  <2>6. Active(search[s].runs[i])'
    BY <2>1 DEF Active
  <2>. QED  BY <2>1, <2>5, <2>6
<1>5. NoRungLost'
  <2>. SUFFICES ASSUME NEW s \in SearchForms, search'[s].status = "running"
                PROVE  \/ Active(LatestRun(s))'
                       \/ run'[LatestRun(s)'].status = "cancelled"
                       \/ \E sh \in ShardsOf(LatestRun(s))' : report'[sh] \in {"sample", "advance"}
    BY DEF NoRungLost
  <2>1. search[s].status = "running" /\ LatestRun(s)' = LatestRun(s)
    BY DEF LatestRun
  <2>2. LatestRun(s) \in RunIds
    BY <2>1, LatestRunFacts
  <2>3. CASE Active(LatestRun(s))
    BY <2>1, <2>2, <2>3 DEF RunGoesOn, Active
  <2>4. CASE run[LatestRun(s)].status = "cancelled"
    BY <2>1, <2>2, <2>4 DEF RunGoesOn, Ended
  <2>5. CASE \E sh \in ShardsOf(LatestRun(s)) : report[sh] \in {"sample", "advance"}
    BY <2>1, <2>5 DEF ShardsOf, Following
  <2>. QED  BY <2>1, <2>3, <2>4, <2>5 DEF SearchInv, NoRungLost
<1>6. StepsMatchRuns'
  <2>. SUFFICES ASSUME NEW s \in SearchForms
                PROVE  LET runs  == search'[s].runs
                           steps == search'[s].steps
                       IN  /\ {r \in RunIds : run'[r].search = s} = {runs[i] : i \in DOMAIN runs}
                           /\ Len(steps) \in {Len(runs) - 1, Len(runs)}
                              \/ search'[s].status = "none"
                           /\ \A i \in DOMAIN steps :
                                /\ steps[i].run = runs[i]
                                /\ run'[runs[i]].status = "completed"
                                /\ steps[i].load = run'[runs[i]].load
                                /\ steps[i].stable = run'[runs[i]].stable
    BY DEF StepsMatchRuns
  <2>1. {r \in RunIds : run'[r].search = s} = {r \in RunIds : run[r].search = s}
    BY DEF RunGoesOn
  <2>2. \A i \in DOMAIN search[s].steps :
          /\ search[s].steps[i].run = search[s].runs[i]
          /\ search[s].runs[i] \in RunIds
          /\ run[search[s].runs[i]].status = "completed"
          /\ search[s].steps[i].load = run[search[s].runs[i]].load
          /\ search[s].steps[i].stable = run[search[s].runs[i]].stable
    <3>1. search[s].steps \in Seq(Step)
      BY <1>0, SearchFacts
    <3>2. \A i \in DOMAIN search[s].steps : search[s].steps[i] \in Step
      BY <3>1
    <3>3. \A i \in DOMAIN search[s].steps : search[s].steps[i].run \in RunIds
      BY <3>2 DEF Step
    <3>. QED  BY <3>3 DEF SearchInv, StepsMatchRuns
  <2>3. \A r \in RunIds : run[r].status = "completed" =>
          run'[r].status = "completed" /\ run'[r].load = run[r].load /\ run'[r].stable = run[r].stable
    BY DEF RunGoesOn, Ended
  <2>4. {r \in RunIds : run[r].search = s} = {search[s].runs[i] : i \in DOMAIN search[s].runs}
    BY DEF SearchInv, StepsMatchRuns
  <2>5. Len(search[s].steps) \in {Len(search[s].runs) - 1, Len(search[s].runs)} \/ search[s].status = "none"
    BY DEF SearchInv, StepsMatchRuns
  <2>6. /\ search'[s].runs = search[s].runs /\ search'[s].steps = search[s].steps
        /\ search'[s].status = "none" <=> search[s].status = "none"
    OBVIOUS
  <2>7. \A i \in DOMAIN search[s].steps :
          /\ search[s].steps[i].run = search[s].runs[i]
          /\ run'[search[s].runs[i]].status = "completed"
          /\ search[s].steps[i].load = run'[search[s].runs[i]].load
          /\ search[s].steps[i].stable = run'[search[s].runs[i]].stable
    BY <2>2, <2>3
  <2>. QED  BY <2>1, <2>4, <2>5, <2>6, <2>7
<1>. QED  BY <1>1, <1>2, <1>3, <1>4, <1>5, <1>6 DEF SearchInv

\* CompleteShard with the last shard: the run of a running search it
\* completes was active, so it is the latest, and its handler follows.
LEMMA LastShardPreserves ==
  ASSUME SearchInv, RunInv', NEW sh \in ShardIds, CompleteShard(sh),
         run[RunOf(sh)].status # "cancelled", ~OthersOutstanding(sh)
  PROVE  SearchInv'
<1>. DEFINE r == RunOf(sh)
<1>0. TypeOK /\ RunInv /\ r \in RunIds
  BY ShardIdFacts DEF SearchInv, RunInv
<1>1. PICK stable \in BOOLEAN :
        run' = [run EXCEPT ![r].status = "completed", ![r].stable = stable]
  BY DEF CompleteShard
<1>2. /\ UNCHANGED <<search, form>>
      /\ report' = [report EXCEPT ![sh] = "sample"]
      /\ shard' = [shard EXCEPT ![sh] = "completed"]
      /\ report[sh] = "posted" /\ shard[sh] # "none"
  BY DEF CompleteShard
<1>3. run[r] \in Run /\ Active(r)
  <2>1. run[r].status # "completed"
    BY <1>0, <1>2, PostedMeansNotCompleted
  <2>2. run[r].status # "none"
    BY <1>0, <1>2 DEF RunInv, ResultHandledOnce
  <2>. QED  BY <1>0, <2>1, <2>2 DEF TypeOK, Run, RunStatus, Active
<1>4. /\ run'[r].status = "completed"
      /\ run'[r].search = run[r].search
      /\ run'[r].load = run[r].load
      /\ \A q \in RunIds \ {r} : run'[q] = run[q]
  BY <1>0, <1>1, <1>3 DEF TypeOK, Run
<1>5. /\ \A x \in ShardIds \ {sh} : report'[x] = report[x] /\ shard'[x] = shard[x]
      /\ report'[sh] = "sample" /\ shard'[sh] = "completed"
  BY <1>0, <1>2 DEF TypeOK
<1>6. \A s \in SearchForms : \A i \in DOMAIN search[s].runs :
        search[s].runs[i] = r => search[s].status = "running" /\ i = Len(search[s].runs)
  BY <1>3 DEF SearchInv, OneActiveRung, Active
<1>7. \A s \in SearchForms : run[r].search = s => search[s].status = "running" /\ r = LatestRun(s)
  BY <1>0, <1>6 DEF SearchInv, StepsMatchRuns, LatestRun
<1>8. \A s \in SearchForms : LatestRun(s)' = LatestRun(s)
  BY <1>2 DEF LatestRun
<1>. HIDE DEF r
<1>9. PlannedByItsForm' /\ RungsAreDistinct'
  BY <1>2, <1>3, <1>4 DEF SearchInv, PlannedByItsForm, RungsAreDistinct, Active
<1>10. LatestRungIsOpen'
  <2>. SUFFICES ASSUME NEW s \in SearchForms, search[s].status = "running"
                PROVE  /\ Len(search[s].steps) = Len(search[s].runs) - 1
                       /\ \A x \in ShardIds :
                            report'[x] \in {"sample", "advance"} /\ run'[RunOf(x)].search = s =>
                              RunOf(x) = LatestRun(s)
    BY <1>2, <1>8 DEF LatestRungIsOpen, Following
  <2>1. \A x \in ShardIds : run'[RunOf(x)].search = run[RunOf(x)].search
    BY <1>4, ShardIdFacts
  <2>2. ASSUME NEW x \in ShardIds, report'[x] \in {"sample", "advance"}, run[RunOf(x)].search = s
        PROVE  RunOf(x) = LatestRun(s)
    <3>1. CASE x = sh
      BY <1>7, <2>2, <3>1 DEF r
    <3>2. CASE x # sh
      BY <1>5, <2>2, <3>2 DEF SearchInv, LatestRungIsOpen, Following
    <3>. QED  BY <3>1, <3>2
  <2>. QED  BY <2>1, <2>2 DEF SearchInv, LatestRungIsOpen
<1>11. OneActiveRung'
  <2>1. \A q \in RunIds : Active(q)' => Active(q)
    BY <1>3, <1>4 DEF Active
  <2>2. \A s \in SearchForms : \A i \in DOMAIN search[s].runs : search[s].runs[i] \in RunIds
    BY <1>0, SearchFacts
  <2>3. \A s \in SearchForms : \A i \in DOMAIN search[s].runs :
          run'[search[s].runs[i]].status \in {"queued", "running"} => Active(search[s].runs[i])
    BY <2>1, <2>2 DEF Active
  <2>. QED  BY <1>2, <2>3 DEF SearchInv, OneActiveRung, Active
<1>12. NoRungLost'
  <2>. SUFFICES ASSUME NEW s \in SearchForms, search[s].status = "running"
                PROVE  \/ run'[LatestRun(s)].status \in {"queued", "running"}
                       \/ run'[LatestRun(s)].status = "cancelled"
                       \/ \E x \in ShardsOf(LatestRun(s))' : report'[x] \in {"sample", "advance"}
    BY <1>2, <1>8 DEF NoRungLost, Active
  <2>0. LatestRun(s) \in RunIds
    BY LatestRunFacts
  <2>1. CASE LatestRun(s) = r
    <3>1. sh \in ShardsOf(r)'
      BY <1>5 DEF ShardsOf, r
    <3>. QED  BY <1>5, <1>8, <2>1, <3>1
  <2>2. CASE LatestRun(s) # r
    <3>1. run'[LatestRun(s)] = run[LatestRun(s)]
      BY <1>4, <2>0, <2>2
    <3>2. \A x \in ShardsOf(LatestRun(s)) : x \in ShardsOf(LatestRun(s))' /\ report'[x] = report[x]
      BY <1>5, <1>8, <2>2 DEF ShardsOf, r
    <3>. QED  BY <3>1, <3>2 DEF SearchInv, NoRungLost, Active
  <2>. QED  BY <2>1, <2>2
<1>13. StepsMatchRuns'
  <2>1. \A s \in SearchForms : {q \in RunIds : run'[q].search = s} = {q \in RunIds : run[q].search = s}
    BY <1>4
  <2>2. \A s \in SearchForms : \A i \in DOMAIN search[s].steps :
          run'[search[s].runs[i]] = run[search[s].runs[i]]
    <3>. SUFFICES ASSUME NEW s \in SearchForms, NEW i \in DOMAIN search[s].steps
                  PROVE  run'[search[s].runs[i]] = run[search[s].runs[i]]
      OBVIOUS
    <3>1. run[search[s].runs[i]].status = "completed" /\ search[s].steps[i].run = search[s].runs[i]
      BY DEF SearchInv, StepsMatchRuns
    <3>2. search[s].steps[i] \in Step
      BY <1>0, SearchFacts
    <3>. QED  BY <1>3, <1>4, <3>1, <3>2 DEF Active, Step
  <2>. QED  BY <1>2, <2>1, <2>2 DEF SearchInv, StepsMatchRuns
<1>. QED  BY <1>9, <1>10, <1>11, <1>12, <1>13 DEF SearchInv

\* Creating a run that belongs to no search.
LEMMA CreateRunPreserves ==
  ASSUME SearchInv, RunInv', NEW f \in RunForms, CreateRun(f)
  PROVE  SearchInv'
<1>0. TypeOK /\ UNCHANGED <<search, report>>
  BY DEF SearchInv, RunInv, CreateRun
<1>1. PICK r \in RunIds : /\ QueueRun(r, form[f].target, form[f].shards, None, 0)
                          /\ form' = [form EXCEPT ![f].stage = "sampling", ![f].run = r]
  BY DEF CreateRun
<1>2. \A s \in SearchForms : s # f /\ form'[s] = form[s]
  BY <1>0, <1>1, RunStoreAssumption DEF TypeOK, Forms
<1>3. /\ run[r].status = "none" /\ run[r].search = None
      /\ \A q \in RunIds \ {r} : run'[q] = run[q]
      /\ run'[r].status = "queued" /\ run'[r].search = None
  <2>1. run[r].status = "none"
    BY <1>1 DEF QueueRun, FreshRun
  <2>2. run'[r].status = "queued" /\ run'[r].search = None
    BY <1>0, <1>1 DEF QueueRun, TypeOK, NewRun
  <2>3. \A q \in RunIds \ {r} : run'[q] = run[q]
    BY <1>0, <1>1 DEF QueueRun, TypeOK
  <2>. QED  BY <2>1, <2>2, <2>3 DEF SearchInv, RungsAreDistinct
<1>4. \A q \in RunIds : RunGoesOn(q)
  BY <1>3 DEF RunGoesOn, Active, Ended
<1>5. \A sh \in ShardIds : shard[sh] # "none" => shard'[sh] # "none"
  BY <1>1 DEF QueueRun
<1>. QED  BY <1>0, <1>2, <1>4, <1>5, GoesOnPreserves DEF Following

\* The runs of a search record.
Listed(record) == {record.runs[i] : i \in DOMAIN record.runs}

\* A step of a search's curve is the outcome of that run.
StepIsOf(step, r) ==
  /\ step.run = r
  /\ run[r].status = "completed"
  /\ step.load = run[r].load
  /\ step.stable = run[r].stable

\* The next rung of search s is queued: by CreateSearch, when there is none
\* yet, or by AdvanceSearch, when every run the search has made is a step.
LEMMA RungQueuedPreserves ==
  ASSUME SearchInv, RunInv', NEW s \in SearchForms, NEW r \in RunIds,
         NEW t, NEW n, NEW load, QueueRun(r, t, n, s, load),
         NEW next, next.status = "running", search' = [search EXCEPT ![s] = next],
         next.runs = Append(search[s].runs, r),
         next.steps \in Seq(Step), Len(next.steps) = Len(search[s].runs),
         \A i \in DOMAIN next.steps : StepIsOf(next.steps[i], search[s].runs[i]),
         \A i \in DOMAIN search[s].runs : ~Active(search[s].runs[i]),
         \A q \in SearchForms : form'[q].stage \in {"new", "checked"} =>
                                  q # s /\ form[q].stage \in {"new", "checked"},
         \A sh \in ShardIds : Following(sh)' <=> Following(sh) /\ run[RunOf(sh)].search # s
  PROVE  SearchInv'
<1>. DEFINE runs == search[s].runs
<1>0. TypeOK
  BY DEF SearchInv, RunInv
<1>1. /\ run[r].status = "none" /\ run[r].search = None
      /\ run'[r].status = "queued" /\ run'[r].search = s
      /\ \A q \in RunIds \ {r} : run'[q] = run[q]
  <2>1. run[r].status = "none"
    BY DEF QueueRun, FreshRun
  <2>2. run'[r].status = "queued" /\ run'[r].search = s
    BY <1>0 DEF QueueRun, TypeOK, NewRun
  <2>3. \A q \in RunIds \ {r} : run'[q] = run[q]
    BY <1>0 DEF QueueRun, TypeOK
  <2>. QED  BY <2>1, <2>2, <2>3 DEF SearchInv, RungsAreDistinct
<1>2. /\ search'[s] = next
      /\ \A q \in SearchForms \ {s} : search'[q] = search[q]
  BY <1>0 DEF TypeOK
<1>3. /\ runs \in Seq(RunIds) /\ Len(runs) \in Nat /\ DOMAIN runs = 1 .. Len(runs)
      /\ next.runs \in Seq(RunIds) /\ Len(next.runs) = Len(runs) + 1
      /\ DOMAIN next.runs = 1 .. Len(runs) + 1
      /\ \A i \in 1 .. Len(runs) : next.runs[i] = runs[i]
      /\ next.runs[Len(runs) + 1] = r
      /\ DOMAIN next.steps = 1 .. Len(runs)
  <2>1. runs \in Seq(RunIds) /\ Len(runs) \in Nat /\ DOMAIN runs = 1 .. Len(runs)
    BY <1>0, SearchFacts
  <2>. HIDE DEF runs
  <2>2. next.runs = Append(runs, r)
    BY DEF runs
  <2>3. DOMAIN next.steps = 1 .. Len(runs)
    BY <2>1 DEF runs
  <2>. QED  BY <2>1, <2>2, <2>3
<1>4. \A q \in SearchForms : \A i \in DOMAIN search[q].runs :
        /\ search[q].runs[i] \in RunIds \ {r}
        /\ run[search[q].runs[i]].search = q
        /\ run'[search[q].runs[i]] = run[search[q].runs[i]]
  BY <1>1, ListedRunFacts
<1>5. LatestRun(s)' = r /\ \A q \in SearchForms \ {s} : LatestRun(q)' = LatestRun(q)
  BY <1>2, <1>3 DEF LatestRun
<1>6. /\ \A sh \in ShardIds : RunOf(sh) # r => shard'[sh] = shard[sh]
      /\ \A sh \in ShardIds : shard[sh] # "none" => shard'[sh] # "none"
  BY DEF QueueRun
<1>7. \A sh \in ShardIds : Following(sh) => RunOf(sh) \in RunIds \ {r} /\ run'[RunOf(sh)] = run[RunOf(sh)]
  <2>1. \A sh \in ShardIds : Following(sh) => run[RunOf(sh)].status = "completed"
    BY DEF SearchInv, RunInv, ResultHandledOnce
  <2>. QED  BY <1>1, <2>1, ShardIdFacts
<1>8. PlannedByItsForm'
  <2>1. next.runs # << >>
    BY <1>3
  <2>. QED  BY <1>2, <2>1 DEF SearchInv, PlannedByItsForm
<1>9. RungsAreDistinct'
  <2>1. ASSUME NEW q \in SearchForms, NEW i \in DOMAIN search'[q].runs,
               NEW j \in DOMAIN search'[q].runs, search'[q].runs[i] = search'[q].runs[j]
        PROVE  i = j
    <3>1. CASE q # s
      BY <1>2, <2>1, <3>1 DEF SearchInv, RungsAreDistinct
    <3>2. CASE q = s
      <4>1. i \in 1 .. Len(runs) + 1 /\ j \in 1 .. Len(runs) + 1 /\ next.runs[i] = next.runs[j]
        BY <1>2, <1>3, <2>1, <3>2
      <4>2. \A k \in 1 .. Len(runs) : next.runs[k] = runs[k] /\ next.runs[k] # r
        BY <1>3, <1>4
      <4>3. CASE i \in 1 .. Len(runs) /\ j \in 1 .. Len(runs)
        BY <1>3, <4>1, <4>2, <4>3 DEF SearchInv, RungsAreDistinct
      <4>. HIDE DEF runs
      <4>4. CASE i = Len(runs) + 1 \/ j = Len(runs) + 1
        BY <1>3, <4>1, <4>2, <4>4
      <4>. QED  BY <1>3, <4>1, <4>3, <4>4
    <3>. QED  BY <3>1, <3>2
  <2>2. ASSUME NEW q \in RunIds, run'[q].status = "none"
        PROVE  run'[q].search = None
    BY <1>1, <2>2 DEF SearchInv, RungsAreDistinct
  <2>. QED  BY <2>1, <2>2 DEF RungsAreDistinct
<1>10. LatestRungIsOpen'
  <2>. SUFFICES ASSUME NEW q \in SearchForms, search'[q].status = "running"
                PROVE  /\ Len(search'[q].steps) = Len(search'[q].runs) - 1
                       /\ \A sh \in ShardIds :
                            Following(sh)' /\ run'[RunOf(sh)].search = q => RunOf(sh) = LatestRun(q)'
    BY DEF LatestRungIsOpen
  <2>1. CASE q = s
    <3>1. Len(next.steps) = Len(next.runs) - 1
      BY <1>3
    <3>2. \A sh \in ShardIds : Following(sh)' => run'[RunOf(sh)].search # s
      BY <1>7
    <3>. QED  BY <1>2, <2>1, <3>1, <3>2
  <2>2. CASE q # s
    BY <1>2, <1>5, <1>7, <2>2 DEF SearchInv, LatestRungIsOpen
  <2>. QED  BY <2>1, <2>2
<1>11. OneActiveRung'
  <2>. SUFFICES ASSUME NEW q \in SearchForms, NEW i \in DOMAIN search'[q].runs,
                       run'[search'[q].runs[i]].status \in {"queued", "running"}
                PROVE  search'[q].status = "running" /\ i = Len(search'[q].runs)
    BY DEF OneActiveRung, Active
  <2>1. CASE q = s
    <3>1. i \in 1 .. Len(runs) => next.runs[i] = runs[i] /\ run'[runs[i]].status \notin {"queued", "running"}
      BY <1>3, <1>4 DEF Active
    <3>. HIDE DEF runs
    <3>2. i \in 1 .. Len(runs) + 1 /\ i \notin 1 .. Len(runs)
      BY <1>2, <1>3, <2>1, <3>1
    <3>. QED  BY <1>2, <1>3, <2>1, <3>2
  <2>2. CASE q # s
    BY <1>2, <1>4, <2>2 DEF SearchInv, OneActiveRung, Active
  <2>. QED  BY <2>1, <2>2
<1>12. NoRungLost'
  <2>. SUFFICES ASSUME NEW q \in SearchForms, search'[q].status = "running"
                PROVE  \/ run'[LatestRun(q)'].status \in {"queued", "running"}
                       \/ run'[LatestRun(q)'].status = "cancelled"
                       \/ \E sh \in ShardsOf(LatestRun(q))' : report'[sh] \in {"sample", "advance"}
    BY DEF NoRungLost, Active
  <2>1. CASE q = s
    BY <1>1, <1>5, <2>1
  <2>2. CASE q # s
    <3>1. search[q].status = "running" /\ LatestRun(q)' = LatestRun(q)
      BY <1>2, <1>5, <2>2
    <3>2. LatestRun(q) \in RunIds \ {r} /\ run[LatestRun(q)].search = q
      BY <1>1, <3>1, LatestRunFacts
    <3>3. \A sh \in ShardsOf(LatestRun(q)) : Following(sh) =>
            sh \in ShardsOf(LatestRun(q))' /\ Following(sh)'
      BY <1>6, <2>2, <3>1, <3>2 DEF ShardsOf
    <3>. QED  BY <1>1, <3>1, <3>2, <3>3 DEF SearchInv, NoRungLost, Active, Following
  <2>. QED  BY <2>1, <2>2
<1>13. StepsMatchRuns'
  <2>. SUFFICES ASSUME NEW q \in SearchForms
                PROVE  /\ {x \in RunIds : run'[x].search = q} = Listed(search'[q])
                       /\ Len(search'[q].steps) \in {Len(search'[q].runs) - 1, Len(search'[q].runs)}
                          \/ search'[q].status = "none"
                       /\ \A i \in DOMAIN search'[q].steps :
                            /\ search'[q].steps[i].run = search'[q].runs[i]
                            /\ run'[search'[q].runs[i]].status = "completed"
                            /\ search'[q].steps[i].load = run'[search'[q].runs[i]].load
                            /\ search'[q].steps[i].stable = run'[search'[q].runs[i]].stable
    BY DEF StepsMatchRuns, Listed
  <2>0. {x \in RunIds : run[x].search = q} = Listed(search[q])
    BY DEF SearchInv, StepsMatchRuns, Listed
  <2>1. CASE q = s
    <3>1. {x \in RunIds : run'[x].search = s} = {x \in RunIds : run[x].search = s} \cup {r}
      BY <1>1
    <3>2. Listed(next) = Listed(search[s]) \cup {r}
      <4>0. Listed(search[s]) = {runs[i] : i \in DOMAIN runs}
        BY DEF Listed
      <4>. HIDE DEF runs
      <4>1. \A i \in DOMAIN runs : i \in DOMAIN next.runs /\ next.runs[i] = runs[i]
        BY <1>3
      <4>2. Len(runs) + 1 \in DOMAIN next.runs /\ next.runs[Len(runs) + 1] = r
        BY <1>3
      <4>3. \A i \in DOMAIN next.runs : i \in DOMAIN runs \/ i = Len(runs) + 1
        BY <1>3
      <4>. QED  BY <4>0, <4>1, <4>2, <4>3 DEF Listed
    <3>3. Len(next.steps) = Len(next.runs) - 1
      BY <1>3
    <3>4. \A i \in DOMAIN next.steps :
            i \in DOMAIN runs /\ next.runs[i] = runs[i] /\ run'[runs[i]] = run[runs[i]]
      BY <1>3, <1>4
    <3>5. \A i \in DOMAIN next.steps :
            /\ next.steps[i].run = next.runs[i]
            /\ run'[next.runs[i]].status = "completed"
            /\ next.steps[i].load = run'[next.runs[i]].load
            /\ next.steps[i].stable = run'[next.runs[i]].stable
      BY <3>4 DEF StepIsOf
    <3>6. {x \in RunIds : run'[x].search = q} = Listed(next)
      BY <2>0, <2>1, <3>1, <3>2
    <3>7. search'[q] = next
      BY <1>2, <2>1
    <3>8. {x \in RunIds : run'[x].search = q} = Listed(search'[q])
      BY <3>6, <3>7
    <3>9. Len(search'[q].steps) \in {Len(search'[q].runs) - 1, Len(search'[q].runs)}
      BY <3>3, <3>7, Zenon
    <3>10. \A i \in DOMAIN search'[q].steps :
             /\ search'[q].steps[i].run = search'[q].runs[i]
             /\ run'[search'[q].runs[i]].status = "completed"
             /\ search'[q].steps[i].load = run'[search'[q].runs[i]].load
             /\ search'[q].steps[i].stable = run'[search'[q].runs[i]].stable
      BY <3>5, <3>7
    <3>. QED  BY <3>8, <3>9, <3>10
  <2>2. CASE q # s
    <3>1. {x \in RunIds : run'[x].search = q} = {x \in RunIds : run[x].search = q}
      BY <1>1, <2>2, ShardIdFacts
    <3>2. \A i \in DOMAIN search[q].steps : run'[search[q].runs[i]] = run[search[q].runs[i]]
      <4>. SUFFICES ASSUME NEW i \in DOMAIN search[q].steps
                    PROVE  run'[search[q].runs[i]] = run[search[q].runs[i]]
        OBVIOUS
      <4>1. run[search[q].runs[i]].status = "completed" /\ search[q].steps[i].run = search[q].runs[i]
        BY DEF SearchInv, StepsMatchRuns
      <4>2. search[q].steps[i] \in Step
        BY <1>0, SearchFacts
      <4>. QED  BY <1>1, <4>1, <4>2 DEF Step
    <3>. QED  BY <1>2, <2>0, <2>2, <3>1, <3>2 DEF SearchInv, StepsMatchRuns, Listed
  <2>. QED  BY <2>1, <2>2
<1>. QED  BY <1>8, <1>9, <1>10, <1>11, <1>12, <1>13 DEF SearchInv

LEMMA CreateSearchPreserves ==
  ASSUME SearchInv, RunInv', NEW s \in SearchForms, CreateSearch(s)
  PROVE  SearchInv'
<1>0. TypeOK /\ search[s] \in Search /\ UNCHANGED report
  BY SearchFacts DEF SearchInv, RunInv, CreateSearch
<1>. DEFINE next(r) == [PlannedSearch(search[s]) EXCEPT !.target = form[s].target,
                                                       !.shards = form[s].shards, !.runs = <<r>>]
<1>1. PICK r \in RunIds :
        /\ QueueRun(r, form[s].target, form[s].shards, s, StartLoad)
        /\ search' = [search EXCEPT ![s] = next(r)]
  BY DEF CreateSearch
<1>2. search[s].runs = << >> /\ search[s].steps = << >>
  BY DEF SearchInv, PlannedByItsForm, CreateSearch
<1>3. next(r).status = "running" /\ next(r).runs = <<r>> /\ next(r).steps = << >>
  BY <1>0, <1>2 DEF PlannedSearch, Search
<1>4. \A q \in SearchForms : form'[q].stage \in {"new", "checked"} =>
                               q # s /\ form[q].stage \in {"new", "checked"}
  BY <1>0 DEF CreateSearch, TypeOK, Forms, Form
<1>5. \A sh \in ShardIds : Following(sh)' <=> Following(sh) /\ run[RunOf(sh)].search # s
  <2>1. \A r0 \in RunIds : run[r0].search # s
    <3>1. Listed(search[s]) = {}
      BY <1>2 DEF Listed
    <3>2. {r0 \in RunIds : run[r0].search = s} = Listed(search[s])
      BY DEF SearchInv, StepsMatchRuns, Listed
    <3>. QED  BY <3>1, <3>2
  <2>. QED  BY <1>0, <2>1, ShardIdFacts DEF Following
<1>. HIDE DEF next
<1>6. /\ next(r).runs = Append(search[s].runs, r)
      /\ next(r).steps \in Seq(Step) /\ Len(next(r).steps) = Len(search[s].runs)
      /\ DOMAIN next(r).steps = {} /\ DOMAIN search[s].runs = {}
  BY <1>2, <1>3
<1>. QED  BY <1>1, <1>3, <1>4, <1>5, <1>6, RungQueuedPreserves

LEMMA CancelSearchPreserves ==
  ASSUME SearchInv, RunInv', NEW s \in SearchForms, CancelSearch(s)
  PROVE  SearchInv'
<1>. DEFINE R == {search[s].runs[i] : i \in DOMAIN search[s].runs}
<1>0. TypeOK /\ UNCHANGED <<form, report>> /\ CancelRuns(R) /\ search[s] \in Search
  BY SearchFacts DEF SearchInv, RunInv, CancelSearch, handlers
<1>1. \A r \in RunIds : RunGoesOn(r) /\ (r \in R => ~Active(r)')
  <2>. HIDE DEF R
  <2>. QED  BY <1>0, CancelRunsGoesOn
<1>2. \A i \in DOMAIN search[s].runs : search[s].runs[i] \in RunIds /\ search[s].runs[i] \in R
  BY <1>0, SearchFacts
<1>3. /\ search'[s] = [search[s] EXCEPT !.status = "cancelled"]
      /\ \A q \in SearchForms \ {s} : search'[q] = search[q]
      /\ search[s].status # "none"
  BY <1>0 DEF CancelSearch, TypeOK
<1>4. /\ search'[s].runs = search[s].runs /\ search'[s].steps = search[s].steps
      /\ search'[s].status = "cancelled"
  BY <1>0, <1>3 DEF Search
<1>5. \A i \in DOMAIN search[s].runs : ~Active(search[s].runs[i])'
  <2>. SUFFICES ASSUME NEW i \in DOMAIN search[s].runs
                PROVE  run'[search'[s].runs[i]].status \notin {"queued", "running"}
    BY DEF Active
  <2>. HIDE DEF R
  <2>. QED  BY <1>1, <1>2, <1>4 DEF Active
<1>6. \A sh \in ShardIds : shard[sh] # "none" => shard'[sh] # "none"
  BY <1>0, CancelRunsEffect
<1>7. \A q \in SearchForms :
        /\ search'[q].runs = search[q].runs /\ search'[q].steps = search[q].steps
        /\ \/ search'[q].status = search[q].status
           \/ /\ search[q].status # "none" /\ search'[q].status = "cancelled"
              /\ \A i \in DOMAIN search[q].runs : ~Active(search[q].runs[i])'
  BY <1>3, <1>4, <1>5
<1>. HIDE DEF R
<1>. QED  BY <1>0, <1>1, <1>6, <1>7, GoesOnPreserves DEF Following

\* When a handler advances a running search, its run is the latest one, none
\* of the search's runs is active, and with its step every run has one.
LEMMA AdvancingTheLatest ==
  ASSUME SearchInv, NEW sh \in ShardIds, report[sh] = "advance", WantsAdvance(RunOf(sh)),
         NEW s, s = run[RunOf(sh)].search,
         NEW step, step = [run |-> RunOf(sh), load |-> run[RunOf(sh)].load,
                           stable |-> run[RunOf(sh)].stable]
  PROVE  /\ s \in SearchForms /\ search[s].status = "running" /\ RunOf(sh) = LatestRun(s)
         /\ step \in Step
         /\ Len(Append(search[s].steps, step)) = Len(search[s].runs)
         /\ \A i \in DOMAIN Append(search[s].steps, step) :
              StepIsOf(Append(search[s].steps, step)[i], search[s].runs[i])
         /\ \A i \in DOMAIN search[s].runs : ~Active(search[s].runs[i])
<1>. DEFINE r == RunOf(sh)
            n == Len(search[s].runs)
<1>0. TypeOK /\ r \in RunIds /\ run[r] \in Run
  BY ShardIdFacts DEF SearchInv, RunInv, TypeOK
<1>1. s \in SearchForms /\ search[s].status = "running"
  BY <1>0 DEF WantsAdvance, Run
<1>2. run[r].status = "completed" /\ r = LatestRun(s)
  BY <1>1 DEF SearchInv, RunInv, ResultHandledOnce, LatestRungIsOpen, Following
<1>3. step \in Step /\ StepIsOf(step, r)
  BY <1>0, <1>2 DEF Run, Step, StepIsOf
<1>4. n \in DOMAIN search[s].runs /\ search[s].runs[n] = r
  BY <1>1, <1>2, LatestRunFacts DEF LatestRun
<1>5. \A i \in DOMAIN search[s].runs : ~Active(search[s].runs[i])
  <2>1. \A i \in DOMAIN search[s].runs : Active(search[s].runs[i]) => i = n
    BY <1>1 DEF SearchInv, OneActiveRung
  <2>. QED  BY <1>2, <1>4, <2>1 DEF Active
<1>6. /\ search[s].steps \in Seq(Step) /\ Len(search[s].steps) = n - 1 /\ n \in Nat
      /\ DOMAIN search[s].steps = 1 .. n - 1
  BY <1>0, <1>1, SearchFacts DEF SearchInv, LatestRungIsOpen
<1>7. \A i \in 1 .. n - 1 : StepIsOf(search[s].steps[i], search[s].runs[i])
  <2>1. \A i \in DOMAIN search[s].steps : StepIsOf(search[s].steps[i], search[s].runs[i])
    BY <1>1 DEF SearchInv, StepsMatchRuns, StepIsOf
  <2>. QED  BY <1>6, <2>1
<1>. DEFINE longer == Append(search[s].steps, step)
<1>8. Len(longer) = n /\ DOMAIN longer = 1 .. n
  <2>. HIDE DEF n
  <2>. QED  BY <1>3, <1>6
<1>9. \A i \in 1 .. n : longer[i] = IF i = n THEN step ELSE search[s].steps[i]
  <2>. HIDE DEF n
  <2>. QED  BY <1>3, <1>6
<1>10. \A i \in 1 .. n : StepIsOf(longer[i], search[s].runs[i])
  <2>1. ASSUME NEW i \in 1 .. n PROVE StepIsOf(longer[i], search[s].runs[i])
    <3>1. i = n \/ i \in 1 .. n - 1
      BY <1>6
    <3>. HIDE DEF longer, n
    <3>. QED  BY <1>3, <1>4, <1>7, <1>9, <3>1
  <2>. QED  BY <2>1
<1>. HIDE DEF longer
<1>11. Len(longer) = Len(search[s].runs) /\ \A i \in DOMAIN longer : StepIsOf(longer[i], search[s].runs[i])
  BY <1>8, <1>10
<1>. QED  BY <1>1, <1>2, <1>3, <1>5, <1>11 DEF longer

\* AdvanceSearch with the last rung it wants: the search is over, no run of
\* it is active and every one of them is a step.
LEMMA SweepOverPreserves ==
  ASSUME SearchInv, RunInv', NEW s \in SearchForms, search[s].status # "none",
         UNCHANGED <<form, run, shard>>,
         NEW next, next.status = "completed", search' = [search EXCEPT ![s] = next],
         next.runs = search[s].runs,
         next.steps \in Seq(Step), Len(next.steps) = Len(search[s].runs),
         \A i \in DOMAIN next.steps : StepIsOf(next.steps[i], search[s].runs[i]),
         \A i \in DOMAIN search[s].runs : ~Active(search[s].runs[i]),
         \A sh \in ShardIds : Following(sh)' <=> Following(sh) /\ run[RunOf(sh)].search # s
  PROVE  SearchInv'
<1>0. TypeOK
  BY DEF SearchInv, RunInv
<1>1. search'[s] = next /\ \A q \in SearchForms \ {s} : search'[q] = search[q]
  BY <1>0 DEF TypeOK
<1>2. search[s].runs # << >>
  BY DEF SearchInv, PlannedByItsForm
<1>3. PlannedByItsForm' /\ RungsAreDistinct'
  BY <1>1, <1>2 DEF SearchInv, PlannedByItsForm, RungsAreDistinct
<1>4. LatestRungIsOpen'
  BY <1>1 DEF SearchInv, LatestRungIsOpen, LatestRun
<1>5. OneActiveRung'
  BY <1>1 DEF SearchInv, OneActiveRung, Active
<1>6. NoRungLost'
  <2>. SUFFICES ASSUME NEW q \in SearchForms \ {s}, search[q].status = "running"
                PROVE  \/ run[LatestRun(q)].status \in {"queued", "running"}
                       \/ run[LatestRun(q)].status = "cancelled"
                       \/ \E sh \in ShardsOf(LatestRun(q)) : Following(sh)'
    BY <1>1 DEF NoRungLost, LatestRun, ShardsOf, Active, Following
  <2>1. run[LatestRun(q)].search = q
    BY LatestRunFacts
  <2>2. \A sh \in ShardsOf(LatestRun(q)) : Following(sh) => Following(sh)'
    BY <2>1 DEF ShardsOf
  <2>. QED  BY <2>2 DEF SearchInv, NoRungLost, Active, Following
<1>7. StepsMatchRuns'
  <2>. SUFFICES ASSUME NEW q \in SearchForms
                PROVE  /\ {x \in RunIds : run[x].search = q} = Listed(search'[q])
                       /\ Len(search'[q].steps) \in {Len(search'[q].runs) - 1, Len(search'[q].runs)}
                          \/ search'[q].status = "none"
                       /\ \A i \in DOMAIN search'[q].steps :
                            StepIsOf(search'[q].steps[i], search'[q].runs[i])
    BY DEF StepsMatchRuns, Listed, StepIsOf
  <2>1. {x \in RunIds : run[x].search = q} = Listed(search[q])
    BY DEF SearchInv, StepsMatchRuns, Listed
  <2>2. CASE q = s
    <3>1. Listed(next) = Listed(search[s])
      BY DEF Listed
    <3>. QED  BY <1>1, <2>1, <2>2, <3>1
  <2>3. CASE q # s
    BY <1>1, <2>1, <2>3 DEF SearchInv, StepsMatchRuns, StepIsOf
  <2>. QED  BY <2>2, <2>3
<1>. QED  BY <1>3, <1>4, <1>5, <1>6, <1>7 DEF SearchInv

LEMMA AdvanceSearchKeepsSearches ==
  ASSUME SearchInv, RunInv', NEW sh \in ShardIds, AdvanceSearch(sh)
  PROVE  SearchInv'
<1>. DEFINE r    == RunOf(sh)
            step == [run |-> r, load |-> run[r].load, stable |-> run[r].stable]
<1>0. /\ TypeOK /\ RunInv /\ r \in RunIds /\ run[r] \in Run
      /\ report[sh] = "advance" /\ UNCHANGED form
      /\ report' = [report EXCEPT ![sh] = "none"]
  BY ShardIdFacts DEF SearchInv, RunInv, TypeOK, AdvanceSearch
<1>1. /\ ~Following(sh)' /\ Following(sh)
      /\ \A x \in ShardIds \ {sh} : Following(x)' <=> Following(x)
      /\ \A x \in ShardIds : Following(x) /\ RunOf(x) = r => x = sh
      /\ run[r].status = "completed"
  BY <1>0 DEF TypeOK, Following, RunInv, ResultHandledOnce
<1>2. CASE WantsAdvance(r)
  <2>1. PICK s : s = run[r].search
    OBVIOUS
  <2>2. PICK next : next = Advance(search[s], step)
    OBVIOUS
  <2>3. /\ s \in SearchForms /\ search[s].status = "running" /\ r = LatestRun(s)
        /\ step \in Step
        /\ Len(Append(search[s].steps, step)) = Len(search[s].runs)
        /\ \A i \in DOMAIN Append(search[s].steps, step) :
             StepIsOf(Append(search[s].steps, step)[i], search[s].runs[i])
        /\ \A i \in DOMAIN search[s].runs : ~Active(search[s].runs[i])
    BY <1>0, <1>2, <2>1, AdvancingTheLatest
  <2>4. /\ search[s] \in Search /\ next \in Search
        /\ next.steps = Append(search[s].steps, step)
        /\ next.runs = search[s].runs
        /\ \/ next.nextLoad = 0 /\ next.status = "completed"
           \/ next.nextLoad # 0 /\ next.status = "running"
    <3>1. search[s] \in Search
      BY <1>0, <2>3 DEF TypeOK
    <3>. HIDE DEF step
    <3>. QED  BY <2>2, <2>3, <3>1, AdvanceOutcome, AdvanceType
  <2>5. next.steps \in Seq(Step)
    BY <2>4 DEF Search
  <2>6. \A x \in ShardIds : Following(x)' <=> Following(x) /\ run[RunOf(x)].search # s
    <3>1. \A x \in ShardIds : Following(x) /\ run[RunOf(x)].search = s => RunOf(x) = r
      BY <2>3 DEF SearchInv, LatestRungIsOpen
    <3>. QED  BY <1>1, <2>1, <3>1
  <2>7. \A q \in SearchForms : form'[q].stage \in {"new", "checked"} =>
                                 q # s /\ form[q].stage \in {"new", "checked"}
    BY <1>0, <2>3 DEF SearchInv, PlannedByItsForm
  <2>8. CASE next.nextLoad # 0
    <3>1. PICK q \in RunIds :
            /\ QueueRun(q, search[s].target, search[s].shards, s, next.nextLoad)
            /\ search' = [search EXCEPT ![s] = WithRun(next, q)]
      BY <1>2, <2>1, <2>2, <2>8 DEF AdvanceSearch
    <3>2. PICK rung : rung = WithRun(next, q)
      OBVIOUS
    <3>3. /\ rung.status = "running"
          /\ rung.steps = next.steps
          /\ rung.runs = Append(search[s].runs, q)
      BY <2>4, <2>8, <3>2 DEF WithRun, Search
    <3>4. /\ rung.steps \in Seq(Step) /\ Len(rung.steps) = Len(search[s].runs)
          /\ \A i \in DOMAIN rung.steps : StepIsOf(rung.steps[i], search[s].runs[i])
      BY <2>3, <2>4, <2>5, <3>3
    <3>5. search' = [search EXCEPT ![s] = rung]
      BY <3>1, <3>2
    <3>. HIDE DEF step, r
    <3>. QED  BY <2>3, <2>6, <2>7, <3>1, <3>3, <3>4, <3>5, RungQueuedPreserves
  <2>9. CASE next.nextLoad = 0
    <3>1. search' = [search EXCEPT ![s] = next] /\ UNCHANGED <<run, shard>>
      BY <1>2, <2>1, <2>2, <2>9 DEF AdvanceSearch
    <3>. HIDE DEF step, r
    <3>. QED  BY <2>3, <2>4, <2>5, <2>6, <2>9, <1>0, <3>1, SweepOverPreserves
  <2>. QED  BY <2>8, <2>9
<1>3. CASE ~WantsAdvance(r)
  <2>1. UNCHANGED <<search, run, shard>>
    BY <1>3 DEF AdvanceSearch
  <2>2. \A s \in SearchForms : run[r].search = s => search[s].status # "running"
    BY <1>3, ShardIdFacts DEF WantsAdvance
  <2>. HIDE DEF r, step
  <2>3. LatestRungIsOpen'
    BY <1>1, <2>1 DEF SearchInv, LatestRungIsOpen, LatestRun
  <2>4. NoRungLost'
    <3>. SUFFICES ASSUME NEW s \in SearchForms, search[s].status = "running"
                  PROVE  \/ run[LatestRun(s)].status \in {"queued", "running"}
                         \/ run[LatestRun(s)].status = "cancelled"
                         \/ \E x \in ShardsOf(LatestRun(s)) : Following(x)'
      BY <2>1 DEF NoRungLost, LatestRun, ShardsOf, Active, Following
    <3>1. LatestRun(s) # r
      BY <2>2, LatestRunFacts
    <3>2. \A x \in ShardsOf(LatestRun(s)) : Following(x) => Following(x)'
      BY <1>1, <3>1 DEF ShardsOf, r
    <3>. QED  BY <3>2 DEF SearchInv, NoRungLost, Active, Following
  <2>. QED  BY <1>0, <2>1, <2>3, <2>4
            DEF SearchInv, PlannedByItsForm, RungsAreDistinct, OneActiveRung, StepsMatchRuns, Active
<1>. QED  BY <1>2, <1>3

-----------------------------------------------------------------------------
(***************************************************************************)
(* The invariant, and the properties of searches that follow from it.      *)
(***************************************************************************)
LEMMA InitSearchInv == Init => SearchInv
<1>. SUFFICES ASSUME Init PROVE SearchInv
  OBVIOUS
<1>1. RunInv
  BY InitInv
<1>2. \A s \in SearchForms : search[s] = NoSearch
  BY DEF Init
<1>3. \A r \in RunIds : run[r] = NewRun
  BY DEF Init
<1>4. /\ NoSearch.status = "none" /\ NoSearch.runs = << >> /\ NoSearch.steps = << >>
      /\ NewRun.status = "none" /\ NewRun.search = None
      /\ None \notin SearchForms
  BY ShardIdFacts DEF NoSearch, NewRun
<1>5. PlannedByItsForm /\ RungsAreDistinct /\ LatestRungIsOpen /\ OneActiveRung /\ NoRungLost
  BY <1>2, <1>3, <1>4
     DEF PlannedByItsForm, RungsAreDistinct, LatestRungIsOpen, OneActiveRung, NoRungLost
<1>6. StepsMatchRuns
  BY <1>2, <1>3, <1>4 DEF StepsMatchRuns
<1>. QED  BY <1>1, <1>5, <1>6 DEF SearchInv

\* Steps that change no run, no search and no handler.
LEMMA BystandersPreserve ==
  ASSUME SearchInv, RunInv', UNCHANGED <<search, run, form>>,
         \A sh \in ShardIds : Following(sh) <=> Following(sh)',
         \A sh \in ShardIds : shard[sh] # "none" => shard'[sh] # "none"
  PROVE  SearchInv'
<1>1. \A r \in RunIds : RunGoesOn(r)
  BY DEF RunGoesOn, Active
<1>. QED  BY <1>1, GoesOnPreserves

LEMMA NextSearchInv == SearchInv /\ [Next]_vars => SearchInv'
<1>. SUFFICES ASSUME SearchInv, [Next]_vars PROVE SearchInv'
  OBVIOUS
<1>. USE DEF handlers
<1>0. RunInv /\ RunInv' /\ TypeOK
  BY NextInv DEF SearchInv, RunInv
<1>1. ASSUME NEW t \in Targets, CreateTarget(t) \/ DeleteTarget(t) PROVE SearchInv'
  BY <1>0, <1>1, BystandersPreserve DEF CreateTarget, DeleteTarget, Following
<1>2. ASSUME NEW f \in Forms, NEW t \in Targets, NEW n \in 1 .. MaxShards, CheckForm(f, t, n)
      PROVE  SearchInv'
  <2>1. \A s \in SearchForms : form'[s].stage \in {"new", "checked"} =>
                                 form[s].stage \in {"new", "checked"}
    BY <1>0, <1>2 DEF CheckForm, TypeOK, Forms
  <2>2. \A r \in RunIds : RunGoesOn(r)
    BY <1>2 DEF CheckForm, RunGoesOn, Active
  <2>. QED  BY <1>0, <1>2, <2>1, <2>2, GoesOnPreserves DEF CheckForm, Following
<1>3. ASSUME NEW f \in RunForms, CreateRun(f) PROVE SearchInv'
  BY <1>0, <1>3, CreateRunPreserves
<1>4. ASSUME NEW f \in RunForms, SampleNewRun(f) PROVE SearchInv'
  <2>1. \A s \in SearchForms : form'[s] = form[s]
    BY <1>0, <1>4, RunStoreAssumption DEF SampleNewRun, TypeOK, Forms
  <2>. QED  BY <1>0, <1>4, <2>1, MonitoredGoesOn, GoesOnPreserves DEF SampleNewRun, Following
<1>5. ASSUME NEW s \in SearchForms, CreateSearch(s) PROVE SearchInv'
  BY <1>0, <1>5, CreateSearchPreserves
<1>6. ASSUME NEW s \in SearchForms, CancelSearch(s) PROVE SearchInv'
  BY <1>0, <1>6, CancelSearchPreserves
<1>7. ASSUME NEW r \in RunIds, CancelRun(r) PROVE SearchInv'
  <2>1. CancelRuns({r}) /\ UNCHANGED <<search, form, report>>
    BY <1>7 DEF CancelRun
  <2>2. \A sh \in ShardIds : shard[sh] # "none" => shard'[sh] # "none"
    BY <1>0, <2>1, CancelRunsEffect
  <2>. QED  BY <1>0, <2>1, <2>2, CancelRunsGoesOn, GoesOnPreserves DEF Following
<1>8. ASSUME NEW r \in RunIds, SamplerAttach(r) PROVE SearchInv'
  BY <1>0, <1>8, MonitoredGoesOn, GoesOnPreserves DEF SamplerAttach, Following
<1>9. ASSUME NEW a \in Agents, ClaimRun(a) PROVE SearchInv'
  <2>1. PICK sh \in Claimable, dropped \in SUBSET Dead :
          /\ shard' = ShardsAfterClaim({sh}, dropped)
          /\ run' = RunsAfterClaim({sh}, dropped)
    BY <1>9 DEF ClaimRun
  <2>2. {sh} \in SUBSET Claimable
    OBVIOUS
  <2>3. \A x \in ShardIds : shard[x] # "none" => shard'[x] # "none"
    BY <2>1 DEF ShardsAfterClaim
  <2>4. \A r \in RunIds : RunGoesOn(r)
    BY <1>0, <2>1, <2>2, ClaimGoesOn
  <2>. QED  BY <1>0, <1>9, <2>3, <2>4, GoesOnPreserves DEF ClaimRun, Following
<1>10. ASSUME NEW a \in Agents, ClaimNothing(a) PROVE SearchInv'
  <2>1. \A x \in ShardIds : shard[x] # "none" => shard'[x] # "none"
    BY <1>10 DEF ClaimNothing, ShardsAfterClaim
  <2>2. \A r \in RunIds : RunGoesOn(r)
    BY <1>0, <1>10, ClaimGoesOn DEF ClaimNothing
  <2>. QED  BY <1>0, <1>10, <2>1, <2>2, GoesOnPreserves DEF ClaimNothing, Following
<1>11. ASSUME NEW a \in Agents, ObserveCancellation(a) \/ AgentCrash(a) \/ Publish(a)
       PROVE  SearchInv'
  BY <1>0, <1>11, BystandersPreserve DEF ObserveCancellation, AgentCrash, Publish, Following
<1>12. ASSUME NEW a \in Agents, FinishLoad(a) PROVE SearchInv'
  <2>1. agent[a].shard \in ShardIds /\ report[agent[a].shard] = "none"
    BY <1>0, <1>12, AgentFacts DEF FinishLoad
  <2>2. \A sh \in ShardIds : Following(sh) <=> Following(sh)'
    BY <1>0, <1>12, <2>1 DEF FinishLoad, TypeOK, Following
  <2>. QED  BY <1>0, <1>12, <2>2, BystandersPreserve DEF FinishLoad
<1>13. ASSUME NEW sh \in ShardIds, CompleteShard(sh) PROVE SearchInv'
  <2>1. CASE run[RunOf(sh)].status # "cancelled" /\ ~OthersOutstanding(sh)
    BY <1>0, <1>13, <2>1, LastShardPreserves
  <2>2. CASE run[RunOf(sh)].status = "cancelled" \/ OthersOutstanding(sh)
    <3>1. \A x \in ShardIds : Following(x) <=> Following(x)'
      BY <1>0, <1>13, <2>2 DEF CompleteShard, TypeOK, Following
    <3>2. \A x \in ShardIds : shard[x] # "none" => shard'[x] # "none"
      BY <1>0, <1>13 DEF CompleteShard, TypeOK
    <3>. QED  BY <1>0, <1>13, <2>2, <3>1, <3>2, BystandersPreserve DEF CompleteShard
  <2>. QED  BY <2>1, <2>2
<1>14. ASSUME NEW sh \in ShardIds, SampleCompletedRun(sh) PROVE SearchInv'
  <2>1. \A x \in ShardIds : Following(x) <=> Following(x)'
    BY <1>0, <1>14 DEF SampleCompletedRun, TypeOK, Following
  <2>. QED  BY <1>0, <1>14, <2>1, MonitoredGoesOn, GoesOnPreserves DEF SampleCompletedRun
<1>15. ASSUME NEW sh \in ShardIds, AdvanceSearch(sh) PROVE SearchInv'
  BY <1>0, <1>15, AdvanceSearchKeepsSearches
<1>16. ASSUME NEW sh \in ShardIds, LoseReport(sh) PROVE SearchInv'
  <2>1. \A x \in ShardIds : Following(x) <=> Following(x)'
    BY <1>0, <1>16 DEF LoseReport, TypeOK, Following
  <2>. QED  BY <1>0, <1>16, <2>1, BystandersPreserve DEF LoseReport
<1>17. ASSUME NEW sh \in ShardIds, SetShardProgress(sh) \/ LoseProgress(sh) PROVE SearchInv'
  BY <1>0, <1>17, BystandersPreserve DEF SetShardProgress, LoseProgress, Following
<1>18. ASSUME SamplerTick PROVE SearchInv'
  BY <1>0, <1>18, BystandersPreserve DEF SamplerTick, Following
<1>19. CASE UNCHANGED vars
  BY <1>0, <1>19, BystandersPreserve DEF vars, Following
<1>. QED
  BY <1>1, <1>2, <1>3, <1>4, <1>5, <1>6, <1>7, <1>8, <1>9, <1>10, <1>11, <1>12, <1>13, <1>14,
     <1>15, <1>16, <1>17, <1>18, <1>19 DEF Next

\* SearchInv holds in every reachable state.
THEOREM SearchSafety == Spec => []SearchInv
BY InitSearchInv, NextSearchInv, PTL DEF Spec

(***************************************************************************)
(* "Only one step of an automatic job is queued at once": no interleaving  *)
(* of results, cancellations and AdvanceSearch gives a search a second     *)
(* active run, or leaves a search that is over with one.                   *)
(***************************************************************************)
THEOREM OneRungAtATime == Spec => []OneActiveRung
<1>1. SearchInv => OneActiveRung
  BY DEF SearchInv
<1>. QED  BY SearchSafety, <1>1, PTL

(***************************************************************************)
(* Between CompleteShard and AdvanceSearch a running search always has     *)
(* somebody who will go on with it, unless its rung was cancelled.         *)
(***************************************************************************)
THEOREM SearchesAreNotForgotten == Spec => []NoRungLost
<1>1. SearchInv => NoRungLost
  BY DEF SearchInv
<1>. QED  BY SearchSafety, <1>1, PTL

(***************************************************************************)
(* Every step of a search's curve is the verdict and the load of the run   *)
(* the search made for it, in order, and no run of it goes unlisted.       *)
(***************************************************************************)
THEOREM CurvesAreTheRunsMade == Spec => []StepsMatchRuns
<1>1. SearchInv => StepsMatchRuns
  BY DEF SearchInv
<1>. QED  BY SearchSafety, <1>1, PTL

-----------------------------------------------------------------------------
(***************************************************************************)
(* The ladder a search climbs while the store is shared: LadderInv.        *)
(***************************************************************************)
Rungs == SweepLadder(StartLoad, MaxLoad)

LEMMA RungFacts ==
  /\ Rungs \subseteq Nat \ {0} /\ Rungs \subseteq StartLoad .. MaxLoad
  /\ StartLoad \in Rungs
  /\ \A rung \in Rungs : ~(rung < StartLoad)
<1>1. StartLoad \in Nat \ {0} /\ MaxLoad \in Nat /\ StartLoad <= MaxLoad
  BY RunStoreAssumption
<1>2. Rungs \subseteq StartLoad .. MaxLoad /\ MaxLoad \in Rungs
  BY <1>1, SweepLadderBounds DEF Rungs
<1>3. StartLoad \in Rungs
  <2>1. CASE StartLoad = MaxLoad
    BY <1>2, <2>1
  <2>2. CASE StartLoad < MaxLoad
    <3>1. 0 \in 0 .. MaxDoublings - 1
      BY DEF MaxDoublings
    <3>2. 2 ^ 0 = 1
      BY SMT
    <3>3. StartLoad = StartLoad * 2 ^ 0
      BY <1>1, <3>2
    <3>4. StartLoad \in {StartLoad * 2 ^ k : k \in 0 .. MaxDoublings - 1}
      BY <3>1, <3>3, Zenon
    <3>5. StartLoad \in StartLoad .. MaxLoad - 1 /\ ~(StartLoad < 1) /\ ~(MaxLoad < StartLoad)
      BY <1>1, <2>2
    <3>. QED  BY <3>4, <3>5, Zenon DEF Rungs, SweepLadder
  <2>. QED  BY <1>1, <2>1, <2>2
<1>. QED  BY <1>1, <1>2, <1>3

LEMMA LadderOfSearch ==
  ASSUME TypeOK, NEW s \in SearchForms
  PROVE  LadderOf(s) = Rungs
BY DEF TypeOK, Search, LadderOf, Rungs

\* The load of a run is fixed when it is queued.
LEMMA LoadsStay ==
  ASSUME TypeOK, [Next]_vars, NEW r \in RunIds, run[r].status # "none"
  PROVE  run'[r].load = run[r].load
<1>. USE DEF handlers
<1>0. run[r] \in Run /\ run \in [RunIds -> Run]
  BY DEF TypeOK
<1>1. CASE UNCHANGED run
  BY <1>1
<1>2. ASSUME NEW q, run' = Monitored(q) PROVE run'[r].load = run[r].load
  BY <1>0, <1>2 DEF Monitored, Run
<1>3. ASSUME NEW q, NEW t, NEW n, NEW s, NEW load, QueueRun(q, t, n, s, load)
      PROVE  run'[r].load = run[r].load
  <2>1. PICK free \in RunIds : run[free].status = "none"
    BY <1>3 DEF QueueRun
  <2>2. q # r
    BY <1>3, <2>1 DEF QueueRun, FreshRun
  <2>. QED  BY <1>0, <1>3, <2>2 DEF QueueRun
<1>4. ASSUME NEW R, CancelRuns(R) PROVE run'[r].load = run[r].load
  BY <1>0, <1>4 DEF CancelRuns, Run
<1>5. ASSUME NEW taken, NEW dropped, run' = RunsAfterClaim(taken, dropped)
      PROVE  run'[r].load = run[r].load
  BY <1>0, <1>5 DEF RunsAfterClaim, Run
<1>6. ASSUME NEW sh \in ShardIds, CompleteShard(sh) PROVE run'[r].load = run[r].load
  <2>1. CASE \E stable \in BOOLEAN :
               run' = [run EXCEPT ![RunOf(sh)].status = "completed", ![RunOf(sh)].stable = stable]
    BY <1>0, <2>1, ShardIdFacts DEF Run
  <2>2. UNCHANGED run \/ \E stable \in BOOLEAN :
          run' = [run EXCEPT ![RunOf(sh)].status = "completed", ![RunOf(sh)].stable = stable]
    BY <1>6, Zenon DEF CompleteShard
  <2>. QED  BY <2>1, <2>2
<1>7. \/ UNCHANGED run
      \/ \E q : run' = Monitored(q)
      \/ \E q, t, n, s, load : QueueRun(q, t, n, s, load)
      \/ \E R : CancelRuns(R)
      \/ \E taken, dropped : run' = RunsAfterClaim(taken, dropped)
      \/ \E sh \in ShardIds : CompleteShard(sh)
  <2>1. CASE UNCHANGED vars
    BY <2>1 DEF vars
  <2>2. ASSUME NEW t \in Targets, CreateTarget(t) \/ DeleteTarget(t) PROVE UNCHANGED run
    BY <2>2 DEF CreateTarget, DeleteTarget
  <2>3. ASSUME NEW f \in Forms, NEW t \in Targets, NEW n \in 1 .. MaxShards, CheckForm(f, t, n)
        PROVE  UNCHANGED run
    BY <2>3 DEF CheckForm
  <2>4. ASSUME NEW f \in RunForms, CreateRun(f)
        PROVE  \E q, t, n, s, load : QueueRun(q, t, n, s, load)
    BY <2>4, Zenon DEF CreateRun
  <2>5. ASSUME NEW f \in RunForms, SampleNewRun(f) PROVE \E q : run' = Monitored(q)
    BY <2>5, Zenon DEF SampleNewRun
  <2>6. ASSUME NEW f \in SearchForms, CreateSearch(f)
        PROVE  \E q, t, n, s, load : QueueRun(q, t, n, s, load)
    BY <2>6, Zenon DEF CreateSearch
  <2>7. ASSUME NEW f \in SearchForms, CancelSearch(f) PROVE \E R : CancelRuns(R)
    BY <2>7, Zenon DEF CancelSearch
  <2>8. ASSUME NEW q \in RunIds, CancelRun(q) PROVE \E R : CancelRuns(R)
    BY <2>8, Zenon DEF CancelRun
  <2>9. ASSUME NEW q \in RunIds, SamplerAttach(q) PROVE \E x : run' = Monitored(x)
    BY <2>9, Zenon DEF SamplerAttach
  <2>10. ASSUME NEW a \in Agents, ClaimRun(a) \/ ClaimNothing(a)
         PROVE  \E taken, dropped : run' = RunsAfterClaim(taken, dropped)
    BY <2>10, Zenon DEF ClaimRun, ClaimNothing
  <2>11. ASSUME NEW a \in Agents,
                ObserveCancellation(a) \/ FinishLoad(a) \/ AgentCrash(a) \/ Publish(a)
         PROVE  UNCHANGED run
    BY <2>11 DEF ObserveCancellation, FinishLoad, AgentCrash, Publish
  <2>12. ASSUME NEW sh \in ShardIds, SampleCompletedRun(sh) PROVE \E q : run' = Monitored(q)
    BY <2>12, Zenon DEF SampleCompletedRun
  <2>13. ASSUME NEW sh \in ShardIds, AdvanceSearch(sh)
         PROVE  UNCHANGED run \/ \E q, t, n, s, load : QueueRun(q, t, n, s, load)
    BY <2>13, Zenon DEF AdvanceSearch
  <2>14. ASSUME NEW sh \in ShardIds, LoseReport(sh) \/ SetShardProgress(sh) \/ LoseProgress(sh)
         PROVE  UNCHANGED run
    BY <2>14 DEF LoseReport, SetShardProgress, LoseProgress
  <2>15. ASSUME SamplerTick PROVE UNCHANGED run
    BY <2>15 DEF SamplerTick
  <2>. QED
    BY <2>1, <2>2, <2>3, <2>4, <2>5, <2>6, <2>7, <2>8, <2>9, <2>10, <2>11, <2>12, <2>13, <2>14,
       <2>15, Zenon DEF Next
<1>. QED  BY <1>1, <1>2, <1>3, <1>4, <1>5, <1>6, <1>7, Zenon

\* Who changes a search.
LEMMA SearchesMove ==
  ASSUME [Next]_vars
  PROVE  \/ UNCHANGED search
         \/ \E s \in SearchForms : CreateSearch(s) \/ CancelSearch(s)
         \/ \E sh \in ShardIds : AdvanceSearch(sh)
<1>. USE DEF handlers
<1>1. CASE UNCHANGED vars
  BY <1>1 DEF vars
<1>2. ASSUME NEW t \in Targets, CreateTarget(t) \/ DeleteTarget(t) PROVE UNCHANGED search
  BY <1>2 DEF CreateTarget, DeleteTarget
<1>3. ASSUME NEW f \in Forms, NEW t \in Targets, NEW n \in 1 .. MaxShards, CheckForm(f, t, n)
      PROVE  UNCHANGED search
  BY <1>3 DEF CheckForm
<1>4. ASSUME NEW f \in RunForms, CreateRun(f) \/ SampleNewRun(f) PROVE UNCHANGED search
  BY <1>4 DEF CreateRun, SampleNewRun
<1>5. ASSUME NEW r \in RunIds, CancelRun(r) \/ SamplerAttach(r) PROVE UNCHANGED search
  BY <1>5 DEF CancelRun, SamplerAttach
<1>6. ASSUME NEW a \in Agents, \/ ClaimRun(a) \/ ClaimNothing(a) \/ ObserveCancellation(a)
                               \/ FinishLoad(a) \/ AgentCrash(a) \/ Publish(a)
      PROVE  UNCHANGED search
  BY <1>6 DEF ClaimRun, ClaimNothing, ObserveCancellation, FinishLoad, AgentCrash, Publish
<1>7. ASSUME NEW sh \in ShardIds, \/ CompleteShard(sh) \/ SampleCompletedRun(sh)
                                  \/ LoseReport(sh) \/ SetShardProgress(sh) \/ LoseProgress(sh)
      PROVE  UNCHANGED search
  BY <1>7 DEF CompleteShard, SampleCompletedRun, LoseReport, SetShardProgress, LoseProgress
<1>8. ASSUME SamplerTick PROVE UNCHANGED search
  BY <1>8 DEF SamplerTick
<1>. QED  BY <1>1, <1>2, <1>3, <1>4, <1>5, <1>6, <1>7, <1>8, Zenon DEF Next

\* The rung AdvanceSearch names is the lowest above the one it records; with
\* none named, the capacity is computed from every step.
LEMMA NextRung ==
  ASSUME NEW s \in Search, NEW step \in Step, NEW next, next = Advance(s, step)
  PROVE  \/ next.nextLoad = 0 /\ next.recommended = KneeLoad(next.steps)
         \/ /\ next.nextLoad \in Rungs /\ next.nextLoad > step.load
            /\ \A rung \in Rungs : rung > step.load => next.nextLoad <= rung
<1>. DEFINE recorded == Recorded(s, step)
            above    == {rung \in Rungs : rung > step.load}
<1>1. {"status", "steps", "nextLoad", "recommended", "provision"} \subseteq DOMAIN recorded
  BY DEF Recorded, Search
<1>2. RungsAbove(s, step.load) = above
  BY DEF RungsAbove, Rungs, Search
<1>3. next = IF ShouldStop(recorded, step) \/ above = {}
               THEN FinishSearch(recorded)
               ELSE [recorded EXCEPT !.nextLoad = Min(above)]
  BY <1>2 DEF Advance
<1>. HIDE DEF recorded
<1>4. /\ FinishSearch(recorded).steps = recorded.steps
      /\ FinishSearch(recorded).nextLoad = 0
      /\ FinishSearch(recorded).recommended = KneeLoad(recorded.steps)
  BY <1>1 DEF FinishSearch
<1>5. [recorded EXCEPT !.nextLoad = Min(above)].nextLoad = Min(above)
  BY <1>1
<1>6. above # {} => Min(above) \in above /\ \A rung \in above : Min(above) <= rung
  <2>1. above \subseteq Nat
    BY RungFacts
  <2>. HIDE DEF above
  <2>. QED  BY <2>1, MinOfNats
<1>7. CASE next = FinishSearch(recorded)
  BY <1>4, <1>7
<1>8. CASE above # {} /\ next = [recorded EXCEPT !.nextLoad = Min(above)]
  BY <1>5, <1>6, <1>8
<1>. QED  BY <1>3, <1>7, <1>8

\* Steps that list no new run leave the climb as it is.
LEMMA SameRunsClimb ==
  ASSUME LadderInv, SearchInv', [Next]_vars,
         \A s \in SearchForms : search'[s].runs = search[s].runs
  PROVE  RungsClimbTheLadder'
<1>0. TypeOK /\ TypeOK' /\ SearchInv
  BY DEF LadderInv, SearchInv, RunInv
<1>. SUFFICES ASSUME NEW s \in SearchForms, NEW i \in DOMAIN search[s].runs
              PROVE  /\ RungLoad(s, i)' \in LadderOf(s)'
                     /\ \A rung \in LadderOf(s)' :
                          rung < RungLoad(s, i)' <=> \E j \in 1 .. i - 1 : RungLoad(s, j)' = rung
  BY DEF RungsClimbTheLadder
<1>1. LadderOf(s) = Rungs /\ LadderOf(s)' = Rungs
  <2>1. LadderOf(s) = Rungs
    BY <1>0, LadderOfSearch
  <2>2. search'[s] \in Search
    BY <1>0 DEF TypeOK
  <2>3. LadderOf(s)' = Rungs
    BY <2>2 DEF LadderOf, Rungs, Search
  <2>. QED  BY <2>1, <2>3
<1>2. \A j \in DOMAIN search[s].runs : RungLoad(s, j)' = RungLoad(s, j)
  <2>. SUFFICES ASSUME NEW j \in DOMAIN search[s].runs
                PROVE  run'[search'[s].runs[j]].load = run[search[s].runs[j]].load
    BY DEF RungLoad
  <2>1. search[s].runs[j] \in RunIds /\ run[search[s].runs[j]].status # "none"
    BY <1>0, ListedRunFacts
  <2>. QED  BY <1>0, <2>1, LoadsStay
<1>3. i \in 1 .. Len(search[s].runs) /\ \A j \in 1 .. i - 1 : j \in DOMAIN search[s].runs
  <2>1. DOMAIN search[s].runs = 1 .. Len(search[s].runs) /\ Len(search[s].runs) \in Nat
    BY <1>0, SearchFacts
  <2>. QED  BY <2>1
<1>4. /\ RungLoad(s, i) \in Rungs
      /\ \A rung \in Rungs : rung < RungLoad(s, i) <=> \E j \in 1 .. i - 1 : RungLoad(s, j) = rung
  BY <1>1, Zenon DEF LadderInv, RungsClimbTheLadder
<1>. QED  BY <1>1, <1>2, <1>3, <1>4, Zenon

\* A run is queued with the lowest rung above those measured.
LEMMA RungQueuedClimbs ==
  ASSUME LadderInv, SearchInv', [Next]_vars, NEW s \in SearchForms, NEW r \in RunIds,
         NEW t, NEW n, NEW load \in Rungs, QueueRun(r, t, n, s, load),
         NEW next, search' = [search EXCEPT ![s] = next],
         next.runs = Append(search[s].runs, r),
         \A rung \in Rungs :
           rung < load <=> \E j \in DOMAIN search[s].runs : RungLoad(s, j) = rung
  PROVE  RungsClimbTheLadder'
<1>. DEFINE runs == search[s].runs
<1>0. TypeOK /\ TypeOK' /\ SearchInv
  BY DEF LadderInv, SearchInv, RunInv
<1>1. /\ search'[s] = next /\ \A q \in SearchForms \ {s} : search'[q] = search[q]
  BY <1>0 DEF TypeOK
<1>2. \A q \in SearchForms : LadderOf(q) = Rungs /\ LadderOf(q)' = Rungs
  <2>. TAKE q \in SearchForms
  <2>1. LadderOf(q) = Rungs
    BY <1>0, LadderOfSearch
  <2>2. search'[q] \in Search
    BY <1>0 DEF TypeOK
  <2>3. LadderOf(q)' = Rungs
    BY <2>2 DEF LadderOf, Rungs, Search
  <2>. QED  BY <2>1, <2>3
<1>3. /\ \A q \in SearchForms : /\ DOMAIN search[q].runs = 1 .. Len(search[q].runs)
                                /\ Len(search[q].runs) \in Nat
      /\ runs \in Seq(RunIds)
  BY <1>0, SearchFacts
<1>4. \A q \in SearchForms : \A j \in DOMAIN search[q].runs :
        run'[search[q].runs[j]].load = run[search[q].runs[j]].load
  <2>. TAKE q \in SearchForms
  <2>. TAKE j \in DOMAIN search[q].runs
  <2>1. search[q].runs[j] \in RunIds /\ run[search[q].runs[j]].status # "none"
    BY <1>0, ListedRunFacts
  <2>. QED  BY <1>0, <2>1, LoadsStay
<1>5. run'[r].load = load
  <2>1. run'[r] = [NewRun EXCEPT !.status = "queued", !.target = t, !.search = s, !.load = load]
    BY <1>0 DEF QueueRun, TypeOK
  <2>. QED  BY <2>1 DEF NewRun
<1>6. /\ DOMAIN next.runs = 1 .. Len(runs) + 1
      /\ \A j \in DOMAIN runs : next.runs[j] = runs[j]
      /\ next.runs[Len(runs) + 1] = r
  BY <1>3
<1>. DEFINE now(q, j)  == run[search[q].runs[j]].load
            then(q, j) == run'[search'[q].runs[j]].load
<1>7. /\ \A j \in DOMAIN runs : then(s, j) = now(s, j)
      /\ then(s, Len(runs) + 1) = load
  BY <1>1, <1>4, <1>5, <1>6
<1>8. \A q \in SearchForms \ {s} : \A j \in DOMAIN search[q].runs : then(q, j) = now(q, j)
  BY <1>1, <1>4
<1>9. \A q \in SearchForms : \A i \in DOMAIN search[q].runs :
        /\ now(q, i) \in Rungs
        /\ \A rung \in Rungs : rung < now(q, i) <=> \E j \in 1 .. i - 1 : now(q, j) = rung
  <2>. TAKE q \in SearchForms
  <2>1. LadderOf(q) = Rungs
    BY <1>2
  <2>. QED  BY <2>1, Zenon DEF LadderInv, RungsClimbTheLadder, RungLoad
<1>10. \A q \in SearchForms : \A i \in DOMAIN search[q].runs :
         \A j \in 1 .. i - 1 : j \in DOMAIN search[q].runs
  BY <1>3
<1>11. \A rung \in Rungs : rung < load <=> \E j \in DOMAIN runs : now(s, j) = rung
  BY DEF RungLoad
<1>12. ASSUME NEW q \in SearchForms, NEW i \in DOMAIN search'[q].runs
       PROVE  /\ then(q, i) \in Rungs
              /\ \A rung \in Rungs :
                   rung < then(q, i) <=> \E j \in 1 .. i - 1 : then(q, j) = rung
  <2>1. i \in DOMAIN runs \/ q # s \/ i = Len(runs) + 1
    BY <1>1, <1>3, <1>6
  <2>. HIDE DEF now, then
  <2>2. ASSUME i \in DOMAIN search[q].runs,
               \A j \in DOMAIN search[q].runs : then(q, j) = now(q, j)
        PROVE  /\ then(q, i) \in Rungs
               /\ \A rung \in Rungs :
                    rung < then(q, i) <=> \E j \in 1 .. i - 1 : then(q, j) = rung
    <3>1. /\ now(q, i) \in Rungs
          /\ \A rung \in Rungs : rung < now(q, i) <=> \E j \in 1 .. i - 1 : now(q, j) = rung
      BY <1>9, <2>2
    <3>2. then(q, i) = now(q, i)
      BY <2>2
    <3>3. \A j \in 1 .. i - 1 : then(q, j) = now(q, j)
      BY <1>10, <2>2
    <3>. QED  BY <3>1, <3>2, <3>3
  <2>3. CASE q # s
    BY <1>1, <1>8, <2>2, <2>3
  <2>4. CASE q = s /\ i \in DOMAIN runs
    BY <1>7, <2>2, <2>4
  <2>5. CASE q = s /\ i = Len(runs) + 1
    <3>1. 1 .. i - 1 = DOMAIN runs
      BY <1>3, <2>5
    <3>2. then(q, i) = load
      BY <1>7, <2>5
    <3>3. \A j \in 1 .. i - 1 : then(q, j) = now(q, j)
      BY <1>7, <2>5, <3>1
    <3>. QED  BY <1>11, <2>5, <3>1, <3>2, <3>3
  <2>. QED  BY <2>1, <2>3, <2>4, <2>5
<1>13. ASSUME NEW q \in SearchForms, NEW i \in DOMAIN search'[q].runs
       PROVE  /\ RungLoad(q, i)' \in LadderOf(q)'
              /\ \A rung \in LadderOf(q)' :
                   rung < RungLoad(q, i)' <=> \E j \in 1 .. i - 1 : RungLoad(q, j)' = rung
  <2>1. LadderOf(q)' = Rungs
    BY <1>2
  <2>2. then(q, i) \in LadderOf(q)'
    BY <1>12, <2>1
  <2>3. \A rung \in LadderOf(q)' :
          rung < then(q, i) <=> \E j \in 1 .. i - 1 : then(q, j) = rung
    BY <1>12, <2>1
  <2>. QED  BY <2>2, <2>3 DEF RungLoad
<1>. QED  BY <1>13 DEF RungsClimbTheLadder

LEMMA CreateSearchClimbs ==
  ASSUME LadderInv, SearchInv', [Next]_vars, NEW s \in SearchForms, CreateSearch(s)
  PROVE  RungsClimbTheLadder' /\ CompletedWithAllSteps'
<1>0. TypeOK /\ SearchInv /\ search[s] \in Search
  BY SearchFacts DEF LadderInv, SearchInv, RunInv
<1>. DEFINE planned(r) == [PlannedSearch(search[s]) EXCEPT !.target = form[s].target,
                                                          !.shards = form[s].shards, !.runs = <<r>>]
<1>1. PICK r \in RunIds :
        /\ QueueRun(r, form[s].target, form[s].shards, s, StartLoad)
        /\ search' = [search EXCEPT ![s] = planned(r)]
  BY DEF CreateSearch
<1>2. search[s].runs = << >>
  BY <1>0 DEF SearchInv, PlannedByItsForm, CreateSearch
<1>3. planned(r).status = "running" /\ planned(r).runs = Append(search[s].runs, r)
  BY <1>0, <1>2 DEF PlannedSearch, Search
<1>. HIDE DEF planned
<1>4. \A rung \in Rungs :
        rung < StartLoad <=> \E j \in DOMAIN search[s].runs : RungLoad(s, j) = rung
  BY <1>2, RungFacts
<1>5. RungsClimbTheLadder'
  BY <1>1, <1>3, <1>4, RungFacts, RungQueuedClimbs
<1>6. search'[s] = planned(r) /\ \A q \in SearchForms \ {s} : search'[q] = search[q]
  BY <1>0, <1>1 DEF TypeOK
<1>. QED  BY <1>3, <1>5, <1>6 DEF LadderInv, CompletedWithAllSteps

LEMMA AdvanceSearchClimbs ==
  ASSUME LadderInv, SearchInv', [Next]_vars, NEW sh \in ShardIds, AdvanceSearch(sh)
  PROVE  RungsClimbTheLadder' /\ CompletedWithAllSteps'
<1>. DEFINE r    == RunOf(sh)
            step == [run |-> r, load |-> run[r].load, stable |-> run[r].stable]
<1>0. TypeOK /\ SearchInv /\ report[sh] = "advance"
  BY DEF LadderInv, SearchInv, RunInv, AdvanceSearch
<1>1. CASE ~WantsAdvance(r)
  <2>1. UNCHANGED search
    BY <1>1 DEF AdvanceSearch
  <2>. QED  BY <2>1, SameRunsClimb DEF LadderInv, CompletedWithAllSteps
<1>2. CASE WantsAdvance(r)
  <2>1. PICK s : s = run[r].search
    OBVIOUS
  <2>2. PICK next : next = Advance(search[s], step)
    OBVIOUS
  <2>3. /\ s \in SearchForms /\ search[s].status = "running" /\ r = LatestRun(s)
        /\ step \in Step
        /\ Len(Append(search[s].steps, step)) = Len(search[s].runs)
    BY <1>0, <1>2, <2>1, AdvancingTheLatest
  <2>4. search[s] \in Search
    BY <1>0, <2>3, SearchFacts
  <2>5. /\ next \in Search
        /\ next.steps = Append(search[s].steps, step)
        /\ next.runs = search[s].runs
        /\ \/ next.nextLoad = 0 /\ next.status = "completed"
           \/ next.nextLoad # 0 /\ next.status = "running"
        /\ \/ next.nextLoad = 0 /\ next.recommended = KneeLoad(next.steps)
           \/ /\ next.nextLoad \in Rungs /\ next.nextLoad > step.load
              /\ \A rung \in Rungs : rung > step.load => next.nextLoad <= rung
    <3>. HIDE DEF step
    <3>1. /\ next.steps = Append(search[s].steps, step)
          /\ next.runs = search[s].runs
          /\ \/ next.nextLoad = 0 /\ next.status = "completed"
             \/ next.nextLoad # 0 /\ next.status = "running"
      BY <2>2, <2>3, <2>4, AdvanceOutcome
    <3>2. next \in Search
      BY <2>2, <2>3, <2>4, AdvanceType
    <3>3. \/ next.nextLoad = 0 /\ next.recommended = KneeLoad(next.steps)
          \/ /\ next.nextLoad \in Rungs /\ next.nextLoad > step.load
             /\ \A rung \in Rungs : rung > step.load => next.nextLoad <= rung
      BY <2>2, <2>3, <2>4, NextRung
    <3>. QED  BY <3>1, <3>2, <3>3
  <2>6. CASE next.nextLoad = 0
    <3>1. search' = [search EXCEPT ![s] = next]
      BY <1>2, <2>1, <2>2, <2>6 DEF AdvanceSearch
    <3>2. search'[s] = next /\ \A q \in SearchForms \ {s} : search'[q] = search[q]
      BY <1>0, <2>3, <3>1 DEF TypeOK
    <3>3. RungsClimbTheLadder'
      <4>. HIDE DEF step, r
      <4>. QED  BY <2>5, <3>2, SameRunsClimb
    <3>4. next.recommended = KneeLoad(next.steps)
      <4>. HIDE DEF step, r
      <4>. QED  BY <2>5, <2>6, RungFacts
    <3>5. Len(next.steps) = Len(next.runs)
      BY <2>3, <2>5
    <3>. HIDE DEF step, r
    <3>. QED  BY <3>2, <3>3, <3>4, <3>5 DEF LadderInv, CompletedWithAllSteps
  <2>7. CASE next.nextLoad # 0
    <3>1. PICK q \in RunIds :
            /\ QueueRun(q, search[s].target, search[s].shards, s, next.nextLoad)
            /\ search' = [search EXCEPT ![s] = WithRun(next, q)]
      BY <1>2, <2>1, <2>2, <2>7 DEF AdvanceSearch
    <3>2. PICK rung : rung = WithRun(next, q)
      OBVIOUS
    <3>3. rung.status = "running" /\ rung.runs = Append(search[s].runs, q)
      BY <2>5, <2>7, <3>2 DEF WithRun, Search
    <3>. DEFINE n    == Len(search[s].runs)
                load == next.nextLoad
    <3>4. /\ load \in Rungs /\ step.load < load
          /\ \A x \in Rungs : x > step.load => load <= x
      BY <2>5, <2>7
    <3>5. /\ n \in Nat /\ n \in DOMAIN search[s].runs /\ DOMAIN search[s].runs = 1 .. n
          /\ RungLoad(s, n) = step.load
      <4>1. n \in DOMAIN search[s].runs
        BY <1>0, <2>3, LatestRunFacts
      <4>2. n \in Nat /\ DOMAIN search[s].runs = 1 .. n
        BY <1>0, <2>3, SearchFacts
      <4>. QED  BY <2>3, <4>1, <4>2 DEF LatestRun, RungLoad
    <3>6. /\ step.load \in Rungs
          /\ \A x \in Rungs : x < step.load <=> \E j \in 1 .. n - 1 : RungLoad(s, j) = x
      <4>1. LadderOf(s) = Rungs
        BY <1>0, <2>3, LadderOfSearch
      <4>2. /\ RungLoad(s, n) \in Rungs
            /\ \A x \in Rungs : x < RungLoad(s, n) <=> \E j \in 1 .. n - 1 : RungLoad(s, j) = x
        <5>. HIDE DEF n
        <5>. QED  BY <2>3, <3>5, <4>1, Zenon DEF LadderInv, RungsClimbTheLadder
      <4>. QED  BY <3>5, <4>2
    <3>7. ASSUME NEW x \in Rungs
          PROVE  x < load <=> \E j \in DOMAIN search[s].runs : RungLoad(s, j) = x
      <4>1. x < load <=> x < step.load \/ x = step.load
        <5>1. x \in Nat /\ step.load \in Nat /\ load \in Nat
          BY <3>4, <3>6, RungFacts
        <5>. HIDE DEF load, step
        <5>. QED  BY <3>4, <5>1
      <4>2. \A j : j \in 1 .. n <=> j \in 1 .. n - 1 \/ j = n
        <5>. HIDE DEF n
        <5>. QED  BY <3>5
      <4>. HIDE DEF n, step, load
      <4>. QED  BY <3>5, <3>6, <4>1, <4>2
    <3>8. RungsClimbTheLadder'
      <4>1. search' = [search EXCEPT ![s] = rung]
        BY <3>1, <3>2
      <4>. HIDE DEF step, r
      <4>. QED  BY <2>3, <3>1, <3>3, <3>4, <3>7, <4>1, RungQueuedClimbs
    <3>9. search'[s] = rung /\ \A x \in SearchForms \ {s} : search'[x] = search[x]
      BY <1>0, <2>3, <3>1, <3>2 DEF TypeOK
    <3>. HIDE DEF step, r
    <3>. QED  BY <3>3, <3>8, <3>9 DEF LadderInv, CompletedWithAllSteps
  <2>. QED  BY <2>6, <2>7
<1>. QED  BY <1>1, <1>2

LEMMA NextLadderInv == LadderInv /\ [Next]_vars => LadderInv'
<1>. SUFFICES ASSUME LadderInv, [Next]_vars PROVE RungsClimbTheLadder' /\ CompletedWithAllSteps'
  BY NextSearchInv DEF LadderInv
<1>0. SearchInv' /\ TypeOK
  BY NextSearchInv DEF LadderInv, SearchInv, RunInv
<1>1. CASE UNCHANGED search
  BY <1>0, <1>1, SameRunsClimb DEF LadderInv, CompletedWithAllSteps
<1>2. ASSUME NEW s \in SearchForms, CreateSearch(s)
      PROVE  RungsClimbTheLadder' /\ CompletedWithAllSteps'
  BY <1>0, <1>2, CreateSearchClimbs
<1>3. ASSUME NEW s \in SearchForms, CancelSearch(s)
      PROVE  RungsClimbTheLadder' /\ CompletedWithAllSteps'
  <2>1. search'[s] = [search[s] EXCEPT !.status = "cancelled"]
        /\ \A q \in SearchForms \ {s} : search'[q] = search[q]
    BY <1>0, <1>3 DEF CancelSearch, TypeOK
  <2>2. search[s] \in Search
    BY <1>0, SearchFacts
  <2>3. search'[s].runs = search[s].runs /\ search'[s].status = "cancelled"
    BY <2>1, <2>2 DEF Search
  <2>4. \A q \in SearchForms : search'[q].runs = search[q].runs
    BY <2>1, <2>3
  <2>. QED  BY <1>0, <2>1, <2>3, <2>4, SameRunsClimb DEF LadderInv, CompletedWithAllSteps
<1>4. ASSUME NEW sh \in ShardIds, AdvanceSearch(sh)
      PROVE  RungsClimbTheLadder' /\ CompletedWithAllSteps'
  BY <1>0, <1>4, AdvanceSearchClimbs
<1>. QED  BY <1>1, <1>2, <1>3, <1>4, SearchesMove

LEMMA InitLadderInv == Init => LadderInv
<1>. SUFFICES ASSUME Init PROVE RungsClimbTheLadder /\ CompletedWithAllSteps
  BY InitSearchInv DEF LadderInv
<1>1. \A s \in SearchForms : search[s].runs = << >> /\ search[s].status = "none"
  BY DEF Init, NoSearch
<1>. QED  BY <1>1 DEF RungsClimbTheLadder, CompletedWithAllSteps

\* LadderInv holds in every reachable state.
THEOREM LadderSafety == Spec => []LadderInv
BY InitLadderInv, NextLadderInv, PTL DEF Spec

(***************************************************************************)
(* Whatever results, cancellations, lost messages and other searches' runs *)
(* come between two AdvanceSearch calls of a search, its runs load the     *)
(* target with the rungs of its ladder from the bottom up, none skipped    *)
(* and none twice.                                                         *)
(***************************************************************************)
THEOREM NoRungIsSkipped == Spec => []RungsClimbTheLadder
<1>1. LadderInv => RungsClimbTheLadder
  BY DEF LadderInv
<1>. QED  BY LadderSafety, <1>1, PTL

(***************************************************************************)
(* A completed search reports exactly what the store's runs show (KneeLoad *)
(* and finishSearch in search.go): each rung of its ladder up to the       *)
(* capacity has a run that held, and the lowest run above it did not,      *)
(* although the steps the knee is computed from were copied by handlers    *)
(* that ran between everybody else's requests.                             *)
(***************************************************************************)
THEOREM CapacitiesAreWhatHeld == Spec => []CapacityIsWhatHeld
<1>1. LadderInv => CapacityIsWhatHeld
  <2>. SUFFICES ASSUME LadderInv, NEW s \in SearchForms, search[s].status = "completed",
                       NEW runs, runs = search[s].runs,
                       NEW capacity, capacity = search[s].recommended
                PROVE  /\ capacity \in {0} \cup {RungLoad(s, i) : i \in DOMAIN runs}
                       /\ \A rung \in LadderOf(s) : rung <= capacity =>
                            \E i \in DOMAIN runs : RungLoad(s, i) = rung /\ run[runs[i]].stable
                       /\ \A i \in DOMAIN runs : RungLoad(s, i) > capacity =>
                            \E j \in DOMAIN runs :
                              /\ capacity < RungLoad(s, j) /\ RungLoad(s, j) <= RungLoad(s, i)
                              /\ ~run[runs[j]].stable
    BY DEF CapacityIsWhatHeld
  <2>. DEFINE steps == search[s].steps
  <2>0. TypeOK /\ SearchInv /\ LadderOf(s) = Rungs
    BY LadderOfSearch DEF LadderInv, SearchInv, RunInv
  <2>1. /\ capacity = KneeLoad(steps)
        /\ DOMAIN steps = DOMAIN runs /\ DOMAIN runs = 1 .. Len(runs) /\ Len(runs) \in Nat
    BY <2>0, SearchFacts DEF LadderInv, CompletedWithAllSteps
  <2>2. \A i \in DOMAIN steps : /\ steps[i].load = RungLoad(s, i)
                                /\ steps[i].stable = run[runs[i]].stable
    BY <2>0 DEF SearchInv, StepsMatchRuns, RungLoad
  <2>3. \A i \in DOMAIN runs :
          /\ RungLoad(s, i) \in Rungs
          /\ \A rung \in Rungs : rung < RungLoad(s, i) => \E j \in 1 .. i - 1 : RungLoad(s, j) = rung
    BY <2>0, Zenon DEF LadderInv, RungsClimbTheLadder
  <2>4. MaxLoad \in Nat /\ \A i \in DOMAIN steps : steps[i].load \in 1 .. MaxLoad
    <3>1. MaxLoad \in Nat /\ Rungs \subseteq 1 .. MaxLoad
      BY RungFacts, RunStoreAssumption
    <3>2. \A i \in DOMAIN steps : steps[i].load \in Rungs
      BY <2>1, <2>2, <2>3, Zenon
    <3>. QED  BY <3>1, <3>2, Zenon
  <2>. HIDE DEF steps
  <2>5. /\ KneeLoad(steps) \in {0} \cup {steps[i].load : i \in DOMAIN steps}
        /\ \A i \in DOMAIN steps :
             steps[i].load <= KneeLoad(steps)
               <=> \A j \in DOMAIN steps : steps[j].load <= steps[i].load => steps[j].stable
    BY <2>4, WithinTheKnee
  <2>6. /\ capacity \in {0} \cup {RungLoad(s, i) : i \in DOMAIN runs}
        /\ \A i \in DOMAIN runs :
             RungLoad(s, i) <= capacity
               <=> \A j \in DOMAIN runs : RungLoad(s, j) <= RungLoad(s, i) => run[runs[j]].stable
    BY <2>1, <2>2, <2>5
  <2>7. capacity \in Nat /\ \A i \in DOMAIN runs : RungLoad(s, i) \in Nat \ {0}
    <3>1. \A i \in DOMAIN runs : RungLoad(s, i) \in Nat \ {0}
      BY <2>3, RungFacts, Zenon
    <3>. QED  BY <2>6, <3>1
  <2>8. ASSUME NEW rung \in Rungs, rung <= capacity
        PROVE  \E i \in DOMAIN runs : RungLoad(s, i) = rung /\ run[runs[i]].stable
    <3>1. rung \in Nat \ {0}
      BY RungFacts
    <3>2. PICK top \in DOMAIN runs : RungLoad(s, top) = capacity
      BY <2>6, <2>8, <3>1
    <3>3. PICK i \in DOMAIN runs : RungLoad(s, i) = rung
      <4>1. CASE rung = capacity
        BY <3>2, <4>1
      <4>2. CASE rung < capacity
        <5>1. PICK j \in 1 .. top - 1 : RungLoad(s, j) = rung
          BY <2>3, <3>2, <4>2
        <5>2. j \in DOMAIN runs
          BY <2>1
        <5>. QED  BY <5>1, <5>2
      <4>. QED  BY <2>7, <2>8, <3>1, <4>1, <4>2
    <3>4. run[runs[i]].stable
      BY <2>6, <2>7, <2>8, <3>3
    <3>. QED  BY <3>3, <3>4
  <2>9. ASSUME NEW i \in DOMAIN runs, RungLoad(s, i) > capacity
        PROVE  \E j \in DOMAIN runs :
                 /\ capacity < RungLoad(s, j) /\ RungLoad(s, j) <= RungLoad(s, i)
                 /\ ~run[runs[j]].stable
    <3>1. PICK j \in DOMAIN runs : RungLoad(s, j) <= RungLoad(s, i) /\ ~run[runs[j]].stable
      BY <2>6, <2>7, <2>9
    <3>2. ~(RungLoad(s, j) <= capacity)
      BY <2>6, <2>7, <3>1
    <3>. QED  BY <2>7, <3>1, <3>2
  <2>. QED  BY <2>0, <2>6, <2>8, <2>9
<1>. QED  BY LadderSafety, <1>1, PTL

-----------------------------------------------------------------------------
(***************************************************************************)
(* RunStore implements LoadService, for any number of runs and agents.     *)
(* Each step is one of the service's or leaves its state alone; which one  *)
(* is the subject of a lemma each.                                         *)
(***************************************************************************)
ServiceInv == RunInv /\ StartedWithItsShards

LEMMA StateOfStatus ==
  /\ StateOf("none") = "absent" /\ StateOf("queued") = "waiting"
  /\ StateOf("running") = "executing" /\ StateOf("completed") = "finished"
  /\ StateOf("cancelled") = "withdrawn"
BY DEF StateOf

\* A run's status can be read off the service's state and back.
LEMMA StateFacts ==
  ASSUME TypeOK, NEW r \in RunIds
  PROVE  /\ ServiceState[r] = StateOf(run[r].status)
         /\ run[r].status \in RunStatus
         /\ ServiceState[r] = "absent" <=> run[r].status = "none"
         /\ ServiceState[r] = "waiting" <=> run[r].status = "queued"
         /\ ServiceState[r] = "executing" <=> run[r].status = "running"
         /\ ServiceState[r] = "finished" <=> run[r].status = "completed"
         /\ ServiceState[r] = "withdrawn" <=> run[r].status = "cancelled"
<1>1. run[r].status \in RunStatus
  BY DEF TypeOK, Run
<1>2. ServiceState[r] = StateOf(run[r].status)
  BY DEF ServiceState
<1>. QED  BY <1>1, <1>2, StateOfStatus DEF RunStatus

\* Nothing the service shows has changed.
LEMMA NothingChanged ==
  ASSUME \A r \in RunIds : run'[r].status = run[r].status, UNCHANGED shard
  PROVE  UNCHANGED <<ServiceState, Submitted, HandedOut, Collected>>
BY DEF ServiceState, Submitted, HandedOut, Collected

LEMMA QueueRunSubmits ==
  ASSUME RunInv, TypeOK', NEW r \in RunIds, NEW t \in Targets \cup {None},
         NEW n \in 1 .. MaxShards, NEW s \in SearchForms \cup {None}, NEW load \in Load,
         QueueRun(r, t, n, s, load)
  PROVE  Service!Next
<1>0. TypeOK
  BY DEF RunInv
<1>1. /\ run[r].status = "none" /\ run'[r].status = "queued"
      /\ \A q \in RunIds \ {r} : run'[q] = run[q]
  BY <1>0, QueueRunEffect
<1>. DEFINE I == 0 .. n - 1
<1>2. I \in SUBSET (0 .. MaxShards - 1) /\ I # {}
  <2>1. 0 \in I /\ \A i \in I : i \in 0 .. MaxShards - 1
    BY RunStoreAssumption
  <2>. QED  BY <2>1
<1>3. \A sh \in ShardIds : RunOf(sh) = r => shard[sh] = "none"
  BY <1>1 DEF RunInv, ResultHandledOnce
<1>4. \A sh \in ShardIds : shard'[sh] = IF RunOf(sh) = r /\ sh[2] < n THEN "queued" ELSE shard[sh]
  BY DEF QueueRun
<1>5. ServiceState[r] = "absent"
  BY <1>0, <1>1, StateFacts
<1>6. ServiceState' = [ServiceState EXCEPT ![r] = "waiting"]
  BY <1>1, StateOfStatus DEF ServiceState
<1>7. Submitted' = Submitted \cup ({r} \X I)
  <2>1. \A sh \in ShardIds : sh \in {r} \X I <=> RunOf(sh) = r /\ sh[2] < n
    BY RunStoreAssumption DEF ShardIds, RunOf
  <2>2. {r} \X I \subseteq ShardIds
    BY <1>2 DEF ShardIds
  <2>. HIDE DEF I
  <2>. QED  BY <1>3, <1>4, <2>1, <2>2 DEF Submitted
<1>8. UNCHANGED <<HandedOut, Collected>>
  BY <1>3, <1>4 DEF HandedOut, Collected
<1>9. Service!Submit(r, I)
  BY <1>5, <1>6, <1>7, <1>8 DEF Service!Submit
<1>. HIDE DEF I
<1>. QED  BY <1>2, <1>9 DEF Service!Next

\* A cancellation withdraws the active ones of the runs it names.
LEMMA CancelRunsWithdraws ==
  ASSUME RunInv, TypeOK', NEW R, CancelRuns(R)
  PROVE  Service!Next
<1>0. TypeOK
  BY DEF RunInv
<1>. DEFINE over == {r \in RunIds : r \in R /\ Cancellable(r)}
<1>1. \A r \in over : ServiceState[r] \in {"waiting", "executing"}
  BY <1>0, StateFacts DEF Cancellable
<1>2. \A r \in RunIds : run'[r].status = IF r \in over THEN "cancelled" ELSE run[r].status
  BY <1>0 DEF CancelRuns, TypeOK, Run
<1>3. ServiceState' = [r \in RunIds |-> IF r \in over THEN "withdrawn" ELSE ServiceState[r]]
  <2>. HIDE DEF over
  <2>. QED  BY <1>2, StateOfStatus DEF ServiceState
<1>4. \A sh \in ShardIds : shard'[sh] = shard[sh] \/ (shard[sh] = "queued" /\ shard'[sh] = "cancelled")
  BY <1>0, CancelRunsEffect
<1>5. UNCHANGED <<Submitted, HandedOut, Collected>>
  BY <1>4 DEF Submitted, HandedOut, Collected
<1>6. Service!Withdraw(over)
  <2>. HIDE DEF over
  <2>. QED  BY <1>1, <1>3, <1>5 DEF Service!Withdraw
<1>7. over \in SUBSET RunIds
  OBVIOUS
<1>. HIDE DEF over
<1>. QED  BY <1>6, <1>7 DEF Service!Next

\* The runs a claim drops have never been started.
LEMMA DroppedRuns ==
  ASSUME RunInv, NEW dropped \in SUBSET Dead, NEW r \in RunIds,
         NEW sh \in dropped, RunOf(sh) = r, Active(r)
  PROVE  run[r].status = "queued" /\ \A x \in Claimable : RunOf(x) # r
<1>1. target[run[r].target] # "registered"
  BY DEF Dead, Claimable
<1>. QED  BY <1>1 DEF RunInv, RunningRunKeepsItsTarget, Active, Claimable

RunsDropped(dropped) == {r \in RunIds : \E sh \in dropped : RunOf(sh) = r /\ Active(r)}

StateAfterClaim(taken, over) ==
  [r \in RunIds |-> IF r \in over THEN "withdrawn"
                    ELSE IF \E sh \in taken : RunOf(sh) = r THEN "executing" ELSE ServiceState[r]]

LEMMA ClaimEffectOnService ==
  ASSUME RunInv, TypeOK', NEW taken \in SUBSET Claimable, NEW dropped \in SUBSET Dead,
         run' = RunsAfterClaim(taken, dropped), shard' = ShardsAfterClaim(taken, dropped),
         NEW over, over = RunsDropped(dropped)
  PROVE  /\ over \in SUBSET RunIds
         /\ \A r \in over : ServiceState[r] = "waiting"
         /\ \A sh \in taken : RunOf(sh) \notin over
         /\ ServiceState' = StateAfterClaim(taken, over)
         /\ HandedOut' = HandedOut \cup taken
         /\ UNCHANGED <<Submitted, Collected>>
<1>0. TypeOK
  BY DEF RunInv
<1>1. \A r \in over : /\ run[r].status = "queued"
                      /\ \A sh \in taken : RunOf(sh) # r
  BY DroppedRuns DEF RunsDropped
<1>2. /\ \A r \in over : ServiceState[r] = "waiting"
      /\ \A sh \in taken : RunOf(sh) \notin over
  BY <1>0, <1>1, StateFacts DEF RunsDropped
<1>3. \A r \in RunIds : run'[r].status = IF r \in over THEN "cancelled"
                                         ELSE IF \E sh \in taken : RunOf(sh) = r THEN "running"
                                         ELSE run[r].status
  BY <1>0 DEF RunsAfterClaim, RunsDropped, TypeOK, Run
<1>4. ServiceState' = StateAfterClaim(taken, over)
  BY <1>3, StateOfStatus DEF ServiceState, StateAfterClaim
<1>5. /\ \A sh \in taken : sh \in ShardIds /\ shard[sh] = "queued" /\ shard'[sh] = "running"
      /\ \A sh \in dropped : sh \in ShardIds /\ shard[sh] = "queued" /\ shard'[sh] = "cancelled"
      /\ \A sh \in ShardIds \ (taken \cup dropped) : shard'[sh] = shard[sh]
  BY <1>0, ClaimEffect DEF Claimable, Dead
<1>6. HandedOut' = HandedOut \cup taken /\ UNCHANGED <<Submitted, Collected>>
  BY <1>5 DEF HandedOut, Submitted, Collected
<1>. QED  BY <1>2, <1>4, <1>6 DEF RunsDropped

\* A claim that finds a shard hands it out.
LEMMA ClaimHandsOut ==
  ASSUME RunInv, TypeOK', NEW sh \in Claimable, NEW dropped \in SUBSET Dead,
         run' = RunsAfterClaim({sh}, dropped), shard' = ShardsAfterClaim({sh}, dropped)
  PROVE  Service!Next
<1>1. PICK over, taken : over = RunsDropped(dropped) /\ taken = {sh}
  OBVIOUS
<1>2. /\ taken \in SUBSET Claimable /\ sh \in taken
      /\ run' = RunsAfterClaim(taken, dropped) /\ shard' = ShardsAfterClaim(taken, dropped)
  BY <1>1
<1>3. /\ over \in SUBSET RunIds
      /\ \A r \in over : ServiceState[r] = "waiting"
      /\ HandedOut' = HandedOut \cup taken
      /\ UNCHANGED <<Submitted, Collected>>
  BY <1>1, <1>2, ClaimEffectOnService
<1>4. ServiceState' = StateAfterClaim(taken, over)
  BY <1>1, <1>2, ClaimEffectOnService
<1>5. RunOf(sh) \notin over
  BY <1>1, <1>2, ClaimEffectOnService
<1>6. /\ sh \in ShardIds /\ sh \in Submitted \ HandedOut
      /\ ServiceState[RunOf(sh)] \in {"waiting", "executing"}
  BY ShardIdFacts, StateFacts DEF RunInv, Claimable, Submitted, HandedOut, Active
<1>7. Service!HandOut(sh, over)
  BY <1>1, <1>3, <1>4, <1>5, <1>6 DEF Service!HandOut, StateAfterClaim, RunOf
<1>. QED  BY <1>3, <1>6, <1>7 DEF Service!Next

\* A claim that finds none withdraws the runs it drops.
LEMMA ClaimNothingWithdraws ==
  ASSUME RunInv, TypeOK', run' = RunsAfterClaim({}, Dead), shard' = ShardsAfterClaim({}, Dead)
  PROVE  Service!Next
<1>1. PICK over, taken, dropped : over = RunsDropped(Dead) /\ taken = {} /\ dropped = Dead
  OBVIOUS
<1>2. /\ taken \in SUBSET Claimable /\ dropped \in SUBSET Dead /\ over = RunsDropped(dropped)
      /\ run' = RunsAfterClaim(taken, dropped) /\ shard' = ShardsAfterClaim(taken, dropped)
  BY <1>1
<1>3. /\ over \in SUBSET RunIds
      /\ \A r \in over : ServiceState[r] = "waiting"
      /\ ServiceState' = StateAfterClaim(taken, over)
      /\ HandedOut' = HandedOut \cup taken
      /\ UNCHANGED <<Submitted, Collected>>
  BY <1>2, ClaimEffectOnService
<1>4. Service!Withdraw(over)
  BY <1>1, <1>3 DEF Service!Withdraw, StateAfterClaim
<1>. QED  BY <1>3, <1>4 DEF Service!Next

\* A result is collected, and finishes its run iff it is the last one and
\* the run was not cancelled.
LEMMA CompleteShardCollects ==
  ASSUME ServiceInv, TypeOK', NEW sh \in ShardIds, CompleteShard(sh)
  PROVE  Service!Next
<1>. DEFINE r == RunOf(sh)
<1>0. TypeOK /\ RunInv /\ r \in RunIds /\ r = sh[1]
  BY ShardIdFacts DEF ServiceInv, RunInv, RunOf
<1>1. /\ shard[sh] = "running"
      /\ run[r].status \in {"running", "cancelled"}
  <2>1. shard[sh] = "running" /\ run[r].status \notin {"none", "completed"}
    BY <1>0, PostedMeansNotCompleted DEF CompleteShard
  <2>2. run[r].status # "queued"
    BY <2>1 DEF ServiceInv, StartedWithItsShards, HandedOut
  <2>. QED  BY <1>0, <2>1, <2>2, StateFacts DEF RunStatus
<1>2. \A x \in ShardIds : shard'[x] = IF x = sh THEN "completed" ELSE shard[x]
  BY <1>0 DEF CompleteShard, TypeOK
<1>3. sh \in HandedOut \ Collected
  BY <1>1 DEF HandedOut, Collected
<1>4. Collected' = Collected \cup {sh} /\ UNCHANGED <<Submitted, HandedOut>>
  BY <1>1, <1>2 DEF HandedOut, Collected, Submitted
<1>5. {q \in Submitted : q[1] = r} \subseteq Collected' <=> ~OthersOutstanding(sh)
  BY <1>0, <1>1, <1>2 DEF Submitted, Collected, OthersOutstanding, ShardsOf, RunOf
<1>6. ServiceState[r] = "executing" <=> run[r].status # "cancelled"
  BY <1>0, <1>1, StateFacts
<1>7. ServiceState' = IF ServiceState[r] = "executing" /\ {q \in Submitted : q[1] = r} \subseteq Collected'
                        THEN [ServiceState EXCEPT ![r] = "finished"] ELSE ServiceState
  <2>1. CASE run[r].status = "cancelled" \/ OthersOutstanding(sh)
    <3>1. UNCHANGED run
      BY <2>1 DEF CompleteShard
    <3>. QED  BY <1>5, <1>6, <2>1, <3>1 DEF ServiceState
  <2>2. CASE run[r].status # "cancelled" /\ ~OthersOutstanding(sh)
    <3>1. \A q \in RunIds : run'[q].status = IF q = r THEN "completed" ELSE run[q].status
      <4>1. PICK stable \in BOOLEAN :
              run' = [run EXCEPT ![r].status = "completed", ![r].stable = stable]
        BY <2>2 DEF CompleteShard
      <4>2. \A q \in RunIds : run[q] \in Run
        BY <1>0 DEF TypeOK
      <4>. HIDE DEF r
      <4>. QED  BY <1>0, <4>1, <4>2 DEF TypeOK, Run
    <3>2. ServiceState' = [ServiceState EXCEPT ![r] = "finished"]
      <4>. HIDE DEF r
      <4>. QED  BY <1>0, <3>1, StateOfStatus DEF ServiceState
    <3>. QED  BY <1>5, <1>6, <2>2, <3>2
  <2>. QED  BY <2>1, <2>2
<1>8. Service!Collect(sh)
  BY <1>0, <1>3, <1>4, <1>7 DEF Service!Collect
<1>. QED  BY <1>8 DEF Service!Next

-----------------------------------------------------------------------------
\* A shard is handed out with its run, and a run never goes back to waiting.
LEMMA StartedPreserved ==
  ASSUME ServiceInv, TypeOK', [Next]_vars
  PROVE  StartedWithItsShards'
<1>. USE DEF handlers
<1>0. TypeOK /\ RunInv /\ StartedWithItsShards
  BY DEF ServiceInv, RunInv
<1>1. ASSUME \A r \in RunIds : run'[r].status = run[r].status, UNCHANGED shard
      PROVE  StartedWithItsShards'
  BY <1>0, <1>1, ShardIdFacts DEF StartedWithItsShards, HandedOut
<1>2. ASSUME NEW r \in RunIds, NEW t, NEW n, NEW s, NEW load, QueueRun(r, t, n, s, load)
      PROVE  StartedWithItsShards'
  <2>1. run[r].status = "none" /\ \A q \in RunIds \ {r} : run'[q] = run[q]
    BY <1>0, <1>2 DEF QueueRun, FreshRun, TypeOK
  <2>2. \A sh \in ShardIds : shard'[sh] \in {shard[sh], "queued"}
    BY <1>2 DEF QueueRun
  <2>3. \A sh \in HandedOut' : sh \in HandedOut /\ RunOf(sh) # r
    BY <1>0, <2>1, <2>2 DEF HandedOut, RunInv, ResultHandledOnce
  <2>. QED  BY <1>0, <2>1, <2>3, ShardIdFacts DEF StartedWithItsShards, HandedOut
<1>3. ASSUME NEW R, CancelRuns(R) PROVE StartedWithItsShards'
  BY <1>0, <1>3, CancelRunsEffect, ShardIdFacts DEF StartedWithItsShards, HandedOut
<1>4. ASSUME NEW taken \in SUBSET Claimable, NEW dropped \in SUBSET Dead,
             run' = RunsAfterClaim(taken, dropped), shard' = ShardsAfterClaim(taken, dropped)
      PROVE  StartedWithItsShards'
  <2>1. \A sh \in taken : run'[RunOf(sh)].status = "running"
    BY <1>0, <1>4, ClaimEffect
  <2>2. \A sh \in dropped : shard'[sh] = "cancelled"
    BY <1>0, <1>4, ClaimEffect
  <2>3. \A sh \in ShardIds \ (taken \cup dropped) : shard'[sh] = shard[sh]
    BY <1>0, <1>4, ClaimEffect
  <2>4. \A r \in RunIds : run'[r] = run[r] \/ run'[r].status \in {"cancelled", "running"}
    BY <1>0, <1>4, ClaimEffect
  <2>5. ASSUME NEW sh \in HandedOut' PROVE run'[RunOf(sh)].status # "queued"
    <3>1. sh \in ShardIds /\ RunOf(sh) \in RunIds /\ sh \notin dropped
      BY <2>2, ShardIdFacts DEF HandedOut
    <3>2. CASE sh \in taken
      BY <2>1, <3>2
    <3>3. CASE sh \notin taken
      BY <1>0, <2>3, <2>4, <3>1, <3>3 DEF StartedWithItsShards, HandedOut
    <3>. QED  BY <3>2, <3>3
  <2>. QED  BY <2>5 DEF StartedWithItsShards
<1>5. ASSUME NEW sh \in ShardIds, CompleteShard(sh) PROVE StartedWithItsShards'
  <2>1. shard[sh] = "running"
    BY <1>0, <1>5, PostedMeansNotCompleted DEF CompleteShard
  <2>2. \A x \in HandedOut' : x \in HandedOut
    BY <1>0, <1>5, <2>1 DEF CompleteShard, TypeOK, HandedOut
  <2>3. \A r \in RunIds : run'[r] = run[r] \/ run'[r].status = "completed"
    BY <1>0, <1>5, ShardIdFacts DEF CompleteShard, TypeOK, Run
  <2>. QED  BY <1>0, <2>2, <2>3, ShardIdFacts DEF StartedWithItsShards, HandedOut
<1>6. ASSUME NEW a \in Agents, ClaimRun(a) PROVE StartedWithItsShards'
  <2>1. PICK sh \in Claimable, dropped \in SUBSET Dead :
          /\ shard' = ShardsAfterClaim({sh}, dropped)
          /\ run' = RunsAfterClaim({sh}, dropped)
    BY <1>6 DEF ClaimRun
  <2>2. {sh} \in SUBSET Claimable
    OBVIOUS
  <2>. QED  BY <1>4, <2>1, <2>2
<1>7. ASSUME NEW a \in Agents, ClaimNothing(a) PROVE StartedWithItsShards'
  BY <1>4, <1>7 DEF ClaimNothing
<1>8. ASSUME NEW sh \in ShardIds, AdvanceSearch(sh) PROVE StartedWithItsShards'
  BY <1>1, <1>2, <1>8 DEF AdvanceSearch
<1>9. ASSUME NEW q, run' = Monitored(q), UNCHANGED shard PROVE StartedWithItsShards'
  BY <1>0, <1>1, <1>9, MonitoredKeepsRuns
<1>10. CASE UNCHANGED <<run, shard>>
  BY <1>1, <1>10
<1>. QED
  BY <1>2, <1>3, <1>5, <1>6, <1>7, <1>8, <1>9, <1>10, ZenonT(60)
  DEF Next, vars, CreateTarget, DeleteTarget, CheckForm, CreateRun, SampleNewRun, CreateSearch,
      CancelRun, CancelSearch, ObserveCancellation, FinishLoad, AgentCrash, LoseReport, Publish,
      SetShardProgress, LoseProgress, SampleCompletedRun, SamplerTick, SamplerAttach

\* Every step of the run store is a step of the service or none.
LEMMA StepsAreTheServices ==
  ASSUME ServiceInv, TypeOK', [Next]_vars
  PROVE  [Service!Next]_(Service!vars)
<1>. USE DEF handlers
<1>0. TypeOK /\ RunInv
  BY DEF ServiceInv, RunInv
<1>1. ASSUME \A r \in RunIds : run'[r].status = run[r].status, UNCHANGED shard
      PROVE  UNCHANGED Service!vars
  BY <1>1, NothingChanged DEF Service!vars
<1>2. ASSUME NEW f \in RunForms, CreateRun(f) PROVE Service!Next
  <2>1. form[f] \in Form /\ 0 \in Load
    BY <1>0, RunStoreAssumption DEF TypeOK, Forms, Load
  <2>2. form[f].target \in Targets \cup {None} /\ form[f].shards \in 1 .. MaxShards
    BY <2>1 DEF Form
  <2>. QED  BY <1>0, <1>2, <2>1, <2>2, QueueRunSubmits DEF CreateRun
<1>3. ASSUME NEW f \in SearchForms, CreateSearch(f) PROVE Service!Next
  <2>1. form[f] \in Form /\ StartLoad \in Load
    BY <1>0, RunStoreAssumption DEF TypeOK, Forms, Load
  <2>2. form[f].target \in Targets \cup {None} /\ form[f].shards \in 1 .. MaxShards
    BY <2>1 DEF Form
  <2>. QED  BY <1>0, <1>3, <2>1, <2>2, QueueRunSubmits DEF CreateSearch
<1>4. ASSUME NEW R, CancelRuns(R) PROVE Service!Next
  BY <1>0, <1>4, CancelRunsWithdraws
<1>5. ASSUME NEW a \in Agents, ClaimRun(a) PROVE Service!Next
  BY <1>0, <1>5, ClaimHandsOut DEF ClaimRun
<1>6. ASSUME NEW a \in Agents, ClaimNothing(a) PROVE Service!Next
  BY <1>0, <1>6, ClaimNothingWithdraws DEF ClaimNothing
<1>7. ASSUME NEW sh \in ShardIds, CompleteShard(sh) PROVE Service!Next
  BY <1>7, CompleteShardCollects
<1>8. ASSUME NEW sh \in ShardIds, AdvanceSearch(sh)
      PROVE  Service!Next \/ UNCHANGED Service!vars
  <2>. DEFINE r    == RunOf(sh)
              s    == run[r].search
              step == [run |-> r, load |-> run[r].load, stable |-> run[r].stable]
              next == Advance(search[s], step)
  <2>1. CASE UNCHANGED <<run, shard>>
    BY <1>1, <2>1
  <2>2. ASSUME WantsAdvance(r),
               NEW q \in RunIds,
               QueueRun(q, search[s].target, search[s].shards, s, next.nextLoad)
        PROVE  Service!Next
    <3>1. r \in RunIds /\ run[r] \in Run
      BY <1>0, ShardIdFacts DEF TypeOK
    <3>2. s \in SearchForms
      BY <2>2, <3>1 DEF WantsAdvance, Run
    <3>3. search[s] \in Search /\ step \in Step
      BY <1>0, <3>1, <3>2 DEF TypeOK, Run, Step
    <3>4. next \in Search
      BY <3>3, AdvanceType
    <3>5. /\ search[s].target \in Targets \cup {None} /\ search[s].shards \in 1 .. MaxShards
          /\ next.nextLoad \in Load
      <4>. HIDE DEF next
      <4>. QED  BY <3>3, <3>4 DEF Search
    <3>. HIDE DEF next, s
    <3>. QED  BY <1>0, <2>2, <3>2, <3>5, QueueRunSubmits
  <2>. QED  BY <1>8, <2>1, <2>2 DEF AdvanceSearch
<1>9. ASSUME NEW q, run' = Monitored(q), UNCHANGED shard PROVE UNCHANGED Service!vars
  BY <1>0, <1>1, <1>9, MonitoredKeepsRuns
<1>10. CASE UNCHANGED <<run, shard>>
  BY <1>1, <1>10
<1>. QED
  BY <1>2, <1>3, <1>4, <1>5, <1>6, <1>7, <1>8, <1>9, <1>10, ZenonT(60)
  DEF Next, vars, CreateTarget, DeleteTarget, CheckForm, SampleNewRun,
      CancelRun, CancelSearch, ObserveCancellation, FinishLoad, AgentCrash, LoseReport, Publish,
      SetShardProgress, LoseProgress, SampleCompletedRun, SamplerTick, SamplerAttach

(***************************************************************************)
(* The run store with its handlers and agents implements LoadService: a    *)
(* run is handed out only while it is wanted, each part to one agent and   *)
(* once, it finishes with the result of its last part and at no other      *)
(* moment, and what is over stays over.                                    *)
(***************************************************************************)
THEOREM TheServiceIsImplemented == Spec => ImplementsLoadService
<1>1. Init => Service!Init
  <2>. SUFFICES ASSUME Init PROVE Service!Init
    OBVIOUS
  <2>1. \A r \in RunIds : run[r].status = "none"
    BY DEF Init, NewRun
  <2>2. \A sh \in ShardIds : shard[sh] = "none"
    BY DEF Init
  <2>. QED  BY <2>1, <2>2, StateOfStatus
            DEF Service!Init, ServiceState, Submitted, HandedOut, Collected
<1>2. Init => StartedWithItsShards
  BY DEF Init, StartedWithItsShards, HandedOut
<1>3. RunInv /\ StartedWithItsShards /\ [Next]_vars => StartedWithItsShards'
  BY NextInv, StartedPreserved DEF ServiceInv, RunInv
<1>4. RunInv /\ StartedWithItsShards /\ [Next]_vars => [Service!Next]_(Service!vars)
  BY NextInv, StepsAreTheServices DEF ServiceInv, RunInv
<1>. QED  BY <1>1, <1>2, <1>3, <1>4, Safety, PTL DEF Spec, ImplementsLoadService, Service!Spec

=============================================================================
