------------------------------ MODULE RunEngine ------------------------------
(***************************************************************************)
(* One load phase of an agent: RunTargetWithProgress and runStage of       *)
(* internal/agent/runner.go with the goroutines they start.  The control   *)
(* goroutine runs the warm-up requests and then the stages; within a stage *)
(* a VU is a worker that loops, and in the RPS and trace modes every       *)
(* arrival occupies a worker, up to the in-flight limit.                   *)
(*                                                                         *)
(* Contexts: runCtx is live until the user or the guardrail ends it;       *)
(* issueCtx also ends with the stage's duration; requestCtx ends only when *)
(* runStage or its watcher calls cancelRequests.  Times, latencies and     *)
(* payloads are left out: a timer may fire whenever it is running, and     *)
(* whether an SLO is exceeded is arbitrary.                                *)
(***************************************************************************)
EXTENDS Integers, FiniteSets

CONSTANTS
  Workers,           \* 1 .. most VUs of a stage, or the in-flight limit
  Configs,           \* configurations to run
  BreakerThreshold,  \* circuitBreakerThreshold
  MinSamples,        \* steady samples the guardrail waits for (10)
  MaxAttempts,       \* bound: attempts begun after the warm-up
  MaxDropped         \* bound: dropped arrivals

Main == 0            \* the control goroutine, as the sender of warm-up requests

Senders == Workers \cup {Main}

(***************************************************************************)
(* kinds are the journeys mixed in a run: single requests, and sessions of *)
(* `turns' tasks.  `think' says that tasks have a think time, in a mode    *)
(* where it is waited for (not for single requests of an RPS run without   *)
(* journeys, nor for traces).  sessionsPerVU limits agent workflows; it is *)
(* 0 for journeys, which do not look at it.                                *)
(***************************************************************************)
Config ==
  [mode : {"vu", "rps", "trace"}, loads : UNION {[1 .. n -> Workers] : n \in 1 .. 12},
   kinds : SUBSET {"request", "session"} \ {{}}, turns : Nat, sessionsPerVU : Nat,
   think : BOOLEAN, warmups : Nat, events : Nat, drain : BOOLEAN, cooldown : BOOLEAN,
   slo : BOOLEAN]

ASSUME RunEngineAssumption ==
  /\ IsFiniteSet(Workers) /\ Workers # {} /\ Workers = 1 .. Cardinality(Workers)
  /\ Configs \subseteq Config
  /\ \A c \in Configs : c.mode = "trace" => c.events > 0
  /\ BreakerThreshold \in Nat /\ BreakerThreshold > 0 /\ MinSamples \in Nat
  /\ MaxAttempts \in Nat /\ MaxDropped \in Nat

VARIABLES
  config,       \* the run's configuration
  pc,           \* where the control goroutine is
  stage,        \* stages begun
  left,         \* warm-up requests, then trace events, still to be sent
  runEnd,       \* "live", or what ended runCtx
  issueOver,    \* the stage's duration is over
  requestsCut,  \* cancelRequests was called
  arriving,     \* the dispatcher of runRPS or runTrace is running
  worker,       \* what each sender is doing
  count,        \* the lifecycle counters of measurements
  failures,     \* consecutiveFailures, up to the threshold
  stopped       \* measurements.stopped: the guardrail is reported

control == <<pc, stage, runEnd, issueOver, requestsCut, left, arriving>>
vars    == <<config, control, worker, count, failures, stopped>>

-----------------------------------------------------------------------------
InStage == {"issuing", "draining", "joining"}

Where == {"off", "ready", "due", "held", "calling", "thinking"}

\* turn is 0 in a single request, i in the i-th task of a session.
WorkerState == [at : Where, turn : Nat, good : BOOLEAN, sessions : Nat]

Off == [at |-> "off", turn |-> 0, good |-> TRUE, sessions |-> 0]

Counters == {"issued", "successes", "httpFailures", "transportErrors", "cancelled",
             "dropped", "sessions", "completedSessions", "backoffEvents"}

Stages    == Cardinality(DOMAIN config.loads)
RunLive   == runEnd = "live"
IssueOpen == RunLive /\ ~issueOver

\* The context of a request has ended (runCtx for the warm-up's).
Cut(w) == IF w = Main THEN ~RunLive ELSE requestsCut

Busy     == {w \in Workers : worker[w].at # "off"}
Calling  == {w \in Senders : worker[w].at = "calling"}
Finished == Busy = {} /\ ~arriving

TypeOK ==
  /\ config \in Configs
  /\ pc \in InStage \cup {"warmup", "between", "cooldown", "done"}
  /\ stage \in 0 .. Stages
  /\ left \in Nat
  /\ runEnd \in {"live", "user", "guardrail"}
  /\ issueOver \in BOOLEAN /\ requestsCut \in BOOLEAN /\ arriving \in BOOLEAN
  /\ worker \in [Senders -> WorkerState]
  /\ count \in [Counters -> Nat]
  /\ failures \in 0 .. BreakerThreshold
  /\ stopped \in BOOLEAN

Init ==
  /\ config \in Configs
  /\ pc = "warmup" /\ stage = 0 /\ left = config.warmups
  /\ runEnd = "live" /\ issueOver = FALSE /\ requestsCut = FALSE
  /\ arriving = FALSE
  /\ worker = [w \in Senders |-> Off]
  /\ count = [c \in Counters |-> 0]
  /\ failures = 0
  /\ stopped = FALSE

-----------------------------------------------------------------------------
(***************************************************************************)
(* The control goroutine.                                                  *)
(***************************************************************************)
WarmupRequest ==
  /\ pc = "warmup" /\ left > 0 /\ worker[Main] = Off
  /\ left' = left - 1
  /\ worker' = [worker EXCEPT ![Main].at = "due"]
  /\ UNCHANGED <<config, pc, stage, runEnd, issueOver, requestsCut, arriving, count, failures, stopped>>

\* reset: the counters and the guardrail's report start afresh, but not runCtx,
\* consecutiveFailures or backoffEvents.
Reset == [c \in Counters |-> IF c = "backoffEvents" THEN count[c] ELSE 0]

EndWarmup ==
  /\ pc = "warmup" /\ left = 0 /\ worker[Main] = Off
  /\ pc' = "between"
  /\ count' = Reset
  /\ stopped' = FALSE
  /\ UNCHANGED <<config, stage, left, runEnd, issueOver, requestsCut, arriving, worker, failures>>

\* runStage starts the VUs, or the dispatcher.
StartStage ==
  /\ pc = "between" /\ stage < Stages /\ RunLive
  /\ pc' = "issuing" /\ stage' = stage + 1
  /\ issueOver' = FALSE /\ requestsCut' = FALSE
  /\ left' = config.events
  /\ arriving' = (config.mode # "vu")
  /\ worker' = [w \in Senders |->
       IF config.mode = "vu" /\ w \in 1 .. config.loads[stage + 1]
         THEN [Off EXCEPT !.at = "ready"] ELSE worker[w]]
  /\ UNCHANGED <<config, runEnd, count, failures, stopped>>

EndStages ==
  /\ pc = "between" /\ (stage = Stages \/ ~RunLive)
  /\ pc' = IF config.cooldown /\ RunLive THEN "cooldown" ELSE "done"
  /\ UNCHANGED <<config, stage, left, runEnd, issueOver, requestsCut, arriving, worker, count, failures, stopped>>

\* The timer, or runCtx.Done.
EndCooldown ==
  /\ pc = "cooldown"
  /\ pc' = "done"
  /\ UNCHANGED <<config, stage, left, runEnd, issueOver, requestsCut, arriving, worker, count, failures, stopped>>

\* The deadline of issueCtx.
StageTimer ==
  /\ pc = "issuing" /\ ~issueOver
  /\ issueOver' = TRUE
  /\ UNCHANGED <<config, pc, stage, left, runEnd, requestsCut, arriving, worker, count, failures, stopped>>

\* Waits for the workers without cutting their requests.
JoinUncut == pc' = "joining" /\ UNCHANGED requestsCut

\* cancelRequests and <-done.
Join == pc' = "joining" /\ requestsCut' = TRUE

\* runStage: issueCtx.Done.
EndIssue ==
  /\ pc = "issuing" /\ ~IssueOpen
  /\ IF ~RunLive \/ ~config.drain THEN Join
     ELSE pc' = "draining" /\ UNCHANGED requestsCut
  /\ UNCHANGED <<config, stage, left, runEnd, issueOver, arriving, worker, count, failures, stopped>>

\* The drain's timer, or runCtx.Done.
EndDrain ==
  /\ pc = "draining"
  /\ Join
  /\ UNCHANGED <<config, stage, left, runEnd, issueOver, arriving, worker, count, failures, stopped>>

\* The stage returns as soon as issuing is over, whatever is still in flight.
StageFinishedAnyway == ~arriving

StageFinished == Finished

\* runStage: <-done, once the dispatcher and all workers have returned.
EndStage ==
  /\ pc \in InStage
  /\ StageFinished
  /\ pc' = "between"
  /\ requestsCut' = TRUE
  /\ UNCHANGED <<config, stage, left, runEnd, issueOver, arriving, worker, count, failures, stopped>>

\* The goroutine in runStage that waits for runCtx.
WatchRun ==
  /\ pc \in InStage /\ ~RunLive /\ ~requestsCut
  /\ requestsCut' = TRUE
  /\ UNCHANGED <<config, pc, stage, left, runEnd, issueOver, arriving, worker, count, failures, stopped>>

\* RunOnce cancels the context it passed in.
UserCancel ==
  /\ pc # "done" /\ RunLive
  /\ runEnd' = "user"
  /\ UNCHANGED <<config, pc, stage, left, issueOver, requestsCut, arriving, worker, count, failures, stopped>>

-----------------------------------------------------------------------------
(***************************************************************************)
(* The workers.                                                            *)
(***************************************************************************)
\* Bounds the attempts, delays and sessions of a run.
MayBegin ==
  LET coming == Cardinality({w \in Busy : worker[w].at \in {"due", "held"}})
  IN  \A c \in {"issued", "backoffEvents", "sessions"} : count[c] + coming < MaxAttempts

\* The journey is over: a VU loops, an arrival's goroutine returns.
JourneyOver(s) ==
  IF config.mode = "vu"
    THEN [s EXCEPT !.at = "ready", !.turn = 0, !.good = TRUE,
                   !.sessions = IF s.turn > 0 /\ config.sessionsPerVU > 0 THEN @ + 1 ELSE @]
  ELSE Off

\* Begins a journey: runJourney, or an iteration of runWorker.
Journey(s, kind) ==
  IF kind = "session" THEN [s EXCEPT !.at = "ready", !.turn = 1, !.good = TRUE]
  ELSE [s EXCEPT !.at = "due"]

Sessions(kind) == IF kind = "session" THEN 1 ELSE 0

AllSessionsDone(s) == config.sessionsPerVU > 0 /\ s.sessions = config.sessionsPerVU

\* runWorker: the head of its loop.
LoopOn(w) ==
  /\ w \in Workers
  /\ worker[w].at = "ready" /\ worker[w].turn = 0
  /\ IssueOpen /\ ~AllSessionsDone(worker[w]) /\ MayBegin
  /\ \E kind \in config.kinds :
       /\ worker' = [worker EXCEPT ![w] = Journey(@, kind)]
       /\ count' = [count EXCEPT !["sessions"] = @ + Sessions(kind)]
  /\ UNCHANGED <<config, control, failures, stopped>>

LoopEnds(w) ==
  /\ w \in Workers
  /\ worker[w].at = "ready" /\ worker[w].turn = 0
  /\ ~IssueOpen \/ AllSessionsDone(worker[w])
  /\ worker' = [worker EXCEPT ![w] = Off]
  /\ UNCHANGED <<config, control, count, failures, stopped>>

\* runTrace: there is another event after this one.
MoreEvents == left > 1

\* runRPS, runTrace: an arrival is due.  It may be taken although issueCtx has
\* ended, because select chooses among what is ready; it is dropped when the
\* in-flight limit is reached.
Arrival ==
  /\ arriving
  /\ IF config.mode = "trace" THEN left' = left - 1 /\ arriving' = MoreEvents
     ELSE UNCHANGED <<left, arriving>>
  /\ UNCHANGED <<config, pc, stage, runEnd, issueOver, requestsCut, failures, stopped>>

Arrive(w) ==
  /\ w \in Workers \ Busy /\ \A v \in Workers \ Busy : w <= v
  /\ MayBegin
  /\ \E kind \in config.kinds :
       /\ worker' = [worker EXCEPT ![w] = Journey(@, kind)]
       /\ count' = [count EXCEPT !["sessions"] = @ + Sessions(kind)]
  /\ Arrival

Drop ==
  /\ Busy = Workers
  /\ count["dropped"] < MaxDropped
  /\ count' = [count EXCEPT !["dropped"] = @ + 1]
  /\ UNCHANGED worker
  /\ Arrival

\* runRPS, runTrace: issueCtx.Done.
StopArrivals ==
  /\ arriving /\ ~IssueOpen
  /\ arriving' = FALSE
  /\ UNCHANGED <<config, pc, stage, left, runEnd, issueOver, requestsCut, worker, count, failures, stopped>>

-----------------------------------------------------------------------------
(***************************************************************************)
(* doRequest, and what its callers do with what it returns.                *)
(***************************************************************************)
\* A session counts as completed although a task of it failed.
CompletesAnyhow(s) == s.turn > 0 /\ s.turn = config.turns

\* runAgentSession: completeSession after the last task.
Completes(s) == s.turn > 0 /\ s.turn = config.turns /\ s.good

\* After think, which returned `kept'.
Proceed(w, s, kept, counted) ==
  /\ worker' = [worker EXCEPT ![w] =
                  IF kept /\ s.turn > 0 /\ s.turn < config.turns
                    THEN [s EXCEPT !.at = "ready", !.turn = @ + 1]
                  ELSE JourneyOver(s)]
  /\ count' = [counted EXCEPT !["completedSessions"] = IF kept /\ Completes(s) THEN @ + 1 ELSE @]

\* doRequest returns: only a success has the task's think time, but a session
\* takes its own.
Returned(w, ok, open, counted) ==
  LET s == [worker[w] EXCEPT !.good = @ /\ ok]
  IN  \/ /\ w = Main
         /\ worker' = [worker EXCEPT ![w] = Off]
         /\ count' = counted
      \/ /\ w # Main /\ config.think /\ (ok \/ s.turn > 0)
         /\ worker' = [worker EXCEPT ![w] = [s EXCEPT !.at = "thinking"]]
         /\ count' = counted
      \/ /\ w # Main /\ ~(config.think /\ (ok \/ s.turn > 0))
         /\ Proceed(w, s, open, counted)

\* runAgentSession: the head of its loop.
NextTask(w) ==
  /\ worker[w].at = "ready" /\ worker[w].turn > 0
  /\ IssueOpen /\ MayBegin
  /\ worker' = [worker EXCEPT ![w].at = "due"]
  /\ UNCHANGED <<config, control, count, failures, stopped>>

LeaveSession(w) ==
  /\ worker[w].at = "ready" /\ worker[w].turn > 0
  /\ ~IssueOpen
  /\ worker' = [worker EXCEPT ![w] = JourneyOver(@)]
  /\ UNCHANGED <<config, control, count, failures, stopped>>

\* The attempt is issued unless its context has ended.
Issue(w) ==
  \/ /\ Cut(w)
     /\ Returned(w, FALSE, IssueOpen, count)
  \/ /\ ~Cut(w)
     /\ worker' = [worker EXCEPT ![w].at = "calling"]
     /\ count' = [count EXCEPT !["issued"] = @ + 1]

\* backoffBeforeAttempt holds the attempt back.
HeldBack == failures = BreakerThreshold

Attempt(w) ==
  /\ worker[w].at = "due" /\ ~HeldBack
  /\ Issue(w)
  /\ UNCHANGED <<config, control, failures, stopped>>

Backoff(w) ==
  /\ worker[w].at = "due" /\ HeldBack
  /\ worker' = [worker EXCEPT ![w].at = "held"]
  /\ count' = [count EXCEPT !["backoffEvents"] = @ + 1]
  /\ UNCHANGED <<config, control, failures, stopped>>

\* The delay is over, or the request's context has ended.
Release(w) ==
  /\ worker[w].at = "held"
  /\ Issue(w)
  /\ UNCHANGED <<config, control, failures, stopped>>

\* The delay cannot be interrupted.
ReleaseUninterrupted(w) == FALSE

\* The delay is interrupted.
ReleaseCut(w) == Cut(w) /\ Release(w)

\* recordSuccess and maybeStopLocked.  It may land after the context ended.
Trips == config.slo /\ ~stopped /\ count["successes"] + 1 >= MinSamples

Succeed(w) ==
  /\ worker[w].at = "calling"
  /\ failures' = 0
  /\ \E trip \in {FALSE} \cup {Trips} :
       /\ stopped' = (stopped \/ trip)
       /\ runEnd' = IF trip /\ RunLive THEN "guardrail" ELSE runEnd
       /\ Returned(w, TRUE, IssueOpen /\ ~trip, [count EXCEPT !["successes"] = @ + 1])
  /\ UNCHANGED <<config, pc, stage, left, issueOver, requestsCut, arriving>>

\* An answer, whatever it says, is taken for a sign of life.
FailuresForgiven == 0

OneMoreFailure == IF failures < BreakerThreshold THEN failures + 1 ELSE failures

HTTPFailure(w) ==
  /\ worker[w].at = "calling"
  /\ failures' = OneMoreFailure
  /\ Returned(w, FALSE, IssueOpen, [count EXCEPT !["httpFailures"] = @ + 1])
  /\ UNCHANGED <<config, control, stopped>>

\* recordAborted: an error while the request's context is live.
TransportError(w) ==
  /\ worker[w].at = "calling" /\ ~Cut(w)
  /\ failures' = OneMoreFailure
  /\ Returned(w, FALSE, IssueOpen, [count EXCEPT !["transportErrors"] = @ + 1])
  /\ UNCHANGED <<config, control, stopped>>

\* Cut requests go uncounted.
CountedAsLost == count

CountedAsCancelled == [count EXCEPT !["cancelled"] = @ + 1]

\* recordAborted: the request's context has ended.
CutShort(w) ==
  /\ worker[w].at = "calling" /\ Cut(w)
  /\ Returned(w, FALSE, IssueOpen, CountedAsCancelled)
  /\ UNCHANGED <<config, control, failures, stopped>>

\* recordAborted: a dialer's timeout is context.DeadlineExceeded to errors.Is,
\* and is taken for a cancellation although the request's context is live.
DialTimeout(w) ==
  /\ worker[w].at = "calling" /\ ~Cut(w)
  /\ Returned(w, FALSE, IssueOpen, CountedAsCancelled)
  /\ UNCHANGED <<config, control, failures, stopped>>

\* think: its timer.
Think(w) ==
  /\ worker[w].at = "thinking"
  /\ Proceed(w, worker[w], TRUE, count)
  /\ UNCHANGED <<config, control, failures, stopped>>

\* think: issueCtx.Done.
StopThinking(w) ==
  /\ worker[w].at = "thinking" /\ ~IssueOpen
  /\ Proceed(w, worker[w], FALSE, count)
  /\ UNCHANGED <<config, control, failures, stopped>>

-----------------------------------------------------------------------------
Next ==
  \/ WarmupRequest \/ EndWarmup \/ StartStage \/ EndStages \/ EndCooldown
  \/ StageTimer \/ EndIssue \/ EndDrain \/ EndStage \/ WatchRun \/ UserCancel
  \/ Drop \/ StopArrivals
  \/ \E w \in Workers : LoopOn(w) \/ LoopEnds(w) \/ Arrive(w) \/ NextTask(w) \/ LeaveSession(w)
                        \/ Think(w) \/ StopThinking(w)
  \/ \E w \in Senders : Attempt(w) \/ Backoff(w) \/ Release(w) \/ Succeed(w) \/ HTTPFailure(w)
                        \/ TransportError(w) \/ CutShort(w) \/ DialTimeout(w)

(***************************************************************************)
(* Fairness.  Goroutines go on, contexts that end wake those who wait for  *)
(* them, and nothing is assumed of the target: a request it never answers  *)
(* ends only when its context does, for the http.Client has no timeout.    *)
(***************************************************************************)
ControlStep == WarmupRequest \/ EndWarmup \/ StartStage \/ EndStages \/ EndIssue \/ EndStage

WorkerStep(w) ==
  \/ w \in Workers /\ (LoopOn(w) \/ LoopEnds(w) \/ NextTask(w) \/ LeaveSession(w) \/ StopThinking(w))
  \/ Attempt(w) \/ Backoff(w) \/ ReleaseCut(w) \/ CutShort(w)

Fairness ==
  /\ WF_vars(ControlStep) /\ WF_vars(WatchRun) /\ WF_vars(StopArrivals)
  /\ WF_vars(~RunLive /\ (EndDrain \/ EndCooldown))
  /\ \A w \in Senders : WF_vars(WorkerStep(w))

Spec == Init /\ [][Next]_vars /\ Fairness

\* Timers fire in the end.
TimerFairness ==
  /\ WF_vars(StageTimer) /\ WF_vars(EndDrain \/ EndCooldown)
  /\ \A w \in Senders : WF_vars(Release(w)) /\ WF_vars(w \in Workers /\ Think(w))

-----------------------------------------------------------------------------
(***************************************************************************)
(* The README's rule of measurement: every attempt issued is counted once, *)
(* as a success, an HTTP failure, a transport error or cancelled, unless   *)
(* it is still in flight; none is lost in drains, cuts or between stages,  *)
(* and none of the warm-up is left over.                                   *)
(***************************************************************************)
AttemptsAccounted ==
  count["issued"] = count["successes"] + count["httpFailures"] + count["transportErrors"]
                    + count["cancelled"] + Cardinality(Calling)

(***************************************************************************)
(* Stages do not overlap, and the result is final: when a stage is over    *)
(* nothing of it is still running that could change the counters.          *)
(***************************************************************************)
QuietBetweenStages == pc \notin InStage => Busy = {} /\ ~arriving

(***************************************************************************)
(* "A dead target should be backed off from, not hammered at full          *)
(* concurrency": of a target that never answers well, all failures beyond  *)
(* the threshold were held back first, but for the few attempts that were  *)
(* already past the check when the threshold was reached.                  *)
(***************************************************************************)
DeadTargetIsSpared ==
  count["successes"] = 0 =>
    count["httpFailures"] + count["transportErrors"]
      <= count["backoffEvents"] + BreakerThreshold - 1 + Cardinality(Workers)

(***************************************************************************)
(* Every task of a session that counts as completed succeeded.             *)
(***************************************************************************)
CompletedSessionsSucceeded ==
  count["completedSessions"] * config.turns <= count["successes"]

(***************************************************************************)
(* "A run cancelled by the user or a guardrail must not wait out the       *)
(* drain", nor any other timer: the phase ends although no timer fires and *)
(* the target answers nothing.                                             *)
(***************************************************************************)
CancelledRunEnds == ~RunLive ~> pc = "done"

(***************************************************************************)
(* Once the warm-up is over the phase ends, whatever the target does: the  *)
(* assumption under which RunStore takes FinishLoad to be fair.            *)
(***************************************************************************)
LoadPhaseEnds == TimerFairness => (pc = "between" ~> pc = "done")
=============================================================================
