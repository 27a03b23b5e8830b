--------------------------- MODULE RunEngineProofs ---------------------------
(***************************************************************************)
(* Proofs about RunEngine: its types, that stages do not overlap, that no  *)
(* attempt is lost from the books, that a dead target is spared once the   *)
(* circuit breaker has opened, and that sessions counted as completed were *)
(* earned; for any number of workers, any set of configurations and        *)
(* whatever the target answers.                                            *)
(***************************************************************************)
EXTENDS RunEngine, FiniteSetTheorems, TLAPS

(***************************************************************************)
(* The warm-up is the control goroutine's own and is over before any       *)
(* worker starts; a trace's dispatcher runs while it has events to send.   *)
(***************************************************************************)
WarmupIsAlone ==
  /\ pc # "warmup" => worker[Main] = Off
  /\ arriving /\ config.mode = "trace" => left > 0

EngineInv == TypeOK /\ QuietBetweenStages /\ WarmupIsAlone /\ AttemptsAccounted

-----------------------------------------------------------------------------
(***************************************************************************)
(* There are finitely many senders, so those with a request in flight can  *)
(* be counted.                                                             *)
(***************************************************************************)
LEMMA CallingIsFinite == IsFiniteSet(Calling) /\ Cardinality(Calling) \in Nat
<1>1. IsFiniteSet(Senders)
  BY FS_AddElement, RunEngineAssumption DEF Senders
<1>2. Calling \subseteq Senders
  BY DEF Calling
<1>. QED  BY <1>1, <1>2, FS_Subset, FS_CardinalityType

(***************************************************************************)
(* The control goroutine is not a worker.                                  *)
(***************************************************************************)
LEMMA MainIsNoWorker == Main \in Senders /\ Main \notin Workers /\ Workers \subseteq Senders
<1>1. Cardinality(Workers) \in Nat
  BY RunEngineAssumption, FS_CardinalityType
<1>. QED  BY <1>1, RunEngineAssumption DEF Main, Senders

(***************************************************************************)
(* A configuration has up to twelve stages.                                *)
(***************************************************************************)
LEMMA StagesIsNatural == config \in Configs => Stages \in Nat
<1>. SUFFICES ASSUME config \in Configs PROVE Stages \in Nat
  OBVIOUS
<1>1. config.loads \in UNION {[1 .. n -> Workers] : n \in 1 .. 12}
  BY RunEngineAssumption DEF Config
<1>2. PICK n \in 1 .. 12 : DOMAIN config.loads = 1 .. n
  BY <1>1
<1>3. n \in Int
  OBVIOUS
<1>4. IsFiniteSet(DOMAIN config.loads)
  BY <1>2, <1>3, FS_Interval
<1>. QED  BY <1>4, FS_CardinalityType DEF Stages

(***************************************************************************)
(* A step that issues, ends or leaves alone the request of one sender      *)
(* changes the number of requests in flight accordingly.                   *)
(***************************************************************************)
LEMMA CallingEffect ==
  ASSUME NEW w \in Senders, \A v \in Senders \ {w} : worker'[v] = worker[v]
  PROVE  /\ (worker[w].at # "calling" /\ worker'[w].at = "calling")
              => Cardinality(Calling') = Cardinality(Calling) + 1
         /\ (worker[w].at = "calling" /\ worker'[w].at # "calling")
              => Cardinality(Calling') = Cardinality(Calling) - 1
         /\ (worker[w].at # "calling" /\ worker'[w].at # "calling") => Calling' = Calling
<1>1. CASE worker[w].at # "calling" /\ worker'[w].at = "calling"
  <2>1. Calling' = Calling \cup {w} /\ w \notin Calling
    BY <1>1 DEF Calling
  <2>. QED  BY <1>1, <2>1, CallingIsFinite, FS_AddElement
<1>2. CASE worker[w].at = "calling" /\ worker'[w].at # "calling"
  <2>1. Calling' = Calling \ {w} /\ w \in Calling
    BY <1>2 DEF Calling
  <2>. QED  BY <1>2, <2>1, CallingIsFinite, FS_RemoveElement
<1>3. CASE worker[w].at # "calling" /\ worker'[w].at # "calling"
  BY <1>3 DEF Calling
<1>. QED  BY <1>1, <1>2, <1>3

\* A sender that has no attempt under way.
Resting == {"off", "ready", "thinking"}

(***************************************************************************)
(* When a journey is over its sender has no request in flight.             *)
(***************************************************************************)
LEMMA JourneyOverIsTyped ==
  ASSUME NEW s \in WorkerState
  PROVE  JourneyOver(s) \in WorkerState /\ JourneyOver(s).at \in Resting
<1>. DEFINE n == IF s.turn > 0 /\ config.sessionsPerVU > 0 THEN s.sessions + 1 ELSE s.sessions
            loop == [s EXCEPT !.at = "ready", !.turn = 0, !.good = TRUE, !.sessions = n]
<1>1. n \in Nat
  BY DEF WorkerState
<1>2. loop \in WorkerState /\ loop.at = "ready"
  <2>. HIDE DEF n
  <2>. QED  BY <1>1 DEF WorkerState, Where
<1>3. Off \in WorkerState /\ Off.at = "off"
  BY DEF Off, WorkerState, Where
<1>4. JourneyOver(s) = loop \/ JourneyOver(s) = Off
  BY DEF JourneyOver
<1>. HIDE DEF loop
<1>. QED  BY <1>2, <1>3, <1>4 DEF Resting

(***************************************************************************)
(* What doRequest's caller does with an answer changes one sender, which   *)
(* has no request in flight afterwards, and counts at most a completed     *)
(* session.                                                                *)
(***************************************************************************)
LEMMA ProceedEffect ==
  ASSUME TypeOK, NEW w \in Senders, NEW s \in WorkerState, NEW kept \in BOOLEAN,
         NEW counted \in [Counters -> Nat], Proceed(w, s, kept, counted)
  PROVE  /\ worker' \in [Senders -> WorkerState]
         /\ worker'[w].at \in Resting
         /\ \A v \in Senders \ {w} : worker'[v] = worker[v]
         /\ count' \in [Counters -> Nat]
         /\ \A c \in Counters \ {"completedSessions"} : count'[c] = counted[c]
<1>. DEFINE next == IF kept /\ s.turn > 0 /\ s.turn < config.turns
                      THEN [s EXCEPT !.at = "ready", !.turn = @ + 1]
                    ELSE JourneyOver(s)
<1>1. JourneyOver(s) \in WorkerState /\ JourneyOver(s).at \in Resting
  BY JourneyOverIsTyped
<1>2. next \in WorkerState /\ next.at \in Resting
  <2>. DEFINE n == s.turn + 1
              on == [s EXCEPT !.at = "ready", !.turn = n]
  <2>1. n \in Nat
    BY DEF WorkerState
  <2>2. next = on \/ next = JourneyOver(s)
    OBVIOUS
  <2>3. on \in WorkerState /\ on.at = "ready"
    <3>. HIDE DEF n
    <3>. QED  BY <2>1 DEF WorkerState, Where
  <2>. HIDE DEF on, next
  <2>. QED  BY <1>1, <2>2, <2>3 DEF Resting
<1>3. worker' = [worker EXCEPT ![w] = next]
  BY DEF Proceed
<1>4. worker' \in [Senders -> WorkerState] /\ worker'[w] = next
      /\ \A v \in Senders \ {w} : worker'[v] = worker[v]
  BY <1>2, <1>3 DEF TypeOK
<1>5. /\ count' \in [Counters -> Nat]
      /\ \A c \in Counters \ {"completedSessions"} : count'[c] = counted[c]
  BY DEF Proceed, Counters
<1>. QED  BY <1>2, <1>4, <1>5

LEMMA ReturnedEffect ==
  ASSUME TypeOK, NEW w \in Senders, NEW ok \in BOOLEAN, NEW open \in BOOLEAN,
         NEW counted \in [Counters -> Nat], Returned(w, ok, open, counted)
  PROVE  /\ worker' \in [Senders -> WorkerState]
         /\ worker'[w].at \in Resting
         /\ \A v \in Senders \ {w} : worker'[v] = worker[v]
         /\ count' \in [Counters -> Nat]
         /\ \A c \in Counters \ {"completedSessions"} : count'[c] = counted[c]
<1>. DEFINE s == [worker[w] EXCEPT !.good = @ /\ ok]
<1>1. worker[w] \in WorkerState
  BY DEF TypeOK
<1>2. s \in WorkerState
  BY <1>1 DEF WorkerState
<1>3. CASE Proceed(w, s, open, counted)
  <2>. HIDE DEF s
  <2>. QED  BY <1>2, <1>3, ProceedEffect
<1>4. CASE worker' = [worker EXCEPT ![w] = Off] /\ count' = counted
  BY <1>4 DEF TypeOK, Off, WorkerState, Where, Resting
<1>5. CASE worker' = [worker EXCEPT ![w] = [s EXCEPT !.at = "thinking"]] /\ count' = counted
  <2>1. [s EXCEPT !.at = "thinking"] \in WorkerState /\ [s EXCEPT !.at = "thinking"].at = "thinking"
    BY <1>2 DEF WorkerState, Where
  <2>. QED  BY <1>5, <2>1 DEF TypeOK, Resting
<1>. QED  BY <1>3, <1>4, <1>5 DEF Returned

-----------------------------------------------------------------------------
(***************************************************************************)
(* A step of a sender that is at work, which leaves the control goroutine  *)
(* and the dispatcher alone, starts nothing outside a stage.               *)
(***************************************************************************)
LEMMA SenderStepIsQuiet ==
  ASSUME EngineInv, NEW w \in Senders, worker[w].at # "off",
         \A v \in Senders \ {w} : worker'[v] = worker[v],
         UNCHANGED <<config, pc, left, arriving>>
  PROVE  QuietBetweenStages' /\ WarmupIsAlone'
<1>1. ASSUME pc \notin InStage PROVE Busy' = {} /\ ~arriving'
  <2>1. Busy = {} /\ ~arriving
    BY <1>1 DEF EngineInv, QuietBetweenStages
  <2>2. w \notin Workers
    BY <2>1 DEF Busy
  <2>3. \A v \in Workers : worker'[v] = worker[v]
    BY <2>2, MainIsNoWorker
  <2>. QED  BY <2>1, <2>3 DEF Busy
<1>2. ASSUME pc # "warmup" PROVE worker'[Main] = Off
  <2>1. worker[Main] = Off
    BY <1>2 DEF EngineInv, WarmupIsAlone
  <2>2. w # Main
    BY <2>1 DEF Off
  <2>. QED  BY <2>1, <2>2, MainIsNoWorker
<1>. QED  BY <1>1, <1>2 DEF EngineInv, QuietBetweenStages, WarmupIsAlone, InStage

(***************************************************************************)
(* The books: an attempt is issued and in flight, or answered and no       *)
(* longer in flight, or the step is no concern of theirs.                  *)
(***************************************************************************)
LEMMA IssuedIsAccounted ==
  ASSUME TypeOK, AttemptsAccounted, NEW w \in Senders, worker[w].at # "calling",
         worker'[w].at = "calling", \A v \in Senders \ {w} : worker'[v] = worker[v],
         count' = [count EXCEPT !["issued"] = @ + 1]
  PROVE  AttemptsAccounted'
<1>1. Cardinality(Calling') = Cardinality(Calling) + 1
  BY CallingEffect
<1>2. count'["issued"] = count["issued"] + 1
      /\ \A c \in Counters \ {"issued"} : count'[c] = count[c]
  BY DEF TypeOK, Counters
<1>. QED  BY <1>1, <1>2, CallingIsFinite DEF AttemptsAccounted, TypeOK, Counters

LEMMA AnswerIsAccounted ==
  ASSUME TypeOK, AttemptsAccounted, NEW w \in Senders, worker[w].at = "calling",
         worker'[w].at # "calling", \A v \in Senders \ {w} : worker'[v] = worker[v],
         NEW a \in {"successes", "httpFailures", "transportErrors", "cancelled"},
         \A c \in Counters \ {"completedSessions"} : count'[c] = [count EXCEPT ![a] = @ + 1][c]
  PROVE  AttemptsAccounted'
<1>1. Cardinality(Calling') = Cardinality(Calling) - 1
  BY CallingEffect
<1>2. /\ count'["issued"] = count["issued"]
      /\ count'["successes"] = count["successes"] + (IF a = "successes" THEN 1 ELSE 0)
      /\ count'["httpFailures"] = count["httpFailures"] + (IF a = "httpFailures" THEN 1 ELSE 0)
      /\ count'["transportErrors"] = count["transportErrors"] + (IF a = "transportErrors" THEN 1 ELSE 0)
      /\ count'["cancelled"] = count["cancelled"] + (IF a = "cancelled" THEN 1 ELSE 0)
  BY DEF TypeOK, Counters
<1>. QED  BY <1>1, <1>2, CallingIsFinite DEF AttemptsAccounted, TypeOK, Counters

Booked == {"issued", "successes", "httpFailures", "transportErrors", "cancelled"}

LEMMA OtherStepIsAccounted ==
  ASSUME AttemptsAccounted, NEW w \in Senders, worker[w].at # "calling",
         worker'[w].at # "calling", \A v \in Senders \ {w} : worker'[v] = worker[v],
         \A c \in Booked : count'[c] = count[c]
  PROVE  AttemptsAccounted'
<1>1. Calling' = Calling
  BY CallingEffect
<1>. QED  BY <1>1 DEF AttemptsAccounted, Booked

-----------------------------------------------------------------------------
(***************************************************************************)
(* Steps of the senders.                                                   *)
(***************************************************************************)
LEMMA SenderStepKeepsInv ==
  ASSUME EngineInv, NEW w \in Senders, worker[w].at # "off",
         worker' \in [Senders -> WorkerState], \A v \in Senders \ {w} : worker'[v] = worker[v],
         count' \in [Counters -> Nat], AttemptsAccounted',
         UNCHANGED <<config, pc, stage, left, issueOver, requestsCut, arriving>>,
         runEnd' \in {"live", "user", "guardrail"}, failures' \in 0 .. BreakerThreshold,
         stopped' \in BOOLEAN
  PROVE  EngineInv'
<1>1. QuietBetweenStages' /\ WarmupIsAlone'
  BY SenderStepIsQuiet
<1>2. TypeOK'
  BY DEF EngineInv, TypeOK, Stages
<1>. QED  BY <1>1, <1>2 DEF EngineInv

\* One sender moves on without touching the books.
Moves(w) ==
  /\ worker[w].at \notin {"off", "calling"} /\ worker'[w].at # "calling"
  /\ worker' \in [Senders -> WorkerState]
  /\ \A v \in Senders \ {w} : worker'[v] = worker[v]
  /\ count' \in [Counters -> Nat] /\ \A c \in Booked : count'[c] = count[c]

LEMMA MoveKeepsInv ==
  ASSUME EngineInv, NEW w \in Senders, Moves(w), UNCHANGED <<config, control, failures, stopped>>
  PROVE  EngineInv'
<1>1. AttemptsAccounted'
  BY OtherStepIsAccounted DEF EngineInv, Moves
<1>2. /\ worker[w].at # "off"
      /\ UNCHANGED <<config, pc, stage, left, issueOver, requestsCut, arriving>>
      /\ runEnd' \in {"live", "user", "guardrail"} /\ failures' \in 0 .. BreakerThreshold
      /\ stopped' \in BOOLEAN
  BY DEF Moves, control, EngineInv, TypeOK
<1>. QED  BY <1>1, <1>2, SenderStepKeepsInv DEF Moves

\* An answer, or the end of the request's context, is counted as a.
Answers(w, a, ok, open) ==
  /\ worker[w].at = "calling"
  /\ Returned(w, ok, open, [count EXCEPT ![a] = @ + 1])
  /\ UNCHANGED <<config, pc, stage, left, issueOver, requestsCut, arriving>>
  /\ runEnd' \in {"live", "user", "guardrail"} /\ failures' \in 0 .. BreakerThreshold
  /\ stopped' \in BOOLEAN

LEMMA AnswerKeepsInv ==
  ASSUME EngineInv, NEW w \in Senders, NEW ok \in BOOLEAN, NEW open \in BOOLEAN,
         NEW a \in {"successes", "httpFailures", "transportErrors", "cancelled"},
         Answers(w, a, ok, open)
  PROVE  EngineInv'
<1>. DEFINE counted == [count EXCEPT ![a] = @ + 1]
<1>1. TypeOK /\ counted \in [Counters -> Nat]
  BY DEF EngineInv, TypeOK, Counters
<1>2. Returned(w, ok, open, counted)
  BY DEF Answers
<1>3. /\ worker' \in [Senders -> WorkerState]
      /\ worker'[w].at # "calling"
      /\ \A v \in Senders \ {w} : worker'[v] = worker[v]
      /\ count' \in [Counters -> Nat]
      /\ \A c \in Counters \ {"completedSessions"} : count'[c] = counted[c]
  <2>. HIDE DEF counted
  <2>. QED  BY <1>1, <1>2, ReturnedEffect DEF Resting
<1>4. AttemptsAccounted'
  BY <1>1, <1>3, AnswerIsAccounted DEF Answers, EngineInv
<1>. QED  BY <1>3, <1>4, SenderStepKeepsInv DEF Answers

\* Issue is the whole effect on workers and counters of an attempt.
LEMMA IssueKeepsInv ==
  ASSUME EngineInv, NEW w \in Senders, worker[w].at \in {"due", "held"}, Issue(w),
         UNCHANGED <<config, control, failures, stopped>>
  PROVE  EngineInv'
<1>1. TypeOK /\ count \in [Counters -> Nat] /\ IssueOpen \in BOOLEAN
  BY DEF EngineInv, TypeOK, IssueOpen, RunLive
<1>2. CASE Cut(w) /\ Returned(w, FALSE, IssueOpen, count)
  <2>1. /\ worker' \in [Senders -> WorkerState]
        /\ worker'[w].at # "calling"
        /\ \A v \in Senders \ {w} : worker'[v] = worker[v]
        /\ count' \in [Counters -> Nat]
        /\ \A c \in Counters \ {"completedSessions"} : count'[c] = count[c]
    BY <1>1, <1>2, ReturnedEffect DEF Resting
  <2>2. Moves(w)
    BY <2>1 DEF Moves, Booked, Counters
  <2>. QED  BY <2>2, MoveKeepsInv
<1>3. CASE /\ worker' = [worker EXCEPT ![w].at = "calling"]
           /\ count' = [count EXCEPT !["issued"] = @ + 1]
  <2>1. /\ worker' \in [Senders -> WorkerState]
        /\ worker'[w].at = "calling"
        /\ \A v \in Senders \ {w} : worker'[v] = worker[v]
    BY <1>1, <1>3 DEF TypeOK, WorkerState, Where
  <2>2. count' \in [Counters -> Nat]
    BY <1>1, <1>3 DEF Counters
  <2>3. AttemptsAccounted'
    BY <1>3, <2>1, IssuedIsAccounted DEF EngineInv
  <2>4. /\ worker[w].at # "off"
        /\ UNCHANGED <<config, pc, stage, left, issueOver, requestsCut, arriving>>
        /\ runEnd' \in {"live", "user", "guardrail"} /\ failures' \in 0 .. BreakerThreshold
        /\ stopped' \in BOOLEAN
    BY DEF control, EngineInv, TypeOK
  <2>. QED  BY <2>1, <2>2, <2>3, <2>4, SenderStepKeepsInv
<1>. QED  BY <1>2, <1>3 DEF Issue

(***************************************************************************)
(* What a worker at the head of its loop, or an arrival, begins.           *)
(***************************************************************************)
LEMMA JourneyBegins ==
  ASSUME TypeOK, NEW w \in Workers, NEW kind,
         worker' = [worker EXCEPT ![w] = Journey(@, kind)],
         count' = [count EXCEPT !["sessions"] = @ + Sessions(kind)]
  PROVE  /\ worker' \in [Senders -> WorkerState]
         /\ worker'[w].at \in {"ready", "due"}
         /\ \A v \in Senders \ {w} : worker'[v] = worker[v]
         /\ count' \in [Counters -> Nat] /\ \A c \in Booked : count'[c] = count[c]
<1>1. w \in Senders /\ worker[w] \in WorkerState
  BY MainIsNoWorker DEF TypeOK
<1>2. Journey(worker[w], kind) \in WorkerState /\ Journey(worker[w], kind).at \in {"ready", "due"}
  BY <1>1 DEF Journey, WorkerState, Where
<1>3. Sessions(kind) \in Nat
  BY DEF Sessions
<1>4. worker' = [worker EXCEPT ![w] = Journey(worker[w], kind)]
  OBVIOUS
<1>5. /\ worker' \in [Senders -> WorkerState]
      /\ worker'[w].at \in {"ready", "due"}
      /\ \A v \in Senders \ {w} : worker'[v] = worker[v]
  BY <1>1, <1>2, <1>4 DEF TypeOK
<1>6. count' \in [Counters -> Nat] /\ \A c \in Booked : count'[c] = count[c]
  BY <1>3 DEF TypeOK, Counters, Booked
<1>. QED  BY <1>5, <1>6

LEMMA WorkerActionsKeepInv ==
  ASSUME EngineInv, NEW w \in Workers,
         LoopOn(w) \/ LoopEnds(w) \/ NextTask(w) \/ LeaveSession(w) \/ Think(w) \/ StopThinking(w)
  PROVE  EngineInv'
<1>1. w \in Senders /\ TypeOK /\ worker[w] \in WorkerState
  BY MainIsNoWorker DEF EngineInv, TypeOK
<1>2. CASE LoopOn(w)
  <2>1. PICK kind : /\ worker' = [worker EXCEPT ![w] = Journey(@, kind)]
                    /\ count' = [count EXCEPT !["sessions"] = @ + Sessions(kind)]
    BY <1>2 DEF LoopOn
  <2>2. Moves(w)
    BY <1>1, <1>2, <2>1, JourneyBegins DEF LoopOn, Moves
  <2>. QED  BY <1>1, <1>2, <2>2, MoveKeepsInv DEF LoopOn
<1>3. CASE LoopEnds(w)
  <2>1. Moves(w)
    BY <1>1, <1>3 DEF LoopEnds, Moves, Off, WorkerState, Where, TypeOK, Booked, Counters
  <2>. QED  BY <1>1, <1>3, <2>1, MoveKeepsInv DEF LoopEnds
<1>4. CASE NextTask(w)
  <2>1. Moves(w)
    BY <1>1, <1>4 DEF NextTask, Moves, WorkerState, Where, TypeOK, Booked, Counters
  <2>. QED  BY <1>1, <1>4, <2>1, MoveKeepsInv DEF NextTask
<1>5. CASE LeaveSession(w)
  <2>1. JourneyOver(worker[w]) \in WorkerState /\ JourneyOver(worker[w]).at # "calling"
    BY <1>1, JourneyOverIsTyped DEF Resting
  <2>2. worker' = [worker EXCEPT ![w] = JourneyOver(worker[w])] /\ worker[w].at = "ready" /\ count' = count
    BY <1>5 DEF LeaveSession
  <2>3. Moves(w)
    BY <1>1, <2>1, <2>2 DEF Moves, TypeOK, Booked, Counters
  <2>. QED  BY <1>1, <1>5, <2>3, MoveKeepsInv DEF LeaveSession
<1>6. ASSUME NEW kept \in BOOLEAN, worker[w].at = "thinking", Proceed(w, worker[w], kept, count)
      PROVE  Moves(w)
  <2>1. count \in [Counters -> Nat]
    BY <1>1 DEF TypeOK
  <2>. QED  BY <1>1, <1>6, <2>1, ProceedEffect DEF Resting, Moves, Booked, Counters
<1>7. CASE Think(w)
  BY <1>1, <1>6, <1>7, MoveKeepsInv DEF Think
<1>8. CASE StopThinking(w)
  BY <1>1, <1>6, <1>8, MoveKeepsInv DEF StopThinking
<1>. QED  BY <1>2, <1>3, <1>4, <1>5, <1>7, <1>8

LEMMA SenderActionsKeepInv ==
  ASSUME EngineInv, NEW w \in Senders,
         \/ Attempt(w) \/ Backoff(w) \/ Release(w) \/ Succeed(w) \/ HTTPFailure(w)
         \/ TransportError(w) \/ CutShort(w) \/ DialTimeout(w)
  PROVE  EngineInv'
<1>1. TypeOK /\ worker[w] \in WorkerState /\ IssueOpen \in BOOLEAN
  BY DEF EngineInv, TypeOK, IssueOpen, RunLive
<1>2. OneMoreFailure \in 0 .. BreakerThreshold /\ 0 \in 0 .. BreakerThreshold
  BY <1>1, RunEngineAssumption DEF OneMoreFailure, TypeOK
<1>3. CASE Attempt(w)
  BY <1>3, IssueKeepsInv DEF Attempt
<1>4. CASE Release(w)
  BY <1>4, IssueKeepsInv DEF Release
<1>5. CASE Backoff(w)
  <2>1. Moves(w)
    BY <1>1, <1>5 DEF Backoff, Moves, WorkerState, Where, TypeOK, Booked, Counters
  <2>. QED  BY <1>5, <2>1, MoveKeepsInv DEF Backoff
<1>6. CASE Succeed(w)
  <2>1. PICK trip \in {FALSE} \cup {Trips} :
          /\ stopped' = (stopped \/ trip)
          /\ runEnd' = IF trip /\ RunLive THEN "guardrail" ELSE runEnd
          /\ Returned(w, TRUE, IssueOpen /\ ~trip, [count EXCEPT !["successes"] = @ + 1])
    BY <1>6 DEF Succeed
  <2>2. trip \in BOOLEAN
    BY DEF Trips
  <2>3. stopped' \in BOOLEAN /\ (IssueOpen /\ ~trip) \in BOOLEAN
    BY <1>1, <2>1, <2>2 DEF TypeOK
  <2>4. runEnd' \in {"live", "user", "guardrail"}
    BY <1>1, <2>1 DEF TypeOK
  <2>5. Answers(w, "successes", TRUE, IssueOpen /\ ~trip)
    BY <1>2, <1>6, <2>1, <2>3, <2>4 DEF Answers, Succeed
  <2>. QED  BY <2>3, <2>5, AnswerKeepsInv
<1>7. ASSUME UNCHANGED <<control, stopped>>
      PROVE  /\ UNCHANGED <<pc, stage, left, issueOver, requestsCut, arriving>>
             /\ runEnd' \in {"live", "user", "guardrail"} /\ stopped' \in BOOLEAN
             /\ failures \in 0 .. BreakerThreshold
  BY <1>1, <1>7 DEF control, TypeOK
<1>8. CASE HTTPFailure(w)
  <2>1. Answers(w, "httpFailures", FALSE, IssueOpen)
    BY <1>2, <1>7, <1>8 DEF Answers, HTTPFailure
  <2>. QED  BY <1>1, <2>1, AnswerKeepsInv
<1>9. CASE TransportError(w)
  <2>1. Answers(w, "transportErrors", FALSE, IssueOpen)
    BY <1>2, <1>7, <1>9 DEF Answers, TransportError
  <2>. QED  BY <1>1, <2>1, AnswerKeepsInv
<1>10. CASE CutShort(w)
  <2>1. Answers(w, "cancelled", FALSE, IssueOpen)
    BY <1>7, <1>10 DEF Answers, CutShort, CountedAsCancelled
  <2>. QED  BY <1>1, <2>1, AnswerKeepsInv
<1>11. CASE DialTimeout(w)
  <2>1. Answers(w, "cancelled", FALSE, IssueOpen)
    BY <1>7, <1>11 DEF Answers, DialTimeout, CountedAsCancelled
  <2>. QED  BY <1>1, <2>1, AnswerKeepsInv
<1>. QED  BY <1>3, <1>4, <1>5, <1>6, <1>8, <1>9, <1>10, <1>11

-----------------------------------------------------------------------------
(***************************************************************************)
(* Steps of the dispatcher.                                                *)
(***************************************************************************)
LEMMA ArrivalKeepsPhase ==
  ASSUME EngineInv, Arrival, worker'[Main] = worker[Main]
  PROVE  /\ left' \in Nat /\ arriving' \in BOOLEAN
         /\ QuietBetweenStages' /\ WarmupIsAlone'
<1>1. left \in Nat /\ arriving /\ (config.mode = "trace" => left > 0)
  BY DEF EngineInv, TypeOK, WarmupIsAlone, Arrival
<1>2. pc \in InStage /\ pc' = pc /\ config' = config
  BY <1>1 DEF EngineInv, QuietBetweenStages, Arrival
<1>3. left' \in Nat /\ arriving' \in BOOLEAN
      /\ (arriving' /\ config.mode = "trace" => left' > 0)
  <2>1. CASE config.mode = "trace"
    <3>1. left' = left - 1 /\ arriving' = MoreEvents /\ left > 0
      BY <1>1, <2>1 DEF Arrival
    <3>2. MoreEvents \in BOOLEAN /\ (MoreEvents => left > 1)
      BY DEF MoreEvents
    <3>. QED  BY <1>1, <3>1, <3>2
  <2>2. CASE config.mode # "trace"
    BY <1>1, <2>2 DEF Arrival, EngineInv, TypeOK
  <2>. QED  BY <2>1, <2>2
<1>4. QuietBetweenStages'
  BY <1>2 DEF QuietBetweenStages, InStage
<1>5. WarmupIsAlone'
  BY <1>2, <1>3 DEF EngineInv, WarmupIsAlone
<1>. QED  BY <1>3, <1>4, <1>5

LEMMA DispatcherKeepsInv ==
  ASSUME EngineInv, Drop \/ StopArrivals \/ \E w \in Workers : Arrive(w)
  PROVE  EngineInv'
<1>. USE DEF EngineInv
<1>1. ASSUME NEW w \in Workers, Arrive(w) PROVE EngineInv'
  <2>1. PICK kind : /\ worker' = [worker EXCEPT ![w] = Journey(@, kind)]
                    /\ count' = [count EXCEPT !["sessions"] = @ + Sessions(kind)]
    BY <1>1 DEF Arrive
  <2>2. w \in Senders /\ worker[w].at # "calling"
    BY <1>1, MainIsNoWorker DEF Arrive, Busy
  <2>3. /\ worker' \in [Senders -> WorkerState]
        /\ worker'[w].at # "calling"
        /\ \A v \in Senders \ {w} : worker'[v] = worker[v]
        /\ count' \in [Counters -> Nat] /\ \A c \in Booked : count'[c] = count[c]
    BY <2>1, JourneyBegins
  <2>4. AttemptsAccounted'
    BY <2>2, <2>3, OtherStepIsAccounted
  <2>5. Arrival /\ worker'[Main] = worker[Main]
    BY <1>1, <2>3, MainIsNoWorker DEF Arrive
  <2>6. left' \in Nat /\ arriving' \in BOOLEAN /\ QuietBetweenStages' /\ WarmupIsAlone'
    BY <2>5, ArrivalKeepsPhase
  <2>7. TypeOK'
    BY <2>3, <2>5, <2>6 DEF TypeOK, Arrival, Stages
  <2>. QED  BY <2>4, <2>6, <2>7
<1>2. CASE Drop
  <2>1. left' \in Nat /\ arriving' \in BOOLEAN /\ QuietBetweenStages' /\ WarmupIsAlone'
    BY <1>2, ArrivalKeepsPhase DEF Drop
  <2>2. count' \in [Counters -> Nat] /\ \A c \in Booked : count'[c] = count[c]
    BY <1>2 DEF Drop, TypeOK, Counters, Booked
  <2>3. AttemptsAccounted'
    BY <1>2, <2>2 DEF Drop, AttemptsAccounted, Calling, Booked
  <2>4. TypeOK'
    BY <1>2, <2>1, <2>2 DEF Drop, Arrival, TypeOK, Stages
  <2>. QED  BY <2>1, <2>3, <2>4
<1>3. CASE StopArrivals
  <2>1. TypeOK'
    BY <1>3 DEF StopArrivals, TypeOK, Stages
  <2>2. QuietBetweenStages' /\ WarmupIsAlone'
    BY <1>3 DEF StopArrivals, QuietBetweenStages, WarmupIsAlone, Busy
  <2>3. AttemptsAccounted'
    BY <1>3 DEF StopArrivals, AttemptsAccounted, Calling
  <2>. QED  BY <2>1, <2>2, <2>3
<1>. QED  BY <1>1, <1>2, <1>3

(***************************************************************************)
(* Steps of the control goroutine, of timers and of contexts.              *)
(***************************************************************************)
LEMMA StartStageKeepsInv ==
  ASSUME EngineInv, StartStage
  PROVE  EngineInv'
<1>. USE DEF EngineInv
<1>1. config \in Configs /\ Stages \in Nat /\ config.events \in Nat
      /\ (config.mode = "trace" => config.events > 0)
  BY StagesIsNatural, RunEngineAssumption DEF TypeOK, Config
<1>2. stage \in 0 .. Stages /\ stage < Stages /\ pc = "between" /\ pc' = "issuing" /\ config' = config
  BY DEF StartStage, TypeOK
<1>3. Busy = {} /\ worker[Main] = Off
  BY <1>2 DEF QuietBetweenStages, WarmupIsAlone, InStage
<1>4. [Off EXCEPT !.at = "ready"] \in WorkerState /\ [Off EXCEPT !.at = "ready"].at = "ready"
  BY DEF Off, WorkerState, Where
<1>5. worker' \in [Senders -> WorkerState]
      /\ \A w \in Senders : worker'[w] = worker[w] \/ (w # Main /\ worker'[w].at = "ready")
  <2>. DEFINE n == config.loads[stage + 1]
  <2>1. worker' = [w \in Senders |-> IF config.mode = "vu" /\ w \in 1 .. n
                                      THEN [Off EXCEPT !.at = "ready"] ELSE worker[w]]
    BY DEF StartStage
  <2>2. Main \notin 1 .. n
    BY DEF Main
  <2>. HIDE DEF n
  <2>. QED  BY <1>4, <2>1, <2>2 DEF TypeOK
<1>6. \A w \in Senders : worker[w].at # "calling"
  BY <1>3 DEF Busy, Senders, Off
<1>7. Calling' = {} /\ Calling = {}
  BY <1>5, <1>6 DEF Calling
<1>8. AttemptsAccounted'
  BY <1>7 DEF StartStage, AttemptsAccounted
<1>9. stage' \in 0 .. Stages
  BY <1>1, <1>2 DEF StartStage
<1>10. TypeOK'
  <2>1. /\ UNCHANGED <<config, runEnd, count, failures, stopped>> /\ left' = config.events
        /\ issueOver' = FALSE /\ requestsCut' = FALSE /\ arriving' \in BOOLEAN
    BY DEF StartStage
  <2>2. stage' \in 0 .. Stages'
    BY <1>9, <2>1 DEF Stages
  <2>. QED  BY <1>1, <1>2, <1>5, <2>1, <2>2 DEF TypeOK, InStage
<1>11. QuietBetweenStages' /\ WarmupIsAlone'
  BY <1>1, <1>2, <1>3, <1>5, MainIsNoWorker DEF StartStage, QuietBetweenStages, WarmupIsAlone, InStage
<1>. QED  BY <1>8, <1>10, <1>11

LEMMA WarmupKeepsInv ==
  ASSUME EngineInv, WarmupRequest \/ EndWarmup
  PROVE  EngineInv'
<1>. USE DEF EngineInv
<1>1. Busy = {} /\ ~arriving /\ pc = "warmup" /\ worker[Main] = Off
  BY DEF WarmupRequest, EndWarmup, QuietBetweenStages, InStage
<1>2. CASE WarmupRequest
  <2>1. /\ worker' \in [Senders -> WorkerState] /\ worker'[Main].at = "due"
        /\ \A v \in Senders \ {Main} : worker'[v] = worker[v]
    BY <1>1, <1>2, MainIsNoWorker DEF WarmupRequest, TypeOK, WorkerState, Where, Off
  <2>2. AttemptsAccounted'
    BY <1>1, <1>2, <2>1, MainIsNoWorker, OtherStepIsAccounted DEF WarmupRequest, Off, Booked
  <2>3. TypeOK'
    BY <1>2, <2>1 DEF WarmupRequest, TypeOK, Stages
  <2>4. QuietBetweenStages' /\ WarmupIsAlone'
    BY <1>1, <1>2, <2>1, MainIsNoWorker DEF WarmupRequest, QuietBetweenStages, WarmupIsAlone, Busy
  <2>. QED  BY <2>2, <2>3, <2>4
<1>3. CASE EndWarmup
  <2>1. Calling = {} /\ Calling' = {}
    BY <1>1, <1>3 DEF EndWarmup, Calling, Busy, Senders, Off
  <2>2. count' \in [Counters -> Nat] /\ \A c \in Booked : count'[c] = 0
    BY <1>3 DEF EndWarmup, Reset, TypeOK, Counters, Booked
  <2>3. Cardinality(Calling') = 0
    BY <2>1, FS_EmptySet
  <2>4. AttemptsAccounted'
    BY <2>2, <2>3 DEF AttemptsAccounted, Booked
  <2>5. TypeOK'
    BY <1>3, <2>2 DEF EndWarmup, TypeOK, Stages
  <2>6. QuietBetweenStages' /\ WarmupIsAlone'
    BY <1>1, <1>3 DEF EndWarmup, QuietBetweenStages, WarmupIsAlone, Busy
  <2>. QED  BY <2>4, <2>5, <2>6
<1>. QED  BY <1>2, <1>3

LEMMA ControlKeepsInv ==
  ASSUME EngineInv,
         \/ EndStages \/ EndCooldown \/ StageTimer \/ EndIssue \/ EndDrain
         \/ EndStage \/ WatchRun \/ UserCancel
  PROVE  EngineInv'
<1>. USE DEF EngineInv
<1>1. UNCHANGED <<config, stage, left, arriving, worker, count, failures, stopped>>
  BY DEF EndStages, EndCooldown, StageTimer, EndIssue, EndDrain, EndStage, WatchRun, UserCancel, Join
<1>2. AttemptsAccounted'
  BY <1>1 DEF AttemptsAccounted, Calling
<1>3. TypeOK'
  BY <1>1 DEF EndStages, EndCooldown, StageTimer, EndIssue, EndDrain, EndStage, WatchRun, UserCancel,
              Join, TypeOK, Stages, InStage
<1>4. pc = "warmup" => pc' = "warmup"
  BY DEF EndStages, EndCooldown, StageTimer, EndIssue, EndDrain, EndStage, WatchRun, UserCancel, Join,
         InStage
<1>5. pc \in InStage /\ pc' \notin InStage => Busy = {} /\ ~arriving
  BY DEF EndStages, EndCooldown, StageTimer, EndIssue, EndDrain, EndStage, WatchRun, UserCancel, Join,
         InStage, StageFinished, Finished
<1>6. QuietBetweenStages'
  BY <1>1, <1>5 DEF QuietBetweenStages, InStage, Busy
<1>7. WarmupIsAlone'
  BY <1>1, <1>4 DEF WarmupIsAlone, EndStages, EndCooldown, StageTimer, EndIssue, EndDrain, EndStage,
                    WatchRun, UserCancel, Join, InStage
<1>. QED  BY <1>2, <1>3, <1>6, <1>7

-----------------------------------------------------------------------------
LEMMA EngineInvInitially == Init => EngineInv
<1>. SUFFICES ASSUME Init PROVE EngineInv
  OBVIOUS
<1>1. config \in Configs /\ Stages \in Nat /\ config.warmups \in Nat
  BY StagesIsNatural, RunEngineAssumption DEF Init, Config
<1>2. TypeOK
  <2>1. worker \in [Senders -> WorkerState]
    BY DEF Init, Off, WorkerState, Where
  <2>2. count \in [Counters -> Nat] /\ failures \in 0 .. BreakerThreshold /\ stage \in 0 .. Stages
    BY <1>1, RunEngineAssumption DEF Init
  <2>. QED  BY <1>1, <2>1, <2>2 DEF Init, TypeOK, InStage
<1>3. Calling = {} /\ Busy = {}
  BY MainIsNoWorker DEF Init, Calling, Busy, Off
<1>4. AttemptsAccounted
  BY <1>3, FS_EmptySet DEF Init, AttemptsAccounted, Counters
<1>. QED  BY <1>2, <1>3, <1>4 DEF EngineInv, QuietBetweenStages, WarmupIsAlone, Init

LEMMA EngineInvInductive == EngineInv /\ [Next]_vars => EngineInv'
<1>. SUFFICES ASSUME EngineInv, [Next]_vars PROVE EngineInv'
  OBVIOUS
<1>1. CASE WarmupRequest \/ EndWarmup
  BY <1>1, WarmupKeepsInv
<1>2. CASE StartStage
  BY <1>2, StartStageKeepsInv
<1>3. CASE \/ EndStages \/ EndCooldown \/ StageTimer \/ EndIssue \/ EndDrain
           \/ EndStage \/ WatchRun \/ UserCancel
  BY <1>3, ControlKeepsInv
<1>4. CASE Drop \/ StopArrivals \/ \E w \in Workers : Arrive(w)
  BY <1>4, DispatcherKeepsInv
<1>5. ASSUME NEW w \in Workers,
             LoopOn(w) \/ LoopEnds(w) \/ NextTask(w) \/ LeaveSession(w) \/ Think(w) \/ StopThinking(w)
      PROVE  EngineInv'
  BY <1>5, WorkerActionsKeepInv
<1>6. ASSUME NEW w \in Senders,
             \/ Attempt(w) \/ Backoff(w) \/ Release(w) \/ Succeed(w) \/ HTTPFailure(w)
             \/ TransportError(w) \/ CutShort(w) \/ DialTimeout(w)
      PROVE  EngineInv'
  BY <1>6, SenderActionsKeepInv
<1>7. CASE UNCHANGED vars
  BY <1>7 DEF vars, control, EngineInv, TypeOK, Stages, QuietBetweenStages, WarmupIsAlone,
              AttemptsAccounted, Busy, Calling
<1>. QED  BY <1>1, <1>2, <1>3, <1>4, <1>5, <1>6, <1>7 DEF Next

(***************************************************************************)
(* A load phase keeps its types.                                           *)
(***************************************************************************)
THEOREM EngineTypeCorrect == Spec => []TypeOK
<1>1. EngineInv => TypeOK
  BY DEF EngineInv
<1>. QED  BY <1>1, EngineInvInitially, EngineInvInductive, PTL DEF Spec

(***************************************************************************)
(* However requests end and whenever they are cut, every attempt issued by *)
(* doRequest is in exactly one of the lifecycle counters or in flight.     *)
(***************************************************************************)
THEOREM AttemptsAlwaysAccounted == Spec => []AttemptsAccounted
<1>1. EngineInv => AttemptsAccounted
  BY DEF EngineInv
<1>. QED  BY <1>1, EngineInvInitially, EngineInvInductive, PTL DEF Spec

(***************************************************************************)
(* When runStage has returned, no worker and no dispatcher of the stage    *)
(* goes on.                                                                *)
(***************************************************************************)
THEOREM StagesNeverOverlap == Spec => []QuietBetweenStages
<1>1. EngineInv => QuietBetweenStages
  BY DEF EngineInv
<1>. QED  BY <1>1, EngineInvInitially, EngineInvInductive, PTL DEF Spec

-----------------------------------------------------------------------------
(***************************************************************************)
(* The circuit breaker.  DeadTargetIsSpared is not inductive: it must be   *)
(* known what may still fail.  Below the threshold all failures are        *)
(* consecutive, for nothing has succeeded; at the threshold a failure is   *)
(* to come from every attempt that is past the check, and those are the    *)
(* attempts held back and the ones that were in flight when the threshold  *)
(* was reached, which are fewer than the workers.                          *)
(***************************************************************************)
PastCheck == {w \in Senders : worker[w].at \in {"calling", "held"}}

Failed == count["httpFailures"] + count["transportErrors"]

SparedInv ==
  count["successes"] = 0 =>
    IF failures < BreakerThreshold THEN Failed <= failures
    ELSE Failed + Cardinality(PastCheck)
           <= count["backoffEvents"] + BreakerThreshold - 1 + Cardinality(Workers)

LEMMA PastCheckIsFinite ==
  /\ IsFiniteSet(PastCheck) /\ Cardinality(PastCheck) \in Nat
  /\ IsFiniteSet(Workers) /\ Cardinality(Workers) \in Nat /\ Cardinality(Workers) > 0
<1>1. IsFiniteSet(Senders)
  BY FS_AddElement, RunEngineAssumption DEF Senders
<1>2. PastCheck \subseteq Senders
  BY DEF PastCheck
<1>3. Cardinality(Workers) # 0
  BY FS_EmptySet, RunEngineAssumption
<1>. QED  BY <1>1, <1>2, <1>3, FS_Subset, FS_CardinalityType, RunEngineAssumption

LEMMA PastCheckEffect ==
  ASSUME NEW w \in Senders, \A v \in Senders \ {w} : worker'[v] = worker[v]
  PROVE  /\ (w \notin PastCheck /\ worker'[w].at = "held")
              => Cardinality(PastCheck') = Cardinality(PastCheck) + 1
         /\ (w \in PastCheck /\ worker'[w].at \in Resting)
              => Cardinality(PastCheck') = Cardinality(PastCheck) - 1
         /\ (w \in PastCheck /\ worker'[w].at = "calling") => PastCheck' = PastCheck
<1>1. CASE w \notin PastCheck /\ worker'[w].at = "held"
  <2>1. PastCheck' = PastCheck \cup {w}
    BY <1>1 DEF PastCheck
  <2>. QED  BY <1>1, <2>1, PastCheckIsFinite, FS_AddElement
<1>2. CASE w \in PastCheck /\ worker'[w].at \in Resting
  <2>1. PastCheck' = PastCheck \ {w}
    BY <1>2 DEF PastCheck, Resting
  <2>. QED  BY <1>2, <2>1, PastCheckIsFinite, FS_RemoveElement DEF Resting
<1>3. CASE w \in PastCheck /\ worker'[w].at = "calling"
  BY <1>3 DEF PastCheck, Resting
<1>. QED  BY <1>1, <1>2, <1>3 DEF Resting

(***************************************************************************)
(* When an attempt of one sender ends, fewer than the workers are still    *)
(* past the check: the warm-up is over when workers send.                  *)
(***************************************************************************)
LEMMA FewPastCheck ==
  ASSUME EngineInv, NEW w \in Senders, worker[w].at = "calling", worker'[w].at \in Resting,
         \A v \in Senders \ {w} : worker'[v] = worker[v]
  PROVE  Cardinality(PastCheck') <= Cardinality(Workers) - 1
<1>1. CASE w \in Workers
  <2>1. w \in Busy
    BY <1>1 DEF Busy
  <2>2. worker[Main] = Off
    BY <2>1 DEF EngineInv, QuietBetweenStages, WarmupIsAlone, InStage
  <2>3. PastCheck' \subseteq Workers \ {w}
    BY <1>1, <2>2, MainIsNoWorker DEF PastCheck, Senders, Off, Resting
  <2>4. IsFiniteSet(Workers \ {w}) /\ Cardinality(Workers \ {w}) = Cardinality(Workers) - 1
    BY <1>1, PastCheckIsFinite, FS_RemoveElement
  <2>. QED  BY <2>3, <2>4, FS_Subset
<1>2. CASE w = Main
  <2>1. Busy = {}
    BY <1>2 DEF EngineInv, QuietBetweenStages, WarmupIsAlone, InStage, Off
  <2>2. PastCheck' = {}
    BY <1>2, <2>1, MainIsNoWorker DEF PastCheck, Senders, Busy, Resting
  <2>. QED  BY <2>2, PastCheckIsFinite, FS_EmptySet
<1>. QED  BY <1>1, <1>2 DEF Senders

(***************************************************************************)
(* A step that fails nothing and lets nobody past the check.               *)
(***************************************************************************)
LEMMA NobodyPasses ==
  ASSUME TypeOK, SparedInv, UNCHANGED failures, PastCheck' \subseteq PastCheck,
         \A c \in {"httpFailures", "transportErrors", "successes", "backoffEvents"} :
           count'[c] = count[c]
  PROVE  SparedInv'
<1>1. Cardinality(PastCheck') <= Cardinality(PastCheck) /\ Cardinality(PastCheck') \in Nat
  BY PastCheckIsFinite, FS_Subset, FS_CardinalityType
<1>2. Failed' = Failed /\ Failed \in Nat /\ count["backoffEvents"] \in Nat
  BY DEF Failed, TypeOK, Counters
<1>. QED  BY <1>1, <1>2, PastCheckIsFinite, RunEngineAssumption DEF SparedInv, TypeOK

(***************************************************************************)
(* A request ends with a failure that counts.                              *)
(***************************************************************************)
LEMMA FailureSpares ==
  ASSUME EngineInv, SparedInv, NEW w \in Senders, worker[w].at = "calling",
         NEW a \in {"httpFailures", "transportErrors"}, failures' = OneMoreFailure,
         NEW open \in BOOLEAN, Returned(w, FALSE, open, [count EXCEPT ![a] = @ + 1])
  PROVE  SparedInv'
<1>. DEFINE counted == [count EXCEPT ![a] = @ + 1]
<1>0. TypeOK /\ counted \in [Counters -> Nat]
  BY DEF EngineInv, TypeOK, Counters
<1>1. /\ worker'[w].at \in Resting
      /\ \A v \in Senders \ {w} : worker'[v] = worker[v]
      /\ \A c \in Counters \ {"completedSessions"} : count'[c] = counted[c]
  <2>1. Returned(w, FALSE, open, counted)
    OBVIOUS
  <2>. HIDE DEF counted
  <2>. QED  BY <1>0, <2>1, ReturnedEffect DEF Resting
<1>2. /\ Failed' = Failed + 1 /\ Failed \in Nat
      /\ count'["successes"] = count["successes"]
      /\ count'["backoffEvents"] = count["backoffEvents"] /\ count["backoffEvents"] \in Nat
  BY <1>0, <1>1 DEF Failed, TypeOK, Counters
<1>3. Cardinality(PastCheck') = Cardinality(PastCheck) - 1
      /\ Cardinality(PastCheck') <= Cardinality(Workers) - 1
  BY <1>1, PastCheckEffect, FewPastCheck DEF PastCheck
<1>. HIDE DEF counted
<1>. QED  BY <1>0, <1>2, <1>3, PastCheckIsFinite, RunEngineAssumption
          DEF SparedInv, OneMoreFailure, TypeOK

(***************************************************************************)
(* The other steps of a sender: one that ends or begins something without  *)
(* an answer, one that is held back, one that issues its attempt.          *)
(***************************************************************************)
LEMMA RestingSpares ==
  ASSUME TypeOK, SparedInv, NEW w \in Senders, worker'[w].at \in Resting \cup {"due"},
         \A v \in Senders \ {w} : worker'[v] = worker[v], UNCHANGED failures,
         \A c \in {"httpFailures", "transportErrors", "successes", "backoffEvents"} :
           count'[c] = count[c]
  PROVE  SparedInv'
<1>1. PastCheck' \subseteq PastCheck
  BY DEF PastCheck, Resting
<1>. QED  BY <1>1, NobodyPasses

LEMMA IssueSpares ==
  ASSUME TypeOK, SparedInv, NEW w \in Senders, Issue(w), UNCHANGED failures,
         worker[w].at = "held" \/ (worker[w].at = "due" /\ ~HeldBack)
  PROVE  SparedInv'
<1>1. count \in [Counters -> Nat] /\ IssueOpen \in BOOLEAN
  BY DEF TypeOK, IssueOpen, RunLive
<1>2. CASE Cut(w) /\ Returned(w, FALSE, IssueOpen, count)
  <2>1. /\ worker'[w].at \in Resting
        /\ \A v \in Senders \ {w} : worker'[v] = worker[v]
        /\ \A c \in Counters \ {"completedSessions"} : count'[c] = count[c]
    BY <1>1, <1>2, ReturnedEffect
  <2>. QED  BY <2>1, RestingSpares DEF Counters
<1>3. CASE /\ worker' = [worker EXCEPT ![w].at = "calling"]
           /\ count' = [count EXCEPT !["issued"] = @ + 1]
  <2>1. worker'[w].at = "calling" /\ \A v \in Senders \ {w} : worker'[v] = worker[v]
    BY <1>3 DEF TypeOK, WorkerState
  <2>2. \A c \in {"httpFailures", "transportErrors", "successes", "backoffEvents"} :
          count'[c] = count[c]
    BY <1>1, <1>3 DEF Counters
  <2>3. CASE worker[w].at = "held"
    <3>1. PastCheck' = PastCheck
      BY <2>1, <2>3, PastCheckEffect DEF PastCheck
    <3>. QED  BY <2>2, <3>1, NobodyPasses
  <2>4. CASE failures # BreakerThreshold
    <3>1. Failed' = Failed /\ failures < BreakerThreshold
      BY <2>2, <2>4, RunEngineAssumption DEF Failed, TypeOK
    <3>. QED  BY <2>2, <3>1 DEF SparedInv
  <2>. QED  BY <2>3, <2>4 DEF HeldBack
<1>. QED  BY <1>2, <1>3 DEF Issue

LEMMA SenderActionsSpare ==
  ASSUME EngineInv, SparedInv, NEW w \in Senders,
         \/ Attempt(w) \/ Backoff(w) \/ Release(w) \/ Succeed(w) \/ HTTPFailure(w)
         \/ TransportError(w) \/ CutShort(w) \/ DialTimeout(w)
  PROVE  SparedInv'
<1>1. TypeOK /\ IssueOpen \in BOOLEAN
  BY DEF EngineInv, TypeOK, IssueOpen, RunLive
<1>2. CASE Attempt(w) \/ Release(w)
  BY <1>1, <1>2, IssueSpares DEF Attempt, Release
<1>3. CASE Backoff(w)
  <2>1. worker'[w].at = "held" /\ \A v \in Senders \ {w} : worker'[v] = worker[v]
    BY <1>1, <1>3 DEF Backoff, TypeOK, WorkerState
  <2>2. Cardinality(PastCheck') = Cardinality(PastCheck) + 1
    BY <1>3, <2>1, PastCheckEffect DEF Backoff, PastCheck
  <2>3. /\ count'["backoffEvents"] = count["backoffEvents"] + 1 /\ count["backoffEvents"] \in Nat
        /\ count'["successes"] = count["successes"]
        /\ Failed' = Failed /\ Failed \in Nat
    BY <1>1, <1>3 DEF Backoff, TypeOK, Counters, Failed
  <2>4. failures = BreakerThreshold /\ failures' = failures
    BY <1>3 DEF Backoff, HeldBack
  <2>. QED  BY <2>2, <2>3, <2>4, PastCheckIsFinite, RunEngineAssumption DEF SparedInv
<1>4. CASE Succeed(w)
  <2>. DEFINE counted == [count EXCEPT !["successes"] = @ + 1]
  <2>1. PICK trip \in {FALSE} \cup {Trips} : Returned(w, TRUE, IssueOpen /\ ~trip, counted)
    BY <1>4 DEF Succeed
  <2>2. (IssueOpen /\ ~trip) \in BOOLEAN /\ counted \in [Counters -> Nat]
    BY <1>1 DEF TypeOK, Counters
  <2>3. counted["successes"] > 0
    BY <1>1 DEF TypeOK, Counters
  <2>4. count'["successes"] = counted["successes"]
    <3>. HIDE DEF counted
    <3>. QED  BY <1>1, <2>1, <2>2, ReturnedEffect DEF Counters
  <2>. QED  BY <2>3, <2>4 DEF SparedInv
<1>5. CASE HTTPFailure(w)
  BY <1>1, <1>5, FailureSpares DEF HTTPFailure
<1>6. CASE TransportError(w)
  BY <1>1, <1>6, FailureSpares DEF TransportError
<1>7. CASE CutShort(w) \/ DialTimeout(w)
  <2>. DEFINE counted == [count EXCEPT !["cancelled"] = @ + 1]
  <2>1. Returned(w, FALSE, IssueOpen, counted) /\ UNCHANGED failures
    BY <1>7 DEF CutShort, DialTimeout, CountedAsCancelled
  <2>2. counted \in [Counters -> Nat]
        /\ \A c \in Counters \ {"cancelled"} : counted[c] = count[c]
    BY <1>1 DEF TypeOK, Counters
  <2>3. /\ worker'[w].at \in Resting
        /\ \A v \in Senders \ {w} : worker'[v] = worker[v]
        /\ \A c \in Counters \ {"completedSessions"} : count'[c] = counted[c]
    <3>. HIDE DEF counted
    <3>. QED  BY <1>1, <2>1, <2>2, ReturnedEffect
  <2>. HIDE DEF counted
  <2>. QED  BY <1>1, <2>1, <2>2, <2>3, RestingSpares DEF Counters
<1>. QED  BY <1>2, <1>3, <1>4, <1>5, <1>6, <1>7

LEMMA WorkerActionsSpare ==
  ASSUME EngineInv, SparedInv, NEW w \in Workers,
         \/ LoopOn(w) \/ LoopEnds(w) \/ Arrive(w) \/ NextTask(w) \/ LeaveSession(w)
         \/ Think(w) \/ StopThinking(w)
  PROVE  SparedInv'
<1>1. w \in Senders /\ TypeOK /\ worker[w] \in WorkerState /\ count \in [Counters -> Nat]
  BY MainIsNoWorker DEF EngineInv, TypeOK
<1>2. UNCHANGED failures
  BY DEF LoopOn, LoopEnds, Arrive, Arrival, NextTask, LeaveSession, Think, StopThinking
<1>3. CASE LoopOn(w) \/ Arrive(w)
  <2>1. PICK kind : /\ worker' = [worker EXCEPT ![w] = Journey(@, kind)]
                    /\ count' = [count EXCEPT !["sessions"] = @ + Sessions(kind)]
    BY <1>3 DEF LoopOn, Arrive
  <2>2. /\ worker'[w].at \in {"ready", "due"}
        /\ \A v \in Senders \ {w} : worker'[v] = worker[v]
        /\ \A c \in Booked : count'[c] = count[c]
        /\ count'["backoffEvents"] = count["backoffEvents"]
    BY <1>1, <2>1, JourneyBegins DEF Counters
  <2>. QED  BY <1>1, <1>2, <2>2, RestingSpares DEF Booked, Resting
<1>4. CASE LoopEnds(w) \/ NextTask(w) \/ LeaveSession(w)
  <2>1. JourneyOver(worker[w]).at \in Resting
    BY <1>1, JourneyOverIsTyped
  <2>2. /\ worker'[w].at \in Resting \cup {"due"}
        /\ \A v \in Senders \ {w} : worker'[v] = worker[v]
        /\ count' = count
    BY <1>1, <1>4, <2>1 DEF LoopEnds, NextTask, LeaveSession, TypeOK, WorkerState, Off, Resting
  <2>. QED  BY <1>1, <1>2, <2>2, RestingSpares
<1>5. CASE Think(w) \/ StopThinking(w)
  <2>1. PICK kept \in BOOLEAN : Proceed(w, worker[w], kept, count)
    BY <1>5 DEF Think, StopThinking
  <2>2. /\ worker'[w].at \in Resting
        /\ \A v \in Senders \ {w} : worker'[v] = worker[v]
        /\ \A c \in Counters \ {"completedSessions"} : count'[c] = count[c]
    BY <1>1, <2>1, ProceedEffect
  <2>. QED  BY <1>1, <1>2, <2>2, RestingSpares DEF Counters
<1>. QED  BY <1>3, <1>4, <1>5

LEMMA StageBegins ==
  ASSUME StartStage
  PROVE  \A w \in Senders : worker'[w] = worker[w] \/ worker'[w] = [Off EXCEPT !.at = "ready"]
BY DEF StartStage

LEMMA ControlSpares ==
  ASSUME EngineInv, SparedInv,
         \/ WarmupRequest \/ EndWarmup \/ StartStage \/ EndStages \/ EndCooldown
         \/ StageTimer \/ EndIssue \/ EndDrain \/ EndStage \/ WatchRun \/ UserCancel
         \/ Drop \/ StopArrivals \/ UNCHANGED vars
  PROVE  SparedInv'
<1>1. TypeOK /\ UNCHANGED failures
  BY DEF EngineInv, WarmupRequest, EndWarmup, StartStage, EndStages, EndCooldown, StageTimer, EndIssue,
         EndDrain, EndStage, WatchRun, UserCancel, Drop, StopArrivals, Arrival, vars
<1>2. CASE WarmupRequest
  <2>1. /\ worker'[Main].at = "due" /\ \A v \in Senders \ {Main} : worker'[v] = worker[v]
        /\ count' = count
    BY <1>1, <1>2, MainIsNoWorker DEF WarmupRequest, TypeOK, WorkerState
  <2>. QED  BY <1>1, <2>1, MainIsNoWorker, RestingSpares
<1>3. CASE EndWarmup
  <2>1. \A w \in Senders : worker[w].at = "off"
    BY <1>3 DEF EngineInv, EndWarmup, QuietBetweenStages, InStage, Busy, Senders, Off
  <2>2. PastCheck' = {}
    BY <1>3, <2>1 DEF EndWarmup, PastCheck
  <2>3. /\ Failed' = 0
        /\ count'["backoffEvents"] = count["backoffEvents"] /\ count["backoffEvents"] \in Nat
    BY <1>1, <1>3 DEF EndWarmup, Reset, Failed, Counters, TypeOK
  <2>. QED  BY <1>1, <2>2, <2>3, FS_EmptySet, PastCheckIsFinite, RunEngineAssumption
            DEF SparedInv, TypeOK
<1>4. CASE StartStage
  <2>1. PastCheck' \subseteq PastCheck /\ count' = count
    BY <1>4, StageBegins DEF StartStage, PastCheck, Off
  <2>. QED  BY <1>1, <2>1, NobodyPasses
<1>5. CASE Drop
  <2>1. PastCheck' \subseteq PastCheck /\ \A c \in Counters \ {"dropped"} : count'[c] = count[c]
    BY <1>1, <1>5 DEF Drop, PastCheck, TypeOK
  <2>. QED  BY <1>1, <2>1, NobodyPasses DEF Counters
<1>6. CASE UNCHANGED <<worker, count>>
  <2>1. PastCheck' \subseteq PastCheck
    BY <1>6 DEF PastCheck
  <2>. QED  BY <1>1, <1>6, <2>1, NobodyPasses
<1>. QED  BY <1>2, <1>3, <1>4, <1>5, <1>6
          DEF EndStages, EndCooldown, StageTimer, EndIssue, EndDrain, EndStage, WatchRun,
              UserCancel, StopArrivals, vars

LEMMA SparedInvInductive == EngineInv /\ SparedInv /\ [Next]_vars => SparedInv'
BY SenderActionsSpare, WorkerActionsSpare, ControlSpares DEF Next

(***************************************************************************)
(* Of a target that never answers well, all failures beyond the threshold  *)
(* were held back by backoffBeforeAttempt first, but for as many as there  *)
(* are workers; the circuit breaker has no gap for attempts that race it.  *)
(***************************************************************************)
THEOREM DeadTargetsAreSpared == Spec => []DeadTargetIsSpared
<1>1. Init => SparedInv
  BY RunEngineAssumption DEF Init, SparedInv, Failed, Counters
<1>2. EngineInv /\ SparedInv => DeadTargetIsSpared
  <2>. SUFFICES ASSUME EngineInv, SparedInv, count["successes"] = 0
                PROVE  Failed <= count["backoffEvents"] + BreakerThreshold - 1 + Cardinality(Workers)
    BY DEF DeadTargetIsSpared, Failed
  <2>1. Failed \in Nat /\ count["backoffEvents"] \in Nat /\ failures \in 0 .. BreakerThreshold
    BY DEF EngineInv, TypeOK, Counters, Failed
  <2>. QED  BY <2>1, PastCheckIsFinite, RunEngineAssumption DEF SparedInv
<1>. QED  BY <1>1, <1>2, EngineInvInitially, EngineInvInductive, SparedInvInductive, PTL DEF Spec

-----------------------------------------------------------------------------
(***************************************************************************)
(* Sessions.  CompletedSessionsSucceeded becomes inductive when the tasks  *)
(* that succeeded in the sessions under way are counted too: each of those *)
(* is a pair of a worker and the number of a task, so that the successes   *)
(* there are, less those of completed sessions, can be compared with the   *)
(* size of a set.                                                          *)
(***************************************************************************)
\* The tasks a session has to show if the one it is in succeeded as well.
Kept(s) == IF s.good THEN s.turn ELSE 0

Credit(s) ==
  IF s.turn = 0 \/ ~s.good THEN 0 ELSE IF s.at = "thinking" THEN s.turn ELSE s.turn - 1

Earned == {x \in Workers \X (1 .. config.turns) : x[2] <= Credit(worker[x[1]])}

EarnedInv ==
  /\ \A w \in Senders : worker[w].at = "off" => worker[w] = Off
  /\ count["completedSessions"] * config.turns + Cardinality(Earned) <= count["successes"]

LEMMA EarnedIsFinite ==
  ASSUME TypeOK
  PROVE  IsFiniteSet(Earned) /\ Cardinality(Earned) \in Nat /\ config.turns \in Nat
<1>1. config.turns \in Nat
  BY RunEngineAssumption DEF TypeOK, Config
<1>2. IsFiniteSet(1 .. config.turns)
  BY <1>1, FS_Interval, 1 \in Int, config.turns \in Int
<1>3. IsFiniteSet(Workers \X (1 .. config.turns))
  BY <1>2, FS_Product, RunEngineAssumption
<1>4. Earned \subseteq Workers \X (1 .. config.turns)
  BY DEF Earned
<1>. QED  BY <1>1, <1>3, <1>4, FS_Subset, FS_CardinalityType

LEMMA CreditIsNatural ==
  ASSUME NEW s \in WorkerState
  PROVE  Credit(s) \in Nat /\ Kept(s) \in Nat /\ Credit(Off) = 0
BY DEF WorkerState, Credit, Kept, Off

(***************************************************************************)
(* Nobody has more to show than before.                                    *)
(***************************************************************************)
LEMMA NothingEarned ==
  ASSUME TypeOK, TypeOK', UNCHANGED config,
         \A w \in Workers : Credit(worker'[w]) <= Credit(worker[w])
  PROVE  Cardinality(Earned') <= Cardinality(Earned)
<1>1. \A w \in Workers : /\ Credit(worker[w]) \in Nat
                         /\ Credit(worker'[w]) \in Nat
  BY CreditIsNatural, MainIsNoWorker DEF TypeOK
<1>2. config.turns \in Nat
  BY EarnedIsFinite
<1>3. Earned' = {x \in Workers \X (1 .. config.turns) : x[2] <= Credit(worker'[x[1]])}
  BY DEF Earned
<1>4. ASSUME NEW x \in Workers \X (1 .. config.turns), x[2] <= Credit(worker'[x[1]])
      PROVE  x[2] <= Credit(worker[x[1]])
  <2>1. x[1] \in Workers /\ x[2] \in Nat
    BY <1>2
  <2>. QED  BY <1>1, <1>4, <2>1
<1>5. Earned' \subseteq Earned
  BY <1>3, <1>4 DEF Earned
<1>. QED  BY <1>5, EarnedIsFinite, FS_Subset

(***************************************************************************)
(* One worker has one task more to show.                                   *)
(***************************************************************************)
LEMMA OneEarned ==
  ASSUME TypeOK, TypeOK', UNCHANGED config, NEW w \in Workers,
         Credit(worker'[w]) <= Credit(worker[w]) + 1,
         \A v \in Workers \ {w} : worker'[v] = worker[v]
  PROVE  Cardinality(Earned') <= Cardinality(Earned) + 1
<1>. DEFINE c == Credit(worker[w])
            task == <<w, c + 1>>
<1>1. c \in Nat /\ Credit(worker'[w]) \in Nat /\ config.turns \in Nat
  BY CreditIsNatural, MainIsNoWorker, EarnedIsFinite DEF TypeOK
<1>2. Earned' = {x \in Workers \X (1 .. config.turns) : x[2] <= Credit(worker'[x[1]])}
  BY DEF Earned
<1>3. ASSUME NEW x \in Workers \X (1 .. config.turns), x[2] <= Credit(worker'[x[1]])
      PROVE  x[2] <= Credit(worker[x[1]]) \/ x = task
  <2>1. x[1] \in Workers /\ x[2] \in Nat /\ x = <<x[1], x[2]>>
    BY <1>1
  <2>2. CASE x[1] = w
    BY <1>1, <1>3, <2>1, <2>2
  <2>3. CASE x[1] # w
    BY <1>3, <2>1, <2>3
  <2>. QED  BY <2>2, <2>3
<1>4. Earned' \subseteq Earned \cup {task}
  <2>. HIDE DEF task
  <2>. QED  BY <1>2, <1>3 DEF Earned
<1>5. /\ IsFiniteSet(Earned \cup {task})
      /\ Cardinality(Earned \cup {task}) <= Cardinality(Earned) + 1
  <2>1. IsFiniteSet(Earned) /\ Cardinality(Earned) \in Nat
    BY EarnedIsFinite
  <2>2. /\ IsFiniteSet(Earned \cup {task})
        /\ Cardinality(Earned \cup {task})
             = IF task \in Earned THEN Cardinality(Earned) ELSE Cardinality(Earned) + 1
    BY <2>1, FS_AddElement
  <2>. HIDE DEF task
  <2>. QED  BY <2>1, <2>2
<1>6. /\ Cardinality(Earned') <= Cardinality(Earned \cup {task})
      /\ Cardinality(Earned') \in Nat /\ Cardinality(Earned \cup {task}) \in Nat
  BY <1>4, <1>5, FS_Subset, FS_CardinalityType
<1>. HIDE DEF task
<1>. QED  BY <1>5, <1>6, EarnedIsFinite

(***************************************************************************)
(* A session that is over hands in what it has to show.                    *)
(***************************************************************************)
LEMMA HandedIn ==
  ASSUME TypeOK, TypeOK', UNCHANGED config, NEW w \in Workers,
         Credit(worker[w]) <= config.turns, Credit(worker'[w]) = 0,
         \A v \in Workers \ {w} : worker'[v] = worker[v]
  PROVE  Cardinality(Earned') = Cardinality(Earned) - Credit(worker[w])
<1>. DEFINE c     == Credit(worker[w])
            tasks == {w} \X (1 .. c)
<1>1. c \in Nat /\ config.turns \in Nat
  BY CreditIsNatural, MainIsNoWorker, EarnedIsFinite DEF TypeOK
<1>2. /\ IsFiniteSet(1 .. c) /\ Cardinality(1 .. c) = c
  BY <1>1, FS_Interval, 1 \in Int, c \in Int
<1>3. IsFiniteSet({w}) /\ Cardinality({w}) = 1
  BY FS_Singleton
<1>4. Cardinality(tasks) = c
  <2>1. Cardinality(tasks) = Cardinality({w}) * Cardinality(1 .. c)
    BY <1>2, <1>3, FS_Product
  <2>2. Cardinality(tasks) = 1 * c
    BY <1>2, <1>3, <2>1
  <2>. HIDE DEF tasks, c
  <2>. QED  BY <1>1, <2>2
<1>5. tasks \subseteq Earned
  BY <1>1 DEF Earned
<1>6. Earned' = Earned \ tasks
  <2>1. Earned' = {x \in Workers \X (1 .. config.turns) : x[2] <= Credit(worker'[x[1]])}
    BY DEF Earned
  <2>2. ASSUME NEW x \in Workers \X (1 .. config.turns)
        PROVE  x[2] <= Credit(worker'[x[1]]) <=> x[2] <= Credit(worker[x[1]]) /\ x \notin tasks
    <3>1. x[1] \in Workers /\ x[2] \in 1 .. config.turns /\ x = <<x[1], x[2]>>
      OBVIOUS
    <3>2. CASE x[1] = w
      BY <1>1, <3>1, <3>2
    <3>3. CASE x[1] # w
      BY <3>1, <3>3
    <3>. QED  BY <3>2, <3>3
  <2>. HIDE DEF tasks
  <2>. QED  BY <2>1, <2>2 DEF Earned
<1>7. Earned \cap tasks = tasks
  BY <1>5
<1>8. Cardinality(Earned') = Cardinality(Earned) - Cardinality(tasks)
  <2>1. IsFiniteSet(Earned)
    BY EarnedIsFinite
  <2>2. Cardinality(Earned \ tasks) = Cardinality(Earned) - Cardinality(Earned \cap tasks)
    BY <2>1, FS_Difference
  <2>. HIDE DEF tasks
  <2>. QED  BY <1>6, <1>7, <2>2
<1>. HIDE DEF tasks
<1>. QED  BY <1>4, <1>8

(***************************************************************************)
(* What a step of one sender may do to the books of the sessions: nothing, *)
(* a success with a task more to show, or a session completed with all its *)
(* tasks, the last of which may have succeeded in this very step.          *)
(***************************************************************************)
ShowsNoMore(w) ==
  /\ Credit(worker'[w]) <= Credit(worker[w])
  /\ count'["completedSessions"] = count["completedSessions"]
  /\ count'["successes"] >= count["successes"]

ShowsOneMore(w) ==
  /\ Credit(worker'[w]) <= Credit(worker[w]) + 1
  /\ count'["completedSessions"] = count["completedSessions"]
  /\ count'["successes"] = count["successes"] + 1

HandsIn(w) ==
  /\ w \in Workers
  /\ Credit(worker'[w]) = 0
  /\ count'["completedSessions"] = count["completedSessions"] + 1
  /\ \/ /\ Credit(worker[w]) = config.turns
        /\ count'["successes"] = count["successes"]
     \/ /\ Credit(worker[w]) + 1 = config.turns
        /\ count'["successes"] = count["successes"] + 1

Keeps(w) == ShowsNoMore(w) \/ ShowsOneMore(w) \/ HandsIn(w)

LEMMA KeepsEarned ==
  ASSUME TypeOK, TypeOK', EarnedInv, UNCHANGED config, NEW w \in Senders, Keeps(w),
         \A v \in Senders \ {w} : worker'[v] = worker[v],
         worker'[w].at = "off" => worker'[w] = Off
  PROVE  EarnedInv'
<1>1. /\ \A c \in Counters : count[c] \in Nat /\ count'[c] \in Nat
      /\ Cardinality(Earned) \in Nat /\ Cardinality(Earned') \in Nat
      /\ config.turns \in Nat
  <2>1. config.turns \in Nat /\ IsFiniteSet(Earned) /\ Cardinality(Earned) \in Nat
    BY EarnedIsFinite
  <2>2. IsFiniteSet(Workers \X (1 .. config.turns))
    <3>1. IsFiniteSet(1 .. config.turns)
      BY <2>1, FS_Interval, 1 \in Int, config.turns \in Int
    <3>. QED  BY <3>1, FS_Product, RunEngineAssumption
  <2>3. Earned' \subseteq Workers \X (1 .. config.turns)
    BY DEF Earned
  <2>. QED  BY <2>1, <2>2, <2>3, FS_Subset, FS_CardinalityType DEF TypeOK
<1>2. PICK turns \in Nat, done \in Nat, good \in Nat, shown \in Nat :
        /\ turns = config.turns /\ done = count["completedSessions"] /\ good = count["successes"]
        /\ shown = Cardinality(Earned)
  BY <1>1 DEF Counters
<1>3. PICK done2 \in Nat, good2 \in Nat, shown2 \in Nat :
        /\ done2 = count'["completedSessions"] /\ good2 = count'["successes"]
        /\ shown2 = Cardinality(Earned')
  BY <1>1 DEF Counters
<1>4. done * turns + shown <= good
  BY <1>2 DEF EarnedInv
<1>5. \A v \in Senders : worker[v] \in WorkerState /\ worker'[v] \in WorkerState
  BY DEF TypeOK
<1>6. done2 * turns + shown2 <= good2
  <2>1. CASE ShowsNoMore(w) \/ w \notin Workers
    <3>1. done2 = done /\ good2 >= good
      BY <1>2, <1>3, <2>1 DEF Keeps, ShowsNoMore, ShowsOneMore, HandsIn
    <3>2. \A v \in Workers : Credit(worker'[v]) <= Credit(worker[v])
      BY <1>5, <2>1, CreditIsNatural, MainIsNoWorker DEF ShowsNoMore
    <3>3. shown2 <= shown
      BY <1>2, <1>3, <3>2, NothingEarned
    <3>. QED  BY <1>4, <3>1, <3>3
  <2>2. CASE ShowsOneMore(w) /\ w \in Workers
    <3>1. done2 = done /\ good2 = good + 1
      BY <1>2, <1>3, <2>2 DEF ShowsOneMore
    <3>2. shown2 <= shown + 1
      BY <1>2, <1>3, <2>2, OneEarned, MainIsNoWorker DEF ShowsOneMore
    <3>. QED  BY <1>4, <3>1, <3>2
  <2>3. CASE HandsIn(w)
    <3>1. PICK credit \in Nat : credit = Credit(worker[w])
      BY <1>5, CreditIsNatural
    <3>2. done2 = done + 1 /\ credit <= turns /\ good2 = good + (turns - credit)
      BY <1>2, <1>3, <2>3, <3>1 DEF HandsIn
    <3>3. shown2 = shown - credit
      BY <1>2, <1>3, <2>3, <3>1, <3>2, HandedIn, MainIsNoWorker DEF HandsIn
    <3>4. (done + 1) * turns = done * turns + turns
      OBVIOUS
    <3>5. PICK product \in Nat : product = done * turns
      OBVIOUS
    <3>. QED  BY <1>4, <3>2, <3>3, <3>4, <3>5
  <2>. QED  BY <2>1, <2>2, <2>3 DEF Keeps
<1>7. \A v \in Senders : worker'[v].at = "off" => worker'[v] = Off
  BY DEF EarnedInv
<1>. QED  BY <1>2, <1>3, <1>6, <1>7 DEF EarnedInv

LEMMA JourneyOverShowsNothing ==
  ASSUME NEW s \in WorkerState
  PROVE  Credit(JourneyOver(s)) = 0 /\ (JourneyOver(s).at = "off" => JourneyOver(s) = Off)
<1>. DEFINE n == IF s.turn > 0 /\ config.sessionsPerVU > 0 THEN s.sessions + 1 ELSE s.sessions
            loop == [s EXCEPT !.at = "ready", !.turn = 0, !.good = TRUE, !.sessions = n]
<1>1. loop.at = "ready" /\ loop.turn = 0 /\ Off.turn = 0
  <2>. HIDE DEF n
  <2>. QED  BY DEF WorkerState, Off
<1>2. JourneyOver(s) = loop \/ JourneyOver(s) = Off
  BY DEF JourneyOver
<1>. HIDE DEF loop
<1>. QED  BY <1>1, <1>2 DEF Credit

LEMMA ProceedKeeps ==
  ASSUME TypeOK, NEW w \in Workers, NEW s \in WorkerState, NEW kept \in BOOLEAN,
         NEW counted \in [Counters -> Nat], Proceed(w, s, kept, counted)
  PROVE  /\ worker'[w].at = "off" => worker'[w] = Off
         /\ count'["successes"] = counted["successes"]
         /\ \/ /\ Credit(worker'[w]) <= Kept(s)
               /\ count'["completedSessions"] = counted["completedSessions"]
            \/ /\ Credit(worker'[w]) = 0 /\ s.good /\ s.turn > 0 /\ s.turn = config.turns
               /\ count'["completedSessions"] = counted["completedSessions"] + 1
<1>. DEFINE n    == s.turn + 1
            on   == [s EXCEPT !.at = "ready", !.turn = n]
            next == IF kept /\ s.turn > 0 /\ s.turn < config.turns THEN on ELSE JourneyOver(s)
<1>1. Credit(JourneyOver(s)) = 0 /\ (JourneyOver(s).at = "off" => JourneyOver(s) = Off)
  BY JourneyOverShowsNothing
<1>2. on.at = "ready" /\ Credit(on) = Kept(s) /\ Kept(s) \in Nat
  <2>1. n \in Nat /\ n > 0 /\ n - 1 = s.turn /\ s.turn \in Nat
    BY DEF WorkerState
  <2>2. on.at = "ready" /\ on.turn = n /\ on.good = s.good
    <3>. HIDE DEF n
    <3>. QED  BY DEF WorkerState
  <2>. HIDE DEF n, on
  <2>. QED  BY <2>1, <2>2 DEF Credit, Kept
<1>3. worker'[w] = next
  <2>1. w \in Senders /\ worker' = [worker EXCEPT ![w] = next]
    BY MainIsNoWorker DEF Proceed
  <2>. HIDE DEF next
  <2>. QED  BY <2>1 DEF TypeOK
<1>4. /\ count'["successes"] = counted["successes"]
      /\ count'["completedSessions"] = IF kept /\ Completes(s) THEN counted["completedSessions"] + 1
                                       ELSE counted["completedSessions"]
  BY DEF Proceed, Counters
<1>5. CASE kept /\ Completes(s)
  <2>1. s.good /\ s.turn > 0 /\ s.turn = config.turns /\ s.turn \in Nat
    BY <1>5 DEF Completes, WorkerState
  <2>2. next = JourneyOver(s)
    BY <2>1
  <2>. HIDE DEF next
  <2>. QED  BY <1>1, <1>3, <1>4, <1>5, <2>1, <2>2
<1>6. CASE ~(kept /\ Completes(s))
  <2>1. next = JourneyOver(s) \/ next = on
    OBVIOUS
  <2>. HIDE DEF next, on
  <2>. QED  BY <1>1, <1>2, <1>3, <1>4, <1>6, <2>1
<1>. QED  BY <1>5, <1>6

LEMMA ReturnedKeeps ==
  ASSUME TypeOK, NEW w \in Senders, worker[w].at # "thinking",
         NEW ok \in BOOLEAN, NEW open \in BOOLEAN, NEW counted \in [Counters -> Nat],
         Returned(w, ok, open, counted),
         counted["completedSessions"] = count["completedSessions"],
         counted["successes"] = count["successes"] + (IF ok THEN 1 ELSE 0)
  PROVE  Keeps(w) /\ (worker'[w].at = "off" => worker'[w] = Off)
<1>. DEFINE s == [worker[w] EXCEPT !.good = @ /\ ok]
<1>1. /\ worker[w] \in WorkerState /\ Credit(worker[w]) \in Nat /\ Credit(Off) = 0
      /\ count["successes"] \in Nat /\ count["completedSessions"] \in Nat
  BY CreditIsNatural DEF TypeOK, Counters
<1>2. /\ s \in WorkerState /\ s.turn = worker[w].turn /\ s.turn \in Nat
      /\ s.good = (worker[w].good /\ ok)
  BY <1>1 DEF WorkerState
<1>3. /\ Kept(s) \in Nat
      /\ Kept(s) <= Credit(worker[w]) + (IF ok THEN 1 ELSE 0)
      /\ s.good /\ s.turn > 0 => ok /\ Credit(worker[w]) + 1 = s.turn
  <2>. HIDE DEF s
  <2>1. worker[w].good \in BOOLEAN /\ s.good \in BOOLEAN
    BY <1>1, <1>2 DEF WorkerState
  <2>2. CASE s.good
    <3>1. ok /\ worker[w].good
      BY <1>2, <2>1, <2>2
    <3>2. Kept(s) = s.turn /\ Credit(worker[w]) = IF s.turn = 0 THEN 0 ELSE s.turn - 1
      BY <1>2, <2>2, <3>1 DEF Kept, Credit
    <3>. QED  BY <1>2, <2>2, <3>1, <3>2
  <2>3. CASE ~s.good
    <3>1. Kept(s) = 0
      BY <2>3 DEF Kept
    <3>. QED  BY <1>1, <2>3, <3>1
  <2>. QED  BY <2>2, <2>3
<1>4. CASE w = Main /\ worker' = [worker EXCEPT ![w] = Off] /\ count' = counted
  BY <1>1, <1>4 DEF TypeOK, Keeps, ShowsNoMore
<1>5. CASE worker' = [worker EXCEPT ![w] = [s EXCEPT !.at = "thinking"]] /\ count' = counted
  <2>1. PICK t : t = [s EXCEPT !.at = "thinking"]
    OBVIOUS
  <2>2. t.at = "thinking" /\ t.turn = s.turn /\ t.good = s.good
    <3>. HIDE DEF s
    <3>. QED  BY <1>2, <2>1 DEF WorkerState
  <2>3. worker'[w] = t
    BY <1>5, <2>1 DEF TypeOK
  <2>. HIDE DEF s
  <2>4. Credit(worker'[w]) = Kept(s)
    BY <1>2, <2>2, <2>3 DEF Credit, Kept
  <2>. QED  BY <1>1, <1>3, <1>5, <2>2, <2>3, <2>4 DEF Keeps, ShowsNoMore, ShowsOneMore
<1>6. CASE w # Main /\ Proceed(w, s, open, counted)
  <2>1. w \in Workers
    BY <1>6 DEF Senders
  <2>. HIDE DEF s
  <2>2. /\ worker'[w].at = "off" => worker'[w] = Off
        /\ count'["successes"] = counted["successes"]
        /\ \/ /\ Credit(worker'[w]) <= Kept(s)
              /\ count'["completedSessions"] = counted["completedSessions"]
           \/ /\ Credit(worker'[w]) = 0 /\ s.good /\ s.turn > 0 /\ s.turn = config.turns
              /\ count'["completedSessions"] = counted["completedSessions"] + 1
    BY <1>2, <1>6, <2>1, ProceedKeeps
  <2>3. Credit(worker'[w]) \in Nat
    BY <1>2, <1>6, <2>1, ProceedEffect, CreditIsNatural
  <2>. QED  BY <1>1, <1>3, <2>1, <2>2, <2>3 DEF Keeps, ShowsNoMore, ShowsOneMore, HandsIn
<1>. QED  BY <1>4, <1>5, <1>6 DEF Returned

(***************************************************************************)
(* The steps of the senders, of the workers, and all others.               *)
(***************************************************************************)
LEMMA IssueKeeps ==
  ASSUME TypeOK, TypeOK', EarnedInv, UNCHANGED config, NEW w \in Senders, Issue(w),
         worker[w].at \in {"due", "held"}
  PROVE  EarnedInv'
<1>1. count \in [Counters -> Nat] /\ IssueOpen \in BOOLEAN /\ worker[w] \in WorkerState
  BY DEF TypeOK, IssueOpen, RunLive
<1>2. CASE Cut(w) /\ Returned(w, FALSE, IssueOpen, count)
  <2>1. \A v \in Senders \ {w} : worker'[v] = worker[v]
    BY <1>1, <1>2, ReturnedEffect
  <2>2. count["successes"] = count["successes"] + (IF FALSE THEN 1 ELSE 0)
    BY <1>1 DEF Counters
  <2>3. Keeps(w) /\ (worker'[w].at = "off" => worker'[w] = Off)
    BY <1>1, <1>2, <2>2, ReturnedKeeps
  <2>. QED  BY <2>1, <2>3, KeepsEarned
<1>3. CASE /\ worker' = [worker EXCEPT ![w].at = "calling"]
           /\ count' = [count EXCEPT !["issued"] = @ + 1]
  <2>1. /\ \A v \in Senders \ {w} : worker'[v] = worker[v]
        /\ worker'[w].at = "calling" /\ worker'[w].turn = worker[w].turn
        /\ worker'[w].good = worker[w].good
    BY <1>1, <1>3 DEF TypeOK, WorkerState
  <2>2. Credit(worker'[w]) = Credit(worker[w]) /\ Credit(worker[w]) \in Nat
    BY <1>1, <2>1, CreditIsNatural DEF Credit
  <2>3. Keeps(w)
    BY <1>1, <1>3, <2>2 DEF Keeps, ShowsNoMore, Counters
  <2>. QED  BY <2>1, <2>3, KeepsEarned
<1>. QED  BY <1>2, <1>3 DEF Issue

LEMMA AnswerKeeps ==
  ASSUME TypeOK, TypeOK', EarnedInv, UNCHANGED config, NEW w \in Senders,
         worker[w].at = "calling", NEW ok \in BOOLEAN, NEW open \in BOOLEAN,
         NEW a \in {"successes", "httpFailures", "transportErrors", "cancelled"},
         ok <=> a = "successes", Returned(w, ok, open, [count EXCEPT ![a] = @ + 1])
  PROVE  EarnedInv'
<1>. DEFINE counted == [count EXCEPT ![a] = @ + 1]
<1>1. /\ counted \in [Counters -> Nat]
      /\ counted["completedSessions"] = count["completedSessions"]
      /\ counted["successes"] = count["successes"] + (IF ok THEN 1 ELSE 0)
  BY DEF TypeOK, Counters
<1>2. Returned(w, ok, open, counted)
  OBVIOUS
<1>. HIDE DEF counted
<1>3. \A v \in Senders \ {w} : worker'[v] = worker[v]
  BY <1>1, <1>2, ReturnedEffect
<1>4. Keeps(w) /\ (worker'[w].at = "off" => worker'[w] = Off)
  BY <1>1, <1>2, ReturnedKeeps
<1>. QED  BY <1>3, <1>4, KeepsEarned

LEMMA SenderActionsKeepEarned ==
  ASSUME TypeOK, TypeOK', EarnedInv, NEW w \in Senders,
         \/ Attempt(w) \/ Backoff(w) \/ Release(w) \/ Succeed(w) \/ HTTPFailure(w)
         \/ TransportError(w) \/ CutShort(w) \/ DialTimeout(w)
  PROVE  EarnedInv'
<1>1. /\ IssueOpen \in BOOLEAN /\ worker[w] \in WorkerState
      /\ UNCHANGED config
  BY DEF TypeOK, IssueOpen, RunLive, Attempt, Backoff, Release, Succeed, HTTPFailure, TransportError,
         CutShort, DialTimeout
<1>2. CASE Attempt(w) \/ Release(w)
  BY <1>1, <1>2, IssueKeeps DEF Attempt, Release
<1>3. CASE Backoff(w)
  <2>1. /\ \A v \in Senders \ {w} : worker'[v] = worker[v]
        /\ worker'[w].at = "held" /\ worker'[w].turn = worker[w].turn
        /\ worker'[w].good = worker[w].good /\ worker[w].at = "due"
    BY <1>1, <1>3 DEF Backoff, TypeOK, WorkerState
  <2>2. Credit(worker'[w]) = Credit(worker[w]) /\ Credit(worker[w]) \in Nat
    BY <1>1, <2>1, CreditIsNatural DEF Credit
  <2>3. Keeps(w)
    BY <1>3, <2>2 DEF Backoff, Keeps, ShowsNoMore, Counters, TypeOK
  <2>. QED  BY <1>1, <2>1, <2>3, KeepsEarned
<1>4. CASE Succeed(w)
  <2>1. PICK trip \in {FALSE} \cup {Trips} :
          Returned(w, TRUE, IssueOpen /\ ~trip, [count EXCEPT !["successes"] = @ + 1])
    BY <1>4 DEF Succeed
  <2>2. (IssueOpen /\ ~trip) \in BOOLEAN
    BY <1>1
  <2>. QED  BY <1>1, <1>4, <2>1, <2>2, AnswerKeeps DEF Succeed
<1>5. CASE HTTPFailure(w)
  BY <1>1, <1>5, AnswerKeeps DEF HTTPFailure
<1>6. CASE TransportError(w)
  BY <1>1, <1>6, AnswerKeeps DEF TransportError
<1>7. CASE CutShort(w) \/ DialTimeout(w)
  BY <1>1, <1>7, AnswerKeeps DEF CutShort, DialTimeout, CountedAsCancelled
<1>. QED  BY <1>2, <1>3, <1>4, <1>5, <1>6, <1>7

LEMMA WorkerActionsKeepEarned ==
  ASSUME TypeOK, TypeOK', EarnedInv, NEW w \in Workers,
         \/ LoopOn(w) \/ LoopEnds(w) \/ Arrive(w) \/ NextTask(w) \/ LeaveSession(w)
         \/ Think(w) \/ StopThinking(w)
  PROVE  EarnedInv'
<1>1. /\ w \in Senders /\ worker[w] \in WorkerState /\ Credit(worker[w]) \in Nat
      /\ count \in [Counters -> Nat] /\ Credit(Off) = 0
      /\ UNCHANGED config
  BY MainIsNoWorker, CreditIsNatural
  DEF TypeOK, LoopOn, LoopEnds, Arrive, Arrival, NextTask, LeaveSession, Think, StopThinking
<1>2. CASE LoopOn(w) \/ Arrive(w)
  <2>1. PICK kind : /\ worker' = [worker EXCEPT ![w] = Journey(@, kind)]
                    /\ count' = [count EXCEPT !["sessions"] = @ + Sessions(kind)]
    BY <1>2 DEF LoopOn, Arrive
  <2>2. worker[w].turn = 0
    BY <1>1, <1>2 DEF LoopOn, Arrive, Busy, EarnedInv, Off
  <2>3. /\ worker'[w].at \in {"ready", "due"} /\ worker'[w].turn \in {0, 1}
        /\ \A v \in Senders \ {w} : worker'[v] = worker[v]
    BY <1>1, <2>1, <2>2 DEF TypeOK, WorkerState, Journey
  <2>4. Credit(worker'[w]) = 0
    BY <2>3 DEF Credit
  <2>5. Keeps(w)
    BY <1>1, <2>1, <2>4 DEF Keeps, ShowsNoMore, Counters
  <2>. QED  BY <1>1, <2>3, <2>5, KeepsEarned
<1>3. CASE LoopEnds(w) \/ LeaveSession(w)
  <2>1. Credit(JourneyOver(worker[w])) = 0
        /\ (JourneyOver(worker[w]).at = "off" => JourneyOver(worker[w]) = Off)
    BY <1>1, JourneyOverShowsNothing
  <2>2. /\ worker'[w] = Off \/ worker'[w] = JourneyOver(worker[w])
        /\ \A v \in Senders \ {w} : worker'[v] = worker[v]
        /\ count' = count
    BY <1>1, <1>3 DEF LoopEnds, LeaveSession, TypeOK
  <2>3. Keeps(w)
    BY <1>1, <2>1, <2>2 DEF Keeps, ShowsNoMore, Counters
  <2>. QED  BY <1>1, <2>1, <2>2, <2>3, KeepsEarned
<1>4. CASE NextTask(w)
  <2>1. /\ \A v \in Senders \ {w} : worker'[v] = worker[v]
        /\ worker'[w].at = "due" /\ worker'[w].turn = worker[w].turn
        /\ worker'[w].good = worker[w].good /\ worker[w].at = "ready"
    BY <1>1, <1>4 DEF NextTask, TypeOK, WorkerState
  <2>2. Credit(worker'[w]) = Credit(worker[w])
    BY <2>1 DEF Credit
  <2>3. Keeps(w)
    BY <1>1, <1>4, <2>2 DEF NextTask, Keeps, ShowsNoMore, Counters
  <2>. QED  BY <1>1, <2>1, <2>3, KeepsEarned
<1>5. CASE Think(w) \/ StopThinking(w)
  <2>1. PICK kept \in BOOLEAN : Proceed(w, worker[w], kept, count)
    BY <1>5 DEF Think, StopThinking
  <2>2. /\ \A v \in Senders \ {w} : worker'[v] = worker[v]
        /\ worker'[w] \in WorkerState
    BY <1>1, <2>1, ProceedEffect
  <2>3. /\ worker'[w].at = "off" => worker'[w] = Off
        /\ count'["successes"] = count["successes"]
        /\ \/ /\ Credit(worker'[w]) <= Kept(worker[w])
              /\ count'["completedSessions"] = count["completedSessions"]
           \/ /\ Credit(worker'[w]) = 0 /\ worker[w].good /\ worker[w].turn > 0
              /\ worker[w].turn = config.turns
              /\ count'["completedSessions"] = count["completedSessions"] + 1
    BY <1>1, <2>1, ProceedKeeps
  <2>4. worker[w].at = "thinking"
    BY <1>5 DEF Think, StopThinking
  <2>5. Credit(worker[w]) = Kept(worker[w])
        /\ (worker[w].good => Credit(worker[w]) = worker[w].turn)
    BY <1>1, <2>4 DEF Credit, Kept, WorkerState
  <2>6. Keeps(w)
    BY <1>1, <2>3, <2>5 DEF Keeps, ShowsNoMore, HandsIn, Counters
  <2>. QED  BY <1>1, <2>2, <2>3, <2>6, KeepsEarned
<1>. QED  BY <1>2, <1>3, <1>4, <1>5

LEMMA ControlKeepsEarned ==
  ASSUME EngineInv, TypeOK', EarnedInv,
         \/ WarmupRequest \/ EndWarmup \/ StartStage \/ EndStages \/ EndCooldown
         \/ StageTimer \/ EndIssue \/ EndDrain \/ EndStage \/ WatchRun \/ UserCancel
         \/ Drop \/ StopArrivals \/ UNCHANGED vars
  PROVE  EarnedInv'
<1>1. TypeOK /\ UNCHANGED config
  BY DEF EngineInv, WarmupRequest, EndWarmup, StartStage, EndStages, EndCooldown, StageTimer, EndIssue,
         EndDrain, EndStage, WatchRun, UserCancel, Drop, StopArrivals, Arrival, vars
<1>2. \A w \in Workers : Credit(worker[w]) \in Nat
  BY <1>1, CreditIsNatural, MainIsNoWorker DEF TypeOK
<1>3. ASSUME \A w \in Workers : Credit(worker'[w]) <= Credit(worker[w]),
             count'["successes"] = count["successes"],
             count'["completedSessions"] = count["completedSessions"],
             \A w \in Senders : worker'[w].at = "off" => worker'[w] = Off
      PROVE  EarnedInv'
  <2>1. Cardinality(Earned') <= Cardinality(Earned) /\ Cardinality(Earned) \in Nat
    BY <1>1, <1>3, NothingEarned, EarnedIsFinite
  <2>2. IsFiniteSet(Earned') /\ Cardinality(Earned') \in Nat
    <3>1. config.turns \in Nat
      BY <1>1, EarnedIsFinite
    <3>2. IsFiniteSet(1 .. config.turns)
      BY <3>1, FS_Interval, 1 \in Int, config.turns \in Int
    <3>3. IsFiniteSet(Workers \X (1 .. config.turns))
      BY <3>2, FS_Product, RunEngineAssumption
    <3>4. Earned' \subseteq Workers \X (1 .. config.turns)
      BY <1>1 DEF Earned
    <3>. QED  BY <3>3, <3>4, FS_Subset, FS_CardinalityType
  <2>3. PICK product \in Int : product = count["completedSessions"] * config.turns
    BY <1>1, EarnedIsFinite DEF TypeOK, Counters
  <2>4. product + Cardinality(Earned) <= count["successes"] /\ count["successes"] \in Nat
    BY <1>1, <2>3 DEF EarnedInv, TypeOK, Counters
  <2>5. product + Cardinality(Earned') <= count'["successes"]
    BY <1>3, <2>1, <2>2, <2>4
  <2>. QED  BY <1>1, <1>3, <2>3, <2>5 DEF EarnedInv
<1>4. CASE WarmupRequest
  <2>1. /\ worker'[Main].at = "due" /\ \A v \in Senders \ {Main} : worker'[v] = worker[v]
        /\ count' = count
    BY <1>1, <1>4, MainIsNoWorker DEF WarmupRequest, TypeOK, WorkerState
  <2>. QED  BY <1>2, <1>3, <2>1, MainIsNoWorker DEF EarnedInv
<1>5. CASE EndWarmup
  <2>1. \A w \in Workers : worker[w] = Off
    BY <1>5, MainIsNoWorker DEF EngineInv, EndWarmup, QuietBetweenStages, InStage, Busy, EarnedInv
  <2>2. Earned' = {}
    <3>1. \A w \in Workers : Credit(worker'[w]) = 0
      BY <1>5, <2>1 DEF EndWarmup, Credit, Off
    <3>2. config.turns \in Nat
      BY <1>1, EarnedIsFinite
    <3>. QED  BY <1>1, <3>1, <3>2 DEF Earned
  <2>3. Cardinality(Earned') = 0
    BY <2>2, FS_EmptySet
  <2>4. count'["successes"] = 0 /\ count'["completedSessions"] = 0
    BY <1>5 DEF EndWarmup, Reset, Counters
  <2>5. 0 * config.turns = 0
    BY <1>1, EarnedIsFinite
  <2>. QED  BY <1>1, <1>5, <2>3, <2>4, <2>5 DEF EarnedInv, EndWarmup
<1>6. CASE StartStage
  <2>1. /\ [Off EXCEPT !.at = "ready"].at = "ready" /\ Credit([Off EXCEPT !.at = "ready"]) = 0
    BY DEF Off, Credit
  <2>2. \A w \in Senders : worker'[w] = worker[w] \/ worker'[w] = [Off EXCEPT !.at = "ready"]
    BY <1>6, StageBegins
  <2>3. \A w \in Workers : Credit(worker'[w]) <= Credit(worker[w])
    BY <1>2, <2>1, <2>2, MainIsNoWorker
  <2>. QED  BY <1>3, <1>6, <2>1, <2>2, <2>3 DEF StartStage, EarnedInv
<1>7. CASE UNCHANGED worker /\ \A c \in Counters \ {"dropped"} : count'[c] = count[c]
  BY <1>2, <1>3, <1>7 DEF EarnedInv, Counters
<1>8. CASE Drop
  BY <1>1, <1>7, <1>8 DEF Drop, TypeOK
<1>. QED  BY <1>4, <1>5, <1>6, <1>7, <1>8
          DEF EndStages, EndCooldown, StageTimer, EndIssue, EndDrain, EndStage, WatchRun,
              UserCancel, StopArrivals, vars

LEMMA EarnedInvInductive == EngineInv /\ EarnedInv /\ [Next]_vars => EarnedInv'
<1>. SUFFICES ASSUME EngineInv, EarnedInv, [Next]_vars PROVE EarnedInv'
  OBVIOUS
<1>1. TypeOK /\ TypeOK'
  BY EngineInvInductive DEF EngineInv
<1>. QED  BY <1>1, SenderActionsKeepEarned, WorkerActionsKeepEarned, ControlKeepsEarned DEF Next

(***************************************************************************)
(* A session counts as completed only when all its tasks succeeded: think  *)
(* times, drains, cuts and the guardrail may end a session anywhere, but   *)
(* completeSession is not reached with a failed task behind it.            *)
(***************************************************************************)
THEOREM SessionsAreEarned == Spec => []CompletedSessionsSucceeded
<1>1. Init => EarnedInv
  <2>. SUFFICES ASSUME Init PROVE EarnedInv
    OBVIOUS
  <2>1. config.turns \in Nat
    BY RunEngineAssumption DEF Init, Config
  <2>2. Earned = {}
    BY <2>1, MainIsNoWorker DEF Init, Earned, Credit, Off
  <2>3. Cardinality(Earned) = 0
    BY <2>2, FS_EmptySet
  <2>4. 0 * config.turns = 0
    BY <2>1
  <2>. QED  BY <2>3, <2>4 DEF Init, EarnedInv, Counters
<1>2. EngineInv /\ EarnedInv => CompletedSessionsSucceeded
  <2>. SUFFICES ASSUME EngineInv, EarnedInv PROVE CompletedSessionsSucceeded
    OBVIOUS
  <2>1. /\ count["successes"] \in Nat /\ count["completedSessions"] \in Nat
        /\ config.turns \in Nat /\ Cardinality(Earned) \in Nat
    BY EarnedIsFinite DEF EngineInv, TypeOK, Counters
  <2>2. PICK product \in Nat : product = count["completedSessions"] * config.turns
    BY <2>1
  <2>. QED  BY <2>1, <2>2 DEF EarnedInv, CompletedSessionsSucceeded
<1>. QED  BY <1>1, <1>2, EngineInvInitially, EngineInvInductive, EarnedInvInductive, PTL DEF Spec

=============================================================================
