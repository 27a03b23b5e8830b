---------------------------- MODULE MetricResolver ----------------------------
(***************************************************************************)
(* The Prometheus client of internal/monitor/monitor.go.  Sample resolves  *)
(* one metric after the other; resolve looks up what it remembers of a     *)
(* metric under the resolver's lock, queries without it, and takes it      *)
(* again to write down what it found.  The sampler goroutine and request   *)
(* handlers share one client, and what the exporters answer may change     *)
(* between any two queries.                                                *)
(*                                                                         *)
(* A candidate is the number of its place in a metric's list; 0 is none.   *)
(* Values are left out.                                                    *)
(***************************************************************************)
EXTENDS Integers, FiniteSets, Sequences

CONSTANTS
  Metrics,      \* keys of the queries, in their order
  Candidates,   \* number of candidates of each metric
  Needed,       \* metrics whose absence makes a sample partial
  Sampler,      \* the goroutine that samples every second
  Handlers,     \* handlers that take a sample of their own
  MaxChanges    \* bound: times the exporters change

Callers == {Sampler} \cup Handlers
Keys    == {Metrics[i] : i \in DOMAIN Metrics}
Options == UNION {{<<key, n>> : n \in 1 .. Candidates[key]} : key \in Keys}

ASSUME MetricResolverAssumption ==
  /\ Metrics \in Seq(STRING) /\ Metrics # << >> /\ Cardinality(Keys) = Len(Metrics)
  /\ Candidates \in [Keys -> Nat \ {0}] /\ Needed \subseteq Keys
  /\ IsFiniteSet(Handlers) /\ Sampler \notin Handlers /\ MaxChanges \in Nat

VARIABLES
  answering,   \* candidates the exporters answer now
  changes,     \* how often that has changed
  resolved,    \* resolver.resolved
  absent,      \* resolver.absent: "no", retryAt ahead ("waiting") or past ("due")
  caller,      \* how far each call of Sample has come
  status,      \* status of the sampler's last sample
  rounds       \* vain rounds through a metric's candidates (history)

vars == <<answering, changes, resolved, absent, caller, status, rounds>>

-----------------------------------------------------------------------------
Idle == [at |-> "idle", query |-> 1, option |-> 0, found |-> {}]

Statuses == {"unavailable", "partial", "collected"}

TypeOK ==
  /\ answering \subseteq Options /\ changes \in 0 .. MaxChanges
  /\ resolved \in [Keys -> Nat] /\ \A key \in Keys : resolved[key] <= Candidates[key]
  /\ absent \in [Keys -> {"no", "waiting", "due"}]
  /\ caller \in [Callers -> [at : {"idle", "looking", "remembered", "probing", "found", "lost"},
                             query : DOMAIN Metrics, option : Nat, found : SUBSET Keys]]
  /\ \A c \in Callers : caller[c].option <= Candidates[Metrics[caller[c].query]]
  /\ status \in Statuses
  /\ rounds \in [Keys -> Nat]

Init ==
  /\ answering \in SUBSET Options /\ changes = 0
  /\ resolved = [key \in Keys |-> 0] /\ absent = [key \in Keys |-> "no"]
  /\ caller = [c \in Callers |-> Idle]
  /\ status = "unavailable"
  /\ rounds = [key \in Keys |-> 0]

\* The metric a caller is at.
Key(c) == Metrics[caller[c].query]

\* What Sample reports of the metrics it found.
StatusOf(found) ==
  IF found = {} THEN "unavailable" ELSE IF Needed \subseteq found THEN "collected" ELSE "partial"

-----------------------------------------------------------------------------
\* The exporters, or the Prometheus server, come and go (external).
Change ==
  /\ changes < MaxChanges /\ changes' = changes + 1
  /\ \E now \in SUBSET Options : now # answering /\ answering' = now
  /\ UNCHANGED <<resolved, absent, caller, status, rounds>>

\* absentRetryInterval passes.
RetryDue(key) ==
  /\ absent[key] = "waiting" /\ absent' = [absent EXCEPT ![key] = "due"]
  /\ rounds' = [rounds EXCEPT ![key] = 0]
  /\ UNCHANGED <<answering, changes, resolved, caller, status>>

\* A call of Sample begins.
Begin(c) ==
  /\ caller[c].at = "idle"
  /\ caller' = [caller EXCEPT ![c] = [Idle EXCEPT !.at = "looking"]]
  /\ UNCHANGED <<answering, changes, resolved, absent, status, rounds>>

\* resolve returns: on to the next metric, or the sample is complete.
Return(c, found) ==
  IF caller[c].query < Len(Metrics)
    THEN /\ caller' = [caller EXCEPT ![c] = [at |-> "looking", query |-> @.query + 1,
                                             option |-> 0, found |-> found]]
         /\ UNCHANGED status
    ELSE /\ caller' = [caller EXCEPT ![c] = Idle]
         /\ status' = IF c = Sampler THEN StatusOf(found) ELSE status

\* The caller goes on with candidate n of the same metric.
Move(c, at, n) ==
  caller' = [caller EXCEPT ![c] = [at |-> at, query |-> @.query, option |-> n, found |-> @.found]]

\* An absent metric is left alone for ever.
LookIgnoringTime(c) ==
  /\ caller[c].at = "looking"
  /\ IF resolved[Key(c)] # 0
       THEN /\ Move(c, "remembered", resolved[Key(c)])
            /\ UNCHANGED status
     ELSE IF absent[Key(c)] # "no" THEN Return(c, caller[c].found)
     ELSE Move(c, "probing", 1) /\ UNCHANGED status
  /\ UNCHANGED <<answering, changes, resolved, absent, rounds>>

\* An absent metric is probed by every call.
LookAtOnce(c) ==
  /\ caller[c].at = "looking"
  /\ IF resolved[Key(c)] # 0
       THEN Move(c, "remembered", resolved[Key(c)])
       ELSE Move(c, "probing", 1)
  /\ UNCHANGED <<answering, changes, resolved, absent, status, rounds>>

\* The first locked section of resolve.
Look(c) ==
  /\ caller[c].at = "looking"
  /\ IF resolved[Key(c)] # 0
       THEN /\ Move(c, "remembered", resolved[Key(c)])
            /\ UNCHANGED status
     ELSE IF absent[Key(c)] = "waiting" THEN Return(c, caller[c].found)
     ELSE Move(c, "probing", 1) /\ UNCHANGED status
  /\ UNCHANGED <<answering, changes, resolved, absent, rounds>>

\* The query of the remembered candidate; without an answer all are probed.
QueryRemembered(c) ==
  /\ caller[c].at = "remembered"
  /\ IF <<Key(c), caller[c].option>> \in answering
       THEN Return(c, caller[c].found \cup {Key(c)})
       ELSE Move(c, "probing", 1) /\ UNCHANGED status
  /\ UNCHANGED <<answering, changes, resolved, absent, rounds>>

\* The query of the next candidate.
Query(c) ==
  /\ caller[c].at = "probing"
  /\ LET n == caller[c].option
     IN  IF <<Key(c), n>> \in answering
           THEN Move(c, "found", n)
         ELSE IF n < Candidates[Key(c)] THEN Move(c, "probing", n + 1)
         ELSE Move(c, "lost", n)
  /\ UNCHANGED <<answering, changes, resolved, absent, status, rounds>>

\* The locked section after an answer.
Remember(c) ==
  /\ caller[c].at = "found"
  /\ resolved' = [resolved EXCEPT ![Key(c)] = caller[c].option]
  /\ absent' = [absent EXCEPT ![Key(c)] = "no"]
  /\ rounds' = [rounds EXCEPT ![Key(c)] = 0]
  /\ Return(c, caller[c].found \cup {Key(c)})
  /\ UNCHANGED <<answering, changes>>

\* The locked section after no candidate answered.
GiveUp(c) ==
  /\ caller[c].at = "lost"
  /\ resolved' = [resolved EXCEPT ![Key(c)] = 0]
  /\ absent' = [absent EXCEPT ![Key(c)] = "waiting"]
  /\ rounds' = [rounds EXCEPT ![Key(c)] = @ + 1]
  /\ Return(c, caller[c].found)
  /\ UNCHANGED <<answering, changes>>

Step(c) == Look(c) \/ QueryRemembered(c) \/ Query(c) \/ Remember(c) \/ GiveUp(c)

Next == \/ Change
        \/ \E key \in Keys : RetryDue(key)
        \/ \E c \in Callers : Begin(c) \/ Step(c)

\* A query has a timeout, time passes, and the sampler ticks while a run is on.
Fairness == /\ \A c \in Callers : WF_vars(Step(c))
            /\ \A key \in Keys : WF_vars(RetryDue(key))
            /\ WF_vars(Begin(Sampler))

Spec == Init /\ [][Next]_vars /\ Fairness

-----------------------------------------------------------------------------
\* A metric is never both remembered and given up, however the locked sections of
\* concurrent calls interleave.
MemoryIsConsistent == \A key \in Keys : resolved[key] # 0 => absent[key] = "no"

\* Between two retries a dead metric costs at most one round of queries per caller
\* that was already under way: no burst of queries every second.
ProbesAreBounded == \A key \in Keys : rounds[key] <= Cardinality(Callers)

\* Once the exporters stay as they are, every sample ends up telling exactly which
\* metrics they answer: what was wrongly given up by a slower call is found again,
\* and a candidate that went silent gives way to another one.
SamplesSettle ==
  <>[](status = StatusOf({key \in Keys : \E n \in 1 .. Candidates[key] : <<key, n>> \in answering}))
=============================================================================
