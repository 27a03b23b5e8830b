------------------------------ MODULE Assessment ------------------------------
(***************************************************************************)
(* What the controller shows of a run beside its result: the samples that  *)
(* were attached to it (AddMonitoring, internal/store/store.go), the       *)
(* configuration that was scraped from the model server (ServerConfig of   *)
(* internal/monitor/monitor.go, SetDetectedServer), and the verdicts and   *)
(* the provenance that view (internal/controller/server.go) derives from   *)
(* them with internal/core/provenance.go.                                  *)
(*                                                                         *)
(* A setting is a number; 0 stands for a setting that is not known.        *)
(***************************************************************************)
EXTENDS Verdicts

CONSTANTS
  Samples,     \* samples the sampler can attach
  MaxSamples,  \* maxMonitoringSamples
  Fields,      \* settings of a server, among them "max_num_seqs"
  Rounded,     \* fields shown with two decimals, kept in thousandths
  TTFTFields,  \* fields that change what a TTFT means (AffectsTTFT)
  Entries,     \* configurations an operator may have typed
  Labels,      \* what each of configMetrics tells of the server, in their order
  Clients,     \* TTFT P95 a result can have
  Policies     \* cache policies

ServerConfig == [Fields -> Nat]
Unknown      == [f \in Fields |-> 0]

ASSUME AssessmentAssumption ==
  /\ MaxSamples \in Nat /\ "max_num_seqs" \in Fields
  /\ Rounded \subseteq Fields /\ TTFTFields \subseteq Fields
  /\ Entries \subseteq ServerConfig /\ Labels \in Seq(ServerConfig)
  /\ Clients \subseteq Nat
  /\ \A sample \in Samples : \A metric \in DOMAIN sample : sample[metric] \in Int

VARIABLES
  entered,    \* run.Config.Server, one of Entries
  detected,   \* run.DetectedServer, a ServerConfig
  samples     \* run.Monitoring

assessmentVars == <<entered, detected, samples>>

AssessmentInit == entered \in Entries /\ detected = Unknown /\ samples = << >>

-----------------------------------------------------------------------------
(***************************************************************************)
(* Provenance.                                                             *)
(***************************************************************************)
\* The typed value first.
EnteredFirst(typed, scraped) ==
  [f \in Fields |-> IF typed[f] > 0 THEN typed[f] ELSE scraped[f]]

\* What the server says of itself wins.
EffectiveServerConfig(typed, scraped) ==
  [f \in Fields |-> IF scraped[f] > 0 THEN scraped[f] ELSE typed[f]]

\* Client.ServerConfig: of the metrics that answered, the last one that tells a setting.
Scraped(answering) ==
  [f \in Fields |-> LET telling == {i \in answering : Labels[i][f] > 0}
                   IN  IF telling = {} THEN 0 ELSE Labels[Max(telling)][f]]

\* The value of a setting as it is shown; 0 for an empty text.
Shown(f, config) ==
  IF f \in Rounded /\ config[f] > 0 THEN 10 * ((config[f] + 5) \div 10) + 1 ELSE config[f]

ProvenanceConflicts(typed, scraped) ==
  {f \in Fields : Shown(f, typed) # 0 /\ Shown(f, scraped) # 0 /\ Shown(f, typed) # Shown(f, scraped)}

ProvenanceGaps(config)    == {f \in Fields : Shown(f, config) = 0}
TTFTComparable(config)    == ProvenanceGaps(config) \cap TTFTFields = {}
ProvenanceDifferences(left, right) == {f \in Fields : Shown(f, left) # Shown(f, right)}

\* view: verdicts rest on the effective configuration.
Effective == EffectiveServerConfig(entered, detected)

View(typed, client, policy) ==
  LET config == EffectiveServerConfig(typed, detected)
  IN  [saturation  |-> AssessSaturation(samples, config["max_num_seqs"]),
       validity    |-> AssessRunValidity(samples, policy),
       attribution |-> AttributeTTFT(client, samples),
       gaps        |-> ProvenanceGaps(config),
       conflicts   |-> ProvenanceConflicts(typed, detected)]

-----------------------------------------------------------------------------
AddMonitoring(sample) ==
  /\ Len(samples) < MaxSamples
  /\ samples' = Append(samples, sample)
  /\ UNCHANGED <<entered, detected>>

\* The latest scrape is kept.
SetDetectedServerAgain(scraped) ==
  /\ scraped # Unknown
  /\ detected' = scraped
  /\ UNCHANGED <<entered, samples>>

\* The scrape of a tick is kept by a run that has none yet.
SetDetectedServer(scraped) ==
  /\ scraped # Unknown /\ detected = Unknown
  /\ detected' = scraped
  /\ UNCHANGED <<entered, samples>>

AssessmentNext ==
  \/ \E sample \in Samples : AddMonitoring(sample)
  \/ \E answering \in SUBSET DOMAIN Labels : SetDetectedServer(Scraped(answering))

AssessmentSpec == AssessmentInit /\ [][AssessmentNext]_assessmentVars

-----------------------------------------------------------------------------
(***************************************************************************)
(* Properties.                                                             *)
(***************************************************************************)
SaturationMetrics  == {"waiting", "running", "kv", "preemptions"}
AttributionMetrics == {"queueTime", "prefillTime"}
ValidityMetrics    == Faults \cup {"clock", "prefixHit"}
VerdictMetrics     == SaturationMetrics \cup AttributionMetrics \cup ValidityMetrics

\* The seconds in which a metric was measured, and the k-th of them.
MeasuredAt(m) == {i \in DOMAIN samples : m \in DOMAIN samples[i]}
Place(k, m)   == CHOOSE i \in MeasuredAt(m) : Cardinality({j \in MeasuredAt(m) : j <= i}) = k

\* What was measured of each metric, moved together so that no second is missing.
Gapless ==
  [k \in DOMAIN samples |->
     [m \in {m \in VerdictMetrics : k <= Cardinality(MeasuredAt(m))} |-> samples[Place(k, m)][m]]]

\* A scrape that answered for some metrics only counts for those and for no other:
\* the verdicts are those of series without a gap, and a second in which a metric is
\* missing is no idle second of it.  This is about gaps.  Of a metric that was never
\* measured AssessSaturation and AttributeTTFT take 0 when they have another one to go
\* by: a queue beside a KV cache, a queue time beside a prefill time or the reverse.
UnmeasuredIsNotZero ==
  /\ AssessSaturation(samples, Effective["max_num_seqs"])
       = AssessSaturation(Gapless, Effective["max_num_seqs"])
  /\ \A client \in Clients : AttributeTTFT(client, samples) = AttributeTTFT(client, Gapless)
  /\ \A policy \in Policies :
       AssessRunValidity(samples, policy) = AssessRunValidity(Gapless, policy)

Severity(state) ==
  CASE state = "unknown"                        -> 0
    [] state = "headroom"                       -> 1
    [] state = "config_limited"                 -> 2
    [] state = "config_limited at max_num_seqs" -> 3
    [] state = "saturated"                      -> 4

\* Only a second in which an empty queue was measured makes a run look less loaded: none
\* with requests waiting does, and no scrape that lost the queue but has the rest.  And a
\* hardware fault that was seen once is never forgotten.
PressureNeverRelieves ==
  [][ Len(samples') > Len(samples) =>
        LET Now(s) == AssessSaturation(s, Effective["max_num_seqs"])
            sample == Last(samples')
        IN  /\ "waiting" \notin DOMAIN sample \/ sample["waiting"] > 0
                 => Severity(Now(samples')) >= Severity(Now(samples))
            /\ \A policy \in Policies :
                 AssessRunValidity(samples, policy) \cap Faults
                   \subseteq AssessRunValidity(samples', policy) ]_assessmentVars

TypedValueNeverOutranks ==
  detected["max_num_seqs"] > 0 =>
    \A e \in Entries, c \in Clients, policy \in Policies :
      View(e, c, policy).saturation = View(entered, c, policy).saturation

OverridesAreExplained ==
  \A f \in Fields :
    Shown(f, entered) \in {0, Shown(f, Effective)}
      \/ f \in ProvenanceConflicts(entered, detected)

\* The server's word wins, and openly.  Once it told its max_num_seqs, no value an
\* operator may have typed changes whether the hardware or the setting is blamed; and
\* a setting shown with another value than the typed one is listed as a conflict.
OverruledOpenly == TypedValueNeverOutranks /\ OverridesAreExplained

\* What was once known of the server stays known and stays the same through the
\* run, although later scrapes may tell less or something else.
ProvenanceSettles ==
  [][ /\ ProvenanceGaps(Effective') \subseteq ProvenanceGaps(Effective)
      /\ detected # Unknown => ProvenanceDifferences(Effective, Effective') = {} ]_assessmentVars
=============================================================================
