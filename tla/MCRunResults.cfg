CONSTANTS
  Count = 2
  Loads <- MCLoads
  Latencies <- MCLatencies
  SLO = 2
  Duration = 3
  Elapsed <- MCElapsed
  Ramps <- MCRamps
  OldAgents <- MCOldAgents
  RunLimits <- MCLimits
  Threshold = 2
  MaxSamples = 3
  MaxAttempts = 4
SPECIFICATION Spec
INVARIANT SamplesEvenlySpread
INVARIANT OfferedIsAsked
INVARIANT PercentilesAreHonest
INVARIANT MergeIsFaithful
INVARIANT StableShardsMakeAStableRun
CHECK_DEADLOCK FALSE
