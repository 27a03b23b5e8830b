CONSTANTS
  Workers <- MCWorkers
  Configs <- MCConfigs
  BreakerThreshold = 1
  MinSamples = 1
  MaxAttempts = 3
  MaxDropped = 1
SPECIFICATION Spec
INVARIANT AttemptsAccounted
INVARIANT QuietBetweenStages
INVARIANT DeadTargetIsSpared
INVARIANT CompletedSessionsSucceeded
PROPERTY CancelledRunEnds
PROPERTY LoadPhaseEnds
CHECK_DEADLOCK FALSE
