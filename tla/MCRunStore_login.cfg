CONSTANTS
  Targets = {t1}
  RunIds = {r1}
  Agents = {a1, a2}
  RunForms = {f1}
  SearchForms = {}
  MaxShards = 2
  StartLoad = 1
  MaxLoad = 2
  MaxMonitoring = 1
  AuthEnabled = TRUE
  WithSampler = FALSE
  Publishers = {}
  None = None
SPECIFICATION WatcherSpec
PROPERTY CancellationReachesAgent
CHECK_DEADLOCK FALSE
