CONSTANTS
  Targets = {t1}
  RunIds = {r1, r2, r3}
  Agents = {a1}
  RunForms = {}
  SearchForms = {s1}
  MaxShards = 2
  StartLoad = 1
  MaxLoad = 3
  MaxMonitoring = 1
  AuthEnabled = FALSE
  WithSampler = TRUE
  Publishers = {a1}
  None = None
SPECIFICATION Spec
INVARIANT CapacityIsWhatHeld
CHECK_DEADLOCK FALSE
