CONSTANTS
  Targets = {t1, t2}
  RunIds = {r1, r2, r3}
  Agents = {a1}
  RunForms = {f1}
  SearchForms = {s1}
  MaxShards = 1
  StartLoad = 1
  MaxLoad = 2
  MaxMonitoring = 1
  AuthEnabled = TRUE
  WithSampler = FALSE
  Publishers = {}
  None = None
SPECIFICATION FairSpec
PROPERTY RunSettles
PROPERTY SearchSettles
CHECK_DEADLOCK FALSE
