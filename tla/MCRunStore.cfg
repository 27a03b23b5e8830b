CONSTANTS
  Targets = {t1}
  RunIds = {r1, r2, r3}
  Agents = {a1, a2}
  RunForms = {f1}
  SearchForms = {s1}
  MaxShards = 2
  StartLoad = 1
  MaxLoad = 2
  MaxMonitoring = 1
  AuthEnabled = FALSE
  WithSampler = FALSE
  Publishers = {}
  None = None
SPECIFICATION Spec
SYMMETRY Symmetry
INVARIANT ShardExecutedByOneAgent
INVARIANT RunningRunKeepsItsTarget
INVARIANT ResultHandledOnce
INVARIANT OneActiveRung
INVARIANT NoRungLost
INVARIANT StepsMatchRuns
PROPERTY EndedRunsStayEnded
PROPERTY ImplementsLoadService
CHECK_DEADLOCK FALSE
