CONSTANTS
  Tabs = {t1, t2}
  MaxLogins = 2
  MaxOutages = 1
  Clients = {c1, c2}
  Tokens = {"env", "mine"}
  EnvToken = "env"
  Default <- MCDefault
  Inputs <- MCInputs
  MaxCalls = 3
  MaxUpdates = 2
  MaxTime = 2
  MaxEpoch = 1
  None = None
SPECIFICATION MCSpec
CHECK_DEADLOCK FALSE
INVARIANT SessionsStayBounded
INVARIANT EventsBelongTogether
INVARIANT SerialClientsReplayInOrder
INVARIANT TokenChangesSurvive
INVARIANT LatestLoginCompletes
PROPERTY DiscoverySettles
