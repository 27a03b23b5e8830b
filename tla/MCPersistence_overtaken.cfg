CONSTANTS
  Controllers = {c1}
  Ops <- MCOps
  Volatile <- MCVolatile
  Needs <- MCNeeds
  Bars <- MCBars
  Follows <- MCFollows
  DatabaseFails = FALSE
SPECIFICATION Spec
INVARIANT AcknowledgedSurvives
CHECK_DEADLOCK FALSE
