CONSTANTS
  Controllers = {c1}
  Ops <- MCOps
  Volatile <- MCVolatile
  Needs <- MCNeeds
  Bars <- MCBars
  Follows <- MCFollows
  DatabaseFails = TRUE
SPECIFICATION Spec
INVARIANT SerialPersistIsDurable
INVARIANT ExclusiveAcrossRestarts
INVARIANT StoresAreCoherent
CHECK_DEADLOCK FALSE
