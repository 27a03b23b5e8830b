CONSTANTS
  Samples <- MCSamples
  MaxSamples = 5
  Fields <- MCFields
  Rounded <- MCRounded
  TTFTFields <- MCTTFT
  Entries <- MCEntries
  Labels <- MCLabels
  Clients <- MCClients
  Policies <- MCPolicies
SPECIFICATION AssessmentSpec
INVARIANT UnmeasuredIsNotZero
INVARIANT OverruledOpenly
PROPERTY PressureNeverRelieves
PROPERTY ProvenanceSettles
CHECK_DEADLOCK FALSE
