CONSTANTS
  Metrics <- MCMetrics
  Candidates <- MCCandidates
  Needed <- MCNeeded
  Sampler = sampler
  Handlers = {handler}
  MaxChanges = 2
SPECIFICATION Spec
INVARIANT ProbesAreBounded
PROPERTY SamplesSettle
