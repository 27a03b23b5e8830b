CONSTANT LoadRanges <- MCLoadRanges
SPECIFICATION Spec
INVARIANT LadderClimbsToMax
PROPERTY SweepEnds
PROPERTY ImplementsCapacitySweep
CHECK_DEADLOCK FALSE
