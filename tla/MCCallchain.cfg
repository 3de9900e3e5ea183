CONSTANTS
  Chains <- NestedChains
  Periods = {0, 1}
  MaxAppends = 4
  MaxFailures = 1
SPECIFICATION Spec
CHECK_DEADLOCK FALSE
INVARIANTS TypeOK DistinctSiblings StackIsPath Compressed CountersAddUp AllSamplesCounted SortsShowWeight
PROPERTIES AppendEnds ImplementsStackCounts
