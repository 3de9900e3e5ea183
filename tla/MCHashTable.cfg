CONSTANTS
  Stacks <- SixStacks
  StreamAt <- OwnStream
  Hash <- Colliding
  NumInternal = 3
  MaxInserts = 7
SPECIFICATION Spec
CHECK_DEADLOCK FALSE
INVARIANTS TypeOK AbortsByCollision SharedAreNested
PROPERTY ImplementsHashCounts
