CONSTANTS
  Stacks <- TwoStacks
  StreamAt <- FrameStream
  Hash <- Colliding
  NumInternal = 3
  MaxInserts = 5
SPECIFICATION Spec
CHECK_DEADLOCK FALSE
INVARIANT UniqueIsUnique
