CONSTANTS
  MaxByte = 4
  Cap4 = 2
  Cap16 = 3
  Cap48 = 4
  Null = Null
  Keys <- TameKeys
  PrefixSize = 4
  MaxInserts = 5
SPECIFICATION Spec
CHECK_DEADLOCK FALSE
PROPERTY ImplementsStackCounts
