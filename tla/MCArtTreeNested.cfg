CONSTANTS
  MaxByte = 5
  Cap4 = 2
  Cap16 = 3
  Cap48 = 4
  Null = Null
  Keys <- NestedKeys
  PrefixSize = 4
  MaxInserts = 4
SPECIFICATION Spec
CHECK_DEADLOCK FALSE
PROPERTY CountsNeverDrop
