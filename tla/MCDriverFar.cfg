CONSTANTS
  Records <- FarRecords
  IntSize = 16
  MaxRecords = 3
  Nil = Nil
SPECIFICATION Spec
CHECK_DEADLOCK FALSE
INVARIANTS MapsAreTheirOwn
