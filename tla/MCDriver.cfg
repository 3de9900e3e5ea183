CONSTANTS
  Records <- MCRecords
  IntSize = 16
  MaxRecords = 4
  Nil = Nil
SPECIFICATION Spec
INVARIANTS TypeOK LastIsFound MapsAreTheirOwn TotalsAreDistinctIds
PROPERTY ImplementsStackCounts
