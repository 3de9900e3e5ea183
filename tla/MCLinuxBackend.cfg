CONSTANTS
  Chains <- Subchains
  Periods = {0, 1}
  MaxAppends = 2
  MaxFailures = 1
  Inputs <- Arrays
  MaxStackEntries = 3
SPECIFICATION BackendSpec
CHECK_DEADLOCK FALSE
INVARIANTS BackendTypeOK FillReadsInput MergeReadsPath MergeAddsWeights
PROPERTY CallsEnd
