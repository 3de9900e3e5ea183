CONSTANTS
  MaxByte = 5
  Cap4 = 2
  Cap16 = 3
  Cap48 = 4
  Null = Null
  Children = {c1, c2}
SPECIFICATION NodeSpec
INVARIANTS NodeTypeOK LayoutInv NeverAborts
PROPERTY ImplementsChildMap
