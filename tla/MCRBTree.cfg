CONSTANTS
  Nodes <- MCNodes
  Nil = Nil
  Cmp <- Compare
SPECIFICATION Spec
INVARIANTS TypeOK NoLoops Ordered Balanced LoopInvariants IterationsAgree
PROPERTY CallsEnd
