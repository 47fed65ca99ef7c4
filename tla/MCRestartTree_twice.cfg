SPECIFICATION Spec
CONSTANTS
  NProcs = 3
  NInsts = 6
  Ops = {"exit"}
INVARIANTS
  CreatedOnce
CHECK_DEADLOCK FALSE
