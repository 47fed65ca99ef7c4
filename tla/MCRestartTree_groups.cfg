SPECIFICATION Spec
CONSTANTS
  NProcs = 3
  NInsts = 6
  Ops = {"setpgid", "late"}
INVARIANTS
  GroupsRestored
CHECK_DEADLOCK FALSE
