SPECIFICATION FairSpec
CONSTANTS
  NProcs = 4
  NInsts = 8
  Ops = {"setsid", "setpgid", "late", "exit"}
INVARIANTS
  TypeOK
  ParentsRestored
  LeadersRestored
PROPERTIES
  RestoresTree
  AllRestored
CHECK_DEADLOCK FALSE
