CONSTANTS
  p1 = p1
  p2 = p2
  p3 = p3
  NoProc = NoProc
  Procs = {p1, p2}
  Launched = {p1, p2}
  Calls = {"exit"}
  EarlyCommands = FALSE
  DiskFails = FALSE
  MaxRounds = 1
  MaxCalls = 1
  MaxFaults = 0
  MaxRestarts = 0
SPECIFICATION FairSpec
CHECK_DEADLOCK FALSE
PROPERTIES
  CheckpointCompletes
