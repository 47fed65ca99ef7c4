CONSTANTS
  p1 = p1
  p2 = p2
  p3 = p3
  NoProc = NoProc
  Procs = {p1, p2}
  Launched = {p1, p2}
  Calls = {}
  EarlyCommands = TRUE
  DiskFails = FALSE
  MaxRounds = 2
  MaxCalls = 0
  MaxFaults = 1
  MaxRestarts = 1
SPECIFICATION FairSpec
CHECK_DEADLOCK FALSE
PROPERTIES
  CheckpointCompletes
