CONSTANTS
  p1 = p1
  p2 = p2
  p3 = p3
  NoProc = NoProc
  Procs = {p1, p2}
  Launched = {p1, p2}
  Calls = {"exit"}
  EarlyCommands = FALSE
  DiskFails = FALSE
  MaxRounds = 2
  MaxCalls = 1
  MaxFaults = 1
  MaxRestarts = 0
SPECIFICATION ReapingSpec
CHECK_DEADLOCK FALSE
PROPERTIES
  CheckpointCompletes
  BarriersOpen
