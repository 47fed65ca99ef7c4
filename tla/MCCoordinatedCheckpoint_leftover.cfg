CONSTANTS
  p1 = p1
  p2 = p2
  p3 = p3
  NoProc = NoProc
  Procs = {p1}
  Launched = {p1}
  Calls = {}
  EarlyCommands = FALSE
  DiskFails = FALSE
  MaxRounds = 3
  MaxCalls = 0
  MaxFaults = 1
  MaxRestarts = 1
SPECIFICATION Spec
CHECK_DEADLOCK FALSE
PROPERTIES
  CommandTakesCheckpoint
