CONSTANTS
  p1 = p1
  p2 = p2
  p3 = p3
  NoProc = NoProc
  Procs = {p1, p2}
  Launched = {p1, p2}
  Calls = {}
  EarlyCommands = FALSE
  DiskFails = FALSE
  MaxRounds = 1
  MaxCalls = 0
  MaxFaults = 2
  MaxRestarts = 0
SPECIFICATION Spec
CHECK_DEADLOCK FALSE
INVARIANTS
  StatesExpected
