CONSTANTS
  p1 = p1
  p2 = p2
  p3 = p3
  NoProc = NoProc
  Procs = {p1, p2, p3}
  Launched = {p1, p2, p3}
  Calls = {}
  EarlyCommands = FALSE
  DiskFails = FALSE
  MaxRounds = 3
  MaxCalls = 0
  MaxFaults = 2
  MaxRestarts = 2
SPECIFICATION Spec
CHECK_DEADLOCK FALSE
INVARIANTS
  TypeOK
  ManifestTruthful
  Recoverable
