CONSTANTS
  p1 = p1
  p2 = p2
  p3 = p3
  NoProc = NoProc
  Procs = {p1, p2}
  Launched = {p1}
  Calls = {"translate", "fork", "exit"}
  EarlyCommands = TRUE
  DiskFails = TRUE
  MaxRounds = 2
  MaxCalls = 3
  MaxFaults = 2
  MaxRestarts = 1
SPECIFICATION Spec
CHECK_DEADLOCK FALSE
INVARIANTS
  EpochAgreement
  MessagesExpected
PROPERTIES
  NoEarlyResume
