SPECIFICATION Spec
CONSTANTS
  NProcs = 3
  Reals = {r1, r2, r3}
  Launchd = launchd
  Shell = shell
  MaxVirt = 4
  Threads = {1}
  Forkers = {1}
  Waiters = {1}
  Ops = {"exit", "kill"}
  Callers = {1, 2, 3}
  MaxRestarts = 0
  Reuse = TRUE
INVARIANTS
  CallsReachTarget
CHECK_DEADLOCK FALSE
