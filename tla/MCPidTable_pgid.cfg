SPECIFICATION Spec
CONSTANTS
  NProcs = 3
  Reals = {3, 12, 13}
  Launchd = launchd
  Shell = shell
  MaxVirt = 4
  Threads = {1}
  Forkers = {1}
  Waiters = {}
  Ops = {"getpgid", "setpgid"}
  Callers = {1, 2, 3}
  MaxRestarts = 0
  Reuse = FALSE
INVARIANTS
  PgidOfTarget
CHECK_DEADLOCK FALSE
