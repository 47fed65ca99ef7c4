SPECIFICATION Spec
CONSTANTS
  NProcs = 3
  Reals = {r1, r2, r3}
  Launchd = launchd
  Shell = shell
  MaxVirt = 4
  Threads = {1}
  Forkers = {1}
  Waiters = {1}
  Ops = {"exit", "kill", "sigkill"}
  Callers = {2}
  MaxRestarts = 1
  Reuse = FALSE
INVARIANTS
  TypeOK
  EntriesCurrent
  PidsStable
  CallsReachTarget
SYMMETRY RealSymmetry
CHECK_DEADLOCK FALSE
