SPECIFICATION Spec
CONSTANTS
  NProcs = 3
  Reals = {r1, r2, r3}
  Launchd = launchd
  Shell = shell
  MaxVirt = 4
  Threads = {1, 2}
  Forkers = {1, 2}
  Waiters = {}
  Ops = {}
  Callers = {1, 2, 3}
  MaxRestarts = 0
  Reuse = FALSE
INVARIANTS
  AnswersAreVirtual
CHECK_DEADLOCK FALSE
