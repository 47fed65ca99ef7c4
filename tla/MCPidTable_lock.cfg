SPECIFICATION FairSpec
CONSTANTS
  NProcs = 2
  Reals = {r1, r2, r3}
  Launchd = launchd
  Shell = shell
  MaxVirt = 4
  Threads = {1, 2}
  Forkers = {1}
  Waiters = {}
  Ops = {"kill"}
  Callers = {1, 2}
  MaxRestarts = 0
  Reuse = FALSE
PROPERTIES
  HandshakeArrives
CHECK_DEADLOCK FALSE
