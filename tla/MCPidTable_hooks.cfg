SPECIFICATION FairSpec
CONSTANTS
  NProcs = 3
  Reals = {r1, r2, r3}
  Launchd = launchd
  Shell = shell
  MaxVirt = 4
  Threads = {1}
  Forkers = {1}
  Waiters = {1}
  Ops = {"exit", "query", "dirty", "pidinfo", "list", "getpgrp", "getpgid", "setpgid", "exec", "forkfail"}
  Callers = {2}
  MaxRestarts = 0
  Reuse = FALSE
INVARIANTS
  AnswersAreVirtual
PROPERTIES
  HandshakeArrives
CHECK_DEADLOCK FALSE
