CONSTANTS
  t1 = t1
  t2 = t2
  Threads = {t1, t2}
  Started = {t1}
  Ckpt = Ckpt
  NoOne = NoOne
  Ops <- HookOps
  MaxCalls = 2
  MaxRounds = 2
  Paced = TRUE
SPECIFICATION FairSpec
CHECK_DEADLOCK FALSE
PROPERTIES
  CheckpointCompletes
  ThreadsResume
