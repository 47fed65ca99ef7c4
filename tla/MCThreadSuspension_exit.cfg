CONSTANTS
  t1 = t1
  t2 = t2
  Threads = {t1, t2}
  Started = {t1, t2}
  Ckpt = Ckpt
  NoOne = NoOne
  Ops <- ExitOps
  MaxCalls = 1
  MaxRounds = 1
  Paced = TRUE
SPECIFICATION FairSpec
CHECK_DEADLOCK FALSE
PROPERTIES
  CheckpointCompletes
