CONSTANTS
  t1 = t1
  t2 = t2
  Threads = {t1}
  Started = {t1}
  Ckpt = Ckpt
  NoOne = NoOne
  Ops <- NoOps
  MaxCalls = 0
  MaxRounds = 2
  Paced = FALSE
SPECIFICATION FairSpec
CHECK_DEADLOCK FALSE
PROPERTIES
  CheckpointCompletes
