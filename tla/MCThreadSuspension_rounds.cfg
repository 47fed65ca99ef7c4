CONSTANTS
  t1 = t1
  t2 = t2
  Threads = {t1, t2}
  Started = {t1}
  Ckpt = Ckpt
  NoOne = NoOne
  Ops <- AnyOps
  MaxCalls = 2
  MaxRounds = 2
  Paced = TRUE
SPECIFICATION Spec
CHECK_DEADLOCK FALSE
INVARIANTS
  TypeOK
  QuiescentSnapshot
  ResumeAfterRelease
  UnsafeNotInterrupted
  LiveThreadsListed
  ReapedUnreferenced
