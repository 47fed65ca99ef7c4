SPECIFICATION Spec
CONSTANTS
  t1 = t1
  t2 = t2
  Threads = {t1, t2}
  Ckpt = ckpt
  UserSigs = {u1}
  Values = {v1}
  Fresh = fresh
  LateTouch = FALSE
  MaxCalls = 2
  MaxRounds = 2
  MaxRestarts = 2
SYMMETRY Symm
CHECK_DEADLOCK FALSE
INVARIANT SignalsInPlace
