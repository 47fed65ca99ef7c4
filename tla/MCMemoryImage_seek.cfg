SPECIFICATION Spec
CONSTANTS
  KindOf <- TwoPlain
  NPages = 2
  MaxWrites = 0
  Restarts = 1
  Caps = {4, 5, 6, 7, 8, 9, 10, 11, 12}
  Faults <- NoFaults
  MarkFails = FALSE
INVARIANTS
  ImageReadable
CHECK_DEADLOCK FALSE
