SPECIFICATION Spec
CONSTANTS
  KindOf <- Plain
  NPages = 1
  MaxWrites = 1
  Restarts = 2
  Caps = {100}
  Faults <- NoFaults
  MarkFails = TRUE
INVARIANTS
  OnlyUserRegions
CHECK_DEADLOCK FALSE
