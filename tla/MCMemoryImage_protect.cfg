SPECIFICATION Spec
CONSTANTS
  KindOf <- Plain
  NPages = 2
  MaxWrites = 1
  Restarts = 1
  Caps = {100}
  Faults <- AllFaults
  MarkFails = FALSE
INVARIANTS
  ProtectionsKept
CHECK_DEADLOCK FALSE
