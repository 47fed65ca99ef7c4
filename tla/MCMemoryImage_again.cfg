SPECIFICATION Spec
CONSTANTS
  KindOf <- AllKinds
  NPages = 2
  MaxWrites = 2
  Restarts = 2
  Caps = {100}
  Faults <- SomeFaults
  MarkFails = FALSE
INVARIANTS
  TypeOK
  RestoredExactly
  ImageReadable
  OnlyUserRegions
  ProtectionsKept
CHECK_DEADLOCK FALSE
