CONSTANTS
  u1 = u1
  u2 = u2
  f1 = f1
  f2 = f2
  d1 = d1
  d2 = d2
  d3 = d3
  d4 = d4
  d5 = d5
  a1 = a1
  a2 = a2
  a3 = a3
  a4 = a4
  NoDesc = NoDesc
  Null = Null
  LastFd = 2
  NumStd = 1
  Users = {u1}
  Files = {f1}
  Descs = {d1, d2, d3, d4}
  Addrs = {a1, a2, a3}
  Ops = {"open", "close"}
  MaxOffset = 1
  MaxRef = 3
  MaxCalls = 3
  MaxSaves = 2
  MaxRestarts = 1
SPECIFICATION Spec
CHECK_DEADLOCK FALSE
SYMMETRY Interchangeable
INVARIANTS
  AllDescriptorsRestored
