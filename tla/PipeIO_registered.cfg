SPECIFICATION Spec
CONSTANTS
  p1 = p1
  p2 = p2
  k1 = k1
  k2 = k2
  Procs = {p1, p2}
  FdMax = 3
  Pipes = {k1, k2}
  Capacity = 1
  MaxCount = 1
  Requests <- ReadsWrites
  Signalled = {p1, p2}
  None = None
SYMMETRY Symmetry
INVARIANTS ReadRegistered
