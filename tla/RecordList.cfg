SPECIFICATION Spec
CONSTANTS
  o1 = o1
  o2 = o2
  Owners = {o1, o2}
  MaxByte = 3
  LockMax = 3
INVARIANTS Canonical
PROPERTIES ImplementsRows
