CONSTANTS
  Columns = 2
  Rows = 4
  Widths = {1, 3}
  Heights = {1, 5}
  Params = {0, 2, 5}
  MaxOps = 2
SPECIFICATION Spec
INVARIANTS RepaintDue
PROPERTIES EditsExact PrimaryKept ResizeKeeps
CHECK_DEADLOCK FALSE
