CONSTANTS
  Ui = {u1}
  Guest = {g1}
  Direct = {d1}
  MaxTests = 4
  Skipped = {2}
  Expected = {3}
  Jobs = 2
SPECIFICATION Spec
INVARIANTS Served CancelHonoured
PROPERTIES Exclusive  CallsSettle
CHECK_DEADLOCK FALSE
