\* Two slots that three processes use in turn, WAST handlers, masks, ignored and
\* restarting actions, signals from outside; the fairness of the driver.
SPECIFICATION FairSpec
CONSTANTS
  NumSlots = 2
  MaxPid = 3
  Signals = {15, 17}
  Caught = {15}
  Actions = {"ignore", "restart"}
  Masks <- BlockOrNot
  Codes = {0}
  Targets <- AnyChild
  Commands = {"image", "handler"}
  Outside = TRUE
  None = None
INVARIANTS StatusTrue SelectedAppAlive StallOnlyRootless ExitsCounted
  
CHECK_DEADLOCK FALSE
