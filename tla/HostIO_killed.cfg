CONSTANTS
  MaxShells = 1
  MaxStarting = 1
  MaxCalls = 2
  MaxEvents = 1
  Kinds = {"clipboard"}
SPECIFICATION Spec
INVARIANTS CopyAcknowledged
CHECK_DEADLOCK FALSE
