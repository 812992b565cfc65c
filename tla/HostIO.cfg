CONSTANTS
  MaxShells = 2
  MaxStarting = 1
  MaxCalls = 2
  MaxEvents = 1
  Kinds = {"suite", "render", "clipboard", "upload", "download"}
SPECIFICATION Spec
INVARIANTS SlotOwned NoLostWake OwnShell
PROPERTIES CallReturns
CHECK_DEADLOCK FALSE
