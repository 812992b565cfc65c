SPECIFICATION Spec
CONSTANTS
  MaxRuns = 2
  Readers = {2}
  MaxChunks = 3
  MaxInput = 2
INVARIANTS OneJob InputFaithful CancelledOnlyIfAsked
PROPERTIES  EndSettles ImplementsService
CHECK_DEADLOCK FALSE
