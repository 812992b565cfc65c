\* Two processes share one pipe of two bytes through dup, dup2, fork, exec and
\* exit; counts that come up short; signals to one of them; the fairness of the
\* scheduler.
SPECIFICATION FairSpec
CONSTANTS
  p1 = p1
  p2 = p2
  k1 = k1
  k2 = k2
  Procs = {p1, p2}
  FdMax = 2
  Pipes = {k1}
  Capacity = 2
  MaxCount = 2
  Requests <- ShortCounts
  Signalled = {p1}
  None = None
INVARIANTS TallyExact BytesInOrder HangupWakes
PROPERTIES NoLostWakeup 
CHECK_DEADLOCK FALSE
