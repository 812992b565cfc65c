\* Two processes with aliased descriptors, shared and exclusive locks on the
\* head, the tail and the whole of a file at its record limit: upgrades, records
\* that split and join, cycles; the scheduler's fairness.
CONSTANTS
  p1 = p1  p2 = p2  p3 = p3  f1 = f1  f2 = f2
  None = None
  Procs = {p1, p2}
  Files = {f1}
  Fds = {0, 1}
  Modes <- ReadWrite
  MaxByte = 2
  LockTypes = {"rd", "wr", "none"}
  Ranges <- HeadTailOrWhole
  LockMax = 2
SPECIFICATION FairSpec
INVARIANTS MutualExclusion NoDeadlock RecordLimit LocksNeedDescriptor
PROPERTIES WaitOutcome NoLostWakeup
