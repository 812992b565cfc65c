------------------------------ MODULE LockRows ------------------------------
(***************************************************************************)
(* The records one owner has on one file, seen as the lock type of each    *)
(* byte.  The last byte stands for UINT64_MAX, "all future bytes".         *)
(***************************************************************************)
EXTENDS Integers

CONSTANT MaxByte        \* the byte that stands for UINT64_MAX

ASSUME MaxByteAssumption == MaxByte \in Nat \ {0}

Bytes == 0 .. MaxByte
Types == {"rd", "wr", "none"}            \* F_RDLCK, F_WRLCK, F_UNLCK
Unlocked == [b \in Bytes |-> "none"]

\* The test both record_conflict and record_wait_cycle make on a record.
Conflicting(type, record) ==
  type # "none" /\ record # "none" /\ (type = "wr" \/ record = "wr")

\* The row of an owner after record_replace: the range of r gets the new type,
\* and what is left of the old records keeps its own.
Replaced(row, r) ==
  [b \in Bytes |-> IF b \in r.start .. r.end THEN r.type ELSE row[b]]

\* The bytes at which a record starts once adjacent ones are coalesced: there
\* are as many records.
Starts(row) == {b \in Bytes : row[b] # "none" /\ (b = 0 \/ row[b - 1] # row[b])}
=============================================================================
