----------------------------- MODULE ByteLocks ------------------------------
(***************************************************************************)
(* What the record locks of one file promise: every owner has a lock type  *)
(* on each byte, a lock is granted only when no other owner conflicts and  *)
(* the file keeps at most LockMax records, and owners let go of all their  *)
(* bytes at once.                                                          *)
(***************************************************************************)
EXTENDS LockRows, FiniteSets

CONSTANTS Owners,    \* lock owners, one per process
          LockMax    \* POSIX_RECORD_LOCK_MAX

VARIABLE row         \* row[o][b]: the type of the lock of o on byte b

Requests == {r \in [type : Types, start : Bytes, end : Bytes] : r.start <= r.end}

Init == row = [o \in Owners |-> Unlocked]

Free(o, r) ==
  \A q \in Owners \ {o}, b \in r.start .. r.end : ~Conflicting(r.type, row[q][b])

Fits(rows) ==
  Cardinality(UNION {{<<o, b>> : b \in Starts(rows[o])} : o \in Owners}) <= LockMax

Set(o, r) ==
  /\ Free(o, r)
  /\ row' = [row EXCEPT ![o] = Replaced(row[o], r)]
  /\ Fits(row')

Release(o) == row' = [row EXCEPT ![o] = Unlocked]

Next == \E o \in Owners : (\E r \in Requests : Set(o, r)) \/ Release(o)

Spec == Init /\ [][Next]_row
=============================================================================
