----------------------------- MODULE RecordList -----------------------------
(***************************************************************************)
(* The record list of one file as record_replace and record_release_file   *)
(* of engine/lib/kernel.c keep it: inclusive ranges in unsigned arithmetic *)
(* of a fixed width whose largest value means "all future bytes", a        *)
(* private pending list that is split, coalesced and counted before it is  *)
(* installed, and the limit on the number of records.                      *)
(***************************************************************************)
EXTENDS LockRows, FiniteSets, SequencesExt

CONSTANTS Owners,    \* lock owners, one per process
          LockMax    \* POSIX_RECORD_LOCK_MAX

VARIABLES locks,     \* file->locks, the list linked by file_next
          count      \* file->lock_count; file->refs moves with it

vars == <<locks, count>>

Ranges == {r \in [type : Types, start : Bytes, end : Bytes] : r.start <= r.end}
Records == [owner : Owners, type : Types \ {"none"}, start : Bytes, end : Bytes]
U(n) == n % (MaxByte + 1)                   \* uint64_t

Overlap(r, record) == r.start <= record.end /\ record.start <= r.end

\* record_conflict; for F_UNLCK posix_kernel_record_lock skips the search.
Conflict_WritersOnly(o, r) ==
  \E i \in DOMAIN locks :
    locks[i].owner # o /\ Overlap(r, locks[i]) /\ r.type = "wr"

Conflict(o, r) ==
  /\ r.type # "none"
  /\ \E i \in DOMAIN locks :
       /\ locks[i].owner # o
       /\ Overlap(r, locks[i])
       /\ r.type = "wr" \/ locks[i].type = "wr"

-----------------------------------------------------------------------------
(* record_replace.                                                         *)

\* What is left of an old record of the owner outside the range of r.
Pieces(old, r) ==
  IF ~Overlap(r, old) THEN <<old>>
  ELSE (IF old.start < r.start
        THEN <<[old EXCEPT !.end = U(r.start - 1)]>> ELSE <<>>) \o
       (IF old.end > r.end
        THEN <<[old EXCEPT !.start = U(r.end + 1)]>> ELSE <<>>)

Own(o) == SelectSeq(locks, LAMBDA record : record.owner = o)
Others(o) == SelectSeq(locks, LAMBDA record : record.owner # o)

\* record_pending_add puts each piece in front, and the new record last.
Pending(o, r) ==
  LET pieces == FlattenSeq([i \in DOMAIN Own(o) |-> Pieces(Own(o)[i], r)])
      new == [owner |-> o, type |-> r.type, start |-> r.start, end |-> r.end]
  IN  (IF r.type = "none" THEN <<>> ELSE <<new>>) \o Reverse(pieces)

\* Two pending records that become one.
Joins_Wraps(one, two) ==
  /\ one.type = two.type
  /\ two.start <= U(one.end + 1)
  /\ one.start <= U(two.end + 1)

Joins(one, two) ==
  /\ one.type = two.type
  /\ one.end = MaxByte \/ two.start <= U(one.end + 1)
  /\ two.end = MaxByte \/ one.start <= U(two.end + 1)

Joined(one, two) ==
  [one EXCEPT !.start = IF two.start < @ THEN two.start ELSE @,
              !.end   = IF two.end > @ THEN two.end ELSE @]

\* The scan of the rest of the list starts again after every join.
RECURSIVE Coalesce(_)
Coalesce(list) ==
  IF list = <<>> THEN <<>>
  ELSE LET one == Head(list)
           rest == Tail(list)
           joinable == {i \in DOMAIN rest : Joins(one, rest[i])}
       IN  IF joinable = {} THEN <<one>> \o Coalesce(rest)
           ELSE LET i == Min(joinable)
                IN  Coalesce(<<Joined(one, rest[i])>> \o RemoveAt(rest, i))

\* The limit test, in unsigned arithmetic.
Admits(own, others) == own <= LockMax /\ others <= U(LockMax - own)

Init == locks = <<>> /\ count = 0

\* F_SETLK or F_SETLKW that meets no conflict.  ENOLCK changes nothing.
Replace(o, r) ==
  /\ ~Conflict(o, r)
  /\ LET pending == Coalesce(Pending(o, r))
     IN  /\ Admits(Len(pending), Len(Others(o)))
         /\ locks' = Reverse(pending) \o Others(o)
         /\ count' = count - Len(Own(o)) + Len(pending)

\* record_release_file, or lock_owner_release over the files of the owner.
Release(o) ==
  /\ locks' = Others(o)
  /\ count' = count - Len(Own(o))

Next == \E o \in Owners : (\E r \in Ranges : Replace(o, r)) \/ Release(o)

Spec == Init /\ [][Next]_vars

-----------------------------------------------------------------------------
(* Properties.                                                             *)

\* The list holds records and stays canonical under every order of locks,
\* splits, upgrades and unlocks: records of one owner never overlap, and two
\* that touch with the same type have been coalesced, the last byte included.
\* lock_count is the length of the list, and the limit holds for the file.
Canonical ==
  /\ locks \in Seq(Records)
  /\ \A i, j \in DOMAIN locks :
       /\ locks[i].start <= locks[i].end
       /\ i # j /\ locks[i].owner = locks[j].owner =>
            /\ ~Overlap(locks[i], locks[j])
            /\ locks[i].type = locks[j].type => locks[i].end + 1 # locks[j].start
  /\ count = Len(locks) /\ count <= LockMax

\* The type of the record of o over byte b.
TypeAt(o, b) ==
  LET over == {i \in DOMAIN locks : locks[i].owner = o /\ b \in locks[i].start .. locks[i].end}
  IN  IF over = {} THEN "none" ELSE locks[CHOOSE i \in over : TRUE].type

Rows == INSTANCE ByteLocks WITH row <- [o \in Owners |-> [b \in Bytes |-> TypeAt(o, b)]]

\* The list implements the byte rows that RecordLocks works with: each call
\* changes exactly the bytes of its range and leaves every other byte of every
\* owner as it was, and the limit counts the records the rows need.
ImplementsRows == Rows!Spec
=============================================================================
