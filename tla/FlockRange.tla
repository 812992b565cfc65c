----------------------------- MODULE FlockRange -----------------------------
(***************************************************************************)
(* How posix_kernel_record_lock (engine/lib/kernel.c) turns a struct flock *)
(* into a byte range, and what the fcntl import does with it when a signal *)
(* handler runs inside F_SETLKW: the resolved range is written back into   *)
(* the private operand, the handler may move the descriptor's offset and   *)
(* resize the file, and the restarted call resolves the operand again.     *)
(* Widths are scaled down: I32Max < I64Max < U64Max play INT32_MAX,        *)
(* INT64_MAX and UINT64_MAX.                                               *)
(***************************************************************************)
EXTENDS Integers

CONSTANTS I32Max, I64Max, U64Max,
          Positions,  \* offsets and sizes the descriptor and file may have
          NoRange,    \* no range
          Error       \* EINVAL or EOVERFLOW

ASSUME WidthAssumption ==
  /\ I32Max \in Nat /\ I64Max \in Nat /\ U64Max \in Nat
  /\ I32Max < I64Max /\ 2 * I64Max < U64Max
  /\ Positions \subseteq 0 .. I64Max

Int32 == -I32Max - 1 .. I32Max
Operands == [whence : 0 .. 2, start : Int32, length : Int32]
ByteRanges == [start : Int, end : Int]

ASSUME NoRangeAssumption ==
  NoRange # Error /\ NoRange \notin ByteRanges /\ Error \notin ByteRanges

VARIABLES operand,   \* the adapter's struct flock
          offset,    \* regular.offset of the description
          size,      \* data_capacity of the file
          stage,     \* "call", "handler", "done"
          asked,     \* the operand of the guest, with offset and size
          range,     \* the range the last call resolved, Error or NoRange
          first      \* the range of the call that was interrupted, or NoRange

rangeVars == <<operand, offset, size, stage, asked, range, first>>

RangeInit ==
  /\ operand \in Operands
  /\ offset \in Positions
  /\ size \in Positions
  /\ stage = "call"
  /\ asked = [flock |-> operand, offset |-> offset, size |-> size]
  /\ range = NoRange
  /\ first = NoRange

Base(whence) == CASE whence = 0 -> 0 [] whence = 1 -> offset [] whence = 2 -> size

\* The EINVAL and EOVERFLOW exits are Error.
ResolveFlock_FromBase(op) ==
  LET position == Base(op.whence) + op.start
  IN  IF position < 0 \/ position > I32Max \/ position + op.length > I32Max + 1
      THEN Error
      ELSE [start |-> position,
            end |-> IF op.length = 0 THEN U64Max ELSE (position + op.length - 1) % (U64Max + 1)]

ResolveFlock(op) ==
  LET base == Base(op.whence)
      position == base + op.start
  IN  IF \/ op.start \notin Int32 \/ op.length \notin Int32
         \/ base > I64Max
         \/ op.start > 0 /\ base > I64Max - op.start
         \/ position < 0 \/ position > I32Max
         \/ op.length < 0 /\ position + op.length < 0
      THEN Error
      ELSE IF op.length < 0
      THEN [start |-> position + op.length, end |-> (position - 1) % (U64Max + 1)]
      ELSE IF op.length = 0
      THEN [start |-> position, end |-> U64Max]
      ELSE IF position + op.length - 1 > I32Max
      THEN Error
      ELSE [start |-> position, end |-> position + op.length - 1]

\* The retry operand of an interrupted F_SETLKW.
Encoded_KeepsWhence(r) ==
  [whence |-> operand.whence, start |-> r.start,
   length |-> IF r.end = U64Max THEN 0 ELSE r.end - r.start + 1]

Encoded(r) ==
  [whence |-> 0, start |-> r.start,
   length |-> IF r.end = U64Max THEN 0 ELSE r.end - r.start + 1]

\* The call resolves its operand and ends, with the lock or an error.
Finish ==
  /\ stage = "call"
  /\ range' = ResolveFlock(operand)
  /\ stage' = "done"
  /\ UNCHANGED <<operand, offset, size, asked, first>>

\* The call resolves its operand and finds a signal: EINTR, and the handler.
Interrupted ==
  /\ stage = "call"
  /\ ResolveFlock(operand) # Error
  /\ range' = ResolveFlock(operand)
  /\ operand' = Encoded(ResolveFlock(operand))
  /\ first' = IF first = NoRange THEN ResolveFlock(operand) ELSE first
  /\ stage' = "handler"
  /\ UNCHANGED <<offset, size, asked>>

\* The handler seeks, writes or truncates, and SA_RESTART repeats the call.
Handler ==
  /\ stage = "handler"
  /\ offset' \in Positions
  /\ size' \in Positions
  /\ stage' = "call"
  /\ UNCHANGED <<operand, asked, range, first>>

Done == stage = "done" /\ UNCHANGED rangeVars

RangeNext == Finish \/ Interrupted \/ Handler \/ Done

RangeSpec == RangeInit /\ [][RangeNext]_rangeVars

-----------------------------------------------------------------------------
(* Properties.                                                             *)

\* A restarted F_SETLKW locks the range the guest asked for when it first
\* called, however the handler moved the offset or resized the file, and
\* the re-encoded operand never fails the 32-bit checks: line 2412's comment.
RestartKeepsRange == first # NoRange /\ range # NoRange => range = first

\* The bytes a struct flock names, as POSIX counts them, with U64Max for all
\* bytes from the position on.
Named(op, base) ==
  LET position == base + op.start
  IN  CASE op.length > 0 -> position .. position + op.length - 1
        [] op.length < 0 -> position + op.length .. position - 1
        [] op.length = 0 -> position .. U64Max

\* The range that is locked holds exactly the bytes the guest named, relative
\* to the offset and size at the call, and no conversion wrapped: the range
\* is not empty and only "all future bytes" reaches past I32Max.
RangeIsNamed ==
  range \notin {NoRange, Error} =>
    /\ range.start .. range.end =
         Named(asked.flock, CASE asked.flock.whence = 0 -> 0
                              [] asked.flock.whence = 1 -> asked.offset
                              [] asked.flock.whence = 2 -> asked.size)
    /\ 0 <= range.start /\ range.start <= range.end
    /\ range.end <= I32Max \/ range.end = U64Max
=============================================================================
