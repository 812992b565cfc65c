--------------------------- MODULE MCRecordLocks ---------------------------
(* Instances of RecordLocks for TLC.                                       *)
EXTENDS RecordLocks, TLC

CONSTANTS p1, p2, p3, f1, f2

ReadWrite == {{"rd", "wr"}}

HeadTailOrWhole == {<<0, 0>>, <<1, MaxByte>>, <<0, MaxByte>>}
ThreeParts == {<<0, 0>>, <<1, 1>>, <<2, MaxByte>>}

ProcSymmetry == Permutations(Procs)
=============================================================================
