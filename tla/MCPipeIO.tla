------------------------------ MODULE MCPipeIO ------------------------------
EXTENDS PipeIO, TLC

CONSTANTS p1, p2, k1, k2

Reads == [op : {"read"}, fd : Fds, count : 1 .. MaxCount]
Writes == [op : {"write"}, fd : Fds, count : 1 .. MaxCount]
ReadsWrites == Reads \cup Writes

Read0 == [op |-> "read", fd |-> 0, count |-> 1]
SelectOf(r, w, t) == [op |-> "select", read |-> r, write |-> w, timeout |-> t]
Write2 == [op |-> "write", fd |-> 1, count |-> 2]
ShortCounts == {Read0, Write2, SelectOf({0}, {1}, "some"), SelectOf({0}, {}, "none")}

Symmetry == Permutations(Procs) \cup Permutations(Pipes)
=============================================================================
