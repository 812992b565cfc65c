---------------------------- MODULE MCProcesses -----------------------------
(* Small process tables for TLC. *)
EXTENDS Processes

AnyChild == {-1}
BlockOrNot == {{}, {15}}
=============================================================================
