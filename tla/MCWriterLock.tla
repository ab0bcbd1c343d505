---------------------------- MODULE MCWriterLock ----------------------------
(***************************************************************************)
(* Instances of WriterLock for TLC: one daemon per process, and a process  *)
(* is named by the daemon it runs.                                         *)
(***************************************************************************)
EXTENDS WriterLock

CONSTANTS a, b

MCPidOf == [i \in Instances |-> i]

=============================================================================
