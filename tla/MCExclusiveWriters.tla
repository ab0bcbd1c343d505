------------------------- MODULE MCExclusiveWriters -------------------------
(***************************************************************************)
(* Instances of ExclusiveWriters for TLC: a process is named by the one    *)
(* daemon it runs, so daemons can be permuted.                             *)
(***************************************************************************)
EXTENDS ExclusiveWriters, TLC

CONSTANTS a, b

MCPidOf == [i \in Instances |-> i]

Symmetry == Permutations(Instances)

=============================================================================
