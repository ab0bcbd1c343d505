-------------------------- MODULE MCIndexLifecycle --------------------------
(***************************************************************************)
(* Instances of IndexLifecycle for TLC.                                    *)
(***************************************************************************)
EXTENDS IndexLifecycle, TLC

CONSTANTS a, b, c

Symmetry == Permutations(Procs)

=============================================================================
