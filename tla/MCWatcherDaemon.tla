--------------------------- MODULE MCWatcherDaemon ---------------------------
(***************************************************************************)
(* Instances of WatcherDaemon for TLC: p and q are ordinary files, t has   *)
(* the name of an atomic save's temporary file.                            *)
(***************************************************************************)
EXTENDS WatcherDaemon, TLC

CONSTANTS p, q, t

\* Files without a special name can be exchanged.
Symmetry == Permutations(Followed)

=============================================================================
