---------------------------- MODULE CommittedIndex ----------------------------
(***************************************************************************)
(* What the local index promises its readers (docs/architecture/           *)
(* local-index.md, "Atomic transactions" and "Tombstones"): the committed  *)
(* view changes by whole transactions only, a path that leaves the active  *)
(* records leaves a tombstone with the content hash it had, and no         *)
(* tombstone is ever lost.                                                 *)
(***************************************************************************)
CONSTANTS
  Paths,   \* repository-relative paths
  Hashes,  \* content hashes
  None,    \* no record, or no previous content
  TxIds    \* identities of transactions

VARIABLES
  records,    \* the active records: a content hash for each indexed path
  tombstones  \* the evidence of every removal so far

Records   == [Paths -> Hashes \cup {None}]
Tombstone ==
  [path : Paths, previousContentHash : Hashes \cup {None}, by : TxIds]

\* The paths an index with records old holds and one with records new does not.
Vanished(old, new) == {p \in Paths : old[p] # None /\ new[p] = None}

\* The tombstones transaction tx leaves for removed paths, given the records
\* they were removed from.
Evidence(removed, old, tx) ==
  {[path |-> p, previousContentHash |-> old[p], by |-> tx] : p \in removed}

Init ==
  /\ records = [p \in Paths |-> None]
  /\ tombstones = {}

Publish(new, tx) ==
  /\ records' = new
  /\ tombstones' =
       tombstones \cup Evidence(Vanished(records, new), records, tx)

Next == \E new \in Records, tx \in TxIds : Publish(new, tx)

Spec == Init /\ [][Next]_<<records, tombstones>>

=============================================================================
