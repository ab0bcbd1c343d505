------------------------------- MODULE Snapshots -------------------------------
(***************************************************************************)
(* Immutable snapshots: how the commands save, list and read them, and     *)
(* what they compute from two of them (packages/snapshots/src, snapshot    *)
(* and diff commands, packages/core/src/application/delta-scope.ts).       *)
(*                                                                         *)
(* The id of a snapshot is a hash of its content without the time, so the  *)
(* content stands for the id.  A file is its inode: a writer that has it   *)
(* open goes on writing to it after a rename.                              *)
(***************************************************************************)
EXTENDS Naturals, FiniteSets, Functions

CONSTANTS
  Manifests,  \* the snapshots: [files |-> path -> hash of the content, complete]
  Savers      \* the processes that create snapshots

\* A manifest lists finitely many paths, and none is called as a delta calls
\* the path that an added file did not have.
ASSUME SnapshotAssumption ==
  /\ IsFiniteSet(Savers)
  /\ \A m \in Manifests : IsFiniteSet(DOMAIN m.files) /\ "none" \notin DOMAIN m.files

Absent == 0                        \* no inode
Inodes == 1..(2 * Cardinality(Savers))  \* bound: each saver saves twice at most

VARIABLES
  saver,     \* what each process does: [step, snapshot, inode, saves]
  whole,     \* the inodes whose content is complete
  temporary, \* snapshot -> the inode its temporary name stands for
  published, \* snapshot -> the inode its name stands for
  raced,     \* the snapshots that two savers were saving at a time
  delta      \* the last comparison

snapshotVars == <<saver, whole, temporary, published, raced, delta>>

Idle == [step |-> "idle", snapshot |-> [files |-> <<>>, complete |-> TRUE], inode |-> Absent, saves |-> 0]
NoDelta == [before |-> Idle.snapshot, after |-> Idle.snapshot, files |-> {}, complete |-> TRUE]

SnapshotTypeOK ==
  /\ \A s \in Savers : saver[s].step \in {"idle", "write", "rename", "saved", "failed", "dead"}
  /\ whole \subseteq Inodes
  /\ temporary \in [Manifests -> Inodes \cup {Absent}]
  /\ published \in [Manifests -> Inodes \cup {Absent}]
  /\ raced \subseteq Manifests

SnapshotInit ==
  /\ saver = [s \in Savers |-> Idle] /\ whole = {}
  /\ temporary = [m \in Manifests |-> Absent] /\ published = [m \in Manifests |-> Absent]
  /\ raced = {} /\ delta = NoDelta

-----------------------------------------------------------------------------
(* saveSnapshot, and the renames of the file system.                        *)

Saving(s) == saver[s].step \in {"write", "rename"}
Unused == Inodes \ ({temporary[m] : m \in Manifests} \cup {published[m] : m \in Manifests}
                      \cup {saver[s].inode : s \in {t \in Savers : Saving(t)}})

\* The snapshot is made of one acquisition; opening the temporary name empties
\* the file it already stands for.
CreateSnapshot(s, m) ==
  /\ saver[s].step \in {"idle", "saved", "failed"} /\ saver[s].saves < 2
  /\ LET inode == IF temporary[m] # Absent THEN temporary[m]
                  ELSE CHOOSE i \in Unused : \A other \in Unused : i <= other
     IN
       /\ saver' = [saver EXCEPT ![s] = [step |-> "write", snapshot |-> m, inode |-> inode,
                                         saves |-> @.saves + 1]]
       /\ temporary' = [temporary EXCEPT ![m] = inode]
       /\ whole' = whole \ {inode}
  /\ raced' = IF \E t \in Savers : Saving(t) /\ saver[t].snapshot = m THEN raced \cup {m} ELSE raced
  /\ UNCHANGED <<published, delta>>

\* The last write; before it the file holds less.
WriteAll(s) ==
  /\ saver[s].step = "write"
  /\ whole' = whole \cup {saver[s].inode}
  /\ saver' = [saver EXCEPT ![s].step = "rename"]
  /\ UNCHANGED <<temporary, published, raced, delta>>

\* (mutant: the snapshot is written under its own name)
RenameEarly(s) ==
  LET m == saver[s].snapshot
  IN  /\ Saving(s) /\ temporary[m] # Absent
      /\ saver' = [saver EXCEPT ![s].step = "saved"]
      /\ published' = [published EXCEPT ![m] = temporary[m]]
      /\ temporary' = [temporary EXCEPT ![m] = Absent]
      /\ UNCHANGED <<whole, raced, delta>>

\* The rename takes whatever the temporary name stands for, and fails if
\* another saver has taken it.
Rename(s) ==
  LET m == saver[s].snapshot
  IN  /\ saver[s].step = "rename"
      /\ IF temporary[m] = Absent
         THEN saver' = [saver EXCEPT ![s].step = "failed"] /\ UNCHANGED <<temporary, published>>
         ELSE /\ saver' = [saver EXCEPT ![s].step = "saved"]
              /\ published' = [published EXCEPT ![m] = temporary[m]]
              /\ temporary' = [temporary EXCEPT ![m] = Absent]
      /\ UNCHANGED <<whole, raced, delta>>

SaverDies(s) ==
  /\ Saving(s)
  /\ saver' = [saver EXCEPT ![s].step = "dead"]
  /\ UNCHANGED <<whole, temporary, published, raced, delta>>

-----------------------------------------------------------------------------
(* computeSnapshotDelta and selectDeltaScope.                               *)

Published(m) == published[m] # Absent
Readable(m) == Published(m) /\ published[m] \in whole

FileDelta(kind, path, previous) == [kind |-> kind, path |-> path, previous |-> previous]

\* A deleted file is renamed if exactly one added file has its content.
Twins(old, new, path) ==
  {p \in DOMAIN new \ DOMAIN old : new[p] = old[path]}

\* (mutant: any file with the content will do)
TwinsAnywhere(old, new, path) == {p \in DOMAIN new : new[p] = old[path]}

Compared(old, new) ==
  LET deleted == DOMAIN old \ DOMAIN new
      renamed(p) == Cardinality(Twins(old, new, p)) = 1
      targets == UNION {Twins(old, new, p) : p \in {q \in deleted : renamed(q)}}
  IN  {IF renamed(p) THEN FileDelta("renamed", CHOOSE q \in Twins(old, new, p) : TRUE, p)
       ELSE FileDelta("deleted", p, p) : p \in deleted}
        \cup {FileDelta("added", p, "none") : p \in (DOMAIN new \ DOMAIN old) \ targets}
        \cup {FileDelta(IF old[p] = new[p] THEN "unchanged" ELSE "modified", p, p) :
                p \in DOMAIN old \cap DOMAIN new}

\* fuzit diff reads the two published names; a save that is under way changes
\* nothing of a comparison, so only those between saves are looked at.
DiffSnapshots(before, after) ==
  /\ \A s \in Savers : ~Saving(s)
  /\ Readable(before) /\ Readable(after)
  /\ delta' = [before |-> before, after |-> after,
               files |-> Compared(before.files, after.files),
               complete |-> before.complete /\ after.complete]
  /\ UNCHANGED <<saver, whole, temporary, published, raced>>

\* What pack --since keeps of the items it has.
InScope == {e.path : e \in {f \in delta.files : f.kind \in {"added", "modified", "renamed"}}}

SnapshotNext ==
  \/ \E s \in Savers :
       \/ \E m \in Manifests : CreateSnapshot(s, m)
       \/ WriteAll(s) \/ Rename(s) \/ SaverDies(s)
  \/ \E before, after \in Manifests : DiffSnapshots(before, after)

-----------------------------------------------------------------------------
(* Properties.                                                              *)

\* A snapshot that is listed can be read, unless two savers of this very
\* snapshot shared its temporary file; a saver that says it saved has a
\* snapshot there.  The comparison of two snapshots accounts for every file of
\* both once, calls renamed only what kept its content, gives two old files
\* one new path only if they were copies of each other, and its scope is what
\* cannot be had from the baseline (saveSnapshot, computeSnapshotDelta,
\* selectDeltaScope).
SnapshotsFaithful ==
  LET old == delta.before.files
      new == delta.after.files
  IN  /\ \A m \in Manifests : Published(m) => Readable(m) \/ m \in raced
      /\ \A s \in Savers : saver[s].step = "saved" => Published(saver[s].snapshot)
      /\ {e.path : e \in {f \in delta.files : f.kind # "deleted"}} = DOMAIN new
      /\ \A p \in DOMAIN old :
           Cardinality({e \in delta.files : e.previous = p}) = 1
      /\ \A e, f \in delta.files : e.path = f.path /\ e # f =>
           e.kind = "renamed" /\ f.kind = "renamed" /\ old[e.previous] = old[f.previous]
      /\ \A e \in delta.files : e.kind = "renamed" => old[e.previous] = new[e.path]
      /\ InScope = {p \in DOMAIN new : p \notin DOMAIN old \/ old[p] # new[p]}

=============================================================================
