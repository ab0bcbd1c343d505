------------------------------ MODULE WriterLock ------------------------------
(***************************************************************************)
(* The writer lock of a local index (packages/watcher/src/lock.ts).        *)
(*                                                                         *)
(* One instance is one IndexWriterLock object, owned by one watcher daemon *)
(* and living in the process PidOf[i].  The lock is the file writer.lock   *)
(* in the index directory; every access to it is one await of the code, so *)
(* between two of them another process may run.  Nothing else protects the *)
(* committed index state from a second writer.                             *)
(*                                                                         *)
(* Hazards names what the environment may do: acquire calls that overlap   *)
(* ("race"), and a process that outlives the staleness threshold of the    *)
(* lock file it owns ("slow").                                             *)
(***************************************************************************)
EXTENDS Naturals

CONSTANTS
  Instances,  \* the IndexWriterLock objects
  PidOf,      \* the process each of them lives in
  NoFile,     \* the absence of writer.lock
  Hazards     \* the subset of {"race", "slow", "stop"} the environment shows

Pids == {PidOf[i] : i \in Instances}

\* creator identifies the inode: what its creator writes later goes to this
\* file and to no other.  A file that is not complete is the empty file that
\* exists between the creation and the write of the metadata, and every
\* content that does not parse.  stale: createdAt is 30 s old or more.
LockFile == [creator : Instances, complete : BOOLEAN, stale : BOOLEAN]

ASSUME WriterLockAssumption ==
  /\ PidOf \in [Instances -> Pids]
  /\ NoFile \notin LockFile
  /\ Hazards \subseteq {"race", "slow", "stop"}

VARIABLES
  lockFile,  \* writer.lock
  lk,        \* where each instance is in acquire and release
  alive      \* which processes run

lockVars == <<lockFile, lk, alive>>

Acquiring == {"reading", "purging", "creating", "writing"}

LockTypeOK ==
  /\ lockFile \in LockFile \cup {NoFile}
  /\ lk \in [Instances -> Acquiring \cup {"idle", "held", "releasing"}]
  /\ alive \in [Pids -> BOOLEAN]

LockInit ==
  /\ lockFile = NoFile
  /\ lk = [i \in Instances |-> "idle"]
  /\ alive = [p \in Pids |-> TRUE]

Move(i, from, to) ==
  /\ lk[i] = from
  /\ lk' = [lk EXCEPT ![i] = to]

-----------------------------------------------------------------------------
(* What acquire decides from the file it has read.                          *)

OwnerPid == PidOf[lockFile.creator]

Unreadable == lockFile # NoFile /\ ~lockFile.complete
Readable   == lockFile # NoFile /\ lockFile.complete

\* Re-acquisition by the same process: no age and no liveness check.
OwnedByProcessOf(i) == Readable /\ OwnerPid = PidOf[i]

\* The lock is respected while it is young and its process answers kill 0.
ActiveFor(i) ==
  /\ Readable /\ OwnerPid # PidOf[i]
  /\ ~lockFile.stale /\ alive[OwnerPid]

\* (mutant: neither the age nor the owner's process is looked at)
ClearableAnyway(i) == Unreadable \/ (Readable /\ OwnerPid # PidOf[i])

\* Anything else that exists is cleared: the age alone is enough, whether
\* or not the owner still runs.
ClearableBy(i) ==
  \/ Unreadable
  \/ Readable /\ OwnerPid # PidOf[i] /\ (lockFile.stale \/ ~alive[OwnerPid])

-----------------------------------------------------------------------------
(* acquire                                                                  *)

BeginAcquire(i) ==
  /\ alive[PidOf[i]]
  /\ "race" \in Hazards \/ \A j \in Instances : lk[j] \notin Acquiring
  /\ Move(i, "idle", "reading")
  /\ UNCHANGED <<lockFile, alive>>

FindAbsent(i) ==
  /\ lockFile = NoFile
  /\ Move(i, "reading", "creating")
  /\ UNCHANGED <<lockFile, alive>>

Readopt(i) ==
  /\ OwnedByProcessOf(i)
  /\ Move(i, "reading", "held")
  /\ UNCHANGED <<lockFile, alive>>

\* (mutant: the file is removed before the error is thrown)
RejectAndRemove(i) ==
  /\ ActiveFor(i)
  /\ Move(i, "reading", "idle")
  /\ lockFile' = NoFile
  /\ UNCHANGED alive

Reject(i) ==
  /\ ActiveFor(i)
  /\ Move(i, "reading", "idle")
  /\ UNCHANGED <<lockFile, alive>>

FindClearable(i) ==
  /\ ClearableBy(i)
  /\ Move(i, "reading", "purging")
  /\ UNCHANGED <<lockFile, alive>>

\* rm(force) by path: whatever file has the name by now.
Purge(i) ==
  /\ Move(i, "purging", "creating")
  /\ lockFile' = NoFile
  /\ UNCHANGED alive

\* writeFile with flag wx creates the file first ...
Create(i) ==
  /\ lockFile = NoFile
  /\ Move(i, "creating", "writing")
  /\ lockFile' = [creator |-> i, complete |-> FALSE, stale |-> FALSE]
  /\ UNCHANGED alive

\* ... or fails with EEXIST, which acquire passes on ...
CreateExists(i) ==
  /\ lockFile # NoFile
  /\ Move(i, "creating", "idle")
  /\ UNCHANGED <<lockFile, alive>>

\* ... and then writes the metadata, to the inode it opened.
WriteMetadata(i) ==
  /\ Move(i, "writing", "held")
  /\ lockFile' = IF Unreadable /\ lockFile.creator = i
                   THEN [lockFile EXCEPT !.complete = TRUE] ELSE lockFile
  /\ UNCHANGED alive

-----------------------------------------------------------------------------
(* release: rm(force) of the path, whoever's file it is by then.            *)

BeginRelease(i) ==
  /\ Move(i, "held", "releasing")
  /\ UNCHANGED <<lockFile, alive>>

RemoveLock(i) ==
  /\ Move(i, "releasing", "idle")
  /\ lockFile' = NoFile
  /\ UNCHANGED alive

-----------------------------------------------------------------------------
(* The environment.                                                         *)

\* A process never lives with a lock file of its own past the threshold.
InTime ==
  lockFile # NoFile /\ lockFile.stale => ~alive[PidOf[lockFile.creator]]

Age ==
  /\ lockFile # NoFile /\ ~lockFile.stale
  /\ lockFile' = [lockFile EXCEPT !.stale = TRUE]
  /\ UNCHANGED <<lk, alive>>
  /\ "slow" \in Hazards \/ InTime'

CrashProcess(p) ==
  /\ alive[p]
  /\ alive' = [alive EXCEPT ![p] = FALSE]
  /\ lk' = [i \in Instances |-> IF PidOf[i] = p THEN "idle" ELSE lk[i]]
  /\ UNCHANGED lockFile

\* A new process runs a watcher; it may get the pid of the dead one.
RestartProcess(p) ==
  /\ ~alive[p]
  /\ alive' = [alive EXCEPT ![p] = TRUE]
  /\ UNCHANGED <<lockFile, lk>>
  /\ "slow" \in Hazards \/ InTime'

AcquireStep(i) ==
  \/ BeginAcquire(i) \/ FindAbsent(i) \/ Readopt(i) \/ Reject(i)
  \/ FindClearable(i) \/ Purge(i)
  \/ Create(i) \/ CreateExists(i) \/ WriteMetadata(i)

LockNext ==
  \/ \E i \in Instances : AcquireStep(i) \/ BeginRelease(i) \/ RemoveLock(i)
  \/ \E p \in Pids : CrashProcess(p) \/ RestartProcess(p)
  \/ Age

LockSpec == LockInit /\ [][LockNext]_lockVars

-----------------------------------------------------------------------------
(* Properties.                                                              *)

\* At most one instance has acquired the lock and not begun to release it:
\* the one exclusive writer of docs/architecture/local-index.md.
MutualExclusion ==
  \A i, j \in Instances : lk[i] = "held" /\ lk[j] = "held" => i = j

\* While an instance holds the lock, writer.lock is on disk, readable, young
\* and names the holder's process, so the ownership is inspectable and the
\* next acquire call is going to respect it.
HolderOnDisk ==
  \A i \in Instances : lk[i] = "held" =>
    Readable /\ OwnerPid = PidOf[i] /\ ~lockFile.stale

=============================================================================
