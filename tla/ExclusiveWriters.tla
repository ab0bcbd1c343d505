--------------------------- MODULE ExclusiveWriters ---------------------------
(***************************************************************************)
(* Watcher daemons that share one index: each acquires the writer lock in  *)
(* start, runs a transaction per processed batch while it is running, and  *)
(* releases the lock in stop (packages/watcher/src/daemon.ts).  The lock   *)
(* is the only thing that keeps two of them apart: the transaction never   *)
(* looks at it.                                                            *)
(*                                                                         *)
(* Hazard "stop" lets stop run while a batch is in flight; the watch       *)
(* command of the CLI awaits the batch first.                              *)
(***************************************************************************)
EXTENDS WriterLock, IndexTransactions

ASSUME ExclusiveWritersAssumption ==
  /\ Writers = Instances
  /\ \A i, j \in Instances : PidOf[i] = PidOf[j] => i = j

vars == <<lockVars, txVars>>

Init == LockInit /\ TxInit

\* start: acquire, and running becomes true.
Start(i) == AcquireStep(i) /\ UNCHANGED txVars

\* (mutant: running is not looked at)
ProcessBatchAnyway(i) == ReadAndDecide(i) /\ UNCHANGED lockVars

\* processPendingBatch returns unless running; then applier or reconciler.
ProcessBatch(i) ==
  /\ lk[i] = "held"
  /\ ReadAndDecide(i)
  /\ UNCHANGED lockVars

CommitBatch(i) == CommitStep(i) /\ UNCHANGED lockVars

\* stop: running becomes false, then the lock is released.
Stop(i) ==
  /\ "stop" \in Hazards \/ pc[i] = "idle"
  /\ BeginRelease(i)
  /\ UNCHANGED txVars

FinishStop(i) == RemoveLock(i) /\ UNCHANGED txVars

\* A crash takes the daemon's batch with it.
Crash(i) ==
  /\ CrashProcess(PidOf[i])
  /\ CrashWriter(i) \/ (pc[i] = "idle" /\ UNCHANGED txVars)

Restart(i) == RestartProcess(PidOf[i]) /\ UNCHANGED txVars

LockAges == Age /\ UNCHANGED txVars

Recover == \E f \in Writers \X StageNames : RecoverStaged(f) /\ UNCHANGED lockVars

Next ==
  \/ \E i \in Instances :
       \/ Start(i) \/ ProcessBatch(i) \/ CommitBatch(i) \/ Stop(i)
       \/ FinishStop(i) \/ Crash(i) \/ Restart(i)
  \/ LockAges
  \/ Recover

Spec == Init /\ [][Next]_vars

-----------------------------------------------------------------------------
(* Properties.                                                              *)

\* Lock and transactions stay in their types: what is published is a whole
\* state, tombstones included.
TypeOK == LockTypeOK /\ TxTypeOK

Exclusively == INSTANCE IndexTransactions WITH Exclusive <- TRUE

\* A transaction is in progress only in a daemon that holds the lock, so no
\* two of them overlap: the daemons implement the transactions of a single
\* exclusive writer.
SingleWriterSpec == Exclusively!TxSpec

\* No committed state loses a tombstone an earlier one had: deletion history
\* is retained whatever the daemons do.
TombstonesRetained ==
  [][committed.tombstones \subseteq committed'.tombstones]_committed

=============================================================================
