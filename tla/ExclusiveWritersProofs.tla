----------------------- MODULE ExclusiveWritersProofs -----------------------
(***************************************************************************)
(* The watcher daemons and their lock together keep the promise of         *)
(* CommittedIndex: in the calm environment, and when stop waits for the    *)
(* batch in flight, the lock does for the transactions what Exclusive      *)
(* assumes, for every number of daemons.                                   *)
(***************************************************************************)
EXTENDS ExclusiveWriters, WriterLockProofs, IndexTransactionsProofs

OrderlyEnvironment == CalmEnvironment /\ "stop" \notin Hazards

\* A transaction is in progress only while its daemon holds the lock.
HeldWhileOpen == \A i \in Instances : pc[i] # "idle" => lk[i] = "held"

WritersInv == LockInv /\ HeldWhileOpen /\ ExclusiveInv

\* Initially nobody holds the lock and no transaction is open.
LEMMA InitWritersInv == Init => WritersInv
<1>1. Init => HeldWhileOpen
  BY ExclusiveWritersAssumption DEF Init, TxInit, HeldWhileOpen
<1> QED
  BY <1>1, LockInitInv, InitExclusiveInv DEF Init, WritersInv

\* Each step of the composition is a step of the lock or leaves it alone ...
LEMMA StepOfLock ==
  ASSUME [Next]_vars
  PROVE  [LockNext]_lockVars
<1> USE DEF LockNext, Pids
<1>1. ASSUME NEW i \in Instances, Start(i) \/ Stop(i) \/ FinishStop(i)
      PROVE  LockNext
  BY <1>1 DEF Start, Stop, FinishStop
<1>2. ASSUME NEW i \in Instances, Crash(i) \/ Restart(i)
      PROVE  LockNext
  BY <1>2 DEF Crash, Restart
<1>3. ASSUME NEW i \in Instances, ProcessBatch(i) \/ CommitBatch(i)
      PROVE  UNCHANGED lockVars
  BY <1>3 DEF ProcessBatch, CommitBatch
<1> QED
  BY <1>1, <1>2, <1>3 DEF Next, vars, LockAges, Recover

\* ... and a step of the transactions or leaves those alone.
LEMMA StepOfTransactions ==
  ASSUME [Next]_vars
  PROVE  [TxNext]_txVars
<1> USE ExclusiveWritersAssumption DEF TxNext
<1>1. ASSUME NEW i \in Instances,
             Start(i) \/ Stop(i) \/ FinishStop(i) \/ Restart(i)
      PROVE  UNCHANGED txVars
  BY <1>1 DEF Start, Stop, FinishStop, Restart
<1>2. ASSUME NEW i \in Instances, ProcessBatch(i) \/ CommitBatch(i) \/ Crash(i)
      PROVE  [TxNext]_txVars
  BY <1>2 DEF ProcessBatch, CommitBatch, Crash
<1> QED
  BY <1>1, <1>2 DEF Next, vars, LockAges, Recover

\* A holder keeps the lock until it stops or crashes, and neither happens to
\* the lock of a daemon whose transaction goes on.
LEMMA NextHeldWhileOpen ==
  ASSUME OrderlyEnvironment, WritersInv, [Next]_vars
  PROVE  HeldWhileOpen'
<1> USE ExclusiveWritersAssumption
<1> USE DEF WritersInv, HeldWhileOpen, LockInv, LockTypeOK, ExclusiveInv, AtomicInv,
            TypeInv, TxTypeOK, Move, Settle, Goto, InTry, Open
<1>1. ASSUME NEW i \in Instances, Start(i) PROVE HeldWhileOpen'
  BY <1>1 DEF Start, AcquireStep, BeginAcquire, FindAbsent, Readopt, Reject,
              FindClearable, Purge, Create, CreateExists, WriteMetadata, txVars
<1>2. ASSUME NEW i \in Instances, ProcessBatch(i) PROVE HeldWhileOpen'
  BY <1>2 DEF ProcessBatch, ReadAndDecide, lockVars
<1>3. ASSUME NEW i \in Instances, CommitBatch(i) PROVE HeldWhileOpen'
  BY <1>3 DEF CommitBatch, CommitStep, Prepare, FailUnstaged, CreateStaged,
              StagedExists, WriteStaged, Validate, Rename, FailStaged, Cleanup,
              lockVars
<1>4. ASSUME NEW i \in Instances, Stop(i) PROVE HeldWhileOpen'
  BY <1>4 DEF OrderlyEnvironment, Stop, BeginRelease, txVars
<1>5. ASSUME NEW i \in Instances, FinishStop(i) PROVE HeldWhileOpen'
  BY <1>5 DEF FinishStop, RemoveLock, txVars
<1>6. ASSUME NEW i \in Instances, Crash(i) PROVE HeldWhileOpen'
  BY <1>6 DEF Crash, CrashProcess, CrashWriter, txVars
<1>7. ASSUME NEW i \in Instances, Restart(i) PROVE HeldWhileOpen'
  BY <1>7 DEF Restart, RestartProcess, txVars
<1>8. CASE LockAges
  BY <1>8 DEF LockAges, Age, txVars
<1>9. CASE Recover
  BY <1>9 DEF Recover, RecoverStaged, lockVars
<1>10. CASE UNCHANGED vars
  BY <1>10 DEF vars, lockVars, txVars
<1> QED
  BY <1>1, <1>2, <1>3, <1>4, <1>5, <1>6, <1>7, <1>8, <1>9, <1>10 DEF Next

\* A daemon that opens a transaction holds the lock, so no other one does.
LEMMA LockSerializes ==
  ASSUME OrderlyEnvironment, WritersInv, [Next]_vars
  PROVE  [TxNext /\ OpensAlone]_txVars
<1>1. [TxNext]_txVars
  BY StepOfTransactions
<1>2. ASSUME TxNext, NEW w \in Writers, pc[w] = "idle", pc'[w] # "idle",
             NEW v \in Writers
      PROVE  pc[v] = "idle"
  <2>1. HeldWhileOpen'
    BY NextHeldWhileOpen
  <2>2. lk'[w] = "held"
    BY <1>2, <2>1, ExclusiveWritersAssumption DEF HeldWhileOpen
  <2>3. lk[w] = "held" /\ MutualExclusion
    <3>1. PICK i \in Instances : ProcessBatch(i) \/ CommitBatch(i) \/ Crash(i)
      BY <1>2 DEF Next, vars, txVars, Start, Stop, FinishStop, Restart, LockAges,
                  Recover, RecoverStaged
    <3>2. lk[w] = "held"
      BY <1>2, <2>2, <3>1, ExclusiveWritersAssumption
         DEF ProcessBatch, CommitBatch, lockVars, Crash, CrashProcess, WritersInv,
             LockInv, LockTypeOK
    <3>3. MutualExclusion
      BY DEF WritersInv, LockInv, OnDiskInHand, InHand, MutualExclusion,
             OrderlyEnvironment, CalmEnvironment
    <3> QED
      BY <3>2, <3>3
  <2> QED
    BY <1>2, <2>3, ExclusiveWritersAssumption
       DEF WritersInv, HeldWhileOpen, MutualExclusion
<1> QED
  BY <1>1, <1>2 DEF OpensAlone

\* The invariant of the composition is preserved by every step.
LEMMA NextWritersInv ==
  ASSUME OrderlyEnvironment, WritersInv, [Next]_vars
  PROVE  WritersInv'
<1>1. LockInv'
  BY StepOfLock, LockNextKeepsInv DEF WritersInv, OrderlyEnvironment
<1>2. ExclusiveInv'
  BY LockSerializes, NextExclusiveInv DEF WritersInv
<1> QED
  BY <1>1, <1>2, NextHeldWhileOpen DEF WritersInv

\* In an orderly environment a transaction is open only in the one daemon
\* that holds the writer lock, and the transactions are exclusive.
THEOREM WritersInvariant ==
  ASSUME OrderlyEnvironment
  PROVE  Spec => []WritersInv
<1>1. Init => WritersInv
  BY InitWritersInv
<1>2. WritersInv /\ [Next]_vars => WritersInv'
  BY NextWritersInv
<1> QED
  BY <1>1, <1>2, PTL DEF Spec

\* The evidence of an acknowledged removal survives every later transaction
\* of every daemon.
THEOREM WritersKeepEvidence ==
  ASSUME OrderlyEnvironment
  PROVE  Spec => []AckedEvidenceKept
<1>1. WritersInv => AckedEvidenceKept
  BY DEF WritersInv, ExclusiveInv
<1> QED
  BY <1>1, WritersInvariant, PTL

\* No committed state loses a tombstone an earlier one had.
THEOREM WritersRetainTombstones ==
  ASSUME OrderlyEnvironment
  PROVE  Spec => TombstonesRetained
<1>1. WritersInv /\ [Next]_vars =>
        [committed.tombstones \subseteq committed'.tombstones]_committed
  BY StepOfTransactions, RenamePublishes, OthersLeaveCommitted
     DEF WritersInv, txVars
<1> QED
  BY <1>1, WritersInvariant, PTL DEF Spec, TombstonesRetained

\* The daemons and their lock implement the abstract index.
THEOREM WritersImplementCommittedIndex ==
  ASSUME OrderlyEnvironment
  PROVE  Spec => CommittedIndexSpec
<1>1. Init => CI!Init
  BY DEF Init, TxInit, EmptyState, CI!Init
<1>2. WritersInv /\ [Next]_vars =>
        [CI!Next]_<<committed.records, committed.tombstones>>
  BY StepOfTransactions, StepPublishesOrStutters DEF WritersInv
<1> QED
  BY <1>1, <1>2, WritersInvariant, PTL DEF Spec, CommittedIndexSpec, CI!Spec

\* Lock and transactions stay in their types.
THEOREM WritersTypeCorrect ==
  ASSUME OrderlyEnvironment
  PROVE  Spec => []TypeOK
<1>1. WritersInv => TypeOK
  BY DEF WritersInv, LockInv, ExclusiveInv, AtomicInv, TypeInv, TypeOK
<1> QED
  BY <1>1, WritersInvariant, PTL

-----------------------------------------------------------------------------
(* The transactions of a single exclusive writer do what these do: only the *)
(* start of a transaction is told that no other one is open.                *)

\* The constant Exclusive is looked at nowhere else.
LEMMA SameSteps ==
  ASSUME NEW w \in Writers
  PROVE  /\ CommitStep(w) => Exclusively!CommitStep(w)
         /\ CrashWriter(w) => Exclusively!CrashWriter(w)
         /\ \A n \in StageNames : RecoverStaged(<<w, n>>) => Exclusively!RecoverStaged(<<w, n>>)
         /\ ReadAndDecide(w) /\ (\A v \in Writers : pc[v] = "idle") =>
              Exclusively!ReadAndDecide(w)
<1> USE DEF Goto, Exclusively!Goto, locals, Exclusively!locals, Staged, Exclusively!Staged,
            StageFile, Exclusively!StageFile, InTry, Exclusively!InTry
<1> USE DEF Settle, Exclusively!Settle, EmptyInput, Exclusively!EmptyInput, EmptyState,
            Exclusively!EmptyState, AnyName, Exclusively!AnyName, CurrentTx, Exclusively!CurrentTx
<1>1. Prepare(w) => Exclusively!Prepare(w)
  BY DEF Prepare, Exclusively!Prepare, CI!Evidence, Exclusively!CI!Evidence
<1>2. FailUnstaged(w) => Exclusively!FailUnstaged(w)
  BY DEF FailUnstaged, Exclusively!FailUnstaged
<1>3. CreateStaged(w) => Exclusively!CreateStaged(w)
  BY DEF CreateStaged, Exclusively!CreateStaged
<1>4. StagedExists(w) => Exclusively!StagedExists(w)
  BY DEF StagedExists, Exclusively!StagedExists
<1>5. WriteStaged(w) => Exclusively!WriteStaged(w)
  BY DEF WriteStaged, Exclusively!WriteStaged
<1>6. Validate(w) => Exclusively!Validate(w)
  BY DEF Validate, Exclusively!Validate
<1>7. Rename(w) => Exclusively!Rename(w)
  BY DEF Rename, Exclusively!Rename
<1>8. FailStaged(w) => Exclusively!FailStaged(w)
  BY DEF FailStaged, Exclusively!FailStaged
<1>9. Cleanup(w) => Exclusively!Cleanup(w)
  BY DEF Cleanup, Exclusively!Cleanup
<1>10. CrashWriter(w) => Exclusively!CrashWriter(w)
  BY DEF CrashWriter, Exclusively!CrashWriter
<1>11. ASSUME NEW n \in StageNames
       PROVE  RecoverStaged(<<w, n>>) => Exclusively!RecoverStaged(<<w, n>>)
  BY DEF RecoverStaged, Exclusively!RecoverStaged
<1>12. ReadAndDecide(w) /\ (\A v \in Writers : pc[v] = "idle") => Exclusively!ReadAndDecide(w)
  BY DEF ReadAndDecide, Exclusively!ReadAndDecide, CI!Records, Exclusively!CI!Records,
         CI!Vanished, Exclusively!CI!Vanished
<1> QED
  BY <1>1, <1>2, <1>3, <1>4, <1>5, <1>6, <1>7, <1>8, <1>9, <1>10, <1>11, <1>12
     DEF CommitStep, Exclusively!CommitStep

\* The writer lock makes the daemons a single exclusive writer: start,
\* processPendingBatch and stop implement transactions that never overlap.
THEOREM WritersSerialize ==
  ASSUME OrderlyEnvironment
  PROVE  Spec => SingleWriterSpec
<1>1. Init => Exclusively!TxInit
  BY DEF Init, TxInit, Exclusively!TxInit, EmptyState, Exclusively!EmptyState,
         EmptyInput, Exclusively!EmptyInput, AnyName, Exclusively!AnyName
<1>2. WritersInv /\ [Next]_vars => [Exclusively!TxNext]_(Exclusively!txVars)
  <2> SUFFICES ASSUME WritersInv, [Next]_vars
               PROVE  [Exclusively!TxNext]_(Exclusively!txVars)
    OBVIOUS
  <2>1. [TxNext /\ OpensAlone]_txVars
    BY LockSerializes
  <2>2. CASE UNCHANGED txVars
    BY <2>2 DEF txVars, Exclusively!txVars
  <2>3. ASSUME NEW w \in Writers, OpensAlone, ReadAndDecide(w)
        PROVE  \A v \in Writers : pc[v] = "idle"
    <3>1. pc[w] = "idle" /\ pc'[w] # "idle"
      BY <2>3 DEF ReadAndDecide, Goto, WritersInv, ExclusiveInv, AtomicInv, TypeInv, TxTypeOK
    <3> QED
      BY <2>3, <3>1 DEF OpensAlone
  <2>4. CASE TxNext /\ OpensAlone
    BY <2>3, <2>4, SameSteps DEF TxNext, Exclusively!TxNext
  <2> QED
    BY <2>1, <2>2, <2>4
<1> QED
  BY <1>1, <1>2, WritersInvariant, PTL DEF Spec, SingleWriterSpec, Exclusively!TxSpec

=============================================================================
