--------------------------- MODULE WriterLockProofs ---------------------------
(***************************************************************************)
(* The writer lock excludes a second writer when acquire calls do not      *)
(* overlap and no process outlives the age threshold of its own lock file, *)
(* for every number of instances, crashes, restarts and pid reuse          *)
(* included.                                                               *)
(***************************************************************************)
EXTENDS WriterLock, TLAPS

\* The environment the theorem is about: neither hazard, one lock object per
\* process.
CalmEnvironment ==
  /\ "race" \notin Hazards
  /\ "slow" \notin Hazards
  /\ \A i, j \in Instances : PidOf[i] = PidOf[j] => i = j

\* Everything but a single acquire call is at rest.
SerialAcquire ==
  \A i, j \in Instances : lk[i] \in Acquiring /\ lk[j] \in Acquiring => i = j

InHand == {"held", "releasing"}

\* Once an acquire call has decided to replace the file, nobody has the lock
\* in hand, and the file it creates stays its own until it is written.
AcquirerAlone ==
  \A i \in Instances :
    /\ lk[i] \in {"purging", "creating", "writing"} =>
         \A j \in Instances : lk[j] \notin InHand
    /\ lk[i] = "writing" => Unreadable /\ lockFile.creator = i /\ ~lockFile.stale

\* Only processes that run are anywhere in acquire or release.
RunnersAlive == \A i \in Instances : lk[i] # "idle" => alive[PidOf[i]]

\* HolderOnDisk until the file is removed.
OnDiskInHand ==
  \A i \in Instances : lk[i] \in InHand =>
    Readable /\ OwnerPid = PidOf[i] /\ ~lockFile.stale

LockInv ==
  /\ LockTypeOK
  /\ SerialAcquire
  /\ AcquirerAlone
  /\ RunnersAlive
  /\ InTime
  /\ OnDiskInHand

-----------------------------------------------------------------------------
(* The invariant is inductive.                                              *)

\* The initial state satisfies the invariant.
LEMMA LockInitInv == LockInit => LockInv
<1> SUFFICES ASSUME LockInit PROVE LockInv
  OBVIOUS
<1> USE DEF LockInit
<1>1. LockTypeOK
  BY DEF LockTypeOK
<1>2. SerialAcquire
  BY DEF SerialAcquire, Acquiring
<1>3. AcquirerAlone
  BY DEF AcquirerAlone
<1>4. RunnersAlive
  BY DEF RunnersAlive
<1>5. InTime
  BY DEF InTime
<1>6. OnDiskInHand
  BY DEF OnDiskInHand, InHand
<1> QED
  BY <1>1, <1>2, <1>3, <1>4, <1>5, <1>6 DEF LockInv

\* Every step of acquire preserves it.
LEMMA AcquireKeepsInv ==
  ASSUME CalmEnvironment, LockInv, NEW i \in Instances, AcquireStep(i)
  PROVE  LockInv'
<1> USE WriterLockAssumption
<1> USE DEF LockInv, LockTypeOK, LockFile, Acquiring, Move, InHand
<1>1. CASE BeginAcquire(i)
  <2> USE <1>1 DEF BeginAcquire, CalmEnvironment
  <2>1. LockTypeOK'
    OBVIOUS
  <2>2. SerialAcquire'
    BY DEF SerialAcquire
  <2>3. AcquirerAlone' /\ OnDiskInHand'
    BY DEF AcquirerAlone, OnDiskInHand, Readable, Unreadable, OwnerPid
  <2>4. RunnersAlive' /\ InTime'
    BY DEF RunnersAlive, InTime
  <2> QED
    BY <2>1, <2>2, <2>3, <2>4
<1>2. CASE FindAbsent(i)
  <2> USE <1>2 DEF FindAbsent
  <2>1. LockTypeOK' /\ SerialAcquire'
    BY DEF SerialAcquire
  <2>2. AcquirerAlone' /\ OnDiskInHand'
    BY DEF AcquirerAlone, OnDiskInHand, Readable, Unreadable, OwnerPid
  <2>3. RunnersAlive' /\ InTime'
    BY DEF RunnersAlive, InTime
  <2> QED
    BY <2>1, <2>2, <2>3
<1>3. CASE Readopt(i)
  <2> USE <1>3 DEF Readopt, OwnedByProcessOf
  <2>1. LockTypeOK' /\ SerialAcquire'
    BY DEF SerialAcquire
  <2>2. ~lockFile.stale
    BY DEF RunnersAlive, InTime, Readable, OwnerPid
  <2>3. AcquirerAlone' /\ OnDiskInHand'
    BY <2>2 DEF AcquirerAlone, SerialAcquire, OnDiskInHand, Readable, Unreadable, OwnerPid
  <2>4. RunnersAlive' /\ InTime'
    BY DEF RunnersAlive, InTime
  <2> QED
    BY <2>1, <2>3, <2>4
<1>4. CASE Reject(i)
  <2> USE <1>4 DEF Reject
  <2>1. LockTypeOK' /\ SerialAcquire'
    BY DEF SerialAcquire
  <2>2. AcquirerAlone' /\ OnDiskInHand'
    BY DEF AcquirerAlone, OnDiskInHand, Readable, Unreadable, OwnerPid
  <2>3. RunnersAlive' /\ InTime'
    BY DEF RunnersAlive, InTime
  <2> QED
    BY <2>1, <2>2, <2>3
<1>5. CASE FindClearable(i)
  <2> USE <1>5 DEF FindClearable
  <2>1. LockTypeOK' /\ SerialAcquire'
    BY DEF SerialAcquire
  <2>2. \A j \in Instances : lk[j] \notin InHand
    BY DEF ClearableBy, OnDiskInHand, RunnersAlive, Readable, Unreadable, OwnerPid
  <2>3. AcquirerAlone' /\ OnDiskInHand'
    BY <2>2 DEF AcquirerAlone, OnDiskInHand, Readable, Unreadable, OwnerPid
  <2>4. RunnersAlive' /\ InTime'
    BY DEF RunnersAlive, InTime
  <2> QED
    BY <2>1, <2>3, <2>4
<1>6. CASE Purge(i)
  <2> USE <1>6 DEF Purge
  <2>1. LockTypeOK' /\ SerialAcquire'
    BY DEF SerialAcquire
  <2>2. AcquirerAlone' /\ OnDiskInHand'
    BY DEF AcquirerAlone, SerialAcquire, OnDiskInHand, Readable, Unreadable, OwnerPid
  <2>3. RunnersAlive' /\ InTime'
    BY DEF RunnersAlive, InTime
  <2> QED
    BY <2>1, <2>2, <2>3
<1>7. CASE Create(i)
  <2> USE <1>7 DEF Create
  <2>1. LockTypeOK' /\ SerialAcquire'
    BY DEF SerialAcquire
  <2>2. lockFile' # NoFile
    <3>1. lockFile' \in LockFile
      OBVIOUS
    <3> QED
      BY <3>1, WriterLockAssumption
  <2>3. AcquirerAlone' /\ OnDiskInHand'
    BY <2>2 DEF AcquirerAlone, SerialAcquire, OnDiskInHand, Readable, Unreadable, OwnerPid
  <2>4. RunnersAlive' /\ InTime'
    BY DEF RunnersAlive, InTime
  <2> QED
    BY <2>1, <2>3, <2>4
<1>8. CASE CreateExists(i)
  <2> USE <1>8 DEF CreateExists
  <2>1. LockTypeOK' /\ SerialAcquire'
    BY DEF SerialAcquire
  <2>2. AcquirerAlone' /\ OnDiskInHand'
    BY DEF AcquirerAlone, OnDiskInHand, Readable, Unreadable, OwnerPid
  <2>3. RunnersAlive' /\ InTime'
    BY DEF RunnersAlive, InTime
  <2> QED
    BY <2>1, <2>2, <2>3
<1>9. CASE WriteMetadata(i)
  <2> USE <1>9 DEF WriteMetadata
  <2>1. Unreadable /\ lockFile.creator = i /\ ~lockFile.stale
    BY DEF AcquirerAlone
  <2>2. lockFile' = [lockFile EXCEPT !.complete = TRUE]
    BY <2>1
  <2>3. LockTypeOK' /\ SerialAcquire'
    BY <2>1, <2>2 DEF SerialAcquire, Unreadable
  <2>4. /\ Readable' /\ OwnerPid' = PidOf[i] /\ ~lockFile'.stale
        /\ lockFile'.creator = i
    BY <2>1, <2>2 DEF Readable, Unreadable, OwnerPid
  <2>5. \A j \in Instances :
          /\ j # i => lk'[j] \notin InHand
          /\ lk'[j] \notin {"purging", "creating", "writing"}
    BY DEF AcquirerAlone, SerialAcquire
  <2>6. AcquirerAlone' /\ OnDiskInHand'
    BY <2>4, <2>5 DEF AcquirerAlone, OnDiskInHand
  <2>7. RunnersAlive' /\ InTime'
    BY <2>4 DEF RunnersAlive, InTime
  <2> QED
    BY <2>3, <2>6, <2>7
<1> QED
  BY <1>1, <1>2, <1>3, <1>4, <1>5, <1>6, <1>7, <1>8, <1>9 DEF AcquireStep

\* So does every step of release.
LEMMA ReleaseKeepsInv ==
  ASSUME CalmEnvironment, LockInv, NEW i \in Instances,
         BeginRelease(i) \/ RemoveLock(i)
  PROVE  LockInv'
<1> USE WriterLockAssumption
<1> USE DEF LockInv, LockTypeOK, LockFile, Acquiring, Move, InHand
<1>1. CASE BeginRelease(i)
  <2> USE <1>1 DEF BeginRelease
  <2>1. LockTypeOK' /\ SerialAcquire'
    BY DEF SerialAcquire
  <2>2. AcquirerAlone' /\ OnDiskInHand'
    BY DEF AcquirerAlone, OnDiskInHand, Readable, Unreadable, OwnerPid
  <2>3. RunnersAlive' /\ InTime'
    BY DEF RunnersAlive, InTime
  <2> QED
    BY <2>1, <2>2, <2>3
<1>2. CASE RemoveLock(i)
  <2> USE <1>2 DEF RemoveLock
  <2>1. LockTypeOK' /\ SerialAcquire'
    BY DEF SerialAcquire
  <2>2. \A j \in Instances : lk[j] \in InHand => PidOf[j] = PidOf[i]
    BY DEF OnDiskInHand
  <2>3. \A j \in Instances : j # i => lk[j] \notin InHand
    BY <2>2 DEF CalmEnvironment
  <2>4. AcquirerAlone' /\ OnDiskInHand'
    BY <2>3 DEF AcquirerAlone, OnDiskInHand
  <2>5. RunnersAlive' /\ InTime'
    BY DEF RunnersAlive, InTime
  <2> QED
    BY <2>1, <2>4, <2>5
<1> QED
  BY <1>1, <1>2

\* And so does the environment: a crash, a restart under a pid that may have
\* been used before, the file growing old.
LEMMA EnvironmentKeepsInv ==
  ASSUME CalmEnvironment, LockInv,
         \/ \E p \in Pids : CrashProcess(p) \/ RestartProcess(p)
         \/ Age
  PROVE  LockInv'
<1> USE WriterLockAssumption
<1> USE DEF LockInv, LockTypeOK, LockFile, Acquiring, InHand
<1>1. ASSUME NEW p \in Pids, CrashProcess(p) PROVE LockInv'
  <2> USE <1>1 DEF CrashProcess
  <2>1. LockTypeOK'
    OBVIOUS
  <2>2. \A i \in Instances : lk'[i] # "idle" => lk'[i] = lk[i] /\ PidOf[i] # p
    OBVIOUS
  <2>3. SerialAcquire'
    BY <2>2 DEF SerialAcquire
  <2>4. AcquirerAlone' /\ OnDiskInHand'
    BY <2>2 DEF AcquirerAlone, OnDiskInHand, Readable, Unreadable, OwnerPid
  <2>5. RunnersAlive'
    BY <2>2 DEF RunnersAlive, Pids
  <2>6. InTime'
    <3> SUFFICES ASSUME lockFile # NoFile, lockFile.stale
                 PROVE  ~alive'[PidOf[lockFile.creator]]
      BY DEF InTime
    <3>1. ~alive[PidOf[lockFile.creator]] /\ PidOf[lockFile.creator] \in Pids
      BY DEF InTime
    <3> QED
      BY <3>1
  <2> QED
    BY <2>1, <2>3, <2>4, <2>5, <2>6
<1>2. ASSUME NEW p \in Pids, RestartProcess(p) PROVE LockInv'
  <2> USE <1>2 DEF RestartProcess
  <2>1. LockTypeOK' /\ SerialAcquire'
    BY DEF SerialAcquire
  <2>2. AcquirerAlone' /\ OnDiskInHand'
    BY DEF AcquirerAlone, OnDiskInHand, Readable, Unreadable, OwnerPid
  <2>3. RunnersAlive'
    BY DEF RunnersAlive, Pids
  <2>4. InTime'
    BY DEF CalmEnvironment
  <2> QED
    BY <2>1, <2>2, <2>3, <2>4
<1>3. CASE Age
  <2> USE <1>3 DEF Age
  <2>1. InTime'
    BY DEF CalmEnvironment
  <2>2. /\ lockFile \in LockFile
        /\ lockFile' \in LockFile
        /\ lockFile' # NoFile
        /\ lockFile'.creator = lockFile.creator
        /\ lockFile'.stale
    OBVIOUS
  <2>3. ~alive[PidOf[lockFile.creator]]
    BY <2>1, <2>2 DEF InTime
  <2>4. LockTypeOK' /\ SerialAcquire'
    BY <2>2 DEF SerialAcquire
  <2>5. \A j \in Instances : lk[j] \notin InHand /\ lk[j] # "writing"
    BY <2>3 DEF OnDiskInHand, AcquirerAlone, RunnersAlive, OwnerPid
  <2>6. AcquirerAlone' /\ OnDiskInHand'
    BY <2>5 DEF AcquirerAlone, OnDiskInHand
  <2>7. RunnersAlive'
    BY DEF RunnersAlive
  <2> QED
    BY <2>1, <2>4, <2>6, <2>7
<1> QED
  BY <1>1, <1>2, <1>3

\* A step that leaves the lock alone keeps its invariant.
LEMMA StutterKeepsInv ==
  ASSUME LockInv, UNCHANGED lockVars
  PROVE  LockInv'
BY DEF LockInv, LockTypeOK, SerialAcquire, AcquirerAlone, RunnersAlive, InTime,
       OnDiskInHand, Readable, Unreadable, OwnerPid, lockVars

\* Every step of the lock, and every step that leaves it alone, keeps it.
LEMMA LockNextKeepsInv ==
  ASSUME CalmEnvironment, LockInv, [LockNext]_lockVars
  PROVE  LockInv'
<1>1. ASSUME NEW i \in Instances, AcquireStep(i) PROVE LockInv'
  BY <1>1, AcquireKeepsInv
<1>2. ASSUME NEW i \in Instances, BeginRelease(i) \/ RemoveLock(i) PROVE LockInv'
  BY <1>2, ReleaseKeepsInv
<1>3. CASE \/ \E p \in Pids : CrashProcess(p) \/ RestartProcess(p)
           \/ Age
  BY <1>3, EnvironmentKeepsInv
<1>4. CASE UNCHANGED lockVars
  BY <1>4, StutterKeepsInv
<1> QED
  BY <1>1, <1>2, <1>3, <1>4 DEF LockNext

-----------------------------------------------------------------------------
(* The theorems.                                                            *)

\* In the calm environment the invariant holds of every reachable state.
THEOREM LockInvariant ==
  ASSUME CalmEnvironment
  PROVE  LockSpec => []LockInv
<1>1. LockInit => LockInv
  BY LockInitInv
<1>2. LockInv /\ [LockNext]_lockVars => LockInv'
  BY LockNextKeepsInv
<1> QED
  BY <1>1, <1>2, PTL DEF LockSpec

\* The lock's state is always one of the states the model names.
THEOREM LockTypeCorrect ==
  ASSUME CalmEnvironment
  PROVE  LockSpec => []LockTypeOK
<1>1. LockInv => LockTypeOK
  BY DEF LockInv
<1> QED
  BY <1>1, LockInvariant, PTL

\* What acquire and release establish: one exclusive writer.  Two holders
\* would both be named by the one file, hence live in the same process.
THEOREM LockExcludes ==
  ASSUME CalmEnvironment
  PROVE  LockSpec => []MutualExclusion
<1>1. LockInv => MutualExclusion
  BY DEF LockInv, OnDiskInHand, InHand, MutualExclusion, CalmEnvironment
<1> QED
  BY <1>1, LockInvariant, PTL

\* A holder's ownership stays inspectable, and respected by the next acquire.
THEOREM LockIsInspectable ==
  ASSUME CalmEnvironment
  PROVE  LockSpec => []HolderOnDisk
<1>1. LockInv => HolderOnDisk
  BY DEF LockInv, OnDiskInHand, InHand, HolderOnDisk
<1> QED
  BY <1>1, LockInvariant, PTL

=============================================================================
