----------------------- MODULE IndexTransactionsProofs -----------------------
(***************************************************************************)
(* Index transactions are atomic for any number of writers, whatever fails *)
(* or crashes and whatever recovery removes; they keep the promise of      *)
(* CommittedIndex when the environment admits one transaction at a time.   *)
(***************************************************************************)
EXTENDS IndexTransactions, TLAPS

-----------------------------------------------------------------------------
(* Types.                                                                   *)

\* A call in progress has an identity among TxIds.
OpenHasTx == \A w \in Writers : pc[w] # "idle" => started[w] >= 1

TypeInv == TxTypeOK /\ OpenHasTx

\* The locals of a call that is over are well typed.
LEMMA EmptyTypes ==
  EmptyState \in State /\ EmptyInput \in Input /\ AnyName \in StageNames
BY IndexTransactionsAssumption
   DEF EmptyState, EmptyInput, AnyName, State, Input, CI!Records

\* Removals leave tombstones and nothing else.
LEMMA EvidenceType ==
  ASSUME NEW R \in SUBSET Paths, NEW recs \in CI!Records, NEW tx \in TxIds
  PROVE  CI!Evidence(R, recs, tx) \subseteq CI!Tombstone
BY DEF CI!Evidence, CI!Tombstone, CI!Records

\* A call in progress names a transaction.
LEMMA CurrentTxType ==
  ASSUME TypeInv, NEW w \in Writers, pc[w] # "idle"
  PROVE  CurrentTx(w) \in TxIds
BY IndexTransactionsAssumption DEF TypeInv, OpenHasTx, TxTypeOK, CurrentTx, TxIds

\* The initial state is well typed.
LEMMA InitTypeInv == TxInit => TypeInv
BY EmptyTypes, IndexTransactionsAssumption DEF TxInit, TypeInv, TxTypeOK, OpenHasTx

\* What ending a call does to its locals.
LEMMA SettleType ==
  ASSUME TypeInv, NEW w \in Writers, Settle(w), UNCHANGED started
  PROVE  /\ pc' \in [Writers -> Open \cup {"idle"}]
         /\ started' \in [Writers -> 0 .. MaxTx]
         /\ name' \in [Writers -> StageNames]
         /\ new' \in [Writers -> Input]
         /\ plan' \in [Writers -> State]
         /\ OpenHasTx'
BY EmptyTypes DEF Settle, TypeInv, TxTypeOK, OpenHasTx

\* Types through the steps that start, plan and end a call.
LEMMA CallTypeInv ==
  ASSUME TypeInv, NEW w \in Writers,
         ReadAndDecide(w) \/ Prepare(w) \/ FailUnstaged(w) \/ CrashWriter(w)
  PROVE  TypeInv'
<1> USE IndexTransactionsAssumption
<1>1. CASE ReadAndDecide(w)
  <2> USE <1>1 DEF ReadAndDecide
  <2>1. PICK recs \in CI!Records :
          new' = [new EXCEPT ![w] =
            [records |-> recs, removed |-> CI!Vanished(committed.records, recs)]]
    OBVIOUS
  <2>2. [records |-> recs, removed |-> CI!Vanished(committed.records, recs)] \in Input
    BY DEF Input, CI!Vanished
  <2>3. new' \in [Writers -> Input]
    BY <2>1, <2>2 DEF TypeInv, TxTypeOK
  <2>4. started' \in [Writers -> 0 .. MaxTx] /\ OpenHasTx'
    BY DEF TypeInv, TxTypeOK, OpenHasTx, Goto
  <2> QED
    BY <2>3, <2>4 DEF TypeInv, TxTypeOK, Goto, Open
<1>2. CASE Prepare(w)
  <2> USE <1>2 DEF Prepare
  <2>1. committed \in State /\ new[w] \in Input /\ pc[w] # "idle"
    BY DEF TypeInv, TxTypeOK, Goto
  <2>2. CI!Evidence(new[w].removed, committed.records, CurrentTx(w))
          \subseteq CI!Tombstone
    BY <2>1, CurrentTxType, EvidenceType DEF State, Input
  <2>3. [records    |-> new[w].records,
         tombstones |-> committed.tombstones \cup
           CI!Evidence(new[w].removed, committed.records, CurrentTx(w))] \in State
    BY <2>1, <2>2 DEF State, Input
  <2>4. plan' \in [Writers -> State]
    BY <2>3 DEF TypeInv, TxTypeOK
  <2> QED
    BY <2>4 DEF TypeInv, TxTypeOK, OpenHasTx, Goto, Open
<1>3. CASE FailUnstaged(w)
  BY <1>3, SettleType DEF FailUnstaged, TypeInv, TxTypeOK
<1>4. CASE CrashWriter(w)
  <2>1. orphans' \subseteq Writers \X StageNames
    BY <1>4 DEF CrashWriter, StageFile, TypeInv, TxTypeOK
  <2> QED
    BY <1>4, <2>1, SettleType DEF CrashWriter, TypeInv, TxTypeOK
<1> QED
  BY <1>1, <1>2, <1>3, <1>4

\* Types through the steps on the staging file and the rename.
LEMMA StagingTypeInv ==
  ASSUME TypeInv, NEW w \in Writers,
         \/ CreateStaged(w) \/ StagedExists(w) \/ WriteStaged(w)
         \/ Validate(w) \/ FailStaged(w) \/ Rename(w) \/ Cleanup(w)
  PROVE  TypeInv'
<1> USE IndexTransactionsAssumption
<1> USE DEF TypeInv, TxTypeOK, OpenHasTx, Goto, Open, InTry, StageFile, locals
<1>1. CASE CreateStaged(w)
  BY <1>1 DEF CreateStaged
<1>2. CASE StagedExists(w)
  BY <1>2 DEF StagedExists
<1>3. CASE WriteStaged(w)
  BY <1>3 DEF WriteStaged
<1>4. CASE Validate(w)
  BY <1>4 DEF Validate
<1>5. CASE FailStaged(w)
  BY <1>5 DEF FailStaged
<1>6. CASE Rename(w)
  BY <1>6 DEF Rename
<1>7. CASE Cleanup(w)
  <2>1. /\ staging' \in [Writers \X StageNames -> {"none", "partial", "complete"}]
        /\ orphans' \subseteq Writers \X StageNames
        /\ acked' \subseteq CI!Tombstone
        /\ committed' \in State \cup {Corrupt}
    BY <1>7 DEF Cleanup, State
  <2> QED
    BY <1>7, <2>1, SettleType DEF Cleanup
<1> QED
  BY <1>1, <1>2, <1>3, <1>4, <1>5, <1>6, <1>7

\* The bound, types and identities hold of every step.
LEMMA NextTypeInv ==
  ASSUME TypeInv, [TxNext]_txVars
  PROVE  TypeInv'
<1>1. ASSUME NEW w \in Writers, ReadAndDecide(w) \/ CommitStep(w) \/ CrashWriter(w)
      PROVE  TypeInv'
  BY <1>1, CallTypeInv, StagingTypeInv DEF CommitStep
<1>2. ASSUME NEW f \in Writers \X StageNames, RecoverStaged(f)
      PROVE  TypeInv'
  BY <1>2 DEF RecoverStaged, TypeInv, TxTypeOK, OpenHasTx, locals
<1>3. CASE UNCHANGED txVars
  BY <1>3 DEF txVars, locals, TypeInv, TxTypeOK, OpenHasTx
<1> QED
  BY <1>1, <1>2, <1>3 DEF TxNext

\* Every reachable state of the transactions is well typed.
THEOREM TxTypeCorrect == TxSpec => []TxTypeOK
<1>1. TxInit => TypeInv
  BY InitTypeInv
<1>2. TypeInv /\ [TxNext]_txVars => TypeInv'
  BY NextTypeInv
<1>3. TypeInv => TxTypeOK
  BY DEF TypeInv
<1> QED
  BY <1>1, <1>2, <1>3, PTL DEF TxSpec

-----------------------------------------------------------------------------
(* Atomicity, for any number of concurrent writers.                         *)

\* A staging file that has been read back is whole until it is renamed; only
\* recovery may have removed it.
ReadBackIsWhole ==
  \A w \in Writers : pc[w] = "rename" => staging[StageFile(w)] # "partial"

AtomicInv == TypeInv /\ CommittedViewIsWhole /\ ReadBackIsWhole

\* Initially the committed view is the empty one.
LEMMA InitAtomicInv == TxInit => AtomicInv
<1> SUFFICES ASSUME TxInit PROVE AtomicInv
  OBVIOUS
<1>1. committed # Corrupt
  BY EmptyTypes, IndexTransactionsAssumption DEF TxInit
<1>2. ReadBackIsWhole
  BY DEF TxInit, ReadBackIsWhole
<1> QED
  BY <1>1, <1>2, InitTypeInv DEF AtomicInv, CommittedViewIsWhole

\* The one step that writes committed-state.json.
LEMMA RenameKeepsWhole ==
  ASSUME AtomicInv, NEW w \in Writers, Rename(w)
  PROVE  committed' = plan[w] /\ committed' # Corrupt
<1>1. staging[StageFile(w)] = "complete"
  BY DEF Rename, AtomicInv, ReadBackIsWhole, TypeInv, TxTypeOK, StageFile
<1>2. committed' = plan[w] /\ plan[w] \in State
  BY <1>1 DEF Rename, AtomicInv, TypeInv, TxTypeOK
<1> QED
  BY <1>2, IndexTransactionsAssumption

\* Every other step leaves it alone.
LEMMA OthersLeaveCommitted ==
  ASSUME TxNext, \A w \in Writers : ~Rename(w)
  PROVE  committed' = committed
BY DEF TxNext, CommitStep, ReadAndDecide, Prepare, FailUnstaged, CreateStaged,
       StagedExists, WriteStaged, Validate, FailStaged, Cleanup, CrashWriter,
       RecoverStaged

\* A staging file that was read back whole stays so until it is renamed or
\* removed: nobody else writes to it.
LEMMA NextReadBack ==
  ASSUME AtomicInv, TxNext
  PROVE  ReadBackIsWhole'
<1> USE DEF AtomicInv, TypeInv, TxTypeOK, ReadBackIsWhole, StageFile, Goto,
            Settle, InTry, Open
<1>1. ASSUME NEW w \in Writers, ReadAndDecide(w) PROVE ReadBackIsWhole'
  BY <1>1 DEF ReadAndDecide
<1>2. ASSUME NEW w \in Writers, Prepare(w) PROVE ReadBackIsWhole'
  BY <1>2 DEF Prepare
<1>3. ASSUME NEW w \in Writers, FailUnstaged(w) PROVE ReadBackIsWhole'
  BY <1>3 DEF FailUnstaged
<1>4. ASSUME NEW w \in Writers, CreateStaged(w) PROVE ReadBackIsWhole'
  <2>1. PICK n \in StageNames :
          /\ name' = [name EXCEPT ![w] = n]
          /\ staging' = [staging EXCEPT ![<<w, n>>] = "partial"]
    BY <1>4 DEF CreateStaged
  <2> SUFFICES ASSUME NEW v \in Writers, pc'[v] = "rename"
               PROVE  staging'[<<v, name'[v]>>] # "partial"
    OBVIOUS
  <2>2. v # w /\ pc[v] = "rename"
    BY <1>4 DEF CreateStaged
  <2>3. name'[v] = name[v] /\ <<v, name[v]>> # <<w, n>>
    BY <2>1, <2>2
  <2> QED
    BY <2>1, <2>2, <2>3
<1>5. ASSUME NEW w \in Writers, StagedExists(w) PROVE ReadBackIsWhole'
  BY <1>5 DEF StagedExists
<1>6. ASSUME NEW w \in Writers, WriteStaged(w) PROVE ReadBackIsWhole'
  BY <1>6 DEF WriteStaged, locals
<1>7. ASSUME NEW w \in Writers, Validate(w) PROVE ReadBackIsWhole'
  BY <1>7 DEF Validate, locals
<1>8. ASSUME NEW w \in Writers, Rename(w) PROVE ReadBackIsWhole'
  BY <1>8 DEF Rename, locals
<1>9. ASSUME NEW w \in Writers, FailStaged(w) PROVE ReadBackIsWhole'
  BY <1>9 DEF FailStaged, locals
<1>10. ASSUME NEW w \in Writers, Cleanup(w) PROVE ReadBackIsWhole'
  BY <1>10 DEF Cleanup
<1>11. ASSUME NEW w \in Writers, CrashWriter(w) PROVE ReadBackIsWhole'
  BY <1>11 DEF CrashWriter
<1>12. ASSUME NEW f \in Writers \X StageNames, RecoverStaged(f)
       PROVE  ReadBackIsWhole'
  BY <1>12 DEF RecoverStaged, locals
<1> QED
  BY <1>1, <1>2, <1>3, <1>4, <1>5, <1>6, <1>7, <1>8, <1>9, <1>10, <1>11, <1>12
     DEF TxNext, CommitStep

\* Every step keeps the committed view whole.
LEMMA NextAtomicInv ==
  ASSUME AtomicInv, [TxNext]_txVars
  PROVE  AtomicInv'
<1>1. TypeInv'
  BY NextTypeInv DEF AtomicInv
<1>2. CASE UNCHANGED txVars
  BY <1>1, <1>2 DEF AtomicInv, CommittedViewIsWhole, ReadBackIsWhole, StageFile,
                    txVars, locals
<1>3. CASE TxNext
  <2>1. committed' # Corrupt
    BY <1>3, RenameKeepsWhole, OthersLeaveCommitted
       DEF AtomicInv, CommittedViewIsWhole
  <2> QED
    BY <1>1, <1>3, <2>1, NextReadBack DEF AtomicInv, CommittedViewIsWhole
<1> QED
  BY <1>2, <1>3

\* For any number of writers, only a file that has been written to its end
\* and read back is ever renamed over committed-state.json.
THEOREM TxAtomicInvariant == TxSpec => []AtomicInv
<1>1. TxInit => AtomicInv
  BY InitAtomicInv
<1>2. AtomicInv /\ [TxNext]_txVars => AtomicInv'
  BY NextAtomicInv
<1> QED
  BY <1>1, <1>2, PTL DEF TxSpec

\* Readers never find a damaged committed state, with or without a lock: the
\* previous whole state or the next one, whatever fails, crashes or is
\* removed by recovery.
THEOREM TxCommittedWhole == TxSpec => []CommittedViewIsWhole
<1>1. AtomicInv => CommittedViewIsWhole
  BY DEF AtomicInv
<1> QED
  BY <1>1, TxAtomicInvariant, PTL

-----------------------------------------------------------------------------
(* Staging files.                                                           *)

\* StagingAccountedFor, file by file and writer by writer.
Removing == InTry \cup {"cleanup", "cleanupAcked"}

AccountedByWriter ==
  \A v \in Writers, n \in StageNames :
    staging[<<v, n>>] # "none" =>
      <<v, n>> \in orphans \/ (pc[v] \in Removing /\ name[v] = n)

\* StagingAccountedFor, file by file.
LEMMA AccountedForms ==
  ASSUME TypeInv
  PROVE  StagingAccountedFor <=> AccountedByWriter
<1>1. ASSUME StagingAccountedFor, NEW v \in Writers, NEW n \in StageNames,
             staging[<<v, n>>] # "none", <<v, n>> \notin orphans
      PROVE  pc[v] \in Removing /\ name[v] = n
  <2>1. <<v, n>> \in Writers \X StageNames
    OBVIOUS
  <2>2. PICK w \in Writers : Staged(w) /\ <<v, n>> = StageFile(w)
    BY <1>1, <2>1 DEF StagingAccountedFor
  <2>3. w = v /\ name[w] = n
    BY <2>2 DEF StageFile
  <2> QED
    BY <2>2, <2>3 DEF Staged, Removing
<1>2. ASSUME AccountedByWriter, NEW f \in Writers \X StageNames,
             staging[f] # "none"
      PROVE  f \in orphans \/ \E w \in Writers : Staged(w) /\ f = StageFile(w)
  <2>1. PICK v \in Writers, n \in StageNames : f = <<v, n>>
    OBVIOUS
  <2> QED
    BY <1>2, <2>1 DEF AccountedByWriter, Staged, StageFile, Removing
<1> QED
  BY <1>1, <1>2 DEF StagingAccountedFor, AccountedByWriter

\* Every step accounts for the staging files it leaves: cleaned up, orphaned
\* by a crash or still in use.
LEMMA NextAccounted ==
  ASSUME TypeInv, AccountedByWriter, TxNext
  PROVE  AccountedByWriter'
<1> USE DEF TypeInv, TxTypeOK, AccountedByWriter, StageFile, Goto, Settle, InTry,
            Open, Removing
<1>1. ASSUME NEW w \in Writers, ReadAndDecide(w) PROVE AccountedByWriter'
  BY <1>1 DEF ReadAndDecide
<1>2. ASSUME NEW w \in Writers, Prepare(w) PROVE AccountedByWriter'
  BY <1>2 DEF Prepare
<1>3. ASSUME NEW w \in Writers, FailUnstaged(w) PROVE AccountedByWriter'
  BY <1>3 DEF FailUnstaged
<1>4. ASSUME NEW w \in Writers, CreateStaged(w) PROVE AccountedByWriter'
  BY <1>4 DEF CreateStaged
<1>5. ASSUME NEW w \in Writers, StagedExists(w) PROVE AccountedByWriter'
  BY <1>5 DEF StagedExists
<1>6. ASSUME NEW w \in Writers, WriteStaged(w) PROVE AccountedByWriter'
  BY <1>6 DEF WriteStaged, locals
<1>7. ASSUME NEW w \in Writers, Validate(w) PROVE AccountedByWriter'
  BY <1>7 DEF Validate, locals
<1>8. ASSUME NEW w \in Writers, Rename(w) PROVE AccountedByWriter'
  BY <1>8 DEF Rename, locals
<1>9. ASSUME NEW w \in Writers, FailStaged(w) PROVE AccountedByWriter'
  BY <1>9 DEF FailStaged, locals
<1>10. ASSUME NEW w \in Writers, Cleanup(w) PROVE AccountedByWriter'
  BY <1>10 DEF Cleanup
<1>11. ASSUME NEW w \in Writers, CrashWriter(w) PROVE AccountedByWriter'
  <2> USE <1>11 DEF CrashWriter, Staged
  <2> SUFFICES ASSUME NEW v \in Writers, NEW n \in StageNames,
                      staging'[<<v, n>>] # "none"
               PROVE  \/ <<v, n>> \in orphans'
                      \/ pc'[v] \in Removing /\ name'[v] = n
    OBVIOUS
  <2>1. CASE <<v, n>> \in orphans
    BY <2>1
  <2>2. CASE pc[v] \in Removing /\ name[v] = n
    <3>1. CASE v = w
      BY <2>2, <3>1
    <3>2. CASE v # w
      BY <2>2, <3>2
    <3> QED
      BY <3>1, <3>2
  <2> QED
    BY <2>1, <2>2
<1>12. ASSUME NEW f \in Writers \X StageNames, RecoverStaged(f)
       PROVE  AccountedByWriter'
  BY <1>12 DEF RecoverStaged, locals
<1> QED
  BY <1>1, <1>2, <1>3, <1>4, <1>5, <1>6, <1>7, <1>8, <1>9, <1>10, <1>11, <1>12
     DEF TxNext, CommitStep

\* The finally clause removes the staging file on success and on rollback:
\* only a crash leaves one behind.
THEOREM TxStagingAccounted == TxSpec => []StagingAccountedFor
<1> DEFINE Inv == TypeInv /\ AccountedByWriter
<1>1. TxInit => Inv
  BY InitTypeInv DEF TxInit, AccountedByWriter
<1>2. Inv /\ [TxNext]_txVars => Inv'
  <2>1. CASE UNCHANGED txVars
    BY <2>1, NextTypeInv DEF AccountedByWriter, txVars, locals
  <2>2. CASE TxNext
    BY <2>2, NextTypeInv, NextAccounted
  <2> QED
    BY <2>1, <2>2
<1>3. Inv => StagingAccountedFor
  BY AccountedForms
<1> QED
  BY <1>1, <1>2, <1>3, PTL DEF TxSpec

-----------------------------------------------------------------------------
(* One transaction at a time: what Exclusive makes every step obey, and what *)
(* a lock around the calls makes it obey as well.                           *)

OpensAlone ==
  \A w \in Writers : pc[w] = "idle" /\ pc'[w] # "idle" =>
    \A v \in Writers : pc[v] = "idle"

\* An exclusive environment opens a transaction only when none is open.
LEMMA ExclusiveOpensAlone ==
  ASSUME Exclusive, TypeInv, TxNext
  PROVE  OpensAlone
BY DEF OpensAlone, TypeInv, TxTypeOK, TxNext, CommitStep,
       ReadAndDecide, Prepare, FailUnstaged, CreateStaged, StagedExists,
       WriteStaged, Validate, Rename, FailStaged, Cleanup, CrashWriter,
       RecoverStaged, Goto, Settle, InTry

SingleOpen ==
  \A v, w \in Writers : pc[v] # "idle" /\ pc[w] # "idle" => v = w

\* The removals a call was given are those of the state it is about to read,
\* and what it has planned extends the state it is about to replace.
UpToDate ==
  \A w \in Writers :
    /\ pc[w] = "prepare" =>
         new[w].removed = CI!Vanished(committed.records, new[w].records)
    /\ pc[w] = "stage" \/ pc[w] \in InTry =>
         plan[w].tombstones = committed.tombstones \cup
           CI!Evidence(CI!Vanished(committed.records, plan[w].records),
                       committed.records, CurrentTx(w))
    /\ pc[w] = "cleanupAcked" => plan[w] = committed

ExclusiveInv == AtomicInv /\ SingleOpen /\ UpToDate /\ AckedEvidenceKept

\* The invariant of exclusive transactions holds initially.
LEMMA InitExclusiveInv == TxInit => ExclusiveInv
<1> SUFFICES ASSUME TxInit PROVE ExclusiveInv
  OBVIOUS
<1>1. SingleOpen /\ UpToDate /\ AckedEvidenceKept
  BY DEF TxInit, SingleOpen, UpToDate, InTry, AckedEvidenceKept
<1> QED
  BY <1>1, InitAtomicInv DEF ExclusiveInv

\* At most one transaction stays open.
LEMMA NextSingleOpen ==
  ASSUME ExclusiveInv, TxNext, OpensAlone
  PROVE  SingleOpen'
BY DEF ExclusiveInv, OpensAlone, AtomicInv, TypeInv, TxTypeOK, SingleOpen, TxNext, CommitStep,
       ReadAndDecide, Prepare, FailUnstaged, CreateStaged, StagedExists,
       WriteStaged, Validate, Rename, FailStaged, Cleanup, CrashWriter,
       RecoverStaged, Goto, Settle, InTry, Open, locals

\* Whoever publishes does so from an up-to-date plan: the step is one of the
\* abstract index.
LEMMA RenamePublishes ==
  ASSUME ExclusiveInv, NEW w \in Writers, Rename(w)
  PROVE  /\ CI!Next
         /\ committed.tombstones \subseteq committed'.tombstones
<1>1. committed' = plan[w] /\ plan[w] \in State
  BY RenameKeepsWhole DEF ExclusiveInv, AtomicInv, TypeInv, TxTypeOK
<1>2. plan[w].records \in CI!Records /\ CurrentTx(w) \in TxIds
  BY <1>1, CurrentTxType DEF State, ExclusiveInv, AtomicInv, Rename
<1>3. plan[w].tombstones = committed.tombstones \cup
        CI!Evidence(CI!Vanished(committed.records, plan[w].records),
                    committed.records, CurrentTx(w))
  BY DEF Rename, ExclusiveInv, UpToDate, InTry
<1>4. CI!Publish(plan[w].records, CurrentTx(w))
  BY <1>1, <1>3 DEF CI!Publish
<1> QED
  BY <1>1, <1>2, <1>3, <1>4 DEF CI!Next

\* A step changes the committed state by renaming a staged plan over it, or
\* not at all.
LEMMA StepPublishesOrStutters ==
  ASSUME ExclusiveInv, [TxNext]_txVars
  PROVE  [CI!Next]_<<committed.records, committed.tombstones>>
<1>1. CASE UNCHANGED txVars
  BY <1>1 DEF txVars
<1>2. CASE TxNext
  BY <1>2, RenamePublishes, OthersLeaveCommitted
<1> QED
  BY <1>1, <1>2

\* Nobody invalidates what the open transaction has read.
LEMMA NextUpToDate ==
  ASSUME ExclusiveInv, TxNext, OpensAlone
  PROVE  UpToDate'
<1> USE DEF ExclusiveInv, AtomicInv, TypeInv, TxTypeOK, UpToDate, Goto, Settle,
            InTry, Open, CurrentTx
<1>1. ASSUME NEW w \in Writers, ReadAndDecide(w) PROVE UpToDate'
  <2> USE <1>1 DEF ReadAndDecide
  <2>1. \A v \in Writers : v # w => pc'[v] = "idle"
    BY DEF OpensAlone
  <2>2. new'[w].removed = CI!Vanished(committed.records, new'[w].records)
    OBVIOUS
  <2> QED
    BY <2>1, <2>2
<1>2. ASSUME NEW w \in Writers, Prepare(w) PROVE UpToDate'
  <2> USE <1>2 DEF Prepare
  <2>1. \A v \in Writers : v # w => pc'[v] = "idle"
    BY DEF SingleOpen
  <2>2. /\ plan'[w].records = new[w].records
        /\ plan'[w].tombstones = committed.tombstones \cup
             CI!Evidence(CI!Vanished(committed.records, new[w].records),
                         committed.records, CurrentTx(w))
    OBVIOUS
  <2> QED
    BY <2>1, <2>2
<1>3. ASSUME NEW w \in Writers, FailUnstaged(w) PROVE UpToDate'
  BY <1>3 DEF FailUnstaged
<1>4. ASSUME NEW w \in Writers, CreateStaged(w) PROVE UpToDate'
  BY <1>4 DEF CreateStaged
<1>5. ASSUME NEW w \in Writers, StagedExists(w) PROVE UpToDate'
  BY <1>5 DEF StagedExists
<1>6. ASSUME NEW w \in Writers, WriteStaged(w) PROVE UpToDate'
  BY <1>6 DEF WriteStaged, locals
<1>7. ASSUME NEW w \in Writers, Validate(w) PROVE UpToDate'
  BY <1>7 DEF Validate, locals
<1>8. ASSUME NEW w \in Writers, Rename(w) PROVE UpToDate'
  <2>1. \A v \in Writers : v # w => pc'[v] = "idle"
    BY <1>8 DEF Rename, SingleOpen
  <2>2. committed' = plan[w] /\ plan' = plan
    BY <1>8, RenameKeepsWhole DEF Rename, locals
  <2>3. pc'[w] \in {"cleanup", "cleanupAcked"}
    BY <1>8 DEF Rename
  <2> QED
    BY <2>1, <2>2, <2>3
<1>9. ASSUME NEW w \in Writers, FailStaged(w) PROVE UpToDate'
  BY <1>9 DEF FailStaged, locals
<1>10. ASSUME NEW w \in Writers, Cleanup(w) PROVE UpToDate'
  BY <1>10 DEF Cleanup
<1>11. ASSUME NEW w \in Writers, CrashWriter(w) PROVE UpToDate'
  BY <1>11 DEF CrashWriter
<1>12. ASSUME NEW f \in Writers \X StageNames, RecoverStaged(f)
       PROVE  UpToDate'
  BY <1>12 DEF RecoverStaged, locals
<1> QED
  BY <1>1, <1>2, <1>3, <1>4, <1>5, <1>6, <1>7, <1>8, <1>9, <1>10, <1>11, <1>12
     DEF TxNext, CommitStep

\* No step loses the tombstones of an acknowledged transaction.
LEMMA NextAckedKept ==
  ASSUME ExclusiveInv, TxNext
  PROVE  AckedEvidenceKept'
<1> USE DEF ExclusiveInv, AckedEvidenceKept
<1>1. ASSUME NEW w \in Writers, Rename(w) PROVE AckedEvidenceKept'
  BY <1>1, RenamePublishes DEF Rename
<1>2. ASSUME NEW w \in Writers, Cleanup(w) PROVE AckedEvidenceKept'
  BY <1>2 DEF Cleanup, UpToDate
<1>3. ASSUME NEW w \in Writers,
             \/ ReadAndDecide(w) \/ Prepare(w) \/ FailUnstaged(w)
             \/ CreateStaged(w) \/ StagedExists(w) \/ WriteStaged(w)
             \/ Validate(w) \/ FailStaged(w) \/ CrashWriter(w)
      PROVE  AckedEvidenceKept'
  BY <1>3 DEF ReadAndDecide, Prepare, FailUnstaged, CreateStaged, StagedExists,
              WriteStaged, Validate, FailStaged, CrashWriter
<1>4. ASSUME NEW f \in Writers \X StageNames, RecoverStaged(f)
      PROVE  AckedEvidenceKept'
  BY <1>4 DEF RecoverStaged
<1> QED
  BY <1>1, <1>2, <1>3, <1>4 DEF TxNext, CommitStep

\* The invariant of exclusive transactions is preserved by every step.
LEMMA NextExclusiveInv ==
  ASSUME ExclusiveInv, [TxNext /\ OpensAlone]_txVars
  PROVE  ExclusiveInv'
<1>1. AtomicInv'
  BY NextAtomicInv DEF ExclusiveInv
<1>2. CASE UNCHANGED txVars
  BY <1>1, <1>2 DEF ExclusiveInv, SingleOpen, UpToDate, AckedEvidenceKept,
                    CurrentTx, txVars, locals
<1>3. CASE TxNext /\ OpensAlone
  BY <1>1, <1>3, NextSingleOpen, NextUpToDate, NextAckedKept DEF ExclusiveInv
<1> QED
  BY <1>2, <1>3

\* With one transaction at a time, what a transaction has read stays current
\* until it commits.
THEOREM TxExclusiveInvariant ==
  ASSUME Exclusive
  PROVE  TxSpec => []ExclusiveInv
<1>1. TxInit => ExclusiveInv
  BY InitExclusiveInv
<1>2. ExclusiveInv /\ [TxNext]_txVars => ExclusiveInv'
  BY NextExclusiveInv, ExclusiveOpensAlone DEF ExclusiveInv, AtomicInv
<1> QED
  BY <1>1, <1>2, PTL DEF TxSpec

\* With one transaction at a time no acknowledged removal loses its evidence,
\* through any number of later transactions, failures and crashes.
THEOREM TxEvidenceKept ==
  ASSUME Exclusive
  PROVE  TxSpec => []AckedEvidenceKept
<1>1. ExclusiveInv => AckedEvidenceKept
  BY DEF ExclusiveInv
<1> QED
  BY <1>1, TxExclusiveInvariant, PTL

\* The transactions of an exclusive writer implement the abstract index:
\* CommittedIndexSpec, for every number of writers, paths and transactions.
THEOREM TxImplementsCommittedIndex ==
  ASSUME Exclusive
  PROVE  TxSpec => CommittedIndexSpec
<1>1. TxInit => CI!Init
  BY DEF TxInit, EmptyState, CI!Init
<1>2. ExclusiveInv /\ [TxNext]_txVars =>
        [CI!Next]_<<committed.records, committed.tombstones>>
  BY StepPublishesOrStutters
<1> QED
  BY <1>1, <1>2, TxExclusiveInvariant, PTL DEF TxSpec, CommittedIndexSpec, CI!Spec

=============================================================================
