-------------------------- MODULE IndexTransactions --------------------------
(***************************************************************************)
(* Index transactions (packages/index/src/storage/transaction-store.ts)    *)
(* as the watcher runs them (packages/watcher/src/applier.ts and           *)
(* reconciler.ts).                                                         *)
(*                                                                         *)
(* A writer reads the committed state, decides the new records and the     *)
(* removals, and calls commitAtomicIndexTransaction, which reads the       *)
(* committed state again, builds the tombstones, stages the new state in a *)
(* file of its own, reads that file back and renames it over               *)
(* committed-state.json.  Each await of the code is a step of its own: any *)
(* of them can fail, the process can crash between them, other writers and *)
(* recoverCorruptIndex can run in between.  The code takes no lock here.   *)
(***************************************************************************)
EXTENDS Naturals

CONSTANTS
  Writers,    \* concurrent invocations, one per watcher daemon
  Paths, Hashes, None,
  Corrupt,    \* a committed-state.json that does not validate
  StageNames, \* the staging file names a writer may derive from its ids
  MaxTx,      \* bound on the transactions of one writer
  Exclusive   \* whether the environment admits one transaction at a time

VARIABLES
  committed,  \* the content of committed-state.json
  staging,    \* transactions/<id>.staged.json of each writer and name
  pc,         \* where each writer is
  started,    \* how many transactions it has started (their identity)
  name,       \* the staging name of the current one
  new,        \* the records and removals the caller passes in
  plan,       \* the state to be staged, tombstones included
  orphans,    \* history: the staging files a crash has left
  acked       \* history: the tombstones of acknowledged transactions

locals == <<name, new, plan>>
txVars == <<committed, staging, pc, started, name, new, plan, orphans, acked>>

TxIds == Writers \X (1 .. MaxTx)

CI == INSTANCE CommittedIndex WITH
  records <- committed.records, tombstones <- committed.tombstones

State == [records : CI!Records, tombstones : SUBSET CI!Tombstone]
Input == [records : CI!Records, removed : SUBSET Paths]

ASSUME IndexTransactionsAssumption ==
  /\ None \notin Hashes
  /\ Corrupt \notin State
  /\ StageNames # {}
  /\ MaxTx \in Nat
  /\ Exclusive \in BOOLEAN

\* An absent file reads as undefined, which every caller treats as empty.
EmptyState == [records |-> [p \in Paths |-> None], tombstones |-> {}]
EmptyInput == [records |-> [p \in Paths |-> None], removed |-> {}]
AnyName    == CHOOSE n \in StageNames : TRUE

InTry == {"write", "validate", "rename"}  \* the staging file is this writer's
Open  == {"prepare", "stage", "cleanup", "cleanupAcked"} \cup InTry

TxTypeOK ==
  /\ committed \in State \cup {Corrupt}
  /\ staging \in [Writers \X StageNames -> {"none", "partial", "complete"}]
  /\ pc \in [Writers -> Open \cup {"idle"}]
  /\ started \in [Writers -> 0 .. MaxTx]
  /\ name \in [Writers -> StageNames]
  /\ new \in [Writers -> Input]
  /\ plan \in [Writers -> State]
  /\ orphans \subseteq Writers \X StageNames
  /\ acked \subseteq CI!Tombstone

TxInit ==
  /\ committed = EmptyState
  /\ staging = [f \in Writers \X StageNames |-> "none"]
  /\ pc = [w \in Writers |-> "idle"]
  /\ started = [w \in Writers |-> 0]
  /\ name = [w \in Writers |-> AnyName]
  /\ new = [w \in Writers |-> EmptyInput]
  /\ plan = [w \in Writers |-> EmptyState]
  /\ orphans = {}
  /\ acked = {}

Goto(w, from, to) ==
  /\ pc[w] = from
  /\ pc' = [pc EXCEPT ![w] = to]

\* The call is over: its locals are gone.
Settle(w) ==
  /\ pc' = [pc EXCEPT ![w] = "idle"]
  /\ name' = [name EXCEPT ![w] = AnyName]
  /\ new' = [new EXCEPT ![w] = EmptyInput]
  /\ plan' = [plan EXCEPT ![w] = EmptyState]

CurrentTx(w) == <<w, started[w]>>
StageFile(w) == <<w, name[w]>>

\* The writer has a staging file to remove before its call settles.
Staged(w) ==
  pc[w] \in InTry \cup {"cleanup", "cleanupAcked"} /\ staging[StageFile(w)] # "none"

-----------------------------------------------------------------------------
(* The caller: read the committed state, decide what the index should hold.*)
(* A removal is a path the state read has and the new records have not.    *)

ReadAndDecide(w) ==
  /\ committed # Corrupt
  /\ started[w] < MaxTx
  /\ Exclusive => \A v \in Writers : pc[v] = "idle"
  /\ Goto(w, "idle", "prepare")
  /\ started' = [started EXCEPT ![w] = @ + 1]
  /\ \E recs \in CI!Records :
       new' = [new EXCEPT ![w] =
         [records |-> recs,
          removed |-> CI!Vanished(committed.records, recs)]]
  /\ UNCHANGED <<committed, staging, name, plan, orphans, acked>>

-----------------------------------------------------------------------------
(* commitAtomicIndexTransaction.                                            *)

\* (mutant: the previous tombstones are not carried over)
PrepareAfresh(w) ==
  /\ committed # Corrupt
  /\ Goto(w, "prepare", "stage")
  /\ plan' = [plan EXCEPT ![w] =
       [records    |-> new[w].records,
        tombstones |-> CI!Evidence(new[w].removed, committed.records, CurrentTx(w))]]
  /\ UNCHANGED <<committed, staging, started, name, new, orphans, acked>>

\* (mutant: the previous hash is looked up in the new records)
PrepareFromNew(w) ==
  /\ committed # Corrupt
  /\ Goto(w, "prepare", "stage")
  /\ plan' = [plan EXCEPT ![w] =
       [records    |-> new[w].records,
        tombstones |-> committed.tombstones \cup
          CI!Evidence(new[w].removed, new[w].records, CurrentTx(w))]]
  /\ UNCHANGED <<committed, staging, started, name, new, orphans, acked>>

\* Its own read of the committed state, from which the tombstones are built.
Prepare(w) ==
  /\ committed # Corrupt
  /\ Goto(w, "prepare", "stage")
  /\ plan' = [plan EXCEPT ![w] =
       [records    |-> new[w].records,
        tombstones |-> committed.tombstones \cup
          CI!Evidence(new[w].removed, committed.records, CurrentTx(w))]]
  /\ UNCHANGED <<committed, staging, started, name, new, orphans, acked>>

\* before-stage, mkdir, the read or the validation throws: nothing is staged.
FailUnstaged(w) ==
  /\ pc[w] \in {"prepare", "stage"}
  /\ Settle(w)
  /\ UNCHANGED <<committed, staging, started, orphans, acked>>

\* writeFile with flag wx creates the file ...
CreateStaged(w) ==
  /\ Goto(w, "stage", "write")
  /\ \E n \in StageNames :
       /\ staging[<<w, n>>] = "none"
       /\ name' = [name EXCEPT ![w] = n]
       /\ staging' = [staging EXCEPT ![<<w, n>>] = "partial"]
  /\ UNCHANGED <<committed, started, new, plan, orphans, acked>>

\* ... or finds one a crashed transaction left, throws, and the finally
\* clause removes that file.
StagedExists(w) ==
  /\ Goto(w, "stage", "cleanup")
  /\ \E n \in StageNames :
       /\ staging[<<w, n>>] # "none"
       /\ name' = [name EXCEPT ![w] = n]
  /\ UNCHANGED <<committed, staging, started, new, plan, orphans, acked>>

\* The rest of writeFile.  Recovery may have unlinked the file meanwhile.
WriteStaged(w) ==
  /\ Goto(w, "write", "validate")
  /\ staging' = [staging EXCEPT ![StageFile(w)] =
       IF @ = "none" THEN "none" ELSE "complete"]
  /\ UNCHANGED <<committed, started, locals, orphans, acked>>

\* (mutant: writeFile is not awaited and nothing is read back)
ValidateBlindly(w) ==
  /\ staging[StageFile(w)] # "none"
  /\ \/ Goto(w, "write", "rename")
     \/ Goto(w, "validate", "rename")
  /\ UNCHANGED <<committed, staging, started, locals, orphans, acked>>

Validate(w) ==
  /\ staging[StageFile(w)] = "complete"
  /\ Goto(w, "validate", "rename")
  /\ UNCHANGED <<committed, staging, started, locals, orphans, acked>>

\* (mutant: the input is published, without its tombstones)
RenameInput(w) ==
  /\ staging[StageFile(w)] # "none"
  /\ committed' =
       IF staging[StageFile(w)] = "complete" THEN new[w] ELSE Corrupt
  /\ staging' = [staging EXCEPT ![StageFile(w)] = "none"]
  /\ pc[w] = "rename"
  /\ \E to \in {"cleanup", "cleanupAcked"} : pc' = [pc EXCEPT ![w] = to]
  /\ UNCHANGED <<started, locals, orphans, acked>>

\* One rename publishes the whole state.  A boundary hook that throws after
\* it makes the call fail although the state is committed.
Rename(w) ==
  /\ staging[StageFile(w)] # "none"
  /\ committed' =
       IF staging[StageFile(w)] = "complete" THEN plan[w] ELSE Corrupt
  /\ staging' = [staging EXCEPT ![StageFile(w)] = "none"]
  /\ pc[w] = "rename"
  /\ \E to \in {"cleanup", "cleanupAcked"} : pc' = [pc EXCEPT ![w] = to]
  /\ UNCHANGED <<started, locals, orphans, acked>>

\* A write error, a hook that throws, a staged file that reads back damaged
\* or that is gone: control passes to the finally clause.
FailStaged(w) ==
  /\ pc[w] \in InTry
  /\ pc' = [pc EXCEPT ![w] = "cleanup"]
  /\ UNCHANGED <<committed, staging, started, locals, orphans, acked>>

\* (mutant: the staging file is removed on success only)
CleanupIfCommitted(w) ==
  /\ pc[w] \in {"cleanup", "cleanupAcked"}
  /\ Settle(w)
  /\ IF pc[w] = "cleanupAcked"
       THEN /\ staging' = [staging EXCEPT ![StageFile(w)] = "none"]
            /\ orphans' = orphans \ {StageFile(w)}
       ELSE UNCHANGED <<staging, orphans>>
  /\ acked' = acked \cup
       IF pc[w] = "cleanupAcked"
         THEN {x \in plan[w].tombstones : x.by = CurrentTx(w)} ELSE {}
  /\ UNCHANGED <<committed, started>>

\* finally: rm(force) of the staging path, then the call settles.
Cleanup(w) ==
  /\ pc[w] \in {"cleanup", "cleanupAcked"}
  /\ Settle(w)
  /\ staging' = [staging EXCEPT ![StageFile(w)] = "none"]
  /\ orphans' = orphans \ {StageFile(w)}
  /\ acked' = acked \cup
       IF pc[w] = "cleanupAcked"
         THEN {t \in plan[w].tombstones : t.by = CurrentTx(w)} ELSE {}
  /\ UNCHANGED <<committed, started>>

-----------------------------------------------------------------------------
(* The process dies; its staging file stays.                                *)

CrashWriter(w) ==
  /\ pc[w] # "idle"
  /\ Settle(w)
  /\ orphans' = IF Staged(w) THEN orphans \cup {StageFile(w)} ELSE orphans
  /\ UNCHANGED <<committed, staging, started, acked>>

\* recoverCorruptIndex removes the staging files it lists one by one, those
\* of a transaction in progress too.
RecoverStaged(f) ==
  /\ staging[f] # "none"
  /\ staging' = [staging EXCEPT ![f] = "none"]
  /\ orphans' = orphans \ {f}
  /\ UNCHANGED <<committed, pc, started, locals, acked>>

CommitStep(w) ==
  \/ Prepare(w) \/ FailUnstaged(w) \/ CreateStaged(w) \/ StagedExists(w)
  \/ WriteStaged(w) \/ Validate(w) \/ Rename(w) \/ FailStaged(w) \/ Cleanup(w)

TxNext ==
  \/ \E w \in Writers : ReadAndDecide(w) \/ CommitStep(w) \/ CrashWriter(w)
  \/ \E f \in Writers \X StageNames : RecoverStaged(f)

TxSpec == TxInit /\ [][TxNext]_txVars

-----------------------------------------------------------------------------
(* Properties.                                                              *)

\* Readers find the previous or the next whole state in committed-state.json,
\* never a damaged one: whatever fails or crashes, and however many writers
\* run, only a completely staged file is renamed over it.
CommittedViewIsWhole == committed # Corrupt

\* Transaction staging files are removed on success and on rollback: one that
\* exists belongs to a transaction in progress or was left by a crash.
StagingAccountedFor ==
  \A f \in Writers \X StageNames :
    staging[f] # "none" =>
      f \in orphans \/ \E w \in Writers : Staged(w) /\ f = StageFile(w)

\* The evidence of a removal whose transaction was reported as committed is
\* in every committed state from then on: recreating the path, later
\* transactions, failures and crashes do not erase it.
AckedEvidenceKept == acked \subseteq committed.tombstones

\* The transactions implement the promise of CommittedIndex: each step
\* publishes one whole transaction, with a tombstone for every path that
\* vanishes and none lost, or leaves the committed view alone.
CommittedIndexSpec == CI!Spec

=============================================================================
