---------------------------- MODULE WatcherDaemon ----------------------------
(***************************************************************************)
(* One watcher daemon (packages/watcher/src: daemon.ts, adapter.ts,        *)
(* coalescer.ts, verifier.ts, applier.ts, reconciler.ts) between a working *)
(* tree that changes under it and the committed index it has to bring up   *)
(* to date.                                                                *)
(*                                                                         *)
(* A change of the tree emits an event, which the daemon queues while it   *)
(* runs.  processPendingBatch takes the queue, coalesces it, looks at each *)
(* path that is left in the tree and commits what it found; a batch that   *)
(* was too large makes it compare the whole tree with the index by size    *)
(* and mtime.  Every await is a step boundary: the tree may change, events *)
(* may arrive and stop may run in between.  A commit is one step here:     *)
(* IndexTransactions shows that it is atomic.                              *)
(*                                                                         *)
(* missed is the account the properties are about: for each path, why the  *)
(* daemon has no event left that would make it look at the last change.    *)
(***************************************************************************)
EXTENDS Naturals, Sequences, SequencesExt, FiniteSets

CONSTANTS
  Paths,         \* files of the working tree, directories left out
  Temp,          \* those with the name of an atomic save's temporary file
  None,          \* no file, no record
  MaxChanges,    \* bound on the changes of the tree
  MaxBatchSize,  \* events a batch may have before it overflows
  MaxCrashes,    \* bound on the crashes of the daemon's process
  MetaMayRepeat  \* whether a write may leave size and mtime as they were

\* Contents are numbered in the order in which the tree takes them on: a new
\* content has a hash of its own, and a size and mtime of its own as well
\* unless the write restores what was there.
Versions == 1 .. MaxChanges + 1
File     == [hash : Versions, meta : Versions]
Content  == File \cup {None}

Kinds == {"add", "modify", "delete", "rename"}
Event == [kind : Kinds, path : Paths, renamedTo : Paths]

\* found of a path the call in progress has nothing to commit for.
Unseen == [hash |-> 0, meta |-> 0]

ASSUME WatcherDaemonAssumption ==
  /\ Temp \subseteq Paths
  /\ None \notin Paths \cup File \cup {Unseen} \cup Kinds
  /\ MaxChanges \in Nat /\ MaxBatchSize \in Nat /\ MaxCrashes \in Nat
  /\ MetaMayRepeat \in BOOLEAN

Statuses == {"stopped", "starting", "watching", "reconciling", "stopping"}

\* "offline": the daemon did not run.  "cancelled", "renamed": the coalescer
\* left the path out of the batch.  "ignored": the verifier could not read
\* it.  "trusted": the reconciler took an unchanged size and mtime for an
\* unchanged content.  "failed": the batch threw.  "crashed": the process died.
Reasons ==
  {"offline", "cancelled", "renamed", "ignored", "trusted", "failed", "crashed"}

VARIABLES
  fs,       \* the working tree
  clock,    \* the number of contents and removals so far
  pending,  \* pendingEvents of the coalescer
  running, status,
  records,  \* the active records of the committed index
  call,     \* the call of processPendingBatch in progress
  crashes,
  missed,   \* history: see above
  calm      \* history: no change since the reconciliation in progress began

treeVars   == <<fs, clock>>
daemonVars == <<pending, running, status>>
vars == <<fs, clock, pending, running, status, records, call, crashes, missed, calm>>

\* at: the next await of the call.  todo: the paths not looked at yet.
\* found: what the call is going to commit for a path.  stats: the size and
\* mtime of the paths looked at.
Call == [
  at      : {"idle", "verify", "read", "merge", "scan", "process", "commit"},
  todo    : SUBSET Paths,
  reading : Paths \cup {None},
  stats   : [Paths -> Versions \cup {0}],
  base    : [Paths -> Content],
  found   : [Paths -> Content \cup {Unseen}],
  aborted : BOOLEAN]

NoCall == [
  at      |-> "idle",
  todo    |-> {},
  reading |-> None,
  stats   |-> [p \in Paths |-> 0],
  base    |-> [p \in Paths |-> None],
  found   |-> [p \in Paths |-> Unseen],
  aborted |-> FALSE]

\* The type of the state; the records have one for every path.
TypeOK ==
  /\ fs \in [Paths -> Content]
  /\ clock \in 1 .. MaxChanges + 1
  /\ pending \in Seq(Event)
  /\ running \in BOOLEAN
  /\ status \in Statuses
  /\ records \in [Paths -> Content]
  /\ call \in Call
  /\ crashes \in 0 .. MaxCrashes
  /\ missed \subseteq Paths \X Reasons
  /\ calm \in BOOLEAN

\* The index an earlier session has left may lack files of the tree: start
\* reconciles nothing.
Init ==
  /\ \E present \in SUBSET Paths : \E indexed \in SUBSET present :
       LET Originals(ps) ==
             [p \in Paths |-> IF p \in ps THEN [hash |-> 1, meta |-> 1] ELSE None]
       IN  /\ fs = Originals(present)
           /\ records = Originals(indexed)
           /\ missed = (present \ indexed) \X {"offline"}
  /\ clock = 1
  /\ pending = << >>
  /\ running = FALSE
  /\ status = "stopped"
  /\ call = NoCall
  /\ crashes = 0
  /\ calm = FALSE

Miss(ps, reason) == missed' = missed \cup (ps \X {reason})
Seen(ps)         == missed' = {m \in missed : m[1] \notin ps}

-----------------------------------------------------------------------------
(* The tree changes, and the adapter emits the event of the change.  The    *)
(* daemon's onEvent drops it unless the daemon runs.                        *)

Emit(event, changed) ==
  IF running
    THEN pending' = Append(pending, event) /\ UNCHANGED missed
    ELSE Miss(changed, "offline") /\ UNCHANGED pending

Change ==
  /\ clock <= MaxChanges
  /\ clock' = clock + 1
  /\ calm' = FALSE
  /\ UNCHANGED <<running, status, records, call, crashes>>

WriteFile(p) ==
  /\ Change
  /\ \E meta \in {clock + 1} \cup
                 IF MetaMayRepeat /\ fs[p] # None THEN {fs[p].meta} ELSE {} :
       fs' = [fs EXCEPT ![p] = [hash |-> clock + 1, meta |-> meta]]
  /\ Emit([kind |-> IF fs[p] = None THEN "add" ELSE "modify",
           path |-> p, renamedTo |-> p], {p})

RemoveFile(p) ==
  /\ fs[p] # None
  /\ Change
  /\ fs' = [fs EXCEPT ![p] = None]
  /\ Emit([kind |-> "delete", path |-> p, renamedTo |-> p], {p})

RenameFile(p, q) ==
  /\ p # q /\ fs[p] # None
  /\ Change
  /\ fs' = [fs EXCEPT ![p] = None, ![q] = fs[p]]
  /\ Emit([kind |-> "rename", path |-> p, renamedTo |-> q], {p, q})

-----------------------------------------------------------------------------
(* start and stop.  Their caller awaits them, so they do not overlap each   *)
(* other; they may well overlap a batch in progress.                        *)

Start ==
  /\ ~running /\ status # "stopping"
  /\ running' = TRUE
  /\ status' = "watching"
  /\ UNCHANGED <<treeVars, pending, records, call, crashes, missed, calm>>

\* acquire throws: nothing resets the status.
StartRejected ==
  /\ ~running /\ status \notin {"stopping", "starting"}
  /\ status' = "starting"
  /\ UNCHANGED <<treeVars, pending, running, records, call, crashes, missed, calm>>

Stop ==
  /\ running
  /\ running' = FALSE
  /\ status' = "stopping"
  /\ call' = IF call.at \in {"scan", "process", "commit"}
               THEN [call EXCEPT !.aborted = TRUE] ELSE call
  /\ UNCHANGED <<treeVars, pending, records, crashes, missed, calm>>

\* The adapter is stopped and the lock released; also stop of a daemon that
\* does not run.
FinishStop ==
  /\ ~running /\ status # "stopped"
  /\ status' = "stopped"
  /\ UNCHANGED <<treeVars, pending, running, records, call, crashes, missed, calm>>

-----------------------------------------------------------------------------
(* The coalescer.                                                           *)

Merge(kind, event) ==
  CASE kind = "add" /\ event.kind = "delete"    -> None
    [] kind = "add" /\ event.kind = "modify"    -> "add"
    [] OTHER                                    -> event.kind

\* (mutant: an atomic save is not mapped to its target)
CoalesceNoTargets(batch, event) ==
  IF event.path \in Temp THEN batch
  ELSE [batch EXCEPT ![event.path] = Merge(@, event)]

\* The batch so far (None: no event for the path) and the next event.
Coalesce(batch, event) ==
  IF event.path \in Temp
    THEN IF event.kind = "rename" /\ event.renamedTo \notin Temp
           THEN [batch EXCEPT ![event.renamedTo] = "modify"] ELSE batch
    ELSE [batch EXCEPT ![event.path] = Merge(@, event)]

Coalesced(events) ==
  LET batch == FoldLeft(Coalesce, [p \in Paths |-> None], events)
  IN  {p \in Paths : batch[p] # None}

Overflow(events) == Len(events) > MaxBatchSize

Touched(event) == {event.path, event.renamedTo}
AllTouched(events) == UNION {Touched(events[n]) : n \in DOMAIN events}

\* The paths whose last event is not the one that renamed a file to them.
EndAsSource(events) ==
  {p \in Paths : \E n \in DOMAIN events :
     events[n].path = p /\ \A m \in n + 1 .. Len(events) : p \notin Touched(events[m])}

\* flush, and the early return of a batch with nothing in it.
Flush ==
  /\ running /\ call.at = "idle"
  /\ pending # << >> /\ ~Overflow(pending)
  /\ pending' = << >>
  /\ LET batch == Coalesced(pending)
         left  == AllTouched(pending) \ batch
     IN  /\ missed' = missed
              \cup ((left \cap EndAsSource(pending)) \X {"cancelled"})
              \cup ((left \ EndAsSource(pending)) \X {"renamed"})
         /\ call' = IF batch = {} THEN NoCall
                    ELSE [NoCall EXCEPT !.at = "verify", !.todo = batch]
  /\ UNCHANGED <<treeVars, running, status, records, crashes, calm>>

\* More events than a batch holds: reconciliation is required.
FlushOverflow ==
  /\ running /\ call.at = "idle"
  /\ Overflow(pending)
  /\ pending' = << >>
  /\ status' = "reconciling"
  /\ call' = [NoCall EXCEPT !.at = "scan", !.todo = Paths, !.base = records]
  /\ calm' = TRUE
  /\ UNCHANGED <<treeVars, running, records, crashes, missed>>

-----------------------------------------------------------------------------
(* applyEventsToLocalIndex: look at each path of the batch in the tree ...  *)

VerifyAbsent(p) ==
  /\ call.at = "verify" /\ p \in call.todo
  /\ fs[p] = None
  /\ call' = [call EXCEPT !.todo = @ \ {p}, !.found[p] = None]
  /\ Seen({p})
  /\ UNCHANGED <<treeVars, daemonVars, records, crashes, calm>>

VerifyStat(p) ==
  /\ call.at = "verify" /\ p \in call.todo
  /\ fs[p] # None
  /\ call' = [call EXCEPT !.at = "read", !.todo = @ \ {p}, !.reading = p,
                          !.stats[p] = fs[p].meta]
  /\ UNCHANGED <<treeVars, daemonVars, records, crashes, missed, calm>>

VerifyRead ==
  /\ call.at = "read" /\ fs[call.reading] # None
  /\ call' = [call EXCEPT !.at = "verify", !.reading = None,
       !.found[call.reading] =
         [hash |-> fs[call.reading].hash, meta |-> call.stats[call.reading]]]
  /\ Seen({call.reading})
  /\ UNCHANGED <<treeVars, daemonVars, records, crashes, calm>>

\* (mutant: an unreadable file is retried)
VerifyReadRetries ==
  /\ call.at = "read"
  /\ call' = [call EXCEPT !.at = "verify", !.reading = None,
                          !.todo = @ \cup {call.reading}]
  /\ UNCHANGED <<treeVars, daemonVars, records, crashes, missed, calm>>

\* The file is gone by now, or cannot be read: the event is ignored.
VerifyReadFails ==
  /\ call.at = "read"
  /\ call' = [call EXCEPT !.at = "verify", !.reading = None]
  /\ Miss({call.reading}, "ignored")
  /\ UNCHANGED <<treeVars, daemonVars, records, crashes, calm>>

\* ... read the committed records ...
ReadCommitted ==
  /\ call.at = "verify" /\ call.todo = {}
  /\ call' = [call EXCEPT !.at = "merge", !.base = records]
  /\ UNCHANGED <<treeVars, daemonVars, records, crashes, missed, calm>>

\* (mutant: the outcomes replace the records)
CommitOutcomesOnly ==
  /\ call.at = "merge"
  /\ records' = call.found
  /\ call' = NoCall
  /\ UNCHANGED <<treeVars, daemonVars, crashes, missed, calm>>

\* (mutant: the queue is emptied when the batch is done, not when it is taken)
CommitThenClear ==
  /\ call.at = "merge"
  /\ records' = [p \in Paths |->
       IF call.found[p] = Unseen THEN call.base[p] ELSE call.found[p]]
  /\ call' = NoCall
  /\ pending' = << >>
  /\ UNCHANGED <<treeVars, running, status, crashes, missed, calm>>

\* ... and commit them with the outcomes applied.
CommitBatch ==
  /\ call.at = "merge"
  /\ records' = [p \in Paths |->
       IF call.found[p] = Unseen THEN call.base[p] ELSE call.found[p]]
  /\ call' = NoCall
  /\ UNCHANGED <<treeVars, daemonVars, crashes, missed, calm>>

-----------------------------------------------------------------------------
(* reconcileRepositoryState: stat every file of the tree ...                *)

ScanPath(p) ==
  /\ call.at = "scan" /\ p \in call.todo
  /\ call' = [call EXCEPT !.todo = @ \ {p},
                          !.stats[p] = IF fs[p] = None THEN 0 ELSE fs[p].meta,
                          !.found[p] = IF fs[p] = None THEN None ELSE Unseen]
  /\ IF fs[p] = None THEN Seen({p}) ELSE UNCHANGED missed
  /\ UNCHANGED <<treeVars, daemonVars, records, crashes, calm>>

Scanned == {p \in Paths : call.stats[p] # 0}

ScanDone ==
  /\ call.at = "scan" /\ call.todo = {}
  /\ call' = [call EXCEPT !.at = "process", !.todo = Scanned]
  /\ UNCHANGED <<treeVars, daemonVars, records, crashes, missed, calm>>

\* (mutant: a record is enough)
UnchangedIfKnown(p) == call.base[p] # None

\* ... read those whose size or mtime is not that of the record ...
Unchanged(p) == call.base[p] # None /\ call.base[p].meta = call.stats[p]

\* history: the file that was scanned is still there, with another content.
TrustMisplaced(p) ==
  /\ fs[p] # None /\ fs[p].meta = call.stats[p]
  /\ call.base[p].meta = call.stats[p] /\ call.base[p].hash # fs[p].hash

ProcessUnchanged(p) ==
  /\ call.at = "process" /\ p \in call.todo /\ ~call.aborted
  /\ Unchanged(p)
  /\ call' = [call EXCEPT !.todo = @ \ {p}, !.found[p] = call.base[p]]
  /\ IF TrustMisplaced(p) THEN Miss({p}, "trusted") ELSE Seen({p})
  /\ UNCHANGED <<treeVars, daemonVars, records, crashes, calm>>

ProcessChanged(p) ==
  /\ call.at = "process" /\ p \in call.todo /\ ~call.aborted
  /\ ~Unchanged(p) /\ fs[p] # None
  /\ call' = [call EXCEPT !.todo = @ \ {p},
       !.found[p] = [hash |-> fs[p].hash, meta |-> call.stats[p]]]
  /\ Seen({p})
  /\ UNCHANGED <<treeVars, daemonVars, records, crashes, calm>>

ProcessDone ==
  /\ call.at = "process" /\ call.todo = {}
  /\ call' = [call EXCEPT !.at = "commit"]
  /\ UNCHANGED <<treeVars, daemonVars, records, crashes, missed, calm>>

\* ... and commit.  The abort signal is not looked at any more, and the
\* status is set whatever it has become.
CommitReconciled ==
  /\ call.at = "commit"
  /\ records' = call.found
  /\ call' = NoCall
  /\ status' = "watching"
  /\ calm' = FALSE
  /\ UNCHANGED <<treeVars, pending, running, crashes, missed>>

-----------------------------------------------------------------------------
(* What the events of the call in progress were about.                      *)

InCall ==
  CASE call.at \in {"verify", "read", "merge"} ->
         call.todo \cup {p \in Paths : call.found[p] # Unseen}
                   \cup ({call.reading} \ {None})
    [] call.at \in {"scan", "process", "commit"} -> Paths
    [] OTHER -> {}

\* Any await of the call throws: an abort, a file that vanished, a commit
\* that fails.  The batch is lost and the status stays.
BatchFails ==
  /\ call.at # "idle"
  /\ call' = NoCall
  /\ Miss(InCall, "failed")
  /\ calm' = FALSE
  /\ UNCHANGED <<treeVars, daemonVars, records, crashes>>

\* The process dies; the queue and the call go with it.
Crash ==
  /\ running /\ crashes < MaxCrashes
  /\ crashes' = crashes + 1
  /\ running' = FALSE
  /\ status' = "stopped"
  /\ pending' = << >>
  /\ call' = NoCall
  /\ Miss(AllTouched(pending) \cup InCall, "crashed")
  /\ calm' = FALSE
  /\ UNCHANGED <<treeVars, records>>

TreeStep ==
  \/ \E p \in Paths : WriteFile(p) \/ RemoveFile(p)
  \/ \E p, q \in Paths : RenameFile(p, q)

BatchStep ==
  \/ \E p \in Paths :
       \/ VerifyAbsent(p) \/ VerifyStat(p)
       \/ ScanPath(p) \/ ProcessUnchanged(p) \/ ProcessChanged(p)
  \/ VerifyRead \/ VerifyReadFails \/ ReadCommitted \/ CommitBatch
  \/ ScanDone \/ ProcessDone \/ CommitReconciled
  \/ BatchFails

Next ==
  \/ TreeStep
  \/ Start \/ StartRejected \/ Stop \/ FinishStop
  \/ Flush \/ FlushOverflow
  \/ BatchStep
  \/ Crash

Spec == Init /\ [][Next]_vars

\* Every await of a batch in progress settles.
FairSpec == Spec /\ WF_vars(BatchStep)

-----------------------------------------------------------------------------
(* Properties.                                                              *)

Followed == Paths \ Temp

SameContent(c, d) == IF c = None THEN d = None ELSE d # None /\ c.hash = d.hash

\* The paths somebody is still going to look at.
ToBeSeen ==
  AllTouched(pending) \cup call.todo \cup ({call.reading} \ {None})
    \cup (IF call.at = "scan" THEN Scanned ELSE {})

\* What the index holds of a path once the call in progress has committed.
Outcome(p) == IF call.found[p] = Unseen THEN records[p] ELSE call.found[p]

Missed(p) == \E r \in Reasons : <<p, r>> \in missed

\* The index follows the tree: a path nobody is going to look at again has,
\* or is about to get, the record of its present content, unless the daemon
\* has lost its last change for one of the reasons the model names.
IndexFollowsTree ==
  \A p \in Followed : p \in ToBeSeen \/ SameContent(Outcome(p), fs[p]) \/ Missed(p)

\* The coalescer keeps the target of an atomic save: a path is left out of a
\* batch as a rename's target only if an ordinary file was renamed to it.
AtomicSavesFollowed ==
  [][Flush => \A p \in Followed :
       <<p, "renamed">> \in missed' \ missed =>
         \E n \in DOMAIN pending :
           pending[n].renamedTo = p /\ pending[n].path \notin Temp]_vars

\* docs/concepts/incremental-operation.md: a completed reconciliation promises
\* canonical/full equivalence for the observed repository state.  If nothing
\* changed while it ran, the index equals the tree afterwards, whatever had
\* been missed before, except where an unchanged size and mtime deceived it.
ReconciliationConverges ==
  [][CommitReconciled /\ calm =>
       \A p \in Paths :
         SameContent(records'[p], fs[p]) \/ <<p, "trusted">> \in missed]_vars

\* A batch that has been taken from the queue settles, committed or failed,
\* and the daemon can take the next one.
BatchSettles == (call.at # "idle") ~> (call.at = "idle")

\* The final filesystem state is verified whatever the coalescer drops: a
\* path whose events cancelled each other out is as the index has it.
CancelledIsUnchanged ==
  \A p \in Followed :
    <<p, "cancelled">> \in missed =>
      p \in ToBeSeen \/ SameContent(Outcome(p), fs[p])
        \/ \E r \in Reasons \ {"cancelled"} : <<p, r>> \in missed

\* Content hashes are authoritative, size and mtime are hints: a calm
\* reconciliation leaves no record with another content than its file.
HashIsAuthoritative ==
  [][CommitReconciled /\ calm =>
       \A p \in Paths : SameContent(records'[p], fs[p])]_vars

=============================================================================
