--------------------------- MODULE IndexLifecycle ---------------------------
(***************************************************************************)
(* The life of one index directory (packages/index/src/storage/store.ts,   *)
(* verification/verify.ts, recovery/recovery.ts) under the commands that   *)
(* use it (apps/cli/src/commands/cache and watch).                         *)
(*                                                                         *)
(* A command is a process of its own.  init, rebuild and watch open the    *)
(* index: the first of them publishes index.json under index.lock; then    *)
(* they may write semantic.json.  purge removes the directory, and so does *)
(* recover if it finds the index beyond use.  Every await is a step.  The  *)
(* committed records and the writer lock are those of ExclusiveWriters.    *)
(***************************************************************************)
EXTENDS Naturals

CONSTANTS
  Procs,      \* processes that run commands
  Uses,       \* the commands they run
  None,       \* no file, nothing
  Invalid,    \* a file that does not parse or belongs to something else
  Contents,   \* contents the working tree takes on
  MaxRuns,    \* bound on the commands that are run
  MaxCrashes  \* bound on the crashes

Openers == {"init", "rebuild", "watch"}

\* The runs of commands in the order they begin: a number stands for the run,
\* the metadata it creates and the random part of its temporary files.
Runs == 1 .. MaxRuns

\* A semantic state: the content of the tree and the identities computed for
\* it, which watch and the cache commands compute differently.
Semantic == [content : Contents, by : {"cache", "watch"}]
Lock     == [owner : Runs, old : BOOLEAN]

ASSUME IndexLifecycleAssumption ==
  /\ Uses \subseteq Openers \cup {"recover", "purge"}
  /\ None \notin Runs \cup Semantic \cup Lock \cup {Invalid}
  /\ Invalid \notin Runs \cup Semantic
  /\ MaxRuns \in Nat /\ MaxCrashes \in Nat

VARIABLES
  dir,      \* the directory exists
  meta,     \* index.json
  sem,      \* semantic.json
  lock,     \* index.lock
  temps,    \* temporary files of index.json and semantic.json
  job,      \* what each process does
  runs,     \* how many commands have begun
  crashes,
  dead,     \* history: the runs that crashed, or failed to write semantic.json
  intruded, \* history: a lock has been removed by someone else than its owner
  witness   \* history: what each job has seen of the others

disk == <<dir, meta, sem, lock, temps>>
rest == <<runs, crashes, dead, intruded>>
vars == <<disk, job, rest, witness>>

\* opened: the metadata the open published or found.
\* got: the semantic state at hand.  todo: what rm -r is going to remove.
Steps ==
  {"idle", "mkdir", "readMeta", "lock", "writeMeta", "renameMeta", "unlock",
   "rmTemp", "acquire", "readSem", "writeSem", "renameSem",
   "clean", "checkLock", "checkMeta", "checkSem", "decide", "statLock", "rmLock",
   "remove"}
Names == {"meta", "sem", "lock", "temps"}
Job == [cmd : Uses \cup {"none"}, run : Runs \cup {0}, at : Steps,
        opened : Runs \cup {None}, got : Semantic \cup {None}, todo : SUBSET Names]
NoJob ==
  [cmd |-> "none", run |-> 0, at |-> "idle", opened |-> None,
   got |-> None, todo |-> {}]

\* quiet: nobody else has changed the disk.  kept: neither index.json nor
\* semantic.json has been removed.  healthy: the index has been ready.
NoWitness == [quiet |-> FALSE, kept |-> FALSE, healthy |-> FALSE]

\* Types: every open returns metadata that were valid when it read or wrote
\* them, and semantic.json is never anything else than a semantic state.
TypeOK ==
  /\ dir \in BOOLEAN
  /\ meta \in Runs \cup {None, Invalid}
  /\ sem \in Semantic \cup {None, Invalid}
  /\ lock \in Lock \cup {None}
  /\ temps \subseteq {"meta", "sem"} \X Runs
  /\ job \in [Procs -> Job]
  /\ runs \in 0 .. MaxRuns
  /\ crashes \in 0 .. MaxCrashes
  /\ dead \subseteq Runs
  /\ intruded \in BOOLEAN
  /\ witness \in [Procs -> [quiet : BOOLEAN, kept : BOOLEAN, healthy : BOOLEAN]]

\* No index yet, or one that is damaged or not this version's.
Init ==
  /\ dir \in BOOLEAN
  /\ meta \in {None, Invalid} /\ sem \in {None, Invalid}
  /\ ~dir => meta = None /\ sem = None
  /\ lock = None /\ temps = {}
  /\ job = [p \in Procs |-> NoJob]
  /\ runs = 0
  /\ crashes = 0 /\ dead = {} /\ intruded = FALSE
  /\ witness = [p \in Procs |-> NoWitness]

Run(p) == job[p].run
ReadyFor(got) == meta \in Runs /\ sem \in Semantic /\ (got = None \/ sem = got)

Goto(p, from, to) ==
  /\ job[p].at = from
  /\ job' = [job EXCEPT ![p].at = to]

End(p) == job' = [job EXCEPT ![p] = NoJob]

-----------------------------------------------------------------------------
(* A command begins.                                                        *)

Begin(p, cmd, at, got, todo) ==
  /\ job[p].at = "idle" /\ runs < MaxRuns
  /\ cmd \in Uses
  /\ runs' = runs + 1
  /\ job' = [job EXCEPT ![p] =
       [cmd |-> cmd, run |-> runs + 1, at |-> at, opened |-> None, got |-> got,
        todo |-> todo]]
  /\ UNCHANGED <<disk, crashes, dead, intruded>>

BeginOpener(p) ==
  \/ Begin(p, "init", "mkdir", None, {})
  \/ Begin(p, "watch", "mkdir", None, {})
  \/ Begin(p, "rebuild", "acquire", None, {})

\* The caller of recovery passes the current semantic state or none.
BeginRecover(p) ==
  /\ dir
  /\ \E got \in {None} \cup [content : Contents, by : {"cache"}] :
       Begin(p, "recover", "clean", got, {})

Present ==
  {n \in Names :
     \/ n = "meta" /\ meta # None
     \/ n = "sem" /\ sem # None
     \/ n = "lock" /\ lock # None
     \/ n = "temps" /\ temps # {}}

BeginPurge(p) == Begin(p, "purge", "remove", None, Present)

-----------------------------------------------------------------------------
(* openLocalIndex                                                           *)

\* What a command does once it has the index with metadata m.
AfterOpen == [init |-> "acquire", rebuild |-> "writeSem", watch |-> "readSem"]
Opened(p, m) ==
  job' = [job EXCEPT ![p].at = AfterOpen[job[p].cmd], ![p].opened = m]

MakeDirectory(p) ==
  /\ Goto(p, "mkdir", "readMeta")
  /\ dir' = TRUE
  /\ UNCHANGED <<meta, sem, lock, temps, rest>>

\* (mutant: the metadata are not validated)
FindUnchecked(p) ==
  /\ job[p].at = "readMeta" /\ meta # None
  /\ Opened(p, meta)
  /\ UNCHANGED <<disk, rest>>

FindIndex(p) ==
  /\ job[p].at = "readMeta" /\ meta \in Runs
  /\ Opened(p, meta)
  /\ UNCHANGED <<disk, rest>>

RefuseIndex(p) ==
  /\ job[p].at = "readMeta" /\ meta = Invalid
  /\ End(p)
  /\ UNCHANGED <<disk, rest>>

\* (mutant: metadata that do not parse are taken for absent ones)
FindUnusable(p) ==
  /\ meta \in {None, Invalid}
  /\ Goto(p, "readMeta", "lock")
  /\ UNCHANGED <<disk, rest>>

FindNoIndex(p) ==
  /\ meta = None
  /\ Goto(p, "readMeta", "lock")
  /\ UNCHANGED <<disk, rest>>

\* (mutant: the lock file is opened whether or not it exists)
TakeLockAnyway(p) ==
  /\ dir
  /\ Goto(p, "lock", "writeMeta")
  /\ lock' = [owner |-> Run(p), old |-> FALSE]
  /\ UNCHANGED <<dir, meta, sem, temps, rest>>

\* open with flag wx ...
TakeLock(p) ==
  /\ dir /\ lock = None
  /\ Goto(p, "lock", "writeMeta")
  /\ lock' = [owner |-> Run(p), old |-> FALSE]
  /\ UNCHANGED <<dir, meta, sem, temps, rest>>

\* ... which fails if the lock exists or the directory is gone.
TakeLockFails(p) ==
  /\ job[p].at = "lock" /\ (lock # None \/ ~dir)
  /\ End(p)
  /\ UNCHANGED <<disk, rest>>

\* index.json is not read again: another open may have published it.
WriteMetaTemp(p) ==
  /\ dir
  /\ Goto(p, "writeMeta", "renameMeta")
  /\ temps' = temps \cup {<<"meta", Run(p)>>}
  /\ UNCHANGED <<dir, meta, sem, lock, rest>>

RenameMeta(p) ==
  /\ job[p].at = "renameMeta" /\ <<"meta", Run(p)>> \in temps
  /\ meta' = Run(p)
  /\ temps' = temps \ {<<"meta", Run(p)>>}
  /\ job' = [job EXCEPT ![p].at = "unlock", ![p].opened = Run(p)]
  /\ UNCHANGED <<dir, sem, lock, rest>>

\* (mutant: an error skips the clean-up)
FailAtOnce(p) ==
  /\ job[p].at \in {"writeMeta", "renameMeta"}
  /\ End(p)
  /\ UNCHANGED <<disk, rest>>

\* The write or the rename throws: on to the finally clause.
FailPublishing(p) ==
  /\ job[p].at \in {"writeMeta", "renameMeta"}
  /\ job' = [job EXCEPT ![p].at = "unlock"]
  /\ UNCHANGED <<disk, rest>>

\* rm(force) by path, whoever's lock it is by then.
Unlock(p) ==
  /\ Goto(p, "unlock", "rmTemp")
  /\ lock' = None
  /\ UNCHANGED <<dir, meta, sem, temps, rest>>

\* (mutant: the error is lost in the finally clause)
FinishOpenAnyway(p) ==
  /\ job[p].at = "rmTemp"
  /\ temps' = temps \ {<<"meta", Run(p)>>}
  /\ Opened(p, Run(p))
  /\ UNCHANGED <<dir, meta, sem, lock, rest>>

FinishOpen(p) ==
  /\ job[p].at = "rmTemp"
  /\ temps' = temps \ {<<"meta", Run(p)>>}
  /\ IF job[p].opened # None THEN Opened(p, Run(p)) ELSE End(p)
  /\ UNCHANGED <<dir, meta, sem, lock, rest>>

-----------------------------------------------------------------------------
(* The semantic state.                                                      *)

\* The tree, which changes all the time, is scanned and its identities are
\* computed: watch does it differently.
AfterAcquire == [init |-> "writeSem", rebuild |-> "readSem", watch |-> "writeSem"]
Acquire(p) ==
  /\ job[p].at = "acquire"
  /\ \E tree \in Contents :
       job' = [job EXCEPT
         ![p].at  = AfterAcquire[job[p].cmd],
         ![p].got = [content |-> tree,
                     by |-> IF job[p].cmd = "watch" THEN "watch" ELSE "cache"]]
  /\ UNCHANGED <<disk, rest>>

\* rebuild keeps a state that equals the current one, watch any; both fail on
\* one that does not parse.
KeepSemantic(p) ==
  /\ job[p].at = "readSem"
  /\ sem # None /\ (sem \in {Invalid, job[p].got} \/ job[p].cmd = "watch")
  /\ End(p)
  /\ UNCHANGED <<disk, rest>>

\* One that parses but lacks fields differs from the current one.
ReplaceSemantic(p) ==
  /\ \/ job[p].cmd = "watch" /\ sem = None /\ Goto(p, "readSem", "acquire")
     \/ job[p].cmd = "rebuild" /\ sem # job[p].got /\ Goto(p, "readSem", "mkdir")
  /\ UNCHANGED <<disk, rest>>

WriteSemTemp(p) ==
  /\ dir
  /\ Goto(p, "writeSem", "renameSem")
  /\ temps' = temps \cup {<<"sem", Run(p)>>}
  /\ UNCHANGED <<dir, meta, sem, lock, rest>>

RenameSem(p) ==
  /\ job[p].at = "renameSem" /\ <<"sem", Run(p)>> \in temps
  /\ sem' = job[p].got
  /\ temps' = temps \ {<<"sem", Run(p)>>}
  /\ End(p)
  /\ UNCHANGED <<dir, meta, lock, rest>>

\* The write or the rename throws; nobody removes the temporary file.
FailSemantic(p) ==
  /\ job[p].at \in {"writeSem", "renameSem"}
  /\ End(p)
  /\ dead' = dead \cup {Run(p)}
  /\ UNCHANGED <<disk, runs, crashes, intruded>>

-----------------------------------------------------------------------------
(* recoverCorruptIndex and the purge.                                       *)

\* Every temporary file, that of a command in progress too, but for those
\* created since the directory was read.
CleanTemps(p) ==
  /\ Goto(p, "clean", "checkLock")
  /\ temps' \in SUBSET temps
  /\ UNCHANGED <<dir, meta, sem, lock, rest>>

\* verifyLocalIndex: the lock ...
CheckLock(p) ==
  /\ Goto(p, "checkLock", IF lock = None THEN "checkMeta" ELSE "statLock")
  /\ UNCHANGED <<disk, rest>>

\* (mutant: damaged metadata count as an absent index)
CheckMetaLeniently(p) ==
  /\ job[p].at = "checkMeta"
  /\ IF meta \in Runs THEN Goto(p, "checkMeta", "checkSem") ELSE End(p)
  /\ UNCHANGED <<disk, rest>>

\* ... the metadata (an absent index is left alone) ...
CheckMeta(p) ==
  /\ job[p].at = "checkMeta"
  /\ \/ meta = None /\ End(p)
     \/ meta = Invalid /\ Goto(p, "checkMeta", "decide")
     \/ meta \in Runs /\ Goto(p, "checkMeta", "checkSem")
  /\ UNCHANGED <<disk, rest>>

\* (mutant: compared although the caller has no current state)
CheckSemAlways(p) ==
  /\ job[p].at = "checkSem"
  /\ IF sem \in Semantic /\ sem = job[p].got THEN End(p) ELSE Goto(p, "checkSem", "decide")
  /\ UNCHANGED <<disk, rest>>

\* ... and the semantic state: absent, damaged or not the current one.
CheckSem(p) ==
  /\ job[p].at = "checkSem"
  /\ IF sem \in Semantic /\ (job[p].got = None \/ sem = job[p].got)
       THEN End(p) ELSE Goto(p, "checkSem", "decide")
  /\ UNCHANGED <<disk, rest>>

\* rm(recursive) reads the directory first.
Decide(p) ==
  /\ job[p].at = "decide"
  /\ job' = [job EXCEPT ![p].at = "remove", ![p].todo = Present]
  /\ UNCHANGED <<disk, rest>>

\* Only an old lock is removed ...
StatLock(p) ==
  /\ job[p].at = "statLock"
  /\ IF lock # None /\ lock.old THEN Goto(p, "statLock", "rmLock") ELSE End(p)
  /\ UNCHANGED <<disk, rest>>

LockRemoved ==
  /\ lock' = None
  /\ intruded' = (intruded \/ (lock # None /\ lock.owner \notin dead))

\* ... and nothing else is looked at in that case.
RemoveOldLock(p) ==
  /\ job[p].at = "rmLock"
  /\ LockRemoved
  /\ End(p)
  /\ UNCHANGED <<dir, meta, sem, temps, runs, crashes, dead>>

RemoveEntry(p, n) ==
  /\ job[p].at = "remove" /\ n \in job[p].todo
  /\ job' = [job EXCEPT ![p].todo = @ \ {n}]
  /\ meta' = IF n = "meta" THEN None ELSE meta
  /\ sem' = IF n = "sem" THEN None ELSE sem
  /\ IF n = "temps" THEN temps' \in SUBSET temps ELSE UNCHANGED temps
  /\ IF n = "lock" THEN LockRemoved ELSE UNCHANGED <<lock, intruded>>
  /\ UNCHANGED <<dir, runs, crashes, dead>>

\* rmdir fails if something has been created meanwhile.
RemoveDirectory(p) ==
  /\ job[p].at = "remove" /\ job[p].todo = {}
  /\ dir' = (dir /\ Present # {})
  /\ End(p)
  /\ UNCHANGED <<meta, sem, lock, temps, rest>>

-----------------------------------------------------------------------------
(* The environment.                                                         *)

Crash(p) ==
  /\ job[p].at # "idle" /\ crashes < MaxCrashes
  /\ crashes' = crashes + 1
  /\ dead' = dead \cup {Run(p)}
  /\ End(p)
  /\ UNCHANGED <<disk, runs, intruded>>

LockAges ==
  /\ lock # None /\ ~lock.old
  /\ lock' = [lock EXCEPT !.old = TRUE]
  /\ UNCHANGED <<dir, meta, sem, temps, job, rest>>

OpenStep(p) ==
  \/ MakeDirectory(p) \/ FindIndex(p) \/ RefuseIndex(p) \/ FindNoIndex(p)
  \/ TakeLock(p) \/ TakeLockFails(p) \/ WriteMetaTemp(p) \/ RenameMeta(p)
  \/ FailPublishing(p) \/ Unlock(p) \/ FinishOpen(p)

SemanticStep(p) ==
  \/ Acquire(p) \/ KeepSemantic(p) \/ ReplaceSemantic(p)
  \/ WriteSemTemp(p) \/ RenameSem(p) \/ FailSemantic(p)

RemovalStep(p) ==
  \/ CleanTemps(p) \/ CheckLock(p) \/ CheckMeta(p) \/ CheckSem(p) \/ Decide(p)
  \/ StatLock(p) \/ RemoveOldLock(p) \/ RemoveDirectory(p)
  \/ \E n \in Names : RemoveEntry(p, n)

Step ==
  \/ \E p \in Procs :
       \/ BeginOpener(p) \/ BeginRecover(p) \/ BeginPurge(p)
       \/ OpenStep(p) \/ SemanticStep(p) \/ RemovalStep(p) \/ Crash(p)
  \/ LockAges

\* history
Observe ==
  witness' = [p \in Procs |->
    LET past  == IF job[p].cmd = "none"
                   THEN [quiet |-> TRUE, kept |-> TRUE, healthy |-> TRUE]
                   ELSE witness[p]
        lost  == (meta # None /\ meta' = None) \/ (sem # None /\ sem' = None)
        ready == meta' \in Runs /\ sem' \in Semantic
                   /\ (job'[p].got = None \/ sem' = job'[p].got)
    IN  [quiet   |-> job'[p].cmd = "recover" /\ past.quiet
                       /\ (job'[p] # job[p] \/ UNCHANGED disk),
         kept    |-> job'[p].cmd \in Openers /\ past.kept /\ ~lost,
         healthy |-> job'[p].cmd = "recover" /\ past.healthy /\ ready]]

Next == Step /\ Observe

Spec == Init /\ [][Next]_vars

-----------------------------------------------------------------------------
(* Properties.                                                              *)

\* The commands between the creation and the removal of index.lock.
Initializing(p) == job[p].at \in {"writeMeta", "renameMeta", "unlock"}

\* At most one command initializes the index (docs/architecture/
\* local-index.md: one exclusive writer), unless recovery or a purge has
\* removed the lock of one that was still running.
InitializersExclusive ==
  \A p, q \in Procs : Initializing(p) /\ Initializing(q) => p = q \/ intruded

HasTemp == [meta |-> {"renameMeta", "unlock", "rmTemp"}, sem |-> {"renameSem"}]

\* A lock or a temporary file belongs to a command that is going to remove it,
\* or was left by one that crashed or could not write the semantic state.
LeftoversAccountedFor ==
  /\ lock # None =>
       lock.owner \in dead
         \/ \E p \in Procs : lock.owner = Run(p) /\ Initializing(p)
  /\ \A f \in temps :
       f[2] \in dead
         \/ \E p \in Procs : f[2] = Run(p) /\ job[p].at \in HasTemp[f[1]]

\* Recovery never decides to remove an index that has been ready, for the
\* semantic state it was given, ever since it was called.
HealthyIndexKept ==
  \A p \in Procs :
    job[p].cmd = "recover" /\ job[p].at \in {"decide", "remove"} => ~witness[p].healthy

\* Nobody replaces damaged metadata: only their removal ends them, and an open
\* in between fails (packages/index/test/storage.test.ts: detects corrupt
\* metadata without replacing it).
DamagedMetadataKept == [][meta = Invalid => meta' \in {Invalid, None}]_meta

\* A command that has written the semantic state leaves an index whose
\* metadata are valid, unless a file of it was removed while it ran.
WrittenMeansReady ==
  [][\A p \in Procs : RenameSem(p) /\ witness[p].kept => ReadyFor(None)']_vars

\* A recovery nobody interferes with ends with an index that is ready for the
\* semantic state it was given, absent or locked: a damaged or incompatible
\* one does not survive it.
RecoveryRepairs ==
  [][\A p \in Procs :
       RemovalStep(p) /\ job'[p] = NoJob /\ witness[p].quiet =>
         \/ ReadyFor(None)' /\ (job[p].got = None \/ sem' = job[p].got)
         \/ meta' = None \/ lock # None]_vars

\* Concurrent opens observe one initialized index (packages/index/test/
\* storage.test.ts): the metadata an open returned stay those on disk while
\* its command runs, unless a file of the index was removed.
OneIndexObserved ==
  \A p \in Procs :
    job[p].opened # None /\ witness[p].kept => meta = job[p].opened

=============================================================================
