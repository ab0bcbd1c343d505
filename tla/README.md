# Fuzit: specifications

Fuzit packs a repository into context bundles for language models. This directory
specifies it in TLA+, checks the specifications with TLC and proves the central
properties with TLAPS. It has three parts:

- the *core*: the local index (`packages/index`) and the watcher that keeps it up to
  date (`packages/watcher`), which keep state across calls, processes and crashes;
- the *services*: what talks to another process, namely the plugin host, the MCP server,
  the editor extension and the GitHub provider;
- the *pipeline*: what a single invocation does with a repository, from acquisition and
  selection over the graph, snapshots and invalidation to packs and the other commands.

## The system

| component | state | operations | talks to |
|---|---|---|---|
| writer lock (`watcher/src/lock.ts`) | `writer.lock` on disk; `acquired` and metadata per object | `acquire`, `release` | other processes, through the file |
| watcher daemon (`watcher/src/daemon.ts`) | `running`, `currentStatus`, the abort controller | `start`, `processPendingBatch`, `stop`, the status | adapter (callback), coalescer, lock, applier, reconciler |
| adapter (`adapter.ts`) | `watching` | `start`, `stop`, `emitSyntheticEvent` | calls the daemon's `onEvent` |
| coalescer (`coalescer.ts`) | `pendingEvents` | `push`, `flush` | daemon |
| verifier, applier (`verifier.ts`, `applier.ts`) | locals of one call | stat and read a path; merge the outcomes into the committed records | file system, index transactions |
| reconciler (`reconciler.ts`) | locals of one call | scan the tree, compare by size and mtime, read what differs | file system, index transactions |
| index transactions (`index/src/storage/transaction-store.ts`) | `committed-state.json`, `transactions/*.staged.json` | `commitAtomicIndexTransaction`, `readCommittedIndexState` | readers, recovery |
| index store (`index/src/storage/store.ts`) | `index.json`, `index.lock`, `semantic.json` | `openLocalIndex`, `inspectLocalIndex`, read and write of the semantic state | CLI |
| verification and recovery (`index/src/verification`, `recovery`) | none | `verifyLocalIndex`, `recoverCorruptIndex` | all files of the index |
| invalidation, migrations, records (`index/src/invalidation`, `migrations`, `file-record-store.ts`) | none | pure functions over records and dependency edges | - |
| plugin host (`plugin-host`, `schemas/src/plugin`) | pending requests, timers, decoder buffer, child process | `performHandshake`, `executeCapability`, `cancelRequest`, `shutdown`, `kill` | a plugin process over stdio |
| MCP server (`apps/mcp-server`) | input buffer, `closed` | one handler per line, concurrently | a client over stdio |
| VS Code extension (`apps/vscode-extension`) | task controllers and watch entries per root | `runTask`, `cancelTask`, `cancelAllTasks`, `start`, `stop` | the editor, the CLI |
| GitHub provider (`provider-github`) | locals of one request chain | bounded requests, redirects, pagination, issue and pull request resolution | HTTP |
| scanner, discovery, config, git, security | locals | traversal with ignore rules, layered configuration, git output, redaction | file system |
| analysis, graph, selection, budgeting, snapshots | locals | pure transformations with bounds | - |
| renderers, profiles, benchmark, testing, scripts, CLI | locals | formatting, tables, fixtures, release tooling, argument parsing | - |

`PROJECT.json` lists every component with what is modelled of it, and under `hazards`
what is hard to test in this code, at the line where it bites.

**What is hard.** Daemons of several processes share one index and only the lock file
keeps them apart; each access to a file is an await, so others run between any two; a
process may die anywhere; `recoverCorruptIndex` removes files under everybody's feet;
the working tree changes while it is looked at; events are merged, dropped on overflow
and lost with a batch that fails.

**What makes it correct.**

- lock: one holder; its lock file is on disk and names it;
- transactions: readers see whole states only; a removal leaves a tombstone and no
  tombstone is lost; staging files are cleaned up;
- daemons on one index: the lock makes their transactions exclusive;
- watcher: the index follows the tree, except where the code knowingly loses a change;
  a reconciliation makes both equal; a batch settles;
- index store: one initializer at a time; damaged metadata are never written over; a
  written index is ready; recovery leaves a healthy one alone and repairs a damaged one;
- plugin client: every request settles, by an answer to itself or with a failure, and
  nothing waits for a plugin that has exited;
- MCP server, editor, GitHub: one answer per line; only running work is tracked; a job
  that reports success has whole answers, and every job ends;
- acquisition, selection, graph, searches, snapshots, invalidation: nothing is lost
  between steps or under disturbance, bounds hold and what was cut says so, results
  agree with a reference;
- pack and the commands: an exit code says what is on disk, also after crashes and edits
  between two writes.

## Modules

| module | models | composed from |
|---|---|---|
| `WriterLock` | `lock.ts`, every await of `acquire` and `release` | |
| `CommittedIndex` | the promise of `docs/architecture/local-index.md` to readers | |
| `IndexTransactions` | `commitAtomicIndexTransaction` for concurrent writers, with the removal of staging files by recovery | refines `CommittedIndex` |
| `ExclusiveWriters` | daemons (`start`, a batch, `stop`, a crash) that share an index | `WriterLock`, `IndexTransactions` |
| `WatcherDaemon` | one daemon against a changing tree, from event to record | |
| `IndexLifecycle` | `store.ts`, `verify.ts` and `recovery.ts` under the commands that call them | |
| `PluginCompatibility`, `PluginClient` | `compatibility.ts`; `host.ts` over the decoder of `protocol.ts`, against any plugin | |
| `McpServer` | `transport.ts`, `server.ts`, `tool-runner.ts` and the tools | |
| `EditorTasks`, `EditorCommands` | `multi-root.ts`; `commands.ts`, `snapshot.ts`, `watch.ts` | |
| `GitHub` | `transport.ts`, `pagination.ts`, `source-parser.ts` and the commands and runners over them | |
| `Services` | one of these in each behaviour | the five above |
| `Acquisition` | `acquireRepository` over scanner and security filter | |
| `Selection` | `createTaskContext` | |
| `GraphStore`, `GraphSearch` | construction and transactions; `queries.ts`, `graph-distance.ts`, `expand.ts` | |
| `Snapshots` | save, list, read, `computeSnapshotDelta`, `selectDeltaScope` | |
| `Invalidation` | `dependencies.ts`, `evaluate.ts` | |
| `Pack` | the pack command, `executeDualPack`, `executePrPack` | |
| `Commands` | the other commands of the CLI | |
| `Pipeline` | one of these in each behaviour | the eight above |
| `WriterLockProofs`, `IndexTransactionsProofs`, `ExclusiveWritersProofs`, `WatcherDaemonProofs`, `IndexLifecycleProofs`, `ServicesProofs`, `PipelineProofs` | theorems | the module each is named for |
| `RepositoryProofs` | theorems about `GraphStore`, `Snapshots`, `Commands`, `Acquisition` and `Invalidation`; the other parts are in `PipelineProofs` | `Pipeline` |
| `MC...` | instances for TLC | |

`WriterLock`. A file is the inode it was created as (`creator`), whether its metadata
are written (`complete`) and whether 30 s have passed (`stale`). `lk[i]` is where
instance `i` is: `BeginAcquire` enters `acquire`; `FindAbsent`, `Readopt`, `Reject` and
`FindClearable` are its branches after the read; `Purge` is the `rm`; `Create`,
`CreateExists` and `WriteMetadata` are the two halves of `writeFile` with `wx`;
`BeginRelease` and `RemoveLock` are `release`. `rm` removes a *name*, so it may hit a
file created since the read. `Hazards` names what the environment may do.

`IndexTransactions`. `pc[w]` is the next await of writer `w`. `ReadAndDecide` is the
caller up to the commit; `Prepare` the second read and the tombstones; `CreateStaged`,
`WriteStaged`, `Validate`, `Rename` and `Cleanup` the staging; `StagedExists`,
`FailUnstaged` and `FailStaged` what throws. A rename of an incomplete file would make
the committed state `Corrupt`. `orphans` and `acked` are history variables.

`ExclusiveWriters`. A daemon acquires in `Start`, begins transactions only while it
holds the lock, and releases in `Stop`. The transactions never look at the lock, so
every step of one component leaves the other alone.

`WatcherDaemon`. `fs` is the tree: contents are numbered, and a file has a `hash` and a
`meta` (size and mtime). Each change emits its event, which is queued only while the
daemon runs. `Flush` coalesces; `VerifyAbsent`, `VerifyStat`, `VerifyRead` and
`VerifyReadFails` look at each path; `CommitBatch` merges the outcomes into the
records. An overflow goes through `ScanPath`, `ProcessUnchanged`, `ProcessChanged` and
`CommitReconciled`. The history variable `missed` records, with a reason, each path
whose last change the daemon has no event for any more; the properties speak about
everything else.

`IndexLifecycle`. A command is one process that runs `init`, `rebuild`, `watch`,
`recover` or `purge`; `job[p].at` is its next await. `MakeDirectory` to `FinishOpen` are
`openLocalIndex`; `Acquire` to `FailSemantic` the semantic state; `CleanTemps` to
`RemoveDirectory` recovery, with `verifyLocalIndex` in the middle (`CheckLock`,
`CheckMeta`, `CheckSem`), and the `rm -r` it shares with `cache purge`, entry by entry.
A run of a command is a number, and so are the metadata it creates. A semantic state is
the content of the tree and who computed it, because `watch` derives the identity of
the ignore policy differently from the cache commands. `Invalid` is any file that does
not parse, is of another schema or repository, or lacks fields. `dead`, `intruded` and
`witness` are history: who crashed, whether a lock was removed under a running command,
and what changed while a job ran.

`PluginClient`. `frames` is what the plugin wrote, as header and payload tokens;
`received` and `parsed` say how far the pipe and the decoder are, so that a `Data` event
may end anywhere. `request[id]` is a request from `SendRequest` to how it settled; the
handshake and the shutdown are requests like capability calls, as in the code.
`WriteFrame` and `Exit` are the plugin, which may do anything.

`McpServer`. A data event hands whole lines to handlers that all start at once:
`ImmediateErrors` are answered in the event, `ImmediateResults` by the microtasks behind
it, calls whenever `McpFinish` happens; `McpClose` is the end of the input.

`EditorTasks`. The Map objects of `CancellableTaskRunner` are numbers, because a run
cleans up the object it was entered in, and `controllers` may hold another by then.
`EditorCommands` is the order of checks of each command and its reply.

`GitHub`. A job is a command, its requests are slots; `Respond`, `BodyEnds`,
`TimeoutFires`, `NetworkFails` and `CancelReaches` settle them in any order, and the
operators `...State` are what the job does with the outcomes it has.

`Acquisition`. A path is a sequence of names; of a file the model has what the code finds
out about it, of each ignore layer its verdict. `Disturb` changes or removes files
between any two steps.

`Selection`. `Consider` decides one candidate; `DecidedBefore` has the anchors first.

`GraphStore`. `stage` is the next `materialize` function; `ApplyTransaction` follows.
`GraphSearch`. The loops are steps: a round of `graphNeighbors` visits node by node, the
scoring takes a path and scans its edges (`TakePath`, `ScanEdge`), the expansion takes a
node off its queue and follows its edges (`TakeNode`, `FollowEdge`). `found` keeps the way
to each node, so that the properties can ask for the shortest.

`Snapshots`. Files are inodes: `Rename` publishes whatever the temporary name refers to,
and a writer that has it open goes on writing to it. `raced` is history.

`Invalidation`. `AddChange` is the loop over the changes, `TakeEntry` and `AddDependent`
the loop over the queue and the one inside it; `Add` has the early returns.

`Pack`. `phase` is the next await: the repository is read, filtered, transformed, read
again for the analysis, compared with a baseline, rendered, cut into parts and written part
by part, while `EditRepository` may happen and any write may fail. The content of a file is
a function from the numbers of its lines to their kinds, so that a line that is dropped
leaves the numbers of the others; a bundle is the set of its lines `<<path, number, kind>>`,
ordered by `Earlier`; `SplitLine` is one round of the loop of `splitPackedOutput`.

`Commands`. A command looks, plans its writes and does them one by one (`WriteNext`);
`WriteFails` is a full disk or a kill, `Edit` the user. Commands that only answer are
their exit codes. `lost`, `meddled` and `interrupted` are history.

The components of `Services` share no state, nor do those of `Pipeline`: they run in
different processes, or hand values to each other inside one call. Composing them as
alternatives gives TLC one state space for each part; where components do share files,
the core composes them for real.

## Runs

| run | expected | asks |
|---|---|---|
| `writers_locked` | pass | do two daemons with a working lock implement `CommittedIndex`, lose no evidence, leave no staging file? |
| `writers_broken` | pass | what still holds when the lock fails: whole states, no unaccounted staging file |
| `watcher_follows` | pass | does the index follow the tree, and does a reconciliation converge? |
| `watcher_atomic_save` | pass | do saves by rename reach their target, does every batch settle? |
| `index_lifecycle` | pass | does the index survive its commands: one initializer, no leftovers without a cause, no damage written over, recovery that repairs and spares? |
| `services` | pass | does every request, line, task and job settle once and genuinely, whatever the other process does? |
| `pipeline` | pass | is what one invocation reads, selects, finds, saves, packs and reports all there, within its bounds and honest about it? |
| `lock_race` | violation | two overlapping `acquire` calls |
| `writers_stale` | violation | a live daemon whose lock is older than 30 s |
| `watcher_coalesce` | violation | delete, add, delete of an indexed file in one batch |
| `watcher_metadata` | violation | a file replaced between its stat and its read, and put back |
| `index_first_open` | violation | two first opens of one index |

**What the violations show.** (1) `writer.lock` is empty between its creation and the
write of its metadata; an `acquire` that reads it then takes it for a corrupt file and
removes it. (2) `createdAt` is never renewed and a lock older than 30 s is cleared
without asking for its owner; two transactions then start from one committed state and
the later rename erases the tombstones of the earlier. (3) `add` and `delete` of a path
cancel each other out in the coalescer even when an earlier `delete` was absorbed by
that `add`, so nothing looks at the path. (4) The verifier takes size and mtime before
the content; if a file is replaced in between, its record has the new hash with the old
metadata, and if the old file comes back with its mtime, reconciliation trusts the
record. (5) `openLocalIndex` does not read `index.json` again once it has `index.lock`;
an open that saw none replaces the metadata an earlier open has published and returned.
Each is listed under `findings` with the sentence it contradicts.

Other disagreements met while reading, which no run is about: rename targets are never
indexed (the coalescer and the verifier use `event.path` only); only an overflow
requires reconciliation, although `docs/concepts/incremental-operation.md` lists more
reasons; the `overflow` event kind is treated like any other; the option `--reconcile`
of `fuzit watch` is not read; `watch --foreground` never processes a batch; the status
becomes `watching` after `stop` when a reconciliation in flight commits; `cache rebuild`
fails on damaged metadata, which `docs/troubleshooting/README.md` says it cures; an
index whose semantic state `watch` wrote is never what `cache verify` expects; `rebuild`
keeps `committed-state.json`; recovery that removes an old lock looks at nothing else. In the services and the pipeline: the
redirect limit of the GitHub transport is never compared; the forced kill of a plugin is
never sent; the end of a cancelled editor task drops the tasks started since; a purge that
dies before the semantic state leaves a state that `cache rebuild` calls current without
an index; `init` calls a configuration with a byte order mark invalid that every other
command loads; `--since` with a filter reports hidden files as deleted; a bare `fuzit`
reports success when files could not be read; a search that ends at its depth is not
called truncated. The properties state these exceptions, so that they stay visible.

**Bounds.** Two daemons and two transactions each suffice for every interference between a
read, a rename and a lock step: a third only repeats what the second can do, and the
theorems hold for any number. One staging name per writer makes each crash leave the
name the next transaction collides with. `writers_locked` uses two paths and one hash;
which hash a tombstone keeps is distinguished from `None`, and `writers_stale` uses two.
`MaxChanges = 3` with `MaxBatchSize = 2` lets one path change before, during and after
a batch and lets a batch overflow; `watcher_coalesce` needs four changes. One crash is
enough to lose a queue and a call. `Symmetry` permutes daemons, or ordinary paths; it
is used only where no `CHOOSE` ranges over them.

`index_lifecycle` has two processes and three commands: two that overlap, and one before
or after them, on an index that is absent, damaged or half removed at first. One content
suffices, because `watch` and the cache commands disagree about it. One crash leaves a
lock or a temporary file; errors are unbounded.

`services` has one capability call beside the handshake and the shutdown, three frames
(one of each kind, or two that share a chunk with a bad one), three lines, three runs of
one task on two roots (the fewest in which a cleanup meets a newer Map), two pages and one
redirect. `pipeline` chooses its inputs so that each rule decides somewhere:
`MCTrees` has a layer that overrides a weaker one, a sensitive and a hard excluded file
that an include cannot save, and every outcome of a read; candidate sets are all fours of
nine candidates; the graphs have a branch, a cycle, an unresolved edge; three manifests
differ by renames and copies; two savers suffice to share a temporary file; two packs
follow each other, so that the second meets the output of the first; two commands that
write, one edit and any number of failures meet between any two writes. `MaxDisturbances`,
`Transactions`, `MaxCalls`, `MaxCommands`, `MaxEdits`, `MaxHops`, `MaxRuns`, `MaxLines` and
`MaxFrames` are bounds of the models, not of the code.

`MetaMayRepeat` is TRUE where the property excuses a deceptive mtime (`"trusted"`), and
FALSE in `watcher_metadata`, where no write repeats size and mtime, to show that the
wrong record does not need one.

**Environment and fairness.** `"race"` (overlapping `acquire`), `"slow"` (an owner that
outlives the threshold) and `"stop"` (a stop during a batch) are switched on by the
runs that are about them. `processPendingBatch` is awaited by its only caller in the
CLI, so one call at a time; so are `start` and `stop`, which do not overlap each other
but may overlap a batch. The only fairness is weak fairness of the steps of a batch in
progress (`BatchSettles`): a promise of file system calls settles. Nothing is assumed of
the tree, the user or `start`. `services` assumes that timers fire, that the exit of a
child process is reported and that SIGKILL ends it (`RequestsSettle`, `JobsSettle`), and
nothing of plugins, servers and networks. `pipeline` has no liveness property: its loops
run to completion in one call. The deadlock check is off in the runs of `IndexLifecycle`,
`services` and `pipeline`, where the work is finite and all of it ends.

## Proofs

| theorem | says | assumes |
|---|---|---|
| `LockExcludes`, `LockIsInspectable`, `LockTypeCorrect` | `MutualExclusion`, `HolderOnDisk`, types | `CalmEnvironment`: neither `"race"` nor `"slow"` |
| `TxCommittedWhole`, `TxStagingAccounted`, `TxTypeCorrect` | whole states, accounted staging files, types | nothing: any number of writers without a lock |
| `TxEvidenceKept`, `TxImplementsCommittedIndex` | evidence kept, refinement of `CommittedIndex` | `Exclusive`: one transaction at a time |
| `WritersInvariant`, `WritersKeepEvidence`, `WritersRetainTombstones`, `WritersImplementCommittedIndex` | the same of daemons with their lock, for any number | `OrderlyEnvironment`: calm, and no stop during a batch |
| `WritersTypeCorrect`, `WritersSerialize` | types; the daemons implement the transactions of one exclusive writer (`SingleWriterSpec`) | `OrderlyEnvironment` |
| `DaemonTypeCorrect`, `DaemonFollowsTree`, `DaemonConverges`, `DaemonFollowsSaves` | types, `IndexFollowsTree`, `ReconciliationConverges`, `AtomicSavesFollowed` | nothing: any paths, contents, batches |
| `LifecycleTypeCorrect`, `LifecycleExcludes`, `LifecycleKeepsDamage`, `LifecycleLeavesNothing` | types, `InitializersExclusive`, `DamagedMetadataKept`, `LeftoversAccountedFor` | nothing: any number of processes and commands |
| `RecoveryKeepsHealthy`, `WritersLeaveReady`, `RecoveryLeavesReady` | `HealthyIndexKept`, `WrittenMeansReady`, `RecoveryRepairs` | the same |
| `TasksInvariant`, `OnlyRunningTasksTracked` | types and `TrackedTasksRun` of the editor's task runner | nothing: any number of roots, tasks and runs |
| `PluginInvariant`, `PluginAnswersGenuine`, `PluginFramesSurvive`, `PluginNothingWaits`, `PluginSilentAfterKill` | `AnswersAreGenuine`, `FramesSurviveChunking`, `NothingWaitsForTheDead`, `SilentAfterKill` | nothing: any calls, any plugin, streams of any length |
| `McpInvariant`, `McpLinesAccounted` | `LinesAccountedFor` | nothing: any number of lines and cuts |
| `GitHubInvariant`, `GitHubResultsWhole` | `ResultsAreWhole` | nothing: any number of pages and redirects |
| `ServicesTypeCorrect` | types of all services | the same |
| `GraphStaysClosed` | `GraphClosed` | nothing: any analysis, any number of transactions |
| `SnapshotsStayFaithful` | `SnapshotsFaithful` | nothing: any manifests, any finite number of savers |
| `CommandsStayHonest` | `CommandsHonest` | nothing: any start, any sequence of commands, edits and kills |
| `FilesStayAccountedFor` | `FilesAccountedFor` | nothing: any finite tree, any rules, any changes meanwhile |
| `InvalidationStaysSound` | `InvalidationSound` | nothing: any records, any changes, any limit |
| `SelectionStaysFair` | `SelectionFair` | nothing: any finite set of candidates, any budget |
| `SearchesStaySound` | `GraphSearchSound` | nothing: any finite graph, any request |
| `PackStaysHonest` | `PackHonest` | nothing: any repositories, options, pull requests, edits and failing writes |
| `PipelineTypeCorrect` | types of all parts of the pipeline | the same as for each part |

"Nothing" means nothing beyond the `ASSUME` of the component's module, which says what its
constants are: `None` is no path and no file; the host's own request ids are no calls; a
tree is finite and what has something in it is a directory; a start has no torn file. TLC
evaluates each of them on the constants of the runs.

*Lock.* `MutualExclusion` is not inductive: a second instance could be about to create
a file, or about to remove one. `LockInv` adds that only one instance is in `acquire`
(the calm environment), that a holder's file is on disk, complete and its own process's,
that an instance past its read has found no respected lock, and that a stale file has a
dead owner. Each action then needs a few lines.

*Transactions.* `CommittedViewIsWhole` needs that a file read back complete stays so
until it is renamed (`ReadBackIsWhole`): a name belongs to one writer, and recovery can
remove but not truncate. `StagingAccountedFor` is inductive together with the types
once stated per writer and name. For the refinement, `UpToDate` says that the removals
a call was given are those of the state it is about to read, that its plan extends the
state it is about to replace, and that an acknowledged plan is the committed state;
it is preserved because nobody else publishes (`SingleOpen`).

*Daemons.* `HeldWhileOpen` (an open transaction belongs to a holder) and the lock's
invariant make the transactions exclusive (`LockSerializes`), so the invariant of the
exclusive transactions holds without the switch `Exclusive`, and with it their
refinement. `WritersSerialize` is the other half: the module of
the transactions looks at `Exclusive` in `ReadAndDecide` only, and there the lock does the
same.

*Watcher.* What the index will say of a path when the call in progress ends is `Outcome`.
`IndexFollowsTree` is inductive in the form `Accounted`, once it says of temporary files
what it says of the others; but a reconciliation keeps records it has not read, so
`StatFresh` adds that a path changed since its scan is in the queue unless the daemon was
stopped, and `CalmTrue` that without changes what was scanned and found is what is there.
`Filled` and `CallShape` say that a call knows what it is about to use.

`AtomicSavesFollowed` rests on what the coalescer returns. It is a fold over the queue, for
which a least counterexample has to stand in for the induction: there is a batch after each
event, one step of `Coalesce` from the one before (`RunExists`). The last event that touches
a path the flush leaves out as a target is a rename, for only renames move a file
(`OnlyRenamesMove`); had it come from a temporary file, the path would have been entered in
the batch then and left there (`SavedIsKept`).

*Index.* `InitializersExclusive` needs that the lock file names the command that
initializes the index (`OwnsLock`), which holds until somebody removes it under a running
command; that only a dead command's lock is removed otherwise, hence that running
commands are not among the dead (`JobOK`) and are told apart by their numbers
(`DistinctRuns`). `DamagedMetadataKept` needs that a command between its read of
`index.json` and its rename has found no damaged one and that none appears meanwhile
(`FoundNone`). Most steps are calm: `CalmInv` settles them once.

The properties that look back need more than the files. `Progress` says what a command must
have done to be where it is, `KeptMeta` that metadata an open has found or published stay
valid while nothing is removed, `Quiet` that what a recovery has found is still so while
nobody interferes, and `Unhealthy` that a recovery about to remove something has not seen
a ready index all along. `LeftoversAccountedFor` is inductive with the types; its steps
differ only in what they add and give up (`StaysAccountedFor`).

*Editor tasks.* A run that ends cleans up the Map it was entered in, which its root may
have lost since; a root's Map may only hold its own running work because no other root
ever holds that object and all runs entered in it are of one root (`ControllersOK`,
`MapsOK`). `TasksSpec` is `EditorTasks` alone; `Services` takes its steps unchanged.
`ShrinkingKeeps` settles every action but `RunTask`.

*Plugin client.* `FramesSurviveChunking` is about the decoder's loop, which the model has
as its result: a loop that stops at the first frame that is incomplete, bad or beyond the
chunk. Such a frame exists and is the least of a set of numbers (`LeastNumber`), so without
bad frames the decoder has parsed exactly the whole frames received (`StreamOK`). An answer
is genuine because a request is `answered` only when its response was delivered
(`RequestsOK`), and nothing waits because the exit settles whatever is pending (`ExitOK`).

*MCP server.* A line that was taken has an answer unless it is in progress or `null`
(`TakenOK`), only one (`AnsweredOnce`), and what needs no work is answered in turn but for
errors, which overtake the results of their own event (`InTurn`). That the answers of an
event are a list of its lines in order is shown of `InOrder` itself.

*GitHub.* Which requests may be in flight follows from the kind of the job (`SlotsOK`);
`DoneOK` and `PagesOK` say what a job that is done rests on.

*Graph.* `GraphClosed` speaks of complete graphs; `CompleteSoFar` says stage by stage what
one already has while no diagnostic was written, because later stages drop what an earlier
one did not place. That the longest package root above a file exists is `LargestNumber`.

*Snapshots.* An inode stands for one snapshot (`InodesApart`), and the only saver of a
snapshot has the inode its rename will publish (`SaversAlone`). A saver always finds a free
inode because each one in use was taken by a save of its own (`InodesTaken`), which is an
injection into the saves and a pigeonhole. That a comparison accounts for every file of
both snapshots is a lemma about `Compared` alone (`ComparisonAccounts`).

*Commands.* What a command says at its end it has planned at its start; `Goals` says of each
kind that what it is about holds already or is still among its writes, unless the user has
edited meanwhile. `IndexBeside` and `Losses` say what holds between commands: no state
without an index but for a purge, and no configuration overwritten that was compatible when
the command looked.

*Acquisition.* The stack must hold no path twice, nothing above anything else on it, and
nothing above what is accounted for already (`InFront`): so an item is never read twice and
nothing is both acquired and reported. `Covered` says that each file that exists is
accounted for or below something on the stack, which a directory passes on to the child on
the way (`ChildOnTheWay`); `ReasonsGiven` says what an omission without a failure may be
about. The rules as the code evaluates them are those a reader expects (`RulesAgree`).

*Invalidation.* That the affected paths are closed is only true at the end. Before it,
`NoneForgotten` says of each dependent of an affected path that it is affected, or is among
those being added, or the path is in the queue; `NothingElse` says that every closed set
with the changed files has what is affected so far, which makes the result the least one.
Both hold without truncation and for wide changes only. `Justified` is the accounting of
reasons and of the limit, by cardinalities that grow by one together.

*Selection.* `SelectionFair` is inductive once `SelectionInv` adds that what is decided comes
before what is not (`DecidedBefore`): a candidate left out for its size stays left out
because sums only grow, and a worse one that fits later must have fitted then. The token sums
are folds, whose value no induction over data can give here. What they are is shown by a
least counterexample instead: a sum is the last entry of a tally, of which each entry adds
one element (`TotalPlus`), and two tallies of one set agree in it.

*Searches.* The searches in rounds keep a `Level` for each node they know. A node of a level
that is done is `Opened`, all its neighbours are known one level on; one of the current
level may still be `Opening`: its turn comes, or its edges are scanned up to `at`. From that
no walk leads to a node before its level (`WalkLevels`, by the first step of the walk that
would), so levels are distances and, when nothing cut the search, all nodes within the
depth are found. The expansion keeps its queue in order of length (`QueueInv`), so ways are
taken shortest first; a neighbour of a node that was taken is `Placed` (taken no later,
queued, or too expensive) or still `ToFollow`, and with an empty queue every node it could
have taken no longer fits (`OweNothing`). The proof corrected the property: a takeable
node that lies within the depth on ways through *other nodes that were not taken* may have
room, so the last clause of `GraphSearchSound` asks for ways through the nodes taken.

*Packs.* `PackHonest` looks at the end of a call only. `PackInv` says, phase by phase, what
the end will rest on: what a call has not done yet is as it started (`NothingYet`); its
items have the content of one reading, and the analysis saw the same tree unless somebody
edited it (`ItemsRead`); what was admitted is all there but for filters and failed reads
(`ItemsAdmitted`), with the changes asked for (`ItemsTransformed`); what is called deleted
is not in what was read, unless something was filtered or could not be read
(`DeletedIsGone`). While a bundle is cut, each line that is in no part comes after all that
are, so the line the loop takes next may only extend the last part (`PartsGrow`), and no
part is over the size unless it is one line. Of the parts, the first `written` are on disk
under different names (`PartsWritten`), and a call that writes one file has touched no other
(`Untouched`). `DeliveryKeeps` puts these together for the three ways a call can end well; a
failure promises nothing but the last (`FailureIsHonest`). Sizes are folds over sets of
lines and use the same tallies as the token sums of the selection.

*Types of the pipeline.* `PipelineTypeOK` follows from the invariants of the parts, but for two:
`Acquirings` says that what is reported is of the tree, `CommandsTyped` that the contents of
the files have an origin and that exit codes are exit codes.

The assumptions of the first proofs are exactly what the violation runs drop: `lock_race`
is `"race"`, `writers_stale` is `"slow"`.

Only model-checked: liveness (`BatchSettles`, `RequestsSettle`, `JobsSettle`), which is out
of the prover's reach, and the five violations. Every other property of a passing run is a
theorem.

## Not modelled

In the core: directories and the `directory-rename` and `overflow` events; ignore patterns;
the validation of events and records; symlinked index directories; sharing of staging names
between two writers (two reconciliations in one millisecond have the same name); I/O errors
of the lock other than an existing or an absent file; overlapping batches of one daemon,
which its only caller awaits.

In the services: the permission broker and the plugin side of the protocol; previews and
the wiring of the editor; the normalisation of GitHub payloads.

In the pipeline: the text of things. Scores, token counts, hashes, detected languages and
symbols, git output and redactions are inputs, because what computes them is arithmetic on
strings (`analysis`, `security`, `git`, the scorers of `selection`, `renderers`), and no
state, order or failure is in it. Formatting of the output, the interactive `ui`, and code
that no command calls (resource limits, migrations, fingerprints, `enforceBudget`) have
no module. `PROJECT.json` lists every component with the reason.

## Plan

1. *Done*: lock, transactions, daemons on one index, the daemon itself, `IndexLifecycle`;
   the proofs of the table above.
2. *Done*: the services and the pipeline, each with its runs; the proof of the task runner.
3. *Done*: the proofs of the watcher, the life of the index, the services and the
   pipeline, of all that is not liveness.
4. Left to model: the permission broker, and the queue of a daemon with directories.
