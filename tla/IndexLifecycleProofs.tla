------------------------ MODULE IndexLifecycleProofs ------------------------
(***************************************************************************)
(* Every safety property of IndexLifecycle but OneIndexObserved, which does *)
(* not hold, for any number of processes, runs and contents.               *)
(***************************************************************************)
EXTENDS IndexLifecycle, TLAPS

Running(p) == job[p].at # "idle"
OpenerSteps ==
  {"mkdir", "readMeta", "lock", "writeMeta", "renameMeta", "unlock", "rmTemp",
   "acquire", "readSem", "writeSem", "renameSem"}

\* What a job in progress knows of itself.
JobOK(p) ==
  /\ job[p].at \in OpenerSteps => job[p].cmd \in Openers
  /\ Running(p) => Run(p) \in 1 .. runs /\ Run(p) \notin dead

\* Runs are told apart by their numbers.
DistinctRuns ==
  \A p, q \in Procs : Running(p) /\ Running(q) /\ Run(p) = Run(q) => p = q

\* Until somebody removes it under a running command, index.lock is that of
\* the command that initializes the index.
OwnsLock(p) == Initializing(p) /\ ~intruded => lock # None /\ lock.owner = Run(p)

\* A command on its way to publish metadata has found none, so that there are
\* no damaged ones it could replace.
Publishing(p) == job[p].at \in {"lock", "writeMeta", "renameMeta"}
FoundNone(p) == Publishing(p) => meta # Invalid
Undamaged == meta' = Invalid => meta = Invalid

IInv ==
  /\ TypeOK
  /\ \A p \in Procs : JobOK(p)
  /\ DistinctRuns
  /\ dead \subseteq 1 .. runs
  /\ \A p \in Procs : OwnsLock(p)
  /\ \A p \in Procs : FoundNone(p)

-----------------------------------------------------------------------------
(* What a step does to the jobs.                                            *)

JobsTyped == job \in [Procs -> Job]
OthersKept(p) == \A q \in Procs \ {p} : job'[q] = job[q]

\* The job of p goes on, or it ends.
GoesOn(p) ==
  /\ JobsTyped' /\ OthersKept(p)
  /\ Running(p) /\ Run(p)' = Run(p) /\ job'[p].cmd = job[p].cmd
Ends(p) == JobsTyped' /\ OthersKept(p) /\ job'[p] = NoJob

\* A job keeps its type, its run and its command when it moves, ...
LEMMA MoveJob ==
  ASSUME NEW f \in [Procs -> Job], NEW p \in Procs, NEW to \in Steps
  PROVE  LET g == [f EXCEPT ![p].at = to] IN
         /\ g \in [Procs -> Job]
         /\ \A q \in Procs \ {p} : g[q] = f[q]
         /\ g[p].at = to /\ g[p].run = f[p].run /\ g[p].cmd = f[p].cmd
BY SMT DEF Job

\* ... when it learns which metadata are the index's, ...
LEMMA OpenJob ==
  ASSUME NEW f \in [Procs -> Job], NEW p \in Procs, NEW m \in Runs
  PROVE  LET g == [f EXCEPT ![p].opened = m] IN
         /\ g \in [Procs -> Job]
         /\ \A q \in Procs \ {p} : g[q] = f[q]
         /\ g[p].at = f[p].at /\ g[p].run = f[p].run /\ g[p].cmd = f[p].cmd
BY SMT DEF Job

\* ... when it computes a semantic state, ...
LEMMA GetJob ==
  ASSUME NEW f \in [Procs -> Job], NEW p \in Procs, NEW s \in Semantic
  PROVE  LET g == [f EXCEPT ![p].got = s] IN
         /\ g \in [Procs -> Job]
         /\ \A q \in Procs \ {p} : g[q] = f[q]
         /\ g[p].at = f[p].at /\ g[p].run = f[p].run /\ g[p].cmd = f[p].cmd
BY SMT DEF Job

\* ... and when the files it has to remove change.
LEMMA TodoJob ==
  ASSUME NEW f \in [Procs -> Job], NEW p \in Procs, NEW t \in SUBSET Names
  PROVE  LET g == [f EXCEPT ![p].todo = t] IN
         /\ g \in [Procs -> Job]
         /\ \A q \in Procs \ {p} : g[q] = f[q]
         /\ g[p].at = f[p].at /\ g[p].run = f[p].run /\ g[p].cmd = f[p].cmd
BY SMT DEF Job

\* Goto goes on elsewhere.
LEMMA GotoGoesOn ==
  ASSUME JobsTyped, NEW p \in Procs, NEW from \in Steps \ {"idle"}, NEW to \in Steps,
         Goto(p, from, to)
  PROVE  GoesOn(p) /\ job[p].at = from /\ job'[p].at = to
BY MoveJob DEF JobsTyped, Goto, GoesOn, OthersKept, Running, Run

\* So does an error that is caught.
LEMMA MoveGoesOn ==
  ASSUME JobsTyped, NEW p \in Procs, NEW to \in Steps, Running(p),
         job' = [job EXCEPT ![p].at = to]
  PROVE  GoesOn(p) /\ job'[p].at = to
BY MoveJob DEF JobsTyped, GoesOn, OthersKept, Running, Run

\* An open that has its metadata goes on.
LEMMA PublishedGoesOn ==
  ASSUME JobsTyped, NEW p \in Procs, NEW m \in Runs, NEW to \in Steps, Running(p),
         job' = [job EXCEPT ![p].at = to, ![p].opened = m]
  PROVE  GoesOn(p) /\ job'[p].at = to
PROOF
<1>. DEFINE moved == [job EXCEPT ![p].at = to]
<1>1. job' = [moved EXCEPT ![p].opened = m]
  BY SMT DEF JobsTyped, Job
<1>2. moved \in [Procs -> Job] /\ (\A q \in Procs \ {p} : moved[q] = job[q])
      /\ moved[p].at = to /\ moved[p].run = job[p].run /\ moved[p].cmd = job[p].cmd
  BY MoveJob DEF JobsTyped
<1>. HIDE DEF moved
<1>3. LET g == [moved EXCEPT ![p].opened = m] IN
      /\ g \in [Procs -> Job]
      /\ \A q \in Procs \ {p} : g[q] = moved[q]
      /\ g[p].at = moved[p].at /\ g[p].run = moved[p].run /\ g[p].cmd = moved[p].cmd
  BY <1>2, OpenJob
<1>. QED
  BY <1>1, <1>2, <1>3 DEF JobsTyped, GoesOn, OthersKept, Running, Run

\* An open that returns goes on with what its command does next.
LEMMA OpenedGoesOn ==
  ASSUME JobsTyped, NEW p \in Procs, NEW m \in Runs, Running(p),
         job[p].cmd \in Openers, Opened(p, m)
  PROVE  GoesOn(p) /\ job'[p].at \in {"acquire", "writeSem", "readSem"}
PROOF
<1>1. AfterOpen[job[p].cmd] \in {"acquire", "writeSem", "readSem"}
  BY DEF AfterOpen, Openers
<1>2. AfterOpen[job[p].cmd] \in Steps
  BY <1>1 DEF Steps
<1>. QED
  BY <1>1, <1>2, PublishedGoesOn DEF Opened

\* A scan of the tree gives a semantic state.
LEMMA AcquireGoesOn ==
  ASSUME JobsTyped, NEW p \in Procs, NEW to \in Steps, NEW s \in Semantic, Running(p),
         job' = [job EXCEPT ![p].at = to, ![p].got = s]
  PROVE  GoesOn(p) /\ job'[p].at = to
PROOF
<1>. DEFINE moved == [job EXCEPT ![p].at = to]
<1>1. job' = [moved EXCEPT ![p].got = s]
  BY SMT DEF JobsTyped, Job
<1>2. moved \in [Procs -> Job] /\ (\A q \in Procs \ {p} : moved[q] = job[q])
      /\ moved[p].at = to /\ moved[p].run = job[p].run /\ moved[p].cmd = job[p].cmd
  BY MoveJob DEF JobsTyped
<1>. HIDE DEF moved
<1>3. LET g == [moved EXCEPT ![p].got = s] IN
      /\ g \in [Procs -> Job]
      /\ \A q \in Procs \ {p} : g[q] = moved[q]
      /\ g[p].at = moved[p].at /\ g[p].run = moved[p].run /\ g[p].cmd = moved[p].cmd
  BY <1>2, GetJob
<1>. QED
  BY <1>1, <1>2, <1>3 DEF JobsTyped, GoesOn, OthersKept, Running, Run

\* The removal of a file goes on.
LEMMA RemovalGoesOn ==
  ASSUME JobsTyped, NEW p \in Procs, NEW t \in SUBSET Names, job[p].at = "remove",
         job' = [job EXCEPT ![p].todo = t]
  PROVE  GoesOn(p) /\ job'[p].at = "remove"
BY TodoJob DEF JobsTyped, GoesOn, OthersKept, Running, Run

\* So does the decision to remove everything.
LEMMA DecideGoesOn ==
  ASSUME JobsTyped, NEW p \in Procs, NEW t \in SUBSET Names, job[p].at = "decide",
         job' = [job EXCEPT ![p].at = "remove", ![p].todo = t]
  PROVE  GoesOn(p) /\ job'[p].at = "remove"
PROOF
<1>. DEFINE moved == [job EXCEPT ![p].at = "remove"]
<1>1. job' = [moved EXCEPT ![p].todo = t]
  BY SMT DEF JobsTyped, Job
<1>2. moved \in [Procs -> Job] /\ (\A q \in Procs \ {p} : moved[q] = job[q])
      /\ moved[p].at = "remove" /\ moved[p].run = job[p].run /\ moved[p].cmd = job[p].cmd
  <2>1. "remove" \in Steps
    BY DEF Steps
  <2>. QED BY <2>1, MoveJob DEF JobsTyped
<1>. HIDE DEF moved
<1>3. LET g == [moved EXCEPT ![p].todo = t] IN
      /\ g \in [Procs -> Job]
      /\ \A q \in Procs \ {p} : g[q] = moved[q]
      /\ g[p].at = moved[p].at /\ g[p].run = moved[p].run /\ g[p].cmd = moved[p].cmd
  BY <1>2, TodoJob
<1>. QED
  BY <1>1, <1>2, <1>3 DEF JobsTyped, GoesOn, OthersKept, Running, Run

\* A command that ends leaves nothing in its job.
LEMMA EndEnds ==
  ASSUME JobsTyped, NEW p \in Procs, End(p)
  PROVE  Ends(p)
BY SMT DEF JobsTyped, End, Ends, OthersKept, NoJob, Job, Steps

\* A step that leaves the lock alone, and enters neither an open it was not
\* in nor the part of it that holds the lock, keeps what is about jobs.
LEMMA CalmStep ==
  ASSUME IInv, NEW p \in Procs, UNCHANGED <<lock, runs, dead, intruded>>, Undamaged,
         \/ Ends(p)
         \/ /\ GoesOn(p)
            /\ job'[p].at \in OpenerSteps => job[p].cmd \in Openers
            /\ Initializing(p)' => Initializing(p)
            /\ Publishing(p)' => Publishing(p) \/ meta' # Invalid
  PROVE  (\A q \in Procs : JobOK(q) /\ OwnsLock(q) /\ FoundNone(q))' /\ DistinctRuns'
PROOF
<1>1. ASSUME NEW q \in Procs, Running(q)'
      PROVE  Running(q) /\ Run(q)' = Run(q)
  BY <1>1 DEF Ends, GoesOn, OthersKept, Running, Run, NoJob
<1>2. ASSUME NEW q \in Procs
      PROVE  JobOK(q)'
  BY <1>1, <1>2
  DEF IInv, JobOK, Ends, GoesOn, OthersKept, NoJob, OpenerSteps, Running, Run
<1>3. ASSUME NEW q \in Procs
      PROVE  OwnsLock(q)'
  BY <1>1, <1>3
  DEF IInv, OwnsLock, Initializing, Ends, GoesOn, OthersKept, NoJob, Running, Run
<1>4. DistinctRuns'
  BY <1>1 DEF IInv, DistinctRuns
<1>5. ASSUME NEW q \in Procs
      PROVE  FoundNone(q)'
  BY <1>5
  DEF IInv, FoundNone, Publishing, Undamaged, Ends, GoesOn, OthersKept, NoJob
<1>. QED BY <1>2, <1>3, <1>4, <1>5

\* The history keeps its type whatever happens.
LEMMA ObserveTyped ==
  ASSUME TypeOK, Observe
  PROVE  witness' \in [Procs -> [quiet : BOOLEAN, kept : BOOLEAN, healthy : BOOLEAN]]
BY DEF TypeOK, Observe

DiskTyped ==
  /\ dir \in BOOLEAN
  /\ meta \in Runs \cup {None, Invalid}
  /\ sem \in Semantic \cup {None, Invalid}
  /\ temps \subseteq {"meta", "sem"} \X Runs

\* A calm step whose files keep their types keeps the invariant.
LEMMA CalmInv ==
  ASSUME IInv, Observe, NEW p \in Procs, DiskTyped', Undamaged,
         UNCHANGED <<lock, runs, crashes, dead, intruded>>,
         \/ Ends(p)
         \/ /\ GoesOn(p)
            /\ job'[p].at \in OpenerSteps => job[p].cmd \in Openers
            /\ Initializing(p)' => Initializing(p)
            /\ Publishing(p)' => Publishing(p) \/ meta' # Invalid
  PROVE  IInv'
PROOF
<1>1. TypeOK'
  BY ObserveTyped DEF IInv, TypeOK, DiskTyped, Ends, GoesOn, JobsTyped
<1>2. (\A q \in Procs : JobOK(q) /\ OwnsLock(q) /\ FoundNone(q))' /\ DistinctRuns'
  BY CalmStep
<1>. QED BY <1>1, <1>2 DEF IInv

-----------------------------------------------------------------------------
(* The invariant is inductive.                                              *)

\* No process runs a command at first.
LEMMA InitInv == Init => IInv
PROOF
<1>. SUFFICES ASSUME Init PROVE IInv
  OBVIOUS
<1>1. NoJob \in Job
  BY SMT DEF NoJob, Job, Steps
<1>2. TypeOK
  <2>1. witness \in [Procs -> [quiet : BOOLEAN, kept : BOOLEAN, healthy : BOOLEAN]]
    <3>1. NoWitness \in [quiet : BOOLEAN, kept : BOOLEAN, healthy : BOOLEAN]
      BY Zenon DEF NoWitness
    <3>. QED BY <3>1 DEF Init
  <2>2. job \in [Procs -> Job]
    BY <1>1 DEF Init
  <2>3. intruded \in BOOLEAN
    BY Zenon DEF Init
  <2>4. runs \in 0 .. MaxRuns /\ crashes \in 0 .. MaxCrashes
    BY IndexLifecycleAssumption DEF Init
  <2>. QED
    BY <2>1, <2>2, <2>3, <2>4 DEF Init, TypeOK
<1>3. \A p \in Procs : job[p].at = "idle"
  BY DEF Init, NoJob
<1>. QED
  BY <1>2, <1>3
  DEF Init, IInv, JobOK, DistinctRuns, OwnsLock, FoundNone, Publishing, Initializing,
      OpenerSteps, Running

\* A command that begins has a number of its own.
LEMMA BeginInv ==
  ASSUME IInv, Observe, NEW p \in Procs, NEW cmd,
         NEW at \in {"mkdir", "acquire", "clean", "remove"},
         NEW got \in Semantic \cup {None}, NEW todo \in SUBSET Names,
         Begin(p, cmd, at, got, todo), at \in {"mkdir", "acquire"} => cmd \in Openers
  PROVE  IInv'
PROOF
<1>. DEFINE started == [cmd |-> cmd, run |-> runs + 1, at |-> at, opened |-> None,
                        got |-> got, todo |-> todo]
<1>1. runs + 1 \in Runs /\ runs \in Nat
  BY IndexLifecycleAssumption DEF Begin, IInv, TypeOK, Runs
<1>2. started \in Job /\ started.at = at /\ started.cmd = cmd
      /\ started.run = runs + 1
  BY <1>1, SMT DEF Begin, Job, Steps
<1>3. job' = [job EXCEPT ![p] = started]
  BY DEF Begin
<1>. HIDE DEF started
<1>4. JobsTyped' /\ OthersKept(p) /\ job'[p] = started
  BY <1>2, <1>3 DEF IInv, TypeOK, JobsTyped, OthersKept
<1>5. TypeOK'
  BY <1>1, <1>4, ObserveTyped, IndexLifecycleAssumption
  DEF IInv, TypeOK, Begin, disk, JobsTyped, Runs
<1>6. ~Running(p)
  BY DEF Begin, Running
<1>7. ASSUME NEW q \in Procs
      PROVE  JobOK(q)' /\ OwnsLock(q)' /\ FoundNone(q)'
  <2>1. CASE q = p
    BY <1>1, <1>2, <1>4, <2>1
    DEF IInv, JobOK, OwnsLock, FoundNone, Publishing, Initializing, OpenerSteps, Running,
        Run, Begin, disk
  <2>2. CASE q # p
    BY <1>1, <1>4, <2>2
    DEF IInv, JobOK, OwnsLock, FoundNone, Publishing, Initializing, OthersKept, Running,
        Run, Begin, disk
  <2>. QED BY <2>1, <2>2
<1>8. DistinctRuns'
  BY <1>1, <1>2, <1>4 DEF IInv, DistinctRuns, JobOK, OthersKept, Running, Run, Begin
<1>9. (dead \subseteq 1 .. runs)'
  BY <1>1 DEF IInv, Begin
<1>. QED BY <1>5, <1>7, <1>8, <1>9 DEF IInv

\* The number of a command in progress is that of a run.
LEMMA RunTyped ==
  ASSUME IInv, NEW p \in Procs, Running(p)
  PROVE  Run(p) \in Runs /\ Run(p) \in 1 .. runs /\ Run(p) \notin dead
BY IndexLifecycleAssumption DEF IInv, TypeOK, JobOK, Runs

\* The lock is taken when there is none, so that nobody else initializes.
LEMMA TakeLockInv ==
  ASSUME IInv, Observe, NEW p \in Procs, TakeLock(p)
  PROVE  IInv'
PROOF
<1>1. JobsTyped
  BY DEF IInv, TypeOK, JobsTyped
<1>2. GoesOn(p) /\ job[p].at = "lock" /\ job'[p].at = "writeMeta"
  BY <1>1, GotoGoesOn DEF TakeLock, Steps
<1>3. Running(p)
  BY <1>2 DEF GoesOn
<1>4. lock' = [owner |-> Run(p), old |-> FALSE] /\ UNCHANGED <<dir, meta, sem, temps, rest>>
  BY DEF TakeLock
<1>5. lock' \in Lock
  <2>1. Run(p) \in Runs
    BY <1>3, RunTyped
  <2>2. FALSE \in BOOLEAN
    BY Zenon
  <2>. QED BY <1>4, <2>1, <2>2 DEF Lock
<1>6. TypeOK'
  BY <1>2, <1>4, <1>5, ObserveTyped DEF IInv, TypeOK, GoesOn, JobsTyped, rest
<1>7. \A q \in Procs : Running(q)' => Running(q) /\ Run(q)' = Run(q)
  BY <1>2, <1>3 DEF GoesOn, OthersKept, Running, Run
<1>8. ASSUME NEW q \in Procs
      PROVE  JobOK(q)'
  BY <1>2, <1>4, <1>7 DEF IInv, JobOK, OpenerSteps, GoesOn, OthersKept, rest
<1>9. ASSUME NEW q \in Procs, Initializing(q)', ~intruded'
      PROVE  (lock # None /\ lock.owner = Run(q))'
  <2>1. lock' # None /\ lock'.owner = Run(p)
    BY <1>4, <1>5, IndexLifecycleAssumption
  <2>2. CASE q = p
    BY <2>1, <2>2, <1>2 DEF GoesOn
  <2>3. CASE q # p
    <3>1. Initializing(q) /\ ~intruded
      BY <1>2, <1>4, <1>9, <2>3 DEF GoesOn, OthersKept, Initializing, rest
    <3>2. lock # None
      BY <3>1 DEF IInv, OwnsLock
    <3>. QED BY <3>2 DEF TakeLock
  <2>. QED BY <2>2, <2>3
<1>10. DistinctRuns'
  BY <1>7 DEF IInv, DistinctRuns
<1>11. ASSUME NEW q \in Procs
       PROVE  FoundNone(q)'
  BY <1>2, <1>4, <1>11 DEF IInv, FoundNone, Publishing, GoesOn, OthersKept
<1>. QED
  BY <1>4, <1>6, <1>8, <1>9, <1>10, <1>11 DEF IInv, OwnsLock, rest

\* The lock that is removed is the command's own, unless somebody intruded.
LEMMA UnlockInv ==
  ASSUME IInv, Observe, NEW p \in Procs, Unlock(p)
  PROVE  IInv'
PROOF
<1>1. JobsTyped
  BY DEF IInv, TypeOK, JobsTyped
<1>2. GoesOn(p) /\ job[p].at = "unlock" /\ job'[p].at = "rmTemp"
  BY <1>1, GotoGoesOn DEF Unlock, Steps
<1>3. lock' = None /\ UNCHANGED <<dir, meta, sem, temps, rest>>
  BY DEF Unlock
<1>4. TypeOK'
  BY <1>2, <1>3, ObserveTyped DEF IInv, TypeOK, GoesOn, JobsTyped, rest
<1>5. \A q \in Procs : Running(q)' => Running(q) /\ Run(q)' = Run(q)
  BY <1>2 DEF GoesOn, OthersKept, Running, Run
<1>6. ASSUME NEW q \in Procs
      PROVE  JobOK(q)'
  BY <1>2, <1>3, <1>5 DEF IInv, JobOK, OpenerSteps, GoesOn, OthersKept, rest
<1>7. ASSUME NEW q \in Procs, Initializing(q)', ~intruded'
      PROVE  FALSE
  <2>1. q # p
    BY <1>2, <1>7 DEF Initializing
  <2>2. Initializing(q) /\ Initializing(p) /\ ~intruded
    BY <1>2, <1>3, <1>7, <2>1 DEF GoesOn, OthersKept, Initializing, rest
  <2>3. Run(q) = Run(p) /\ Running(q) /\ Running(p)
    BY <2>2 DEF IInv, OwnsLock, Initializing, Running
  <2>. QED BY <2>1, <2>3 DEF IInv, DistinctRuns
<1>8. DistinctRuns'
  BY <1>5 DEF IInv, DistinctRuns
<1>9. ASSUME NEW q \in Procs
      PROVE  FoundNone(q)'
  BY <1>2, <1>3, <1>9 DEF IInv, FoundNone, Publishing, GoesOn, OthersKept
<1>. QED
  BY <1>3, <1>4, <1>6, <1>7, <1>8, <1>9 DEF IInv, OwnsLock, rest

\* Every step of openLocalIndex keeps the invariant.
LEMMA OpenInv ==
  ASSUME IInv, Observe, NEW p \in Procs, OpenStep(p)
  PROVE  IInv'
PROOF
<1>1. JobsTyped /\ TypeOK
  BY DEF IInv, TypeOK, JobsTyped
<1>2. job[p].at \in OpenerSteps => job[p].cmd \in Openers /\ Running(p)
  BY DEF IInv, JobOK, OpenerSteps, Running
<1>3. CASE MakeDirectory(p)
  <2>1. GoesOn(p) /\ job[p].at = "mkdir" /\ job'[p].at = "readMeta"
    BY <1>1, <1>3, GotoGoesOn DEF MakeDirectory, Steps
  <2>2. DiskTyped' /\ Undamaged /\ UNCHANGED <<lock, runs, crashes, dead, intruded>>
    BY <1>1, <1>3 DEF MakeDirectory, DiskTyped, Undamaged, TypeOK, rest
  <2>. QED BY <1>2, <2>1, <2>2, CalmInv DEF OpenerSteps, Initializing, Publishing
<1>4. CASE FindIndex(p)
  <2>1. job[p].at = "readMeta" /\ meta \in Runs /\ Opened(p, meta)
    BY <1>4 DEF FindIndex
  <2>2. job[p].cmd \in Openers /\ Running(p)
    BY <1>2, <2>1 DEF OpenerSteps
  <2>3. GoesOn(p) /\ job'[p].at \in {"acquire", "writeSem", "readSem"}
    BY <1>1, <2>1, <2>2, OpenedGoesOn
  <2>4. DiskTyped' /\ Undamaged /\ UNCHANGED <<lock, runs, crashes, dead, intruded>>
    BY <1>1, <1>4 DEF FindIndex, DiskTyped, Undamaged, TypeOK, disk, rest
  <2>. QED BY <2>2, <2>3, <2>4, CalmInv DEF Initializing, Publishing
<1>5. CASE RefuseIndex(p) \/ TakeLockFails(p)
  <2>1. Ends(p)
    BY <1>1, <1>5, EndEnds DEF RefuseIndex, TakeLockFails
  <2>2. DiskTyped' /\ Undamaged /\ UNCHANGED <<lock, runs, crashes, dead, intruded>>
    BY <1>1, <1>5 DEF RefuseIndex, TakeLockFails, DiskTyped, Undamaged, TypeOK, disk, rest
  <2>. QED BY <2>1, <2>2, CalmInv
<1>6. CASE FindNoIndex(p)
  <2>1. GoesOn(p) /\ job[p].at = "readMeta" /\ job'[p].at = "lock"
    BY <1>1, <1>6, GotoGoesOn DEF FindNoIndex, Steps
  <2>2. DiskTyped' /\ Undamaged /\ UNCHANGED <<lock, runs, crashes, dead, intruded>>
    BY <1>1, <1>6 DEF FindNoIndex, DiskTyped, Undamaged, TypeOK, disk, rest
  <2>3. meta' # Invalid
    BY <1>6, IndexLifecycleAssumption DEF FindNoIndex, disk
  <2>. QED BY <1>2, <2>1, <2>2, <2>3, CalmInv DEF OpenerSteps, Initializing, Publishing
<1>7. CASE WriteMetaTemp(p)
  <2>1. GoesOn(p) /\ job[p].at = "writeMeta" /\ job'[p].at = "renameMeta"
    BY <1>1, <1>7, GotoGoesOn DEF WriteMetaTemp, Steps
  <2>2. Run(p) \in Runs
    BY <2>1, RunTyped DEF GoesOn
  <2>3. DiskTyped' /\ Undamaged /\ UNCHANGED <<lock, runs, crashes, dead, intruded>>
    BY <1>1, <1>7, <2>2 DEF WriteMetaTemp, DiskTyped, Undamaged, TypeOK, rest
  <2>. QED BY <1>2, <2>1, <2>3, CalmInv DEF OpenerSteps, Initializing, Publishing
<1>8. CASE RenameMeta(p)
  <2>1. job[p].at = "renameMeta"
    BY <1>8 DEF RenameMeta
  <2>2. Running(p) /\ job[p].cmd \in Openers
    BY <1>2, <2>1 DEF OpenerSteps
  <2>3. Run(p) \in Runs
    BY <2>2, RunTyped
  <2>4. GoesOn(p) /\ job'[p].at = "unlock"
    BY <1>1, <1>8, <2>2, <2>3, PublishedGoesOn DEF RenameMeta, Steps
  <2>5. DiskTyped' /\ Undamaged /\ UNCHANGED <<lock, runs, crashes, dead, intruded>>
    BY <1>1, <1>8, <2>3, IndexLifecycleAssumption DEF RenameMeta, DiskTyped, Undamaged, TypeOK, rest
  <2>. QED BY <2>1, <2>2, <2>4, <2>5, CalmInv DEF Initializing, Publishing
<1>9. CASE FailPublishing(p)
  <2>1. job[p].at \in {"writeMeta", "renameMeta"}
    BY <1>9 DEF FailPublishing
  <2>2. Running(p) /\ job[p].cmd \in Openers
    BY <1>2, <2>1 DEF OpenerSteps
  <2>3. GoesOn(p) /\ job'[p].at = "unlock"
    BY <1>1, <1>9, <2>2, MoveGoesOn DEF FailPublishing, Steps
  <2>4. DiskTyped' /\ Undamaged /\ UNCHANGED <<lock, runs, crashes, dead, intruded>>
    BY <1>1, <1>9 DEF FailPublishing, DiskTyped, Undamaged, TypeOK, disk, rest
  <2>. QED BY <2>1, <2>2, <2>3, <2>4, CalmInv DEF Initializing, Publishing
<1>10. CASE FinishOpen(p)
  <2>1. job[p].at = "rmTemp"
    BY <1>10 DEF FinishOpen
  <2>2. Running(p) /\ job[p].cmd \in Openers
    BY <1>2, <2>1 DEF OpenerSteps
  <2>3. Run(p) \in Runs
    BY <2>2, RunTyped
  <2>4. DiskTyped' /\ Undamaged /\ UNCHANGED <<lock, runs, crashes, dead, intruded>>
    BY <1>1, <1>10 DEF FinishOpen, DiskTyped, Undamaged, TypeOK, rest
  <2>5. CASE Opened(p, Run(p))
    <3>1. GoesOn(p) /\ job'[p].at \in {"acquire", "writeSem", "readSem"}
      BY <1>1, <2>2, <2>3, <2>5, OpenedGoesOn
    <3>. QED BY <2>2, <2>4, <3>1, CalmInv DEF Initializing, Publishing
  <2>6. CASE End(p)
    BY <1>1, <2>4, <2>6, EndEnds, CalmInv
  <2>. QED BY <1>10, <2>5, <2>6 DEF FinishOpen
<1>. QED
  BY <1>3, <1>4, <1>5, <1>6, <1>7, <1>8, <1>9, <1>10, TakeLockInv, UnlockInv DEF OpenStep

\* A command that fails or crashes is remembered.
LEMMA DiesInv ==
  ASSUME IInv, Observe, NEW p \in Procs, Running(p), End(p), dead' = dead \cup {Run(p)},
         crashes' \in 0 .. MaxCrashes, UNCHANGED <<disk, runs, intruded>>
  PROVE  IInv'
PROOF
<1>1. Run(p) \in Runs /\ Run(p) \in 1 .. runs
  BY RunTyped
<1>2. Ends(p)
  BY EndEnds DEF IInv, TypeOK, JobsTyped
<1>3. TypeOK'
  BY <1>1, <1>2, ObserveTyped DEF IInv, TypeOK, Ends, JobsTyped, disk
<1>4. \A q \in Procs : Running(q)' => q # p /\ Running(q) /\ Run(q)' = Run(q)
  BY <1>2 DEF Ends, OthersKept, NoJob, Running, Run
<1>5. ASSUME NEW q \in Procs
      PROVE  JobOK(q)' /\ OwnsLock(q)' /\ FoundNone(q)'
  <2>1. CASE q = p
    BY <1>2, <2>1 DEF Ends, NoJob, JobOK, OwnsLock, FoundNone, Publishing,
        Initializing, OpenerSteps, Running
  <2>2. CASE q # p
    <3>1. job'[q] = job[q]
      BY <1>2, <2>2 DEF Ends, OthersKept
    <3>2. Running(q) => Run(q) # Run(p)
      BY <2>2 DEF IInv, DistinctRuns
    <3>. QED
      BY <3>1, <3>2 DEF IInv, JobOK, OwnsLock, FoundNone, Publishing,
          Initializing, Running, Run, disk
  <2>. QED BY <2>1, <2>2
<1>6. DistinctRuns'
  BY <1>4 DEF IInv, DistinctRuns
<1>7. (dead \subseteq 1 .. runs)'
  BY <1>1 DEF IInv
<1>. QED BY <1>3, <1>5, <1>6, <1>7 DEF IInv

\* Every step about the semantic state keeps the invariant.
LEMMA SemanticInv ==
  ASSUME IInv, Observe, NEW p \in Procs, SemanticStep(p)
  PROVE  IInv'
PROOF
<1>1. JobsTyped /\ TypeOK
  BY DEF IInv, TypeOK, JobsTyped
<1>2. job[p].at \in OpenerSteps => job[p].cmd \in Openers /\ Running(p)
  BY DEF IInv, JobOK, OpenerSteps, Running
<1>3. CASE Acquire(p)
  <2>1. job[p].cmd \in Openers /\ Running(p)
    BY <1>2, <1>3 DEF Acquire, OpenerSteps
  <2>2. AfterAcquire[job[p].cmd] \in {"writeSem", "readSem"}
    BY <2>1 DEF AfterAcquire, Openers
  <2>3. PICK tree \in Contents :
          job' = [job EXCEPT ![p].at  = AfterAcquire[job[p].cmd],
                             ![p].got = [content |-> tree,
                                         by |-> IF job[p].cmd = "watch"
                                                  THEN "watch" ELSE "cache"]]
    BY <1>3 DEF Acquire
  <2>4. [content |-> tree, by |-> IF job[p].cmd = "watch" THEN "watch" ELSE "cache"]
          \in Semantic
    BY DEF Semantic
  <2>5. GoesOn(p) /\ job'[p].at = AfterAcquire[job[p].cmd]
    BY <1>1, <2>1, <2>2, <2>3, <2>4, AcquireGoesOn DEF Steps
  <2>6. DiskTyped' /\ Undamaged /\ UNCHANGED <<lock, runs, crashes, dead, intruded>>
    BY <1>1, <1>3 DEF Acquire, DiskTyped, Undamaged, TypeOK, disk, rest
  <2>. QED BY <2>1, <2>2, <2>5, <2>6, CalmInv DEF Initializing, Publishing
<1>4. CASE KeepSemantic(p)
  <2>1. Ends(p)
    BY <1>1, <1>4, EndEnds DEF KeepSemantic
  <2>2. DiskTyped' /\ Undamaged /\ UNCHANGED <<lock, runs, crashes, dead, intruded>>
    BY <1>1, <1>4 DEF KeepSemantic, DiskTyped, Undamaged, TypeOK, disk, rest
  <2>. QED BY <2>1, <2>2, CalmInv
<1>5. CASE ReplaceSemantic(p)
  <2>1. GoesOn(p) /\ job[p].at = "readSem" /\ job'[p].at \in {"acquire", "mkdir"}
    BY <1>1, <1>5, GotoGoesOn DEF ReplaceSemantic, Steps
  <2>2. DiskTyped' /\ Undamaged /\ UNCHANGED <<lock, runs, crashes, dead, intruded>>
    BY <1>1, <1>5 DEF ReplaceSemantic, DiskTyped, Undamaged, TypeOK, disk, rest
  <2>. QED BY <1>2, <2>1, <2>2, CalmInv DEF OpenerSteps, Initializing, Publishing
<1>6. CASE WriteSemTemp(p)
  <2>1. GoesOn(p) /\ job[p].at = "writeSem" /\ job'[p].at = "renameSem"
    BY <1>1, <1>6, GotoGoesOn DEF WriteSemTemp, Steps
  <2>2. Run(p) \in Runs
    BY <2>1, RunTyped DEF GoesOn
  <2>3. DiskTyped' /\ Undamaged /\ UNCHANGED <<lock, runs, crashes, dead, intruded>>
    BY <1>1, <1>6, <2>2 DEF WriteSemTemp, DiskTyped, Undamaged, TypeOK, rest
  <2>. QED BY <1>2, <2>1, <2>3, CalmInv DEF OpenerSteps, Initializing, Publishing
<1>7. CASE RenameSem(p)
  <2>1. Ends(p)
    BY <1>1, <1>7, EndEnds DEF RenameSem
  <2>2. job[p].got \in Semantic \cup {None}
    BY <1>1, SMT DEF JobsTyped, Job
  <2>3. DiskTyped' /\ Undamaged /\ UNCHANGED <<lock, runs, crashes, dead, intruded>>
    BY <1>1, <1>7, <2>2 DEF RenameSem, DiskTyped, Undamaged, TypeOK, rest
  <2>. QED BY <2>1, <2>3, CalmInv
<1>8. CASE FailSemantic(p)
  BY <1>1, <1>2, <1>8, DiesInv DEF FailSemantic, OpenerSteps, TypeOK
<1>. QED BY <1>3, <1>4, <1>5, <1>6, <1>7, <1>8 DEF SemanticStep

\* Every command begins like that.
LEMMA BeginsInv ==
  ASSUME IInv, Observe, NEW p \in Procs,
         BeginOpener(p) \/ BeginRecover(p) \/ BeginPurge(p)
  PROVE  IInv'
PROOF
<1>1. CASE BeginOpener(p)
  BY <1>1, BeginInv DEF BeginOpener, Openers
<1>2. CASE BeginRecover(p)
  <2>1. PICK got \in Semantic \cup {None} : Begin(p, "recover", "clean", got, {})
    BY <1>2 DEF BeginRecover, Semantic
  <2>. QED BY <2>1, BeginInv
<1>3. CASE BeginPurge(p)
  <2>1. Present \in SUBSET Names
    BY DEF Present
  <2>. QED BY <1>3, <2>1, BeginInv DEF BeginPurge
<1>. QED BY <1>1, <1>2, <1>3

\* A lock removed without an intrusion is that of a command that died, so
\* that nobody initializes the index.
LEMMA LockRemovedInv ==
  ASSUME IInv, Observe, NEW p \in Procs, LockRemoved, DiskTyped', Undamaged,
         UNCHANGED <<runs, crashes, dead>>,
         Ends(p) \/ (GoesOn(p) /\ job'[p].at = "remove")
  PROVE  IInv'
PROOF
<1>1. lock' = None /\ intruded' \in BOOLEAN
  BY DEF LockRemoved, IInv, TypeOK
<1>2. TypeOK'
  BY <1>1, ObserveTyped DEF IInv, TypeOK, DiskTyped, Ends, GoesOn, JobsTyped
<1>3. \A q \in Procs : Running(q)' => Running(q) /\ Run(q)' = Run(q)
  BY DEF Ends, GoesOn, OthersKept, NoJob, Running, Run
<1>4. ASSUME NEW q \in Procs
      PROVE  JobOK(q)'
  BY <1>3 DEF IInv, JobOK, OpenerSteps, Ends, GoesOn, OthersKept, NoJob, Running, Run
<1>5. ASSUME NEW q \in Procs, Initializing(q)', ~intruded'
      PROVE  FALSE
  <2>1. Initializing(q)
    BY <1>5 DEF Ends, GoesOn, OthersKept, NoJob, Initializing
  <2>2. ~intruded /\ (lock = None \/ lock.owner \in dead)
    BY <1>5 DEF LockRemoved
  <2>3. lock # None /\ lock.owner = Run(q)
    BY <2>1, <2>2 DEF IInv, OwnsLock
  <2>4. Run(q) \notin dead
    BY <2>1 DEF IInv, JobOK, Initializing, Running
  <2>. QED BY <2>2, <2>3, <2>4
<1>6. DistinctRuns'
  BY <1>3 DEF IInv, DistinctRuns
<1>7. ASSUME NEW q \in Procs
      PROVE  FoundNone(q)'
  BY <1>7
  DEF IInv, FoundNone, Publishing, Undamaged, Ends, GoesOn, OthersKept, NoJob
<1>. QED BY <1>1, <1>2, <1>4, <1>5, <1>6, <1>7 DEF IInv, OwnsLock

\* Every step of recovery and of a purge keeps the invariant.
LEMMA RemovalInv ==
  ASSUME IInv, Observe, NEW p \in Procs, RemovalStep(p)
  PROVE  IInv'
PROOF
<1>1. JobsTyped /\ TypeOK
  BY DEF IInv, TypeOK, JobsTyped
<1>2. CASE CleanTemps(p)
  <2>1. GoesOn(p) /\ job'[p].at = "checkLock"
    BY <1>1, <1>2, GotoGoesOn DEF CleanTemps, Steps
  <2>2. DiskTyped' /\ Undamaged /\ UNCHANGED <<lock, runs, crashes, dead, intruded>>
    BY <1>1, <1>2 DEF CleanTemps, DiskTyped, Undamaged, TypeOK, rest
  <2>. QED BY <2>1, <2>2, CalmInv DEF OpenerSteps, Initializing, Publishing
<1>3. CASE CheckLock(p)
  <2>1. GoesOn(p) /\ job'[p].at \in {"checkMeta", "statLock"}
    BY <1>1, <1>3, GotoGoesOn DEF CheckLock, Steps
  <2>2. DiskTyped' /\ Undamaged /\ UNCHANGED <<lock, runs, crashes, dead, intruded>>
    BY <1>1, <1>3 DEF CheckLock, DiskTyped, Undamaged, TypeOK, disk, rest
  <2>. QED BY <2>1, <2>2, CalmInv DEF OpenerSteps, Initializing, Publishing
<1>4. CASE CheckMeta(p) \/ CheckSem(p)
  <2>1. \/ End(p)
        \/ Goto(p, "checkMeta", "decide") \/ Goto(p, "checkMeta", "checkSem")
        \/ Goto(p, "checkSem", "decide")
    BY <1>4 DEF CheckMeta, CheckSem
  <2>2. Ends(p) \/ (GoesOn(p) /\ job'[p].at \in {"decide", "checkSem"})
    BY <1>1, <2>1, GotoGoesOn, EndEnds DEF Steps
  <2>3. DiskTyped' /\ Undamaged /\ UNCHANGED <<lock, runs, crashes, dead, intruded>>
    BY <1>1, <1>4 DEF CheckMeta, CheckSem, DiskTyped, Undamaged, TypeOK, disk, rest
  <2>. QED BY <2>2, <2>3, CalmInv DEF OpenerSteps, Initializing, Publishing
<1>5. CASE Decide(p)
  <2>1. Present \in SUBSET Names
    BY DEF Present
  <2>2. job[p].at = "decide" /\ job' = [job EXCEPT ![p].at = "remove", ![p].todo = Present]
    BY <1>5 DEF Decide
  <2>3. GoesOn(p) /\ job'[p].at = "remove"
    BY <1>1, <2>1, <2>2, DecideGoesOn
  <2>4. DiskTyped' /\ Undamaged /\ UNCHANGED <<lock, runs, crashes, dead, intruded>>
    BY <1>1, <1>5 DEF Decide, DiskTyped, Undamaged, TypeOK, disk, rest
  <2>. QED BY <2>3, <2>4, CalmInv DEF OpenerSteps, Initializing, Publishing
<1>6. CASE StatLock(p)
  <2>1. Ends(p) \/ (GoesOn(p) /\ job'[p].at = "rmLock")
    BY <1>1, <1>6, GotoGoesOn, EndEnds DEF StatLock, Steps
  <2>2. DiskTyped' /\ Undamaged /\ UNCHANGED <<lock, runs, crashes, dead, intruded>>
    BY <1>1, <1>6 DEF StatLock, DiskTyped, Undamaged, TypeOK, disk, rest
  <2>. QED BY <2>1, <2>2, CalmInv DEF OpenerSteps, Initializing, Publishing
<1>7. CASE RemoveOldLock(p)
  <2>1. Ends(p)
    BY <1>1, <1>7, EndEnds DEF RemoveOldLock
  <2>2. DiskTyped' /\ Undamaged /\ LockRemoved /\ UNCHANGED <<runs, crashes, dead>>
    BY <1>1, <1>7 DEF RemoveOldLock, DiskTyped, Undamaged, TypeOK
  <2>. QED BY <2>1, <2>2, LockRemovedInv
<1>8. CASE RemoveDirectory(p)
  <2>1. Ends(p)
    BY <1>1, <1>8, EndEnds DEF RemoveDirectory
  <2>2. DiskTyped' /\ Undamaged /\ UNCHANGED <<lock, runs, crashes, dead, intruded>>
    BY <1>1, <1>8 DEF RemoveDirectory, DiskTyped, Undamaged, TypeOK, rest
  <2>. QED BY <2>1, <2>2, CalmInv
<1>9. ASSUME NEW n \in Names, RemoveEntry(p, n)
      PROVE  IInv'
  <2>1. job[p].todo \ {n} \in SUBSET Names
    BY <1>1, SMT DEF JobsTyped, Job
  <2>2. GoesOn(p) /\ job'[p].at = "remove"
    BY <1>1, <1>9, <2>1, RemovalGoesOn DEF RemoveEntry
  <2>3. DiskTyped' /\ Undamaged /\ UNCHANGED <<runs, crashes, dead>>
    BY <1>1, <1>9, IndexLifecycleAssumption DEF RemoveEntry, DiskTyped, Undamaged, TypeOK
  <2>4. CASE n = "lock"
    BY <1>9, <2>2, <2>3, <2>4, LockRemovedInv DEF RemoveEntry
  <2>5. CASE n # "lock"
    <3>1. UNCHANGED <<lock, intruded>>
      BY <1>9, <2>5 DEF RemoveEntry
    <3>. QED BY <2>2, <2>3, <3>1, CalmInv DEF OpenerSteps, Initializing, Publishing
  <2>. QED BY <2>4, <2>5
<1>. QED
  BY <1>2, <1>3, <1>4, <1>5, <1>6, <1>7, <1>8, <1>9 DEF RemovalStep

\* A lock that grows old stays its owner's.
LEMMA AgeInv ==
  ASSUME IInv, Observe, LockAges
  PROVE  IInv'
PROOF
<1>1. lock # None /\ lock' = [lock EXCEPT !.old = TRUE]
      /\ UNCHANGED <<dir, meta, sem, temps, job, rest>>
  BY DEF LockAges
<1>2. lock \in Lock
  BY <1>1 DEF IInv, TypeOK
<1>3. lock' = [owner |-> lock.owner, old |-> TRUE] /\ lock.owner \in Runs
  BY <1>1, <1>2 DEF Lock
<1>4. lock' \in Lock
  <2>1. TRUE \in BOOLEAN
    BY Zenon
  <2>. QED BY <1>3, <2>1 DEF Lock
<1>5. lock' # None /\ lock'.owner = lock.owner
  BY <1>3, <1>4, IndexLifecycleAssumption
<1>6. TypeOK'
  BY <1>1, <1>4, ObserveTyped DEF IInv, TypeOK, rest
<1>. QED
  BY <1>1, <1>5, <1>6
  DEF IInv, JobOK, DistinctRuns, OwnsLock, FoundNone, Publishing, Initializing, Running,
      Run, rest

-----------------------------------------------------------------------------
(* The theorems.                                                            *)

\* Every step keeps the invariant.
LEMMA StepInv == IInv /\ [Next]_vars => IInv'
PROOF
<1>. SUFFICES ASSUME IInv, [Next]_vars PROVE IInv'
  OBVIOUS
<1>1. CASE Next
  <2>1. Observe
    BY <1>1 DEF Next
  <2>2. \A p \in Procs : BeginOpener(p) \/ BeginRecover(p) \/ BeginPurge(p) => IInv'
    BY <2>1, BeginsInv
  <2>3. \A p \in Procs : Crash(p) => IInv'
    BY <2>1, DiesInv, IndexLifecycleAssumption DEF Crash, Running, IInv, TypeOK
  <2>. QED
    BY <1>1, <2>1, <2>2, <2>3, OpenInv, SemanticInv, RemovalInv, AgeInv
    DEF Next, Step
<1>2. CASE UNCHANGED vars
  BY <1>2
  DEF vars, disk, rest, IInv, TypeOK, JobOK, DistinctRuns, OwnsLock, FoundNone,
      Publishing, Initializing,
      Running, Run
<1>. QED BY <1>1, <1>2

\* The state of the index, of its lock and of the commands that use it stays
\* in its type.
THEOREM LifecycleTypeCorrect == Spec => []TypeOK
PROOF
<1>1. IInv => TypeOK
  BY DEF IInv
<1>. QED BY <1>1, InitInv, StepInv, PTL DEF Spec

\* At most one command initializes an index (openLocalIndex), for any number
\* of processes, unless a lock was removed under a command that was running.
THEOREM LifecycleExcludes == Spec => []InitializersExclusive
PROOF
<1>1. IInv => InitializersExclusive
  BY DEF IInv, InitializersExclusive, OwnsLock, DistinctRuns, Initializing, Running
<1>. QED BY <1>1, InitInv, StepInv, PTL DEF Spec

\* Damaged metadata end by removal only: index.json is never written over them.
THEOREM LifecycleKeepsDamage == Spec => DamagedMetadataKept
PROOF
<1>1. ASSUME IInv, Next, meta = Invalid
      PROVE  meta' \in {Invalid, None}
  <2>1. \A p \in Procs : ~RenameMeta(p)
    BY <1>1 DEF IInv, FoundNone, Publishing, RenameMeta
  <2>2. \A p \in Procs : OpenStep(p) => meta' = meta
    BY <2>1
    DEF OpenStep, MakeDirectory, FindIndex, RefuseIndex, FindNoIndex, TakeLock,
        TakeLockFails, WriteMetaTemp, FailPublishing, Unlock, FinishOpen, disk
  <2>3. \A p \in Procs : SemanticStep(p) => meta' = meta
    BY DEF SemanticStep, Acquire, KeepSemantic, ReplaceSemantic, WriteSemTemp, RenameSem,
           FailSemantic, disk
  <2>4. \A p \in Procs : RemovalStep(p) => meta' \in {meta, None}
    BY DEF RemovalStep, CleanTemps, CheckLock, CheckMeta, CheckSem, Decide, StatLock,
           RemoveOldLock, RemoveDirectory, RemoveEntry, disk
  <2>5. \A p \in Procs :
          BeginOpener(p) \/ BeginRecover(p) \/ BeginPurge(p) \/ Crash(p) => meta' = meta
    BY DEF BeginOpener, BeginRecover, BeginPurge, Begin, Crash, disk
  <2>6. LockAges => meta' = meta
    BY DEF LockAges
  <2>. QED
    BY <1>1, <2>2, <2>3, <2>4, <2>5, <2>6 DEF Next, Step
<1>2. IInv /\ [Next]_vars => [meta = Invalid => meta' \in {Invalid, None}]_meta
  BY <1>1 DEF vars, disk
<1>. QED BY <1>2, InitInv, StepInv, PTL DEF Spec, DamagedMetadataKept

-----------------------------------------------------------------------------
(* What a command in progress has done already, and what it has seen: the   *)
(* properties of the history need both.                                     *)

OpenSteps == {"mkdir", "readMeta", "lock", "writeMeta", "renameMeta", "unlock", "rmTemp"}

\* Whoever writes the semantic state has opened the index and has a state to
\* write; rebuild computes it first, the others open first.
Progress(p) ==
  /\ job[p].at \in {"writeSem", "renameSem"} => job[p].opened # None /\ job[p].got # None
  /\ job[p].cmd = "init" /\ job[p].at = "acquire" => job[p].opened # None
  /\ job[p].cmd = "watch" /\ job[p].at \in {"readSem", "acquire"} => job[p].opened # None
  /\ job[p].cmd = "rebuild" /\ job[p].at \in OpenSteps \cup {"readSem"} => job[p].got # None

\* Metadata that an open has found or published are replaced by other valid
\* ones at most, unless a file was removed.
KeptMeta(p) == job[p].opened # None /\ witness[p].kept => meta \in Runs

\* What a recovery has found is still so if nobody interfered.
Quiet(p) ==
  witness[p].quiet =>
    /\ job[p].at = "checkSem" => meta \in Runs
    /\ job[p].at \in {"statLock", "rmLock"} => lock # None
    /\ job[p].at = "remove" => meta = None \/ "meta" \in job[p].todo

Unhealthy(p) ==
  job[p].cmd = "recover" /\ job[p].at \in {"decide", "remove"} => ~witness[p].healthy

Known(p) == Progress(p) /\ KeptMeta(p) /\ Quiet(p) /\ Unhealthy(p)

HInv == IInv /\ \A p \in Procs : Known(p)

\* Nobody writes damaged metadata.
MetaStep == meta' \in Runs \cup {meta, None}

\* What a step of p must come to.
Learns(p) == OthersKept(p) /\ Known(p)' /\ MetaStep

\* A step that changes only where the job is.
MovesTo(p, to) ==
  /\ GoesOn(p) /\ job'[p].at = to
  /\ job'[p].opened = job[p].opened /\ job'[p].got = job[p].got /\ job'[p].todo = job[p].todo

\* What the history says of the step that is taken.
LEMMA ObserveMeans ==
  ASSUME Observe, NEW q \in Procs
  PROVE  /\ witness'[q].kept =>
              /\ job'[q].cmd \in Openers
              /\ job[q].cmd # "none" => witness[q].kept
              /\ ~(meta # None /\ meta' = None)
         /\ witness'[q].quiet =>
              /\ job'[q].cmd = "recover"
              /\ job[q].cmd # "none" => witness[q].quiet
              /\ job'[q] # job[q] \/ UNCHANGED disk
         /\ witness'[q].healthy =>
              /\ job'[q].cmd = "recover"
              /\ job[q].cmd # "none" => witness[q].healthy
              /\ meta' \in Runs /\ sem' \in Semantic
              /\ job'[q].got = None \/ sem' = job'[q].got
PROOF
<1>. DEFINE past == IF job[q].cmd = "none"
                      THEN [quiet |-> TRUE, kept |-> TRUE, healthy |-> TRUE]
                      ELSE witness[q]
            lost == (meta # None /\ meta' = None) \/ (sem # None /\ sem' = None)
            ready == meta' \in Runs /\ sem' \in Semantic
                       /\ (job'[q].got = None \/ sem' = job'[q].got)
            A == job'[q].cmd = "recover" /\ past.quiet
                   /\ (job'[q] # job[q] \/ UNCHANGED disk)
            B == job'[q].cmd \in Openers /\ past.kept /\ ~lost
            C == job'[q].cmd = "recover" /\ past.healthy /\ ready
<1>1. witness'[q] = [quiet |-> A, kept |-> B, healthy |-> C]
  BY Zenon DEF Observe
<1>2. job[q].cmd # "none" => past = witness[q]
  OBVIOUS
<1>. HIDE DEF past, ready, lost
<1>3. (witness'[q].quiet <=> A) /\ (witness'[q].kept <=> B) /\ (witness'[q].healthy <=> C)
  <2>. HIDE DEF A, B, C
  <2>1. witness'[q].quiet = A /\ witness'[q].kept = B /\ witness'[q].healthy = C
    BY <1>1
  <2>. QED BY <2>1, Zenon
<1>4. witness'[q].kept =>
        /\ job'[q].cmd \in Openers
        /\ job[q].cmd # "none" => witness[q].kept
        /\ ~(meta # None /\ meta' = None)
  BY <1>2, <1>3, Zenon DEF lost
<1>5. witness'[q].quiet =>
        /\ job'[q].cmd = "recover"
        /\ job[q].cmd # "none" => witness[q].quiet
        /\ job'[q] # job[q] \/ UNCHANGED disk
  BY <1>2, <1>3, Zenon
<1>6. witness'[q].healthy =>
        /\ job'[q].cmd = "recover"
        /\ job[q].cmd # "none" => witness[q].healthy
        /\ meta' \in Runs /\ sem' \in Semantic
        /\ job'[q].got = None \/ sem' = job'[q].got
  BY <1>2, <1>3, Zenon DEF ready
<1>. QED BY <1>4, <1>5, <1>6

\* A job that moves keeps what it knows.
LEMMA MoveKeepsFields ==
  ASSUME NEW f \in [Procs -> Job], NEW p \in Procs, NEW to \in Steps
  PROVE  LET g == [f EXCEPT ![p].at = to] IN
         g[p].opened = f[p].opened /\ g[p].got = f[p].got /\ g[p].todo = f[p].todo
BY SMT DEF Job

\* So does one that learns its metadata, its semantic state, or its files.
LEMMA LearnKeepsFields ==
  ASSUME NEW f \in [Procs -> Job], NEW p \in Procs
  PROVE  /\ \A m \in Runs : LET g == [f EXCEPT ![p].opened = m] IN
              g[p].opened = m /\ g[p].got = f[p].got /\ g[p].todo = f[p].todo
         /\ \A x \in Semantic : LET g == [f EXCEPT ![p].got = x] IN
              g[p].opened = f[p].opened /\ g[p].got = x /\ g[p].todo = f[p].todo
         /\ \A t \in SUBSET Names : LET g == [f EXCEPT ![p].todo = t] IN
              g[p].opened = f[p].opened /\ g[p].got = f[p].got /\ g[p].todo = t
BY SMT DEF Job

\* Goto only moves.
LEMMA GotoMoves ==
  ASSUME JobsTyped, NEW p \in Procs, NEW from \in Steps \ {"idle"}, NEW to \in Steps,
         Goto(p, from, to)
  PROVE  MovesTo(p, to) /\ job[p].at = from
BY GotoGoesOn, MoveKeepsFields DEF JobsTyped, Goto, MovesTo

\* A command that moves on goes on knowing what it knew of the metadata.
LEMMA KeepsMeta ==
  ASSUME HInv, Observe, NEW p \in Procs, GoesOn(p), job'[p].opened = job[p].opened, MetaStep
  PROVE  KeptMeta(p)'
PROOF
<1>. SUFFICES ASSUME job'[p].opened # None, witness'[p].kept PROVE meta' \in Runs
  BY DEF KeptMeta
<1>1. job[p].cmd \in Openers /\ job[p].cmd # "none"
  BY ObserveMeans DEF GoesOn, Openers
<1>2. witness[p].kept /\ ~(meta # None /\ meta' = None)
  BY <1>1, ObserveMeans
<1>3. meta \in Runs
  BY <1>2 DEF HInv, Known, KeptMeta
<1>. QED BY <1>2, <1>3, IndexLifecycleAssumption DEF MetaStep

\* Most places to go to ask nothing of what was seen.
LEMMA MoveLearns ==
  ASSUME HInv, Observe, NEW p \in Procs, GoesOn(p), job'[p].opened = job[p].opened,
         Progress(p)', MetaStep,
         job'[p].at \notin {"checkSem", "statLock", "rmLock", "decide", "remove"}
  PROVE  Learns(p)
BY KeepsMeta DEF Learns, Known, Quiet, Unhealthy, GoesOn

\* A command that ends knows nothing any more.
LEMMA EndLearns ==
  ASSUME NEW p \in Procs, Ends(p), MetaStep
  PROVE  Learns(p)
BY DEF Learns, Known, Progress, KeptMeta, Quiet, Unhealthy, Ends, NoJob

\* A command that begins has everything before it.
LEMMA BeginLearns ==
  ASSUME HInv, Observe, NEW p \in Procs,
         BeginOpener(p) \/ BeginRecover(p) \/ BeginPurge(p)
  PROVE  Learns(p)
PROOF
<1>1. PICK cmd, at, got, todo :
        /\ Begin(p, cmd, at, got, todo)
        /\ \/ cmd \in {"init", "watch"} /\ at = "mkdir"
           \/ cmd = "rebuild" /\ at = "acquire"
           \/ cmd = "recover" /\ at = "clean"
           \/ cmd = "purge" /\ at = "remove"
  BY DEF BeginOpener, BeginRecover, BeginPurge
<1>. DEFINE started == [cmd |-> cmd, run |-> runs + 1, at |-> at, opened |-> None,
                        got |-> got, todo |-> todo]
<1>2. job' = [job EXCEPT ![p] = started] /\ UNCHANGED disk
  BY <1>1 DEF Begin
<1>3. started.cmd = cmd /\ started.at = at /\ started.opened = None
  OBVIOUS
<1>. HIDE DEF started
<1>4. job'[p] = started /\ OthersKept(p) /\ MetaStep
  BY <1>2 DEF HInv, IInv, TypeOK, OthersKept, disk, MetaStep
<1>5. Progress(p)' /\ KeptMeta(p)' /\ Unhealthy(p)'
  BY <1>1, <1>3, <1>4 DEF Progress, KeptMeta, Unhealthy, OpenSteps
<1>6. Quiet(p)'
  BY <1>1, <1>3, <1>4, ObserveMeans DEF Quiet
<1>. QED BY <1>4, <1>5, <1>6 DEF Learns, Known

\* The metadata of an open are valid when it returns.
LEMMA OpenedLearns ==
  ASSUME HInv, Observe, NEW p \in Procs, NEW m \in Runs, Opened(p, m),
         job[p].at \in OpenSteps, MetaStep,
         meta \in Runs \/ job[p].opened # None
  PROVE  Learns(p)
PROOF
<1>1. JobsTyped /\ Running(p) /\ job[p].cmd \in Openers
  BY DEF HInv, IInv, TypeOK, JobsTyped, JobOK, OpenSteps, OpenerSteps, Running
<1>2. AfterOpen[job[p].cmd] \in Steps
  BY <1>1 DEF AfterOpen, Openers, Steps
<1>. DEFINE to == AfterOpen[job[p].cmd]
            moved == [job EXCEPT ![p].at = to]
<1>3. /\ job[p].cmd = "init" => to = "acquire"
      /\ job[p].cmd = "rebuild" => to = "writeSem"
      /\ job[p].cmd = "watch" => to = "readSem"
  BY DEF AfterOpen
<1>. HIDE DEF to
<1>4. GoesOn(p) /\ job'[p].at = to /\ job'[p].opened = m /\ job'[p].got = job[p].got
  <2>1. job' = [moved EXCEPT ![p].opened = m]
    BY <1>1, SMT DEF Opened, JobsTyped, Job, to
  <2>2. /\ moved \in [Procs -> Job] /\ moved[p].at = to
        /\ moved[p].opened = job[p].opened /\ moved[p].got = job[p].got
    BY <1>1, <1>2, MoveJob, MoveKeepsFields DEF JobsTyped, to
  <2>3. GoesOn(p) /\ job'[p].at = to
    BY <1>1, <1>2, PublishedGoesOn DEF Opened, to
  <2>. HIDE DEF moved
  <2>4. job'[p].opened = m /\ job'[p].got = moved[p].got
    BY <2>1, <2>2, LearnKeepsFields
  <2>. QED BY <2>2, <2>3, <2>4
<1>5. job[p].cmd = "rebuild" => job[p].got # None
  BY DEF HInv, Known, Progress
<1>6. m # None
  BY IndexLifecycleAssumption
<1>7. Progress(p)'
  BY <1>1, <1>3, <1>4, <1>5, <1>6 DEF Progress, GoesOn, Openers, OpenSteps
<1>8. ASSUME witness'[p].kept
      PROVE  meta' \in Runs
  <2>1. job[p].cmd # "none"
    BY <1>1 DEF Openers
  <2>2. witness[p].kept /\ ~(meta # None /\ meta' = None)
    BY <1>8, <2>1, ObserveMeans
  <2>3. meta \in Runs
    BY <2>2 DEF HInv, Known, KeptMeta
  <2>. QED BY <2>2, <2>3, IndexLifecycleAssumption DEF MetaStep
<1>9. Quiet(p)' /\ Unhealthy(p)' /\ OthersKept(p)
  BY <1>1, <1>3, <1>4 DEF Quiet, Unhealthy, GoesOn, Openers
<1>. QED BY <1>7, <1>8, <1>9 DEF Learns, Known, KeptMeta

\* What openLocalIndex learns.
LEMMA OpenLearns ==
  ASSUME HInv, Observe, NEW p \in Procs, OpenStep(p)
  PROVE  Learns(p)
PROOF
<1>1. JobsTyped /\ TypeOK
  BY DEF HInv, IInv, TypeOK, JobsTyped
<1>2. job[p].at \in OpenSteps => job[p].cmd \in Openers /\ Running(p)
  BY DEF HInv, IInv, JobOK, OpenSteps, OpenerSteps, Running
<1>3. Progress(p)
  BY DEF HInv, Known
<1>4. CASE MakeDirectory(p) \/ FindNoIndex(p) \/ TakeLock(p) \/ WriteMetaTemp(p) \/ Unlock(p)
  <2>1. PICK from \in OpenSteps \ {"rmTemp"}, to \in OpenSteps : Goto(p, from, to)
    BY <1>4 DEF MakeDirectory, FindNoIndex, TakeLock, WriteMetaTemp, Unlock, OpenSteps
  <2>2. MovesTo(p, to) /\ job[p].at = from
    BY <1>1, <2>1, GotoMoves DEF OpenSteps, Steps
  <2>3. MetaStep
    BY <1>4 DEF MakeDirectory, FindNoIndex, TakeLock, WriteMetaTemp, Unlock, disk, MetaStep
  <2>4. Progress(p)'
    BY <1>3, <2>2 DEF Progress, MovesTo, GoesOn, OpenSteps
  <2>. QED BY <2>2, <2>3, <2>4, MoveLearns DEF MovesTo, OpenSteps
<1>5. CASE FindIndex(p)
  BY <1>5, OpenedLearns DEF FindIndex, OpenSteps, disk, MetaStep
<1>6. CASE RefuseIndex(p) \/ TakeLockFails(p)
  BY <1>1, <1>6, EndEnds, EndLearns DEF RefuseIndex, TakeLockFails, disk, MetaStep
<1>7. CASE RenameMeta(p)
  <2>1. job[p].at = "renameMeta" /\ meta' = Run(p)
        /\ job' = [job EXCEPT ![p].at = "unlock", ![p].opened = Run(p)]
    BY <1>7 DEF RenameMeta
  <2>2. Running(p) /\ job[p].cmd \in Openers /\ Run(p) \in Runs
    BY <1>2, <2>1, RunTyped DEF OpenSteps, HInv
  <2>. DEFINE moved == [job EXCEPT ![p].at = "unlock"]
  <2>3. GoesOn(p) /\ job'[p].at = "unlock"
    BY <1>1, <2>1, <2>2, PublishedGoesOn DEF Steps
  <2>4. job' = [moved EXCEPT ![p].opened = Run(p)]
    BY <1>1, <2>1, SMT DEF JobsTyped, Job
  <2>5. moved \in [Procs -> Job] /\ moved[p].got = job[p].got
    <3>1. "unlock" \in Steps
      BY DEF Steps
    <3>. QED BY <1>1, <3>1, MoveJob, MoveKeepsFields DEF JobsTyped
  <2>. HIDE DEF moved
  <2>6. job'[p].opened = Run(p) /\ job'[p].got = job[p].got
    BY <2>2, <2>4, <2>5, LearnKeepsFields
  <2>7. Progress(p)'
    BY <1>3, <2>1, <2>3, <2>6 DEF Progress, GoesOn, OpenSteps
  <2>8. KeptMeta(p)' /\ Quiet(p)' /\ Unhealthy(p)' /\ MetaStep
    BY <2>1, <2>2, <2>3 DEF KeptMeta, Quiet, Unhealthy, MetaStep
  <2>. QED BY <2>3, <2>7, <2>8 DEF Learns, Known, GoesOn
<1>8. CASE FailPublishing(p)
  <2>1. job[p].at \in {"writeMeta", "renameMeta"} /\ job' = [job EXCEPT ![p].at = "unlock"]
    BY <1>8 DEF FailPublishing
  <2>2. GoesOn(p) /\ job'[p].at = "unlock"
    BY <1>1, <1>2, <2>1, MoveGoesOn DEF OpenSteps, Steps
  <2>3. job'[p].opened = job[p].opened /\ job'[p].got = job[p].got
    BY <1>1, <2>1, MoveKeepsFields DEF JobsTyped, Steps
  <2>4. Progress(p)' /\ MetaStep
    BY <1>3, <1>8, <2>1, <2>2, <2>3
    DEF Progress, GoesOn, OpenSteps, FailPublishing, disk, MetaStep
  <2>. QED BY <2>2, <2>3, <2>4, MoveLearns
<1>9. CASE FinishOpen(p)
  <2>1. job[p].at = "rmTemp" /\ MetaStep
    BY <1>9 DEF FinishOpen, MetaStep
  <2>2. Run(p) \in Runs
    BY <1>2, <2>1, RunTyped DEF OpenSteps, HInv
  <2>3. CASE job[p].opened # None
    BY <1>9, <2>1, <2>2, <2>3, OpenedLearns DEF FinishOpen, OpenSteps
  <2>4. CASE job[p].opened = None
    BY <1>1, <1>9, <2>1, <2>4, EndEnds, EndLearns DEF FinishOpen
  <2>. QED BY <2>3, <2>4
<1>. QED BY <1>4, <1>5, <1>6, <1>7, <1>8, <1>9 DEF OpenStep

\* What the computation and the writing of the semantic state learn.
LEMMA SemanticLearns ==
  ASSUME HInv, Observe, NEW p \in Procs, SemanticStep(p)
  PROVE  Learns(p)
PROOF
<1>1. JobsTyped
  BY DEF HInv, IInv, TypeOK, JobsTyped
<1>2. job[p].at \in OpenerSteps => job[p].cmd \in Openers /\ Running(p)
  BY DEF HInv, IInv, JobOK, OpenerSteps, Running
<1>3. Progress(p)
  BY DEF HInv, Known
<1>4. MetaStep
  BY DEF SemanticStep, Acquire, KeepSemantic, ReplaceSemantic, WriteSemTemp, RenameSem,
         FailSemantic, disk, MetaStep
<1>5. CASE Acquire(p)
  <2>. DEFINE to == AfterAcquire[job[p].cmd]
              moved == [job EXCEPT ![p].at = to]
              found(tree) == [content |-> tree,
                              by |-> IF job[p].cmd = "watch" THEN "watch" ELSE "cache"]
  <2>1. job[p].at = "acquire" /\ job[p].cmd \in Openers /\ Running(p)
    BY <1>2, <1>5 DEF Acquire, OpenerSteps
  <2>2. /\ job[p].cmd \in {"init", "watch"} => to = "writeSem"
        /\ job[p].cmd = "rebuild" => to = "readSem"
    BY DEF AfterAcquire
  <2>3. PICK tree \in Contents : job' = [job EXCEPT ![p].at = to, ![p].got = found(tree)]
    BY <1>5 DEF Acquire
  <2>4. found(tree) \in Semantic
    BY DEF Semantic
  <2>. HIDE DEF found, to
  <2>5. to \in Steps
    BY <2>1, <2>2 DEF Openers, Steps
  <2>6. GoesOn(p) /\ job'[p].at = to
    BY <1>1, <2>1, <2>3, <2>4, <2>5, AcquireGoesOn
  <2>7. job' = [moved EXCEPT ![p].got = found(tree)]
    BY <1>1, <2>3, SMT DEF JobsTyped, Job
  <2>8. moved \in [Procs -> Job] /\ moved[p].opened = job[p].opened
    BY <1>1, <2>5, MoveJob, MoveKeepsFields DEF JobsTyped
  <2>. HIDE DEF moved
  <2>9. job'[p].opened = job[p].opened /\ job'[p].got # None
    BY <2>4, <2>7, <2>8, LearnKeepsFields, IndexLifecycleAssumption
  <2>10. Progress(p)'
    BY <1>3, <2>1, <2>2, <2>6, <2>9 DEF Progress, GoesOn, OpenSteps, Openers
  <2>. QED BY <1>4, <2>1, <2>2, <2>6, <2>9, <2>10, MoveLearns DEF Openers
<1>6. CASE KeepSemantic(p) \/ RenameSem(p) \/ FailSemantic(p)
  BY <1>1, <1>4, <1>6, EndEnds, EndLearns DEF KeepSemantic, RenameSem, FailSemantic
<1>7. CASE ReplaceSemantic(p)
  <2>1. PICK to \in {"acquire", "mkdir"} :
          /\ Goto(p, "readSem", to)
          /\ to = "acquire" => job[p].cmd = "watch"
          /\ to = "mkdir" => job[p].cmd = "rebuild"
    BY <1>7 DEF ReplaceSemantic
  <2>2. MovesTo(p, to) /\ job[p].at = "readSem"
    BY <1>1, <2>1, GotoMoves DEF Steps
  <2>3. Progress(p)'
    BY <1>3, <2>1, <2>2 DEF Progress, MovesTo, GoesOn, OpenSteps
  <2>. QED BY <1>4, <2>1, <2>2, <2>3, MoveLearns DEF MovesTo
<1>8. CASE WriteSemTemp(p)
  <2>1. MovesTo(p, "renameSem") /\ job[p].at = "writeSem"
    BY <1>1, <1>8, GotoMoves DEF WriteSemTemp, Steps
  <2>2. Progress(p)'
    BY <1>3, <2>1 DEF Progress, MovesTo, GoesOn, OpenSteps
  <2>. QED BY <1>4, <2>1, <2>2, MoveLearns DEF MovesTo
<1>. QED BY <1>5, <1>6, <1>7, <1>8 DEF SemanticStep

RemovalSteps ==
  {"clean", "checkLock", "checkMeta", "checkSem", "decide", "statLock", "rmLock", "remove"}

\* A removal that goes on learns nothing of metadata it would have opened.
LEMMA RemovalMoves ==
  ASSUME HInv, Observe, NEW p \in Procs, GoesOn(p), job'[p].opened = job[p].opened,
         job'[p].at \in RemovalSteps, MetaStep, Quiet(p)', Unhealthy(p)'
  PROVE  Learns(p)
PROOF
<1>1. Progress(p)'
  BY DEF Progress, RemovalSteps, OpenSteps
<1>. QED BY <1>1, KeepsMeta DEF Learns, Known, GoesOn

\* What recovery and a purge learn.
LEMMA RemovalLearns ==
  ASSUME HInv, Observe, NEW p \in Procs, RemovalStep(p)
  PROVE  Learns(p)
PROOF
<1>1. JobsTyped /\ Quiet(p) /\ Unhealthy(p)
  BY DEF HInv, IInv, TypeOK, JobsTyped, Known
<1>2. MetaStep
  BY DEF RemovalStep, CleanTemps, CheckLock, CheckMeta, CheckSem, Decide, StatLock,
         RemoveOldLock, RemoveDirectory, RemoveEntry, disk, MetaStep
<1>3. ASSUME job'[p].cmd = job[p].cmd
      PROVE  /\ witness'[p].quiet => witness[p].quiet
             /\ witness'[p].healthy /\ job[p].cmd = "recover" => witness[p].healthy
  BY <1>3, ObserveMeans
<1>4. CASE CleanTemps(p)
  <2>1. MovesTo(p, "checkLock")
    BY <1>1, <1>4, GotoMoves DEF CleanTemps, Steps
  <2>2. Quiet(p)' /\ Unhealthy(p)'
    BY <2>1 DEF MovesTo, Quiet, Unhealthy
  <2>. QED BY <1>2, <2>1, <2>2, RemovalMoves DEF MovesTo, RemovalSteps
<1>5. CASE CheckLock(p)
  <2>1. PICK to \in {"checkMeta", "statLock"} :
          Goto(p, "checkLock", to) /\ (to = "statLock" => lock' # None)
    BY <1>5 DEF CheckLock, disk
  <2>2. MovesTo(p, to)
    BY <1>1, <2>1, GotoMoves DEF Steps
  <2>3. Quiet(p)' /\ Unhealthy(p)'
    BY <2>1, <2>2 DEF MovesTo, Quiet, Unhealthy
  <2>. QED BY <1>2, <2>2, <2>3, RemovalMoves DEF MovesTo, RemovalSteps
<1>6. CASE CheckMeta(p)
  <2>1. CASE meta = None /\ End(p)
    BY <1>1, <1>2, <2>1, EndEnds, EndLearns
  <2>2. CASE meta = Invalid /\ Goto(p, "checkMeta", "decide")
    <3>1. MovesTo(p, "decide")
      BY <1>1, <2>2, GotoMoves DEF Steps
    <3>2. meta' \notin Runs
      BY <1>6, <2>2, IndexLifecycleAssumption DEF CheckMeta, disk
    <3>3. Quiet(p)' /\ Unhealthy(p)'
      BY <3>1, <3>2, ObserveMeans DEF MovesTo, Quiet, Unhealthy
    <3>. QED BY <1>2, <3>1, <3>3, RemovalMoves DEF MovesTo, RemovalSteps
  <2>3. CASE meta \in Runs /\ Goto(p, "checkMeta", "checkSem")
    <3>1. MovesTo(p, "checkSem") /\ meta' \in Runs
      BY <1>1, <1>6, <2>3, GotoMoves DEF Steps, CheckMeta, disk
    <3>2. Quiet(p)' /\ Unhealthy(p)'
      BY <3>1 DEF MovesTo, Quiet, Unhealthy
    <3>. QED BY <1>2, <3>1, <3>2, RemovalMoves DEF MovesTo, RemovalSteps
  <2>. QED BY <1>6, <2>1, <2>2, <2>3 DEF CheckMeta
<1>7. CASE CheckSem(p)
  <2>1. CASE End(p)
    BY <1>1, <1>2, <2>1, EndEnds, EndLearns
  <2>2. CASE ~(sem \in Semantic /\ (job[p].got = None \/ sem = job[p].got))
             /\ Goto(p, "checkSem", "decide")
    <3>1. MovesTo(p, "decide") /\ sem' = sem
      BY <1>1, <1>7, <2>2, GotoMoves DEF Steps, CheckSem, disk
    <3>2. Quiet(p)' /\ Unhealthy(p)'
      BY <2>2, <3>1, ObserveMeans DEF MovesTo, Quiet, Unhealthy
    <3>. QED BY <1>2, <3>1, <3>2, RemovalMoves DEF MovesTo, RemovalSteps
  <2>. QED BY <1>7, <2>1, <2>2 DEF CheckSem
<1>8. CASE Decide(p)
  <2>. DEFINE moved == [job EXCEPT ![p].at = "remove"]
  <2>1. job[p].at = "decide" /\ job' = [job EXCEPT ![p].at = "remove", ![p].todo = Present]
        /\ meta' = meta
    BY <1>8 DEF Decide, disk
  <2>2. Present \in SUBSET Names /\ (meta = None \/ "meta" \in Present)
    BY DEF Present, Names
  <2>3. GoesOn(p) /\ job'[p].at = "remove"
    BY <1>1, <2>1, <2>2, DecideGoesOn
  <2>4. job' = [moved EXCEPT ![p].todo = Present]
    <3>. HIDE DEF Present
    <3>. QED BY <1>1, <2>1, SMT DEF JobsTyped, Job
  <2>5. moved \in [Procs -> Job] /\ moved[p].opened = job[p].opened
    <3>1. "remove" \in Steps
      BY DEF Steps
    <3>. QED BY <1>1, <3>1, MoveJob, MoveKeepsFields DEF JobsTyped
  <2>. HIDE DEF moved
  <2>6. job'[p].opened = job[p].opened /\ job'[p].todo = Present
    BY <2>2, <2>4, <2>5, LearnKeepsFields
  <2>7. Quiet(p)'
    BY <2>1, <2>2, <2>3, <2>6 DEF Quiet
  <2>8. Unhealthy(p)'
    BY <1>1, <1>3, <2>1, <2>3 DEF GoesOn, Unhealthy
  <2>. QED BY <1>2, <2>3, <2>6, <2>7, <2>8, RemovalMoves DEF RemovalSteps
<1>9. CASE StatLock(p)
  <2>1. CASE End(p)
    BY <1>1, <1>2, <2>1, EndEnds, EndLearns
  <2>2. CASE lock # None /\ Goto(p, "statLock", "rmLock")
    <3>1. MovesTo(p, "rmLock") /\ lock' # None
      BY <1>1, <1>9, <2>2, GotoMoves DEF Steps, StatLock, disk
    <3>2. Quiet(p)' /\ Unhealthy(p)'
      BY <3>1 DEF MovesTo, Quiet, Unhealthy
    <3>. QED BY <1>2, <3>1, <3>2, RemovalMoves DEF MovesTo, RemovalSteps
  <2>. QED BY <1>9, <2>1, <2>2 DEF StatLock
<1>10. CASE RemoveOldLock(p) \/ RemoveDirectory(p)
  BY <1>1, <1>2, <1>10, EndEnds, EndLearns DEF RemoveOldLock, RemoveDirectory
<1>11. ASSUME NEW n \in Names, RemoveEntry(p, n)
       PROVE  Learns(p)
  <2>1. job[p].todo \ {n} \in SUBSET Names
    BY <1>1, SMT DEF JobsTyped, Job
  <2>2. job[p].at = "remove" /\ job' = [job EXCEPT ![p].todo = job[p].todo \ {n}]
        /\ meta' = IF n = "meta" THEN None ELSE meta
    BY <1>1, <1>11, SMT DEF RemoveEntry, JobsTyped, Job
  <2>3. GoesOn(p) /\ job'[p].at = "remove"
    BY <1>1, <2>1, <2>2, RemovalGoesOn
  <2>4. job'[p].opened = job[p].opened /\ job'[p].todo = job[p].todo \ {n}
    BY <1>1, <2>1, <2>2, LearnKeepsFields DEF JobsTyped
  <2>5. Quiet(p)'
    BY <1>1, <1>3, <2>2, <2>3, <2>4 DEF Quiet, GoesOn
  <2>6. Unhealthy(p)'
    BY <1>1, <1>3, <2>2, <2>3 DEF GoesOn, Unhealthy
  <2>. QED BY <1>2, <2>3, <2>4, <2>5, <2>6, RemovalMoves DEF RemovalSteps
<1>. QED
  BY <1>4, <1>5, <1>6, <1>7, <1>8, <1>9, <1>10, <1>11 DEF RemovalStep

\* What a command knows survives the steps of the others.
LEMMA OthersKnow ==
  ASSUME HInv, Observe, NEW q \in Procs, job'[q] = job[q], MetaStep
  PROVE  Known(q)'
PROOF
<1>1. Known(q)
  BY DEF HInv
<1>2. Progress(q)'
  BY <1>1 DEF Known, Progress
<1>3. KeptMeta(q)'
  <2>. SUFFICES ASSUME job[q].opened # None, witness'[q].kept PROVE meta' \in Runs
    BY DEF KeptMeta
  <2>1. witness[q].kept /\ ~(meta # None /\ meta' = None)
    BY ObserveMeans DEF Openers
  <2>2. meta \in Runs
    BY <1>1, <2>1 DEF Known, KeptMeta
  <2>. QED BY <2>1, <2>2, IndexLifecycleAssumption DEF MetaStep
<1>4. Quiet(q)'
  <2>. SUFFICES ASSUME witness'[q].quiet
                PROVE  witness[q].quiet /\ UNCHANGED disk
    BY <1>1 DEF Known, Quiet, disk
  <2>. QED BY ObserveMeans
<1>5. Unhealthy(q)'
  BY <1>1, ObserveMeans DEF Known, Unhealthy
<1>. QED BY <1>2, <1>3, <1>4, <1>5 DEF Known

\* Nothing is known at first.
LEMMA InitKnown == Init => HInv
PROOF
<1>1. ASSUME Init, NEW p \in Procs
      PROVE  Known(p)
  <2>1. job[p] = NoJob /\ witness[p] = NoWitness
    BY <1>1 DEF Init
  <2>2. ~NoWitness.quiet /\ ~NoWitness.kept
    BY Zenon DEF NoWitness
  <2>. QED
    BY <2>1, <2>2 DEF Known, Progress, KeptMeta, Quiet, Unhealthy, NoJob
<1>. QED BY <1>1, InitInv DEF HInv

\* Every step teaches the command that takes it what it has to know.
LEMMA StepKnown == HInv /\ [Next]_vars => HInv'
PROOF
<1>. SUFFICES ASSUME HInv, [Next]_vars PROVE HInv'
  OBVIOUS
<1>1. IInv'
  BY StepInv DEF HInv
<1>2. CASE UNCHANGED vars
  BY <1>1, <1>2
  DEF HInv, Known, Progress, KeptMeta, Quiet, Unhealthy, vars, disk
<1>3. ASSUME Observe, NEW p \in Procs, Learns(p)
      PROVE  \A q \in Procs : Known(q)'
  BY <1>3, OthersKnow DEF Learns, OthersKept
<1>4. ASSUME Observe, NEW p \in Procs, Crash(p)
      PROVE  Learns(p)
  <2>1. Ends(p)
    BY <1>4, EndEnds DEF HInv, IInv, TypeOK, JobsTyped, Crash
  <2>. QED BY <1>4, <2>1, EndLearns DEF Crash, disk, MetaStep
<1>5. ASSUME Observe, LockAges
      PROVE  \A q \in Procs : Known(q)'
  BY <1>5, OthersKnow DEF LockAges, MetaStep
<1>6. CASE Next
  <2>1. Observe /\ Step
    BY <1>6 DEF Next
  <2>2. CASE LockAges
    BY <1>1, <1>5, <2>1, <2>2 DEF HInv
  <2>3. CASE ~LockAges
    <3>1. PICK p \in Procs :
            \/ BeginOpener(p) \/ BeginRecover(p) \/ BeginPurge(p)
            \/ OpenStep(p) \/ SemanticStep(p) \/ RemovalStep(p) \/ Crash(p)
      BY <2>1, <2>3 DEF Step
    <3>2. Learns(p)
      BY <1>4, <2>1, <3>1, BeginLearns, OpenLearns, SemanticLearns, RemovalLearns
    <3>. QED BY <1>1, <1>3, <2>1, <3>2 DEF HInv
  <2>. QED BY <2>2, <2>3
<1>. QED BY <1>2, <1>6

\* Recovery never removes an index that has been ready all along
\* (recoverCorruptIndex, verifyLocalIndex), whatever the others do meanwhile.
THEOREM RecoveryKeepsHealthy == Spec => []HealthyIndexKept
PROOF
<1>1. HInv => HealthyIndexKept
  BY DEF HInv, Known, Unhealthy, HealthyIndexKept
<1>. QED BY <1>1, InitKnown, StepKnown, PTL DEF Spec

\* A command that has written semantic.json (writeSemanticIndexState) leaves
\* valid metadata beside it, unless a file was removed while it ran.
THEOREM WritersLeaveReady == Spec => WrittenMeansReady
PROOF
<1>1. ASSUME HInv, NEW p \in Procs, RenameSem(p), witness[p].kept
      PROVE  ReadyFor(None)'
  <2>1. job[p].opened # None /\ job[p].got # None
    BY <1>1 DEF HInv, Known, Progress, RenameSem
  <2>2. job[p].got \in Semantic \cup {None}
    BY SMT, <1>1 DEF HInv, IInv, TypeOK, Job
  <2>3. meta \in Runs
    BY <1>1, <2>1 DEF HInv, Known, KeptMeta
  <2>. QED BY <1>1, <2>1, <2>2, <2>3 DEF RenameSem, ReadyFor
<1>2. HInv => (\A p \in Procs : RenameSem(p) /\ witness[p].kept => ReadyFor(None)')
  BY <1>1
<1>. QED BY <1>2, InitKnown, StepKnown, PTL DEF Spec, WrittenMeansReady

\* A recovery that nobody interferes with repairs: recoverCorruptIndex ends
\* with an index that is ready, absent, or locked.
THEOREM RecoveryLeavesReady == Spec => RecoveryRepairs
PROOF
<1>. DEFINE Repaired(p) ==
       \/ ReadyFor(None)' /\ (job[p].got = None \/ sem' = job[p].got)
       \/ meta' = None \/ lock # None
<1>1. ASSUME HInv, Next, NEW p \in Procs, RemovalStep(p), job'[p] = NoJob, witness[p].quiet
      PROVE  Repaired(p)
  <2>1. JobsTyped /\ Quiet(p)
    BY <1>1 DEF HInv, IInv, TypeOK, JobsTyped, Known
  <2>2. \A from \in Steps \ {"idle"}, to \in Steps \ {"idle"} : ~Goto(p, from, to)
    BY <1>1, <2>1, GotoGoesOn DEF NoJob
  <2>3. ~CleanTemps(p) /\ ~CheckLock(p)
    BY <2>2 DEF CleanTemps, CheckLock, Steps
  <2>4. CASE CheckMeta(p)
    BY <2>2, <2>4 DEF CheckMeta, Steps, disk
  <2>5. CASE CheckSem(p)
    <3>1. sem \in Semantic /\ (job[p].got = None \/ sem = job[p].got)
      BY <2>2, <2>5 DEF CheckSem, Steps
    <3>2. meta \in Runs
      BY <1>1, <2>1, <2>5 DEF CheckSem, Quiet
    <3>. QED BY <2>5, <3>1, <3>2 DEF CheckSem, ReadyFor, disk
  <2>6. CASE Decide(p)
    <3>1. Present \in SUBSET Names
      BY DEF Present
    <3>2. job'[p].at = "remove"
      BY <2>1, <2>6, <3>1, DecideGoesOn DEF Decide
    <3>. QED BY <1>1, <3>2 DEF NoJob
  <2>7. CASE StatLock(p) \/ RemoveOldLock(p)
    BY <1>1, <2>1, <2>7 DEF StatLock, RemoveOldLock, Quiet
  <2>8. CASE RemoveDirectory(p)
    BY <1>1, <2>1, <2>8 DEF RemoveDirectory, Quiet
  <2>9. ASSUME NEW n \in Names, RemoveEntry(p, n)
        PROVE  FALSE
    <3>1. job[p].todo \ {n} \in SUBSET Names
      BY <2>1, SMT DEF JobsTyped, Job
    <3>2. job'[p].at = "remove"
      BY <2>1, <2>9, <3>1, RemovalGoesOn DEF RemoveEntry
    <3>. QED BY <1>1, <3>2 DEF NoJob
  <2>. QED BY <1>1, <2>3, <2>4, <2>5, <2>6, <2>7, <2>8, <2>9 DEF RemovalStep
<1>2. HInv /\ [Next]_vars =>
        [\A p \in Procs : RemovalStep(p) /\ job'[p] = NoJob /\ witness[p].quiet =>
           Repaired(p)]_vars
  BY <1>1
<1>. QED BY <1>2, InitKnown, StepKnown, PTL DEF Spec, RecoveryRepairs

-----------------------------------------------------------------------------
(* What a command leaves behind.                                            *)

Holding == {"writeMeta", "renameMeta", "unlock", "rmTemp", "renameSem"}

\* What is on disk stays accounted for if a step of p adds nothing that is not
\* its own, and p gives nothing up that is still there.
LEMMA StaysAccountedFor ==
  ASSUME LeftoversAccountedFor, NEW p \in Procs, OthersKept(p), dead \subseteq dead',
         lock' # None =>
           \/ lock # None /\ lock'.owner = lock.owner
           \/ lock'.owner = Run(p)' /\ Initializing(p)',
         lock' # None /\ Initializing(p) =>
           Run(p) \in dead' \/ (Run(p)' = Run(p) /\ Initializing(p)'),
         \A f \in temps' :
           f \in temps \/ (f[2] = Run(p)' /\ job'[p].at \in HasTemp[f[1]]),
         \A f \in temps' : f[2] = Run(p) /\ job[p].at \in HasTemp[f[1]] =>
           Run(p) \in dead' \/ (Run(p)' = Run(p) /\ job'[p].at \in HasTemp[f[1]])
  PROVE  LeftoversAccountedFor'
PROOF
<1>. HasTemp' = HasTemp
  BY DEF HasTemp
<1>. HIDE DEF HasTemp
<1>1. ASSUME lock' # None
      PROVE  lock'.owner \in dead' \/ \E q \in Procs : lock'.owner = Run(q)' /\ Initializing(q)'
  <2>1. CASE lock'.owner = Run(p)' /\ Initializing(p)'
    BY <2>1
  <2>2. CASE lock # None /\ lock'.owner = lock.owner
    <3>1. CASE lock.owner \in dead
      BY <2>2, <3>1
    <3>2. CASE lock.owner \notin dead
      <4>1. PICK q \in Procs : lock.owner = Run(q) /\ Initializing(q)
        BY <2>2, <3>2 DEF LeftoversAccountedFor
      <4>2. CASE q = p
        BY <1>1, <2>2, <4>1, <4>2
      <4>3. CASE q # p
        BY <2>2, <4>1, <4>3 DEF OthersKept, Run, Initializing
      <4>. QED BY <4>2, <4>3
    <3>. QED BY <3>1, <3>2
  <2>. QED BY <1>1, <2>1, <2>2
<1>2. ASSUME NEW f \in temps'
      PROVE  f[2] \in dead' \/ \E q \in Procs : f[2] = Run(q)' /\ job'[q].at \in HasTemp[f[1]]
  <2>1. CASE f[2] = Run(p)' /\ job'[p].at \in HasTemp[f[1]]
    BY <2>1
  <2>2. CASE f \in temps
    <3>1. CASE f[2] \in dead
      BY <3>1
    <3>2. CASE f[2] \notin dead
      <4>1. PICK q \in Procs : f[2] = Run(q) /\ job[q].at \in HasTemp[f[1]]
        BY <2>2, <3>2 DEF LeftoversAccountedFor
      <4>2. CASE q = p
        BY <4>1, <4>2
      <4>3. CASE q # p
        BY <4>1, <4>3 DEF OthersKept, Run
      <4>. QED BY <4>2, <4>3
    <3>. QED BY <3>1, <3>2
  <2>. QED BY <2>1, <2>2
<1>. QED BY <1>1, <1>2 DEF LeftoversAccountedFor

\* A command that holds nothing leaves the others' files theirs, or removes them.
LEMMA BystanderLeaves ==
  ASSUME LeftoversAccountedFor, IInv', NEW p \in Procs, OthersKept(p),
         job[p].at \notin Holding, temps' \subseteq temps,
         lock' \in {None, lock}, dead' = dead
  PROVE  LeftoversAccountedFor'
PROOF
<1>1. ~Initializing(p)
  BY DEF Initializing, Holding
<1>2. ASSUME NEW f \in temps'
      PROVE  job[p].at \notin HasTemp[f[1]]
  <2>1. f[1] \in {"meta", "sem"}
    BY <1>2 DEF IInv, TypeOK
  <2>. QED BY <2>1 DEF HasTemp, Holding
<1>. QED BY <1>1, <1>2, StaysAccountedFor

\* A command that ends without crashing has taken its files with it.
LEMMA LastFileLeaves ==
  ASSUME LeftoversAccountedFor, IInv', NEW p \in Procs, OthersKept(p), NEW n \in {"meta", "sem"},
         job[p].at = IF n = "meta" THEN "rmTemp" ELSE "renameSem",
         temps' = temps \ {<<n, Run(p)>>}, UNCHANGED <<lock, dead>>
  PROVE  LeftoversAccountedFor'
PROOF
<1>1. ~Initializing(p)
  BY DEF Initializing
<1>2. ASSUME NEW f \in temps', f[2] = Run(p), job[p].at \in HasTemp[f[1]]
      PROVE  FALSE
  <2>1. f \in {"meta", "sem"} \X Runs
    BY <1>2 DEF IInv, TypeOK
  <2>2. f[1] = n
    BY <1>2, <2>1 DEF HasTemp
  <2>3. f = <<n, Run(p)>>
    BY <1>2, <2>1, <2>2
  <2>. QED BY <1>2, <2>3
<1>. QED BY <1>1, <1>2, StaysAccountedFor

\* A command that dies is remembered for what it leaves.
LEMMA DeathLeaves ==
  ASSUME LeftoversAccountedFor, NEW p \in Procs, OthersKept(p),
         dead' = dead \cup {Run(p)}, UNCHANGED disk
  PROVE  LeftoversAccountedFor'
BY StaysAccountedFor DEF disk

\* An open removes its lock and its temporary file on every way out of it.
LEMMA OpenLeaves ==
  ASSUME HInv, IInv', Observe, LeftoversAccountedFor, NEW p \in Procs, OpenStep(p)
  PROVE  LeftoversAccountedFor'
PROOF
<1>1. JobsTyped /\ OthersKept(p)
  BY OpenLearns DEF HInv, IInv, TypeOK, JobsTyped, Learns
<1>2. CASE MakeDirectory(p) \/ FindIndex(p) \/ RefuseIndex(p) \/ FindNoIndex(p) \/ TakeLockFails(p)
  <2>1. job[p].at \in {"mkdir", "readMeta", "lock"} /\ UNCHANGED <<lock, temps, dead>>
    BY <1>2 DEF MakeDirectory, FindIndex, RefuseIndex, FindNoIndex, TakeLockFails, Goto,
                disk, rest
  <2>. QED BY <1>1, <2>1, BystanderLeaves DEF Holding
<1>3. CASE TakeLock(p)
  <2>1. GoesOn(p) /\ job[p].at = "lock" /\ job'[p].at = "writeMeta"
    BY <1>1, <1>3, GotoGoesOn DEF TakeLock, Steps
  <2>2. lock'.owner = Run(p)' /\ Initializing(p)' /\ ~Initializing(p)
    BY <1>3, <2>1 DEF TakeLock, Initializing, GoesOn
  <2>3. ASSUME NEW f \in temps'
        PROVE  f \in temps /\ job[p].at \notin HasTemp[f[1]]
    <3>1. f[1] \in {"meta", "sem"}
      BY <2>3 DEF IInv, TypeOK
    <3>. QED BY <1>3, <2>1, <2>3, <3>1 DEF TakeLock, HasTemp
  <2>4. dead' = dead
    BY <1>3 DEF TakeLock, rest
  <2>. QED BY <1>1, <2>2, <2>3, <2>4, StaysAccountedFor
<1>4. CASE WriteMetaTemp(p) \/ RenameMeta(p) \/ FailPublishing(p)
  <2>1. GoesOn(p) /\ job[p].at \in {"writeMeta", "renameMeta"}
        /\ job'[p].at \in {"renameMeta", "unlock"}
    <3>1. CASE WriteMetaTemp(p)
      BY <1>1, <3>1, GotoGoesOn DEF WriteMetaTemp, Steps
    <3>2. CASE RenameMeta(p)
      <4>1. job[p].at = "renameMeta" /\ Running(p)
            /\ job' = [job EXCEPT ![p].at = "unlock", ![p].opened = Run(p)]
        BY <3>2 DEF RenameMeta, Running
      <4>2. Run(p) \in Runs
        BY <4>1, RunTyped DEF HInv
      <4>. QED BY <1>1, <4>1, <4>2, PublishedGoesOn DEF Steps
    <3>3. CASE FailPublishing(p)
      BY <1>1, <3>3, MoveGoesOn DEF FailPublishing, Running, Steps
    <3>. QED BY <1>4, <3>1, <3>2, <3>3
  <2>2. Run(p)' = Run(p) /\ Initializing(p)' /\ UNCHANGED <<lock, dead>>
    BY <1>4, <2>1 DEF GoesOn, Initializing, WriteMetaTemp, RenameMeta, FailPublishing, disk,
                      rest
  <2>3. temps' \subseteq temps \cup {<<"meta", Run(p)>>}
    BY <1>4 DEF WriteMetaTemp, RenameMeta, FailPublishing, disk
  <2>4. ASSUME NEW f \in temps'
        PROVE  /\ f \in temps \/ (f[2] = Run(p)' /\ job'[p].at \in HasTemp[f[1]])
               /\ job[p].at \in HasTemp[f[1]] => job'[p].at \in HasTemp[f[1]]
    <3>1. f[1] \in {"meta", "sem"}
      BY <2>4 DEF IInv, TypeOK
    <3>. QED BY <2>1, <2>2, <2>3, <2>4, <3>1 DEF HasTemp
  <2>. QED BY <1>1, <2>2, <2>4, StaysAccountedFor
<1>5. CASE Unlock(p)
  <2>1. GoesOn(p) /\ job[p].at = "unlock" /\ job'[p].at = "rmTemp"
    BY <1>1, <1>5, GotoGoesOn DEF Unlock, Steps
  <2>2. lock' = None /\ UNCHANGED <<temps, dead>> /\ Run(p)' = Run(p)
    BY <1>5, <2>1 DEF Unlock, GoesOn, rest
  <2>3. ASSUME NEW f \in temps'
        PROVE  job[p].at \in HasTemp[f[1]] => job'[p].at \in HasTemp[f[1]]
    <3>1. f[1] \in {"meta", "sem"}
      BY <2>3 DEF IInv, TypeOK
    <3>. QED BY <2>1, <3>1 DEF HasTemp
  <2>. QED BY <1>1, <2>2, <2>3, StaysAccountedFor
<1>6. CASE FinishOpen(p)
  <2>1. job[p].at = "rmTemp" /\ temps' = temps \ {<<"meta", Run(p)>>} /\ UNCHANGED <<lock, dead>>
    BY <1>6 DEF FinishOpen, rest
  <2>. QED BY <1>1, <2>1, LastFileLeaves
<1>. QED BY <1>2, <1>3, <1>4, <1>5, <1>6 DEF OpenStep

\* The temporary file of semantic.json is renamed, or its command is
\* remembered as one that failed.
LEMMA SemanticLeaves ==
  ASSUME HInv, IInv', Observe, LeftoversAccountedFor, NEW p \in Procs, SemanticStep(p)
  PROVE  LeftoversAccountedFor'
PROOF
<1>1. JobsTyped /\ OthersKept(p)
  BY SemanticLearns DEF HInv, IInv, TypeOK, JobsTyped, Learns
<1>2. CASE Acquire(p) \/ KeepSemantic(p) \/ ReplaceSemantic(p)
  <2>1. job[p].at \in {"acquire", "readSem"} /\ UNCHANGED <<lock, temps, dead>>
    BY <1>2 DEF Acquire, KeepSemantic, ReplaceSemantic, Goto, disk, rest
  <2>. QED BY <1>1, <2>1, BystanderLeaves DEF Holding
<1>3. CASE WriteSemTemp(p)
  <2>1. GoesOn(p) /\ job[p].at = "writeSem" /\ job'[p].at = "renameSem"
    BY <1>1, <1>3, GotoGoesOn DEF WriteSemTemp, Steps
  <2>2. UNCHANGED <<lock, dead>> /\ temps' = temps \cup {<<"sem", Run(p)>>}
        /\ Run(p)' = Run(p) /\ ~Initializing(p)
    BY <1>3, <2>1 DEF WriteSemTemp, GoesOn, Initializing, rest
  <2>3. ASSUME NEW f \in temps'
        PROVE  /\ f \in temps \/ (f[2] = Run(p)' /\ job'[p].at \in HasTemp[f[1]])
               /\ job[p].at \notin HasTemp[f[1]]
    <3>1. f[1] \in {"meta", "sem"}
      BY <2>3 DEF IInv, TypeOK
    <3>. QED BY <2>1, <2>2, <2>3, <3>1 DEF HasTemp
  <2>. QED BY <1>1, <2>2, <2>3, StaysAccountedFor
<1>4. CASE RenameSem(p)
  <2>1. job[p].at = "renameSem" /\ temps' = temps \ {<<"sem", Run(p)>>}
        /\ UNCHANGED <<lock, dead>>
    BY <1>4 DEF RenameSem, rest
  <2>. QED BY <1>1, <2>1, LastFileLeaves
<1>5. CASE FailSemantic(p)
  BY <1>1, <1>5, DeathLeaves DEF FailSemantic
<1>. QED BY <1>2, <1>3, <1>4, <1>5 DEF SemanticStep

\* Every step leaves what is on disk accounted for.
LEMMA StepLeaves ==
  ASSUME HInv, LeftoversAccountedFor, [Next]_vars
  PROVE  LeftoversAccountedFor'
PROOF
<1>1. IInv'
  BY StepInv DEF HInv
<1>2. CASE UNCHANGED vars
  BY <1>2 DEF LeftoversAccountedFor, Run, Initializing, HasTemp, vars, disk, rest
<1>3. ASSUME Observe, NEW p \in Procs,
             BeginOpener(p) \/ BeginRecover(p) \/ BeginPurge(p) \/ RemovalStep(p)
      PROVE  LeftoversAccountedFor'
  <2>1. OthersKept(p)
    BY <1>3, BeginLearns, RemovalLearns DEF Learns
  <2>2. CASE BeginOpener(p) \/ BeginRecover(p) \/ BeginPurge(p)
    <3>1. job[p].at = "idle" /\ UNCHANGED <<lock, temps, dead>>
      BY <2>2 DEF BeginOpener, BeginRecover, BeginPurge, Begin, disk
    <3>. QED BY <1>1, <2>1, <3>1, BystanderLeaves DEF Holding
  <2>3. CASE RemovalStep(p)
    <3>1. /\ job[p].at \in RemovalSteps /\ temps' \subseteq temps
          /\ lock' \in {None, lock} /\ dead' = dead
      <4>1. ASSUME NEW n \in Names, RemoveEntry(p, n)
            PROVE  /\ job[p].at \in RemovalSteps /\ temps' \subseteq temps
                   /\ lock' \in {None, lock} /\ dead' = dead
        BY <4>1 DEF RemoveEntry, LockRemoved, RemovalSteps
      <4>. QED
        BY <2>3, <4>1 DEF RemovalStep, CleanTemps, CheckLock, CheckMeta, CheckSem, Decide,
               StatLock, RemoveOldLock, RemoveDirectory, LockRemoved, Goto, RemovalSteps,
               disk, rest
    <3>. QED BY <1>1, <2>1, <3>1, BystanderLeaves DEF Holding, RemovalSteps
  <2>. QED BY <1>3, <2>2, <2>3
<1>4. ASSUME NEW p \in Procs, Crash(p)
      PROVE  LeftoversAccountedFor'
  <2>1. Ends(p)
    BY <1>4, EndEnds DEF HInv, IInv, TypeOK, JobsTyped, Crash
  <2>. QED BY <1>4, <2>1, DeathLeaves DEF Crash, Ends
<1>5. ASSUME LockAges
      PROVE  LeftoversAccountedFor'
  <2>1. lock # None /\ lock \in Lock /\ lock'.owner = lock.owner
    BY <1>5 DEF LockAges, HInv, IInv, TypeOK, Lock
  <2>. QED
    BY <1>5, <2>1 DEF LockAges, LeftoversAccountedFor, Run, Initializing, HasTemp, rest
<1>6. CASE Next
  BY <1>1, <1>3, <1>4, <1>5, <1>6, OpenLeaves, SemanticLeaves DEF Next, Step
<1>. QED BY <1>2, <1>6

\* Whatever is left in the index directory belongs to a command that is going
\* to remove it, or to one that crashed or failed (openLocalIndex, the finally
\* clause; writeSemanticIndexState).
THEOREM LifecycleLeavesNothing == Spec => []LeftoversAccountedFor
PROOF
<1>1. Init => LeftoversAccountedFor
  BY DEF Init, LeftoversAccountedFor
<1>2. HInv /\ LeftoversAccountedFor /\ [Next]_vars => LeftoversAccountedFor'
  BY StepLeaves
<1>. QED BY <1>1, <1>2, InitKnown, StepKnown, PTL DEF Spec

=============================================================================
