--------------------------- MODULE EditorTasks -------------------------------
(***************************************************************************)
(* The tasks the editor extension runs for each workspace root             *)
(* (CancellableTaskRunner in apps/vscode-extension/src/multi-root.ts).     *)
(*                                                                         *)
(* controllers maps a root to a Map object of the tasks it tracks; a       *)
(* running task keeps the object it was entered in, and cleans that one up *)
(* when it ends, whatever controllers has for the root by then.  Objects   *)
(* are numbered in the order in which they are made.                       *)
(***************************************************************************)
EXTENDS Naturals, FiniteSets, Sequences

CONSTANTS
  Roots,    \* workspace roots (normalised paths)
  TaskIds,  \* ids of tasks
  MaxRuns   \* bound: how many tasks are run

ASSUME MaxRunsAssumption == MaxRuns \in Nat

NoMap == 0

VARIABLES
  controllers,  \* root -> the Map object, or NoMap
  taskMaps,     \* Map object -> the runs it holds
  runs          \* the calls of runTask, as records

taskVars == <<controllers, taskMaps, runs>>

\* The result of a run: "none" while it runs.
Run == [root : Roots, task : TaskIds, map : 1..MaxRuns, aborted : BOOLEAN,
        result : {"none", "ok", "cancelled", "failed"}]

TasksTypeOK ==
  /\ runs \in Seq(Run) /\ Len(runs) <= MaxRuns
  /\ controllers \in [Roots -> 0..Len(taskMaps)]
  /\ taskMaps \in Seq(SUBSET DOMAIN runs)

TasksInit ==
  /\ controllers = [r \in Roots |-> NoMap] /\ taskMaps = <<>> /\ runs = <<>>

Running(k) == runs[k].result = "none"

\* What isTaskRunning sees of a root.
Tracked(r) == IF controllers[r] = NoMap THEN {} ELSE taskMaps[controllers[r]]

Abort(ks) == runs' = [k \in DOMAIN runs |->
                        IF k \in ks THEN [runs[k] EXCEPT !.aborted = TRUE] ELSE runs[k]]

-----------------------------------------------------------------------------
(* CancellableTaskRunner.                                                   *)

\* A task id that is tracked for the root is refused.
RunTask(r, t) ==
  /\ Len(runs) < MaxRuns
  /\ \A k \in Tracked(r) : runs[k].task # t
  /\ LET object == IF controllers[r] = NoMap THEN Len(taskMaps) + 1 ELSE controllers[r]
         k == Len(runs) + 1
     IN  /\ controllers' = [controllers EXCEPT ![r] = object]
         /\ taskMaps' = IF object > Len(taskMaps) THEN Append(taskMaps, {k})
                        ELSE [taskMaps EXCEPT ![object] = @ \cup {k}]
         /\ runs' = Append(runs, [root |-> r, task |-> t, map |-> object, aborted |-> FALSE,
                                  result |-> "none"])

\* (mutant: no finally clause)
EndTaskUntidily(k, succeeds) ==
  /\ Running(k)
  /\ runs' = [runs EXCEPT ![k].result = IF runs[k].aborted THEN "cancelled"
                                        ELSE IF succeeds THEN "ok" ELSE "failed"]
  /\ UNCHANGED <<controllers, taskMaps>>

\* The operation returns or throws; the finally clause removes the run from its
\* own Map object (by task id), and then whatever Map the root has by now.
EndTask(k, succeeds) ==
  LET r == runs[k].root
      rest == {j \in taskMaps[runs[k].map] : runs[j].task # runs[k].task}
  IN  /\ Running(k)
      /\ runs' = [runs EXCEPT ![k].result = IF runs[k].aborted THEN "cancelled"
                                            ELSE IF succeeds THEN "ok" ELSE "failed"]
      /\ taskMaps' = [taskMaps EXCEPT ![runs[k].map] = rest]
      /\ controllers' = IF rest = {} THEN [controllers EXCEPT ![r] = NoMap] ELSE controllers

CancelTask(r, t) ==
  /\ \E k \in Tracked(r) : runs[k].task = t
  /\ Abort({k \in Tracked(r) : runs[k].task = t})
  /\ UNCHANGED <<controllers, taskMaps>>

\* cancelAllTasks of one root, which empties the Map as well.
CancelAllTasks(r) ==
  /\ controllers[r] # NoMap
  /\ Abort(Tracked(r))
  /\ taskMaps' = [taskMaps EXCEPT ![controllers[r]] = {}]
  /\ controllers' = [controllers EXCEPT ![r] = NoMap]

\* cancelAllTasks without a root leaves the Maps as they are.
CancelEverything ==
  /\ \E r \in Roots : controllers[r] # NoMap
  /\ Abort(UNION {Tracked(r) : r \in Roots})
  /\ controllers' = [r \in Roots |-> NoMap]
  /\ UNCHANGED taskMaps

TasksNext ==
  \/ \E r \in Roots, t \in TaskIds : RunTask(r, t) \/ CancelTask(r, t)
  \/ \E k \in DOMAIN runs, succeeds \in BOOLEAN : EndTask(k, succeeds)
  \/ \E r \in Roots : CancelAllTasks(r)
  \/ CancelEverything

TasksSpec == TasksInit /\ [][TasksNext]_taskVars

-----------------------------------------------------------------------------
(* Properties.                                                              *)

\* What can be cancelled for a root is its own running work: every tracked run
\* belongs to the root and has not ended, no task id is tracked twice, a Map
\* object serves one root, and a run that was cancelled does not report success
\* (CancellableTaskRunner, with runs that outlive the Map they were entered in).
\* The converse fails: the end of a cancelled run drops the new Map of its root,
\* and what that one tracks runs on and can be started again.
TrackedTasksRun ==
  /\ \A r \in Roots : \A k \in Tracked(r) :
       /\ Running(k) /\ runs[k].root = r
       /\ \A j \in Tracked(r) : runs[j].task = runs[k].task => j = k
  /\ \A j, k \in DOMAIN runs : runs[j].map = runs[k].map => runs[j].root = runs[k].root
  /\ \A k \in DOMAIN runs : runs[k].result = "ok" => ~runs[k].aborted
  /\ \A k \in DOMAIN runs : runs[k].result = "cancelled" => runs[k].aborted

=============================================================================
