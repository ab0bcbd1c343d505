--------------------------- MODULE ServicesProofs ---------------------------
(***************************************************************************)
(* The safety properties of the services, for any calls, manifests, lines  *)
(* and responses.                                                          *)
(*                                                                         *)
(* Each service is proved about by itself: the others do not share its     *)
(* state, so a step of Services is a step of the one that runs or changes  *)
(* nothing of it.                                                          *)
(***************************************************************************)
EXTENDS Services, SequenceTheorems, FiniteSetTheorems, WellFoundedInduction, TLAPS

-----------------------------------------------------------------------------
(* Editor tasks.  A Map object that controllers no longer holds may still be *)
(* cleaned up by runs that were entered in it.  That this never reaches     *)
(* another root's work rests on who may share an object: no two roots hold  *)
(* one object, and all runs entered in one object are of one root.          *)

\* What a Map object holds was entered in it, still runs, and is told apart by
\* its task id.
MapsOK ==
  /\ \A m \in DOMAIN taskMaps : \A k \in taskMaps[m] :
       runs[k].map = m /\ runs[k].result = "none"
  /\ \A m \in DOMAIN taskMaps : \A j, k \in taskMaps[m] : runs[j].task = runs[k].task => j = k

\* A Map object belongs to one root.
ControllersOK ==
  /\ \A r, s \in Roots : controllers[r] = controllers[s] /\ controllers[r] # NoMap => r = s
  /\ \A r \in Roots : \A k \in DOMAIN runs : runs[k].map = controllers[r] => runs[k].root = r

RunsOK ==
  /\ Len(taskMaps) <= Len(runs)
  /\ \A k \in DOMAIN runs : runs[k].map \in DOMAIN taskMaps
  /\ \A j, k \in DOMAIN runs : runs[j].map = runs[k].map => runs[j].root = runs[k].root
  /\ \A k \in DOMAIN runs : runs[k].result = "ok" => ~runs[k].aborted
  /\ \A k \in DOMAIN runs : runs[k].result = "cancelled" => runs[k].aborted

TasksInv == TasksTypeOK /\ MapsOK /\ ControllersOK /\ RunsOK

\* A step that only marks runs or settles one.
SameRuns ==
  /\ runs' \in Seq(Run) /\ Len(runs') = Len(runs) /\ DOMAIN runs' = DOMAIN runs
  /\ \A k \in DOMAIN runs :
       runs'[k].root = runs[k].root /\ runs'[k].task = runs[k].task /\ runs'[k].map = runs[k].map

-----------------------------------------------------------------------------
(* Sequences.                                                               *)

\* A function on an interval from 1 is a sequence.
LEMMA FunctionIsSeq ==
  ASSUME NEW S, NEW n \in Nat, NEW f \in [1..n -> S]
  PROVE  f \in Seq(S) /\ Len(f) = n /\ DOMAIN f = 1..n
BY SeqDef

\* What a record of type Run has.
LEMMA RunFields ==
  ASSUME NEW x \in Run
  PROVE  /\ x.root \in Roots /\ x.task \in TaskIds /\ x.map \in 1..MaxRuns
         /\ x.aborted \in BOOLEAN /\ x.result \in {"none", "ok", "cancelled", "failed"}
BY DEF Run

\* Marking runs as aborted changes nothing else of them.
LEMMA AbortMarks ==
  ASSUME TasksTypeOK, NEW ks, Abort(ks)
  PROVE  /\ SameRuns
         /\ \A k \in DOMAIN runs : runs'[k].result = runs[k].result
         /\ \A k \in DOMAIN runs \ ks : runs'[k] = runs[k]
         /\ \A k \in DOMAIN runs \cap ks : runs'[k].aborted
<1>1. \A k \in DOMAIN runs : runs[k] \in Run /\ DOMAIN runs = 1..Len(runs) /\ Len(runs) \in Nat
  BY DEF TasksTypeOK
<1>2. \A k \in DOMAIN runs : [runs[k] EXCEPT !.aborted = TRUE] \in Run
  BY <1>1 DEF Run
<1>3. runs' \in [1..Len(runs) -> Run]
  BY <1>1, <1>2 DEF Abort, TasksTypeOK
<1>4. runs' \in Seq(Run) /\ Len(runs') = Len(runs) /\ DOMAIN runs' = DOMAIN runs
  BY <1>3, <1>1, FunctionIsSeq DEF TasksTypeOK
<1>5. \A k \in DOMAIN runs :
        /\ k \notin ks => runs'[k] = runs[k]
        /\ k \in ks => runs'[k] = [runs[k] EXCEPT !.aborted = TRUE]
  BY DEF Abort
<1>6. ASSUME NEW k \in DOMAIN runs, k \in ks
      PROVE  /\ runs'[k].root = runs[k].root /\ runs'[k].task = runs[k].task
             /\ runs'[k].map = runs[k].map /\ runs'[k].result = runs[k].result
             /\ runs'[k].aborted
  BY <1>1, <1>5, <1>6 DEF Run
<1> QED
  BY <1>4, <1>5, <1>6 DEF SameRuns

\* Settling one run changes nothing of the others.
LEMMA EndSettles ==
  ASSUME TasksTypeOK, NEW k \in DOMAIN runs, NEW e \in {"ok", "cancelled", "failed"},
         runs' = [runs EXCEPT ![k].result = e]
  PROVE  /\ SameRuns
         /\ \A j \in DOMAIN runs : j # k => runs'[j] = runs[j]
         /\ runs'[k].result = e /\ runs'[k].aborted = runs[k].aborted
<1> DEFINE x == [runs[k] EXCEPT !.result = e]
<1>1. /\ runs \in Seq(Run) /\ DOMAIN runs = 1..Len(runs) /\ Len(runs) \in Nat
      /\ \A j \in DOMAIN runs : runs[j] \in Run
  BY LenProperties, ElementOfSeq DEF TasksTypeOK
<1>2. /\ x \in Run /\ x.root = runs[k].root /\ x.task = runs[k].task /\ x.map = runs[k].map
      /\ x.aborted = runs[k].aborted /\ x.result = e
  BY <1>1 DEF Run
<1>3. runs' = [runs EXCEPT ![k] = x]
  OBVIOUS
<1> HIDE DEF x
<1>4. runs' \in Seq(Run) /\ Len(runs') = Len(runs) /\ DOMAIN runs' = DOMAIN runs
  BY <1>1, <1>2, <1>3, ExceptSeq
<1>5. runs'[k] = x /\ \A j \in DOMAIN runs : j # k => runs'[j] = runs[j]
  BY <1>1, <1>3
<1> QED
  BY <1>2, <1>4, <1>5 DEF SameRuns

-----------------------------------------------------------------------------
(* The invariant.                                                           *)

\* The type invariant, element by element.
LEMMA Elements ==
  ASSUME TasksTypeOK
  PROVE  /\ Len(runs) \in Nat /\ DOMAIN runs = 1..Len(runs)
         /\ Len(taskMaps) \in Nat /\ DOMAIN taskMaps = 1..Len(taskMaps)
         /\ \A k \in DOMAIN runs : runs[k] \in Run
         /\ \A m \in DOMAIN taskMaps : taskMaps[m] \subseteq DOMAIN runs
         /\ \A r \in Roots : controllers[r] \in 0..Len(taskMaps)
<1>1. runs \in Seq(Run) /\ taskMaps \in Seq(SUBSET DOMAIN runs)
  BY DEF TasksTypeOK
<1>2. Len(runs) \in Nat /\ DOMAIN runs = 1..Len(runs) /\ \A k \in DOMAIN runs : runs[k] \in Run
  BY <1>1, LenProperties, ElementOfSeq
<1>3. Len(taskMaps) \in Nat /\ DOMAIN taskMaps = 1..Len(taskMaps)
  BY <1>1, LenProperties
<1>4. \A m \in DOMAIN taskMaps : taskMaps[m] \in SUBSET DOMAIN runs
  BY <1>1, <1>3, ElementOfSeq
<1> QED
  BY <1>2, <1>3, <1>4 DEF TasksTypeOK

\* What a root tracks was entered in its Map, runs, and is the root's own.
LEMMA TrackedRuns ==
  ASSUME TasksInv, NEW r \in Roots, NEW k \in Tracked(r)
  PROVE  /\ controllers[r] \in DOMAIN taskMaps /\ k \in taskMaps[controllers[r]]
         /\ k \in DOMAIN runs /\ runs[k].map = controllers[r]
         /\ Running(k) /\ runs[k].root = r
<1> USE DEF TasksInv
<1>1. controllers[r] # NoMap /\ k \in taskMaps[controllers[r]]
  BY DEF Tracked
<1>2. controllers[r] \in DOMAIN taskMaps
  BY <1>1, Elements DEF NoMap
<1>3. k \in DOMAIN runs /\ runs[k].map = controllers[r] /\ Running(k)
  BY <1>1, <1>2, Elements DEF MapsOK, Running
<1> QED
  BY <1>1, <1>2, <1>3 DEF ControllersOK

\* The invariant gives the property.
LEMMA InvGivesTracked == TasksInv => TrackedTasksRun
<1> SUFFICES ASSUME TasksInv PROVE TrackedTasksRun
  OBVIOUS
<1>1. ASSUME NEW r \in Roots, NEW k \in Tracked(r)
      PROVE  /\ Running(k) /\ runs[k].root = r
             /\ \A j \in Tracked(r) : runs[j].task = runs[k].task => j = k
  BY TrackedRuns DEF TasksInv, MapsOK
<1> QED
  BY <1>1 DEF TrackedTasksRun, TasksInv, RunsOK

\* A step that enters no run keeps the invariant if it only empties Maps and
\* forgets them, and leaves no ended run in one.
LEMMA ShrinkingKeeps ==
  ASSUME TasksInv, SameRuns,
         taskMaps' \in Seq(SUBSET DOMAIN runs), Len(taskMaps') = Len(taskMaps),
         \A m \in DOMAIN taskMaps : /\ taskMaps'[m] \subseteq taskMaps[m]
                                    /\ \A k \in taskMaps'[m] : runs'[k].result = "none",
         controllers' \in [Roots -> 0..Len(taskMaps)],
         \A r \in Roots : controllers'[r] \in {controllers[r], NoMap},
         \A k \in DOMAIN runs : /\ runs'[k].result = "ok" => ~runs'[k].aborted
                                /\ runs'[k].result = "cancelled" => runs'[k].aborted
  PROVE  TasksInv'
<1> USE DEF TasksInv
<1>1. TasksTypeOK'
  BY DEF TasksTypeOK, SameRuns
<1>2. DOMAIN taskMaps' = DOMAIN taskMaps
  BY <1>1, Elements, LenProperties
<1>3. MapsOK'
  <2>1. ASSUME NEW m \in DOMAIN taskMaps, NEW k \in taskMaps'[m]
        PROVE  /\ k \in DOMAIN runs /\ runs'[k].map = m /\ runs'[k].result = "none"
               /\ runs'[k].task = runs[k].task
    BY Elements DEF MapsOK, SameRuns
  <2> QED
    BY <1>2, <2>1 DEF MapsOK
<1>4. ControllersOK'
  <2>1. \A r, s \in Roots : controllers'[r] = controllers'[s] /\ controllers'[r] # NoMap => r = s
    BY DEF ControllersOK
  <2>2. ASSUME NEW r \in Roots, NEW k \in DOMAIN runs, runs'[k].map = controllers'[r]
        PROVE  runs'[k].root = r
    <3>1. runs'[k].map = runs[k].map /\ runs'[k].root = runs[k].root
      BY DEF SameRuns
    <3>2. runs[k].map # NoMap
      BY Elements, RunFields DEF NoMap
    <3> QED
      BY <2>2, <3>1, <3>2 DEF ControllersOK
  <2> QED
    BY <2>1, <2>2 DEF ControllersOK, SameRuns
<1>5. RunsOK'
  BY <1>2 DEF RunsOK, SameRuns
<1> QED
  BY <1>1, <1>3, <1>4, <1>5

-----------------------------------------------------------------------------
(* One lemma per action.                                                    *)

\* Marking running tasks keeps what the invariant says of results.
LEMMA AbortKeepsResults ==
  ASSUME TasksInv, NEW ks, \A k \in ks : k \in DOMAIN runs /\ Running(k), Abort(ks)
  PROVE  /\ SameRuns
         /\ \A k \in DOMAIN runs :
              /\ runs'[k].result = runs[k].result
              /\ runs'[k].result = "ok" => ~runs'[k].aborted
              /\ runs'[k].result = "cancelled" => runs'[k].aborted
<1>1. /\ SameRuns
      /\ \A k \in DOMAIN runs : runs'[k].result = runs[k].result
      /\ \A k \in DOMAIN runs \ ks : runs'[k] = runs[k]
      /\ \A k \in DOMAIN runs \cap ks : runs'[k].aborted
  BY AbortMarks DEF TasksInv
<1>2. ASSUME NEW k \in DOMAIN runs
      PROVE  /\ runs'[k].result = "ok" => ~runs'[k].aborted
             /\ runs'[k].result = "cancelled" => runs'[k].aborted
  <2>1. CASE k \in ks
    BY <1>1, <2>1 DEF Running
  <2>2. CASE k \notin ks
    BY <1>1, <2>2 DEF TasksInv, RunsOK
  <2> QED
    BY <2>1, <2>2
<1> QED
  BY <1>1, <1>2

\* The empty runner.
LEMMA InitTasksInv == TasksInit => TasksInv
<1> SUFFICES ASSUME TasksInit PROVE TasksInv
  OBVIOUS
<1>1. runs = <<>> /\ taskMaps = <<>> /\ controllers = [r \in Roots |-> NoMap]
  BY DEF TasksInit
<1>2. runs \in Seq(Run) /\ taskMaps \in Seq(SUBSET DOMAIN runs) /\ Len(runs) = 0 /\ Len(taskMaps) = 0
      /\ DOMAIN runs = {} /\ DOMAIN taskMaps = {}
  BY <1>1, EmptySeq
<1>3. controllers \in [Roots -> 0..Len(taskMaps)]
  BY <1>1, <1>2 DEF NoMap
<1>4. \A r \in Roots : controllers[r] = NoMap
  BY <1>1
<1> QED
  BY <1>2, <1>3, <1>4, MaxRunsAssumption DEF TasksInv, TasksTypeOK, MapsOK, ControllersOK, RunsOK

\* A run enters the Map of its root, or a new one that nobody else has.
LEMMA RunTaskKeeps ==
  ASSUME TasksInv, NEW r \in Roots, NEW t \in TaskIds, RunTask(r, t)
  PROVE  TasksInv'
<1> USE DEF TasksInv
<1> DEFINE object == IF controllers[r] = NoMap THEN Len(taskMaps) + 1 ELSE controllers[r]
           new == Len(runs) + 1
           x == [root |-> r, task |-> t, map |-> object, aborted |-> FALSE, result |-> "none"]
<1>1. /\ Len(runs) < MaxRuns
      /\ controllers' = [controllers EXCEPT ![r] = object]
      /\ taskMaps' = IF object > Len(taskMaps) THEN Append(taskMaps, {new})
                     ELSE [taskMaps EXCEPT ![object] = @ \cup {new}]
      /\ runs' = Append(runs, x)
      /\ \A k \in Tracked(r) : runs[k].task # t
  BY DEF RunTask
<1>2. /\ Len(runs) \in Nat /\ DOMAIN runs = 1..Len(runs)
      /\ Len(taskMaps) \in Nat /\ DOMAIN taskMaps = 1..Len(taskMaps)
      /\ \A k \in DOMAIN runs : runs[k] \in Run
      /\ \A m \in DOMAIN taskMaps : taskMaps[m] \subseteq DOMAIN runs
      /\ \A s \in Roots : controllers[s] \in 0..Len(taskMaps)
      /\ Len(taskMaps) <= Len(runs)
  BY Elements DEF RunsOK
<1>3. object \in 1..Len(taskMaps) + 1 /\ object \in 1..MaxRuns
  BY <1>1, <1>2, MaxRunsAssumption DEF NoMap
<1>4. /\ x \in Run /\ x.root = r /\ x.task = t /\ x.map = object /\ x.result = "none"
      /\ x.aborted = FALSE
  BY <1>3 DEF Run
<1>5. controllers[r] = NoMap => object = Len(taskMaps) + 1
  OBVIOUS
<1>6. controllers[r] # NoMap => object = controllers[r]
  OBVIOUS
<1> HIDE DEF x, object
<1>7. /\ runs' \in Seq(Run) /\ Len(runs') = new
      /\ \A k \in 1..Len(runs) : runs'[k] = runs[k]
      /\ runs'[new] = x
  BY <1>1, <1>4, AppendProperties DEF TasksTypeOK
<1>8. DOMAIN runs' = 1..new
  BY <1>7, LenProperties
<1>9. /\ taskMaps' \in Seq(SUBSET DOMAIN runs')
      /\ Len(taskMaps') = IF object = Len(taskMaps) + 1 THEN Len(taskMaps) + 1 ELSE Len(taskMaps)
      /\ \A m \in 1..Len(taskMaps) : m # object => taskMaps'[m] = taskMaps[m]
      /\ taskMaps'[object] = (IF object = Len(taskMaps) + 1 THEN {} ELSE taskMaps[object]) \cup {new}
  <2>1. taskMaps \in Seq(SUBSET DOMAIN runs')
    <3>1. SUBSET DOMAIN runs \subseteq SUBSET DOMAIN runs'
      BY <1>2, <1>8
    <3> HIDE DEF new
    <3> QED
      BY <3>1, SeqMonotonic DEF TasksTypeOK
  <2>2. {new} \in SUBSET DOMAIN runs'
    BY <1>2, <1>8
  <2>3. CASE object = Len(taskMaps) + 1
    <3>1. taskMaps' = Append(taskMaps, {new})
      BY <1>1, <1>2, <2>3
    <3> HIDE DEF new
    <3>2. /\ taskMaps' \in Seq(SUBSET DOMAIN runs') /\ Len(taskMaps') = Len(taskMaps) + 1
          /\ \A m \in 1..Len(taskMaps) : taskMaps'[m] = taskMaps[m]
          /\ taskMaps'[Len(taskMaps) + 1] = {new}
      BY <2>1, <2>2, <3>1, AppendProperties
    <3> QED
      BY <2>3, <3>2
  <2>4. CASE object # Len(taskMaps) + 1
    <3>1. object \in 1..Len(taskMaps)
      BY <1>2, <1>3, <2>4
    <3>2. taskMaps' = [taskMaps EXCEPT ![object] = taskMaps[object] \cup {new}]
      <4>1. ~(object > Len(taskMaps))
        BY <1>2, <3>1
      <4> HIDE DEF new
      <4> QED
        BY <1>1, <4>1, Zenon
    <3>3. taskMaps[object] \cup {new} \in SUBSET DOMAIN runs'
      BY <1>2, <1>8, <3>1, <2>2
    <3> HIDE DEF new
    <3>4. /\ taskMaps' \in Seq(SUBSET DOMAIN runs') /\ Len(taskMaps') = Len(taskMaps)
          /\ \A m \in 1..Len(taskMaps) :
               taskMaps'[m] = IF m = object THEN taskMaps[object] \cup {new} ELSE taskMaps[m]
      BY <2>1, <3>1, <3>2, <3>3, ExceptSeq
    <3> QED
      BY <2>4, <3>1, <3>4
  <2> QED
    BY <2>3, <2>4
<1>10. DOMAIN taskMaps' = 1..Len(taskMaps') /\ object \in DOMAIN taskMaps'
       /\ DOMAIN taskMaps \subseteq DOMAIN taskMaps'
       /\ \A m \in DOMAIN taskMaps' : m = object \/ m \in DOMAIN taskMaps
  <2>1. DOMAIN taskMaps' = 1..Len(taskMaps')
    BY <1>9, LenProperties
  <2> QED
    BY <1>2, <1>3, <1>9, <2>1
<1>11. controllers' \in [Roots -> 0..Len(taskMaps')]
  <2>1. controllers \in [Roots -> 0..Len(taskMaps)]
    BY DEF TasksTypeOK
  <2>2. object \in 0..Len(taskMaps') /\ \A m \in 0..Len(taskMaps) : m \in 0..Len(taskMaps')
    BY <1>2, <1>3, <1>9
  <2> QED
    BY <1>1, <2>1, <2>2
<1>12. /\ controllers'[r] = object
       /\ \A s \in Roots : s # r => controllers'[s] = controllers[s]
  BY <1>1 DEF TasksTypeOK
<1>13. TasksTypeOK'
  BY <1>1, <1>2, <1>7, <1>9, <1>11, MaxRunsAssumption DEF TasksTypeOK
\* No other root has the object, and what was entered in it is the root's.
<1>14. /\ \A s \in Roots : controllers[s] = object => s = r
       /\ \A k \in DOMAIN runs : runs[k].map = object => runs[k].root = r
       /\ \A k \in DOMAIN runs : runs[k].map \in DOMAIN taskMaps
  <2>1. CASE controllers[r] = NoMap
    BY <2>1, <1>2, <1>5 DEF RunsOK
  <2>2. CASE controllers[r] # NoMap
    BY <2>2, <1>6 DEF ControllersOK, RunsOK
  <2> QED
    BY <2>1, <2>2
\* The Maps hold what they held, and the new run in its own.
<1>15. MapsOK'
  <2>1. ASSUME NEW m \in DOMAIN taskMaps', NEW k \in taskMaps'[m]
        PROVE  /\ k \in DOMAIN runs' /\ runs'[k].map = m /\ runs'[k].result = "none"
               /\ \/ k = new /\ m = object
                  \/ m \in DOMAIN taskMaps /\ k \in taskMaps[m] /\ runs'[k] = runs[k]
    <3>1. CASE k = new /\ m = object
      BY <3>1, <1>4, <1>7, <1>8, <1>2
    <3>2. CASE m \in DOMAIN taskMaps /\ k \in taskMaps[m]
      <4>1. k \in DOMAIN runs /\ runs'[k] = runs[k] /\ k \in 1..new
        BY <3>2, <1>2, <1>7
      <4> QED
        BY <3>2, <4>1, <1>8 DEF MapsOK
    <3>3. k # new => m \in DOMAIN taskMaps /\ k \in taskMaps[m]
      <4>1. CASE m = object
        BY <4>1, <1>2, <1>3, <1>9
      <4>2. CASE m # object
        BY <4>2, <1>2, <1>9, <1>10
      <4> QED
        BY <4>1, <4>2
    <3>4. k = new => m = object
      <4>1. SUFFICES ASSUME k = new, m # object PROVE FALSE
        OBVIOUS
      <4>2. m \in DOMAIN taskMaps /\ k \in taskMaps[m]
        BY <4>1, <1>2, <1>9, <1>10
      <4> QED
        BY <4>1, <4>2, <1>2
    <3> QED
      BY <3>1, <3>2, <3>3, <3>4
  \* The guard: the task is not tracked for the root yet.
  <2>2. object \in DOMAIN taskMaps => \A k \in taskMaps[object] : runs[k].task # t
    <3>1. SUFFICES ASSUME object \in DOMAIN taskMaps
                   PROVE  \A k \in taskMaps[object] : runs[k].task # t
      OBVIOUS
    <3>2. controllers[r] # NoMap /\ object = controllers[r]
      BY <3>1, <1>2, <1>5, <1>6
    <3> QED
      BY <3>2, <1>1 DEF Tracked
  <2>3. ASSUME NEW m \in DOMAIN taskMaps', NEW j \in taskMaps'[m], NEW k \in taskMaps'[m],
               runs'[j].task = runs'[k].task
        PROVE  j = k
    <3>1. CASE j = new \/ k = new
      BY <3>1, <2>1, <2>2, <2>3, <1>4, <1>7
    <3>2. CASE j # new /\ k # new
      BY <3>2, <2>1, <2>3 DEF MapsOK
    <3> QED
      BY <3>1, <3>2
  <2> QED
    BY <2>1, <2>3 DEF MapsOK
<1>16. \A k \in DOMAIN runs' : (k = new /\ runs'[k] = x) \/ (k \in DOMAIN runs /\ runs'[k] = runs[k])
  BY <1>2, <1>7, <1>8
<1>17. ControllersOK'
  <2>1. ASSUME NEW s \in Roots, NEW u \in Roots,
               controllers'[s] = controllers'[u], controllers'[s] # NoMap
        PROVE  s = u
    BY <2>1, <1>12, <1>14 DEF ControllersOK
  <2>2. ASSUME NEW s \in Roots, NEW k \in DOMAIN runs', runs'[k].map = controllers'[s]
        PROVE  runs'[k].root = s
    <3>1. CASE k \in DOMAIN runs /\ runs'[k] = runs[k]
      BY <2>2, <3>1, <1>12, <1>14 DEF ControllersOK
    <3>2. CASE runs'[k] = x
      BY <2>2, <3>2, <1>4, <1>12, <1>14
    <3> QED
      BY <1>16, <3>1, <3>2
  <2> QED
    BY <2>1, <2>2 DEF ControllersOK
<1>18. RunsOK'
  <2>1. Len(taskMaps') <= Len(runs')
    BY <1>2, <1>7, <1>9
  <2>2. ASSUME NEW k \in DOMAIN runs'
        PROVE  /\ runs'[k].map \in DOMAIN taskMaps'
               /\ runs'[k].map = object => runs'[k].root = r
               /\ runs'[k].result = "ok" => ~runs'[k].aborted
               /\ runs'[k].result = "cancelled" => runs'[k].aborted
    <3>1. CASE k \in DOMAIN runs /\ runs'[k] = runs[k]
      BY <3>1, <1>10, <1>14 DEF RunsOK
    <3>2. CASE runs'[k] = x
      BY <3>2, <1>4, <1>10
    <3> QED
      BY <1>16, <3>1, <3>2
  <2>3. ASSUME NEW j \in DOMAIN runs', NEW k \in DOMAIN runs', runs'[j].map = runs'[k].map
        PROVE  runs'[j].root = runs'[k].root
    <3>1. CASE runs'[j].map = object
      BY <2>2, <2>3, <3>1
    <3>2. CASE runs'[j].map # object
      BY <2>3, <3>2, <1>4, <1>16 DEF RunsOK
    <3> QED
      BY <3>1, <3>2
  <2> QED
    BY <2>1, <2>2, <2>3 DEF RunsOK
<1> QED
  BY <1>13, <1>15, <1>17, <1>18

\* A run that ends is removed from the Map it was entered in.
LEMMA EndTaskKeeps ==
  ASSUME TasksInv, NEW k \in DOMAIN runs, NEW succeeds \in BOOLEAN, EndTask(k, succeeds)
  PROVE  TasksInv'
<1> USE DEF TasksInv
<1> DEFINE e == IF runs[k].aborted THEN "cancelled" ELSE IF succeeds THEN "ok" ELSE "failed"
           object == runs[k].map
           rest == {j \in taskMaps[object] : runs[j].task # runs[k].task}
<1>1. /\ runs[k].result = "none"
      /\ runs' = [runs EXCEPT ![k].result = e]
      /\ taskMaps' = [taskMaps EXCEPT ![object] = rest]
      /\ controllers' = IF rest = {} THEN [controllers EXCEPT ![runs[k].root] = NoMap]
                        ELSE controllers
  BY DEF EndTask, Running
<1>2. e \in {"ok", "cancelled", "failed"}
  OBVIOUS
<1>3. (e = "ok" => ~runs[k].aborted) /\ (e = "cancelled" => runs[k].aborted)
  OBVIOUS
<1>4. object \in 1..Len(taskMaps) /\ rest \in SUBSET DOMAIN runs /\ rest \subseteq taskMaps[object]
      /\ k \notin rest
  BY Elements DEF RunsOK
<1> HIDE DEF e, rest
<1>5. /\ SameRuns
      /\ \A j \in DOMAIN runs : j # k => runs'[j] = runs[j]
      /\ runs'[k].result = e /\ runs'[k].aborted = runs[k].aborted
  BY <1>1, <1>2, EndSettles
<1> HIDE DEF object
<1>6. /\ taskMaps' \in Seq(SUBSET DOMAIN runs) /\ Len(taskMaps') = Len(taskMaps)
      /\ \A m \in 1..Len(taskMaps) : taskMaps'[m] = IF m = object THEN rest ELSE taskMaps[m]
  BY <1>1, <1>4, ExceptSeq DEF TasksTypeOK
<1>7. ASSUME NEW m \in DOMAIN taskMaps
      PROVE  /\ taskMaps'[m] \subseteq taskMaps[m]
             /\ \A j \in taskMaps'[m] : runs'[j].result = "none"
  <2>1. m \in 1..Len(taskMaps) /\ taskMaps[m] \subseteq DOMAIN runs
    BY Elements
  <2>2. taskMaps'[m] \subseteq taskMaps[m]
    BY <2>1, <1>4, <1>6
  <2>3. k \notin taskMaps'[m]
    <3>1. k \in taskMaps[m] => m = object
      BY DEF MapsOK, object
    <3> QED
      BY <3>1, <2>1, <2>2, <1>4, <1>6
  <2> QED
    BY <2>1, <2>2, <2>3, <1>5 DEF MapsOK
<1>8. /\ controllers' \in [Roots -> 0..Len(taskMaps)]
      /\ \A r \in Roots : controllers'[r] \in {controllers[r], NoMap}
  <2>1. controllers \in [Roots -> 0..Len(taskMaps)] /\ NoMap \in 0..Len(taskMaps)
    BY Elements DEF TasksTypeOK, NoMap
  <2> QED
    BY <2>1, <1>1
<1>9. ASSUME NEW j \in DOMAIN runs
      PROVE  /\ runs'[j].result = "ok" => ~runs'[j].aborted
             /\ runs'[j].result = "cancelled" => runs'[j].aborted
  <2>1. CASE j = k
    BY <2>1, <1>3, <1>5
  <2>2. CASE j # k
    BY <2>2, <1>5 DEF RunsOK
  <2> QED
    BY <2>1, <2>2
<1> QED
  BY <1>5, <1>6, <1>7, <1>8, <1>9, ShrinkingKeeps

\* Cancelling one task leaves every Map as it is.
LEMMA CancelTaskKeeps ==
  ASSUME TasksInv, NEW r \in Roots, NEW t \in TaskIds, CancelTask(r, t)
  PROVE  TasksInv'
<1> DEFINE ks == {k \in Tracked(r) : runs[k].task = t}
<1>1. Abort(ks) /\ controllers' = controllers /\ taskMaps' = taskMaps
  BY DEF CancelTask
<1>2. \A k \in ks : k \in DOMAIN runs /\ Running(k)
  BY TrackedRuns
<1> HIDE DEF ks
<1>3. /\ SameRuns
      /\ \A k \in DOMAIN runs :
           /\ runs'[k].result = runs[k].result
           /\ runs'[k].result = "ok" => ~runs'[k].aborted
           /\ runs'[k].result = "cancelled" => runs'[k].aborted
  BY <1>1, <1>2, AbortKeepsResults
<1>4. \A m \in DOMAIN taskMaps : \A k \in taskMaps[m] : runs'[k].result = "none"
  BY <1>3, Elements DEF TasksInv, MapsOK
<1> QED
  BY <1>1, <1>3, <1>4, ShrinkingKeeps DEF TasksInv, TasksTypeOK

\* Cancelling a root empties its Map and forgets it.
LEMMA CancelAllTasksKeeps ==
  ASSUME TasksInv, NEW r \in Roots, CancelAllTasks(r)
  PROVE  TasksInv'
<1>1. /\ Abort(Tracked(r)) /\ controllers[r] # NoMap
      /\ taskMaps' = [taskMaps EXCEPT ![controllers[r]] = {}]
      /\ controllers' = [controllers EXCEPT ![r] = NoMap]
  BY DEF CancelAllTasks
<1>2. \A k \in Tracked(r) : k \in DOMAIN runs /\ Running(k)
  BY TrackedRuns
<1>3. /\ SameRuns
      /\ \A k \in DOMAIN runs :
           /\ runs'[k].result = runs[k].result
           /\ runs'[k].result = "ok" => ~runs'[k].aborted
           /\ runs'[k].result = "cancelled" => runs'[k].aborted
  BY <1>1, <1>2, AbortKeepsResults
<1>4. /\ taskMaps \in Seq(SUBSET DOMAIN runs) /\ controllers[r] \in 1..Len(taskMaps)
      /\ controllers \in [Roots -> 0..Len(taskMaps)] /\ NoMap \in 0..Len(taskMaps)
  BY <1>1, Elements DEF TasksInv, TasksTypeOK, NoMap
<1>5. /\ taskMaps' \in Seq(SUBSET DOMAIN runs) /\ Len(taskMaps') = Len(taskMaps)
      /\ \A m \in 1..Len(taskMaps) : taskMaps'[m] = IF m = controllers[r] THEN {} ELSE taskMaps[m]
  <2>1. {} \in SUBSET DOMAIN runs
    OBVIOUS
  <2> QED
    BY <2>1, <1>1, <1>4, ExceptSeq
<1>6. ASSUME NEW m \in DOMAIN taskMaps
      PROVE  /\ taskMaps'[m] \subseteq taskMaps[m]
             /\ \A k \in taskMaps'[m] : runs'[k].result = "none"
  <2>1. m \in 1..Len(taskMaps) /\ taskMaps[m] \subseteq DOMAIN runs
    BY Elements DEF TasksInv
  <2> QED
    BY <2>1, <1>3, <1>5 DEF TasksInv, MapsOK
<1>7. /\ controllers' \in [Roots -> 0..Len(taskMaps)]
      /\ \A s \in Roots : controllers'[s] \in {controllers[s], NoMap}
  BY <1>1, <1>4
<1> QED
  BY <1>3, <1>5, <1>6, <1>7, ShrinkingKeeps

\* Cancelling everything forgets every Map.
LEMMA CancelEverythingKeeps ==
  ASSUME TasksInv, CancelEverything
  PROVE  TasksInv'
<1> DEFINE ks == UNION {Tracked(r) : r \in Roots}
<1>1. Abort(ks) /\ taskMaps' = taskMaps /\ controllers' = [r \in Roots |-> NoMap]
  BY DEF CancelEverything
<1>2. \A k \in ks : k \in DOMAIN runs /\ Running(k)
  BY TrackedRuns
<1> HIDE DEF ks
<1>3. /\ SameRuns
      /\ \A k \in DOMAIN runs :
           /\ runs'[k].result = runs[k].result
           /\ runs'[k].result = "ok" => ~runs'[k].aborted
           /\ runs'[k].result = "cancelled" => runs'[k].aborted
  BY <1>1, <1>2, AbortKeepsResults
<1>4. \A m \in DOMAIN taskMaps : \A k \in taskMaps[m] : runs'[k].result = "none"
  BY <1>3, Elements DEF TasksInv, MapsOK
<1>5. NoMap \in 0..Len(taskMaps)
  BY Elements DEF TasksInv, NoMap
<1> QED
  BY <1>1, <1>3, <1>4, <1>5, ShrinkingKeeps DEF TasksInv, TasksTypeOK

\* A step in which nothing changes keeps the invariant.
LEMMA StutteringKeeps ==
  ASSUME TasksInv, UNCHANGED taskVars
  PROVE  TasksInv'
BY DEF TasksInv, TasksTypeOK, MapsOK, ControllersOK, RunsOK, taskVars

LEMMA TasksNextKeeps ==
  ASSUME TasksInv, [TasksNext]_taskVars
  PROVE  TasksInv'
<1>1. ASSUME NEW r \in Roots, NEW t \in TaskIds, RunTask(r, t) PROVE TasksInv'
  BY <1>1, RunTaskKeeps
<1>2. ASSUME NEW r \in Roots, NEW t \in TaskIds, CancelTask(r, t) PROVE TasksInv'
  BY <1>2, CancelTaskKeeps
<1>3. ASSUME NEW k \in DOMAIN runs, NEW succeeds \in BOOLEAN, EndTask(k, succeeds)
      PROVE  TasksInv'
  BY <1>3, EndTaskKeeps
<1>4. ASSUME NEW r \in Roots, CancelAllTasks(r) PROVE TasksInv'
  BY <1>4, CancelAllTasksKeeps
<1>5. CASE CancelEverything
  BY <1>5, CancelEverythingKeeps
<1>6. CASE UNCHANGED taskVars
  BY <1>6, StutteringKeeps
<1> QED
  BY <1>1, <1>2, <1>3, <1>4, <1>5, <1>6 DEF TasksNext

-----------------------------------------------------------------------------
(* The theorems about the editor tasks.                                     *)

\* The invariant is inductive: every action of the runner keeps it.
THEOREM TasksInvariant == TasksSpec => []TasksInv
<1>1. TasksInit => TasksInv
  BY InitTasksInv
<1>2. TasksInv /\ [TasksNext]_taskVars => TasksInv'
  BY TasksNextKeeps
<1> QED
  BY <1>1, <1>2, PTL DEF TasksSpec

\* Whatever the order in which tasks start, end and are cancelled, what a root
\* tracks is its own running work, and a cancelled run never reports success.
THEOREM OnlyRunningTasksTracked == TasksSpec => []TrackedTasksRun
BY TasksInvariant, InvGivesTracked, PTL

-----------------------------------------------------------------------------
(* Numbers.                                                                 *)

\* A set of numbers that is not empty has a smallest one.
LEMMA LeastNumber ==
  ASSUME NEW S \in SUBSET Nat, S # {}
  PROVE  \E n \in S : \A m \in S : n <= m
<1>1. PICK n \in S : \A m \in S : ~(<<m, n>> \in OpToRel(<, Nat))
  BY WFMin, NatLessThanWellFounded
<1>2. \A m \in S : n <= m
  <2> TAKE m \in S
  <2>1. m \in Nat /\ n \in Nat
    OBVIOUS
  <2>2. ~(m < n)
    BY <2>1, <1>1 DEF OpToRel
  <2> QED
    BY <2>1, <2>2
<1> QED
  BY <1>2

-----------------------------------------------------------------------------
(* The frame decoder.                                                       *)

Clean == \A i \in DOMAIN frames : frames[i].kind \notin {"malformed", "oversized"}

\* The loop of push stops somewhere, and not beyond the token after the last.
LEMMA LoopEndExists ==
  ASSUME PluginTypeOK, NEW upTo \in 1..(2 * Len(frames)), upTo > received
  PROVE  /\ LoopEnd(upTo) \in (parsed + 1)..(upTo + 1)
         /\ (LoopEnd(upTo) - parsed) % 2 = 1
         /\ LoopEnds(LoopEnd(upTo), upTo)
<1> DEFINE Odd(t) == (t - parsed) % 2 = 1
           S == {t \in (parsed + 1)..(upTo + 2) : Odd(t) /\ LoopEnds(t, upTo)}
           Least(t) == /\ Odd(t) /\ LoopEnds(t, upTo)
                       /\ \A u \in (parsed + 1)..(t - 1) : Odd(u) => ~LoopEnds(u, upTo)
<1>1. upTo \in Nat /\ received \in Nat /\ parsed \in Nat /\ parsed <= received
  BY LenProperties DEF PluginTypeOK
<1>2. Odd(upTo + 1) \/ Odd(upTo + 2)
  BY <1>1
<1>3. LoopEnds(upTo + 1, upTo) /\ LoopEnds(upTo + 2, upTo)
  BY <1>1 DEF LoopEnds
<1>4. S # {} /\ S \in SUBSET Nat
  BY <1>1, <1>2, <1>3
<1>5. PICK n \in S : \A m \in S : n <= m
  <2> HIDE DEF S
  <2> QED
    BY <1>4, LeastNumber
<1>6. n \in (parsed + 1)..(upTo + 2) /\ Least(n)
  <2>1. ASSUME NEW u \in (parsed + 1)..(n - 1), Odd(u), LoopEnds(u, upTo) PROVE FALSE
    <3>1. u \in S /\ u < n
      BY <2>1, <1>1
    <3> QED
      BY <3>1, <1>5, <1>1
  <2> QED
    BY <2>1
<1>7. LoopEnd(upTo) \in (parsed + 1)..(upTo + 2) /\ Least(LoopEnd(upTo))
  <2> HIDE DEF Least
  <2>1. LoopEnd(upTo) = CHOOSE t \in (parsed + 1)..(upTo + 2) : Least(t)
    BY DEF LoopEnd, Least
  <2> QED
    BY <1>6, <2>1
<1>8. LoopEnd(upTo) # upTo + 2
  <2>1. SUFFICES ASSUME LoopEnd(upTo) = upTo + 2 PROVE FALSE
    OBVIOUS
  <2>2. Odd(upTo + 2)
    BY <2>1, <1>7
  <2>3. Odd(upTo) /\ upTo \in (parsed + 1)..(upTo + 1)
    BY <1>1, <2>2
  <2>4. LoopEnds(upTo, upTo)
    BY <1>1 DEF LoopEnds
  <2>5. upTo + 2 - 1 = upTo + 1
    BY <1>1
  <2> HIDE DEF Odd
  <2> QED
    BY <1>7, <2>1, <2>3, <2>4, <2>5
<1> QED
  BY <1>1, <1>7, <1>8

\* A push that does not throw returns frames, and none takes more off the
\* buffer than there is.
LEMMA DecodedFrames ==
  ASSUME PluginTypeOK, NEW upTo \in 1..(2 * Len(frames)), upTo > received
  PROVE  /\ Decoded(upTo).parsed \in 0..upTo
         /\ Decoded(upTo).throws \in BOOLEAN
         /\ ~Decoded(upTo).throws => Decoded(upTo).messages \in Seq(Frame)
<1> DEFINE t == LoopEnd(upTo)
<1>1. upTo \in Nat /\ received \in Nat /\ parsed \in Nat /\ parsed <= received
      /\ Len(frames) \in Nat /\ frames \in Seq(Frame)
  BY LenProperties DEF PluginTypeOK
<1>2. t \in (parsed + 1)..(upTo + 1)
  BY LoopEndExists
<1>3. ASSUME ~Decoded(upTo).throws PROVE t + 1 > upTo /\ Decoded(upTo).messages \in Seq(Frame)
  <2>1. t + 1 > upTo
    <3>1. Decoded(upTo).throws =
            \/ t <= upTo /\ TooLarge(t)
            \/ ~(t <= upTo /\ TooLarge(t)) /\ t + 1 <= upTo
      BY Zenon DEF Decoded
    <3> QED
      BY <1>1, <1>2, <1>3, <3>1
  <2>2. /\ (parsed + 2) \div 2 \in Int /\ (t - 1) \div 2 \in Int
        /\ 1 <= (parsed + 2) \div 2 /\ (t - 1) \div 2 <= Len(frames)
    BY <1>1, <1>2
  <2>3. \A i \in ((parsed + 2) \div 2)..((t - 1) \div 2) : frames[i] \in Frame
    <3> TAKE i \in ((parsed + 2) \div 2)..((t - 1) \div 2)
    <3>1. i \in 1..Len(frames)
      BY <2>2, <1>1
    <3> QED
      BY <3>1, <1>1, ElementOfSeq
  <2>4. SubSeq(frames, (parsed + 2) \div 2, (t - 1) \div 2) \in Seq(Frame)
    BY <2>2, <2>3, SubSeqProperties
  <2> QED
    BY <2>1, <2>4 DEF Decoded
<1>4. Decoded(upTo).parsed \in 0..upTo
  BY <1>1, <1>2 DEF Decoded
<1>5. Decoded(upTo).throws \in BOOLEAN
  BY DEF Decoded
<1> QED
  BY <1>3, <1>4, <1>5

\* Without bad frames a push returns every frame that has arrived whole.
LEMMA DecodedWhole ==
  ASSUME PluginTypeOK, NEW upTo \in 1..(2 * Len(frames)), upTo > received, Clean,
         parsed = 2 * (received \div 2)
  PROVE  /\ ~Decoded(upTo).throws
         /\ Decoded(upTo).parsed = 2 * (upTo \div 2)
         /\ Decoded(upTo).messages = SubSeq(frames, (received \div 2) + 1, upTo \div 2)
<1> DEFINE t == LoopEnd(upTo)
<1>1. upTo \in Nat /\ received \in Nat /\ parsed \in Nat /\ parsed <= received
      /\ Len(frames) \in Nat /\ DOMAIN frames = 1..Len(frames)
  BY LenProperties DEF PluginTypeOK
<1>2. t \in (parsed + 1)..(upTo + 1) /\ (t - parsed) % 2 = 1 /\ LoopEnds(t, upTo)
  BY LoopEndExists
<1>3. t % 2 = 1 /\ t \in Nat
  <2>1. PICK k \in Nat : parsed = 2 * k
    BY <1>1
  <2> HIDE DEF t
  <2> QED
    BY <1>1, <1>2, <2>1
<1>4. t <= upTo => ~TooLarge(t) /\ ~Malformed(t)
  <2>1. t <= upTo => (t + 1) \div 2 \in DOMAIN frames
    BY <1>1, <1>2, <1>3
  <2> QED
    BY <2>1, <1>3 DEF TooLarge, Malformed, Clean
<1>5. t = upTo \/ t = upTo + 1
  BY <1>1, <1>2, <1>4 DEF LoopEnds
<1>6. t - 1 = 2 * (upTo \div 2) /\ (t - 1) \div 2 = upTo \div 2
  <2> HIDE DEF t
  <2> QED
    BY <1>1, <1>3, <1>5
<1>7. (parsed + 2) \div 2 = (received \div 2) + 1
  BY <1>1
<1>8. ~(t <= upTo /\ TooLarge(t)) /\ ~(t + 1 <= upTo)
  BY <1>1, <1>4, <1>5
<1> HIDE DEF t
<1>9. Decoded(upTo) = [throws |-> FALSE, parsed |-> t - 1,
                       messages |-> SubSeq(frames, (parsed + 2) \div 2, (t - 1) \div 2)]
  BY <1>8 DEF Decoded, t
<1> QED
  BY <1>6, <1>7, <1>9

-----------------------------------------------------------------------------
(* The plugin client: the inductive invariant.                              *)

Request(id) == [type |-> "request", id |-> id]
Got(id) == \E i \in DOMAIN delivered : delivered[i] = [kind |-> "response", id |-> id]

\* How far spawnPlugin has come and what was asked go together.
ClientOK ==
  /\ client = "none" =>
       /\ isAlive /\ sent = {} /\ frames = <<>> /\ plugin = "running"
       /\ \A id \in Ids : request[id] = "idle"
  /\ request["handshake"] = "pending" <=> client = "handshaking"
  /\ client # "ready" => /\ \A id \in Ids \ {"handshake"} : request[id] = "idle"
                         /\ \A s \in sent : s.id = "handshake"
  /\ client = "ready" => Got("handshake")

RequestsOK ==
  \A id \in Ids :
    /\ request[id] \in {"pending", "answered"} => Request(id) \in sent
    /\ request[id] = "answered" => Got(id)

\* Without bad frames the buffer never holds a whole frame.
StreamOK ==
  Clean => /\ parsed = 2 * (received \div 2)
           /\ delivered = SubSeq(frames, 1, received \div 2)

ExitOK == exitSeen => ~isAlive /\ Pending = {}

PluginInv == PluginTypeOK /\ ClientOK /\ RequestsOK /\ StreamOK /\ ExitOK

\* The ids that the host uses itself are no calls.
LEMMA HostIds ==
  /\ "handshake" \in Ids /\ "shutdown" \in Ids
  /\ "handshake" \notin Calls /\ "shutdown" \notin Calls /\ Calls \subseteq Ids
BY PluginAssumption DEF Ids

-----------------------------------------------------------------------------
(* Settling requests.                                                       *)

\* What Settle does, whatever the results and however many cancellations go out.
LEMMA SettleEffects ==
  ASSUME PluginTypeOK, NEW result, NEW live \in BOOLEAN, Settle(result, live)
  PROVE  /\ request' = [id \in Ids |-> IF id \notin DOMAIN result THEN request[id]
                                       ELSE IF result[id] = "answered" THEN "answered"
                                       ELSE "failed"]
         /\ client' = ClientAfter(result)
         /\ sent \subseteq sent'
         /\ \A s \in sent' \ sent : s \in [type : {"cancel"}, id : DOMAIN result \cap Calls]
         /\ ~live => sent' = sent /\ ~isAlive'
         /\ isAlive' \in BOOLEAN
         /\ isAlive' => live
         /\ {killed', killTimer', hostUp'} \subseteq BOOLEAN
         /\ signals' \subseteq {"SIGTERM", "SIGKILL"}
<1>1. PICK ids \in SUBSET Cancellable(result) :
        Write(IF live THEN [type : {"cancel"}, id : ids] ELSE {})
  <2>1. CASE \/ "shutdown" \in DOMAIN result
             \/ "handshake" \in DOMAIN result /\ result["handshake"] = "refused"
    BY <2>1, Zenon DEF Settle
  <2>2. CASE ~(\/ "shutdown" \in DOMAIN result
               \/ "handshake" \in DOMAIN result /\ result["handshake"] = "refused")
    BY <2>2, Zenon DEF Settle
  <2> QED
    BY <2>1, <2>2
<1>2. ids \subseteq DOMAIN result \cap Calls
  BY DEF Cancellable
<1>3. sent' = sent \cup (IF live THEN [type : {"cancel"}, id : ids] ELSE {})
      /\ hostUp' \in BOOLEAN
  <2>1. hostUp \in BOOLEAN
    BY DEF PluginTypeOK
  <2> QED
    BY <1>1, <2>1, Zenon DEF Write
<1>4. [type : {"cancel"}, id : ids] \subseteq [type : {"cancel"}, id : DOMAIN result \cap Calls]
  BY <1>2
<1>5. /\ sent \subseteq sent'
      /\ \A s \in sent' \ sent : s \in [type : {"cancel"}, id : DOMAIN result \cap Calls]
      /\ ~live => sent' = sent
  BY <1>3, <1>4
<1>6. PICK kills \in BOOLEAN : isAlive' = (live /\ ~kills) /\ KillEffect(kills)
  BY Zenon DEF Settle
<1>7. isAlive' \in BOOLEAN /\ (isAlive' => live) /\ (~live => ~isAlive')
  BY <1>6, Zenon
<1>8. /\ {killed', killTimer'} \subseteq BOOLEAN
      /\ signals' \subseteq {"SIGTERM", "SIGKILL"}
  BY <1>6 DEF KillEffect, PluginTypeOK
<1>9. request' = [id \in Ids |-> IF id \notin DOMAIN result THEN request[id]
                                 ELSE IF result[id] = "answered" THEN "answered"
                                 ELSE "failed"]
      /\ client' = ClientAfter(result)
  BY DEF Settle
<1> QED
  BY <1>3, <1>5, <1>7, <1>8, <1>9

\* Requests that are settled leave the books in order, if what counts as an
\* answer was delivered.
LEMMA SettleKeeps ==
  ASSUME PluginInv, NEW result, NEW live \in BOOLEAN, live => isAlive, client # "none",
         DOMAIN result \subseteq Ids,
         "handshake" \in DOMAIN result => client = "handshaking",
         client # "ready" => DOMAIN result \subseteq {"handshake"},
         Settle(result, live),
         \A id \in Ids : Got(id) => Got(id)',
         \A id \in DOMAIN result : result[id] = "answered" => id \in Pending /\ Got(id)'
  PROVE  /\ ClientOK' /\ RequestsOK'
         /\ request' \in [Ids -> {"idle", "pending", "answered", "failed"}]
         /\ client' \in {"none", "handshaking", "ready", "rejected"}
         /\ sent' \subseteq [type : {"request", "cancel"}, id : Ids]
         /\ Pending' = Pending \ DOMAIN result
         /\ ~isAlive => ~isAlive' /\ sent' = sent
<1>1. PluginTypeOK /\ ClientOK /\ RequestsOK
  BY DEF PluginInv
<1>2. request' = [id \in Ids |-> IF id \notin DOMAIN result THEN request[id]
                                 ELSE IF result[id] = "answered" THEN "answered"
                                 ELSE "failed"]
      /\ client' = ClientAfter(result) /\ sent \subseteq sent'
      /\ (\A s \in sent' \ sent : s \in [type : {"cancel"}, id : DOMAIN result \cap Calls])
      /\ (~live => sent' = sent /\ ~isAlive')
  BY <1>1, SettleEffects
<1>3. request' \in [Ids -> {"idle", "pending", "answered", "failed"}]
  BY <1>1, <1>2 DEF PluginTypeOK
<1>4. ASSUME "handshake" \in DOMAIN result
      PROVE  ClientOK' /\ client' \in {"none", "handshaking", "ready", "rejected"}
  <2>1. client' = IF result["handshake"] = "answered" THEN "ready" ELSE "rejected"
    BY <1>2, <1>4 DEF ClientAfter
  <2>2. DOMAIN result = {"handshake"} /\ request["handshake"] = "pending"
        /\ client = "handshaking"
    BY <1>1, <1>4 DEF ClientOK
  <2>3. sent' = sent
    BY <1>2, <2>2, HostIds
  <2>4. request'["handshake"] # "pending"
        /\ \A id \in Ids \ {"handshake"} : request'[id] = request[id]
    BY <1>2, <2>2, HostIds
  <2>5. ClientOK'
    <3>1. client' # "none" /\ client' # "handshaking"
      BY <2>1
    <3>2. client' = "ready" => Got("handshake")'
      BY <2>1, <1>4
    <3>3. (\A id \in Ids \ {"handshake"} : request[id] = "idle")
          /\ (\A s \in sent : s.id = "handshake")
      BY <1>1, <2>2 DEF ClientOK
    <3>4. (\A id \in Ids \ {"handshake"} : request'[id] = "idle")
          /\ (\A s \in sent' : s.id = "handshake")
      BY <2>3, <2>4, <3>3
    <3> QED
      BY <2>4, <3>1, <3>2, <3>4 DEF ClientOK
  <2>6. client' \in {"none", "handshaking", "ready", "rejected"}
    BY <2>1
  <2> QED
    BY <2>5, <2>6
<1>5. ASSUME "handshake" \notin DOMAIN result
      PROVE  ClientOK' /\ client' \in {"none", "handshaking", "ready", "rejected"}
  <2>1. client' = client
    BY <1>2, <1>5 DEF ClientAfter
  <2>2. request'["handshake"] = request["handshake"]
    BY <1>2, <1>5, HostIds
  <2>3. client # "ready" => request' = request /\ sent' = sent
    <3>1. client # "ready" => DOMAIN result = {}
      BY <1>5
    <3>2. client # "ready" => \A id \in Ids : request'[id] = request[id]
      BY <3>1, <1>2
    <3> QED
      BY <1>1, <1>2, <1>3, <3>1, <3>2 DEF PluginTypeOK
  <2>4. ClientOK'
    <3>1. client' = "ready" => Got("handshake")'
      BY <1>1, <2>1, HostIds DEF ClientOK
    <3>2. client' # "ready" => (\A id \in Ids \ {"handshake"} : request'[id] = "idle")
                               /\ (\A s \in sent' : s.id = "handshake")
      BY <1>1, <2>1, <2>3 DEF ClientOK
    <3>3. request'["handshake"] = "pending" <=> client' = "handshaking"
      BY <1>1, <2>1, <2>2 DEF ClientOK
    <3>4. client' # "none"
      BY <2>1
    <3> QED
      BY <3>1, <3>2, <3>3, <3>4 DEF ClientOK
  <2>5. client' \in {"none", "handshaking", "ready", "rejected"}
    BY <1>1, <2>1 DEF PluginTypeOK
  <2> QED
    BY <2>4, <2>5
<1>6. RequestsOK'
  <2> SUFFICES ASSUME NEW id \in Ids
               PROVE  /\ request'[id] \in {"pending", "answered"} => Request(id) \in sent'
                      /\ request'[id] = "answered" => Got(id)'
    BY DEF RequestsOK, Request
  <2>1. CASE id \in DOMAIN result
    BY <2>1, <1>1, <1>2 DEF RequestsOK, Pending
  <2>2. CASE id \notin DOMAIN result
    BY <2>2, <1>1, <1>2 DEF RequestsOK
  <2> QED
    BY <2>1, <2>2
<1>7. sent' \subseteq [type : {"request", "cancel"}, id : Ids]
  <2>1. [type : {"cancel"}, id : DOMAIN result \cap Calls]
          \subseteq [type : {"request", "cancel"}, id : Ids]
    BY HostIds
  <2> QED
    BY <1>1, <1>2, <2>1 DEF PluginTypeOK
<1>8. Pending' = Pending \ DOMAIN result
  BY <1>2 DEF Pending
<1> QED
  BY <1>2, <1>3, <1>4, <1>5, <1>6, <1>7, <1>8

\* What Resolved calls an answer is a response to a request that was pending.
LEMMA ResolvedAnswers ==
  ASSUME NEW messages \in Seq(Frame)
  PROVE  /\ DOMAIN Resolved(messages) \subseteq Pending
         /\ \A id \in DOMAIN Resolved(messages) : Resolved(messages)[id] = "answered" =>
              \E i \in DOMAIN messages : messages[i] = [kind |-> "response", id |-> id]
<1> DEFINE First(id, i) == messages[i].id = id /\ \A j \in 1..(i - 1) : messages[j].id # id
           first(id) == CHOOSE i \in DOMAIN messages : First(id, i)
           settled == {id \in Pending : \E i \in DOMAIN messages : messages[i].id = id}
<1>1. Resolved(messages) =
        [id \in settled |-> CASE messages[first(id)].kind = "response" -> "answered"
                              [] messages[first(id)].kind = "refusal"  -> "refused"
                              [] OTHER                                 -> "unexpected"]
  BY DEF Resolved
<1>2. DOMAIN Resolved(messages) = settled
  BY <1>1
<1>3. ASSUME NEW id \in settled, Resolved(messages)[id] = "answered"
      PROVE  \E i \in DOMAIN messages : messages[i] = [kind |-> "response", id |-> id]
  <2> DEFINE S == {i \in DOMAIN messages : messages[i].id = id}
  <2>1. S # {} /\ S \in SUBSET Nat
    BY LenProperties
  <2>2. PICK n \in S : \A m \in S : n <= m
    <3> HIDE DEF S
    <3> QED
      BY <2>1, LeastNumber
  <2>3. First(id, n) /\ n \in DOMAIN messages
    <3>1. ASSUME NEW j \in 1..(n - 1), messages[j].id = id PROVE FALSE
      <4>1. n \in 1..Len(messages) /\ Len(messages) \in Nat
        BY LenProperties
      <4>2. j \in S /\ j < n
        BY <3>1, <4>1, LenProperties
      <4> QED
        BY <4>2, <4>1, <2>2
    <3> QED
      BY <3>1
  <2>4. first(id) \in DOMAIN messages /\ First(id, first(id))
    <3> HIDE DEF First
    <3> QED
      BY <2>3
  <2>5. messages[first(id)].kind = "response"
    <3> HIDE DEF first, settled
    <3> QED
      BY <1>1, <1>3
  <2>6. messages[first(id)] \in Frame /\ messages[first(id)].id = id
    BY <2>4, LenProperties, ElementOfSeq
  <2> HIDE DEF first
  <2>7. messages[first(id)] = [kind |-> "response", id |-> id]
    BY <2>5, <2>6 DEF Frame
  <2> QED
    BY <2>4, <2>7
<1> QED
  BY <1>2, <1>3

-----------------------------------------------------------------------------
(* The steps of the host.                                                   *)

\* What is pending was asked of a plugin that was spawned.
LEMMA PendingRequests ==
  ASSUME PluginInv
  PROVE  /\ Pending \subseteq Ids
         /\ "handshake" \in Pending => client = "handshaking"
         /\ client # "ready" => Pending \subseteq {"handshake"}
         /\ client = "none" => Pending = {}
BY HostIds DEF PluginInv, ClientOK, Pending

\* A request that is written is pending and sent.
LEMMA SendEffects ==
  ASSUME PluginTypeOK, NEW id \in Ids, NEW fits, fits, isAlive, SendRequest(id, fits)
  PROVE  /\ request' = [request EXCEPT ![id] = "pending"]
         /\ sent' = sent \cup {Request(id)}
         /\ hostUp' \in BOOLEAN
         /\ UNCHANGED <<isAlive, killed, killTimer, signals>>
BY DEF SendRequest, Write, Request, PluginTypeOK

\* A step that leaves the stream alone leaves what is known of it.
LEMMA StreamUntouched ==
  ASSUME PluginInv, UNCHANGED streamVars
  PROVE  /\ StreamOK'
         /\ \A id \in Ids : Got(id)' <=> Got(id)
         /\ /\ frames' \in Seq(Frame) /\ delivered' \in Seq(Frame)
            /\ received' \in 0..(2 * Len(frames')) /\ parsed' \in 0..received'
BY DEF PluginInv, PluginTypeOK, StreamOK, Clean, Got, streamVars

\* Writing a request that was idle keeps the invariant, if its client may ask.
LEMMA SendKeeps ==
  ASSUME PluginInv, NEW id \in Ids, NEW fits, fits, isAlive, SendRequest(id, fits),
         client' \in {"handshaking", "ready"},
         id = "handshake" <=> client = "none",
         id = "handshake" => client' = "handshaking",
         id # "handshake" => client = "ready" /\ client' = client,
         UNCHANGED <<plugin, exitSeen, streamVars>>
  PROVE  PluginInv'
<1>1. /\ request' = [request EXCEPT ![id] = "pending"]
      /\ sent' = sent \cup {Request(id)}
      /\ hostUp' \in BOOLEAN
      /\ UNCHANGED <<isAlive, killed, killTimer, signals>>
  BY SendEffects DEF PluginInv
<1>2. PluginTypeOK'
  <2>1. Request(id) \in [type : {"request", "cancel"}, id : Ids]
    BY DEF Request
  <2> QED
    BY <1>1, <2>1, StreamUntouched DEF PluginInv, PluginTypeOK
<1>3. ClientOK'
  <2>1. client' # "none"
    OBVIOUS
  <2>2. request'["handshake"] = "pending" <=> client' = "handshaking"
    BY <1>1, HostIds DEF PluginInv, ClientOK, PluginTypeOK
  <2>3. ASSUME client' # "ready"
        PROVE  (\A i \in Ids \ {"handshake"} : request'[i] = "idle")
               /\ (\A s \in sent' : s.id = "handshake")
    <3>1. id = "handshake" /\ client = "none"
      BY <2>3
    <3> QED
      BY <3>1, <1>1 DEF PluginInv, ClientOK, PluginTypeOK, Request
  <2>4. client' = "ready" => Got("handshake")'
    BY StreamUntouched, HostIds DEF PluginInv, ClientOK
  <2> QED
    BY <2>1, <2>2, <2>3, <2>4 DEF ClientOK
<1>4. RequestsOK'
  <2> SUFFICES ASSUME NEW i \in Ids
               PROVE  /\ request'[i] \in {"pending", "answered"} => Request(i) \in sent'
                      /\ request'[i] = "answered" => Got(i)'
    BY DEF RequestsOK, Request
  <2>1. CASE i = id
    BY <2>1, <1>1 DEF PluginInv, PluginTypeOK
  <2>2. CASE i # id
    BY <2>2, <1>1, StreamUntouched DEF PluginInv, PluginTypeOK, RequestsOK
  <2> QED
    BY <2>1, <2>2
<1>5. ExitOK'
  BY DEF PluginInv, ExitOK
<1> QED
  BY <1>2, <1>3, <1>4, <1>5, StreamUntouched DEF PluginInv

\* Settling in a step that leaves the stream alone keeps the invariant.
LEMMA SettleQuietly ==
  ASSUME PluginInv, NEW result, NEW live \in BOOLEAN, live => isAlive, client # "none",
         DOMAIN result \subseteq Ids,
         "handshake" \in DOMAIN result => client = "handshaking",
         client # "ready" => DOMAIN result \subseteq {"handshake"},
         Settle(result, live),
         \A id \in DOMAIN result : result[id] # "answered",
         UNCHANGED <<plugin, streamVars>>,
         exitSeen' = exitSeen \/ (exitSeen' = TRUE /\ ~live /\ Pending \subseteq DOMAIN result)
  PROVE  PluginInv'
<1>1. PluginTypeOK
  BY DEF PluginInv
<1>2. /\ ClientOK' /\ RequestsOK'
      /\ request' \in [Ids -> {"idle", "pending", "answered", "failed"}]
      /\ client' \in {"none", "handshaking", "ready", "rejected"}
      /\ sent' \subseteq [type : {"request", "cancel"}, id : Ids]
      /\ Pending' = Pending \ DOMAIN result
      /\ ~isAlive => ~isAlive' /\ sent' = sent
  BY SettleKeeps, StreamUntouched
<1>3. /\ ~live => ~isAlive'
      /\ isAlive' \in BOOLEAN
      /\ {killed', killTimer', hostUp'} \subseteq BOOLEAN
      /\ signals' \subseteq {"SIGTERM", "SIGKILL"}
  BY <1>1, SettleEffects
<1>4. PluginTypeOK'
  BY <1>1, <1>2, <1>3, StreamUntouched DEF PluginTypeOK
<1>5. ExitOK'
  BY <1>2, <1>3 DEF PluginInv, ExitOK
<1> QED
  BY <1>2, <1>4, <1>5, StreamUntouched DEF PluginInv

LEMMA SpawnKeeps ==
  ASSUME PluginInv, Spawn
  PROVE  PluginInv'
<1>1. PICK m \in Manifests :
        IF Compatible(m)
        THEN client' = "handshaking" /\ SendRequest("handshake", TRUE)
        ELSE client' = "rejected" /\ UNCHANGED <<request, sent, hostUp, isAlive, killed,
                                                 killTimer, signals>>
  BY DEF Spawn
<1>2. client = "none" /\ UNCHANGED <<plugin, exitSeen, streamVars>>
  BY DEF Spawn
<1>3. CASE Compatible(m)
  <2>1. isAlive
    BY <1>2 DEF PluginInv, ClientOK
  <2> QED
    BY <1>1, <1>2, <1>3, <2>1, HostIds, SendKeeps
<1>4. CASE ~Compatible(m)
  <2>1. client' = "rejected" /\ UNCHANGED <<request, sent, hostUp, isAlive, killed, killTimer,
                                            signals>>
    BY <1>1, <1>4
  <2>2. PluginTypeOK' /\ RequestsOK' /\ ExitOK'
    BY <1>2, <2>1, StreamUntouched
       DEF PluginInv, PluginTypeOK, RequestsOK, Request, ExitOK, Pending
  <2>3. ClientOK'
    BY <1>2, <2>1, StreamUntouched, HostIds DEF PluginInv, ClientOK
  <2> QED
    BY <1>2, <2>2, <2>3, StreamUntouched DEF PluginInv
<1> QED
  BY <1>3, <1>4

LEMMA ExecuteKeeps ==
  ASSUME PluginInv, NEW c \in Calls, Execute(c)
  PROVE  PluginInv'
<1>1. PICK fits \in BOOLEAN : SendRequest(c, fits)
  BY DEF Execute
<1>2. /\ client = "ready" /\ request[c] = "idle" /\ client' = client
      /\ UNCHANGED <<plugin, exitSeen, streamVars>>
  BY DEF Execute
<1>3. CASE isAlive /\ fits
  BY <1>1, <1>2, <1>3, HostIds, SendKeeps
<1>4. CASE ~(isAlive /\ fits)
  <2>1. Settle([i \in {c} |-> "unsent"], isAlive)
    BY <1>1, <1>4 DEF SendRequest
  <2>2. isAlive \in BOOLEAN
    BY DEF PluginInv, PluginTypeOK
  <2> QED
    BY <1>2, <2>1, <2>2, HostIds, SettleQuietly
<1> QED
  BY <1>3, <1>4

LEMMA ExecuteUndeclaredKeeps ==
  ASSUME PluginInv, NEW c \in Calls, ExecuteUndeclared(c)
  PROVE  PluginInv'
<1>1. /\ client = "ready" /\ request' = [request EXCEPT ![c] = "failed"]
      /\ UNCHANGED <<client, isAlive, killed, killTimer, sent, hostUp, plugin, exitSeen, signals>>
      /\ UNCHANGED streamVars
  BY DEF ExecuteUndeclared, processVars
<1>2. PluginTypeOK'
  BY <1>1, StreamUntouched DEF PluginInv, PluginTypeOK
<1>3. ClientOK'
  BY <1>1, StreamUntouched, HostIds DEF PluginInv, PluginTypeOK, ClientOK
<1>4. RequestsOK' /\ ExitOK'
  BY <1>1, StreamUntouched
     DEF PluginInv, PluginTypeOK, RequestsOK, Request, ExitOK, Pending
<1> QED
  BY <1>1, <1>2, <1>3, <1>4, StreamUntouched DEF PluginInv

LEMMA ShutdownKeeps ==
  ASSUME PluginInv, Shutdown
  PROVE  PluginInv'
BY HostIds, SendKeeps DEF Shutdown

LEMMA TimeoutKeeps ==
  ASSUME PluginInv, NEW id \in Ids, Timeout(id)
  PROVE  PluginInv'
<1>1. id \in Pending /\ Settle([i \in {id} |-> "timeout"], isAlive)
      /\ UNCHANGED <<plugin, exitSeen, streamVars>>
  BY DEF Timeout
<1>2. isAlive \in BOOLEAN
  BY DEF PluginInv, PluginTypeOK
<1> QED
  BY <1>1, <1>2, PendingRequests, SettleQuietly

LEMMA ExitEventKeeps ==
  ASSUME PluginInv, ExitEvent
  PROVE  PluginInv'
<1>1. /\ plugin = "exited" /\ exitSeen' = TRUE /\ Settle(FailAll, FALSE)
      /\ UNCHANGED <<plugin, streamVars>>
  BY DEF ExitEvent
<1>2. client # "none"
  BY <1>1 DEF PluginInv, ClientOK
<1>3. DOMAIN FailAll = Pending /\ \A id \in Pending : FailAll[id] # "answered"
  BY DEF FailAll
<1> QED
  BY <1>1, <1>2, <1>3, PendingRequests, SettleQuietly

\* Kill, its timer, and the plugin's exit change no request.
LEMMA SignalsKeep ==
  ASSUME PluginInv, Kill \/ KillTimer \/ Exit
  PROVE  PluginInv'
<1>1. /\ UNCHANGED <<client, request, sent, hostUp, exitSeen, streamVars>>
      /\ isAlive' = isAlive \/ (isAlive' = FALSE /\ client = "ready")
      /\ plugin' = plugin \/ (plugin' = "exited" /\ client # "none")
  BY DEF Kill, KillTimer, Exit, callVars, processVars
<1>2. {isAlive', killed', killTimer'} \subseteq BOOLEAN /\ signals' \subseteq {"SIGTERM", "SIGKILL"}
  <2>1. CASE Kill
    BY <2>1 DEF Kill, KillEffect, PluginInv, PluginTypeOK
  <2>2. CASE KillTimer
    BY <2>2 DEF KillTimer, PluginInv, PluginTypeOK
  <2>3. CASE Exit
    BY <2>3 DEF Exit, callVars, PluginInv, PluginTypeOK
  <2> QED
    BY <2>1, <2>2, <2>3
<1>3. PluginTypeOK'
  BY <1>1, <1>2, StreamUntouched DEF PluginInv, PluginTypeOK
<1>4. ClientOK'
  BY <1>1, StreamUntouched, HostIds DEF PluginInv, ClientOK, streamVars
<1>5. RequestsOK' /\ ExitOK'
  BY <1>1, StreamUntouched DEF PluginInv, RequestsOK, Request, ExitOK, Pending
<1> QED
  BY <1>1, <1>3, <1>4, <1>5, StreamUntouched DEF PluginInv

\* The frames that are written later change nothing of those that arrived.
LEMMA WriteFrameKeeps ==
  ASSUME PluginInv, NEW frame \in Frame, WriteFrame(frame)
  PROVE  PluginInv'
<1>1. /\ client # "none" /\ frames' = Append(frames, frame)
      /\ UNCHANGED <<client, request, isAlive, killed, killTimer, sent, hostUp, plugin, exitSeen,
                     signals, received, parsed, delivered>>
  BY DEF WriteFrame, callVars, processVars
<1>2. /\ frames \in Seq(Frame) /\ frames' \in Seq(Frame) /\ Len(frames) \in Nat
      /\ Len(frames') = Len(frames) + 1
      /\ \A i \in 1..Len(frames) : frames'[i] = frames[i]
      /\ received \in 0..(2 * Len(frames))
  BY <1>1, AppendProperties, LenProperties DEF PluginInv, PluginTypeOK
<1>3. PluginTypeOK'
  BY <1>1, <1>2 DEF PluginInv, PluginTypeOK
<1>4. ClientOK' /\ RequestsOK' /\ ExitOK'
  BY <1>1 DEF PluginInv, ClientOK, RequestsOK, Request, ExitOK, Pending, Got
<1>5. StreamOK'
  <2> SUFFICES ASSUME Clean'
               PROVE  /\ parsed = 2 * (received \div 2)
                      /\ delivered = SubSeq(frames', 1, received \div 2)
    BY <1>1 DEF StreamOK
  <2>1. Clean
    BY <1>2, LenProperties DEF Clean
  <2>2. SubSeq(frames', 1, received \div 2) = SubSeq(frames, 1, received \div 2)
    <3>1. frames' = frames \o <<frame>> /\ <<frame>> \in Seq(Frame)
      BY <1>1, <1>2, AppendIsConcat
    <3>2. received \div 2 \in 0..Len(frames)
      BY <1>2
    <3>3. CASE received \div 2 = 0
      BY <3>3, SubSeqEmpty
    <3>4. CASE received \div 2 # 0
      <4>1. 1 \in 1..Len(frames) /\ received \div 2 \in 1..Len(frames)
        BY <3>2, <3>4
      <4> QED
        BY <4>1, <3>1, <1>2, SubSeqOfConcat1
    <3> QED
      BY <3>3, <3>4
  <2> QED
    BY <2>1, <2>2 DEF PluginInv, StreamOK
<1> QED
  BY <1>3, <1>4, <1>5 DEF PluginInv

\* A data event: what is decoded settles requests, or a bad frame all of them.
LEMMA DataKeeps ==
  ASSUME PluginInv, NEW upTo \in 1..(2 * Len(frames)), Data(upTo)
  PROVE  PluginInv'
<1> DEFINE d == Decoded(upTo)
<1>1. /\ upTo > received /\ received' = upTo /\ parsed' = d.parsed
      /\ UNCHANGED <<plugin, exitSeen, frames>>
      /\ IF d.throws
         THEN Settle(FailAll, isAlive) /\ UNCHANGED delivered
         ELSE Settle(Resolved(d.messages), isAlive) /\ delivered' = delivered \o d.messages
  BY DEF Data
<1>2. PluginTypeOK /\ frames \in Seq(Frame) /\ delivered \in Seq(Frame) /\ isAlive \in BOOLEAN
  BY DEF PluginInv, PluginTypeOK
<1>3. client # "none"
  <2>1. frames # <<>>
    BY EmptySeq
  <2> QED
    BY <2>1 DEF PluginInv, ClientOK
<1>4. /\ d.parsed \in 0..upTo /\ d.throws \in BOOLEAN
      /\ ~d.throws => d.messages \in Seq(Frame)
  BY <1>1, <1>2, DecodedFrames
<1> HIDE DEF d
<1>5. \/ d.throws /\ Settle(FailAll, isAlive) /\ delivered' = delivered
      \/ ~d.throws /\ Settle(Resolved(d.messages), isAlive) /\ delivered' = delivered \o d.messages
  BY <1>1, <1>4
<1>6. PICK result :
        /\ DOMAIN result \subseteq Pending
        /\ Settle(result, isAlive)
        /\ \A id \in DOMAIN result : result[id] = "answered" => Got(id)'
        /\ delivered' \in Seq(Frame)
        /\ \A id \in Ids : Got(id) => Got(id)'
  <2>1. CASE d.throws /\ Settle(FailAll, isAlive) /\ delivered' = delivered
    <3>1. DOMAIN FailAll = Pending /\ \A id \in Pending : FailAll[id] # "answered"
      BY DEF FailAll
    <3>2. \A id \in Ids : Got(id) => Got(id)'
      BY <2>1 DEF Got
    <3> QED
      BY <1>2, <2>1, <3>1, <3>2
  <2>2. CASE /\ ~d.throws /\ Settle(Resolved(d.messages), isAlive)
             /\ delivered' = delivered \o d.messages
    <3>1. d.messages \in Seq(Frame)
      BY <1>4, <2>2
    <3>2. /\ delivered' \in Seq(Frame)
          /\ Len(delivered) \in Nat /\ Len(d.messages) \in Nat
          /\ DOMAIN delivered = 1..Len(delivered) /\ DOMAIN d.messages = 1..Len(d.messages)
          /\ DOMAIN delivered' = 1..(Len(delivered) + Len(d.messages))
          /\ \A i \in 1..(Len(delivered) + Len(d.messages)) :
               delivered'[i] = IF i <= Len(delivered) THEN delivered[i]
                               ELSE d.messages[i - Len(delivered)]
      BY <1>2, <2>2, <3>1, ConcatProperties, LenProperties
    <3>3. \A id \in Ids : Got(id) => Got(id)'
      BY <3>2 DEF Got
    <3>4. ASSUME NEW id, \E i \in DOMAIN d.messages :
                           d.messages[i] = [kind |-> "response", id |-> id]
          PROVE  Got(id)'
      <4>1. PICK i \in DOMAIN d.messages : d.messages[i] = [kind |-> "response", id |-> id]
        BY <3>4
      <4>2. /\ Len(delivered) + i \in DOMAIN delivered'
            /\ delivered'[Len(delivered) + i] = d.messages[i]
        BY <3>2
      <4> QED
        BY <4>1, <4>2 DEF Got
    <3> QED
      BY <2>2, <3>1, <3>2, <3>3, <3>4, ResolvedAnswers
  <2> QED
    BY <1>5, <2>1, <2>2
<1>7. /\ ClientOK' /\ RequestsOK'
      /\ request' \in [Ids -> {"idle", "pending", "answered", "failed"}]
      /\ client' \in {"none", "handshaking", "ready", "rejected"}
      /\ sent' \subseteq [type : {"request", "cancel"}, id : Ids]
      /\ Pending' = Pending \ DOMAIN result
      /\ ~isAlive => ~isAlive' /\ sent' = sent
  BY <1>2, <1>3, <1>6, PendingRequests, SettleKeeps
<1>8. PluginTypeOK'
  <2>1. isAlive' \in BOOLEAN /\ {killed', killTimer', hostUp'} \subseteq BOOLEAN
        /\ signals' \subseteq {"SIGTERM", "SIGKILL"}
    BY <1>2, <1>6, SettleEffects
  <2>2. received' \in 0..(2 * Len(frames')) /\ parsed' \in 0..received'
    BY <1>1, <1>4, LenProperties
  <2> QED
    BY <1>1, <1>2, <1>6, <1>7, <2>1, <2>2 DEF PluginTypeOK
<1>9. ExitOK'
  BY <1>1, <1>7 DEF PluginInv, ExitOK
<1>10. StreamOK'
  <2> SUFFICES ASSUME Clean
               PROVE  /\ parsed' = 2 * (received' \div 2)
                      /\ delivered' = SubSeq(frames, 1, received' \div 2)
    BY <1>1 DEF StreamOK, Clean
  <2>1. parsed = 2 * (received \div 2) /\ delivered = SubSeq(frames, 1, received \div 2)
    BY DEF PluginInv, StreamOK
  <2>2. /\ ~d.throws /\ d.parsed = 2 * (upTo \div 2)
        /\ d.messages = SubSeq(frames, (received \div 2) + 1, upTo \div 2)
    BY <1>1, <1>2, <2>1, DecodedWhole DEF d
  <2>3. delivered' = SubSeq(frames, 1, received \div 2)
                       \o SubSeq(frames, (received \div 2) + 1, upTo \div 2)
    BY <1>5, <2>1, <2>2
  <2>4. Len(frames) \in Nat /\ received \in Nat
    BY <1>2, LenProperties DEF PluginTypeOK
  <2>5. /\ 1 \in 1..(Len(frames) + 1)
        /\ received \div 2 \in (1 - 1)..Len(frames)
        /\ upTo \div 2 \in (received \div 2)..Len(frames)
    BY <1>1, <2>4
  <2>6. delivered' = SubSeq(frames, 1, upTo \div 2)
    BY <1>2, <2>3, <2>5, ConcatAdjacentSubSeq
  <2> QED
    BY <1>1, <2>2, <2>6
<1> QED
  BY <1>7, <1>8, <1>9, <1>10 DEF PluginInv

LEMMA InitPluginInv ==
  ASSUME PluginInit
  PROVE  PluginInv
<1>1. <<>> \in Seq(Frame) /\ Len(<<>>) = 0
  BY EmptySeq
<1>2. PluginTypeOK
  <2>1. /\ frames \in Seq(Frame) /\ delivered \in Seq(Frame)
        /\ received \in 0..(2 * Len(frames)) /\ parsed \in 0..received
    BY <1>1 DEF PluginInit
  <2>2. request \in [Ids -> {"idle", "pending", "answered", "failed"}]
    BY DEF PluginInit
  <2> QED
    BY <2>1, <2>2 DEF PluginInit, PluginTypeOK
<1>3. ClientOK /\ RequestsOK /\ ExitOK
  BY HostIds DEF PluginInit, ClientOK, RequestsOK, Request, ExitOK
<1>4. StreamOK
  BY SubSeqEmpty DEF PluginInit, StreamOK
<1> QED
  BY <1>2, <1>3, <1>4 DEF PluginInv

\* Every action of the host and of the plugin keeps the invariant.
LEMMA PluginNextKeeps ==
  ASSUME PluginInv, [PluginNext]_pluginVars
  PROVE  PluginInv'
<1>1. CASE UNCHANGED pluginVars
  <2>1. UNCHANGED streamVars /\ UNCHANGED <<client, request, isAlive, killed, killTimer, sent,
                                            hostUp, plugin, exitSeen, signals>>
    BY <1>1 DEF pluginVars, callVars, processVars
  <2>2. PluginTypeOK' /\ RequestsOK' /\ ExitOK'
    BY <2>1, StreamUntouched
       DEF PluginInv, PluginTypeOK, RequestsOK, Request, ExitOK, Pending
  <2>3. ClientOK'
    BY <2>1, StreamUntouched, HostIds DEF PluginInv, ClientOK, streamVars
  <2> QED
    BY <2>1, <2>2, <2>3, StreamUntouched DEF PluginInv
<1>2. ASSUME NEW c \in Calls, Execute(c) \/ ExecuteUndeclared(c) PROVE PluginInv'
  BY <1>2, ExecuteKeeps, ExecuteUndeclaredKeeps
<1>3. ASSUME NEW id \in Ids, Timeout(id) PROVE PluginInv'
  BY <1>3, TimeoutKeeps
<1>4. ASSUME NEW upTo \in 1..(2 * Len(frames)), Data(upTo) PROVE PluginInv'
  BY <1>4, DataKeeps
<1>5. ASSUME NEW frame \in Frame, WriteFrame(frame) PROVE PluginInv'
  BY <1>5, WriteFrameKeeps
<1> QED
  BY <1>1, <1>2, <1>3, <1>4, <1>5, SpawnKeeps, ShutdownKeeps, SignalsKeep, ExitEventKeeps
     DEF PluginNext

-----------------------------------------------------------------------------
(* What the invariant says of the plugin client.                            *)

LEMMA InvGivesAnswers ==
  ASSUME PluginInv
  PROVE  AnswersAreGenuine
<1>1. ASSUME NEW id \in Ids, request[id] = "answered"
      PROVE  /\ [type |-> "request", id |-> id] \in sent
             /\ \E i \in DOMAIN delivered : delivered[i] = [kind |-> "response", id |-> id]
  BY <1>1 DEF PluginInv, RequestsOK, Request, Got
<1>2. client = "ready" =>
        [kind |-> "response", id |-> "handshake"] \in {delivered[i] : i \in DOMAIN delivered}
  BY DEF PluginInv, ClientOK, Got
<1>3. \A s \in sent : s.id # "handshake" => client = "ready"
  BY DEF PluginInv, ClientOK
<1> QED
  BY <1>1, <1>2, <1>3 DEF AnswersAreGenuine

LEMMA InvGivesFrames ==
  ASSUME PluginInv
  PROVE  FramesSurviveChunking
BY DEF PluginInv, StreamOK, Clean, FramesSurviveChunking

LEMMA InvGivesNothingWaits ==
  ASSUME PluginInv
  PROVE  NothingWaitsForTheDead
BY DEF PluginInv, ExitOK, NothingWaitsForTheDead

\* A settled request never makes a client that was killed speak again.
LEMMA SettleSilently ==
  ASSUME PluginInv, NEW result, Settle(result, isAlive) \/ Settle(result, FALSE), ~isAlive
  PROVE  UNCHANGED <<sent, isAlive>>
<1>1. PluginTypeOK /\ isAlive \in BOOLEAN
  BY DEF PluginInv, PluginTypeOK
<1>2. sent' = sent /\ ~isAlive' /\ isAlive' \in BOOLEAN
  BY <1>1, SettleEffects
<1> QED
  BY <1>1, <1>2

LEMMA SilentStep ==
  ASSUME PluginInv, [PluginNext]_pluginVars, ~isAlive
  PROVE  UNCHANGED <<sent, isAlive>>
<1>1. client # "none"
  BY DEF PluginInv, ClientOK
<1>2. CASE UNCHANGED pluginVars
  BY <1>2 DEF pluginVars, callVars
<1>3. CASE KillTimer
  BY <1>3 DEF KillTimer
<1>4. CASE ExitEvent
  BY <1>4, SettleSilently DEF ExitEvent
<1>5. CASE Exit
  BY <1>5 DEF Exit, callVars
<1>6. ASSUME NEW c \in Calls, Execute(c) PROVE UNCHANGED <<sent, isAlive>>
  <2>1. Settle([i \in {c} |-> "unsent"], isAlive)
    BY <1>6 DEF Execute, SendRequest
  <2> QED
    BY <2>1, SettleSilently
<1>7. ASSUME NEW c \in Calls, ExecuteUndeclared(c) PROVE UNCHANGED <<sent, isAlive>>
  BY <1>7 DEF ExecuteUndeclared
<1>8. ASSUME NEW id \in Ids, Timeout(id) PROVE UNCHANGED <<sent, isAlive>>
  BY <1>8, SettleSilently DEF Timeout
<1>9. ASSUME NEW upTo \in 1..(2 * Len(frames)), Data(upTo) PROVE UNCHANGED <<sent, isAlive>>
  <2>1. PICK result : Settle(result, isAlive)
    BY <1>9, Zenon DEF Data
  <2> QED
    BY <2>1, SettleSilently
<1>10. ASSUME NEW frame \in Frame, WriteFrame(frame) PROVE UNCHANGED <<sent, isAlive>>
  BY <1>10 DEF WriteFrame, callVars
<1> QED
  BY <1>1, <1>2, <1>3, <1>4, <1>5, <1>6, <1>7, <1>8, <1>9, <1>10
     DEF PluginNext, Spawn, Shutdown, Kill

-----------------------------------------------------------------------------
(* The theorems about the plugin client.                                    *)

\* What the services do to the state of the plugin client is its own steps.
LEMMA PluginSteps == [ServicesNext]_servicesVars => [PluginNext]_pluginVars
BY DEF ServicesNext, servicesVars

\* The invariant is inductive: every action of the host and of the plugin keeps it.
THEOREM PluginInvariant == ServicesSpec => []PluginInv
<1>1. ServicesInit => PluginInv
  BY InitPluginInv DEF ServicesInit
<1>2. PluginInv /\ [ServicesNext]_servicesVars => PluginInv'
  BY PluginSteps, PluginNextKeeps
<1> QED
  BY <1>1, <1>2, PTL DEF ServicesSpec

\* A call succeeds only with an answer to itself, and a client is handed out
\* only for a plugin that accepted its handshake, whatever the plugin writes
\* and when, for any number of calls.
THEOREM PluginAnswersGenuine == ServicesSpec => []AnswersAreGenuine
BY PluginInvariant, InvGivesAnswers, PTL

\* However the pipe cuts a stream of good frames, the decoder returns the
\* frames in their order and keeps back none that is whole, for streams of any
\* length.
THEOREM PluginFramesSurvive == ServicesSpec => []FramesSurviveChunking
BY PluginInvariant, InvGivesFrames, PTL

\* Once the exit of the plugin was handled no request is registered any more.
THEOREM PluginNothingWaits == ServicesSpec => []NothingWaitsForTheDead
BY PluginInvariant, InvGivesNothingWaits, PTL

\* A client that was killed writes nothing to the plugin and never lives again.
THEOREM PluginSilentAfterKill == ServicesSpec => SilentAfterKill
<1>1. PluginInv /\ [ServicesNext]_servicesVars
        => [~isAlive => UNCHANGED <<sent, isAlive>>]_pluginVars
  BY PluginSteps, SilentStep
<1> QED
  BY <1>1, PluginInvariant, PTL DEF ServicesSpec, SilentAfterKill

-----------------------------------------------------------------------------
(* The GitHub jobs: the inductive invariant.                                *)

Live(q) == phase[q] \in {"waiting", "body"}
Settled(q) == phase[q] = "settled"
OneByOne == job.kind \in {"review", "pack"}
OneRequest == job.kind \in {"view", "resolve", "auth", "pages"}

JobType == [kind : Jobs \cup {"none"}, state : {"none", "running", "done", "failed"},
            options : {"valid", "rejectedEarly", "rejectedLate"}, limit : 1..(LastPage + 1)]

\* Which requests of a job are in flight, by its kind.
SlotsOK ==
  /\ job.kind = "none" <=> job.state = "none"
  /\ job.kind = "none" => \A q \in Slots : phase[q] = "idle"
  /\ OneByOne => IF job.state = "running"
                 THEN (Live(1) /\ phase[2] = "idle") \/ (Settled(1) /\ Live(2))
                 ELSE ~Live(1) /\ ~Live(2)
  /\ OneRequest => phase[2] = "idle" /\ (Live(1) <=> job.state = "running")

\* What a job that is done rests on.
DoneOK ==
  /\ job.state = "done" /\ job.kind \in {"review", "issue"} =>
       \A q \in Slots : Settled(q) /\ Passed(outcome[q])
  /\ job.state = "done" /\ job.kind = "pack" => Settled(2) /\ Passed(outcome[2])

PagesOK ==
  /\ pages \in Seq(1..LastPage) /\ Len(pages) <= LastPage
  /\ pages = [i \in 1..Len(pages) |-> i]
  /\ job.state \in {"none", "running"} => Len(pages) < LastPage
  /\ job.kind = "pages" /\ job.state = "done" => (partial = "none" => Len(pages) = LastPage)

GitHubInv ==
  /\ GitHubTypeOK /\ job \in JobType /\ DOMAIN outcome = Slots
  /\ response \in [Slots -> Responses \cup {NoResponse}]
  /\ SlotsOK /\ DoneOK /\ PagesOK

LEMMA InitGitHubInv ==
  ASSUME GitHubInit
  PROVE  GitHubInv
<1>1. job \in JobType
  BY GitHubAssumption DEF GitHubInit, JobType
<1>2. pages \in Seq(1..LastPage) /\ Len(pages) = 0 /\ pages = <<>>
  BY EmptySeq DEF GitHubInit
<1>3. [i \in 1..0 |-> i] = <<>>
  OBVIOUS
<1>4. GitHubTypeOK
  <2>1. job.kind = "none" /\ job.state = "none"
    BY DEF GitHubInit
  <2>2. phase \in [Slots -> {"idle", "waiting", "body", "settled"}]
    BY DEF GitHubInit
  <2>3. \A q \in Slots : response[q] \in Responses \cup {NoResponse}
    BY DEF GitHubInit
  <2>4. hops \in 0..MaxHops
    <3>1. hops = 0 /\ MaxHops \in Nat
      BY GitHubAssumption DEF GitHubInit
    <3> QED
      BY <3>1
  <2>5. aborted \in BOOLEAN /\ aborting \subseteq Slots
    BY Zenon DEF GitHubInit
  <2> QED
    BY <1>2, <2>1, <2>2, <2>3, <2>4, <2>5 DEF GitHubTypeOK
<1>5. PagesOK
  BY <1>2, <1>3, GitHubAssumption DEF GitHubInit, PagesOK
<1>6. SlotsOK /\ DoneOK /\ DOMAIN outcome = Slots
      /\ response \in [Slots -> Responses \cup {NoResponse}]
  BY DEF GitHubInit, SlotsOK, DoneOK, OneByOne, OneRequest
<1> QED
  BY <1>1, <1>4, <1>5, <1>6 DEF GitHubInv

\* A job of any kind starts with the requests it is going to wait for.
LEMMA StartJobKeeps ==
  ASSUME GitHubInv, NEW kind \in Jobs, NEW s, NEW environment, NEW limit \in 1..(LastPage + 1),
         NEW options \in {"valid", "rejectedEarly", "rejectedLate"},
         StartJob(kind, s, environment, options, limit)
  PROVE  GitHubInv'
<1>1. /\ job.kind = "none"
      /\ UNCHANGED <<response, outcome, hops, aborted, aborting, pages, partial>>
  BY DEF StartJob
<1>2. PICK asks \in BOOLEAN, accepted \in BOOLEAN :
        /\ job' = [kind |-> kind, options |-> options, limit |-> limit,
                   state |-> IF asks THEN "running" ELSE IF accepted THEN "done" ELSE "failed"]
        /\ phase' = [q \in Slots |-> IF asks /\ (q = 1 \/ kind = "issue") THEN "waiting" ELSE "idle"]
        /\ ~asks /\ accepted => kind = "auth"
  <2> DEFINE accepted == Accepts(kind, s, options)
             asks == accepted /\ ~(kind = "auth" /\ BestCredential(environment, kind # "issue") = "anonymous")
  <2>1. /\ job' = [kind |-> kind, options |-> options, limit |-> limit,
                   state |-> IF asks THEN "running" ELSE IF accepted THEN "done" ELSE "failed"]
        /\ phase' = [q \in Slots |-> IF asks /\ (q = 1 \/ kind = "issue") THEN "waiting" ELSE "idle"]
    BY Zenon DEF StartJob
  <2> DEFINE a == IF accepted THEN TRUE ELSE FALSE
             b == IF asks THEN TRUE ELSE FALSE
  <2>2. a \in BOOLEAN /\ b \in BOOLEAN /\ (a <=> accepted) /\ (b <=> asks)
    OBVIOUS
  <2>3. ~b /\ a => kind = "auth"
    OBVIOUS
  <2> HIDE DEF accepted, asks
  <2>4. /\ job' = [kind |-> kind, options |-> options, limit |-> limit,
                   state |-> IF b THEN "running" ELSE IF a THEN "done" ELSE "failed"]
        /\ phase' = [q \in Slots |-> IF b /\ (q = 1 \/ kind = "issue") THEN "waiting" ELSE "idle"]
    BY <2>1
  <2> HIDE DEF a, b
  <2> QED
    BY <2>2, <2>3, <2>4
<1>3. job' \in JobType /\ job'.kind = kind /\ job'.kind # "none" /\ job'.state # "none"
      /\ job'.state = IF asks THEN "running" ELSE IF accepted THEN "done" ELSE "failed"
  BY <1>2 DEF JobType, Jobs
<1>4. /\ phase' \in [Slots -> {"idle", "waiting", "body", "settled"}]
      /\ phase'[1] = IF asks THEN "waiting" ELSE "idle"
      /\ phase'[2] = IF asks /\ kind = "issue" THEN "waiting" ELSE "idle"
  BY <1>2 DEF Slots
<1>5. GitHubTypeOK'
  BY <1>1, <1>3, <1>4 DEF GitHubInv, GitHubTypeOK, JobType
<1>6. SlotsOK'
  BY <1>3, <1>4 DEF SlotsOK, OneByOne, OneRequest, Live, Settled
<1>7. DoneOK'
  BY <1>2, <1>3 DEF DoneOK
<1>8. PagesOK'
  <2>1. Len(pages) < LastPage
    BY <1>1 DEF GitHubInv, PagesOK, SlotsOK
  <2>2. job'.state = "done" => job'.kind = "auth"
    BY <1>2, <1>3
  <2> QED
    BY <1>1, <2>1, <2>2 DEF GitHubInv, PagesOK
<1> QED
  BY <1>1, <1>3, <1>5, <1>6, <1>7, <1>8 DEF GitHubInv

-----------------------------------------------------------------------------
(* A request resolves.                                                      *)

\* The job comes to a state, and another request starts or none does (0).
Moves(q, state, again) ==
  /\ job' = [job EXCEPT !.state = state]
  /\ phase' = [p \in Slots |-> IF p = again THEN "waiting" ELSE IF p = q THEN "settled"
                               ELSE phase[p]]

\* What Resolve does whatever the job.
LEMMA ResolveEffects ==
  ASSUME GitHubInv, NEW q \in Slots, NEW o, Resolve(q, o)
  PROVE  /\ outcome' = [outcome EXCEPT ![q] = o]
         /\ response' \in [Slots -> Responses \cup {NoResponse}]
         /\ aborting' \subseteq Slots
         /\ UNCHANGED <<credential, aborted>>
         /\ job.kind # "pages" => UNCHANGED <<partial, pages>>
<1>1. /\ outcome' = [outcome EXCEPT ![q] = o]
      /\ response' = [response EXCEPT ![q] = NoResponse]
      /\ aborting' = aborting \ {q}
      /\ UNCHANGED <<credential, aborted>>
      /\ job.kind # "pages" => UNCHANGED <<partial, pages>>
  BY DEF Resolve
<1> QED
  BY <1>1 DEF GitHubInv, GitHubTypeOK

\* A job that is not running keeps its state.
LEMMA ResolveLate ==
  ASSUME NEW q \in Slots, NEW o, Resolve(q, o), job.state # "running"
  PROVE  Moves(q, job.state, 0)
BY DEF Resolve, Moves

\* What becomes of a job that waits for one request after the other.
LEMMA ResolveOneByOne ==
  ASSUME NEW q \in Slots, NEW o, Resolve(q, o), job.state = "running", OneByOne
  PROVE  \E state : /\ Moves(q, state, IF state = "running" THEN 2 ELSE 0)
                    /\ job.kind = "review" =>
                         state = Finished(ReviewState([outcome EXCEPT ![q] = o]))
                    /\ job.kind = "pack" => state = PackState([outcome EXCEPT ![q] = o])
<1>1. CASE job.kind = "review"
  <2> DEFINE state == Finished(ReviewState([outcome EXCEPT ![q] = o]))
  <2>1. Moves(q, state, IF state = "running" THEN 2 ELSE 0)
    BY <1>1 DEF Resolve, Moves
  <2> HIDE DEF state
  <2> QED
    BY <1>1, <2>1 DEF state
<1>2. CASE job.kind = "pack"
  <2> DEFINE state == PackState([outcome EXCEPT ![q] = o])
  <2>1. Moves(q, state, IF state = "running" THEN 2 ELSE 0)
    BY <1>2 DEF Resolve, Moves
  <2> HIDE DEF state
  <2> QED
    BY <1>2, <2>1 DEF state
<1> QED
  BY <1>1, <1>2 DEF OneByOne

\* What becomes of an issue, which waits for two requests at once.
LEMMA ResolveIssue ==
  ASSUME NEW q \in Slots, NEW o, Resolve(q, o), job.state = "running", job.kind = "issue"
  PROVE  Moves(q, Finished(IssueState([outcome EXCEPT ![q] = o],
                                      {p \in Slots : phase[p] = "settled"} \cup {q})), 0)
BY DEF Resolve, Moves

\* A single request ends its job.
LEMMA ResolveSingle ==
  ASSUME NEW q \in Slots, NEW o, Resolve(q, o), job.state = "running",
         job.kind \in {"view", "resolve", "auth"}
  PROVE  Moves(q, "done", 0) \/ Moves(q, "failed", 0)
<1>1. CASE job.kind = "auth"
  <2>1. Moves(q, AuthState([outcome EXCEPT ![q] = o]), 0)
    BY <1>1 DEF Resolve, Moves, AuthState
  <2> QED
    BY <2>1 DEF AuthState
<1>2. CASE job.kind \in {"view", "resolve"}
  <2>1. Moves(q, SingleState([outcome EXCEPT ![q] = o]), 0)
    BY <1>2 DEF Resolve, Moves, SingleState
  <2> QED
    BY <2>1 DEF SingleState
<1> QED
  BY <1>1, <1>2

\* A page is followed by the next one, or ends the walk.
LEMMA ResolvePage ==
  ASSUME NEW q \in Slots, NEW o, Resolve(q, o), job.state = "running", job.kind = "pages"
  PROVE  \/ o.kind = "thrown" /\ Moves(q, "failed", 0) /\ UNCHANGED <<partial, pages>>
         \/ /\ o.kind # "thrown"
            /\ partial' = PageStops(o, Len(pages) + 1)
            /\ pages' = IF o.kind = "ok" /\ o.body = "array" THEN Append(pages, Len(pages) + 1)
                        ELSE pages
            /\ IF partial' = "none" /\ Len(pages) + 1 < LastPage
               THEN Moves(q, "running", 1) ELSE Moves(q, "done", 0)
<1>1. CASE o.kind = "thrown"
  BY <1>1 DEF Resolve, Moves
<1>2. CASE o.kind # "thrown"
  <2>1. /\ partial' = PageStops(o, Len(pages) + 1)
        /\ pages' = IF o.kind = "ok" /\ o.body = "array" THEN Append(pages, Len(pages) + 1)
                    ELSE pages
    BY <1>2 DEF Resolve
  <2>2. CASE PageStops(o, Len(pages) + 1) = "none" /\ Len(pages) + 1 < LastPage
    <3>1. Moves(q, "running", 1)
      BY <1>2, <2>2 DEF Resolve, Moves
    <3> QED
      BY <1>2, <2>1, <2>2, <3>1
  <2>3. CASE ~(PageStops(o, Len(pages) + 1) = "none" /\ Len(pages) + 1 < LastPage)
    <3>1. Moves(q, "done", 0)
      BY <1>2, <2>3 DEF Resolve, Moves
    <3> QED
      BY <1>2, <2>1, <2>3, <3>1
  <2> QED
    BY <2>2, <2>3
<1> QED
  BY <1>1, <1>2

\* The type of the state after a request has resolved.
LEMMA MovesType ==
  ASSUME GitHubInv, NEW q \in Slots, NEW o, Resolve(q, o), UNCHANGED hops,
         NEW state \in {"none", "running", "done", "failed"}, NEW again, Moves(q, state, again),
         pages' \in Seq(1..LastPage)
  PROVE  /\ job' \in JobType /\ job'.kind = job.kind /\ job'.state = state
         /\ phase' \in [Slots -> {"idle", "waiting", "body", "settled"}]
         /\ \A p \in Slots : phase'[p] = IF p = again THEN "waiting"
                                         ELSE IF p = q THEN "settled" ELSE phase[p]
         /\ GitHubTypeOK' /\ DOMAIN outcome' = Slots /\ outcome'[q] = o
         /\ \A p \in Slots \ {q} : outcome'[p] = outcome[p]
         /\ response' \in [Slots -> Responses \cup {NoResponse}]
<1>1. job' \in JobType /\ job'.kind = job.kind /\ job'.state = state
  BY DEF GitHubInv, JobType, Moves
<1>2. /\ phase' \in [Slots -> {"idle", "waiting", "body", "settled"}]
      /\ \A p \in Slots : phase'[p] = IF p = again THEN "waiting"
                                      ELSE IF p = q THEN "settled" ELSE phase[p]
  BY DEF GitHubInv, GitHubTypeOK, Moves
<1>3. /\ outcome' = [outcome EXCEPT ![q] = o]
      /\ response' \in [Slots -> Responses \cup {NoResponse}]
      /\ aborting' \subseteq Slots
      /\ UNCHANGED <<credential, aborted>>
  BY ResolveEffects
<1>4. DOMAIN outcome' = Slots /\ outcome'[q] = o /\ \A p \in Slots \ {q} : outcome'[p] = outcome[p]
  BY <1>3 DEF GitHubInv
<1>5. job'.kind \in Jobs \cup {"none"} /\ job'.state \in {"none", "running", "done", "failed"}
  BY <1>1 DEF JobType
<1>6. GitHubTypeOK'
  BY <1>2, <1>3, <1>5 DEF GitHubInv, GitHubTypeOK
<1> QED
  BY <1>1, <1>2, <1>3, <1>4, <1>6

\* A review or a pack after one of its requests.
LEMMA ResolveOneByOneKeeps ==
  ASSUME GitHubInv, NEW q \in Slots, NEW o, Live(q), Resolve(q, o), UNCHANGED hops, OneByOne
  PROVE  GitHubInv'
<1>1. /\ job.state = "running"
      /\ \/ q = 1 /\ Live(1) /\ phase[2] = "idle"
         \/ q = 2 /\ Settled(1) /\ Live(2)
  BY DEF GitHubInv, SlotsOK, Live, Settled, Slots
<1>2. PICK state : /\ Moves(q, state, IF state = "running" THEN 2 ELSE 0)
                   /\ job.kind = "review" =>
                        state = Finished(ReviewState([outcome EXCEPT ![q] = o]))
                   /\ job.kind = "pack" => state = PackState([outcome EXCEPT ![q] = o])
  BY <1>1, ResolveOneByOne
<1>3. outcome' = [outcome EXCEPT ![q] = o] /\ UNCHANGED <<pages, partial>>
      /\ pages \in Seq(1..LastPage)
  BY ResolveEffects DEF OneByOne, GitHubInv, PagesOK
<1>4. /\ state \in {"running", "done", "failed"}
      /\ state = "running" => q = 1
      /\ state = "done" => q = 2 /\ Passed(outcome'[2])
      /\ state = "done" /\ job.kind = "review" => Passed(outcome'[1])
  <2>1. CASE job.kind = "review"
    <3>1. ReviewState(outcome') \in {"running", "done", "failed"}
          /\ (ReviewState(outcome') = "running" => phase[2] = "idle")
          /\ (ReviewState(outcome') = "done" =>
                phase[2] # "idle" /\ Passed(outcome'[1]) /\ Passed(outcome'[2]))
      BY DEF ReviewState
    <3>2. state \in {ReviewState(outcome'), "failed"}
          /\ (state = "done" => ReviewState(outcome') = "done")
      BY <1>2, <1>3, <2>1 DEF Finished
    <3> QED
      BY <1>1, <2>1, <3>1, <3>2 DEF Live
  <2>2. CASE job.kind = "pack"
    <3>1. state = PackState(outcome')
      BY <1>2, <1>3, <2>2
    <3> QED
      BY <1>1, <2>2, <3>1 DEF PackState, Live
  <2> QED
    BY <2>1, <2>2 DEF OneByOne
<1>5. /\ job' \in JobType /\ job'.kind = job.kind /\ job'.state = state
      /\ \A p \in Slots : phase'[p] = IF p = (IF state = "running" THEN 2 ELSE 0) THEN "waiting"
                                      ELSE IF p = q THEN "settled" ELSE phase[p]
      /\ GitHubTypeOK' /\ DOMAIN outcome' = Slots
      /\ response' \in [Slots -> Responses \cup {NoResponse}]
  BY <1>2, <1>3, <1>4, MovesType
<1>6. SlotsOK'
  BY <1>1, <1>4, <1>5
     DEF SlotsOK, OneByOne, OneRequest, Live, Settled, Slots
<1>7. DoneOK'
  BY <1>1, <1>4, <1>5 DEF DoneOK, OneByOne, Settled, Slots
<1>8. PagesOK'
  BY <1>1, <1>3, <1>5 DEF GitHubInv, PagesOK, OneByOne
<1> QED
  BY <1>5, <1>6, <1>7, <1>8 DEF GitHubInv

\* An issue after one of its two requests, in either order, also after the
\* other one has failed.
LEMMA ResolveIssueKeeps ==
  ASSUME GitHubInv, NEW q \in Slots, NEW o, Live(q), Resolve(q, o), UNCHANGED hops,
         job.kind = "issue"
  PROVE  GitHubInv'
<1> DEFINE settled == {p \in Slots : phase[p] = "settled"} \cup {q}
<1>1. outcome' = [outcome EXCEPT ![q] = o] /\ UNCHANGED <<pages, partial>>
      /\ pages \in Seq(1..LastPage)
  BY ResolveEffects DEF GitHubInv, PagesOK
<1>2. PICK state \in {"none", "running", "done", "failed"} :
        /\ Moves(q, state, 0)
        /\ state = "done" => settled = Slots /\ Passed(outcome'[1]) /\ Passed(outcome'[2])
        /\ state # "none"
        /\ state = "running" => job.state = "running"
  <2>1. CASE job.state = "running"
    <3>1. Moves(q, Finished(IssueState(outcome', settled)), 0)
      BY <1>1, <2>1, ResolveIssue
    <3> HIDE DEF settled
    <3>2. IssueState(outcome', settled) \in {"running", "done", "failed"}
          /\ (IssueState(outcome', settled) = "done" =>
                settled = Slots /\ Passed(outcome'[1]) /\ Passed(outcome'[2]))
      BY DEF IssueState
    <3>3. Finished(IssueState(outcome', settled)) \in {IssueState(outcome', settled), "failed"}
      BY DEF Finished
    <3> QED
      BY <2>1, <3>1, <3>2, <3>3
  <2>2. CASE job.state # "running"
    <3>1. Moves(q, job.state, 0)
      BY <2>2, ResolveLate
    <3>2. job.state # "done"
      BY DEF GitHubInv, DoneOK, Settled, Live
    <3>3. job.state # "none" /\ job.state \in {"none", "running", "done", "failed"}
      BY DEF GitHubInv, GitHubTypeOK, SlotsOK
    <3> QED
      BY <2>2, <3>1, <3>2, <3>3
  <2> QED
    BY <2>1, <2>2
<1>3. /\ job' \in JobType /\ job'.kind = job.kind /\ job'.state = state
      /\ \A p \in Slots : phase'[p] = IF p = 0 THEN "waiting"
                                      ELSE IF p = q THEN "settled" ELSE phase[p]
      /\ GitHubTypeOK' /\ DOMAIN outcome' = Slots
      /\ response' \in [Slots -> Responses \cup {NoResponse}]
  BY <1>1, <1>2, MovesType
<1>4. SlotsOK'
  BY <1>2, <1>3 DEF SlotsOK, OneByOne, OneRequest
<1>5. DoneOK'
  BY <1>2, <1>3 DEF DoneOK, Settled, Slots
<1>6. PagesOK'
  BY <1>1, <1>2, <1>3 DEF GitHubInv, PagesOK
<1> QED
  BY <1>3, <1>4, <1>5, <1>6 DEF GitHubInv

\* The end of the only request of a job.
LEMMA ResolveSingleKeeps ==
  ASSUME GitHubInv, NEW q \in Slots, NEW o, Live(q), Resolve(q, o), UNCHANGED hops,
         job.kind \in {"view", "resolve", "auth"}
  PROVE  GitHubInv'
<1>1. q = 1 /\ phase[2] = "idle" /\ job.state = "running"
  BY DEF GitHubInv, SlotsOK, OneRequest, Live, Slots
<1>2. UNCHANGED <<pages, partial>> /\ pages \in Seq(1..LastPage)
  BY ResolveEffects DEF GitHubInv, PagesOK
<1>3. PICK state \in {"done", "failed"} : Moves(q, state, 0)
  BY <1>1, ResolveSingle
<1>4. /\ job' \in JobType /\ job'.kind = job.kind /\ job'.state = state
      /\ \A p \in Slots : phase'[p] = IF p = 0 THEN "waiting"
                                      ELSE IF p = q THEN "settled" ELSE phase[p]
      /\ GitHubTypeOK' /\ DOMAIN outcome' = Slots
      /\ response' \in [Slots -> Responses \cup {NoResponse}]
  BY <1>2, <1>3, MovesType
<1>5. SlotsOK'
  BY <1>1, <1>4 DEF SlotsOK, OneByOne, OneRequest, Live, Slots
<1>6. DoneOK' /\ PagesOK'
  BY <1>1, <1>2, <1>4 DEF GitHubInv, DoneOK, PagesOK
<1> QED
  BY <1>4, <1>5, <1>6 DEF GitHubInv

\* A page more, or the end of the walk: no page is called for after the last,
\* and only the last one ends a walk without a reason.
LEMMA ResolvePageKeeps ==
  ASSUME GitHubInv, NEW q \in Slots, NEW o, o.kind # "none", Live(q), Resolve(q, o),
         UNCHANGED hops, job.kind = "pages"
  PROVE  GitHubInv'
<1>1. q = 1 /\ phase[2] = "idle" /\ job.state = "running"
  BY DEF GitHubInv, SlotsOK, OneRequest, Live, Slots
<1>2. /\ pages \in Seq(1..LastPage) /\ Len(pages) \in Nat /\ Len(pages) < LastPage
      /\ pages = [i \in 1..Len(pages) |-> i] /\ LastPage \in Nat
  BY <1>1, LenProperties, GitHubAssumption DEF GitHubInv, PagesOK
<1>3. CASE o.kind = "thrown" /\ Moves(q, "failed", 0) /\ UNCHANGED <<partial, pages>>
  <2>1. /\ job' \in JobType /\ job'.kind = job.kind /\ job'.state = "failed"
        /\ \A p \in Slots : phase'[p] = IF p = 0 THEN "waiting"
                                        ELSE IF p = q THEN "settled" ELSE phase[p]
        /\ GitHubTypeOK' /\ DOMAIN outcome' = Slots
        /\ response' \in [Slots -> Responses \cup {NoResponse}]
    BY <1>2, <1>3, MovesType
  <2>2. SlotsOK'
    BY <1>1, <2>1 DEF SlotsOK, OneByOne, OneRequest, Live, Slots
  <2>3. DoneOK' /\ PagesOK'
    BY <1>2, <1>3, <2>1 DEF DoneOK, PagesOK
  <2> QED
    BY <2>1, <2>2, <2>3 DEF GitHubInv
<1>4. CASE /\ o.kind # "thrown"
           /\ partial' = PageStops(o, Len(pages) + 1)
           /\ pages' = IF o.kind = "ok" /\ o.body = "array" THEN Append(pages, Len(pages) + 1)
                       ELSE pages
           /\ IF partial' = "none" /\ Len(pages) + 1 < LastPage
              THEN Moves(q, "running", 1) ELSE Moves(q, "done", 0)
  <2>1. partial' = "none" => o.kind = "ok" /\ o.body = "array"
    BY <1>4 DEF PageStops
  <2>2. /\ pages' \in Seq(1..LastPage) /\ Len(pages') <= LastPage
        /\ pages' = [i \in 1..Len(pages') |-> i]
        /\ o.kind = "ok" /\ o.body = "array" => Len(pages') = Len(pages) + 1
    <3>1. CASE o.kind = "ok" /\ o.body = "array"
      <4>1. pages' = Append(pages, Len(pages) + 1) /\ Len(pages) + 1 \in 1..LastPage
        BY <1>2, <1>4, <3>1
      <4>2. /\ pages' \in Seq(1..LastPage) /\ Len(pages') = Len(pages) + 1
            /\ \A i \in 1..Len(pages) : pages'[i] = pages[i]
            /\ pages'[Len(pages) + 1] = Len(pages) + 1
        BY <1>2, <4>1, AppendProperties
      <4>3. \A i \in 1..Len(pages) : pages[i] = i
        BY <1>2
      <4>4. \A i \in 1..Len(pages') : pages'[i] = i
        BY <1>2, <4>2, <4>3
      <4>5. pages' = [i \in 1..Len(pages') |-> i]
        BY <4>2, <4>4, LenProperties
      <4> QED
        BY <1>2, <4>2, <4>5
    <3>2. CASE ~(o.kind = "ok" /\ o.body = "array")
      <4>1. pages' = pages
        BY <1>4, <3>2
      <4>2. pages' = [i \in 1..Len(pages') |-> i]
        BY <1>2, <4>1, Zenon
      <4>3. pages' \in Seq(1..LastPage) /\ Len(pages') <= LastPage
        BY <1>2, <4>1
      <4> QED
        BY <3>2, <4>2, <4>3
    <3> QED
      BY <3>1, <3>2
  <2>3. PICK state \in {"running", "done"}, again \in {0, 1} :
          /\ Moves(q, state, again)
          /\ state = "running" => again = 1 /\ partial' = "none" /\ Len(pages) + 1 < LastPage
          /\ state = "done" => again = 0 /\ ~(partial' = "none" /\ Len(pages) + 1 < LastPage)
    BY <1>4
  <2>4. /\ job' \in JobType /\ job'.kind = job.kind /\ job'.state = state
        /\ \A p \in Slots : phase'[p] = IF p = again THEN "waiting"
                                        ELSE IF p = q THEN "settled" ELSE phase[p]
        /\ GitHubTypeOK' /\ DOMAIN outcome' = Slots
        /\ response' \in [Slots -> Responses \cup {NoResponse}]
    <3>1. state \in {"none", "running", "done", "failed"}
      OBVIOUS
    <3>2. pages' \in Seq(1..LastPage)
      BY <2>2
    <3> QED
      BY <2>3, <3>1, <3>2, MovesType
  <2>5. SlotsOK'
    BY <1>1, <2>3, <2>4 DEF SlotsOK, OneByOne, OneRequest, Live, Slots
  <2>6. DoneOK'
    BY <2>4 DEF DoneOK
  <2>7. PagesOK'
    <3>1. Len(pages) \in Nat /\ LastPage \in Nat /\ Len(pages) < LastPage
      BY <1>2
    <3>2. partial' = "none" => Len(pages') = Len(pages) + 1
      BY <2>1, <2>2
    <3>3. state = "running" => Len(pages') < LastPage
      BY <2>3, <3>1, <3>2
    <3>4. state = "done" => (partial' = "none" => Len(pages') = LastPage)
      BY <2>3, <3>1, <3>2
    <3> QED
      BY <2>2, <2>4, <3>3, <3>4, Zenon DEF PagesOK
  <2> QED
    BY <2>4, <2>5, <2>6, <2>7 DEF GitHubInv
<1> QED
  BY <1>1, <1>3, <1>4, ResolvePage

\* However a request in flight ends, the job that waits for it goes on or ends
\* as it should.
LEMMA ResolveKeeps ==
  ASSUME GitHubInv, NEW q \in Slots, NEW o, o.kind # "none", Live(q), Resolve(q, o),
         UNCHANGED hops
  PROVE  GitHubInv'
<1>1. job.kind \in Jobs
  BY DEF GitHubInv, GitHubTypeOK, SlotsOK, Live
<1> QED
  BY <1>1, ResolveOneByOneKeeps, ResolveIssueKeeps, ResolveSingleKeeps, ResolvePageKeeps
     DEF Jobs, OneByOne

LEMMA RespondKeeps ==
  ASSUME GitHubInv, NEW q \in Slots, NEW r \in Responses, Respond(q, r)
  PROVE  GitHubInv'
<1>1. phase[q] = "waiting" /\ Live(q)
  BY DEF Respond, Live
<1>2. CASE Classified(r) = "follow"
  <2>1. /\ hops < MaxHops /\ hops' = hops + 1 /\ aborting' = aborting \ {q}
        /\ UNCHANGED <<job, credential, phase, response, outcome, aborted, pages, partial>>
    BY <1>2 DEF Respond
  <2>2. GitHubTypeOK'
    BY <2>1, GitHubAssumption DEF GitHubInv, GitHubTypeOK
  <2> QED
    BY <2>1, <2>2
       DEF GitHubInv, SlotsOK, DoneOK, PagesOK, OneByOne, OneRequest, Live, Settled
<1>3. CASE Classified(r) = "body"
  <2>1. /\ phase' = [phase EXCEPT ![q] = "body"] /\ response' = [response EXCEPT ![q] = r]
        /\ UNCHANGED <<job, credential, outcome, hops, aborted, aborting, pages, partial>>
    BY <1>3 DEF Respond
  <2>2. phase \in [Slots -> {"idle", "waiting", "body", "settled"}]
    BY DEF GitHubInv, GitHubTypeOK
  <2>3. /\ phase' \in [Slots -> {"idle", "waiting", "body", "settled"}]
        /\ \A p \in Slots : /\ Live(p)' <=> Live(p)
                            /\ Settled(p)' <=> Settled(p)
                            /\ phase'[p] = "idle" <=> phase[p] = "idle"
    BY <1>1, <2>1, <2>2 DEF Live, Settled
  <2>4. response' \in [Slots -> Responses \cup {NoResponse}]
    BY <2>1 DEF GitHubInv
  <2>5. GitHubTypeOK'
    BY <2>1, <2>3, <2>4 DEF GitHubInv, GitHubTypeOK
  <2>6. 1 \in Slots /\ 2 \in Slots
    BY DEF Slots
  <2>7. SlotsOK'
    BY <2>1, <2>3, <2>6 DEF GitHubInv, SlotsOK, OneByOne, OneRequest
  <2>8. DoneOK' /\ PagesOK'
    BY <2>1, <2>3, <2>6 DEF GitHubInv, DoneOK, PagesOK
  <2> QED
    BY <2>1, <2>4, <2>5, <2>7, <2>8 DEF GitHubInv
<1>4. CASE Classified(r) \notin {"follow", "body"}
  <2> DEFINE o == [Failed(Classified(r)) EXCEPT !.status = r.status]
  <2>1. Resolve(q, o) /\ UNCHANGED hops
    BY <1>4 DEF Respond
  <2>2. o.kind = Classified(r) /\ Classified(r) # "none"
    BY DEF Failed, Classified
  <2> HIDE DEF o
  <2> QED
    BY <1>1, <2>1, <2>2, ResolveKeeps
<1> QED
  BY <1>2, <1>3, <1>4

LEMMA BodyEndsKeeps ==
  ASSUME GitHubInv, NEW q \in Slots, BodyEnds(q)
  PROVE  GitHubInv'
<1>1. Live(q) /\ UNCHANGED hops
  BY DEF BodyEnds, Live
<1>2. PICK o : Resolve(q, o) /\ o.kind # "none"
  <2> DEFINE o == IF response[q].fits
                  THEN [kind |-> "ok", status |-> response[q].status, body |-> response[q].body]
                  ELSE Failed("oversized")
  <2>1. Resolve(q, o)
    BY DEF BodyEnds
  <2>2. o.kind # "none"
    BY DEF Failed
  <2> HIDE DEF o
  <2> QED
    BY <2>1, <2>2
<1> QED
  BY <1>1, <1>2, ResolveKeeps

LEMMA TornDownKeeps ==
  ASSUME GitHubInv, NEW q \in Slots, NEW kind, kind # "none", TornDown(q, kind)
  PROVE  GitHubInv'
<1>1. Live(q) /\ UNCHANGED hops
  BY DEF TornDown, Live
<1>2. PICK o : Resolve(q, o) /\ o.kind # "none"
  <2> DEFINE o == Failed(IF phase[q] = "waiting" THEN kind ELSE "thrown")
  <2>1. Resolve(q, o)
    BY DEF TornDown
  <2>2. o.kind # "none"
    BY DEF Failed
  <2> HIDE DEF o
  <2> QED
    BY <2>1, <2>2
<1> QED
  BY <1>1, <1>2, ResolveKeeps

\* Every step of a job, of the servers and of whoever cancels keeps the
\* invariant.
LEMMA GitHubNextKeeps ==
  ASSUME GitHubInv, [GitHubNext]_githubVars
  PROVE  GitHubInv'
<1>1. CASE CancelJob
  <2>1. /\ aborted' = TRUE /\ aborting' \subseteq Slots
        /\ UNCHANGED <<job, credential, phase, response, outcome, hops, pages, partial>>
    BY <1>1 DEF CancelJob
  <2>2. GitHubTypeOK'
    BY <2>1 DEF GitHubInv, GitHubTypeOK
  <2> QED
    BY <2>1, <2>2
       DEF GitHubInv, SlotsOK, DoneOK, PagesOK, OneByOne, OneRequest, Live, Settled
<1>2. CASE UNCHANGED githubVars
  <2>1. UNCHANGED <<job, credential, phase, response, outcome, hops, aborted, aborting, pages,
                    partial>>
    BY <1>2 DEF githubVars
  <2>2. GitHubTypeOK'
    BY <2>1 DEF GitHubInv, GitHubTypeOK
  <2> QED
    BY <2>1, <2>2
       DEF GitHubInv, SlotsOK, DoneOK, PagesOK, OneByOne, OneRequest, Live, Settled
<1>3. ASSUME NEW q \in Slots,
             TimeoutFires(q) \/ NetworkFails(q) \/ CancelReaches(q)
      PROVE  GitHubInv'
  BY <1>3, TornDownKeeps DEF TimeoutFires, NetworkFails, CancelReaches
<1> QED
  BY <1>1, <1>2, <1>3, StartJobKeeps, RespondKeeps, BodyEndsKeeps DEF GitHubNext

LEMMA InvGivesWholeResults ==
  ASSUME GitHubInv
  PROVE  ResultsAreWhole
BY DEF GitHubInv, DoneOK, PagesOK, Settled, ResultsAreWhole, Complete

-----------------------------------------------------------------------------
(* The theorems about the GitHub jobs.                                      *)

\* What the services do to the state of a GitHub job is its own steps.
LEMMA GitHubSteps == [ServicesNext]_servicesVars => [GitHubNext]_githubVars
BY DEF ServicesNext, servicesVars

\* The invariant is inductive: every way a request can end keeps it.
THEOREM GitHubInvariant == ServicesSpec => []GitHubInv
<1>1. ServicesInit => GitHubInv
  BY InitGitHubInv DEF ServicesInit
<1>2. GitHubInv /\ [ServicesNext]_servicesVars => GitHubInv'
  BY GitHubSteps, GitHubNextKeeps
<1> QED
  BY <1>1, <1>2, PTL DEF ServicesSpec

\* A command that reports success rests on whole answers and a collection that
\* is called complete has every page, whatever the servers answer, in whatever
\* order, for collections of any length and any number of redirects.
THEOREM GitHubResultsWhole == ServicesSpec => []ResultsAreWhole
BY GitHubInvariant, InvGivesWholeResults, PTL

-----------------------------------------------------------------------------
(* Lines in order.                                                          *)

Ascends(w) == \A j, k \in DOMAIN w : j < k => w[j] < w[k]

\* A set of numbers up to N is finite.
LEMMA NumbersAreFinite ==
  ASSUME NEW N \in Nat, NEW V \in SUBSET (1..N)
  PROVE  IsFiniteSet(V) /\ Cardinality(V) \in Nat
<1>1. IsFiniteSet(1..N)
  BY FS_Interval
<1>2. IsFiniteSet(V)
  BY <1>1, FS_Subset
<1> QED
  BY <1>2, FS_CardinalityType

\* A finite set of numbers that is not empty has a largest one.
LEMMA LargestNumber ==
  ASSUME NEW N \in Nat, NEW V \in SUBSET (1..N), V # {}
  PROVE  \E m \in V : \A x \in V : x <= m
<1> DEFINE S == {n \in Nat : N - n \in V}
<1>1. S # {}
  <2>1. PICK x \in V : TRUE
    OBVIOUS
  <2>2. N - x \in Nat /\ N - (N - x) = x
    OBVIOUS
  <2> QED
    BY <2>1, <2>2
<1>2. PICK n \in S : \A k \in S : n <= k
  <2>1. S \in SUBSET Nat
    OBVIOUS
  <2> HIDE DEF S
  <2> QED
    BY <1>1, <2>1, LeastNumber
<1>3. ASSUME NEW x \in V PROVE x <= N - n
  <2>1. N - x \in S
    <3>1. N - x \in Nat /\ N - (N - x) = x
      OBVIOUS
    <3> QED
      BY <3>1
  <2>2. n <= N - x
    BY <1>2, <2>1
  <2> QED
    BY <2>2
<1> QED
  BY <1>2, <1>3

\* A finite set of numbers can be listed in ascending order: otherwise there
\* would be a smallest set that cannot, but taking away its largest number
\* leaves one that can.
LEMMA Listable ==
  ASSUME NEW N \in Nat, NEW W \in SUBSET (1..N)
  PROVE  /\ Cardinality(W) \in Nat
         /\ \E w \in [1..Cardinality(W) -> W] : Ascends(w)
<1> DEFINE Listed(n, V) == \E w \in [1..n -> V] : Ascends(w)
           Bad == {n \in Nat : \E V \in SUBSET (1..N) : Cardinality(V) = n /\ ~Listed(n, V)}
<1>1. ASSUME NEW V \in SUBSET (1..N)
      PROVE  IsFiniteSet(V) /\ Cardinality(V) \in Nat
  BY NumbersAreFinite
<1>2. ASSUME Bad # {} PROVE FALSE
  <2>1. PICK n \in Bad : \A m \in Bad : n <= m
    <3>1. Bad \in SUBSET Nat
      OBVIOUS
    <3> HIDE DEF Bad
    <3> QED
      BY <1>2, <3>1, LeastNumber
  <2>2. PICK V \in SUBSET (1..N) : Cardinality(V) = n /\ ~Listed(n, V)
    OBVIOUS
  <2>3. n \in Nat
    OBVIOUS
  <2>4. n # 0
    <3>1. SUFFICES ASSUME n = 0 PROVE FALSE
      OBVIOUS
    <3>2. V = {}
      BY <1>1, <2>2, <3>1, FS_EmptySet
    <3>3. [i \in 1..0 |-> i] \in [1..0 -> V] /\ Ascends([i \in 1..0 |-> i])
      BY DEF Ascends
    <3> QED
      BY <2>2, <3>1, <3>3
  <2>5. V # {}
    BY <2>2, <2>4, FS_EmptySet
  <2>6. PICK m \in V : \A x \in V : x <= m
    BY <2>5, LargestNumber
  <2> DEFINE U == V \ {m}
  <2>7. U \in SUBSET (1..N) /\ Cardinality(U) = n - 1
    BY <1>1, <2>2, <2>6, FS_RemoveElement
  <2>8. Listed(n - 1, U)
    <3>1. n - 1 \in Nat /\ n - 1 \notin Bad
      BY <2>1, <2>3, <2>4
    <3> QED
      BY <2>7, <3>1
  <2>9. PICK u \in [1..(n - 1) -> U] : Ascends(u)
    BY <2>8
  <2> DEFINE w == [i \in 1..n |-> IF i = n THEN m ELSE u[i]]
  <2>10. w \in [1..n -> V]
    <3>1. ASSUME NEW i \in 1..n, i # n PROVE u[i] \in V
      <4>1. i \in 1..(n - 1)
        BY <2>3, <3>1
      <4> QED
        BY <4>1, <2>9
    <3> QED
      BY <3>1, <2>6
  <2>11. Ascends(w)
    <3>1. ASSUME NEW j \in 1..n, NEW k \in 1..n, j < k PROVE w[j] < w[k]
      <4>1. j \in 1..(n - 1) /\ w[j] = u[j] /\ u[j] \in U
        BY <2>3, <2>9, <3>1
      <4>2. CASE k = n
        <5>1. u[j] \in V /\ u[j] # m /\ u[j] <= m
          BY <2>6, <4>1
        <5>2. u[j] \in 1..N /\ m \in 1..N
          BY <5>1
        <5>3. w[k] = m
          BY <4>2
        <5> QED
          BY <4>1, <5>1, <5>2, <5>3
      <4>3. CASE k # n
        <5>1. k \in 1..(n - 1) /\ w[k] = u[k]
          BY <2>3, <3>1, <4>3
        <5> QED
          BY <2>9, <3>1, <4>1, <5>1 DEF Ascends
      <4> QED
        BY <4>2, <4>3
    <3> QED
      BY <3>1 DEF Ascends
  <2> HIDE DEF w
  <2> QED
    BY <2>2, <2>10, <2>11
<1>3. Cardinality(W) \in Nat
  BY <1>1
<1>4. Cardinality(W) \notin Bad
  BY <1>2
<1> QED
  BY <1>3, <1>4

\* InOrder lists every line once, the earlier ones first.
LEMMA InOrderLists ==
  ASSUME NEW N \in Nat, NEW W \in SUBSET (1..N)
  PROVE  /\ InOrder(W) \in Seq(W)
         /\ Ascends(InOrder(W))
         /\ \A x \in W : \E i \in DOMAIN InOrder(W) : InOrder(W)[i] = x
<1> DEFINE n == Cardinality(W)
           w == InOrder(W)
<1>1. n \in Nat /\ IsFiniteSet(W)
  BY NumbersAreFinite
<1>2. w \in [1..n -> W] /\ Ascends(w)
  <2>1. \E v \in [1..n -> W] : Ascends(v)
    BY Listable
  <2>2. w = CHOOSE v \in [1..n -> W] : Ascends(v)
    BY DEF InOrder, Ascends
  <2> HIDE DEF w, n
  <2> QED
    BY <2>1, <2>2
<1> HIDE DEF w
<1>3. w \in Seq(W)
  BY <1>1, <1>2, FunctionIsSeq
<1>4. w \in Injection(1..n, W)
  <2>1. ASSUME NEW j \in 1..n, NEW k \in 1..n, w[j] = w[k] PROVE j = k
    <3>1. w[j] \in 1..N /\ w[k] \in 1..N
      BY <1>2
    <3>2. ~(j < k) /\ ~(k < j)
      BY <1>2, <2>1, <3>1 DEF Ascends
    <3> QED
      BY <1>1, <3>2
  <2> QED
    BY <1>2, <2>1 DEF Injection, IsInjective
<1>5. w \in Surjection(1..n, W)
  <2>1. Cardinality(1..n) = n
    BY <1>1, FS_Interval
  <2> QED
    BY <1>1, <1>4, <2>1, FS_Injection
<1>6. \A x \in W : \E i \in 1..n : w[i] = x
  BY <1>5 DEF Surjection
<1> QED
  BY <1>2, <1>3, <1>6 DEF w

ListsBoth(w, E, R) ==
  /\ w \in Seq(E \cup R)
  /\ \A x \in E \cup R : \E i \in DOMAIN w : w[i] = x
  /\ \A j, k \in DOMAIN w : k < j => w[k] < w[j] \/ (w[k] \in E /\ w[j] \in R)
  /\ \A j, k \in DOMAIN w : w[j] = w[k] => j = k

\* Two listings one after the other: an earlier line comes before a later one,
\* unless only the later one is in the first listing.
LEMMA TwoListings ==
  ASSUME NEW N \in Nat, NEW E \in SUBSET (1..N), NEW R \in SUBSET (1..N), E \cap R = {}
  PROVE  ListsBoth(InOrder(E) \o InOrder(R), E, R)
<1> DEFINE e == InOrder(E)
           r == InOrder(R)
           w == InOrder(E) \o InOrder(R)
<1>1. /\ e \in Seq(E) /\ Ascends(e) /\ \A x \in E : \E i \in DOMAIN e : e[i] = x
      /\ r \in Seq(R) /\ Ascends(r) /\ \A x \in R : \E i \in DOMAIN r : r[i] = x
  BY InOrderLists
<1>2. w = e \o r
  OBVIOUS
<1> HIDE DEF e, r, w
<1>3. e \in Seq(E \cup R) /\ r \in Seq(E \cup R)
  BY <1>1, SeqMonotonic
<1>4. /\ Len(e) \in Nat /\ DOMAIN e = 1..Len(e) /\ Len(r) \in Nat /\ DOMAIN r = 1..Len(r)
      /\ \A i \in DOMAIN e : e[i] \in E
      /\ \A i \in DOMAIN r : r[i] \in R
  BY <1>1, LenProperties, ElementOfSeq
<1>5. /\ w \in Seq(E \cup R) /\ DOMAIN w = 1..(Len(e) + Len(r))
      /\ \A i \in 1..(Len(e) + Len(r)) : w[i] = IF i <= Len(e) THEN e[i] ELSE r[i - Len(e)]
  BY <1>2, <1>3, ConcatProperties, LenProperties
<1>6. ASSUME NEW x \in E \cup R PROVE \E i \in DOMAIN w : w[i] = x
  <2>1. CASE x \in E
    <3>1. PICK i \in DOMAIN e : e[i] = x
      BY <1>1, <2>1
    <3>2. i \in DOMAIN w /\ w[i] = x
      BY <1>4, <1>5, <3>1
    <3> QED
      BY <3>2
  <2>2. CASE x \in R
    <3>1. PICK i \in DOMAIN r : r[i] = x
      BY <1>1, <2>2
    <3>2. Len(e) + i \in 1..(Len(e) + Len(r)) /\ ~(Len(e) + i <= Len(e))
          /\ (Len(e) + i) - Len(e) = i
      BY <1>4, <3>1
    <3>3. w[Len(e) + i] = r[(Len(e) + i) - Len(e)]
      BY <1>5, <3>2
    <3>4. w[Len(e) + i] = x
      BY <3>1, <3>2, <3>3
    <3>5. Len(e) + i \in DOMAIN w
      BY <1>5, <3>2
    <3> QED
      BY <3>4, <3>5
  <2> QED
    BY <2>1, <2>2
<1>7. ASSUME NEW j \in DOMAIN w, NEW k \in DOMAIN w, k < j
      PROVE  w[k] < w[j] \/ (w[k] \in E /\ w[j] \in R)
  <2>0. j \in Nat /\ k \in Nat
    BY <1>4, <1>5
  <2>1. CASE j <= Len(e)
    <3>1. j \in DOMAIN e /\ k \in DOMAIN e /\ w[j] = e[j] /\ w[k] = e[k]
      BY <1>4, <1>5, <1>7, <2>1
    <3> QED
      BY <1>1, <1>7, <3>1 DEF Ascends
  <2>2. CASE k > Len(e)
    <3>1. /\ j \in 1..(Len(e) + Len(r)) /\ k \in 1..(Len(e) + Len(r))
          /\ ~(j <= Len(e)) /\ ~(k <= Len(e)) /\ k - Len(e) < j - Len(e)
      BY <1>4, <1>5, <1>7, <2>2
    <3>2. j - Len(e) \in DOMAIN r /\ k - Len(e) \in DOMAIN r
      BY <1>4, <3>1
    <3>3. w[j] = r[j - Len(e)] /\ w[k] = r[k - Len(e)]
      BY <1>5, <3>1
    <3>4. r[k - Len(e)] < r[j - Len(e)]
      BY <1>1, <3>1, <3>2 DEF Ascends
    <3> QED
      BY <3>3, <3>4
  <2>3. CASE k <= Len(e) /\ j > Len(e)
    <3>1. k \in DOMAIN e /\ w[k] = e[k] /\ j - Len(e) \in DOMAIN r /\ w[j] = r[j - Len(e)]
      <4>1. k \in 1..Len(e) /\ j \in 1..(Len(e) + Len(r)) /\ k \in 1..(Len(e) + Len(r))
            /\ ~(j <= Len(e)) /\ j - Len(e) \in 1..Len(r)
        BY <1>4, <1>5, <2>0, <2>3
      <4> QED
        BY <1>4, <1>5, <2>3, <4>1
    <3> QED
      BY <1>4, <3>1
  <2> QED
    BY <1>4, <2>0, <2>1, <2>2, <2>3
<1>8. ASSUME NEW j \in DOMAIN w, NEW k \in DOMAIN w, w[j] = w[k] PROVE j = k
  <2>1. w[j] \in E \cup R
    BY <1>5, ElementOfSeq, LenProperties
  <2>2. w[j] \in 1..N
    BY <2>1
  <2>3. ~(w[j] \in E /\ w[j] \in R)
    OBVIOUS
  <2>4. ~(k < j) /\ ~(j < k)
    BY <1>7, <1>8, <2>2, <2>3
  <2> QED
    BY <1>4, <1>5, <2>4
<1> QED
  BY <1>5, <1>6, <1>7, <1>8 DEF ListsBoth, w

-----------------------------------------------------------------------------
(* The MCP server: the inductive invariant.                                 *)

Replies == {"result", "ok", "-32700", "-32600", "-32603", "TYPE_ERROR", "RANGE_ERROR",
            "INTERNAL_ERROR"}
McpAnswers == Seq([line : Nat, reply : Replies])

IsError(i) == lines[i].method \in DOMAIN ImmediateErrors
IsResult(i) == ImmediateResults(lines[i]) # {}
Answered(i) == \E k \in DOMAIN answers : answers[k].line = i

\* A line that was taken has an answer unless it is in progress or null.
TakenOK ==
  \A i \in 1..taken :
    /\ lines[i].method = "null" => mcpServer = "crashed"
    /\ Answered(i) <=> lines[i].method # "null" /\ i \notin running

AnsweredOnce ==
  /\ \A k \in DOMAIN answers : answers[k].line \in 1..taken
  /\ \A j, k \in DOMAIN answers : answers[j].line = answers[k].line => j = k

RunningOK ==
  /\ \A i \in running : IsCall(lines[i])
  /\ \A i \in bundles : lines[i].root = "allowed" /\ i \notin running
  /\ mcpServer = "closed" => taken = Len(lines) /\ running = {}

InTurn ==
  \A j, k \in DOMAIN answers :
    ~IsCall(lines[answers[j].line]) /\ ~IsCall(lines[answers[k].line])
      /\ answers[j].line < answers[k].line /\ j > k
    => ~IsError(answers[j].line) /\ IsError(answers[k].line)

McpInv == McpTypeOK /\ answers \in McpAnswers /\ TakenOK /\ AnsweredOnce /\ RunningOK /\ InTurn

\* A line is one of these: an error, answered without work, a call, or null.
LEMMA LineCases ==
  ASSUME NEW l \in Line
  PROVE  /\ l.method \in DOMAIN ImmediateErrors \/ ImmediateResults(l) # {} \/ IsCall(l)
              \/ l.method = "null"
         /\ l.method \in DOMAIN ImmediateErrors =>
              ImmediateResults(l) = {} /\ ~IsCall(l) /\ l.method # "null"
         /\ ImmediateResults(l) # {} => ~IsCall(l) /\ l.method # "null"
         /\ IsCall(l) => l.method # "null"
BY DEF Line, ImmediateErrors, ImmediateResults, IsCall, Tools

\* What is written for a line that needs no work is an answer to it.
LEMMA ReplyIsAnswer ==
  ASSUME NEW i \in Nat, IsError(i) \/ IsResult(i)
  PROVE  Reply(i) \in [line : Nat, reply : Replies] /\ Reply(i).line = i
<1>1. CASE IsError(i)
  BY <1>1 DEF IsError, Reply, ImmediateErrors, Replies
<1>2. CASE ~IsError(i) /\ IsResult(i)
  <2>1. PICK r : Reply(i) = [line |-> i, reply |-> r] /\ r \in ImmediateResults(lines[i])
    BY <1>2 DEF IsError, IsResult, Reply
  <2>2. r \in Replies
    BY <2>1 DEF ImmediateResults, Replies
  <2> QED
    BY <2>1, <2>2
<1> QED
  BY <1>1, <1>2

-----------------------------------------------------------------------------
(* The MCP server: the actions keep the invariant.                          *)

LEMMA InitMcpInv == McpInit => McpInv
<1>1. <<>> \in Seq(Line) /\ Len(<<>>) = 0 /\ <<>> \in McpAnswers
  BY EmptySeq DEF McpAnswers
<1> QED
  BY <1>1 DEF McpInit, McpInv, McpTypeOK, TakenOK, AnsweredOnce, RunningOK, InTurn, Answered

\* The elements of a concatenation are those of its parts.
LEMMA Concatenation ==
  ASSUME NEW S, NEW s \in Seq(S), NEW t \in Seq(S)
  PROVE  /\ s \o t \in Seq(S)
         /\ \A k \in DOMAIN s : k \in DOMAIN (s \o t) /\ (s \o t)[k] = s[k]
         /\ \A k \in DOMAIN t :
              Len(s) + k \in DOMAIN (s \o t) /\ (s \o t)[Len(s) + k] = t[k]
         /\ \A k \in DOMAIN (s \o t) :
              k \in DOMAIN s \/ (k > Len(s) /\ k - Len(s) \in DOMAIN t
                                   /\ (s \o t)[k] = t[k - Len(s)])
<1> DEFINE c == s \o t
<1>1. /\ Len(s) \in Nat /\ DOMAIN s = 1..Len(s) /\ Len(t) \in Nat /\ DOMAIN t = 1..Len(t)
  BY LenProperties
<1>2. /\ c \in Seq(S) /\ Len(c) = Len(s) + Len(t)
      /\ \A i \in 1..(Len(s) + Len(t)) : c[i] = IF i <= Len(s) THEN s[i] ELSE t[i - Len(s)]
  BY ConcatProperties
<1>3. DOMAIN c = 1..(Len(s) + Len(t))
  BY <1>2, LenProperties
<1> HIDE DEF c
<1>4. ASSUME NEW k \in DOMAIN s PROVE k \in DOMAIN c /\ c[k] = s[k]
  BY <1>1, <1>2, <1>3
<1>5. ASSUME NEW k \in DOMAIN t PROVE Len(s) + k \in DOMAIN c /\ c[Len(s) + k] = t[k]
  <2>1. Len(s) + k \in 1..(Len(s) + Len(t)) /\ ~(Len(s) + k <= Len(s))
        /\ (Len(s) + k) - Len(s) = k
    BY <1>1
  <2>2. c[Len(s) + k] = t[(Len(s) + k) - Len(s)]
    BY <1>2, <2>1
  <2> QED
    BY <1>3, <2>1, <2>2
<1>6. ASSUME NEW k \in DOMAIN c, k \notin DOMAIN s
      PROVE  k > Len(s) /\ k - Len(s) \in DOMAIN t /\ c[k] = t[k - Len(s)]
  <2>1. k \in 1..(Len(s) + Len(t)) /\ ~(k <= Len(s)) /\ k - Len(s) \in 1..Len(t)
    BY <1>1, <1>3, <1>6
  <2> QED
    BY <1>1, <1>2, <2>1
<1>7. c \in Seq(S)
  BY <1>2
<1> QED
  BY <1>4, <1>5, <1>6, <1>7 DEF c

\* New answers, to lines without one and in turn after the earlier ones, keep
\* what the invariant says of answers.
LEMMA AnswersAdded ==
  ASSUME McpInv, NEW new \in McpAnswers, answers' = answers \o new, lines' = lines,
         taken' \in Nat, taken <= taken',
         \A k \in DOMAIN new : new[k].line \in 1..taken' /\ ~Answered(new[k].line),
         \A j, k \in DOMAIN new : new[j].line = new[k].line => j = k,
         \A j, k \in DOMAIN new :
           ~IsCall(lines[new[j].line]) /\ ~IsCall(lines[new[k].line])
             /\ new[j].line < new[k].line /\ j > k
           => ~IsError(new[j].line) /\ IsError(new[k].line),
         \A k \in DOMAIN new : IsCall(lines[new[k].line]) \/ new[k].line > taken
  PROVE  /\ answers' \in McpAnswers /\ AnsweredOnce' /\ InTurn'
         /\ \A i : (\E k \in DOMAIN answers' : answers'[k].line = i)
                     <=> Answered(i) \/ \E k \in DOMAIN new : new[k].line = i
<1> DEFINE a == Len(answers)
<1>1. answers \in McpAnswers /\ taken \in Nat /\ AnsweredOnce /\ InTurn
  <2>1. taken \in Nat
    <3>1. lines \in Seq(Line) /\ taken \in 0..Len(lines)
      BY DEF McpInv, McpTypeOK
    <3> QED
      BY <3>1
  <2> QED
    BY <2>1 DEF McpInv
<1>2. /\ answers' \in McpAnswers
      /\ \A k \in DOMAIN answers : k \in DOMAIN answers' /\ answers'[k] = answers[k]
      /\ \A k \in DOMAIN new : a + k \in DOMAIN answers' /\ answers'[a + k] = new[k]
      /\ \A k \in DOMAIN answers' :
           k \in DOMAIN answers \/ (k > a /\ k - a \in DOMAIN new /\ answers'[k] = new[k - a])
  BY <1>1, Concatenation DEF McpAnswers
<1>3. a \in Nat /\ DOMAIN answers = 1..a /\ DOMAIN answers' \subseteq Nat
      /\ DOMAIN new \subseteq Nat
  <2>1. DOMAIN answers' = 1..Len(answers') /\ Len(answers') \in Nat
    BY <1>2, LenProperties DEF McpAnswers
  <2>2. DOMAIN new = 1..Len(new) /\ Len(new) \in Nat
    BY LenProperties DEF McpAnswers
  <2>3. a \in Nat /\ DOMAIN answers = 1..a
    BY <1>1, LenProperties DEF McpAnswers
  <2> QED
    BY <2>1, <2>2, <2>3
<1> HIDE DEF a
<1>4. ASSUME NEW k \in DOMAIN answers'
      PROVE  \/ k \in DOMAIN answers /\ answers'[k] = answers[k] /\ answers[k].line \in 1..taken
             \/ /\ k \notin DOMAIN answers /\ k - a \in DOMAIN new /\ answers'[k] = new[k - a]
  <2>1. CASE k \in DOMAIN answers
    BY <1>1, <1>2, <2>1 DEF AnsweredOnce
  <2>2. CASE k \notin DOMAIN answers
    BY <1>2, <2>2
  <2> QED
    BY <2>1, <2>2
<1>5. AnsweredOnce'
  <2>1. ASSUME NEW k \in DOMAIN answers' PROVE answers'[k].line \in 1..taken'
    <3>1. CASE k \in DOMAIN answers
      <4>1. answers'[k].line \in 1..taken
        BY <1>4, <3>1
      <4> QED
        BY <1>1, <4>1
    <3>2. CASE k \notin DOMAIN answers
      BY <1>4, <3>2
    <3> QED
      BY <3>1, <3>2
  <2>2. ASSUME NEW j \in DOMAIN answers', NEW k \in DOMAIN answers',
               answers'[j].line = answers'[k].line
        PROVE  j = k
    <3>1. CASE j \in DOMAIN answers /\ k \in DOMAIN answers
      BY <1>1, <1>2, <2>2, <3>1 DEF AnsweredOnce
    <3>2. CASE j \notin DOMAIN answers /\ k \notin DOMAIN answers
      <4>1. j - a = k - a
        BY <1>4, <2>2, <3>2
      <4> QED
        BY <1>3, <4>1
    <3>3. ASSUME NEW i \in DOMAIN answers', NEW i2 \in DOMAIN answers',
                 i \in DOMAIN answers, i2 \notin DOMAIN answers
          PROVE  answers'[i].line # answers'[i2].line
      <4>1. answers'[i] = answers[i] /\ ~Answered(answers'[i2].line)
        BY <1>4, <3>3
      <4> QED
        BY <3>3, <4>1 DEF Answered
    <3> QED
      BY <2>2, <3>1, <3>2, <3>3
  <2> QED
    BY <2>1, <2>2 DEF AnsweredOnce
<1>6. InTurn'
  <2>1. SUFFICES ASSUME NEW j \in DOMAIN answers', NEW k \in DOMAIN answers',
                        ~IsCall(lines[answers'[j].line]), ~IsCall(lines[answers'[k].line]),
                        answers'[j].line < answers'[k].line, j > k
                 PROVE  ~IsError(answers'[j].line) /\ IsError(answers'[k].line)
    BY DEF InTurn, IsError
  <2>2. CASE j \in DOMAIN answers
    <3>1. k \in DOMAIN answers
      BY <1>3, <2>1, <2>2
    <3>2. answers'[j] = answers[j] /\ answers'[k] = answers[k]
      BY <1>2, <2>2, <3>1
    <3> QED
      BY <1>1, <2>1, <2>2, <3>1, <3>2 DEF InTurn
  <2>3. CASE j \notin DOMAIN answers /\ k \in DOMAIN answers
    <3>1. answers'[k].line \in 1..taken
      BY <1>4, <2>3
    <3>2. answers'[j].line \in 1..taken' /\ answers'[j].line > taken
      BY <1>4, <2>1, <2>3
    <3> QED
      BY <1>1, <2>1, <3>1, <3>2
  <2>4. CASE j \notin DOMAIN answers /\ k \notin DOMAIN answers
    <3>1. j - a \in DOMAIN new /\ k - a \in DOMAIN new
          /\ answers'[j] = new[j - a] /\ answers'[k] = new[k - a]
      BY <1>4, <2>4
    <3>2. j - a > k - a
      BY <1>3, <2>1
    <3> QED
      BY <2>1, <3>1, <3>2
  <2> QED
    BY <2>2, <2>3, <2>4
<1>7. ASSUME NEW i
      PROVE  (\E k \in DOMAIN answers' : answers'[k].line = i)
                     <=> Answered(i) \/ \E k \in DOMAIN new : new[k].line = i
  <2>1. ASSUME NEW k \in DOMAIN answers', answers'[k].line = i
        PROVE  Answered(i) \/ \E l \in DOMAIN new : new[l].line = i
    BY <1>4, <2>1 DEF Answered
  <2>2. ASSUME Answered(i) PROVE \E k \in DOMAIN answers' : answers'[k].line = i
    BY <1>2, <2>2 DEF Answered
  <2>3. ASSUME NEW k \in DOMAIN new, new[k].line = i
        PROVE  \E l \in DOMAIN answers' : answers'[l].line = i
    BY <1>2, <2>3
  <2> QED
    BY <2>1, <2>2, <2>3
<1> QED
  BY <1>2, <1>5, <1>6, <1>7

\* Nothing that is taken goes beyond what the client has written.
LEMMA LinesTaken ==
  ASSUME McpInv
  PROVE  /\ lines \in Seq(Line) /\ Len(lines) \in Nat /\ taken \in Nat /\ taken <= Len(lines)
         /\ \A i \in 1..Len(lines) : lines[i] \in Line
         /\ running \subseteq 1..taken /\ bundles \subseteq 1..taken
<1>1. lines \in Seq(Line) /\ taken \in 0..Len(lines) /\ {running, bundles} \subseteq SUBSET (1..taken)
  BY DEF McpInv, McpTypeOK
<1>2. Len(lines) \in Nat
  BY <1>1, LenProperties
<1>3. \A i \in 1..Len(lines) : lines[i] \in Line
  BY <1>1, ElementOfSeq
<1>4. running \subseteq 1..taken /\ bundles \subseteq 1..taken
  BY <1>1
<1> QED
  BY <1>1, <1>2, <1>3, <1>4

LEMMA McpDataKeeps ==
  ASSUME McpInv, NEW n \in 1..Len(lines), McpData(n)
  PROVE  McpInv'
<1> DEFINE arrived == (taken + 1)..n
           E == {i \in arrived : lines[i].method \in DOMAIN ImmediateErrors}
           R == {i \in arrived : ImmediateResults(lines[i]) # {}}
<1>1. PICK w, new :
        /\ w = InOrder(E) \o InOrder(R) /\ new = [k \in DOMAIN w |-> Reply(w[k])]
        /\ mcpServer = "up" /\ n > taken /\ taken' = n
        /\ answers' = answers \o new
        /\ running' = running \cup {i \in arrived : IsCall(lines[i])}
        /\ mcpServer' = IF \E i \in arrived : lines[i].method = "null" THEN "crashed" ELSE "up"
        /\ UNCHANGED <<lines, bundles>>
  BY DEF McpData
<1>2. /\ lines \in Seq(Line) /\ Len(lines) \in Nat /\ taken \in Nat /\ taken <= Len(lines)
      /\ \A i \in 1..Len(lines) : lines[i] \in Line
      /\ running \subseteq 1..taken /\ bundles \subseteq 1..taken
  BY LinesTaken
<1>3. /\ n \in Nat /\ arrived \subseteq 1..n /\ 1..n \subseteq 1..Len(lines)
      /\ \A i \in 1..n : i \in 1..taken \/ i \in arrived
      /\ \A i \in arrived : i \notin 1..taken /\ i > taken
  BY <1>1, <1>2
<1>4. \A i \in arrived : lines[i] \in Line
  BY <1>2, <1>3
<1>5. E \in SUBSET (1..n) /\ R \in SUBSET (1..n) /\ E \subseteq arrived /\ R \subseteq arrived
  BY <1>3
<1>6. E \cap R = {}
  BY <1>4, LineCases
<1>7. \A i \in arrived : /\ i \in E <=> IsError(i)
                         /\ i \in R <=> IsResult(i)
  BY DEF IsError, IsResult
<1>8. \A i \in arrived :
        /\ i \in E \cup R \/ IsCall(lines[i]) \/ lines[i].method = "null"
        /\ i \in E \cup R => ~IsCall(lines[i]) /\ lines[i].method # "null"
        /\ IsCall(lines[i]) => lines[i].method # "null"
        /\ i \in R => i \notin E
  BY <1>4, <1>6, LineCases
<1> HIDE DEF E, R, arrived
<1>9. /\ w \in Seq(E \cup R)
      /\ \A x \in E \cup R : \E i \in DOMAIN w : w[i] = x
      /\ \A j, k \in DOMAIN w : k < j => w[k] < w[j] \/ (w[k] \in E /\ w[j] \in R)
      /\ \A j, k \in DOMAIN w : w[j] = w[k] => j = k
  <2>1. n \in Nat
    BY <1>3
  <2>2. w = InOrder(E) \o InOrder(R)
    BY <1>1
  <2>3. E \in SUBSET (1..n)
    BY <1>5
  <2>4. R \in SUBSET (1..n)
    BY <1>5
  <2>5. ListsBoth(InOrder(E) \o InOrder(R), E, R)
    BY <2>1, <2>3, <2>4, <1>6, TwoListings
  <2> QED
    BY <2>2, <2>5 DEF ListsBoth
<1>10. Len(w) \in Nat /\ DOMAIN w = 1..Len(w) /\ \A k \in DOMAIN w : w[k] \in E \cup R
  BY <1>9, LenProperties, ElementOfSeq
<1>11. \A k \in DOMAIN w : w[k] \in arrived /\ w[k] \in Nat
  <2>1. SUFFICES ASSUME NEW k \in DOMAIN w PROVE w[k] \in arrived /\ w[k] \in Nat
    OBVIOUS
  <2>2. w[k] \in arrived
    BY <1>5, <1>10
  <2>3. w[k] \in 1..n
    BY <1>3, <2>2
  <2> QED
    BY <1>3, <2>2, <2>3
<1>12. DOMAIN new = DOMAIN w
       /\ \A k \in DOMAIN w : new[k] \in [line : Nat, reply : Replies] /\ new[k].line = w[k]
  <2>1. ASSUME NEW k \in DOMAIN w
        PROVE  Reply(w[k]) \in [line : Nat, reply : Replies] /\ Reply(w[k]).line = w[k]
    BY <1>7, <1>10, <1>11, ReplyIsAnswer
  <2> QED
    BY <1>1, <2>1
<1>13. new \in McpAnswers
  <2>1. new \in [1..Len(w) -> [line : Nat, reply : Replies]]
    BY <1>1, <1>10, <1>12
  <2> QED
    BY <1>10, <2>1, FunctionIsSeq DEF McpAnswers
<1>14. \A i \in arrived : ~Answered(i)
  <2>1. \A k \in DOMAIN answers : answers[k].line \in 1..taken
    BY DEF McpInv, AnsweredOnce
  <2> QED
    BY <1>3, <2>1 DEF Answered
<1>15. /\ answers' \in McpAnswers /\ AnsweredOnce' /\ InTurn'
       /\ \A i : (\E k \in DOMAIN answers' : answers'[k].line = i)
                   <=> Answered(i) \/ \E k \in DOMAIN new : new[k].line = i
  <2>1. \A k \in DOMAIN new : new[k].line \in 1..taken' /\ ~Answered(new[k].line)
                                /\ new[k].line > taken
    BY <1>1, <1>3, <1>11, <1>12, <1>14
  <2>2. \A j, k \in DOMAIN new : new[j].line = new[k].line => j = k
    BY <1>9, <1>12
  <2>3. ASSUME NEW j \in DOMAIN new, NEW k \in DOMAIN new, new[j].line < new[k].line, j > k
        PROVE  ~IsError(new[j].line) /\ IsError(new[k].line)
    <3>1. j \in DOMAIN w /\ k \in DOMAIN w /\ j \in Nat /\ k \in Nat
          /\ new[j].line = w[j] /\ new[k].line = w[k]
      BY <1>10, <1>12
    <3>2. k < j /\ ~(w[k] < w[j])
      BY <1>11, <2>3, <3>1
    <3>3. w[k] \in E /\ w[j] \in R
      BY <1>9, <3>1, <3>2
    <3> QED
      BY <1>7, <1>8, <1>11, <3>1, <3>3
  <2>4. taken' \in Nat /\ taken <= taken' /\ lines' = lines
    BY <1>1, <1>2, <1>3
  <2>5. answers' = answers \o new
    BY <1>1
  <2>6. \A k \in DOMAIN new : new[k].line \in 1..taken' /\ ~Answered(new[k].line)
    BY <2>1
  <2>7. \A k \in DOMAIN new : IsCall(lines[new[k].line]) \/ new[k].line > taken
    BY <2>1
  <2>8. \A j, k \in DOMAIN new :
          ~IsCall(lines[new[j].line]) /\ ~IsCall(lines[new[k].line])
            /\ new[j].line < new[k].line /\ j > k
          => ~IsError(new[j].line) /\ IsError(new[k].line)
    BY <2>3
  <2> QED
    BY <1>13, <2>2, <2>4, <2>5, <2>6, <2>7, <2>8, AnswersAdded
<1>16. TakenOK'
  <2>1. SUFFICES ASSUME NEW i \in 1..n
                 PROVE  /\ lines[i].method = "null" => mcpServer' = "crashed"
                        /\ (\E k \in DOMAIN answers' : answers'[k].line = i)
                             <=> lines[i].method # "null" /\ i \notin running'
    BY <1>1 DEF TakenOK, Answered
  <2>2. (\E k \in DOMAIN answers' : answers'[k].line = i) <=> Answered(i) \/ i \in E \cup R
    <3>1. (\E k \in DOMAIN new : new[k].line = i) <=> i \in E \cup R
      BY <1>9, <1>10, <1>12
    <3> QED
      BY <1>15, <3>1
  <2>3. CASE i \in 1..taken
    <3>1. i \notin arrived /\ i \notin E \cup R
      BY <1>3, <1>5, <2>3
    <3>2. /\ lines[i].method = "null" => mcpServer = "crashed"
          /\ Answered(i) <=> lines[i].method # "null" /\ i \notin running
      BY <2>3 DEF McpInv, TakenOK
    <3>3. lines[i].method # "null"
      BY <1>1, <3>2
    <3> QED
      BY <1>1, <2>2, <3>1, <3>2, <3>3
  <2>4. CASE i \in arrived
    <3>1. ~Answered(i) /\ i \notin running
      BY <1>2, <1>3, <1>14, <2>4
    <3>2. i \in running' <=> IsCall(lines[i])
      BY <1>1, <2>4, <3>1
    <3>3. lines[i].method = "null" => mcpServer' = "crashed"
      BY <1>1, <2>4
    <3> QED
      BY <1>8, <2>2, <2>4, <3>1, <3>2, <3>3
  <2> QED
    BY <1>3, <2>3, <2>4
<1>17. RunningOK'
  <2>1. RunningOK
    BY DEF McpInv
  <2>2. mcpServer' # "closed"
    BY <1>1
  <2>3. ASSUME NEW i \in bundles PROVE i \notin running'
    <3>1. i \notin arrived /\ i \notin running
      BY <1>2, <1>3, <2>1 DEF RunningOK
    <3> QED
      BY <1>1, <3>1
  <2> QED
    BY <1>1, <2>1, <2>2, <2>3 DEF RunningOK
<1>18. McpTypeOK'
  <2>1. taken' \in 0..Len(lines)
    BY <1>1, <1>2, <1>3
  <2>2. running' \subseteq 1..n /\ bundles' \subseteq 1..n
    <3>1. 1..taken \subseteq 1..n
      BY <1>1, <1>2, <1>3
    <3> QED
      BY <1>1, <1>2, <1>3, <3>1
  <2>3. \A k \in DOMAIN answers' : answers'[k].line \in 1..taken'
    BY <1>15 DEF AnsweredOnce
  <2>4. mcpServer' \in {"up", "crashed"}
    BY <1>1
  <2> QED
    BY <1>1, <1>2, <2>1, <2>2, <2>3, <2>4 DEF McpTypeOK
<1> QED
  BY <1>15, <1>16, <1>17, <1>18 DEF McpInv

\* A tool ends with one of the codes, and makes a bundle only for an allowed root.
LEMMA ToolsAnswer ==
  ASSUME NEW l \in Line, NEW code \in ToolResults(l)
  PROVE  /\ code \in Replies
         /\ l.tool = "fuzit_create_bundle" /\ code = "ok" => l.root = "allowed"
<1>1. ASSUME NEW e \in RootErrors(l.root)
      PROVE  e \in {"TYPE_ERROR", "RANGE_ERROR", "INTERNAL_ERROR"}
  BY <1>1 DEF RootErrors
<1>2. RootErrors(l.root) = {} => l.root = "allowed"
  BY DEF RootErrors, Line
<1>3. ArgumentErrors(l) \subseteq Replies
  BY DEF ArgumentErrors, Replies
<1>4. WorkResults(l.tool) \subseteq Replies
  BY DEF WorkResults, Replies
<1>5. CASE l.tool = "fuzit_profiles"
  BY <1>4, <1>5 DEF ToolResults
<1>6. CASE l.tool # "fuzit_profiles" /\ RootErrors(l.root) # {}
  <2>1. code \in RootErrors(l.root)
    BY <1>6 DEF ToolResults
  <2> QED
    BY <1>1, <2>1 DEF Replies
<1>7. CASE l.tool # "fuzit_profiles" /\ RootErrors(l.root) = {}
  BY <1>2, <1>3, <1>4, <1>7 DEF ToolResults
<1> QED
  BY <1>5, <1>6, <1>7

LEMMA McpFinishKeeps ==
  ASSUME McpInv, NEW i \in running, McpFinish(i)
  PROVE  McpInv'
<1>1. PICK code \in ToolResults(lines[i]) :
        /\ mcpServer = "up" /\ running' = running \ {i}
        /\ answers' = Append(answers, [line |-> i, reply |-> code])
        /\ bundles' = IF lines[i].tool = "fuzit_create_bundle" /\ code = "ok"
                      THEN bundles \cup {i} ELSE bundles
        /\ UNCHANGED <<mcpServer, lines, taken>>
  BY DEF McpFinish
<1>2. /\ lines \in Seq(Line) /\ Len(lines) \in Nat /\ taken \in Nat /\ taken <= Len(lines)
      /\ \A k \in 1..Len(lines) : lines[k] \in Line
      /\ running \subseteq 1..taken /\ bundles \subseteq 1..taken
  BY LinesTaken
<1>3. i \in 1..taken /\ i \in Nat
  BY <1>2
<1>4. lines[i] \in Line
  BY <1>2, <1>3
<1>5. IsCall(lines[i]) /\ ~Answered(i)
  BY <1>3 DEF McpInv, RunningOK, TakenOK
<1>6. PICK new : new = <<[line |-> i, reply |-> code]>>
  OBVIOUS
<1>7. DOMAIN new = {1} /\ new[1] = [line |-> i, reply |-> code] /\ new[1].line = i
  BY <1>6
<1>8. [line |-> i, reply |-> code] \in [line : Nat, reply : Replies]
  BY <1>3, <1>4, ToolsAnswer
<1>9. new \in McpAnswers
  BY <1>6, <1>8 DEF McpAnswers
<1>10. answers' = answers \o new
  <2>1. answers \in Seq([line : Nat, reply : Replies])
    BY DEF McpInv, McpAnswers
  <2> QED
    BY <1>1, <1>6, <1>8, <2>1, AppendIsConcat
<1>11. /\ answers' \in McpAnswers /\ AnsweredOnce' /\ InTurn'
       /\ \A x : (\E k \in DOMAIN answers' : answers'[k].line = x)
                   <=> Answered(x) \/ \E k \in DOMAIN new : new[k].line = x
  <2>1. taken' \in Nat /\ taken <= taken' /\ lines' = lines
    BY <1>1, <1>2
  <2>2. \A k \in DOMAIN new : new[k].line \in 1..taken' /\ ~Answered(new[k].line)
    BY <1>1, <1>3, <1>5, <1>7
  <2>3. \A j, k \in DOMAIN new : new[j].line = new[k].line => j = k
    BY <1>7
  <2>4. \A j, k \in DOMAIN new :
          ~IsCall(lines[new[j].line]) /\ ~IsCall(lines[new[k].line])
            /\ new[j].line < new[k].line /\ j > k
          => ~IsError(new[j].line) /\ IsError(new[k].line)
    BY <1>5, <1>7
  <2>5. \A k \in DOMAIN new : IsCall(lines[new[k].line]) \/ new[k].line > taken
    BY <1>5, <1>7
  <2> QED
    BY <1>9, <1>10, <2>1, <2>2, <2>3, <2>4, <2>5, AnswersAdded
<1>12. TakenOK'
  <2>1. SUFFICES ASSUME NEW x \in 1..taken
                 PROVE  /\ lines[x].method = "null" => mcpServer' = "crashed"
                        /\ (\E k \in DOMAIN answers' : answers'[k].line = x)
                             <=> lines[x].method # "null" /\ x \notin running'
    BY <1>1 DEF TakenOK, Answered
  <2>2. /\ lines[x].method = "null" => mcpServer = "crashed"
        /\ Answered(x) <=> lines[x].method # "null" /\ x \notin running
    BY DEF McpInv, TakenOK
  <2>3. (\E k \in DOMAIN new : new[k].line = x) <=> x = i
    BY <1>7
  <2>4. lines[i].method # "null"
    BY <1>5 DEF IsCall
  <2> QED
    BY <1>1, <1>11, <2>2, <2>3, <2>4
<1>13. RunningOK'
  <2>1. RunningOK
    BY DEF McpInv
  <2>2. ASSUME NEW b \in bundles' PROVE lines[b].root = "allowed" /\ b \notin running'
    <3>1. CASE b \in bundles
      BY <1>1, <2>1, <3>1 DEF RunningOK
    <3>2. CASE b \notin bundles
      <4>1. b = i /\ lines[i].tool = "fuzit_create_bundle" /\ code = "ok"
        BY <1>1, <2>2, <3>2
      <4>2. lines[i].root = "allowed"
        BY <1>4, <4>1, ToolsAnswer
      <4> QED
        BY <1>1, <4>1, <4>2
    <3> QED
      BY <3>1, <3>2
  <2> QED
    BY <1>1, <2>1, <2>2 DEF RunningOK
<1>14. McpTypeOK'
  <2>1. \A k \in DOMAIN answers' : answers'[k].line \in 1..taken'
    BY <1>11 DEF AnsweredOnce
  <2>2. running' \subseteq 1..taken /\ bundles' \subseteq 1..taken
    BY <1>1, <1>2, <1>3
  <2>3. taken' \in 0..Len(lines)
    BY <1>1, <1>2
  <2> QED
    BY <1>1, <1>2, <2>1, <2>2, <2>3 DEF McpTypeOK
<1> QED
  BY <1>11, <1>12, <1>13, <1>14 DEF McpInv

LEMMA ClientWritesKeeps ==
  ASSUME McpInv, NEW l \in McpLines, ClientWrites(l)
  PROVE  McpInv'
<1>1. /\ mcpServer = "up" /\ lines' = Append(lines, l)
      /\ UNCHANGED <<mcpServer, taken, running, answers, bundles>>
  BY DEF ClientWrites
<1>2. /\ lines \in Seq(Line) /\ Len(lines) \in Nat /\ taken \in Nat /\ taken <= Len(lines)
      /\ \A i \in 1..Len(lines) : lines[i] \in Line
      /\ running \subseteq 1..taken /\ bundles \subseteq 1..taken
  BY LinesTaken
<1>3. l \in Line
  BY McpAssumption
<1>4. lines' \in Seq(Line) /\ Len(lines') = Len(lines) + 1
      /\ \A i \in 1..Len(lines) : lines'[i] = lines[i]
  BY <1>1, <1>2, <1>3, AppendProperties
<1>5. \A i \in 1..taken : lines'[i] = lines[i]
  BY <1>2, <1>4
<1>6. \A k \in DOMAIN answers : answers[k].line \in 1..taken
  BY DEF McpInv, AnsweredOnce
<1>7. McpTypeOK'
  <2>1. taken \in 0..Len(lines')
    BY <1>2, <1>4
  <2>2. McpTypeOK
    BY DEF McpInv
  <2> QED
    BY <1>1, <1>4, <2>1, <2>2 DEF McpTypeOK
<1>8. TakenOK'
  BY <1>1, <1>5 DEF McpInv, TakenOK, Answered
<1>9. AnsweredOnce'
  BY <1>1 DEF McpInv, AnsweredOnce
<1>10. RunningOK'
  <2>1. \A i \in running \cup bundles : lines'[i] = lines[i]
    BY <1>2, <1>5
  <2> QED
    BY <1>1, <2>1 DEF McpInv, RunningOK
<1>11. InTurn'
  <2>1. \A k \in DOMAIN answers : lines'[answers[k].line] = lines[answers[k].line]
    BY <1>5, <1>6
  <2> QED
    BY <1>1, <2>1 DEF McpInv, InTurn, IsError
<1>12. answers' \in McpAnswers
  BY <1>1 DEF McpInv
<1> QED
  BY <1>7, <1>8, <1>9, <1>10, <1>11, <1>12 DEF McpInv

LEMMA McpNextKeeps ==
  ASSUME McpInv, [McpNext]_mcpVars
  PROVE  McpInv'
<1>1. ASSUME NEW d \in 0..(MaxAllowedRoots + 1), NEW o \in 0..(MaxAllowedRoots + 1), McpStart(d, o)
      PROVE  McpInv'
  <2>1. mcpServer = "starting" /\ mcpServer' \in {"up", "refused"}
        /\ UNCHANGED <<lines, taken, running, answers, bundles>>
    BY <1>1 DEF McpStart
  <2>2. McpTypeOK'
    BY <2>1 DEF McpInv, McpTypeOK
  <2> QED
    BY <2>1, <2>2 DEF McpInv, TakenOK, AnsweredOnce, RunningOK, InTurn, Answered, IsError
<1>2. CASE McpClose
  <2>1. mcpServer = "up" /\ taken = Len(lines) /\ running = {} /\ mcpServer' = "closed"
        /\ UNCHANGED <<lines, taken, running, answers, bundles>>
    BY <1>2 DEF McpClose
  <2>2. McpTypeOK'
    BY <2>1 DEF McpInv, McpTypeOK
  <2> QED
    BY <2>1, <2>2 DEF McpInv, TakenOK, AnsweredOnce, RunningOK, InTurn, Answered, IsError
<1>3. CASE UNCHANGED mcpVars
  <2>1. UNCHANGED <<mcpServer, lines, taken, running, answers, bundles>>
    BY <1>3 DEF mcpVars
  <2>2. McpTypeOK'
    BY <2>1 DEF McpInv, McpTypeOK
  <2> QED
    BY <2>1, <2>2 DEF McpInv, TakenOK, AnsweredOnce, RunningOK, InTurn, Answered, IsError
<1> QED
  BY <1>1, <1>2, <1>3, McpDataKeeps, McpFinishKeeps, ClientWritesKeeps DEF McpNext

\* A line that has an answer has exactly one.
LEMMA InvGivesAccounted ==
  ASSUME McpInv
  PROVE  LinesAccountedFor
<1>1. \A i : Answered(i) <=> AnswersTo(i) # {}
  BY DEF Answered, AnswersTo
<1>2. ASSUME NEW i, Answered(i) PROVE Cardinality(AnswersTo(i)) = 1
  <2>1. PICK k \in DOMAIN answers : answers[k].line = i
    BY <1>2 DEF Answered
  <2>2. AnswersTo(i) = {k}
    BY <2>1 DEF McpInv, AnsweredOnce, AnswersTo
  <2> QED
    BY <2>2, FS_Singleton
<1>3. Cardinality({}) = 0
  BY FS_EmptySet
<1>4. ASSUME NEW i \in 1..taken
      PROVE  IF lines[i].method = "null" THEN mcpServer = "crashed" /\ AnswersTo(i) = {}
             ELSE Cardinality(AnswersTo(i)) = IF i \in running THEN 0 ELSE 1
  <2>1. /\ lines[i].method = "null" => mcpServer = "crashed"
        /\ Answered(i) <=> lines[i].method # "null" /\ i \notin running
    BY DEF McpInv, TakenOK
  <2> QED
    BY <1>1, <1>2, <1>3, <2>1
<1>5. mcpServer = "closed" => \A i \in DOMAIN lines : AnswersTo(i) # {}
  <2>1. SUFFICES ASSUME mcpServer = "closed", NEW i \in DOMAIN lines PROVE Answered(i)
    BY <1>1
  <2>2. i \in 1..taken /\ running = {}
    <3>1. taken = Len(lines) /\ running = {}
      BY <2>1 DEF McpInv, RunningOK
    <3>2. DOMAIN lines = 1..Len(lines)
      BY LinesTaken, LenProperties
    <3> QED
      BY <3>1, <3>2
  <2> QED
    BY <2>1, <2>2 DEF McpInv, TakenOK
<1>6. \A j, k \in DOMAIN answers :
        (~IsCall(lines[answers[j].line]) /\ ~IsCall(lines[answers[k].line])
           /\ answers[j].line < answers[k].line /\ j > k)
        => /\ lines[answers[j].line].method \notin DOMAIN ImmediateErrors
           /\ lines[answers[k].line].method \in DOMAIN ImmediateErrors
  BY DEF McpInv, InTurn, IsError
<1>7. \A i \in bundles : lines[i].root = "allowed" /\ i \notin running
  BY DEF McpInv, RunningOK
<1> QED
  BY <1>4, <1>5, <1>6, <1>7 DEF LinesAccountedFor

-----------------------------------------------------------------------------
(* The theorems about the MCP server.                                       *)

\* What the services do to the state of the MCP server is its own steps.
LEMMA McpSteps == [ServicesNext]_servicesVars => [McpNext]_mcpVars
BY DEF ServicesNext, servicesVars

\* The invariant is inductive: data, the ends of calls, the client and the end
\* of the input keep it.
THEOREM McpInvariant == ServicesSpec => []McpInv
<1>1. ServicesInit => McpInv
  BY InitMcpInv DEF ServicesInit
<1>2. McpInv /\ [ServicesNext]_servicesVars => McpInv'
  BY McpSteps, McpNextKeeps
<1> QED
  BY <1>1, <1>2, PTL DEF ServicesSpec

\* Every line that was taken is in progress or has exactly one answer, in
\* turn where no work is needed, however the input is cut into events and in
\* whatever order the tools end, for any number of lines.
THEOREM McpLinesAccounted == ServicesSpec => []LinesAccountedFor
BY McpInvariant, InvGivesAccounted, PTL

-----------------------------------------------------------------------------
(* Type correctness of all the services.                                    *)

LEMMA CommandsSteps == [ServicesNext]_servicesVars => [CommandsNext]_commandVars
BY DEF ServicesNext, servicesVars

LEMMA TasksSteps == [ServicesNext]_servicesVars => [TasksNext]_taskVars
BY DEF ServicesNext, servicesVars

\* What an editor command returns is one of the replies.
LEMMA EditorReplies ==
  ASSUME NEW command, NEW trusted \in BOOLEAN, NEW hasRoot \in BOOLEAN,
         NEW hasArgument \in BOOLEAN, NEW engine \in {"ok", "failed"}
  PROVE  SnapshotReply(command, trusted, hasRoot, hasArgument, engine)
           \in {"untrusted", "noRoot", "noArgument", "ok", "failed"}
BY DEF SnapshotReply

LEMMA CommandsNextKeeps ==
  ASSUME CommandsTypeOK, [CommandsNext]_commandVars
  PROVE  CommandsTypeOK'
<1> USE DEF CommandsTypeOK
<1>1. ASSUME NEW command, NEW trusted \in BOOLEAN, NEW hasRoot \in BOOLEAN,
             NEW hasArgument \in BOOLEAN, EditorCommand(command, trusted, hasRoot, hasArgument)
      PROVE  CommandsTypeOK'
  <2>1. PICK missing \in BOOLEAN, json \in BOOLEAN, exitCode \in {0, 1} :
          reply' = SnapshotReply(command, trusted, hasRoot, hasArgument,
                                 EngineReplies(missing, exitCode, json, command))
    BY <1>1 DEF EditorCommand
  <2>2. EngineReplies(missing, exitCode, json, command) \in {"ok", "failed"}
    BY DEF EngineReplies
  <2>3. reply' \in {"untrusted", "noRoot", "noArgument", "ok", "failed"}
    BY <2>1, <2>2, EditorReplies
  <2>4. watchers' = watchers
    BY <1>1 DEF EditorCommand
  <2> QED
    BY <2>3, <2>4
<1>2. ASSUME NEW trusted \in BOOLEAN, NEW hasRoot \in BOOLEAN, DoctorCommand(trusted, hasRoot)
      PROVE  CommandsTypeOK'
  <2>1. PICK result \in {"ok", "failed"} :
          reply' = SnapshotReply("doctor", trusted, hasRoot, TRUE, result)
    BY <1>2 DEF DoctorCommand
  <2>2. reply' \in {"untrusted", "noRoot", "noArgument", "ok", "failed"}
    BY <2>1, EditorReplies
  <2>3. watchers' = watchers
    BY <1>2 DEF DoctorCommand
  <2> QED
    BY <2>2, <2>3
<1>3. ASSUME NEW r \in WatchRoots, NEW trusted \in BOOLEAN, NEW hasRoot \in BOOLEAN,
             StartWatch(r, trusted, hasRoot)
      PROVE  CommandsTypeOK'
  BY <1>3 DEF StartWatch
<1>4. ASSUME NEW r \in WatchRoots, StopWatch(r)
      PROVE  CommandsTypeOK'
  BY <1>4 DEF StopWatch
<1>5. CASE Deactivate
  BY <1>5 DEF Deactivate
<1>6. CASE UNCHANGED commandVars
  BY <1>6 DEF commandVars
<1> QED
  BY <1>1, <1>2, <1>3, <1>4, <1>5, <1>6 DEF CommandsNext

\* All five services keep the types of their state.
THEOREM ServicesTypeCorrect == ServicesSpec => []ServicesTypeOK
<1>1. ServicesInit => TasksInv /\ CommandsTypeOK
  BY InitTasksInv DEF ServicesInit, CommandsInit, CommandsTypeOK
<1>2. TasksInv /\ CommandsTypeOK /\ [ServicesNext]_servicesVars => TasksInv' /\ CommandsTypeOK'
  BY TasksSteps, CommandsSteps, TasksNextKeeps, CommandsNextKeeps
<1>3. PluginInv /\ McpInv /\ GitHubInv /\ TasksInv /\ CommandsTypeOK => ServicesTypeOK
  BY DEF PluginInv, McpInv, GitHubInv, TasksInv, ServicesTypeOK
<1> QED
  BY <1>1, <1>2, <1>3, PluginInvariant, McpInvariant, GitHubInvariant, PTL DEF ServicesSpec

=============================================================================
