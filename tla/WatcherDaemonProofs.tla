------------------------- MODULE WatcherDaemonProofs -------------------------
(***************************************************************************)
(* The index follows the tree: type correctness of WatcherDaemon, its      *)
(* account of what the daemon may miss, what a calm reconciliation         *)
(* promises and what the coalescer keeps of atomic saves, for any number   *)
(* of paths, changes and events.                                           *)
(***************************************************************************)
EXTENDS WatcherDaemon, WellFoundedInduction, TLAPS

-----------------------------------------------------------------------------
(* Operators.                                                               *)

\* A batch names paths, whatever the coalescer makes of its events.
LEMMA CoalescedPaths ==
  ASSUME NEW events
  PROVE  Coalesced(events) \in SUBSET Paths
BY DEF Coalesced

\* A queue touches what its events touch.
LEMMA TouchedPaths ==
  ASSUME NEW events \in Seq(Event)
  PROVE  AllTouched(events) \in SUBSET Paths
PROOF
<1>1. \A e \in Event : Touched(e) \subseteq Paths
  BY DEF Touched, Event
<1>2. \A n \in DOMAIN events : events[n] \in Event
  OBVIOUS
<1>. QED BY <1>1, <1>2 DEF AllTouched

\* An event that is queued adds what it touches, and takes nothing away.
LEMMA TouchedGrows ==
  ASSUME NEW events \in Seq(Event), NEW e \in Event
  PROVE  AllTouched(Append(events, e)) = AllTouched(events) \cup Touched(e)
PROOF
<1>1. /\ DOMAIN events = 1 .. Len(events)
      /\ DOMAIN Append(events, e) = 1 .. Len(events) + 1
      /\ Len(events) \in Nat
  OBVIOUS
<1>2. \A n \in 1 .. Len(events) : Append(events, e)[n] = events[n]
  OBVIOUS
<1>3. Append(events, e)[Len(events) + 1] = e
  OBVIOUS
<1>4. AllTouched(Append(events, e)) \subseteq AllTouched(events) \cup Touched(e)
  <2>. SUFFICES ASSUME NEW n \in 1 .. Len(events) + 1
                PROVE  Touched(Append(events, e)[n]) \subseteq AllTouched(events) \cup Touched(e)
    BY <1>1 DEF AllTouched
  <2>1. n \in 1 .. Len(events) \/ n = Len(events) + 1
    BY <1>1
  <2>. QED BY <1>1, <1>2, <1>3, <2>1 DEF AllTouched
<1>5. AllTouched(events) \subseteq AllTouched(Append(events, e))
  <2>. SUFFICES ASSUME NEW n \in 1 .. Len(events)
                PROVE  Touched(events[n]) \subseteq AllTouched(Append(events, e))
    BY <1>1 DEF AllTouched
  <2>1. n \in 1 .. Len(events) + 1 /\ Append(events, e)[n] = events[n]
    BY <1>1, <1>2
  <2>. QED BY <1>1, <2>1 DEF AllTouched
<1>6. Touched(e) \subseteq AllTouched(Append(events, e))
  <2>1. Len(events) + 1 \in 1 .. Len(events) + 1
    BY <1>1
  <2>. QED BY <1>1, <1>3, <2>1 DEF AllTouched
<1>. QED BY <1>4, <1>5, <1>6

\* An empty queue touches nothing.
LEMMA NothingTouched == AllTouched(<< >>) = {}
BY DEF AllTouched

\* None is neither a content nor what an unseen path has.
LEMMA NoneIsNothing ==
  /\ None \notin File /\ None # Unseen /\ Unseen \notin File
  /\ \A c \in File : c.meta # 0 /\ c.meta \in Versions /\ c.hash \in Versions
BY WatcherDaemonAssumption DEF File, Versions, Unseen

-----------------------------------------------------------------------------
(* Types.                                                                   *)

CallTyped == call \in Call

\* The tree, its events and the daemon's switch.
LEMMA TreeTyped ==
  ASSUME TypeOK, TreeStep \/ Start \/ StartRejected \/ FinishStop
  PROVE  TypeOK'
PROOF
<1>1. CASE Start \/ StartRejected \/ FinishStop
  BY <1>1 DEF TypeOK, Start, StartRejected, FinishStop, Statuses, treeVars
<1>2. ASSUME NEW e \in Event, NEW changed \in SUBSET Paths, Change, Emit(e, changed),
             fs' \in [Paths -> Content]
      PROVE  TypeOK'
  <2>1. clock' \in 1 .. MaxChanges + 1
    BY <1>2, WatcherDaemonAssumption DEF TypeOK, Change
  <2>2. pending' \in Seq(Event)
    BY <1>2 DEF TypeOK, Emit
  <2>3. missed' \subseteq Paths \X Reasons
    BY <1>2 DEF TypeOK, Emit, Miss, Reasons
  <2>. QED BY <1>2, <2>1, <2>2, <2>3, Zenon DEF TypeOK, Change
<1>3. ASSUME NEW p \in Paths, WriteFile(p)
      PROVE  TypeOK'
  <2>1. PICK meta \in {clock + 1} \cup
                 IF MetaMayRepeat /\ fs[p] # None THEN {fs[p].meta} ELSE {} :
          fs' = [fs EXCEPT ![p] = [hash |-> clock + 1, meta |-> meta]]
    BY <1>3 DEF WriteFile
  <2>2. clock + 1 \in Versions
    BY <1>3, WatcherDaemonAssumption DEF WriteFile, Change, TypeOK, Versions
  <2>3. fs[p] # None => fs[p].meta \in Versions
    BY DEF TypeOK, Content, File
  <2>4. meta \in Versions
    BY <2>1, <2>2, <2>3
  <2>5. [hash |-> clock + 1, meta |-> meta] \in Content
    BY <2>2, <2>4 DEF Content, File
  <2>6. fs' \in [Paths -> Content]
    BY <2>1, <2>5 DEF TypeOK
  <2>7. [kind |-> IF fs[p] = None THEN "add" ELSE "modify", path |-> p, renamedTo |-> p]
          \in Event
    BY DEF Event, Kinds
  <2>. QED BY <1>2, <1>3, <2>6, <2>7 DEF WriteFile
<1>4. ASSUME NEW p \in Paths, RemoveFile(p)
      PROVE  TypeOK'
  <2>1. fs' \in [Paths -> Content]
    BY <1>4 DEF RemoveFile, TypeOK, Content
  <2>2. [kind |-> "delete", path |-> p, renamedTo |-> p] \in Event
    BY DEF Event, Kinds
  <2>. QED BY <1>2, <1>4, <2>1, <2>2 DEF RemoveFile
<1>5. ASSUME NEW p \in Paths, NEW q \in Paths, RenameFile(p, q)
      PROVE  TypeOK'
  <2>1. fs' \in [Paths -> Content]
    BY <1>5 DEF RenameFile, TypeOK, Content
  <2>2. [kind |-> "rename", path |-> p, renamedTo |-> q] \in Event
    BY DEF Event, Kinds
  <2>. QED BY <1>2, <1>5, <2>1, <2>2 DEF RenameFile
<1>. QED BY <1>1, <1>3, <1>4, <1>5 DEF TreeStep

\* What a call was about are paths.
LEMMA InCallPaths ==
  ASSUME TypeOK
  PROVE  InCall \in SUBSET Paths
BY DEF TypeOK, Call, InCall

\* A call that is over is a call.
LEMMA NoCallTyped == NoCall \in Call
PROOF
<1>1. FALSE \in BOOLEAN
  BY Zenon
<1>. QED BY <1>1 DEF NoCall, Call, Content

\* A batch that is taken, fails or dies.
LEMMA QueueTyped ==
  ASSUME TypeOK, Flush \/ FlushOverflow \/ Stop \/ BatchFails \/ Crash
  PROVE  TypeOK'
PROOF
<1>1. CASE Flush
  <2>. DEFINE batch == Coalesced(pending)
              left == AllTouched(pending) \ batch
  <2>1. batch \in SUBSET Paths /\ left \in SUBSET Paths
    BY CoalescedPaths, TouchedPaths DEF TypeOK
  <2>2. /\ pending' = << >>
        /\ call' = IF batch = {} THEN NoCall
                   ELSE [NoCall EXCEPT !.at = "verify", !.todo = batch]
        /\ missed' = missed
              \cup ((left \cap EndAsSource(pending)) \X {"cancelled"})
              \cup ((left \ EndAsSource(pending)) \X {"renamed"})
        /\ UNCHANGED <<treeVars, running, status, records, crashes, calm>>
    BY <1>1 DEF Flush
  <2>. HIDE DEF batch, left
  <2>3. [NoCall EXCEPT !.at = "verify", !.todo = batch] \in Call
    <3>. HIDE DEF NoCall
    <3>. QED BY <2>1, NoCallTyped DEF Call
  <2>4. call' \in Call
    BY <2>2, <2>3, NoCallTyped
  <2>5. missed' \subseteq Paths \X Reasons
    BY <2>1, <2>2 DEF TypeOK, Reasons
  <2>6. pending' \in Seq(Event)
    BY <2>2
  <2>. QED BY <2>2, <2>4, <2>5, <2>6 DEF TypeOK, treeVars
<1>2. CASE FlushOverflow
  <2>1. call' = [NoCall EXCEPT !.at = "scan", !.todo = Paths, !.base = records]
    BY <1>2 DEF FlushOverflow
  <2>2. call' \in Call
    <3>. HIDE DEF NoCall
    <3>. QED BY <2>1, NoCallTyped DEF TypeOK, Call
  <2>3. pending' \in Seq(Event)
    BY <1>2 DEF FlushOverflow
  <2>4. calm' \in BOOLEAN
    BY <1>2, Zenon DEF FlushOverflow
  <2>. QED BY <1>2, <2>2, <2>3, <2>4 DEF FlushOverflow, TypeOK, Statuses, treeVars
<1>3. CASE Stop
  <2>1. [call EXCEPT !.aborted = TRUE] \in Call
    BY DEF TypeOK, Call
  <2>2. running' \in BOOLEAN
    BY <1>3, Zenon DEF Stop
  <2>. QED BY <1>3, <2>1, <2>2 DEF Stop, TypeOK, Statuses, treeVars
<1>4. CASE BatchFails
  <2>1. missed' \subseteq Paths \X Reasons
    BY <1>4, InCallPaths DEF BatchFails, Miss, TypeOK, Reasons
  <2>2. calm' \in BOOLEAN
    BY <1>4, Zenon DEF BatchFails
  <2>. QED BY <1>4, <2>1, <2>2, NoCallTyped DEF BatchFails, TypeOK, treeVars, daemonVars
<1>5. CASE Crash
  <2>1. AllTouched(pending) \cup InCall \in SUBSET Paths
    BY InCallPaths, TouchedPaths DEF TypeOK
  <2>2. missed' \subseteq Paths \X Reasons
    BY <1>5, <2>1 DEF Crash, Miss, TypeOK, Reasons
  <2>3. calm' \in BOOLEAN /\ running' \in BOOLEAN
    BY <1>5, Zenon DEF Crash
  <2>4. pending' \in Seq(Event) /\ crashes' \in 0 .. MaxCrashes
    BY <1>5, WatcherDaemonAssumption DEF Crash, TypeOK
  <2>. QED BY <1>5, <2>2, <2>3, <2>4, NoCallTyped DEF Crash, TypeOK, Statuses, treeVars
<1>. QED BY <1>1, <1>2, <1>3, <1>4, <1>5

Reconciling == {"scan", "process", "commit"}

\* What the fields of a call have to do with where it is.  Nothing but the
\* call writes the records, so that its base is not stale when it commits.
CallShape ==
  /\ call.at = "idle" => call = NoCall
  /\ call.at = "read" <=> call.reading # None
  /\ call.at = "read" => call.stats[call.reading] # 0
  /\ call.at = "process" => call.todo \subseteq Scanned
  /\ call.at \in {"merge", "commit"} => call.todo = {}
  /\ call.at \in {"merge"} \cup Reconciling => call.base = records

\* A reconciliation finds something for every path: nothing for one it has not
\* scanned, and what it has read or trusts for the others.
Filled(p) ==
  /\ call.at = "scan" /\ p \notin call.todo /\ call.stats[p] = 0 => call.found[p] # Unseen
  /\ call.at = "process" /\ p \notin call.todo => call.found[p] # Unseen
  /\ call.at = "commit" => call.found[p] # Unseen

\* A step of a call in progress.
LEMMA BatchTyped ==
  ASSUME TypeOK, CallShape, \A p \in Paths : Filled(p), BatchStep
  PROVE  TypeOK'
PROOF
<1>. DEFINE Small == /\ call' \in Call /\ missed' \subseteq Paths \X Reasons
                      /\ UNCHANGED <<treeVars, daemonVars, records, crashes, calm>>
<1>1. Small => TypeOK'
  BY DEF TypeOK, treeVars, daemonVars
<1>2. CASE \E p \in Paths : VerifyAbsent(p) \/ VerifyStat(p) \/ ScanPath(p)
  <2>1. ASSUME NEW p \in Paths, VerifyAbsent(p) PROVE Small
    BY <2>1 DEF VerifyAbsent, TypeOK, Call, Content, Seen
  <2>2. ASSUME NEW p \in Paths, VerifyStat(p) PROVE Small
    BY <2>2 DEF VerifyStat, TypeOK, Call, Content, File
  <2>3. ASSUME NEW p \in Paths, ScanPath(p) PROVE Small
    BY <2>3 DEF ScanPath, TypeOK, Call, Content, File, Seen
  <2>. QED BY <1>1, <1>2, <2>1, <2>2, <2>3
<1>3. ASSUME NEW p \in Paths, ProcessUnchanged(p)
      PROVE  Small
  <2>1. call' \in Call
    BY <1>3 DEF ProcessUnchanged, TypeOK, Call
  <2>2. missed' \subseteq Paths \X Reasons
    BY <1>3 DEF ProcessUnchanged, TypeOK, Seen, Miss, Reasons
  <2>. QED BY <1>3, <2>1, <2>2 DEF ProcessUnchanged
<1>4. ASSUME NEW p \in Paths, ProcessChanged(p)
      PROVE  Small
  <2>1. p \in Paths /\ fs[p] \in File /\ call \in Call
    BY <1>4 DEF ProcessChanged, TypeOK, Content
  <2>2. call.stats[p] \in Versions
    BY <1>4, <2>1 DEF ProcessChanged, CallShape, Scanned, Call
  <2>. QED BY <1>4, <2>1, <2>2 DEF ProcessChanged, TypeOK, Call, Content, File, Seen
<1>5. CASE VerifyRead
  <2>. DEFINE p == call.reading
  <2>1. call \in Call /\ p \in Paths /\ fs[p] \in File /\ call.stats[p] \in Versions
    BY <1>5 DEF VerifyRead, CallShape, TypeOK, Call, Content
  <2>. HIDE DEF p
  <2>2. call' = [call EXCEPT !.at = "verify", !.reading = None,
                             !.found[p] = [hash |-> fs[p].hash, meta |-> call.stats[p]]]
    BY <1>5 DEF VerifyRead, p
  <2>3. [hash |-> fs[p].hash, meta |-> call.stats[p]] \in File
    BY <2>1 DEF File
  <2>4. call' \in Call
    BY <2>1, <2>2, <2>3 DEF Call, Content
  <2>5. Small
    BY <1>5, <2>4 DEF VerifyRead, TypeOK, Seen
  <2>. QED BY <1>1, <2>5
<1>6. CASE VerifyReadFails
  <2>1. call.reading \in Paths
    BY <1>6 DEF VerifyReadFails, CallShape, TypeOK, Call
  <2>2. Small
    BY <1>6, <2>1 DEF VerifyReadFails, TypeOK, Call, Miss, Reasons
  <2>. QED BY <1>1, <2>2
<1>7. CASE ReadCommitted \/ ScanDone \/ ProcessDone
  <2>1. Small
    BY <1>7 DEF ReadCommitted, ScanDone, Scanned, ProcessDone, TypeOK, Call
  <2>. QED BY <1>1, <2>1
<1>8. CASE CommitBatch
  BY <1>8, NoCallTyped DEF CommitBatch, TypeOK, Call, treeVars, daemonVars
<1>9. CASE CommitReconciled
  <2>1. records' \in [Paths -> Content]
    BY <1>9 DEF CommitReconciled, Filled, TypeOK, Call
  <2>2. calm' \in BOOLEAN
    BY <1>9, Zenon DEF CommitReconciled
  <2>. QED BY <1>9, <2>1, <2>2, NoCallTyped DEF CommitReconciled, TypeOK, Statuses, treeVars
<1>. QED
  BY <1>1, <1>2, <1>3, <1>4, <1>5, <1>6, <1>7, <1>8, <1>9, QueueTyped DEF BatchStep

-----------------------------------------------------------------------------
(* The inductive invariant.                                                 *)

\* Somebody is still going to look at p.
Awaited(p) ==
  \/ p \in AllTouched(pending) \/ p \in call.todo \/ p = call.reading
  \/ call.at = "scan" /\ call.stats[p] # 0

\* IndexFollowsTree, temporary files included.
Accounted(p) == Awaited(p) \/ SameContent(Outcome(p), fs[p]) \/ Missed(p)

\* What the scan of a reconciliation has found of p.
StatOf(c)  == IF c = None THEN 0 ELSE c.meta
Statted(p) == call.at = "process" \/ (call.at = "scan" /\ p \notin call.todo)

\* Unless the daemon has been stopped, whatever changed since p was scanned is
\* in the queue.
StatFresh(p) ==
  call.at \in {"scan", "process"} /\ ~call.aborted =>
    /\ running
    /\ Statted(p) => p \in AllTouched(pending) \/ call.stats[p] = StatOf(fs[p])

\* While nothing changes, a reconciliation is right, but for misplaced trust.
CalmTrue(p) ==
  calm =>
    /\ call.at \in Reconciling
    /\ Statted(p) => call.stats[p] = StatOf(fs[p])
    /\ call.found[p] # Unseen => SameContent(call.found[p], fs[p]) \/ <<p, "trusted">> \in missed

Known(p) == Filled(p) /\ Accounted(p) /\ StatFresh(p) /\ CalmTrue(p)

DaemonInv == TypeOK /\ CallShape /\ \A p \in Paths : Known(p)

\* Awaited says what ToBeSeen collects.
LEMMA AwaitedMeans ==
  ASSUME NEW p \in Paths
  PROVE  p \in ToBeSeen <=> Awaited(p)
BY WatcherDaemonAssumption DEF ToBeSeen, Awaited, Scanned

\* A call that is over awaits nothing and has found nothing.
LEMMA NoCallMeans ==
  /\ NoCall.at = "idle" /\ NoCall.todo = {} /\ NoCall.reading = None /\ ~NoCall.aborted
  /\ \A p \in Paths : NoCall.found[p] = Unseen /\ NoCall.stats[p] = 0
PROOF
<1>1. ~NoCall.aborted
  BY Zenon DEF NoCall
<1>. QED BY <1>1 DEF NoCall

\* Initially the index holds part of the tree, and the rest is known to be
\* missed.
LEMMA InitDaemon == Init => DaemonInv
PROOF
<1>. SUFFICES ASSUME Init PROVE DaemonInv
  OBVIOUS
<1>. DEFINE Originals(ps) ==
       [p \in Paths |-> IF p \in ps THEN [hash |-> 1, meta |-> 1] ELSE None]
<1>1. PICK present \in SUBSET Paths, indexed \in SUBSET Paths :
        /\ indexed \subseteq present
        /\ fs = Originals(present) /\ records = Originals(indexed)
        /\ missed = (present \ indexed) \X {"offline"}
  BY DEF Init
<1>2. 1 \in Versions
  BY WatcherDaemonAssumption DEF Versions
<1>3. fs \in [Paths -> Content] /\ records \in [Paths -> Content]
  BY <1>1, <1>2 DEF Content, File
<1>4. TypeOK
  <2>1. running \in BOOLEAN /\ calm \in BOOLEAN
    BY Zenon DEF Init
  <2>2. missed \subseteq Paths \X Reasons
    BY <1>1 DEF Reasons
  <2>3. clock \in 1 .. MaxChanges + 1 /\ crashes \in 0 .. MaxCrashes
    BY WatcherDaemonAssumption DEF Init
  <2>4. pending \in Seq(Event) /\ status \in Statuses /\ call \in Call
    BY NoCallTyped DEF Init, Statuses
  <2>. QED BY <1>3, <2>1, <2>2, <2>3, <2>4 DEF TypeOK
<1>5. call = NoCall /\ call.at = "idle" /\ ~calm
  BY NoCallMeans DEF Init
<1>6. CallShape
  BY <1>5, NoCallMeans DEF CallShape, Reconciling
<1>7. ASSUME NEW p \in Paths
      PROVE  Accounted(p)
  <2>1. CASE p \in present \ indexed
    BY <1>1, <2>1 DEF Accounted, Missed, Reasons
  <2>2. CASE p \notin present \ indexed
    <3>1. fs[p] = records[p]
      BY <1>1, <2>2
    <3>. QED BY <1>5, <3>1, NoCallMeans DEF Accounted, Outcome, SameContent
  <2>. QED BY <2>1, <2>2
<1>8. ASSUME NEW p \in Paths
      PROVE  Filled(p) /\ StatFresh(p) /\ CalmTrue(p)
  BY <1>5 DEF Filled, StatFresh, CalmTrue
<1>. QED BY <1>4, <1>6, <1>7, <1>8 DEF DaemonInv, Known

\* A change of the tree is queued, or known to be missed.
LEMMA TreeKnown ==
  ASSUME DaemonInv, NEW e \in Event, Change, Emit(e, Touched(e)),
         \A p \in Paths \ Touched(e) : fs'[p] = fs[p]
  PROVE  CallShape' /\ \A p \in Paths : Known(p)'
PROOF
<1>1. call' = call /\ records' = records /\ ~calm' /\ running' = running
  BY DEF Change
<1>2. IF running THEN AllTouched(pending') = AllTouched(pending) \cup Touched(e)
                        /\ missed' = missed
                 ELSE missed' = missed \cup (Touched(e) \X {"offline"}) /\ pending' = pending
  BY TouchedGrows DEF DaemonInv, TypeOK, Emit, Miss
<1>3. CallShape'
  BY <1>1 DEF DaemonInv, CallShape, Scanned
<1>4. ASSUME NEW p \in Paths
      PROVE  Known(p)'
  <2>1. Filled(p)' /\ CalmTrue(p)'
    BY <1>1 DEF DaemonInv, Known, Filled, CalmTrue
  <2>2. CASE p \in Touched(e)
    <3>1. StatFresh(p)'
      BY <1>1, <1>2, <2>2 DEF DaemonInv, Known, StatFresh
    <3>2. Accounted(p)'
      BY <1>2, <2>2 DEF Accounted, Awaited, Missed, Reasons
    <3>. QED BY <2>1, <3>1, <3>2 DEF Known
  <2>3. CASE p \notin Touched(e)
    <3>1. fs'[p] = fs[p]
      BY <2>3
    <3>2. (p \in AllTouched(pending') <=> p \in AllTouched(pending)) /\ missed \subseteq missed'
      BY <1>2, <2>3
    <3>3. StatFresh(p)'
      BY <1>1, <3>1, <3>2 DEF DaemonInv, Known, StatFresh, Statted
    <3>4. Accounted(p)'
      BY <1>1, <3>1, <3>2 DEF DaemonInv, Known, Accounted, Awaited, Missed, Outcome
    <3>. QED BY <2>1, <3>3, <3>4 DEF Known
  <2>. QED BY <2>2, <2>3
<1>. QED BY <1>3, <1>4

\* start and stop take nothing from the queue, and stop aborts what might
\* otherwise trust that it has seen every change.
LEMMA SwitchKnown ==
  ASSUME DaemonInv, Start \/ StartRejected \/ Stop \/ FinishStop
  PROVE  CallShape' /\ \A p \in Paths : Known(p)'
PROOF
<1>1. UNCHANGED <<fs, pending, records, missed, calm>>
  BY DEF Start, StartRejected, Stop, FinishStop, treeVars
<1>2. \/ UNCHANGED call /\ running' = running
      \/ UNCHANGED call /\ running' /\ ~running
      \/ UNCHANGED call /\ call.at \notin Reconciling
      \/ call' = [call EXCEPT !.aborted = TRUE]
  BY Zenon DEF Start, StartRejected, Stop, FinishStop, Reconciling
<1>3. /\ call'.at = call.at /\ call'.todo = call.todo /\ call'.reading = call.reading
      /\ call'.stats = call.stats /\ call'.base = call.base /\ call'.found = call.found
  BY <1>2 DEF DaemonInv, TypeOK, Call
<1>4. call'.at \in Reconciling /\ ~call'.aborted =>
        UNCHANGED call /\ (running' = running \/ (running' /\ ~running))
  <2>1. call' = [call EXCEPT !.aborted = TRUE] => call'.aborted = TRUE
    BY DEF DaemonInv, TypeOK, Call
  <2>. QED BY <1>2, <1>3, <2>1, Zenon
<1>5. CallShape'
  <2>1. call.at = "idle" => call' = call
    BY <1>2, NoCallMeans DEF Stop, Start, StartRejected, FinishStop
  <2>. QED BY <1>1, <1>3, <2>1 DEF DaemonInv, CallShape, Scanned
<1>6. ASSUME NEW p \in Paths
      PROVE  Known(p)'
  <2>1. Filled(p)' /\ Accounted(p)' /\ CalmTrue(p)'
    BY <1>1, <1>3
    DEF DaemonInv, Known, Filled, Accounted, Awaited, Outcome, Missed, CalmTrue, Statted
  <2>2. StatFresh(p)'
    BY <1>1, <1>3, <1>4 DEF DaemonInv, Known, StatFresh, Statted, Reconciling
  <2>. QED BY <2>1, <2>2 DEF Known
<1>. QED BY <1>5, <1>6

\* The paths of a batch are awaited, and those left out of it known to be missed.
LEMMA FlushKnown ==
  ASSUME DaemonInv, Flush
  PROVE  CallShape' /\ \A p \in Paths : Known(p)'
PROOF
<1>. DEFINE batch == Coalesced(pending)
            left == AllTouched(pending) \ batch
<1>1. /\ call.at = "idle"
      /\ call' = IF batch = {} THEN NoCall ELSE [NoCall EXCEPT !.at = "verify", !.todo = batch]
      /\ missed' = missed
              \cup ((left \cap EndAsSource(pending)) \X {"cancelled"})
              \cup ((left \ EndAsSource(pending)) \X {"renamed"})
      /\ pending' = << >> /\ UNCHANGED <<treeVars, running, status, records, crashes, calm>>
  BY DEF Flush
<1>2. left \subseteq Paths /\ AllTouched(pending) \subseteq batch \cup left /\ batch \subseteq Paths
  BY TouchedPaths, CoalescedPaths DEF DaemonInv, TypeOK
<1>3. AllTouched(pending') = {}
  BY <1>1, NothingTouched
<1>. HIDE DEF batch, left
<1>4. call = NoCall
  BY <1>1 DEF DaemonInv, CallShape
<1>5. /\ call'.at \in {"idle", "verify"} /\ call'.todo = batch /\ call'.reading = None
      /\ \A p \in Paths : call'.found[p] = Unseen
  <2>1. CASE batch = {}
    BY <1>1, <2>1, NoCallMeans
  <2>2. CASE batch # {}
    <3>. HIDE DEF NoCall
    <3>. QED BY <1>1, <2>2, NoCallMeans, NoCallTyped DEF Call
  <2>. QED BY <2>1, <2>2
<1>6. call'.at = "idle" => call' = NoCall
  <2>. HIDE DEF NoCall
  <2>. QED BY <1>1, NoCallTyped DEF Call
<1>7. CallShape'
  BY <1>5, <1>6 DEF CallShape, Reconciling
<1>8. ASSUME NEW p \in Paths
      PROVE  Known(p)'
  <2>1. Filled(p)' /\ StatFresh(p)'
    BY <1>5 DEF Filled, StatFresh
  <2>2. CalmTrue(p)'
    BY <1>1 DEF DaemonInv, Known, CalmTrue, Reconciling
  <2>3. CASE p \in batch
    BY <1>5, <2>1, <2>2, <2>3 DEF Known, Accounted, Awaited
  <2>4. CASE p \in left
    <3>1. Missed(p)'
      BY <1>1, <2>4 DEF Missed, Reasons
    <3>. QED BY <2>1, <2>2, <3>1 DEF Known, Accounted
  <2>5. CASE p \notin batch \cup left
    <3>1. p \notin AllTouched(pending) /\ fs' = fs /\ records' = records /\ missed \subseteq missed'
      BY <1>1, <1>2, <2>5 DEF treeVars
    <3>2. ~Awaited(p)
      BY <1>1, <1>4, <3>1, NoCallMeans, WatcherDaemonAssumption DEF Awaited
    <3>3. SameContent(records[p], fs[p]) \/ Missed(p)
      BY <1>4, <3>2, NoCallMeans DEF DaemonInv, Known, Accounted, Outcome
    <3>4. Accounted(p)'
      BY <1>5, <3>1, <3>3 DEF Accounted, Outcome, Missed
    <3>. QED BY <2>1, <2>2, <3>4 DEF Known
  <2>. QED BY <2>3, <2>4, <2>5
<1>. QED BY <1>7, <1>8

\* A reconciliation begins with every path to be scanned.
LEMMA OverflowKnown ==
  ASSUME DaemonInv, FlushOverflow
  PROVE  CallShape' /\ \A p \in Paths : Known(p)'
PROOF
<1>1. running /\ UNCHANGED <<fs, running, records, missed>>
  BY DEF FlushOverflow, treeVars
<1>2. /\ call'.at = "scan" /\ call'.todo = Paths /\ call'.base = records
      /\ call'.reading = None /\ call'.found = NoCall.found
  <2>1. call' = [NoCall EXCEPT !.at = "scan", !.todo = Paths, !.base = records]
    BY DEF FlushOverflow
  <2>. HIDE DEF NoCall
  <2>. QED BY <2>1, NoCallTyped, NoCallMeans DEF Call
<1>3. CallShape'
  BY <1>1, <1>2 DEF CallShape, Reconciling
<1>4. ASSUME NEW p \in Paths
      PROVE  Known(p)'
  <2>1. call'.found[p] = Unseen
    BY <1>2, NoCallMeans
  <2>. QED
    BY <1>1, <1>2, <2>1
    DEF Known, Filled, Accounted, Awaited, StatFresh, CalmTrue, Statted, Reconciling
<1>. QED BY <1>3, <1>4

\* A batch that fails, and a crash, lose what the call was about.
LEMMA LossKnown ==
  ASSUME DaemonInv, BatchFails \/ Crash
  PROVE  CallShape' /\ \A p \in Paths : Known(p)'
PROOF
<1>1. call' = NoCall /\ ~calm' /\ UNCHANGED <<fs, records>> /\ missed \subseteq missed'
  BY DEF BatchFails, Crash, Miss, treeVars
<1>2. CallShape'
  BY <1>1, NoCallMeans DEF CallShape, Reconciling
<1>3. ASSUME NEW p \in Paths
      PROVE  Known(p)'
  <2>1. Filled(p)' /\ StatFresh(p)' /\ CalmTrue(p)'
    BY <1>1, NoCallMeans DEF Filled, StatFresh, CalmTrue
  <2>2. CASE p \in InCall \/ (Crash /\ p \in AllTouched(pending))
    <3>1. Missed(p)'
      BY <2>2 DEF BatchFails, Crash, Miss, Missed, Reasons
    <3>. QED BY <2>1, <3>1 DEF Known, Accounted
  <2>3. CASE p \notin InCall /\ (Crash => p \notin AllTouched(pending))
    <3>1. /\ p \notin call.todo /\ p # call.reading
          /\ call.found[p] = Unseen /\ call.at \notin Reconciling
      <4>1. CASE call.at = "idle"
        BY <4>1, NoCallMeans, WatcherDaemonAssumption DEF DaemonInv, CallShape, Reconciling
      <4>2. CASE call.at # "idle"
        <5>1. call.at \in {"verify", "read", "merge"}
          BY <2>3, <4>2 DEF InCall, DaemonInv, TypeOK, Call
        <5>2. InCall = call.todo \cup {q \in Paths : call.found[q] # Unseen}
                         \cup ({call.reading} \ {None})
          BY <5>1 DEF InCall
        <5>. QED BY <2>3, <5>1, <5>2, WatcherDaemonAssumption DEF Reconciling
      <4>. QED BY <4>1, <4>2
    <3>2. Awaited(p) => p \in AllTouched(pending) /\ BatchFails
      BY <2>3, <3>1 DEF Awaited, Reconciling
    <3>3. BatchFails => pending' = pending
      BY DEF BatchFails, daemonVars
    <3>4. Outcome(p) = records[p] /\ Outcome(p)' = records'[p]
      BY <1>1, <3>1, NoCallMeans DEF Outcome
    <3>5. Accounted(p)'
      BY <1>1, <3>2, <3>3, <3>4 DEF DaemonInv, Known, Accounted, Awaited, Missed
    <3>. QED BY <2>1, <3>5 DEF Known
  <2>. QED BY <2>2, <2>3
<1>. QED BY <1>2, <1>3

\* A step of a call about one path p leaves what is known of the others.
Focused(p) ==
  /\ UNCHANGED <<fs, pending, running, records, calm>>
  /\ call'.base = call.base /\ call'.aborted = call.aborted
  /\ call'.at = call.at \/ {call.at, call'.at} \subseteq {"verify", "read"}
  /\ \A q \in Paths \ {p} :
       /\ call'.found[q] = call.found[q] /\ call'.stats[q] = call.stats[q]
       /\ q \in call'.todo <=> q \in call.todo
       /\ q = call'.reading <=> q = call.reading
       /\ Missed(q) => Missed(q)'
       /\ <<q, "trusted">> \in missed => <<q, "trusted">> \in missed'

\* Nothing changes for the other paths.
LEMMA FocusedKnown ==
  ASSUME DaemonInv, NEW p \in Paths, Focused(p), NEW q \in Paths \ {p}
  PROVE  Known(q)'
PROOF
<1>1. Known(q)
  BY DEF DaemonInv
<1>2. Filled(q)'
  BY <1>1 DEF Focused, Known, Filled
<1>3. Accounted(q)'
  BY <1>1 DEF Focused, Known, Accounted, Awaited, Outcome
<1>4. StatFresh(q)'
  BY <1>1 DEF Focused, Known, StatFresh, Statted
<1>5. CalmTrue(q)'
  BY <1>1 DEF Focused, Known, CalmTrue, Statted, Reconciling
<1>. QED BY <1>2, <1>3, <1>4, <1>5 DEF Known

\* Seeing a path, and missing one, say nothing of the others.
LEMMA HistoryOfOthers ==
  ASSUME NEW p \in Paths, NEW q \in Paths \ {p}, NEW reason,
         Seen({p}) \/ Miss({p}, reason) \/ missed' = missed
  PROVE  /\ Missed(q) => Missed(q)'
         /\ <<q, "trusted">> \in missed => <<q, "trusted">> \in missed'
BY DEF Seen, Miss, Missed

\* The call looks at one path of the batch.
LEMMA VerifyKnown ==
  ASSUME DaemonInv, NEW p \in Paths, VerifyAbsent(p) \/ VerifyStat(p)
  PROVE  CallShape' /\ \A q \in Paths : Known(q)'
PROOF
<1>. DEFINE Looks ==
       /\ call'.todo = call.todo \ {p} /\ call'.base = call.base /\ call'.aborted = call.aborted
       /\ \A q \in Paths \ {p} : call'.found[q] = call.found[q] /\ call'.stats[q] = call.stats[q]
<1>1. /\ Looks /\ call'.at \in {"verify", "read"}
      /\ VerifyAbsent(p) => call'.at = "verify" /\ call'.reading = call.reading
                              /\ call'.found[p] = None
      /\ call'.at = "verify" => call'.reading = call.reading
      /\ call'.at = "read" => VerifyStat(p)
      /\ VerifyStat(p) => call'.at = "read" /\ call'.reading = p /\ call'.stats[p] = fs[p].meta
  <2>1. ~(VerifyAbsent(p) /\ VerifyStat(p))
    BY DEF VerifyAbsent, VerifyStat
  <2>2. CASE VerifyAbsent(p)
    <3>1. Looks /\ call'.at = "verify" /\ call'.reading = call.reading /\ call'.found[p] = None
      BY <2>2 DEF DaemonInv, TypeOK, Call, VerifyAbsent
    <3>. QED BY <2>1, <2>2, <3>1
  <2>3. CASE VerifyStat(p)
    <3>1. Looks /\ call'.at = "read" /\ call'.reading = p /\ call'.stats[p] = fs[p].meta
      BY <2>3 DEF DaemonInv, TypeOK, Call, VerifyStat
    <3>. QED BY <2>1, <2>3, <3>1
  <2>. QED BY <2>2, <2>3
<1>2. call.at = "verify" /\ call.reading = None
  BY DEF VerifyAbsent, VerifyStat, DaemonInv, CallShape
<1>3. UNCHANGED <<fs, pending, running, records, calm>>
  BY DEF VerifyAbsent, VerifyStat, treeVars, daemonVars
<1>4. Focused(p)
  <2>1. ASSUME NEW q \in Paths \ {p}
        PROVE  /\ Missed(q) => Missed(q)'
               /\ <<q, "trusted">> \in missed => <<q, "trusted">> \in missed'
    BY HistoryOfOthers DEF VerifyAbsent, VerifyStat
  <2>. QED BY <1>1, <1>2, <1>3, <2>1, WatcherDaemonAssumption DEF Focused
<1>5. CallShape'
  <2>1. VerifyStat(p) => fs[p].meta # 0 /\ p # None
    BY NoneIsNothing, WatcherDaemonAssumption DEF VerifyStat, DaemonInv, TypeOK, Content
  <2>. QED BY <1>1, <1>2, <2>1 DEF CallShape, Reconciling
<1>6. Known(p)'
  <2>1. Accounted(p)'
    <3>1. CASE VerifyAbsent(p)
      BY <1>1, <3>1, NoneIsNothing DEF VerifyAbsent, Accounted, Outcome, SameContent, treeVars
    <3>2. CASE VerifyStat(p)
      BY <1>1, <3>2 DEF Accounted, Awaited
    <3>. QED BY <3>1, <3>2
  <2>2. ~calm
    BY <1>2 DEF DaemonInv, Known, CalmTrue, Reconciling
  <2>. QED BY <1>1, <1>3, <2>1, <2>2 DEF Known, Filled, StatFresh, CalmTrue
<1>. QED BY <1>4, <1>5, <1>6, FocusedKnown

\* The call reads the path, or finds that it cannot.
LEMMA ReadKnown ==
  ASSUME DaemonInv, VerifyRead \/ VerifyReadFails
  PROVE  CallShape' /\ \A q \in Paths : Known(q)'
PROOF
<1>1. call.at = "read" /\ \E p \in Paths : p = call.reading
  BY DEF DaemonInv, TypeOK, Call, CallShape, VerifyRead, VerifyReadFails
<1>p. PICK p \in Paths : p = call.reading
  BY <1>1
<1>. DEFINE read == [hash |-> fs[p].hash, meta |-> call.stats[p]]
<1>2. \/ VerifyRead /\ fs[p] # None /\ Seen({p})
         /\ call' = [call EXCEPT !.at = "verify", !.reading = None, !.found[p] = read]
      \/ VerifyReadFails /\ Miss({p}, "ignored")
         /\ call' = [call EXCEPT !.at = "verify", !.reading = None]
  BY <1>p DEF VerifyRead, VerifyReadFails
<1>3. UNCHANGED <<fs, pending, running, records, calm>>
  BY DEF VerifyRead, VerifyReadFails, treeVars, daemonVars
<1>. HIDE DEF read
<1>4. /\ call'.at = "verify" /\ call'.reading = None /\ call'.todo = call.todo
      /\ call'.base = call.base /\ call'.aborted = call.aborted
      /\ \A q \in Paths \ {p} : call'.found[q] = call.found[q] /\ call'.stats[q] = call.stats[q]
      /\ Miss({p}, "ignored") \/ (fs[p] # None /\ call'.found[p] = read)
  <2>1. call \in Call
    BY DEF DaemonInv, TypeOK
  <2>2. CASE VerifyRead /\ fs[p] # None /\ Seen({p})
             /\ call' = [call EXCEPT !.at = "verify", !.reading = None, !.found[p] = read]
    BY <2>1, <2>2 DEF Call
  <2>3. CASE VerifyReadFails /\ Miss({p}, "ignored")
             /\ call' = [call EXCEPT !.at = "verify", !.reading = None]
    BY <2>1, <2>3 DEF Call
  <2>. QED BY <1>2, <2>2, <2>3
<1>5. Focused(p)
  <2>1. ASSUME NEW q \in Paths \ {p}
        PROVE  /\ Missed(q) => Missed(q)'
               /\ <<q, "trusted">> \in missed => <<q, "trusted">> \in missed'
    BY <1>1, <1>2, HistoryOfOthers
  <2>2. \A q \in Paths \ {p} : q # None /\ q # call.reading
    BY <1>p, WatcherDaemonAssumption
  <2>. QED BY <1>1, <1>3, <1>4, <2>1, <2>2 DEF Focused
<1>6. CallShape'
  BY <1>4 DEF CallShape, Reconciling
<1>7. Known(p)'
  <2>1. Accounted(p)'
    <3>1. CASE Miss({p}, "ignored")
      BY <3>1 DEF Miss, Accounted, Missed, Reasons
    <3>2. CASE fs[p] # None /\ call'.found[p] = read
      <4>1. read \in File /\ read.hash = fs[p].hash
        BY <1>1, <1>p, <3>2 DEF read, DaemonInv, TypeOK, CallShape, Call, Content, File
      <4>2. read # Unseen /\ read # None
        BY <4>1, NoneIsNothing
      <4>. QED BY <1>3, <3>2, <4>1, <4>2 DEF Accounted, Outcome, SameContent
    <3>. QED BY <1>4, <3>1, <3>2
  <2>2. ~calm
    BY <1>1 DEF DaemonInv, Known, CalmTrue, Reconciling
  <2>. QED BY <1>3, <1>4, <2>1, <2>2 DEF Known, Filled, StatFresh, CalmTrue
<1>. QED BY <1>5, <1>6, <1>7, FocusedKnown

\* What is committed is what was found, on top of what was there.
LEMMA CommitKnown ==
  ASSUME DaemonInv, ReadCommitted \/ CommitBatch
  PROVE  CallShape' /\ \A p \in Paths : Known(p)'
PROOF
<1>1. UNCHANGED <<fs, pending, running, missed, calm>>
  BY DEF ReadCommitted, CommitBatch, treeVars, daemonVars
<1>2. call.at \in {"verify", "merge"} /\ call.todo = {} /\ call.reading = None
  BY DEF DaemonInv, CallShape, ReadCommitted, CommitBatch
<1>3. /\ call'.at \in {"merge", "idle"} /\ call'.todo = {} /\ call'.reading = None
      /\ call'.at = "idle" => call' = NoCall
      /\ call'.at = "merge" => call'.base = records'
      /\ \A p \in Paths : Outcome(p)' = Outcome(p)
  <2>1. CASE ReadCommitted
    <3>1. call'.at = "merge" /\ call'.todo = call.todo /\ call'.reading = call.reading
          /\ call'.base = records /\ call'.found = call.found
      BY <2>1 DEF ReadCommitted, DaemonInv, TypeOK, Call
    <3>. QED BY <1>2, <2>1, <3>1 DEF ReadCommitted, Outcome
  <2>2. CASE CommitBatch
    <3>1. call' = NoCall /\ call.base = records
      BY <2>2 DEF CommitBatch, DaemonInv, CallShape
    <3>2. ASSUME NEW p \in Paths
          PROVE  Outcome(p)' = Outcome(p)
      BY <2>2, <3>1, NoCallMeans DEF CommitBatch, Outcome
    <3>. QED BY <3>1, <3>2, NoCallMeans
  <2>. QED BY <2>1, <2>2
<1>4. CallShape'
  BY <1>3 DEF CallShape, Reconciling
<1>5. ASSUME NEW p \in Paths
      PROVE  Known(p)'
  <2>1. ~calm
    BY <1>2 DEF DaemonInv, Known, CalmTrue, Reconciling
  <2>2. Filled(p)' /\ StatFresh(p)' /\ CalmTrue(p)'
    BY <1>1, <1>3, <2>1 DEF Filled, StatFresh, CalmTrue
  <2>3. Accounted(p)'
    BY <1>1, <1>2, <1>3, WatcherDaemonAssumption
    DEF DaemonInv, Known, Accounted, Awaited, Missed
  <2>. QED BY <2>2, <2>3 DEF Known
<1>. QED BY <1>4, <1>5

\* A path that is scanned is there, and will be processed, or is gone.
LEMMA ScanKnown ==
  ASSUME DaemonInv, NEW p \in Paths, ScanPath(p)
  PROVE  CallShape' /\ \A q \in Paths : Known(q)'
PROOF
<1>1. /\ call'.at = "scan" /\ call.at = "scan" /\ call'.todo = call.todo \ {p}
      /\ call'.base = call.base /\ call'.aborted = call.aborted
      /\ call'.reading = call.reading
      /\ \A q \in Paths \ {p} : call'.found[q] = call.found[q] /\ call'.stats[q] = call.stats[q]
      /\ call'.stats[p] = StatOf(fs[p])
      /\ call'.found[p] = IF fs[p] = None THEN None ELSE Unseen
  BY DEF DaemonInv, TypeOK, Call, ScanPath, StatOf
<1>2. UNCHANGED <<fs, pending, running, records, calm>>
  BY DEF ScanPath, treeVars, daemonVars
<1>3. Focused(p)
  <2>1. ASSUME NEW q \in Paths \ {p}
        PROVE  /\ Missed(q) => Missed(q)'
               /\ <<q, "trusted">> \in missed => <<q, "trusted">> \in missed'
    BY HistoryOfOthers DEF ScanPath
  <2>. QED BY <1>1, <1>2, <2>1 DEF Focused
<1>4. CallShape'
  BY <1>1, <1>2 DEF DaemonInv, CallShape
<1>5. fs[p] # None => StatOf(fs[p]) # 0
  BY NoneIsNothing DEF DaemonInv, TypeOK, Content, StatOf
<1>6. Known(p)'
  <2>1. Filled(p)' /\ Accounted(p)'
    BY <1>1, <1>2, <1>5, NoneIsNothing
    DEF Filled, Accounted, Awaited, Outcome, SameContent
  <2>2. StatFresh(p)' /\ CalmTrue(p)'
    BY <1>1, <1>2, NoneIsNothing
    DEF DaemonInv, Known, StatFresh, CalmTrue, Statted, SameContent, Reconciling
  <2>. QED BY <2>1, <2>2 DEF Known
<1>. QED BY <1>3, <1>4, <1>6, FocusedKnown

\* A path is processed: read, or trusted because its size and mtime are those
\* of its record; trusted without reason only if it has a new content.
LEMMA ProcessKnown ==
  ASSUME DaemonInv, NEW p \in Paths, ProcessUnchanged(p) \/ ProcessChanged(p)
  PROVE  CallShape' /\ \A q \in Paths : Known(q)'
PROOF
<1>1. /\ call'.at = "process" /\ call.at = "process" /\ p \in call.todo /\ ~call.aborted
      /\ call'.todo = call.todo \ {p} /\ call'.base = call.base /\ call'.aborted = call.aborted
      /\ call'.reading = call.reading /\ call'.stats = call.stats
      /\ \A q \in Paths \ {p} : call'.found[q] = call.found[q]
  <2>1. call.at = "process" /\ p \in call.todo /\ ~call.aborted /\ call \in Call
    BY DEF DaemonInv, TypeOK, ProcessUnchanged, ProcessChanged
  <2>2. PICK outcome : call' = [call EXCEPT !.todo = @ \ {p}, !.found[p] = outcome]
    BY DEF ProcessUnchanged, ProcessChanged
  <2>. QED BY <2>1, <2>2 DEF Call
<1>2. UNCHANGED <<fs, pending, running, records, calm>>
  BY DEF ProcessUnchanged, ProcessChanged, treeVars, daemonVars
<1>3. Focused(p)
  <2>1. ASSUME NEW q \in Paths \ {p}
        PROVE  /\ Missed(q) => Missed(q)'
               /\ <<q, "trusted">> \in missed => <<q, "trusted">> \in missed'
    BY HistoryOfOthers DEF ProcessUnchanged, ProcessChanged
  <2>. QED BY <1>1, <1>2, <2>1 DEF Focused
<1>4. CallShape'
  BY <1>1, <1>2 DEF DaemonInv, CallShape, Scanned, Reconciling
<1>5. call.stats[p] \in Versions /\ call.stats[p] # 0
  BY <1>1 DEF DaemonInv, CallShape, TypeOK, Call, Scanned
<1>6. p \in AllTouched(pending) \/ call.stats[p] = StatOf(fs[p])
  BY <1>1 DEF DaemonInv, Known, StatFresh, Statted
<1>7. calm => call.stats[p] = StatOf(fs[p])
  BY <1>1 DEF DaemonInv, Known, CalmTrue, Statted
<1>8. fs[p] \in File \cup {None} /\ call.base[p] \in File \cup {None}
  BY DEF DaemonInv, TypeOK, Call, Content
<1>9. /\ call'.found[p] \in File
      /\ \/ SameContent(call'.found[p], fs[p])
         \/ <<p, "trusted">> \in missed'
         \/ call.stats[p] # StatOf(fs[p])
  <2>1. CASE ProcessUnchanged(p)
    <3>1. call'.found[p] = call.base[p]
      BY <2>1 DEF ProcessUnchanged, DaemonInv, TypeOK, Call
    <3>2. call.base[p] # None /\ call.base[p].meta = call.stats[p]
      BY <2>1 DEF ProcessUnchanged, Unchanged
    <3>3. CASE TrustMisplaced(p)
      BY <1>8, <2>1, <3>1, <3>2, <3>3 DEF ProcessUnchanged, Miss
    <3>4. CASE ~TrustMisplaced(p)
      BY <1>5, <1>8, <3>1, <3>2, <3>4 DEF TrustMisplaced, SameContent, StatOf
    <3>. QED BY <3>3, <3>4
  <2>2. CASE ProcessChanged(p)
    <3>. DEFINE read == [hash |-> fs[p].hash, meta |-> call.stats[p]]
    <3>1. call'.found[p] = read /\ fs[p] # None
      BY <2>2 DEF ProcessChanged, DaemonInv, TypeOK, Call
    <3>2. read \in File /\ read.hash = fs[p].hash
      BY <1>5, <1>8, <3>1 DEF File
    <3>3. read # None
      BY <3>2, NoneIsNothing
    <3>. QED BY <3>1, <3>2, <3>3 DEF SameContent
  <2>. QED BY <2>1, <2>2
<1>10. call'.found[p] # Unseen
  BY <1>9, NoneIsNothing
<1>11. Known(p)'
  <2>1. Filled(p)'
    BY <1>1, <1>10 DEF Filled
  <2>2. Accounted(p)'
    BY <1>1, <1>2, <1>6, <1>9, <1>10
    DEF Accounted, Awaited, Outcome, Missed, Reasons
  <2>3. StatFresh(p)'
    BY <1>1, <1>2, <1>6 DEF DaemonInv, Known, StatFresh, Statted
  <2>4. CalmTrue(p)'
    BY <1>1, <1>2, <1>7, <1>9 DEF CalmTrue, Statted, Reconciling
  <2>. QED BY <2>1, <2>2, <2>3, <2>4 DEF Known
<1>. QED BY <1>3, <1>4, <1>11, FocusedKnown

\* The scan is complete; so is the processing; and the result is committed.
LEMMA ReconcileKnown ==
  ASSUME DaemonInv, ScanDone \/ ProcessDone \/ CommitReconciled
  PROVE  CallShape' /\ \A p \in Paths : Known(p)'
PROOF
<1>1. CASE ScanDone
  <2>1. /\ call.at = "scan" /\ call.todo = {} /\ call'.at = "process" /\ call'.todo = Scanned
        /\ call'.reading = call.reading /\ call'.stats = call.stats
        /\ call'.base = call.base /\ call'.found = call.found /\ call'.aborted = call.aborted
    BY <1>1 DEF ScanDone, DaemonInv, TypeOK, Call
  <2>2. UNCHANGED <<fs, pending, running, records, calm, missed>>
    BY <1>1 DEF ScanDone, treeVars, daemonVars
  <2>3. CallShape'
    BY <2>1, <2>2 DEF DaemonInv, CallShape, Scanned, Reconciling
  <2>4. ASSUME NEW p \in Paths
        PROVE  Known(p)'
    <3>1. p \in Scanned <=> call.stats[p] # 0
      BY DEF Scanned
    <3>2. Filled(p)' /\ Accounted(p)'
      BY <2>1, <2>2, <3>1
      DEF DaemonInv, Known, Filled, Accounted, Awaited, Outcome, Missed
    <3>3. StatFresh(p)' /\ CalmTrue(p)'
      BY <2>1, <2>2 DEF DaemonInv, Known, StatFresh, CalmTrue, Statted, Reconciling
    <3>. QED BY <3>2, <3>3 DEF Known
  <2>. QED BY <2>3, <2>4
<1>2. CASE ProcessDone
  <2>1. /\ call.at = "process" /\ call.todo = {} /\ call'.at = "commit" /\ call'.todo = {}
        /\ call'.reading = call.reading /\ call'.stats = call.stats
        /\ call'.base = call.base /\ call'.found = call.found /\ call'.aborted = call.aborted
    BY <1>2 DEF ProcessDone, DaemonInv, TypeOK, Call
  <2>2. UNCHANGED <<fs, pending, running, records, calm, missed>>
    BY <1>2 DEF ProcessDone, treeVars, daemonVars
  <2>3. CallShape'
    BY <2>1, <2>2 DEF DaemonInv, CallShape, Reconciling
  <2>4. ASSUME NEW p \in Paths
        PROVE  Known(p)'
    <3>1. Filled(p)' /\ Accounted(p)'
      BY <2>1, <2>2
      DEF DaemonInv, Known, Filled, Accounted, Awaited, Outcome, Missed
    <3>2. StatFresh(p)' /\ CalmTrue(p)'
      BY <2>1, <2>2 DEF DaemonInv, Known, StatFresh, CalmTrue, Statted, Reconciling
    <3>. QED BY <3>1, <3>2 DEF Known
  <2>. QED BY <2>3, <2>4
<1>3. CASE CommitReconciled
  <2>1. /\ call.at = "commit" /\ records' = call.found /\ call' = NoCall /\ ~calm'
        /\ UNCHANGED <<fs, pending, running, missed>>
    BY <1>3 DEF CommitReconciled, treeVars
  <2>2. CallShape'
    BY <2>1, NoCallMeans DEF CallShape, Reconciling
  <2>3. ASSUME NEW p \in Paths
        PROVE  Known(p)'
    <3>1. call.found[p] # Unseen /\ call.todo = {} /\ call.reading = None
      BY <2>1 DEF DaemonInv, CallShape, Known, Filled
    <3>2. Accounted(p)'
      BY <2>1, <3>1, NoCallMeans, WatcherDaemonAssumption
      DEF DaemonInv, Known, Accounted, Awaited, Outcome, Missed
    <3>3. Filled(p)' /\ StatFresh(p)' /\ CalmTrue(p)'
      BY <2>1, NoCallMeans DEF Filled, StatFresh, CalmTrue
    <3>. QED BY <3>2, <3>3 DEF Known
  <2>. QED BY <2>2, <2>3
<1>. QED BY <1>1, <1>2, <1>3

-----------------------------------------------------------------------------
(* The theorems.                                                            *)

\* Every step keeps the invariant.
LEMMA StepDaemon == DaemonInv /\ [Next]_vars => DaemonInv'
PROOF
<1>. SUFFICES ASSUME DaemonInv, [Next]_vars PROVE DaemonInv'
  OBVIOUS
<1>1. CASE UNCHANGED vars
  BY <1>1 DEF vars, DaemonInv, TypeOK, CallShape, Scanned, Known, Filled, Accounted, Awaited,
     Outcome, Missed, StatFresh, Statted, CalmTrue
<1>2. CASE TreeStep
  <2>1. TypeOK'
    BY <1>2, TreeTyped DEF DaemonInv
  <2>2. ASSUME NEW p \in Paths, WriteFile(p)
        PROVE  CallShape' /\ \A q \in Paths : Known(q)'
    <3>. DEFINE e == [kind |-> IF fs[p] = None THEN "add" ELSE "modify",
                      path |-> p, renamedTo |-> p]
    <3>1. e \in Event /\ Touched(e) = {p}
      BY DEF Event, Kinds, Touched
    <3>2. PICK c : fs' = [fs EXCEPT ![p] = c]
      BY <2>2 DEF WriteFile
    <3>3. \A q \in Paths \ {p} : fs'[q] = fs[q]
      BY <3>2 DEF DaemonInv, TypeOK
    <3>4. Change /\ Emit(e, {p})
      BY <2>2 DEF WriteFile
    <3>. HIDE DEF e
    <3>5. PICK x \in Event : x = e
      BY <3>1
    <3>. QED BY <3>1, <3>3, <3>4, <3>5, TreeKnown
  <2>3. ASSUME NEW p \in Paths, RemoveFile(p)
        PROVE  CallShape' /\ \A q \in Paths : Known(q)'
    <3>. DEFINE e == [kind |-> "delete", path |-> p, renamedTo |-> p]
    <3>1. e \in Event /\ Touched(e) = {p}
      BY DEF Event, Kinds, Touched
    <3>2. Change /\ Emit(e, {p}) /\ \A q \in Paths \ {p} : fs'[q] = fs[q]
      BY <2>3 DEF RemoveFile, DaemonInv, TypeOK
    <3>. HIDE DEF e
    <3>. QED BY <3>1, <3>2, TreeKnown
  <2>4. ASSUME NEW p \in Paths, NEW q \in Paths, RenameFile(p, q)
        PROVE  CallShape' /\ \A r \in Paths : Known(r)'
    <3>. DEFINE e == [kind |-> "rename", path |-> p, renamedTo |-> q]
    <3>1. e \in Event /\ Touched(e) = {p, q}
      BY DEF Event, Kinds, Touched
    <3>2. Change /\ Emit(e, {p, q}) /\ \A r \in Paths \ {p, q} : fs'[r] = fs[r]
      BY <2>4 DEF RenameFile, DaemonInv, TypeOK
    <3>. HIDE DEF e
    <3>. QED BY <3>1, <3>2, TreeKnown
  <2>. QED BY <1>2, <2>1, <2>2, <2>3, <2>4 DEF TreeStep, DaemonInv
<1>3. CASE Start \/ StartRejected \/ Stop \/ FinishStop
  <2>1. TypeOK'
    BY <1>3, TreeTyped, QueueTyped DEF DaemonInv
  <2>. QED BY <1>3, <2>1, SwitchKnown DEF DaemonInv
<1>4. CASE Flush \/ FlushOverflow \/ BatchFails \/ Crash
  <2>1. TypeOK'
    BY <1>4, QueueTyped DEF DaemonInv
  <2>. QED BY <1>4, <2>1, FlushKnown, OverflowKnown, LossKnown DEF DaemonInv
<1>5. CASE BatchStep /\ ~BatchFails
  <2>1. TypeOK'
    BY <1>5, BatchTyped DEF DaemonInv, Known
  <2>2. CallShape' /\ \A p \in Paths : Known(p)'
    BY <1>5, VerifyKnown, ReadKnown, CommitKnown, ScanKnown, ProcessKnown, ReconcileKnown
    DEF BatchStep
  <2>. QED BY <2>1, <2>2 DEF DaemonInv
<1>. QED BY <1>1, <1>2, <1>3, <1>4, <1>5 DEF Next

\* The state of the daemon stays in its type, its queue and its call included.
THEOREM DaemonTypeCorrect == Spec => []TypeOK
PROOF
<1>1. DaemonInv => TypeOK
  BY DEF DaemonInv
<1>. QED BY <1>1, InitDaemon, StepDaemon, PTL DEF Spec

\* The index follows the tree (daemon.ts, verifier.ts, reconciler.ts): a path
\* nobody is going to look at again has the record of its content, unless its
\* last change was missed for one of the reasons the model names.
THEOREM DaemonFollowsTree == Spec => []IndexFollowsTree
PROOF
<1>1. DaemonInv => IndexFollowsTree
  BY AwaitedMeans DEF DaemonInv, Known, Accounted, IndexFollowsTree, Followed
<1>. QED BY <1>1, InitDaemon, StepDaemon, PTL DEF Spec

\* A reconciliation during which nothing changes ends with an index that
\* equals the tree (reconcileRepositoryState), but for misplaced trust.
THEOREM DaemonConverges == Spec => ReconciliationConverges
PROOF
<1>1. ASSUME DaemonInv, CommitReconciled, calm, NEW p \in Paths
      PROVE  SameContent(records'[p], fs[p]) \/ <<p, "trusted">> \in missed
  BY <1>1 DEF DaemonInv, Known, Filled, CalmTrue, CommitReconciled
<1>2. DaemonInv /\ [Next]_vars =>
        [CommitReconciled /\ calm =>
           \A p \in Paths :
             SameContent(records'[p], fs[p]) \/ <<p, "trusted">> \in missed]_vars
  BY <1>1
<1>. QED BY <1>2, InitDaemon, StepDaemon, PTL DEF Spec, ReconciliationConverges


-----------------------------------------------------------------------------
(* The coalescer, event by event.  FoldLeft is a function on the sets of    *)
(* indices, defined by recursion on the largest one; that there is such a   *)
(* function is by a least counterexample, as is what holds after each event.*)

\* A set of natural numbers that is not empty has a least one.
LEMMA LeastOf ==
  ASSUME NEW S \in SUBSET Nat, S # {}
  PROVE  \E n \in S : \A m \in S : n <= m
PROOF
<1>1. PICK n \in S : \A m \in S : ~(<<m, n>> \in OpToRel(<, Nat))
  BY WFMin, NatLessThanWellFounded
<1>2. ASSUME NEW m \in S PROVE n <= m
  <2>1. m \in Nat /\ n \in Nat
    OBVIOUS
  <2>2. ~(m < n)
    BY <2>1, <1>1 DEF OpToRel
  <2>. QED BY <2>1, <2>2
<1>. QED BY <1>2

\* Max takes the largest index.
LEMMA LargestIndex ==
  ASSUME NEW n \in Nat, NEW s \in SUBSET (1 .. n), s # {}
  PROVE  Max(s) \in s /\ \A x \in s : x <= Max(s)
PROOF
<1>. DEFINE Above == {b \in Nat : \A x \in s : x <= b}
<1>1. Above \in SUBSET Nat /\ n \in Above
  OBVIOUS
<1>2. PICK b \in Above : \A c \in Above : b <= c
  <2>. HIDE DEF Above
  <2>. QED BY <1>1, LeastOf
<1>3. b \in s
  <2>. SUFFICES ASSUME b \notin s PROVE FALSE
    OBVIOUS
  <2>1. PICK x \in s : TRUE
    OBVIOUS
  <2>2. x \in Nat /\ x <= b /\ x # b /\ x >= 1
    BY <2>1
  <2>3. b - 1 \in Nat
    BY <2>2
  <2>4. \A y \in s : y <= b - 1
    <3>. TAKE y \in s
    <3>1. y \in Nat /\ y <= b /\ y # b
      OBVIOUS
    <3>. QED BY <3>1
  <2>5. b - 1 \in Above
    BY <2>3, <2>4
  <2>6. b <= b - 1
    BY <1>2, <2>5
  <2>. QED BY <2>6
<1>4. \A y \in s : b >= y
  BY <1>2
<1>5. /\ Max(s) \in s /\ \A y \in s : Max(s) >= y
  BY <1>3, <1>4, Zenon DEF Max
<1>6. \A x \in s : x \in Nat
  OBVIOUS
<1>. QED BY <1>5, <1>6

NoBatch == [p \in Paths |-> None]

FoldOf(g, events, N) ==
  g = [s \in SUBSET (1 .. N) |->
         IF s = {} THEN NoBatch ELSE Coalesce(g[s \ {Max(s)}], events[Max(s)])]

LEMMA FoldExists ==
  ASSUME NEW events, NEW N \in Nat
  PROVE  \E g : FoldOf(g, events, N)
PROOF
<1>. DEFINE Small(n) == SUBSET (1 .. n)
            Body(g, s) == IF s = {} THEN NoBatch
                          ELSE Coalesce(g[s \ {Max(s)}], events[Max(s)])
            Bad == {n \in Nat : ~ \E g : g = [s \in Small(n) |-> Body(g, s)]}
<1>1. Bad = {}
  <2>. SUFFICES ASSUME Bad # {} PROVE FALSE
    OBVIOUS
  <2>1. PICK n \in Bad : \A m \in Bad : n <= m
    <3>1. Bad \in SUBSET Nat
      OBVIOUS
    <3>. HIDE DEF Bad
    <3>. QED BY <3>1, LeastOf
  <2>2. n \in Nat
    OBVIOUS
  <2>3. CASE n = 0
    <3>. DEFINE h == [s \in Small(0) |-> NoBatch]
    <3>1. \A s \in Small(0) : s = {}
      OBVIOUS
    <3>2. h = [s \in Small(0) |-> Body(h, s)]
      BY <3>1
    <3>. HIDE DEF h, Body, Small
    <3>3. \E g : g = [s \in Small(0) |-> Body(g, s)]
      BY <3>2
    <3>. QED BY <2>3, <3>3
  <2>4. CASE n # 0
    <3>1. n - 1 \in Nat /\ n - 1 \notin Bad
      <4>1. n - 1 \in Nat /\ ~(n <= n - 1)
        BY <2>2, <2>4
      <4>. HIDE DEF Bad
      <4>. QED BY <2>1, <4>1
    <3>2. PICK g : g = [s \in Small(n - 1) |-> Body(g, s)]
      BY <3>1
    <3>. DEFINE h == [s \in Small(n) |-> Body(g, s)]
    <3>3. ASSUME NEW s \in Small(n) PROVE Body(g, s) = Body(h, s)
      <4>1. CASE s = {}
        BY <4>1
      <4>2. CASE s # {}
        <5>. DEFINE t == s \ {Max(s)}
        <5>1. Max(s) \in s /\ \A x \in s : x <= Max(s)
          BY <2>2, <4>2, LargestIndex
        <5>2. ASSUME NEW x \in t PROVE x \in 1 .. (n - 1)
          <6>1. x \in 1 .. n /\ Max(s) \in 1 .. n /\ x <= Max(s) /\ x # Max(s)
            BY <5>1
          <6>. HIDE DEF t
          <6>. QED BY <2>2, <6>1
        <5>3. t \in Small(n - 1) /\ t \in Small(n)
          BY <5>2
        <5>4. g[t] = Body(g, t)
          <6>. HIDE DEF Body, Small, t
          <6>. QED BY <3>2, <5>3
        <5>5. h[t] = Body(g, t)
          <6>. HIDE DEF Body, Small, t
          <6>. QED BY <5>3
        <5>. HIDE DEF h
        <5>. QED BY <4>2, <5>4, <5>5
      <4>. QED BY <4>1, <4>2
    <3>4. h = [s \in Small(n) |-> Body(h, s)]
      <4>1. [s \in Small(n) |-> Body(g, s)] = [s \in Small(n) |-> Body(h, s)]
        <5>. HIDE DEF Body, Small, h
        <5>. QED BY <3>3
      <4>. QED BY <4>1
    <3>. HIDE DEF h, Body, Small
    <3>5. \E f : f = [s \in Small(n) |-> Body(f, s)]
      BY <3>4
    <3>. QED BY <3>5
  <2>. QED BY <2>3, <2>4
<1>2. PICK g : g = [s \in Small(N) |-> Body(g, s)]
  BY <1>1
<1>. QED BY <1>2 DEF FoldOf

\* The batch after each event, and what is left of it at the end.
RunOf(r, events) ==
  /\ r[0] = NoBatch
  /\ \A n \in 1 .. Len(events) : r[n] = Coalesce(r[n - 1], events[n])
  /\ Coalesced(events) = {p \in Paths : r[Len(events)][p] # None}

LEMMA RunExists ==
  ASSUME NEW events \in Seq(Event)
  PROVE  \E r : RunOf(r, events)
PROOF
<1>. DEFINE N == Len(events)
            it == CHOOSE g : FoldOf(g, events, N)
            Body(s) == IF s = {} THEN NoBatch
                       ELSE Coalesce(it[s \ {Max(s)}], events[Max(s)])
            r == [n \in 0 .. N |-> it[1 .. n]]
<1>1. N \in Nat /\ DOMAIN events = 1 .. N
  OBVIOUS
<1>2. FoldOf(it, events, N)
  BY <1>1, FoldExists, Zenon
<1>3. FoldLeft(Coalesce, NoBatch, events) = it[1 .. N]
  BY <1>1 DEF FoldLeft, MapThenFoldSet, FoldOf
<1>4. it = [s \in SUBSET (1 .. N) |-> Body(s)]
  BY <1>2 DEF FoldOf
<1>5. \A s \in SUBSET (1 .. N) : it[s] = Body(s)
  <2>. HIDE DEF it, Body, N
  <2>. QED BY <1>4
<1>. HIDE DEF it, N
<1>6. r[0] = NoBatch
  <2>1. 1 .. 0 = {} /\ 0 \in 0 .. N
    BY <1>1
  <2>2. r[0] = it[{}]
    BY <2>1
  <2>. QED BY <1>5, <2>2
<1>7. ASSUME NEW n \in 1 .. N PROVE r[n] = Coalesce(r[n - 1], events[n])
  <2>1. /\ n \in Nat /\ n \in 0 .. N /\ n - 1 \in 0 .. N
        /\ 1 .. n \in SUBSET (1 .. N) /\ n \in 1 .. n
    BY <1>1
  <2>2. Max(1 .. n) = n
    <3>1. Max(1 .. n) \in 1 .. n /\ \A x \in 1 .. n : x <= Max(1 .. n)
      BY <2>1, LargestIndex
    <3>. QED BY <2>1, <3>1
  <2>3. (1 .. n) \ {n} = 1 .. (n - 1)
    BY <2>1
  <2>4. r[n] = it[1 .. n] /\ r[n - 1] = it[1 .. (n - 1)]
    BY <2>1
  <2>5. it[1 .. n] = Body(1 .. n)
    BY <1>5, <2>1
  <2>6. 1 .. n # {}
    BY <2>1
  <2>. HIDE DEF r
  <2>. QED BY <2>2, <2>3, <2>4, <2>5, <2>6
<1>8. Coalesced(events) = {p \in Paths : r[N][p] # None}
  <2>1. N \in 0 .. N
    BY <1>1
  <2>2. r[N] = it[1 .. N]
    BY <2>1
  <2>. QED BY <1>3, <2>2 DEF Coalesced, NoBatch
<1>. HIDE DEF r
<1>9. RunOf(r, events)
  BY <1>6, <1>7, <1>8 DEF RunOf, N
<1>. QED BY <1>9

\* The batch has an entry for every path, after each event.
LEMMA RunTyped ==
  ASSUME NEW events \in Seq(Event), NEW r, RunOf(r, events)
  PROVE  \A n \in 0 .. Len(events) : DOMAIN r[n] = Paths
PROOF
<1>. DEFINE Bad == {n \in 0 .. Len(events) : DOMAIN r[n] # Paths}
<1>1. Len(events) \in Nat /\ DOMAIN events = 1 .. Len(events)
  OBVIOUS
<1>2. SUFFICES ASSUME Bad # {} PROVE FALSE
  OBVIOUS
<1>3. PICK n \in Bad : \A m \in Bad : n <= m
  <2>1. Bad \in SUBSET Nat
    BY <1>1
  <2>. HIDE DEF Bad
  <2>. QED BY <1>2, <2>1, LeastOf
<1>4. n # 0
  BY DEF RunOf, NoBatch
<1>5. n \in 1 .. Len(events) /\ n - 1 \in 0 .. Len(events) /\ ~(n <= n - 1)
  BY <1>1, <1>4
<1>6. DOMAIN r[n - 1] = Paths
  <2>1. n - 1 \notin Bad
    <3>. HIDE DEF Bad
    <3>. QED BY <1>3, <1>5
  <2>. QED BY <1>5, <2>1
<1>7. r[n] = Coalesce(r[n - 1], events[n])
  BY <1>5 DEF RunOf
<1>8. DOMAIN r[n] = Paths
  BY <1>6, <1>7 DEF Coalesce
<1>. QED BY <1>8

\* An event changes the entry of no path it does not touch.
LEMMA CoalesceElsewhere ==
  ASSUME NEW batch, NEW e \in Event, NEW p \in Paths, DOMAIN batch = Paths, p \notin Touched(e)
  PROVE  Coalesce(batch, e)[p] = batch[p]
BY DEF Coalesce, Touched

\* The target of an atomic save is left in the batch: if the last event that
\* touches an ordinary path renames a temporary file to it, the path is kept.
LEMMA SavedIsKept ==
  ASSUME NEW events \in Seq(Event), NEW k \in DOMAIN events, NEW p \in Followed,
         events[k].kind = "rename", events[k].path \in Temp, events[k].renamedTo = p,
         \A m \in k + 1 .. Len(events) : p \notin Touched(events[m])
  PROVE  p \in Coalesced(events)
PROOF
<1>1. PICK r : RunOf(r, events)
  BY RunExists
<1>2. /\ Len(events) \in Nat /\ DOMAIN events = 1 .. Len(events)
      /\ k \in 1 .. Len(events) /\ p \in Paths /\ p \notin Temp
      /\ \A n \in 1 .. Len(events) : events[n] \in Event
  BY DEF Followed
<1>3. \A n \in 0 .. Len(events) : DOMAIN r[n] = Paths
  BY <1>1, RunTyped
<1>. DEFINE Bad == {n \in k .. Len(events) : r[n][p] # "modify"}
<1>4. Bad = {}
  <2>. SUFFICES ASSUME Bad # {} PROVE FALSE
    OBVIOUS
  <2>1. PICK n \in Bad : \A m \in Bad : n <= m
    <3>1. Bad \in SUBSET Nat
      BY <1>2
    <3>. HIDE DEF Bad
    <3>. QED BY <3>1, LeastOf
  <2>2. /\ n \in 1 .. Len(events) /\ n - 1 \in 0 .. Len(events)
        /\ n >= k /\ ~(n <= n - 1)
    BY <1>2
  <2>3. r[n] = Coalesce(r[n - 1], events[n]) /\ DOMAIN r[n - 1] = Paths
    BY <1>1, <1>3, <2>2 DEF RunOf
  <2>4. CASE n = k
    <3>1. r[n][p] = "modify"
      BY <1>2, <2>3, <2>4 DEF Coalesce
    <3>. QED BY <3>1
  <2>5. CASE n # k
    <3>1. n - 1 \in k .. Len(events) /\ n \in k + 1 .. Len(events)
      BY <1>2, <2>2, <2>5
    <3>2. r[n - 1][p] = "modify"
      <4>1. n - 1 \notin Bad
        <5>. HIDE DEF Bad
        <5>. QED BY <2>1, <2>2
      <4>. QED BY <3>1, <4>1
    <3>3. r[n][p] = r[n - 1][p]
      BY <1>2, <2>2, <2>3, <3>1, CoalesceElsewhere
    <3>. QED BY <3>2, <3>3
  <2>. QED BY <2>4, <2>5
<1>5. r[Len(events)][p] = "modify"
  <2>1. Len(events) \in k .. Len(events)
    BY <1>2
  <2>. QED BY <1>4, <2>1
<1>6. "modify" # None
  BY WatcherDaemonAssumption DEF Kinds
<1>. QED BY <1>1, <1>2, <1>5, <1>6 DEF RunOf

\* Only a rename moves a file: every other event touches one path.
Moves == {e \in Event : e.kind # "rename" => e.renamedTo = e.path}

LEMMA OnlyRenamesMove ==
  ASSUME pending \in Seq(Moves), TypeOK, [Next]_vars
  PROVE  pending' \in Seq(Moves)
PROOF
<1>1. ASSUME NEW e \in Moves, NEW changed, Emit(e, changed)
      PROVE  pending' \in Seq(Moves)
  BY <1>1 DEF Emit
<1>2. ASSUME NEW p \in Paths, WriteFile(p) PROVE pending' \in Seq(Moves)
  <2>1. [kind |-> IF fs[p] = None THEN "add" ELSE "modify", path |-> p, renamedTo |-> p]
          \in Moves
    BY DEF Moves, Event, Kinds
  <2>. QED BY <1>1, <1>2, <2>1 DEF WriteFile
<1>3. ASSUME NEW p \in Paths, RemoveFile(p) PROVE pending' \in Seq(Moves)
  <2>1. [kind |-> "delete", path |-> p, renamedTo |-> p] \in Moves
    BY DEF Moves, Event, Kinds
  <2>. QED BY <1>1, <1>3, <2>1 DEF RemoveFile
<1>4. ASSUME NEW p \in Paths, NEW q \in Paths, RenameFile(p, q) PROVE pending' \in Seq(Moves)
  <2>1. [kind |-> "rename", path |-> p, renamedTo |-> q] \in Moves
    BY DEF Moves, Event, Kinds
  <2>. QED BY <1>1, <1>4, <2>1 DEF RenameFile
<1>5. CASE Flush \/ FlushOverflow \/ Crash
  <2>1. pending' = << >>
    BY <1>5, Zenon DEF Flush, FlushOverflow, Crash
  <2>. QED BY <2>1
<1>6. CASE UNCHANGED pending
  BY <1>6
<1>7. Start \/ StartRejected \/ Stop \/ FinishStop \/ BatchStep \/ UNCHANGED vars
        => UNCHANGED pending
  BY DEF Start, StartRejected, Stop, FinishStop, BatchStep, vars, daemonVars,
         VerifyAbsent, VerifyStat, ScanPath, ProcessUnchanged, ProcessChanged,
         VerifyRead, VerifyReadFails, ReadCommitted, CommitBatch,
         ScanDone, ProcessDone, CommitReconciled, BatchFails
<1>. QED BY <1>2, <1>3, <1>4, <1>5, <1>6, <1>7 DEF Next, TreeStep

\* A path a flush leaves out as the target of a rename was not saved atomically.
LEMMA FlushFollowsSaves ==
  ASSUME pending \in Seq(Moves), TypeOK, Flush, NEW p \in Followed,
         <<p, "renamed">> \in missed' \ missed
  PROVE  \E n \in DOMAIN pending :
           pending[n].renamedTo = p /\ pending[n].path \notin Temp
PROOF
<1>1. p \in AllTouched(pending) /\ p \notin Coalesced(pending) /\ p \notin EndAsSource(pending)
  BY DEF Flush
<1>. DEFINE At == {n \in DOMAIN pending : p \in Touched(pending[n])}
<1>2. /\ pending \in Seq(Event) /\ Len(pending) \in Nat
      /\ DOMAIN pending = 1 .. Len(pending) /\ p \in Paths
      /\ \A n \in DOMAIN pending : pending[n] \in Moves
  BY DEF TypeOK, Followed
<1>3. At # {} /\ At \in SUBSET (1 .. Len(pending))
  BY <1>1, <1>2 DEF AllTouched
<1>4. PICK k \in At : \A n \in At : n <= k
  <2>. HIDE DEF At
  <2>. QED BY <1>2, <1>3, LargestIndex
<1>5. \A m \in k + 1 .. Len(pending) : p \notin Touched(pending[m])
  <2>. TAKE m \in k + 1 .. Len(pending)
  <2>1. k \in 1 .. Len(pending) /\ m \in 1 .. Len(pending) /\ ~(m <= k)
    BY <1>2, <1>3
  <2>2. m \notin At
    <3>. HIDE DEF At
    <3>. QED BY <1>4, <2>1
  <2>. QED BY <1>2, <2>1, <2>2
<1>6. pending[k].path # p
  BY <1>1, <1>2, <1>5 DEF EndAsSource
<1>7. pending[k].renamedTo = p /\ pending[k].kind = "rename"
  BY <1>2, <1>6 DEF Touched, Moves
<1>8. CASE pending[k].path \in Temp
  BY <1>1, <1>2, <1>5, <1>7, <1>8, SavedIsKept
<1>9. CASE pending[k].path \notin Temp
  BY <1>7, <1>9
<1>. QED BY <1>8, <1>9

\* The coalescer keeps the target of an atomic save: what a flush leaves out of
\* its batch as the target of a rename had an ordinary file renamed to it.
THEOREM DaemonFollowsSaves == Spec => AtomicSavesFollowed
PROOF
<1>1. Init => pending \in Seq(Moves)
  BY DEF Init
<1>2. DaemonInv => TypeOK
  BY DEF DaemonInv
<1>3. DaemonInv /\ pending \in Seq(Moves) /\ [Next]_vars => (pending \in Seq(Moves))'
  BY <1>2, OnlyRenamesMove
<1>4. DaemonInv /\ pending \in Seq(Moves) =>
        [Flush => \A p \in Followed :
           <<p, "renamed">> \in missed' \ missed =>
             \E n \in DOMAIN pending :
               pending[n].renamedTo = p /\ pending[n].path \notin Temp]_vars
  BY <1>2, FlushFollowsSaves
<1>. QED BY <1>1, <1>3, <1>4, InitDaemon, StepDaemon, PTL DEF Spec, AtomicSavesFollowed

=============================================================================
