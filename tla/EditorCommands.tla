---------------------------- MODULE EditorCommands ----------------------------
(***************************************************************************)
(* The commands of the editor extension (apps/vscode-extension/src:        *)
(* commands.ts, snapshot.ts, watch.ts).  Each looks at trust first, then   *)
(* at the root, then at its argument, and only then does its work.         *)
(***************************************************************************)
EXTENDS Naturals

CONSTANT WatchRoots  \* workspace roots

VARIABLES
  watchers,  \* the roots with a running watcher
  reply      \* what the last command returned

commandVars == <<watchers, reply>>

CommandsTypeOK ==
  /\ watchers \subseteq WatchRoots
  /\ reply \in {"none", "untrusted", "noRoot", "noArgument", "ok", "failed"}

CommandsInit == watchers = {} /\ reply = "none"

EngineCommands == {"init", "scan", "getContext", "snapshot create", "snapshot diff",
                   "graph neighbors", "cache status"}

\* executeEngineCommand and what a command makes of it: the CLI may be missing,
\* exit with an error, or print what is not JSON where JSON is expected.  No
\* command hands a signal on, so none can be cancelled.
EngineReplies(missing, exitCode, json, command) ==
  IF missing \/ exitCode # 0 \/ (command \notin {"init", "getContext"} /\ ~json)
  THEN "failed" ELSE "ok"

\* The commands with an argument of their own reject an empty one.
SnapshotReply(command, trusted, hasRoot, hasArgument, engine) ==
  CASE ~trusted -> "untrusted"
    [] trusted /\ ~hasRoot -> "noRoot"
    [] trusted /\ hasRoot /\ command \in {"snapshot diff", "graph neighbors", "getContext"}
         /\ ~hasArgument -> "noArgument"
    [] OTHER -> engine

EditorCommand(command, trusted, hasRoot, hasArgument) ==
  /\ \E missing, json \in BOOLEAN, exitCode \in {0, 1} :
       reply' = SnapshotReply(command, trusted, hasRoot, hasArgument,
                              EngineReplies(missing, exitCode, json, command))
  /\ UNCHANGED watchers

\* doctor runs in the extension host.
DoctorCommand(trusted, hasRoot) ==
  /\ \E result \in {"ok", "failed"} :
       reply' = SnapshotReply("doctor", trusted, hasRoot, TRUE, result)
  /\ UNCHANGED watchers

\* WatchRegistry, one watcher for each root.
StartWatch(r, trusted, hasRoot) ==
  /\ reply' = IF ~trusted THEN "untrusted" ELSE IF ~hasRoot THEN "noRoot"
              ELSE IF r \in watchers THEN "failed" ELSE "ok"
  /\ watchers' = IF trusted /\ hasRoot THEN watchers \cup {r} ELSE watchers

StopWatch(r) ==
  /\ reply' = IF r \in watchers THEN "ok" ELSE "failed"
  /\ watchers' = watchers \ {r}

\* deactivate runs the cleanups, among them stopAll.
Deactivate ==
  /\ watchers # {}
  /\ watchers' = {}
  /\ UNCHANGED reply

CommandsNext ==
  \/ \E trusted, hasRoot \in BOOLEAN :
       \/ DoctorCommand(trusted, hasRoot)
       \/ \E r \in WatchRoots : StartWatch(r, trusted, hasRoot)
       \/ \E command \in EngineCommands, hasArgument \in BOOLEAN :
            EditorCommand(command, trusted, hasRoot, hasArgument)
  \/ \E r \in WatchRoots : StopWatch(r)
  \/ Deactivate

=============================================================================
