-------------------------------- MODULE Commands --------------------------------
(***************************************************************************)
(* The command line (apps/cli/src/cli.ts and its commands but for pack,    *)
(* snapshot and GitHub): one invocation after another in a repository that *)
(* its user edits, each of which may be killed between two writes.         *)
(*                                                                         *)
(* A command looks, plans its writes and does them one by one; the other   *)
(* commands only answer.  Configuration and file contents are classes.     *)
(***************************************************************************)
EXTENDS Naturals, Sequences, FiniteSets, SequencesExt

CONSTANTS
  Machines,     \* where the program runs: sets of the facts below that hold
  Start,        \* the initial files: sets of the contents of FileNames
  WriteCommands,\* the command lines that write
  Targets,      \* the files an apply may name
  MaxEdits,     \* bound: how often the user edits
  MaxCommands   \* bound: how many commands that write follow each other

\* Facts about the machine and the repository, as the commands test them.
Facts == {"git", "access", "repository", "environment", "listable", "readable", "report",
          "evidence", "manifestInvalid", "manifestIncompatible", "plugin", "root"}

IgnoreEntries == {".fuzit/", ".fuzit-index/", ".fuzit/local/"}  \* INIT_IGNORE_ENTRIES
FileNames == {"config", "ignore", "graph", "context", "index", "state"} \cup Targets

VARIABLES
  machine,
  files,    \* name -> what is there, <<>> for nothing
  revision, \* how often the repository was edited
  job,      \* the command that runs: [command, writes, done, seen]
  result,   \* the exit code of the last command, or "running" or "killed"
  meddled,  \* whether the user edited while the command ran
  lost,     \* the user's contents that were overwritten, as [name, content, command]
  interrupted, \* the commands that were killed or failed at a write, by name
  issued    \* how many commands that write were started

commandVars == <<machine, files, revision, job, result, meddled, lost, interrupted,
                 issued>>

NoFile == <<>>
Torn == <<"torn">>
Origins == {"user", "fuzit", "torn"}
Users(kind) == <<"user", kind>>
Ours(what) == <<"fuzit", what>>

NoJob == [command |-> [name |-> "none"], writes |-> <<>>, done |-> 0, seen |-> 0]

\* Of a machine only these facts count.  The command lines are complete, an
\* apply names no file that is another's here, and a purge meets both halves of
\* the index.  At first nothing is torn, every content has an origin, the
\* .gitignore is a list of entries, and a state is Fuzit's and beside an index.
ASSUME CommandAssumption ==
  /\ Machines \subseteq SUBSET Facts
  /\ \A c \in WriteCommands :
       \/ c.name = "init" /\ {c.force, c.dry, c.mcp} \subseteq BOOLEAN
       \/ c.name \in {"graph", "context", "cacheInit", "watch"}
       \/ c.name = "apply" /\ c.blocks \in Seq(Targets)
       \/ c.name = "rebuild" /\ c.dry \in BOOLEAN
       \/ /\ c.name = "purge" /\ c.dry \in BOOLEAN
          /\ ~c.dry => c.order \in {<<"state", "index">>, <<"index", "state">>}
  /\ Targets \cap {"config", "ignore", "graph", "context", "index", "state"} = {}
  /\ \A f \in Start :
       /\ f = [name \in FileNames |-> f[name]]
       /\ \A name \in FileNames :
            f[name] # Torn /\ (f[name] = NoFile \/ Head(f[name]) \in Origins)
       /\ f["ignore"] = NoFile \/ f["ignore"] = <<f["ignore"][1], "ignore", f["ignore"][3]>>
       /\ f["state"] # NoFile => Head(f["state"]) = "fuzit" /\ f["index"] # NoFile

CommandsTypeOK ==
  /\ machine \subseteq Facts /\ DOMAIN files = FileNames
  /\ \A name \in FileNames : files[name] = NoFile \/ Head(files[name]) \in Origins
  /\ job.done \in 0..Len(job.writes) /\ meddled \in BOOLEAN
  /\ result \in {"none", "running", "killed", "success", "validation", "environment",
                 "internal"}

CommandsInit ==
  /\ machine \in Machines /\ files \in Start
  /\ revision = 0 /\ job = NoJob /\ result = "none"
  /\ meddled = FALSE /\ lost = {} /\ interrupted = {} /\ issued = 0

-----------------------------------------------------------------------------
(* Configuration.                                                           *)

Holds(fact) == fact \in machine

\* readRepositoryConfig strips a byte order mark, planInitialization does not.
Loadable(content) ==
  content \in {NoFile, Ours("config"), Users("valid"), Users("marked")}
Compatible(content) == content \in {Ours("config"), Users("valid")}

\* loadEffectiveConfig: the file, then the environment.
ConfigLoads == Loadable(files["config"]) /\ Holds("environment")

-----------------------------------------------------------------------------
(* The commands that only answer, each with the exit code it ends with.     *)

Check(holds, otherwise) == IF holds THEN "success" ELSE otherwise

ConfigExit == Check(ConfigLoads, "validation")

\* runDoctor: every other check can only warn.
DoctorExit ==
  Check(Holds("git") /\ Holds("access") /\ Holds("repository") /\ ConfigLoads, "environment")

\* scan loads the configuration without the environment, and nobody catches it.
ScanExit(works, otherwise) ==
  IF ~Holds("root") THEN "validation"
  ELSE IF ~Loadable(files["config"]) THEN "internal"
  ELSE Check(works, otherwise)

\* resolveRepositoryRoots.
RootsExit == ScanExit(Holds("repository") /\ Holds("listable"), "validation")

\* A directory that cannot be listed, or a file that is gone, ends a scan.
ScanSummaryExit == ScanExit(Holds("listable"), "internal")
ScanItemsExit == ScanExit(Holds("listable") /\ Holds("readable"), "internal")

\* Acquisition reports such a directory or file as an omission instead.
StatsExit == Check(ConfigLoads, "validation")
UiExit == Check(ConfigLoads, "internal")
ContextStdoutExit == Check(ConfigLoads, "validation")
GraphQueryExit == Check(ConfigLoads, "validation")

ExplainSelectionExit == Check(Holds("report"), "validation")
ExplainPathExit == Check(Holds("report") /\ Holds("evidence"), "validation")

\* Git reports nothing where it is not available; a range of lines is checked.
GitExit == "success"
BlameExit(range) == Check(range, "internal")

\* discoverPlugins skips manifests that do not parse; list asks about them.
PluginFound == Holds("plugin") \/ Holds("manifestIncompatible")
PluginListExit == Check(~Holds("manifestInvalid"), "validation")
PluginInspectExit == Check(PluginFound /\ ~Holds("manifestInvalid"), "validation")
PluginValidateExit ==
  Check(Holds("plugin") /\ ~Holds("manifestInvalid") /\ ~Holds("manifestIncompatible"),
        "validation")
PluginEnableExit == Check(Holds("plugin") /\ ~Holds("manifestIncompatible"), "validation")
PluginDisableExit == Check(PluginFound, "validation")
PluginDoctorExit == Check(~Holds("manifestIncompatible"), "environment")

\* cache status only looks; cache verify asks whether what is stored is current.
State(policy) == <<"fuzit", revision, policy>>
Verified == files["index"] # NoFile /\ files["state"] = State("cache")
VerifyExit == Check(ConfigLoads, "internal")

\* runCli itself, before and after its commands.
UsageExit == "validation"

Answers ==
  [config |-> ConfigExit, doctor |-> DoctorExit, roots |-> RootsExit,
   summary |-> ScanSummaryExit, items |-> ScanItemsExit, scanConflict |-> "validation",
   stats |-> StatsExit, ui |-> UiExit, context |-> ContextStdoutExit,
   graph |-> GraphQueryExit, explain |-> ExplainSelectionExit, why |-> ExplainPathExit,
   git |-> GitExit, blame |-> BlameExit(TRUE), blameRange |-> BlameExit(FALSE),
   pluginList |-> PluginListExit, pluginInspect |-> PluginInspectExit,
   pluginValidate |-> PluginValidateExit, pluginEnable |-> PluginEnableExit,
   pluginDisable |-> PluginDisableExit, pluginDoctor |-> PluginDoctorExit,
   cacheStatus |-> "success", cacheVerify |-> VerifyExit, usage |-> UsageExit,
   profile |-> "success", support |-> "success"]

\* An answer leaves nothing behind (bound: so none follows another).
Ask(question) ==
  /\ result # "running" /\ (job # NoJob \/ result = "none")
  /\ result' = Answers[question] /\ job' = NoJob
  /\ UNCHANGED <<machine, files, revision, meddled, lost, interrupted, issued>>

-----------------------------------------------------------------------------
(* The plans of the commands that write.                                    *)

Write(name, mode, content) == [name |-> name, mode |-> mode, content |-> content]

\* planInitialization; --mcp and --dry-run print the plan, and write nothing of
\* it.
MissingEntries ==
  IF files["ignore"] = NoFile THEN IgnoreEntries
  ELSE IgnoreEntries \ files["ignore"][3]

InitPlan(c) ==
  LET config == IF files["config"] = NoFile
                THEN <<Write("config", "wx", Ours("config"))>>
                ELSE IF Compatible(files["config"]) THEN <<>>
                ELSE <<Write("config", "w", Ours("config"))>>
      ignore == IF MissingEntries = {} THEN <<>>
                ELSE <<Write("ignore", IF files["ignore"] = NoFile THEN "wx" ELSE "append",
                             MissingEntries)>>
  IN  IF files["config"] # NoFile /\ ~Compatible(files["config"]) /\ ~c.force
      THEN [exit |-> "validation", writes |-> <<>>]
      ELSE [exit |-> "success", writes |-> IF c.dry \/ c.mcp THEN <<>> ELSE config \o ignore]

\* graph build and context --output create one file.
Snapshot == <<"fuzit", revision, Holds("listable") /\ Holds("readable")>>
CreatePlan(name) ==
  IF ConfigLoads THEN [exit |-> "success", writes |-> <<Write(name, "wx", Snapshot)>>]
  ELSE [exit |-> "validation", writes |-> <<>>]

\* parseAiCodeBlocks found blocks, each a file.
ApplyPlan(blocks) ==
  [exit |-> IF blocks = <<>> THEN "validation" ELSE "success",
   writes |-> [i \in DOMAIN blocks |-> Write(blocks[i], "w", Ours("block"))]]

\* cache init opens the index before it reads the repository; rebuild reads
\* first and compares with what is stored; watch takes any that is stored.
OpenIndex == Write("index", "open", Ours("index"))

CacheInitPlan ==
  IF ConfigLoads
  THEN [exit |-> "success", writes |-> <<OpenIndex, Write("state", "w", State("cache"))>>]
  ELSE [exit |-> "internal", writes |-> <<OpenIndex>>]

\* (mutant: a stored state is as good as a current one)
RebuildIfAbsent(dry) ==
  IF ~ConfigLoads THEN [exit |-> "internal", writes |-> <<>>]
  ELSE [exit |-> "success",
        writes |-> IF dry \/ files["state"] # NoFile THEN <<>>
                   ELSE <<OpenIndex, Write("state", "w", State("cache"))>>]

RebuildPlan(dry) ==
  IF ~ConfigLoads THEN [exit |-> "internal", writes |-> <<>>]
  ELSE [exit |-> "success",
        writes |-> IF dry \/ files["state"] = State("cache") THEN <<>>
                   ELSE <<OpenIndex, Write("state", "w", State("cache"))>>]

WatchPlan ==
  IF files["state"] # NoFile THEN [exit |-> "success", writes |-> <<OpenIndex>>]
  ELSE IF ConfigLoads
  THEN [exit |-> "success", writes |-> <<OpenIndex, Write("state", "w", State("watch"))>>]
  ELSE [exit |-> "internal", writes |-> <<OpenIndex>>]

\* rm meets the files of the directory in some order.
PurgePlan(c) ==
  [exit |-> "success",
   writes |-> IF c.dry THEN <<>> ELSE [i \in DOMAIN c.order |-> Write(c.order[i], "rm", NoFile)]]

Plan(c) ==
  CASE c.name = "init" -> InitPlan(c)
    [] c.name \in {"graph", "context"} -> CreatePlan(c.name)
    [] c.name = "apply" -> ApplyPlan(c.blocks)
    [] c.name = "cacheInit" -> CacheInitPlan
    [] c.name = "rebuild" -> RebuildPlan(c.dry)
    [] c.name = "watch" -> WatchPlan
    [] c.name = "purge" -> PurgePlan(c)

StartCommand(c) ==
  /\ result # "running" /\ issued < MaxCommands
  /\ issued' = issued + 1 /\ meddled' = FALSE
  /\ LET plan == Plan(c)
     IN  /\ job' = [command |-> c, writes |-> plan.writes, done |-> 0, seen |-> revision,
                    exit |-> plan.exit]
         /\ result' = IF plan.writes = <<>> THEN plan.exit ELSE "running"
  /\ UNCHANGED <<machine, files, revision, lost, interrupted>>

-----------------------------------------------------------------------------
(* The writes.                                                              *)

\* How a command reports a failure of a write.
FailureExit == IF job.command.name \in {"graph", "context"} THEN "validation" ELSE "internal"

After(w) ==
  CASE w.name = "ignore" ->
         IF w.mode = "wx" \/ files["ignore"] = NoFile THEN <<"fuzit", "ignore", w.content>>
         ELSE [files["ignore"] EXCEPT ![3] = @ \cup w.content]
    [] OTHER -> w.content

Overwritten(w) ==
  IF w.mode = "w" /\ files[w.name] # NoFile /\ Head(files[w.name]) = "user"
  THEN {[name |-> w.name, content |-> files[w.name], command |-> job.command.name]} ELSE {}

\* Exclusive creation fails where there is something; the last write ends the
\* command.
WriteNext ==
  /\ result = "running"
  /\ LET w == job.writes[job.done + 1]
     IN  IF w.mode = "wx" /\ files[w.name] # NoFile
         THEN result' = FailureExit /\ UNCHANGED <<files, job, lost>>
         ELSE /\ files' = [files EXCEPT ![w.name] = After(w)]
              /\ lost' = lost \cup Overwritten(w)
              /\ job' = [job EXCEPT !.done = @ + 1]
              /\ result' = IF job.done + 1 = Len(job.writes) THEN job.exit ELSE "running"
  /\ UNCHANGED <<machine, revision, meddled, interrupted, issued>>

\* The disk is full or the process is killed while it writes: the beginning is
\* there, but the index and its state are replaced as a whole, an append is
\* short enough, and a removal is not a write.
WriteFails(killed) ==
  /\ result = "running"
  /\ LET w == job.writes[job.done + 1]
     IN  IF w.name \in {"index", "state", "ignore"} \/ (w.mode = "wx" /\ files[w.name] # NoFile)
         THEN UNCHANGED <<files, lost>>
         ELSE /\ files' = [files EXCEPT ![w.name] = Torn]
              /\ lost' = lost \cup Overwritten(w)
  /\ result' = IF killed THEN "killed" ELSE FailureExit
  /\ interrupted' = interrupted \cup {job.command.name}
  /\ UNCHANGED <<machine, revision, job, meddled, issued>>

-----------------------------------------------------------------------------
(* The user.                                                                *)

Edit ==
  /\ revision < MaxEdits
  /\ revision' = revision + 1 /\ meddled' = TRUE
  /\ \/ UNCHANGED files
     \/ \E content \in {Users("valid"), Users("bad")} :
          files' = [files EXCEPT !["config"] = content]
     \/ files' = [files EXCEPT !["config"] = NoFile]
     \/ \E name \in {"graph", "context"} : files' = [files EXCEPT ![name] = NoFile]
  /\ UNCHANGED <<machine, job, result, lost, interrupted, issued>>

CommandsNext ==
  \/ \E question \in DOMAIN Answers : Ask(question)
  \/ \E c \in WriteCommands : StartCommand(c)
  \/ WriteNext \/ \E killed \in BOOLEAN : WriteFails(killed)
  \/ Edit

-----------------------------------------------------------------------------
(* Properties.                                                              *)

Succeeded(name) == result = "success" /\ job.command.name = name /\ ~meddled

\* What a command that ends successfully says is so, if nobody edited
\* meanwhile: after init the configuration loads in init's own eyes and every
\* entry is ignored; a graph or a context that was written is whole, of the
\* repository that was read, and says if something is missing in it; every
\* block was applied; the next verify finds a new or rebuilt index current,
\* but for an index that an interrupted purge left as a state alone.  A
\* user's content is overwritten only by apply and by a forced init, never an
\* existing output, and never a line of .gitignore; a configuration that init
\* calls compatible survives it unless the user repairs it just then.  A
\* machine the doctor calls ready lets the other commands work, and an enabled
\* plugin is one that it does not fail (init, graph, context, apply and cache
\* commands, doctor, plugin commands).
CommandsHonest ==
  /\ Succeeded("init") /\ ~job.command.dry /\ ~job.command.mcp =>
       Compatible(files["config"]) /\ IgnoreEntries \subseteq files["ignore"][3]
  /\ \A name \in {"graph", "context"} : Succeeded(name) =>
       files[name] = <<"fuzit", job.seen, Holds("listable") /\ Holds("readable")>>
  /\ Succeeded("apply") =>
       \A i \in DOMAIN job.command.blocks : files[job.command.blocks[i]] = Ours("block")
  /\ Succeeded("cacheInit") => Verified
  /\ Succeeded("rebuild") /\ ~job.command.dry => Verified \/ "purge" \in interrupted
  /\ \A l \in lost : l.command \in {"init", "apply"}
  /\ \A l \in lost : l.command = "init" =>
       l.name = "config" /\ (Compatible(l.content) => revision > 0)
  /\ \A name \in FileNames : files[name] = Torn => interrupted # {}
  /\ DoctorExit = "success" =>
       {ConfigExit, StatsExit, UiExit, ContextStdoutExit, GraphQueryExit} = {"success"}
  /\ PluginEnableExit = "success" => PluginDoctorExit = "success" /\ PluginDisableExit = "success"

=============================================================================
