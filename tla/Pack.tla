---------------------------------- MODULE Pack ----------------------------------
(***************************************************************************)
(* The pack command (apps/cli/src/commands/pack/register.ts), with the     *)
(* packs of a pull request and of a bare `fuzit`: acquire, filter,         *)
(* transform, compare with a baseline, render and write, one call after    *)
(* another while the repository changes.                                   *)
(*                                                                         *)
(* A path is a number, numbers in the order of the items.  The content of  *)
(* a file has a kind for each of its lines; the lines that stay when       *)
(* others are dropped keep their numbers.  The original content stands for *)
(* its sha256.  What is rendered is a set of lines, <<path, number, kind>>.*)
(***************************************************************************)
EXTENDS Naturals, Sequences, FiniteSets, FiniteSetsExt, Functions

CONSTANTS
  PackTrees,   \* what repositories look like: path -> lines
  ScopeOf,     \* path -> "code", "test" or "doc"
  PackCalls,   \* the command lines
  PullFiles,   \* the files of a pull request, as sequences of [path, removed]
  PullPage,    \* how many of them one answer holds
  MaxCalls     \* bound: how many packs follow each other

(* source: "local", "stdin", "repository", "pull", "unsupported" or, of a   *)
(* command of its own, "dual" and "prPack"; fits: the output fits the       *)
(* renderer; scope: what is left out; keeps: what the task and the patterns *)
(* admit; split: the size of a part, 0 for one file; output: whether to a   *)
(* file.                                                                    *)
Call == [source : STRING, fits : BOOLEAN, full : BOOLEAN, scope : SUBSET {"test", "doc"},
         keeps : SUBSET DOMAIN ScopeOf, changes : BOOLEAN,
         transforms : SUBSET {"compress", "comments", "empty"}, stats : BOOLEAN,
         dryRun : BOOLEAN, since : BOOLEAN, split : Nat, output : BOOLEAN]

\* The commands of their own, and the options of the pack command that they
\* have not.
OwnCommand(c) == c.source \in {"dual", "prPack"}
WithoutOptions(c) ==
  /\ c.fits /\ c.output /\ c.split = 0 /\ ~c.changes /\ ~c.stats /\ ~c.dryRun /\ ~c.since
  /\ c.source = "prPack" => c.transforms = {}

ASSUME PackAssumption ==
  /\ PackCalls \subseteq Call /\ PackCalls # {}
  /\ \A c \in PackCalls : OwnCommand(c) => WithoutOptions(c)
  /\ DOMAIN ScopeOf \subseteq Nat \ {0} /\ 1 \in DOMAIN ScopeOf
  /\ PackTrees # {}
  /\ \A t \in PackTrees : DOMAIN t \subseteq DOMAIN ScopeOf /\ \A p \in DOMAIN t : t[p] \in Seq(STRING)
  /\ \A files \in PullFiles : \A i \in DOMAIN files : files[i].path \in DOMAIN ScopeOf
  /\ PullPage \in Nat /\ MaxCalls \in Nat

VARIABLES
  repository, \* the files on disk
  baseline,   \* the snapshot that --since names, a tree; <<>> when unreadable
  calls,      \* how many packs were started
  phase,      \* where the call is: "idle" before and "ended" after it
  call,       \* its options
  source,     \* the tree it read
  edited,     \* whether the repository changed since it did
  got,        \* its items: path -> [original, lines]
  failed,     \* the files that could not be read, failedSources
  git,        \* the changed paths that git reported
  deleted,    \* what it calls deleted since the baseline
  analysed,   \* the tree that the analysis saw
  parts,      \* the files to be written, each a set of lines
  written,    \* how many of them are
  outputs,    \* the output files: name -> lines; 0 is the name given, n its part n
  earlier,    \* outputs when the call started
  exit        \* its exit code

packVars == <<repository, baseline, calls, phase, call, source, edited, got, failed, git, deleted,
              analysed, parts, written, outputs, earlier, exit>>

Without(lines, kind) == Restrict(lines, {i \in DOMAIN lines : lines[i] # kind})

\* The lines of the bundle, in the order of Earlier.
Header == <<0, 0, "header">>
Rendered(items) ==
  {Header} \cup UNION {{<<p, i, items[p].lines[i]>> : i \in DOMAIN items[p].lines} :
                         p \in DOMAIN items}
Earlier(l, m) == l[1] < m[1] \/ (l[1] = m[1] /\ l[2] < m[2])

\* What a write that fails leaves.
TornOutput == {<<0, 0, "torn">>}

PackTypeOK ==
  /\ phase \in {"idle", "acquire", "filter", "transform", "report", "since", "render", "split",
                "write", "ended"}
  /\ call \in Call /\ calls \in 0..MaxCalls
  /\ DOMAIN got \subseteq DOMAIN ScopeOf /\ failed \subseteq DOMAIN ScopeOf
  /\ parts \in Seq(SUBSET Rendered(got)) /\ written \in 0..Len(parts)
  /\ DOMAIN earlier \subseteq DOMAIN outputs
  /\ exit \in {"none", "success", "partial", "validation", "environment", "internal"}

PackInit ==
  /\ repository \in PackTrees /\ baseline \in PackTrees \cup {<<>>}
  /\ calls = 0 /\ phase = "idle" /\ call = (CHOOSE c \in PackCalls : TRUE)
  /\ source = <<>> /\ edited = FALSE /\ got = <<>> /\ failed = {} /\ git = {} /\ deleted = {}
  /\ analysed = <<>> /\ parts = <<>> /\ written = 0
  /\ outputs = <<>> /\ earlier = <<>>
  /\ exit = "none"

End(code) == phase' = "ended" /\ exit' = code

-----------------------------------------------------------------------------
(* Acquisition.                                                             *)

Item(lines) == [original |-> lines, lines |-> lines]
ItemsOf(tree, paths) == [p \in paths |-> Item(tree[p])]
OnDisk == call.source \in {"local", "dual"}

StartPack(c) ==
  /\ phase \in {"idle", "ended"} /\ calls < MaxCalls
  /\ calls' = calls + 1 /\ call' = c /\ earlier' = outputs
  /\ source' = <<>> /\ edited' = FALSE /\ got' = <<>> /\ failed' = {} /\ git' = {}
  /\ deleted' = {} /\ analysed' = <<>> /\ parts' = <<>> /\ written' = 0
  /\ IF ~c.fits \/ c.source = "unsupported" THEN End("validation")
     ELSE phase' = "acquire" /\ exit' = "none"
  /\ UNCHANGED <<repository, baseline, outputs>>

\* acquireRepository of the root or of a clone: it reads what it can.
AcquireTree ==
  /\ phase = "acquire" /\ call.source \in {"local", "dual", "repository"}
  /\ \E tree \in IF OnDisk THEN {repository} ELSE PackTrees : \E unreadable \in SUBSET DOMAIN tree :
       /\ source' = tree
       /\ got' = ItemsOf(tree, DOMAIN tree \ unreadable)
       /\ failed' = unreadable
  /\ phase' = "filter"
  /\ UNCHANGED <<repository, baseline, calls, call, edited, git, deleted, analysed, parts,
                 written, outputs, earlier, exit>>

\* acquirePrItems: one page of the changed files, without the removed ones;
\* --full adds the rest of the clone, if there is one.
Changed(files) == {files[i].path : i \in {j \in 1..PullPage \cap DOMAIN files : ~files[j].removed}}

AcquirePull ==
  /\ phase = "acquire" /\ call.source \in {"pull", "prPack"}
  /\ \E tree \in PackTrees, files \in PullFiles, cloned \in BOOLEAN :
       LET paths == Changed(files)
           rest == IF call.full /\ cloned THEN DOMAIN tree \ paths ELSE {}
       IN  /\ got' = [p \in paths \cup rest |-> Item(IF p \in paths THEN <<"diff">> ELSE tree[p])]
           /\ source' = [p \in paths \cup rest |-> got'[p].original]
  /\ phase' = "filter"
  /\ UNCHANGED <<repository, baseline, calls, call, edited, failed, git, deleted, analysed, parts,
                 written, outputs, earlier, exit>>

AcquireStdin ==
  /\ phase = "acquire" /\ call.source = "stdin"
  /\ \E lines \in {<<>>, <<"declaration">>} :
       got' = [p \in {1} |-> Item(lines)] /\ source' = [p \in {1} |-> lines]
  /\ phase' = "filter"
  /\ UNCHANGED <<repository, baseline, calls, call, edited, failed, git, deleted, analysed, parts,
                 written, outputs, earlier, exit>>

\* How a failure of the command is reported.
Failure == CASE call.source = "dual" -> "internal"
             [] call.source = "prPack" -> "validation"
             [] OTHER -> "environment"

\* The clone or a request fails.
AcquireFails ==
  /\ phase = "acquire" /\ call.source \in {"repository", "pull", "prPack"}
  /\ End(Failure)
  /\ UNCHANGED <<repository, baseline, calls, call, source, edited, got, failed, git, deleted,
                 analysed, parts, written, outputs, earlier>>

-----------------------------------------------------------------------------
(* Filters and transformations.                                             *)

Wanted(c) == {p \in c.keeps : ScopeOf[p] \notin c.scope}
Keep(paths) == [p \in DOMAIN got \cap paths |-> got[p]]

\* executeDualPack and executePrPack have no filters.  A --diff without a
\* change, or without git, filters nothing.
Filter ==
  /\ phase = "filter"
  /\ IF OwnCommand(call) THEN UNCHANGED <<got, git>>
     ELSE \E status \in IF call.changes /\ call.source = "local"
                        THEN SUBSET DOMAIN source ELSE {{}} :
            /\ git' = status
            /\ got' = Keep(Wanted(call) \cap (IF status = {} THEN DOMAIN source ELSE status))
  /\ phase' = "transform"
  /\ UNCHANGED <<repository, baseline, calls, call, source, edited, failed, deleted, analysed,
                 parts, written, outputs, earlier, exit>>

\* transformCodeContent: bodies first, then comments, of which an empty line
\* stays, then empty lines.  An empty file is passed over.
Transformed(lines, transforms) ==
  LET compressed == IF "compress" \in transforms THEN Without(lines, "body") ELSE lines
      bare == IF "comments" \in transforms
              THEN [i \in DOMAIN compressed |->
                      IF compressed[i] = "comment" THEN "empty" ELSE compressed[i]]
              ELSE compressed
  IN  IF "empty" \in transforms THEN Without(bare, "empty") ELSE bare

Transform ==
  /\ phase = "transform"
  /\ got' = [p \in DOMAIN got |->
               [got[p] EXCEPT !.lines = Transformed(@, call.transforms)]]
  /\ phase' = "report"
  /\ UNCHANGED <<repository, baseline, calls, call, source, edited, failed, git, deleted, analysed,
                 parts, written, outputs, earlier, exit>>

-----------------------------------------------------------------------------
(* Report, baseline and rendering.                                          *)

ExitOf(failures) == IF failures = {} THEN "success" ELSE "partial"

\* --stats with --dry-run ends here; else a local call reads the repository
\* again for the analysis, a bare `fuzit` analyses what it has.
Report ==
  /\ phase = "report"
  /\ IF call.stats /\ call.dryRun THEN End("success") /\ UNCHANGED analysed
     ELSE /\ analysed' = CASE call.source = "local" -> repository
                           [] call.source = "dual" -> source
                           [] OTHER -> <<>>
          /\ phase' = "since" /\ UNCHANGED exit
  /\ UNCHANGED <<repository, baseline, calls, call, source, edited, got, failed, git, deleted,
                 parts, written, outputs, earlier>>

\* A renamed file is not deleted: one new file has its content.
Moved(p) == Cardinality({q \in DOMAIN got \ DOMAIN baseline :
                           got[q].original = baseline[p]}) = 1

LineBytes(line) == IF line[3] = "body" THEN 3 ELSE 1
Bytes(lines) == MapThenSumSet(LineBytes, lines)

\* The last line of the bundle has no newline; that of a part has.
Split == call.split > 0 /\ Bytes(Rendered(got)) > call.split + 1

\* selectDeltaScope keeps what the baseline has not; readSnapshot throws.
Scope ==
  /\ phase = "since"
  /\ IF ~(call.since /\ call.source = "local")
     THEN phase' = "render" /\ UNCHANGED <<got, deleted, exit>>
     ELSE IF baseline = <<>> THEN End("internal") /\ UNCHANGED <<got, deleted>>
     ELSE /\ got' = Keep({p \in DOMAIN got : p \notin DOMAIN baseline
                                             \/ got[p].original # baseline[p]})
          /\ deleted' = {p \in DOMAIN baseline \ DOMAIN got : ~Moved(p)}
          /\ phase' = "render" /\ UNCHANGED exit
  /\ UNCHANGED <<repository, baseline, calls, call, source, edited, failed, git, analysed,
                 parts, written, outputs, earlier>>

-----------------------------------------------------------------------------
(* Output.                                                                  *)

\* The renderer, then the files to write; a dry run and the standard output
\* have none.  executeDualPack and executePrPack do not look at failures.
Render ==
  /\ phase = "render"
  /\ IF call.dryRun \/ ~call.output
     THEN End(ExitOf(failed)) /\ UNCHANGED parts
     ELSE /\ parts' = (IF Split THEN <<>>
                      ELSE IF call.source = "dual" THEN <<Rendered(got), Rendered(got)>>
                      ELSE <<Rendered(got)>>)
          /\ phase' = (IF Split THEN "split" ELSE "write") /\ UNCHANGED exit
  /\ UNCHANGED <<repository, baseline, calls, call, source, edited, got, failed, git, deleted,
                 analysed, written, outputs, earlier>>

\* (mutant: a part is begun only when the last one is full)
HasRoomLate(lines, line) == Bytes(lines) <= call.split

\* splitPackedOutput: the next line goes into the last part if it fits there,
\* else into one of its own.
HasRoom(lines, line) == Bytes(lines) + LineBytes(line) <= call.split
Rest == Rendered(got) \ UNION Range(parts)

SplitLine ==
  /\ phase = "split"
  /\ \E line \in Rest :
       /\ \A other \in Rest \ {line} : Earlier(line, other)
       /\ parts' = (IF parts # <<>> /\ HasRoom(parts[Len(parts)], line)
                    THEN [parts EXCEPT ![Len(parts)] = @ \cup {line}]
                    ELSE Append(parts, {line}))
       /\ phase' = (IF Rest = {line} THEN "write" ELSE "split")
  /\ UNCHANGED <<repository, baseline, calls, call, source, edited, got, failed, git, deleted,
                 analysed, written, outputs, earlier, exit>>

Exclusive == call.split = 0 /\ ~OwnCommand(call)
NameOf(n) == IF call.source = "dual" \/ Split THEN n ELSE 0
Target == NameOf(written + 1)

\* open "wx" for one file, "w" for parts and the commands of their own; a
\* failed write leaves the file there.
WritePart(succeeds) ==
  /\ phase = "write" /\ written < Len(parts)
  /\ IF Exclusive /\ Target \in DOMAIN outputs
     THEN End(Failure) /\ UNCHANGED <<written, outputs>>
     ELSE /\ outputs' = [n \in DOMAIN outputs \cup {Target} |->
                          IF n # Target THEN outputs[n]
                          ELSE IF succeeds THEN parts[written + 1] ELSE TornOutput]
          /\ IF succeeds THEN written' = written + 1 /\ UNCHANGED <<phase, exit>>
             ELSE End(Failure) /\ UNCHANGED written
  /\ UNCHANGED <<repository, baseline, calls, call, source, edited, got, failed, git, deleted,
                 analysed, parts, earlier>>

FinishPack ==
  /\ phase = "write" /\ written = Len(parts)
  /\ End(IF OwnCommand(call) THEN "success" ELSE ExitOf(failed))
  /\ UNCHANGED <<repository, baseline, calls, call, source, edited, got, failed, git, deleted,
                 analysed, parts, written, outputs, earlier>>

\* Somebody works in the repository.
EditRepository ==
  /\ phase \in {"filter", "transform", "report"} /\ ~edited
  /\ \E tree \in PackTrees \ {repository} : repository' = tree
  /\ edited' = TRUE
  /\ UNCHANGED <<baseline, calls, phase, call, source, got, failed, git, deleted, analysed, parts,
                 written, outputs, earlier, exit>>

PackNext ==
  \/ \E c \in PackCalls : StartPack(c)
  \/ AcquireTree \/ AcquirePull \/ AcquireStdin \/ AcquireFails
  \/ Filter \/ Transform \/ Report \/ Scope \/ Render \/ SplitLine
  \/ \E succeeds \in BOOLEAN : WritePart(succeeds)
  \/ FinishPack \/ EditRepository

-----------------------------------------------------------------------------
(* Properties.                                                              *)

Delivered == phase = "ended" /\ exit \in {"success", "partial"}

Places(lines, kind) == {i \in DOMAIN lines : lines[i] = kind}

\* What a pack that reports success or a partial result delivers: exactly the
\* admitted items of one reading, with the changes asked for; all of them were
\* readable if it says success (a bare `fuzit` and the statistics of a dry run
\* do not look); what it calls deleted is gone, if no filter hid it; the files
\* written hold the bundle, cut in its order into parts none of which is over
\* the size unless it is one line; the analysis is of the tree that was packed,
\* if nobody worked in it; and a pack into one file touches no file that was
\* there (registerPackCommand, executeDualPack, splitPackedOutput).
PackHonest ==
  LET admitted == {p \in DOMAIN source : OwnCommand(call) \/ p \in Wanted(call)}
      compared == call.since /\ call.source = "local"
  IN  /\ Delivered =>
           /\ exit = "partial" \/ failed = {} \/ call.source = "dual" \/ (call.stats /\ call.dryRun)
           /\ DOMAIN got \subseteq admitted \ failed
           /\ ~compared /\ git = {} => DOMAIN got = admitted \ failed
           /\ git # {} => DOMAIN got \subseteq git
           /\ \A p \in DOMAIN got :
                /\ got[p].original = source[p]
                /\ {"comments", "empty"} \subseteq call.transforms =>
                     Range(got[p].lines) \cap {"comment", "empty"} = {}
                /\ Places(got[p].lines, "declaration") = Places(source[p], "declaration")
           /\ exit = "success" /\ call.scope = {} /\ call.keeps = DOMAIN ScopeOf /\ git = {} =>
                deleted \cap DOMAIN source = {}
           /\ ~edited /\ analysed # <<>> => analysed = source
           /\ call.output /\ ~call.dryRun =>
                /\ UNION Range(parts) = Rendered(got)
                /\ \A i \in DOMAIN parts :
                     /\ NameOf(i) \in DOMAIN outputs /\ outputs[NameOf(i)] = parts[i]
                     /\ Split => Bytes(parts[i]) <= call.split \/ Cardinality(parts[i]) = 1
                     /\ call.source = "dual" => parts[i] = Rendered(got)
                /\ call.source # "dual" => \A i, j \in DOMAIN parts : i < j =>
                     \A l \in parts[i], m \in parts[j] : Earlier(l, m)
      /\ Exclusive => \A n \in DOMAIN earlier : outputs[n] = earlier[n]
      /\ Exclusive /\ 0 \in DOMAIN earlier => outputs = earlier

=============================================================================
