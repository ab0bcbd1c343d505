------------------------------ MODULE McpServer ------------------------------
(***************************************************************************)
(* The MCP server on standard input and output (apps/mcp-server/src).      *)
(*                                                                         *)
(* The client writes lines; a data event hands any number of whole lines   *)
(* to handleLine, which handles all of them at once.  What goes wrong with *)
(* the line itself is answered while the event is handled; the methods     *)
(* without work are answered by the microtasks that follow it; tool calls  *)
(* read the disk or run git and end in any order.  A line is its method    *)
(* and, for a tool call, what is wrong with its arguments.                 *)
(***************************************************************************)
EXTENDS Naturals, FiniteSets, Sequences

CONSTANTS
  McpLines,         \* the lines a client writes
  MaxLines,         \* bound: how many of them
  MaxAllowedRoots   \* MAX_ALLOWED_ROOTS

Tools == {"fuzit_status", "fuzit_profiles", "fuzit_search", "fuzit_get_context",
          "fuzit_explain_selection", "fuzit_graph_neighbors", "fuzit_graph_impact",
          "fuzit_recent_changes", "fuzit_create_bundle"}

\* root: the root argument of a call, an allowed root or something else;
\* argument: its task or path.
Line == [method : {"garbage", "oversized", "null", "notV2", "initialize", "tools/list",
                   "notification", "unknown", "tools/call"},
         tool : Tools \cup {"none"},
         root : {"allowed", "below", "outside", "missing", "invalid"},
         argument : {"valid", "invalid", "tooLong"}]

ASSUME McpAssumption == McpLines \subseteq Line

VARIABLES
  mcpServer,  \* "starting", "up", "refused" (no server), "crashed" or "closed"
  lines,      \* what the client has written
  taken,      \* how many lines were handed to handleLine
  running,    \* the tool calls in progress
  answers,    \* what was written to standard output, as [line, reply]
  bundles     \* the calls that wrote a bundle file

mcpVars == <<mcpServer, lines, taken, running, answers, bundles>>

McpTypeOK ==
  /\ mcpServer \in {"starting", "up", "refused", "crashed", "closed"}
  /\ lines \in Seq(Line) /\ taken \in 0..Len(lines)
  /\ {running, bundles} \subseteq SUBSET (1..taken)
  /\ \A k \in DOMAIN answers : answers[k].line \in 1..taken

McpInit ==
  /\ mcpServer = "starting" /\ lines = <<>> /\ taken = 0
  /\ running = {} /\ answers = <<>> /\ bundles = {}

-----------------------------------------------------------------------------
(* Tools.  runTool turns what a handler throws into a result with a code.   *)

NeedsTask(tool) == tool \in {"fuzit_search", "fuzit_get_context", "fuzit_explain_selection",
                             "fuzit_create_bundle"}
NeedsPath(tool) == tool \in {"fuzit_graph_neighbors", "fuzit_graph_impact"}

\* validateRoot: the canonical path must lie within the allowed roots and be
\* one of them.
RootErrors(root) ==
  CASE root = "invalid" -> {"TYPE_ERROR"}
    [] root = "missing" -> {"INTERNAL_ERROR"}
    [] root \in {"outside", "below"} -> {"RANGE_ERROR"}
    [] OTHER -> {}

\* validateTask, and the check of path of the graph tools, which has no limit.
ArgumentErrors(l) ==
  IF ~NeedsTask(l.tool) /\ ~NeedsPath(l.tool) THEN {}
  ELSE CASE l.argument = "invalid" -> {"TYPE_ERROR"}
         [] l.argument = "tooLong" /\ NeedsTask(l.tool) -> {"RANGE_ERROR"}
         [] OTHER -> {}

\* What the work itself may come to: a profile may be unknown, a budget too
\* small, git and the disk may fail; the graph tools find no snapshot, because nothing ever calls
\* setSnapshot, and report that as a result.
WorkResults(tool) ==
  CASE tool = "fuzit_profiles" \/ NeedsPath(tool) -> {"ok"}
    [] NeedsTask(tool) -> {"ok", "TYPE_ERROR", "INTERNAL_ERROR"}
    [] OTHER -> {"ok", "INTERNAL_ERROR"}

ToolResults(l) ==
  IF l.tool = "fuzit_profiles" THEN WorkResults(l.tool)
  ELSE IF RootErrors(l.root) # {} THEN RootErrors(l.root)
  ELSE IF ArgumentErrors(l) # {} THEN ArgumentErrors(l)
  ELSE WorkResults(l.tool)

-----------------------------------------------------------------------------
(* The transport.                                                           *)

\* What handleLine writes before its first await.
ImmediateErrors == [garbage |-> "-32700", oversized |-> "-32600", notV2 |-> "-32600"]

\* What the handler comes to without work.  A notification is answered, too.
ImmediateResults(l) ==
  CASE l.method \in {"initialize", "tools/list", "notification"} -> {"result"}
    [] l.method = "unknown" -> {"-32603"}
    [] l.method = "tools/call" /\ l.tool = "none" -> {"-32603"}
    [] OTHER -> {}

\* (mutant: a call of no known tool is run, and refused as well)
IsAnyCall(l) == l.method = "tools/call"

IsCall(l) == l.method = "tools/call" /\ l.tool # "none"

Reply(i) ==
  [line  |-> i,
   reply |-> IF lines[i].method \in DOMAIN ImmediateErrors THEN ImmediateErrors[lines[i].method]
             ELSE CHOOSE r \in ImmediateResults(lines[i]) : TRUE]

\* Lines in the order in which they came.
InOrder(ls) == CHOOSE w \in [1..Cardinality(ls) -> ls] : \A j, k \in DOMAIN w : j < k => w[j] < w[k]

\* A data event that completes the lines up to n.  The line null is valid JSON
\* whose jsonrpc cannot be read: that rejection has no handler and ends the
\* process when the microtasks are done.
McpData(n) ==
  LET arrived == (taken + 1)..n
      errors == {i \in arrived : lines[i].method \in DOMAIN ImmediateErrors}
      results == {i \in arrived : ImmediateResults(lines[i]) # {}}
      written == InOrder(errors) \o InOrder(results)
  IN  /\ mcpServer = "up" /\ n > taken
      /\ taken' = n
      /\ answers' = answers \o [k \in DOMAIN written |-> Reply(written[k])]
      /\ running' = running \cup {i \in arrived : IsCall(lines[i])}
      /\ mcpServer' = IF \E i \in arrived : lines[i].method = "null" THEN "crashed"
                      ELSE "up"
      /\ UNCHANGED <<lines, bundles>>

\* The end of a tool call; only one tool writes, just before it ends.
McpFinish(i) ==
  /\ mcpServer = "up" /\ i \in running
  /\ running' = running \ {i}
  /\ \E code \in ToolResults(lines[i]) :
       /\ answers' = Append(answers, [line |-> i, reply |-> code])
       /\ bundles' = IF lines[i].tool = "fuzit_create_bundle" /\ code = "ok"
                     THEN bundles \cup {i} ELSE bundles
  /\ UNCHANGED <<mcpServer, lines, taken>>

\* validateAllowedRoots, with the directories and the other paths that were
\* given as roots.
McpStart(directories, others) ==
  /\ mcpServer = "starting"
  /\ mcpServer' = IF directories + others \in 1..MaxAllowedRoots /\ others = 0 THEN "up"
                  ELSE "refused"
  /\ UNCHANGED <<lines, taken, running, answers, bundles>>

ClientWrites(l) ==
  /\ mcpServer = "up" /\ Len(lines) < MaxLines
  /\ lines' = Append(lines, l)
  /\ UNCHANGED <<mcpServer, taken, running, answers, bundles>>

\* Standard input ended: the process ends when nothing is in progress.
McpClose ==
  /\ mcpServer = "up" /\ taken = Len(lines) /\ running = {}
  /\ mcpServer' = "closed"
  /\ UNCHANGED <<lines, taken, running, answers, bundles>>

McpNext ==
  \/ \E d, o \in 0..(MaxAllowedRoots + 1) : McpStart(d, o)
  \/ \E l \in McpLines : ClientWrites(l)
  \/ \E n \in 1..Len(lines) : McpData(n)
  \/ \E i \in running : McpFinish(i)
  \/ McpClose

McpSpec == McpInit /\ [][McpNext]_mcpVars

-----------------------------------------------------------------------------
(* Properties.                                                              *)

AnswersTo(i) == {k \in DOMAIN answers : answers[k].line = i}

\* Concurrent handling loses and repeats nothing: every line that was taken is
\* in progress or has exactly one answer, except a line null, after which there
\* is no server; a server that ends with its input leaves nothing unanswered;
\* of the lines that need no work, one line is answered before a later one
\* unless only the later one is an error of the line itself and both came in
\* one event (StdioTransport).
LinesAccountedFor ==
  /\ \A i \in 1..taken :
       IF lines[i].method = "null" THEN mcpServer = "crashed" /\ AnswersTo(i) = {}
       ELSE Cardinality(AnswersTo(i)) = IF i \in running THEN 0 ELSE 1
  /\ mcpServer = "closed" => \A i \in DOMAIN lines : AnswersTo(i) # {}
  /\ \A j, k \in DOMAIN answers :
       LET i == answers[j].line  i2 == answers[k].line
       IN  (~IsCall(lines[i]) /\ ~IsCall(lines[i2]) /\ i < i2 /\ j > k)
             => /\ lines[i].method \notin DOMAIN ImmediateErrors
                /\ lines[i2].method \in DOMAIN ImmediateErrors
  /\ \A i \in bundles : lines[i].root = "allowed" /\ i \notin running

=============================================================================
