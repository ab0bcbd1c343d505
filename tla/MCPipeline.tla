------------------------------ MODULE MCPipeline ------------------------------
(* A small instance of Pipeline. *)
EXTENDS Pipeline

\* Repositories of a directory with a file, and two files beside it: what may
\* be found of each, and layers that disagree.
Silent == [i \in DOMAIN Layers |-> "none"]
Says(i, v) == [Silent EXCEPT ![i] = v]
Seen1(kind, text) ==
  [kind |-> kind, text |-> text, sensitive |-> FALSE, hard |-> FALSE, verdict |-> Silent]
MCTrees ==
  {(<<>> :> Seen1("directory", "plain") @@ <<"a">> :> a @@ <<"a", "x">> :> Seen1("file", "plain")
      @@ <<"b">> :> b @@ <<"c">> :> c) :
     a \in {Seen1("directory", "plain"), Seen1("directory", "unlistable"),
            [Seen1("directory", "plain") EXCEPT !.verdict = Says(5, "exclude")]},
     b \in {Seen1("file", "large"), Seen1("file", "binary"), Seen1("file", "undecodable"),
            [Seen1("file", "plain") EXCEPT !.sensitive = TRUE, !.verdict = Says(1, "include")],
            [Seen1("file", "plain") EXCEPT !.hard = TRUE, !.verdict = Says(1, "include")]},
     c \in {Seen1("symlink", "plain"),
            [Seen1("file", "plain") EXCEPT !.verdict = [Says(2, "include") EXCEPT ![4] = "exclude"]],
            [Seen1("file", "plain") EXCEPT !.verdict = [Says(3, "exclude") EXCEPT ![5] = "include"]]}}

Scored(path, score, category, tokens, topical, matches) ==
  [path |-> path, score |-> score, category |-> category, tokens |-> tokens,
   topical |-> topical, matches |-> matches]
AllCandidates ==
  {Scored(1, 2, "documentation", 1, TRUE, FALSE), Scored(2, 1, "documentation", 2, FALSE, FALSE),
   Scored(3, 1, "implementation", 2, TRUE, TRUE), Scored(4, 3, "implementation", 2, FALSE, FALSE),
   Scored(5, 1, "test", 1, TRUE, TRUE), Scored(6, 1, "test", 1, TRUE, FALSE),
   Scored(7, 0, "other", 1, TRUE, FALSE), Scored(8, 2, "other", 3, TRUE, FALSE),
   Scored(9, 2, "implementation", 1, TRUE, FALSE)}
MCCandidateSets == kSubset(4, AllCandidates)

\* Two analyses: one with all relations, and one whose history is cut off and
\* whose facts name files and packages that are not there, or twice.
MCAnalyses ==
  {[files |-> {<<"a", "x">>, <<"b">>},
    packages |-> {[path |-> <<>>, name |-> "root", dependencies |-> {"lib"}],
                  [path |-> <<"a">>, name |-> "lib", dependencies |-> {"gone"}]},
    symbols |-> {[file |-> <<"b">>, name |-> "f"]},
    relations |-> {Edge("import", FileNode(<<"b">>), FileNode(<<"a", "x">>)),
                   Edge("configuration-link", FileNode(<<"b">>), FileNode(<<"gone">>))},
    changes |-> {[revision |-> 1, path |-> <<"b">>, introduced |-> TRUE,
                  changedWith |-> {<<"a", "x">>, <<"gone">>}]},
    history |-> "complete"],
   [files |-> {<<"b">>},
    packages |-> {[path |-> <<"a">>, name |-> "lib", dependencies |-> {}],
                  [path |-> <<"b">>, name |-> "lib", dependencies |-> {"lib"}]},
    symbols |-> {[file |-> <<"gone">>, name |-> "f"]},
    relations |-> {Edge("test", FileNode(<<"gone">>), FileNode(<<"b">>))},
    changes |-> {[revision |-> 1, path |-> <<"gone">>, introduced |-> FALSE,
                  changedWith |-> {}]},
    history |-> "shallow"]}

\* A graph with a branch, a cycle, a node of another kind and an unresolved
\* edge, and a ring.
Arc(kind, from, to) == [kind |-> kind, source |-> from, target |-> to]
MCGraphs ==
  {[nodes |-> 1..5, kind |-> <<"f", "f", "p", "f", "f">>, cost |-> <<1, 2, 1, 1, 1>>,
    edges |-> <<Arc("i", 1, 2), Arc("i", 3, 2), Arc("t", 3, 4), Arc("i", 1, 4), Arc("i", 4, 5),
                Arc("i", 5, 0), Arc("i", 2, 5)>>],
   [nodes |-> 1..3, kind |-> <<"f", "f", "f">>, cost |-> <<2, 1, 1>>,
    edges |-> <<Arc("i", 1, 2), Arc("i", 2, 3), Arc("i", 3, 1)>>]}
Asked(starts, required, far, many, links, edgeKinds, nodeKinds, budget) ==
  [starts : starts, anchors : required, depth : far, items : many, links : links,
   edgeKinds : edgeKinds, nodeKinds : nodeKinds, aborted : {FALSE}, budget : budget]
MCSearchRequests ==
  Asked({{1}, {2, 3}, {1, 9}}, {{}}, {0, 2, 11}, {2, 4}, {3, 10}, {{"i"}, {"i", "t"}},
        {{"f"}, {"f", "p"}}, {1, 9})
    \cup Asked({{1}, {1, 2}}, {{1}}, {2}, {2, 4}, {3, 10}, {{"i"}}, {{"f"}, {"p"}}, {1, 3})
    \cup {[r EXCEPT !.aborted = TRUE] :
            r \in Asked({{1}}, {{}}, {1}, {1}, {10}, {{"i"}}, {{"f"}}, {1, 9})}

\* Files that were added, renamed, copied and changed between manifests.
MCManifests ==
  {[files |-> ("a" :> 1 @@ "b" :> 1), complete |-> TRUE],
   [files |-> ("b" :> 1 @@ "c" :> 1), complete |-> TRUE],
   [files |-> ("a" :> 2 @@ "c" :> 1 @@ "d" :> 1), complete |-> FALSE]}

Depends(configuration, import, test, derived) ==
  [configuration |-> configuration, import |-> import, test |-> test, graph |-> derived]
MCDependencyRecords ==
  {Depends({<<3, 1>>}, {<<2, 1>>, <<3, 2>>}, {}, {}),
   Depends({<<3, 1>>}, {<<1, 3>>, <<3, 2>>}, {<<2, 1>>}, {}),
   Depends({<<2, 1>>}, {<<3, 2>>, <<2, 4>>}, {}, {<<1, 3>>})}
Change(path, kind) == [path |-> path, kind |-> kind]
MCChangeSets ==
  {{Change(1, "exports")}, {Change(1, "configuration"), Change(1, "exports")},
   {Change(1, "parser-output"), Change(2, "exports")},
   {Change(1, "imports"), Change(2, "test-dependencies")},
   {Change(4, "exports"), Change(3, "graph-edges")}}

\* Packs of every source, with each option.
One == <<"declaration", "body", "comment">>
Two == <<"empty", "declaration">>
MCPackTrees == {(1 :> One @@ 2 :> Two), (2 :> One @@ 3 :> Two)}
MCScopeOf == (1 :> "code" @@ 2 :> "test" @@ 3 :> "doc")
Plainly == [source |-> "local", fits |-> TRUE, full |-> FALSE, scope |-> {}, keeps |-> {1, 2, 3},
            changes |-> FALSE, transforms |-> {}, stats |-> FALSE, dryRun |-> FALSE,
            since |-> FALSE, split |-> 0, output |-> TRUE]
MCPackCalls ==
  {Plainly, [Plainly EXCEPT !.fits = FALSE],
   [Plainly EXCEPT !.source = "stdin", !.output = FALSE],
   [Plainly EXCEPT !.source = "repository", !.scope = {"test"}, !.keeps = {1, 2}, !.split = 4],
   [Plainly EXCEPT !.source = "pull", !.full = TRUE, !.split = 2],
   [Plainly EXCEPT !.source = "dual", !.transforms = {"compress", "comments", "empty"}],
   [Plainly EXCEPT !.source = "prPack"],
   [Plainly EXCEPT !.since = TRUE],
   [Plainly EXCEPT !.changes = TRUE, !.scope = {"doc"}],
   [Plainly EXCEPT !.stats = TRUE, !.dryRun = TRUE],
   [Plainly EXCEPT !.dryRun = TRUE, !.since = TRUE, !.transforms = {"comments", "empty"}],
   [Plainly EXCEPT !.split = 3, !.transforms = {"compress"}]}
Touches(path, removed) == [path |-> path, removed |-> removed]
MCPullFiles ==
  {<<Touches(1, FALSE), Touches(2, TRUE)>>,
   <<Touches(1, FALSE), Touches(3, FALSE), Touches(2, FALSE)>>}

\* A machine where all is well, and one where much is not; an empty
\* repository and one with files of the user.
Well == Facts \ {"manifestInvalid", "manifestIncompatible"}
MCMachines ==
  {Well, (Well \ {"git", "environment", "readable"}) \cup {"manifestIncompatible"}}
Nothing == [name \in FileNames |-> NoFile]
MCStart ==
  {Nothing, [Nothing EXCEPT !["config"] = Users("bad"), !["t1"] = Users("text"),
               !["ignore"] = <<"user", "ignore", {".fuzit/"}>>, !["graph"] = Users("text")]}
Initialize(force, dry, mcp) == [name |-> "init", force |-> force, dry |-> dry, mcp |-> mcp]
Purge(dry, entries) == [name |-> "purge", dry |-> dry, order |-> entries]
MCWriteCommands ==
  {Initialize(FALSE, FALSE, FALSE), Initialize(TRUE, FALSE, FALSE), Initialize(FALSE, TRUE, FALSE),
   Initialize(FALSE, FALSE, TRUE),
   [name |-> "graph"], [name |-> "context"],
   [name |-> "apply", blocks |-> <<>>], [name |-> "apply", blocks |-> <<"t1", "t2">>],
   [name |-> "cacheInit"], [name |-> "rebuild", dry |-> FALSE],
   [name |-> "rebuild", dry |-> TRUE], [name |-> "watch"],
   Purge(FALSE, <<"state", "index">>), Purge(FALSE, <<"index", "state">>), Purge(TRUE, <<>>)}

=============================================================================
