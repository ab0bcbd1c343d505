------------------------------ MODULE GraphStore ------------------------------
(***************************************************************************)
(* The repository graph: how an analysis becomes nodes and edges, and how  *)
(* transactions change them (packages/graph/src).                          *)
(*                                                                         *)
(* A path is the sequence of its names.  A node is its kind and identity,  *)
(* an edge its kind, source and target; a target that was not found is     *)
(* Unresolved.  Each materialize function is one step, for it is a loop    *)
(* over facts that do not depend on one another.                           *)
(***************************************************************************)
EXTENDS Naturals, Sequences, FiniteSets, SequencesExt

CONSTANTS
  Analyses,      \* what the analysis may find
  Transactions,  \* bound: how many transactions follow
  Touched        \* bound: the kinds of nodes and edges they touch

\* Paths are sequences of names; no materialize function would take a relation
\* of another kind.
ASSUME GraphAssumption ==
  /\ Transactions \in Nat
  /\ \A a \in Analyses :
       /\ a.files \subseteq Seq(STRING)
       /\ \A p \in a.packages : p.path \in Seq(STRING)
       /\ \A r \in a.relations :
            r.kind \in {"import", "export", "reference", "call", "test", "endpoint", "schema",
                       "configuration-link"}

Unresolved == <<"unresolved">>
Repository == <<"repository">>
FileNode(path) == <<"file", path>>
PackageNode(p) == <<"package", p.path, p.name>>
SymbolNode(s) == <<"symbol", s.file, s.name>>
ChangeNode(c) == <<"change", c.revision, c.path>>
Edge(kind, source, target) == [kind |-> kind, source |-> source, target |-> target]

VARIABLES
  analysis,     \* [files, packages, symbols, relations, changes, history]
  stage,        \* the materialize functions that ran
  nodes, edges, \* the snapshot
  diagnostics,  \* what it could not represent
  tombstones,   \* the ids that were deleted
  refused       \* how many transactions were refused

graphVars == <<analysis, stage, nodes, edges, diagnostics, tombstones, refused>>

GraphInit ==
  /\ analysis \in Analyses
  /\ stage = 0 /\ nodes = {} /\ edges = {} /\ diagnostics = {}
  /\ tombstones = {} /\ refused = 0

Complete == diagnostics = {}

-----------------------------------------------------------------------------
(* Materialization.                                                         *)

\* The package whose root is the longest above the path.
NearestPackage(path) ==
  LET above == {p \in analysis.packages : IsPrefix(p.path, path)}
  IN  IF above = {} THEN Repository
      ELSE PackageNode(CHOOSE p \in above : \A q \in above : Len(q.path) <= Len(p.path))

Named(name) == {p \in analysis.packages : p.name = name}

\* A dependency is resolved if exactly one package has its name.
DependencyTarget(name) ==
  IF Cardinality(Named(name)) = 1 THEN PackageNode(CHOOSE p \in Named(name) : TRUE)
  ELSE Unresolved

BuildFilePackageGraph ==
  /\ stage = 0 /\ stage' = 1
  /\ nodes' = {Repository} \cup {PackageNode(p) : p \in analysis.packages}
                \cup {FileNode(f) : f \in analysis.files}
  /\ edges' =
       {Edge("contains", Repository, PackageNode(p)) : p \in analysis.packages}
         \cup {Edge("contains", NearestPackage(f), FileNode(f)) : f \in analysis.files}
         \cup UNION {{Edge("depends-on", PackageNode(p), DependencyTarget(d)) : d \in p.dependencies}
                       : p \in analysis.packages}
  /\ diagnostics' = {<<"conflicting name", p.name>> :
                       p \in {q \in analysis.packages : Cardinality(Named(q.name)) > 1}}
  /\ UNCHANGED <<analysis, tombstones, refused>>

MaterializeSymbols ==
  LET placed == {s \in analysis.symbols : FileNode(s.file) \in nodes}
  IN  /\ stage = 1 /\ stage' = 2
      /\ nodes' = nodes \cup {SymbolNode(s) : s \in placed}
      /\ edges' = edges \cup {Edge("contains", FileNode(s.file), SymbolNode(s)) : s \in placed}
      /\ diagnostics' = diagnostics \cup {<<"symbol", s>> : s \in analysis.symbols \ placed}
      /\ UNCHANGED <<analysis, tombstones, refused>>

\* (mutant: an edge goes where the analysis says)
FoundAnyway(node) == node

Found(node) == IF node \in nodes THEN node ELSE Unresolved

\* materializeImportDependencyEdges and materializeDomainRelations: a relation
\* whose source is no node is a diagnostic, one whose target is none is kept as
\* unresolved; the source of a configuration link is a node of its own in the
\* file that has it.
MaterializeRelations(kinds) ==
  LET relations == {r \in analysis.relations : r.kind \in kinds}
      placed == {r \in relations : r.source \in nodes}
      own(r) == r.kind = "configuration-link"
      source(r) == IF own(r) THEN <<"configuration", r.source>> ELSE r.source
  IN  /\ nodes' = nodes \cup {source(r) : r \in placed}
      /\ edges' = edges \cup {Edge(r.kind, source(r), Found(r.target)) : r \in placed}
      /\ diagnostics' = diagnostics \cup {<<"relation", r>> : r \in relations \ placed}
      /\ UNCHANGED <<analysis, tombstones, refused>>

MaterializeDependencies ==
  stage = 2 /\ stage' = 3 /\ MaterializeRelations({"import", "export", "reference", "call"})

MaterializeDomain ==
  stage = 3 /\ stage' = 4
    /\ MaterializeRelations({"test", "endpoint", "schema", "configuration-link"})

\* The history of the files that are still there, with the peers that are.
MaterializeLifecycle ==
  LET known == {c \in analysis.changes : FileNode(c.path) \in nodes}
      peers(c) == {f \in c.changedWith : FileNode(f) \in nodes}
  IN  /\ stage = 4 /\ stage' = 5
      /\ nodes' = nodes \cup {ChangeNode(c) : c \in known}
      /\ edges' = edges
           \cup {Edge("modifies", ChangeNode(c), FileNode(c.path)) : c \in known}
           \cup {Edge("introduced-by", FileNode(c.path), ChangeNode(c)) :
                   c \in {d \in known : d.introduced}}
           \cup UNION {{Edge("changed-with", FileNode(c.path), FileNode(f)) : f \in peers(c)}
                         : c \in known}
      /\ diagnostics' = diagnostics
           \cup {<<"changed file", c.path>> : c \in analysis.changes \ known}
           \cup (IF analysis.history = "complete" THEN {} ELSE {<<"history">>})
      /\ UNCHANGED <<analysis, tombstones, refused>>

-----------------------------------------------------------------------------
(* applyGraphTransaction.  A replacement that is also deleted comes back,    *)
(* with a tombstone; without the deletion the edges of a node stay.          *)

Incident(deleted) == {e \in edges : e.source \in deleted \/ e.target \in deleted}
NodeTombstone(n) == [id |-> n, kind |-> "node"]
EdgeTombstone(e) == [id |-> e, kind |-> "edge"]

ApplyTransaction(deleteNodes, deleteEdges, replaceNodes, replaceEdges) ==
  LET lost == deleteEdges \cup Incident(deleteNodes)
      newNodes == (nodes \ deleteNodes) \cup replaceNodes
      newEdges == (edges \ lost) \cup replaceEdges
      dangles == \E e \in newEdges : e.source \notin newNodes
                                       \/ e.target \notin newNodes \cup {Unresolved}
  IN  /\ stage \in 5..(4 + Transactions) /\ stage' = stage + 1
      /\ IF dangles
         THEN refused' = refused + 1 /\ UNCHANGED <<nodes, edges, tombstones>>
         ELSE /\ nodes' = newNodes /\ edges' = newEdges
              /\ tombstones' = tombstones \cup {NodeTombstone(n) : n \in deleteNodes}
                                 \cup {EdgeTombstone(e) : e \in lost}
              /\ UNCHANGED refused
      /\ UNCHANGED <<analysis, diagnostics>>

\* Deleted or replaced are nodes and edges of the graph, or some that were.
Once(kind) == {t.id : t \in {u \in tombstones : u.kind = kind}}
AtMostOne(things) == {{}} \cup {{x} : x \in things}
TouchedNodes == {n \in nodes \cup Once("node") : n[1] \in Touched}
TouchedEdges == {e \in edges \cup Once("edge") : e.kind \in Touched}

GraphNext ==
  \/ BuildFilePackageGraph \/ MaterializeSymbols \/ MaterializeDependencies
  \/ MaterializeDomain \/ MaterializeLifecycle
  \/ \E deleted, back \in AtMostOne(TouchedNodes), lost, again \in AtMostOne(TouchedEdges) :
       ApplyTransaction(deleted, lost, back, again)

-----------------------------------------------------------------------------
(* Properties.                                                              *)

\* No edge dangles, through every materialization and every sequence of
\* transactions, those that bring back what was deleted included; what a
\* transaction took away has left a tombstone; and a graph that calls itself
\* complete has every file, symbol and relation of its analysis
\* (applyGraphTransaction, materializeImportDependencyEdges).
GraphClosed ==
  /\ \A e \in edges : e.source \in nodes /\ e.target \in nodes \cup {Unresolved}
  /\ stage = 5 /\ Complete =>
       /\ {SymbolNode(s) : s \in analysis.symbols} \subseteq nodes
       /\ \A r \in analysis.relations : \E e \in edges :
            e.kind = r.kind /\ e.source \in {r.source, <<"configuration", r.source>>}
       /\ \A c \in analysis.changes : FileNode(c.path) \in nodes
  /\ \A f \in analysis.files : stage >= 5 =>
       FileNode(f) \in nodes \/ NodeTombstone(FileNode(f)) \in tombstones

=============================================================================
