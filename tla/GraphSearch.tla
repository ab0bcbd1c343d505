------------------------------ MODULE GraphSearch ------------------------------
(***************************************************************************)
(* The bounded searches of the repository graph: neighbours and queries    *)
(* (packages/graph/src/queries.ts), distances from the matches of a task   *)
(* (packages/selection/src/hybrid/graph-distance.ts), and the expansion of *)
(* a selection (packages/selection/src/expansion/expand.ts).               *)
(*                                                                         *)
(* A node is a number that stands for its place in the order of ids.  The  *)
(* loops run to completion, so the steps only make the order visible.      *)
(***************************************************************************)
EXTENDS Integers, Sequences, FiniteSets, FiniteSetsExt, Functions, SequencesExt

CONSTANTS
  Graphs,         \* [nodes, kind and cost of each, edges in their order]
  SearchRequests  \* what is asked for

SearchRequest ==
  [starts : SUBSET Nat, anchors : SUBSET Nat, depth : Nat, items : Nat, links : Nat,
   edgeKinds : SUBSET STRING, nodeKinds : SUBSET STRING, aborted : BOOLEAN, budget : Nat]

ASSUME GraphSearchAssumption ==
  /\ SearchRequests \subseteq SearchRequest
  /\ \A g \in Graphs :
       /\ IsFiniteSet(g.nodes) /\ g.nodes \subseteq Nat \ {0}
       /\ g.cost \in [g.nodes -> Nat]
       /\ g.edges \in Seq([kind : STRING, source : g.nodes, target : g.nodes \cup {0}])

NoGraph == [nodes |-> {}, kind |-> <<>>, cost |-> <<>>, edges |-> <<>>]

VARIABLES
  graph, request,
  search,    \* which search it is
  status,    \* how far it is
  depth,     \* the round, for neighbors and scoring
  frontier,  \* the paths that are still to be visited in it
  upcoming,  \* what the next round visits
  awaiting,     \* the paths that are still to be visited, for expansion
  visiting,   \* the path whose edges are gone through
  at,        \* the next of them, or 0
  found,     \* visited node -> the path it was reached by
  inspected, \* how many edges were counted
  bounded    \* whether a bound cut the search off

searchVars == <<graph, request, search, status, depth, frontier, upcoming, awaiting, visiting, at,
                found, inspected, bounded>>

NoRequest == [starts |-> {}, anchors |-> {}, depth |-> 0, items |-> 1, links |-> 1,
              edgeKinds |-> {}, nodeKinds |-> {}, aborted |-> FALSE, budget |-> 0]

Searches == {"neighbors", "query", "scoring", "expansion"}

GraphSearchTypeOK ==
  /\ graph \in Graphs \cup {NoGraph} /\ request \in SearchRequest
  /\ search \in Searches /\ status \in {"none", "running", "done", "refused"}
  /\ frontier \cup upcoming \subseteq Seq(graph.nodes)
  /\ awaiting \in Seq(Seq(graph.nodes)) /\ visiting \in Seq(graph.nodes)
  /\ DOMAIN found \subseteq graph.nodes /\ Range(found) \subseteq Seq(graph.nodes)
  /\ at \in 0..Len(graph.edges) /\ depth \in Nat /\ inspected \in Nat /\ bounded \in BOOLEAN

GraphSearchInit ==
  /\ graph = NoGraph /\ request = NoRequest /\ search = "query" /\ status = "none"
  /\ depth = 0 /\ frontier = {} /\ upcoming = {} /\ awaiting = <<>> /\ visiting = <<>> /\ at = 0
  /\ found = <<>> /\ inspected = 0 /\ bounded = FALSE

-----------------------------------------------------------------------------
\* (mutant: an edge is followed in its direction only)
OtherEndForward(edge, node) == IF edge.source = node THEN edge.target ELSE 0

\* The other end of an edge; 0 if it does not touch the node or is unresolved.
OtherEnd(edge, node) ==
  IF edge.source = node THEN edge.target ELSE IF edge.target = node THEN edge.source ELSE 0

EdgesOf(kinds) == {e \in Range(graph.edges) : e.kind \in kinds}
EdgeAfter(i) == IF i < Len(graph.edges) THEN i + 1 ELSE 0

\* The order of the keys of paths of one length.
Precedes(p, q) ==
  \E i \in DOMAIN p : p[i] < q[i] /\ \A j \in 1..(i - 1) : p[j] = q[j]
IsFirst(path, paths) == path \in paths /\ \A p \in paths \ {path} : Precedes(path, p)

\* The numbers of a set in their order.
Ascending(ns, S) ==
  /\ ns \in [1..Cardinality(S) -> S] /\ S \subseteq Range(ns)
  /\ \A i, j \in 1..Cardinality(S) : i < j => ns[i] < ns[j]

Reaching(paths) == [n \in DOMAIN found \cup DOMAIN paths |->
                      IF n \in DOMAIN paths THEN paths[n] ELSE found[n]]

Listed == {n \in graph.nodes : graph.kind[n] \in request.nodeKinds}

\* (mutant: nobody asks whether the start is a node)
AdmittedAnyStart(g, r, kind) ==
  /\ r.depth \in 0..10 /\ r.items \in 1..1000
  /\ kind \in {"neighbors", "query"} => ~r.aborted
  /\ kind = "scoring" =>
       r.links \in 1..10000 /\ (r.aborted => r.depth = 0 \/ r.starts \cap g.nodes = {})

\* A limit out of its range, a start that is no node or a signal that is
\* already aborted is an error; scoring drops the anchors that are no nodes
\* and asks for the signal once there is one to visit.
Admitted(g, r, kind) ==
  /\ r.depth \in 0..10 /\ r.items \in 1..1000
  /\ kind \in {"neighbors", "query"} => ~r.aborted
  /\ kind = "neighbors" => r.starts \subseteq g.nodes /\ Cardinality(r.starts) = 1
  /\ kind = "scoring" =>
       r.links \in 1..10000 /\ (r.aborted => r.depth = 0 \/ r.starts \cap g.nodes = {})

\* Scoring and expansion begin with the anchors too; expansion has its awaiting
\* in order, the anchors first.
StartSearch(g, r, kind) ==
  LET required == r.anchors \cap g.nodes
      starts == IF kind = "neighbors" THEN r.starts
                ELSE required \cup (r.starts \cap g.nodes)
  IN  /\ search' = kind
      /\ graph' = g /\ request' = [r EXCEPT !.starts = starts, !.anchors = required]
      /\ IF kind # "expansion" /\ ~Admitted(g, request', kind)
         THEN status' = "refused" /\ UNCHANGED <<frontier, awaiting, found>>
         ELSE /\ status' = (IF kind = "query" THEN "done" ELSE "running")
              /\ frontier' = (IF kind \in {"neighbors", "scoring"} THEN {<<n>> : n \in starts}
                              ELSE {})
              /\ IF kind # "expansion" THEN awaiting' = <<>>
                 ELSE \E ms \in [1..Cardinality(required) -> required],
                         ns \in [1..Cardinality(starts \ required) -> starts \ required] :
                        /\ Ascending(ms, required) /\ Ascending(ns, starts \ required)
                        /\ awaiting' = [i \in DOMAIN (ms \o ns) |-> <<(ms \o ns)[i]>>]
              /\ found' = (IF kind = "neighbors" THEN [n \in starts |-> <<n>>] ELSE <<>>)
      /\ UNCHANGED <<depth, upcoming, visiting, at, inspected, bounded>>

Running(kind) == search = kind /\ status = "running"
Done(kind) == search = kind /\ status = "done"

-----------------------------------------------------------------------------
(* graphNeighbors and scoreGraphDistance.                                   *)

EndRound(kind) ==
  /\ Running(kind) /\ at = 0 /\ depth < request.depth
  /\ frontier = {} /\ upcoming # {}
  /\ depth' = depth + 1 /\ frontier' = upcoming /\ upcoming' = {}
  /\ UNCHANGED <<graph, request, search, status, awaiting, visiting, at, found, inspected, bounded>>

\* The starts are no results.
EndSearch(kind) ==
  /\ Running(kind) /\ at = 0
  /\ depth = request.depth \/ (frontier = {} /\ upcoming = {})
  /\ status' = "done" /\ found' = Restrict(found, DOMAIN found \ request.starts)
  /\ UNCHANGED <<graph, request, search, depth, frontier, upcoming, awaiting, visiting, at,
                 inspected, bounded>>

\* graphNeighbors: every node that is new, whatever its kind.
NeighborsVisit ==
  /\ Running("neighbors") /\ depth < request.depth
  /\ \E path \in frontier :
       LET ends == {OtherEnd(e, Last(path)) : e \in EdgesOf(request.edgeKinds)}
           new == [n \in ends \ (DOMAIN found \cup {0}) |-> Append(path, n)]
       IN  /\ IsFirst(path, frontier) /\ frontier' = frontier \ {path}
           /\ found' = Reaching(new) /\ upcoming' = upcoming \cup Range(new)
  /\ UNCHANGED <<graph, request, search, status, depth, awaiting, visiting, at, inspected, bounded>>

\* scoreGraphDistance: the next path, and its edges one by one.
TakePath ==
  /\ Running("scoring") /\ at = 0 /\ depth < request.depth
  /\ \E path \in frontier :
       /\ IsFirst(path, frontier) /\ frontier' = frontier \ {path}
       /\ visiting' = path /\ at' = EdgeAfter(0)
  /\ UNCHANGED <<graph, request, search, status, depth, upcoming, awaiting, found, inspected,
                 bounded>>

\* The best path to a node is the shortest, then the first in order.
Better(path, node) ==
  \/ node \notin DOMAIN found
  \/ Len(path) < Len(found[node])
  \/ Len(path) = Len(found[node]) /\ Precedes(path, found[node])

\* An edge without weight is counted and not followed, and a bound ends the
\* search at once.
ScanEdge ==
  LET edge == graph.edges[at]
      node == OtherEnd(edge, Last(visiting))
      path == Append(visiting, node)
      tooMany == inspected = request.links
  IN  /\ Running("scoring") /\ at # 0
      /\ IF node = 0 \/ node \in Range(visiting)
         THEN at' = EdgeAfter(at) /\ UNCHANGED <<status, upcoming, found, inspected, bounded>>
         ELSE /\ inspected' = inspected + 1
              /\ IF tooMany \/ edge.kind \notin request.edgeKinds \/ ~Better(path, node)
                 THEN UNCHANGED <<found, upcoming>>
                 ELSE found' = Reaching([n \in {node} |-> path]) /\ upcoming' = upcoming \cup {path}
              /\ IF tooMany \/ (found' # found /\ Cardinality(DOMAIN found') >= request.items)
                 THEN status' = "done" /\ bounded' = TRUE /\ UNCHANGED at
                 ELSE at' = EdgeAfter(at) /\ UNCHANGED <<status, bounded>>
      /\ UNCHANGED <<graph, request, search, depth, frontier, awaiting, visiting>>

-----------------------------------------------------------------------------
(* expandDependencies.                                                      *)

Larger(m, n) == IF m > n THEN m ELSE n
MaximumItems == Larger(request.items, Cardinality(request.anchors))
Spent == MapThenSumSet(LAMBDA n : graph.cost[n], DOMAIN found)

Skipped(node) ==
  \/ node \in DOMAIN found
  \/ /\ node \notin request.anchors
     /\ node \notin Listed \/ Spent + graph.cost[node] > request.budget

\* Anchors are taken whatever they cost and whatever they are; a node that does
\* not fit may come again.
TakeNode ==
  LET path == Head(awaiting)
      node == Last(path)
  IN  /\ Running("expansion") /\ at = 0 /\ awaiting # <<>> /\ ~request.aborted
      /\ Cardinality(DOMAIN found) < MaximumItems
      /\ awaiting' = Tail(awaiting)
      /\ IF Skipped(node) THEN UNCHANGED <<found, visiting, at>>
         ELSE /\ found' = Reaching([n \in {node} |-> path])
              /\ visiting' = path /\ at' = IF Len(path) > request.depth THEN 0 ELSE EdgeAfter(0)
      /\ UNCHANGED <<graph, request, search, status, depth, frontier, upcoming, inspected,
                     bounded>>

FollowEdge ==
  LET edge == graph.edges[at]
      node == OtherEnd(edge, Last(visiting))
  IN  /\ Running("expansion") /\ at # 0
      /\ IF node = 0 \/ edge.kind \notin request.edgeKinds
         THEN at' = EdgeAfter(at) /\ UNCHANGED <<awaiting, inspected, bounded>>
         ELSE IF inspected >= request.links
         THEN bounded' = TRUE /\ at' = 0 /\ UNCHANGED <<awaiting, inspected>>
         ELSE /\ inspected' = inspected + 1 /\ at' = EdgeAfter(at)
              /\ awaiting' = IF node \in DOMAIN found THEN awaiting
                          ELSE Append(awaiting, Append(visiting, node))
              /\ UNCHANGED bounded
      /\ UNCHANGED <<graph, request, search, status, depth, frontier, upcoming, visiting, found>>

EndExpansion ==
  /\ Running("expansion") /\ at = 0
  /\ awaiting = <<>> \/ request.aborted \/ Cardinality(DOMAIN found) >= MaximumItems
  /\ status' = "done" /\ bounded' = (bounded \/ awaiting # <<>>)
  /\ UNCHANGED <<graph, request, search, depth, frontier, upcoming, awaiting, visiting, at, found,
                 inspected>>

GraphSearchNext ==
  \/ /\ status = "none"
     /\ \E g \in Graphs, r \in SearchRequests, kind \in Searches : StartSearch(g, r, kind)
  \/ \E kind \in {"neighbors", "scoring"} : EndRound(kind) \/ EndSearch(kind)
  \/ NeighborsVisit \/ TakePath \/ ScanEdge
  \/ TakeNode \/ FollowEdge \/ EndExpansion

-----------------------------------------------------------------------------
(* Properties.                                                              *)

Joined(m, n) == \E e \in EdgesOf(request.edgeKinds) : {m, n} = {e.source, e.target}

IsWalk(w) == \A i \in 1..(Len(w) - 1) : Joined(w[i], w[i + 1])

\* Reference: what lies within so many edges of the starts, on a walk through
\* a set of nodes.
Within(d, through) ==
  {n \in through : \E k \in 1..(d + 1) : \E w \in [1..k -> through] :
                     w[1] \in request.starts /\ w[k] = n /\ IsWalk(w)}

\* Every search finds what it should: neighbours are the nodes within the
\* depth, none by a longer way; a distance is the shortest one, and scores
\* that were not cut are complete; an expansion walks real edges through nodes
\* that it takes, takes every anchor, keeps to its budget unless the anchors
\* alone exceed it, and if nothing cut it short there is no room for any node
\* that it could take and that lies within its depth of those taken
\* (graphNeighbors, scoreGraphDistance, expandDependencies).
GraphSearchSound ==
  LET reached == DOMAIN found
      hops(n) == Len(found[n]) - 1
      takeable == Listed \cup request.anchors
  IN  /\ \A n \in reached : Last(found[n]) = n /\ IsWalk(found[n])
      /\ Done("neighbors") \/ Done("scoring") =>
           \A n \in reached : n \in request.starts
             \/ n \in Within(hops(n), graph.nodes) \ Within(hops(n) - 1, graph.nodes)
      /\ Done("neighbors") \/ (Done("scoring") /\ ~bounded) =>
           reached = Within(request.depth, graph.nodes) \ request.starts
      /\ Done("expansion") =>
           /\ reached \subseteq takeable \cap Within(request.depth, reached)
           /\ Spent <= request.budget \/ reached \subseteq request.anchors
           /\ ~request.aborted => request.anchors \subseteq reached
           /\ ~bounded /\ ~request.aborted => \A n \in takeable \ reached :
                n \in Within(request.depth, reached \cup {n}) =>
                  Spent + graph.cost[n] > request.budget

=============================================================================
