------------------------------ MODULE Invalidation ------------------------------
(***************************************************************************)
(* What a change makes stale (packages/index/src/invalidation): the        *)
(* records reached from the changed files through recorded dependencies,   *)
(* found breadth first under a limit, and the record types that a changed  *)
(* identity of the tool or of its configuration invalidates.               *)
(*                                                                         *)
(* Paths are numbers in the order compareUtf8 gives them; a path outside   *)
(* RecordPaths has no record.                                              *)
(***************************************************************************)
EXTENDS Naturals, FiniteSets, Sequences

CONSTANTS
  RecordPaths,       \* the paths with a dependency record
  DependencyRecords, \* what the records may say: relation -> set of <<dependent, target>>
  ChangeSets,        \* the changes of a call: sets of [path, kind]
  AffectedLimits     \* the values of maxAffected

\* The kinds and the relations, in the order in which they are gone through.
ChangeKinds == <<"configuration", "exports", "graph-edges", "imports", "parser-output",
                 "test-dependencies">>
RelationOrder == <<"configuration", "import", "test", "graph">>

Kinds == {ChangeKinds[i] : i \in DOMAIN ChangeKinds}
Relations == {RelationOrder[i] : i \in DOMAIN RelationOrder}

ASSUME InvalidationAssumption ==
  /\ IsFiniteSet(RecordPaths) /\ AffectedLimits \subseteq Nat \ {0}
  /\ ChangeSets \subseteq SUBSET [path : Nat, kind : Kinds]

VARIABLES
  dependencies,  \* the records of this call
  changed,       \* its changes
  maxAffected,
  waiting,       \* the changes that the first loop has still to add
  affected,      \* the paths that are affected
  reasons,       \* set of [path, sourcePath, kind]
  queue,         \* sequence of [path, relations]
  current,       \* the path whose dependents are being added
  dependents,    \* those that have still to be: set of <<relation, path>>
  truncated,
  verdict        \* the answer of evaluateInvalidation

searchState == <<affected, reasons, queue, truncated>>
invalidationVars ==
  <<dependencies, changed, maxAffected, waiting, searchState, current, dependents, verdict>>

Transitive == {"import", "test", "graph"}

RelationsByChange(kind) ==
  CASE kind \in {"exports", "parser-output"} -> Transitive
    [] kind = "imports" -> {"test", "graph"}
    [] kind = "configuration" -> {"configuration"}
    [] kind = "test-dependencies" -> {"test"}
    [] kind = "graph-edges" -> {"graph"}

\* The orders of the two loops: changes by path and kind, dependents by
\* relation and path.
Place(x, seq) == CHOOSE i \in DOMAIN seq : seq[i] = x
ComesFirst(c, d) ==
  \/ c.path < d.path
  \/ c.path = d.path /\ Place(c.kind, ChangeKinds) < Place(d.kind, ChangeKinds)
FollowedFirst(e, f) ==
  \/ Place(e[1], RelationOrder) < Place(f[1], RelationOrder)
  \/ e[1] = f[1] /\ e[2] < f[2]

RecordTypes == {"file", "analysis", "graph"}
NoVerdict == [identities |-> {}, versions |-> FALSE, affected |-> {}]

InvalidationInit ==
  /\ dependencies \in DependencyRecords /\ changed \in ChangeSets
  /\ maxAffected \in AffectedLimits
  /\ waiting = changed
  /\ affected = {} /\ reasons = {} /\ queue = <<>> /\ truncated = FALSE
  /\ current = 0 /\ dependents = {}
  /\ verdict = NoVerdict

-----------------------------------------------------------------------------
(* computeDependencyInvalidation.                                           *)

Add(path, sourcePath, kind, relations) ==
  IF path \notin RecordPaths \/ path \in affected THEN UNCHANGED searchState
  ELSE IF Cardinality(affected) >= maxAffected
  THEN truncated' = TRUE /\ UNCHANGED <<affected, reasons, queue>>
  ELSE /\ affected' = affected \cup {path}
       /\ reasons' = reasons \cup {[path |-> path, sourcePath |-> sourcePath, kind |-> kind]}
       /\ queue' = Append(queue, [path |-> path, relations |-> relations])
       /\ UNCHANGED truncated

AddChange ==
  /\ \E change \in waiting :
       /\ \A other \in waiting \ {change} : ComesFirst(change, other)
       /\ Add(change.path, change.path, change.kind, RelationsByChange(change.kind))
       /\ waiting' = waiting \ {change}
  /\ UNCHANGED <<dependencies, changed, maxAffected, current, dependents, verdict>>

\* (mutant: a dependent is looked up as the target)
DependsOnIt(relation, path) == {p \in RecordPaths : <<path, p>> \in dependencies[relation]}

Dependents(relation, path) == {p \in RecordPaths : <<p, path>> \in dependencies[relation]}

\* queue.shift(), and the dependents of its path.
TakeEntry ==
  /\ waiting = {} /\ dependents = {} /\ queue # <<>>
  /\ LET entry == Head(queue)
     IN  /\ current' = entry.path
         /\ dependents' = UNION {{relation} \X Dependents(relation, entry.path) :
                                   relation \in entry.relations}
  /\ queue' = Tail(queue)
  /\ UNCHANGED <<dependencies, changed, maxAffected, waiting, affected, reasons, truncated,
                 verdict>>

AddDependent ==
  /\ \E e \in dependents :
       /\ \A other \in dependents \ {e} : FollowedFirst(e, other)
       /\ Add(e[2], current, e[1], Transitive)
       /\ dependents' = dependents \ {e}
  /\ UNCHANGED <<dependencies, changed, maxAffected, waiting, current, verdict>>

Searched == waiting = {} /\ dependents = {} /\ queue = <<>>

-----------------------------------------------------------------------------
(* evaluateInvalidation: the record types that a changed identity touches.  *)

identityDependencies ==
  [effectiveConfiguration |-> RecordTypes, ignorePolicy |-> RecordTypes,
   securityPolicy |-> RecordTypes, parser |-> {"analysis", "graph"},
   analysis |-> {"analysis", "graph"}, graph |-> {"graph"}, schema |-> RecordTypes]

Identities == DOMAIN identityDependencies

\* Corruption, another version, and an identity set on one side only touch all.
Evaluate ==
  /\ Searched /\ verdict = NoVerdict
  /\ \E differing \in SUBSET Identities, versions \in BOOLEAN :
       verdict' = [identities |-> differing, versions |-> versions,
                   affected |-> UNION ({identityDependencies[i] : i \in differing}
                                         \cup (IF versions THEN {RecordTypes} ELSE {}))]
  /\ UNCHANGED <<dependencies, changed, maxAffected, waiting, searchState, current, dependents>>

InvalidationNext == AddChange \/ TakeEntry \/ AddDependent \/ Evaluate

-----------------------------------------------------------------------------
(* Properties.                                                              *)

\* Every dependent of a path of the set is in the set.
Closed(S) ==
  \A p \in RecordPaths : (\E q \in S, r \in Transitive : <<p, q>> \in dependencies[r]) => p \in S

\* None of the changes follows less than an export change does.
AllWide == \A c \in changed : c.kind \in {"exports", "parser-output"}

\* Only a changed file or a dependent of an affected one is affected, each has
\* one reason, the limit holds, and the result is called incomplete only at
\* the limit.  A finished search that calls itself complete has reached all
\* that depends on the changed files with a record, and nothing else: the
\* least closed set with them, if none of the changes is narrower than an
\* export change (add returns early for a file that is affected already, also
\* when the new reason has more relations).  An identity that makes the
\* analysis of a file stale makes what is derived from it stale too
\* (computeDependencyInvalidation, evaluateInvalidation).
InvalidationSound ==
  /\ Cardinality(affected) <= maxAffected
  /\ truncated => Cardinality(affected) = maxAffected
  /\ {r.path : r \in reasons} = affected /\ Cardinality(reasons) = Cardinality(affected)
  /\ \A r \in reasons :
       \/ [path |-> r.path, kind |-> r.kind] \in changed
       \/ /\ r.sourcePath \in affected /\ r.kind \in Relations
          /\ <<r.path, r.sourcePath>> \in dependencies[r.kind]
  /\ Searched /\ ~truncated /\ AllWide =>
       LET roots == RecordPaths \cap {c.path : c \in changed}
       IN  /\ roots \subseteq affected /\ Closed(affected)
           /\ \A S \in SUBSET RecordPaths : roots \subseteq S /\ Closed(S) => affected \subseteq S
  /\ "file" \in verdict.affected => "analysis" \in verdict.affected
  /\ "analysis" \in verdict.affected => "graph" \in verdict.affected

=============================================================================
