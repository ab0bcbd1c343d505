----------------------------- MODULE Acquisition ------------------------------
(***************************************************************************)
(* How a repository is read (acquireRepository of                          *)
(* apps/cli/src/application/repository.ts, over packages/scanner and the   *)
(* security filter of packages/core).                                      *)
(*                                                                         *)
(* A path is the sequence of its names, the root is the empty one.  Of a   *)
(* file the model keeps what the code finds out about it, of the ignore    *)
(* files and patterns the verdict of each layer.  Others change and remove *)
(* files while the traversal runs.                                         *)
(***************************************************************************)
EXTENDS Naturals, Sequences, FiniteSets, SequencesExt

CONSTANTS
  Trees,            \* the repositories, each a function from paths to nodes
  MaxDisturbances   \* bound: how often somebody changes a file meanwhile

\* The layers of evaluateIgnorePrecedence, the strongest first.
Layers == <<"cli", "project", "fuzitignore", "gitignore", "builtIn">>
Verdict == {"include", "exclude", "none"}

\* text: what reading finds; only a directory is unlistable.  (An ignore file that
\* cannot be read ends the traversal too, in the middle of its directory.)
Node == [kind : {"file", "directory", "symlink"},
         text : {"plain", "large", "binary", "undecodable", "unlistable"},
         sensitive : BOOLEAN, hard : BOOLEAN, verdict : [DOMAIN Layers -> Verdict]]

\* A repository is finite; its root is a directory, and so is whatever has
\* something in it.
ASSUME TreeAssumption ==
  \A t \in Trees :
    /\ IsFiniteSet(DOMAIN t) /\ DOMAIN t \subseteq Seq(STRING) /\ t \in [DOMAIN t -> Node]
    /\ <<>> \in DOMAIN t /\ t[<<>>].kind = "directory"
    /\ \A p \in DOMAIN t : \A n \in 0..(Len(p) - 1) :
         SubSeq(p, 1, n) \in DOMAIN t /\ t[SubSeq(p, 1, n)].kind = "directory"

VARIABLES
  tree,       \* the repository, as it was found
  version,    \* of each path: 0 as it was found, 1 changed, or Gone
  walk,       \* "none", "walking", "reading" or "done"
  pending,    \* the stack of the traversal
  seen,       \* the version of the file at its top when its reading started
  items,      \* the items acquired, as [path, status]
  omissions   \* what was left out, as [path, reason, failure]

acquisitionVars == <<tree, version, walk, pending, seen, items, omissions>>

Gone == 100
Exists(p) == version[p] # Gone

Reasons == {"sensitive", "ignored", "binary", "traversal-failed", "classification-failed",
            "content-read-failed"}

AcquisitionTypeOK ==
  /\ \A p \in DOMAIN tree : tree[p] \in Node /\ version[p] \in {0, 1, Gone}
  /\ walk \in {"none", "walking", "reading", "done"}
  /\ pending \in Seq(DOMAIN tree)
  /\ items \subseteq [path : DOMAIN tree, status : {"complete", "truncated", "changed"}]
  /\ omissions \subseteq [path : DOMAIN tree, reason : Reasons, failure : BOOLEAN]

AcquisitionInit ==
  /\ tree \in Trees
  /\ version = [p \in DOMAIN tree |-> 0]
  /\ walk = "none" /\ pending = <<>> /\ seen = 0 /\ items = {} /\ omissions = {}

-----------------------------------------------------------------------------
(* Rules.                                                                   *)

\* (mutant: the weakest layer with a verdict wins)
IgnoredByWeakest(p) ==
  \/ tree[p].hard
  \/ \E i \in DOMAIN Layers : /\ tree[p].verdict[i] = "exclude"
                              /\ \A j \in DOMAIN Layers : j > i => tree[p].verdict[j] = "none"

\* evaluateIgnorePrecedence: a hard exclusion wins, then the first layer that
\* has a verdict.
Ignored(p) ==
  \/ tree[p].hard
  \/ \E i \in DOMAIN Layers : /\ tree[p].verdict[i] = "exclude"
                              /\ \A j \in 1..(i - 1) : tree[p].verdict[j] = "none"

\* evaluateSensitivePath comes before any of them and nothing overrides it.
LeftOut(p) == tree[p].sensitive \/ Ignored(p)

Omission(p, reason, failure) == [path |-> p, reason |-> reason, failure |-> failure]
Omit(p, reason, failure) == omissions' = omissions \cup {Omission(p, reason, failure)}

-----------------------------------------------------------------------------
(* The traversal.                                                           *)

Children(d) == {p \in DOMAIN tree : p # <<>> /\ Front(p) = d}

\* readEntries: what stays is pushed, what does not is reported.  A directory
\* that cannot be listed ends the traversal.
Enter(d, stack) ==
  LET there == {p \in Children(d) : Exists(p)}
      kept == {p \in there : ~LeftOut(p)}
  IN  IF tree[d].text = "unlistable" \/ ~Exists(d)
      THEN /\ Omit(<<>>, "traversal-failed", TRUE)
           /\ walk' = "done"
           /\ UNCHANGED pending
      ELSE /\ omissions' = omissions \cup
                {Omission(p, IF tree[p].sensitive THEN "sensitive" ELSE "ignored", FALSE) :
                   p \in there \ kept}
           /\ pending' = SetToSeq(kept) \o stack
           /\ walk' = "walking"

StartWalk ==
  /\ walk = "none"
  /\ Enter(<<>>, <<>>)
  /\ UNCHANGED <<tree, version, seen, items>>

Top == Head(pending)

\* acquireRepository takes regular files only: the traversal enters directories
\* and passes over symbolic links in silence.
VisitOther ==
  /\ walk = "walking" /\ pending # <<>> /\ tree[Top].kind # "file"
  /\ IF tree[Top].kind = "directory" THEN Enter(Top, Tail(pending))
     ELSE pending' = Tail(pending) /\ UNCHANGED <<omissions, walk>>
  /\ UNCHANGED <<tree, version, seen, items>>

\* classifyFile, and the start of readTextContent.
Classify ==
  /\ walk = "walking" /\ pending # <<>> /\ tree[Top].kind = "file"
  /\ IF Exists(Top) /\ tree[Top].text # "binary"
     THEN walk' = "reading" /\ seen' = version[Top] /\ UNCHANGED <<pending, omissions>>
     ELSE /\ Omit(Top, IF Exists(Top) THEN "binary" ELSE "classification-failed", ~Exists(Top))
          /\ pending' = Tail(pending)
          /\ UNCHANGED <<walk, seen>>
  /\ UNCHANGED <<tree, version, items>>

\* The end of readTextContent, and securityFilter: what was read is an item
\* also when the file changed meanwhile, and when it was cut off.
Read(full) ==
  /\ walk = "reading"
  /\ IF Exists(Top) /\ tree[Top].text # "undecodable"
     THEN /\ items' = items \cup
                {[path |-> Top,
                  status |-> IF version[Top] # seen THEN "changed"
                             ELSE IF tree[Top].text = "large" /\ ~full THEN "truncated"
                             ELSE "complete"]}
          /\ UNCHANGED omissions
     ELSE Omit(Top, "content-read-failed", TRUE) /\ UNCHANGED items
  /\ pending' = Tail(pending)
  /\ walk' = "walking"
  /\ UNCHANGED <<tree, version, seen>>

FinishWalk ==
  /\ walk = "walking" /\ pending = <<>>
  /\ walk' = "done"
  /\ UNCHANGED <<tree, version, pending, seen, items, omissions>>

WalkStep(full) == StartWalk \/ VisitOther \/ Classify \/ Read(full) \/ FinishWalk

\* complete, of the result.
Acquired == \A o \in omissions : ~o.failure

-----------------------------------------------------------------------------
(* Others.                                                                  *)

Disturbances == Cardinality({p \in DOMAIN tree : version[p] # 0})

Disturb(p, after) ==
  /\ walk # "done" /\ Disturbances < MaxDisturbances
  /\ tree[p].kind = "file" /\ version[p] = 0
  /\ version' = [version EXCEPT ![p] = after]
  /\ UNCHANGED <<tree, walk, pending, seen, items, omissions>>

AcquisitionNext(full) ==
  \/ WalkStep(full)
  \/ \E p \in DOMAIN tree, after \in {1, Gone} : Disturb(p, after)

-----------------------------------------------------------------------------
(* Properties.                                                              *)

\* What a reader of the rules expects to be left out: what is sensitive or
\* excluded for good, and what the strongest layer that has a verdict excludes.
RuledOut(p) ==
  LET verdicts == {i \in DOMAIN Layers : tree[p].verdict[i] # "none"}
  IN  \/ tree[p].sensitive \/ tree[p].hard
      \/ verdicts # {} /\ tree[p].verdict[Min(verdicts)] = "exclude"

\* The files a reader expects: neither the file nor a directory above it is
\* ruled out.
Expected == {p \in DOMAIN tree : /\ tree[p].kind = "file"
                                 /\ \A n \in 1..Len(p) : ~RuledOut(SubSeq(p, 1, n))}

Above(p) == {SubSeq(p, 1, n) : n \in 0..Len(p)}

\* Nothing gets lost between the traversal, the rules and the filter, although
\* files change under it: when it ends, every file is an item, or it or a
\* directory above it is listed with a reason; nothing is both; an item is a
\* file that the rules let through; and without a failure what the rules let
\* through, is text and stayed is all there, marked when it changed meanwhile
\* (acquireRepository).
FilesAccountedFor ==
  LET got == {i.path : i \in items}
      left == {o.path : o \in omissions}
  IN  /\ got \subseteq Expected /\ got \cap left = {}
      /\ Cardinality(items) = Cardinality(got)
      /\ walk = "done" =>
           /\ \A p \in DOMAIN tree : tree[p].kind = "file" /\ version[p] = 0 =>
                p \in got \/ Above(p) \cap left # {}
           /\ Acquired => {p \in Expected : tree[p].text \in {"plain", "large"}
                                              /\ Exists(p)} \subseteq got
      /\ \A i \in items : version[i.path] = 0 => i.status # "changed"

=============================================================================
