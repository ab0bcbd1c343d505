------------------------------- MODULE Selection ------------------------------
(***************************************************************************)
(* Which files go into the context of a task (createTaskContext of         *)
(* packages/core/src/application/context.ts).                              *)
(*                                                                         *)
(* A candidate is what the scorers make of a file: its score under the     *)
(* weights of the profile, its category, its tokens, and whether the task  *)
(* matches its text or name (topical) or its path (matches).  Candidates   *)
(* are decided one by one, anchors first, then by score and path.          *)
(* Historical documents count as other: their share is the whole budget    *)
(* too.                                                                    *)
(***************************************************************************)
EXTENDS Integers, Sequences, FiniteSets, FiniteSetsExt, Functions

CONSTANTS
  CandidateSets,  \* the repositories, as sets of candidates
  Budgets         \* token budgets

Categories == {"documentation", "implementation", "test", "other"}

\* path is a number that stands for the place in the order of paths.
Candidate == [path : Nat, score : Int, category : Categories, tokens : Nat,
              topical : BOOLEAN, matches : BOOLEAN]

ASSUME SelectionAssumption ==
  /\ CandidateSets \subseteq SUBSET Candidate /\ Budgets \subseteq Nat
  /\ \A cs \in CandidateSets : IsFiniteSet(cs)

VARIABLES
  task,      \* the categories the task asks for and its budget, or none yet
  anchors,   \* the candidates that are decided first
  undecided, \* the candidates that are still to be decided
  decision   \* the candidates decided, with the reason

selectionVars == <<task, anchors, undecided, decision>>

\* The categories a task can ask for, in the order in which it does.
Requestable == <<"documentation", "implementation", "test">>

Request == [requested : SUBSET {"documentation", "implementation", "test"}, budget : Budgets]
NoTask == [requested |-> {}, budget |-> 0]

SelectionTypeOK ==
  /\ task \in Request \cup {NoTask}
  /\ anchors \subseteq Candidate /\ undecided \subseteq Candidate
  /\ DOMAIN decision \subseteq Candidate \ undecided
  /\ Range(decision) \subseteq {"selected", "irrelevant", "off topic", "category", "budget"}

SelectionInit == task = NoTask /\ anchors = {} /\ undecided = {} /\ decision = <<>>

-----------------------------------------------------------------------------
Selected == {c \in DOMAIN decision : decision[c] = "selected"}
Tokens(cs) == MapThenSumSet(LAMBDA c : c.tokens, cs)
Used == Tokens(Selected)

\* The order of the ranking: by score, then by path.
Before(c, d) == c.score > d.score \/ (c.score = d.score /\ c.path < d.path)

AnchorLimit == [documentation |-> 1, implementation |-> 4, test |-> 3]

\* The best candidates of each requested category.
AnchorsOf(cs, category) ==
  LET fit == {c \in cs : c.category = category /\ c.score > 0
                           /\ (category = "documentation" \/ c.matches)}
  IN  {c \in fit : Cardinality({d \in fit : Before(d, c)}) < AnchorLimit[category]}

\* The order of the selection: the anchors by category and rank, then the rest.
Turn(category) == CHOOSE i \in DOMAIN Requestable : Requestable[i] = category
DecidedBefore(c, d) ==
  \/ c \in anchors /\ d \notin anchors
  \/ {c, d} \subseteq anchors /\ Turn(c.category) < Turn(d.category)
  \/ c.category = d.category /\ {c, d} \subseteq anchors /\ Before(c, d)
  \/ {c, d} \cap anchors = {} /\ Before(c, d)

Diverse == {"implementation", "test"} \subseteq task.requested

CategoryLimit(category) ==
  CASE Diverse /\ category = "documentation" -> (task.budget * 25) \div 100
    [] Diverse /\ category = "test"          -> (task.budget * 35) \div 100
    [] OTHER                                 -> task.budget

InCategory(category) == {c \in Selected : c.category = category}

\* (mutant: the budget is compared before the candidate is added)
DecideLate(c) ==
  IF c.score <= 0 THEN "irrelevant"
  ELSE IF Used > task.budget THEN "budget" ELSE "selected"

Decide(c) ==
  IF c.score <= 0 THEN "irrelevant"
  ELSE IF Diverse /\ c.category \in {"implementation", "test"} /\ ~c.topical THEN "off topic"
  ELSE IF Tokens(InCategory(c.category)) + c.tokens > CategoryLimit(c.category)
  THEN "category"
  ELSE IF Used + c.tokens > task.budget THEN "budget"
  ELSE "selected"

-----------------------------------------------------------------------------
\* A budget that is not a positive integer is rejected, with no task.
StartTask(cs, request) ==
  /\ request.budget > 0
  /\ task' = request
  /\ undecided' = cs
  /\ anchors' = UNION {AnchorsOf(cs, category) : category \in request.requested}
  /\ UNCHANGED decision

Consider ==
  /\ \E c \in undecided :
       /\ \A other \in undecided \ {c} : DecidedBefore(c, other)
       /\ decision' = [d \in DOMAIN decision \cup {c} |->
                         IF d = c THEN Decide(c) ELSE decision[d]]
       /\ undecided' = undecided \ {c}
  /\ UNCHANGED <<task, anchors>>

SelectionNext ==
  \/ task = NoTask /\ \E cs \in CandidateSets, request \in Request : StartTask(cs, request)
  \/ Consider

-----------------------------------------------------------------------------
(* Properties.                                                              *)

\* The selection keeps to its budgets and wastes none: what is selected fits
\* the budget and the share of its category; a relevant candidate that is left
\* out for its size still does not fit, whatever is decided later; and of two
\* candidates of one category and size the worse one is never taken for the
\* better, unless the task makes an anchor of it (createTaskContext).
SelectionFair ==
  /\ Used <= task.budget
  /\ \A category \in Categories : Tokens(InCategory(category)) <= CategoryLimit(category)
  /\ \A c \in DOMAIN decision :
       /\ decision[c] = "budget" => Used + c.tokens > task.budget
       /\ decision[c] = "category" =>
            Tokens(InCategory(c.category)) + c.tokens > CategoryLimit(c.category)
       /\ \A d \in Selected :
            (decision[c] \in {"budget", "category"} /\ c.category = d.category
               /\ c.tokens <= d.tokens /\ d \notin anchors)
              => Before(d, c)

=============================================================================
