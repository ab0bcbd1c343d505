---------------------------- MODULE PipelineProofs ----------------------------
(***************************************************************************)
(* Proofs about the parts of Pipeline that choose and deliver: selections  *)
(* are fair, searches find what they promise, and packs are honest; and    *)
(* the state of all parts, those of RepositoryProofs too, keeps its type.  *)
(***************************************************************************)
EXTENDS RepositoryProofs

-----------------------------------------------------------------------------
(* Selection: the inductive invariant.                                      *)

\* What is decided comes, in the order of decisions, before what is not; what
\* was left out for its size could not be taken since.
SelectionInv ==
  /\ SelectionTypeOK /\ IsFiniteSet(DOMAIN decision)
  /\ task = NoTask => decision = <<>> /\ undecided = {}
  /\ \A d \in DOMAIN decision, c \in undecided : DecidedBefore(d, c)
  /\ SelectionFair

Weight == [c \in Candidate |-> c.tokens]

LEMMA TokensAreTotal ==
  ASSUME NEW cs \in SUBSET Candidate, IsFiniteSet(cs)
  PROVE  Tokens(cs) = Total(Weight, cs)
<1> DEFINE Body(g, s) == IF s = {} THEN 0 ELSE Pick(s).tokens + g[s \ {Pick(s)}]
           IsFold(g) == g = [s \in SUBSET cs |-> Body(g, s)]
<1>1. Tokens(cs) = (CHOOSE g : IsFold(g))[cs]
  BY DEF Tokens, MapThenSumSet, MapThenFoldSet, Pick
<1>2. \A g : IsFold(g) <=> IsTally(g, Weight, cs)
  <2> TAKE g
  <2> DEFINE Other(s) == IF s = {} THEN 0 ELSE Weight[Pick(s)] + g[s \ {Pick(s)}]
  <2>1. ASSUME NEW s \in SUBSET cs PROVE Body(g, s) = Other(s)
    <3>1. s # {} => Pick(s) \in s
      BY DEF Pick
    <3>2. s # {} => Weight[Pick(s)] = Pick(s).tokens
      BY <3>1 DEF Weight
    <3> QED
      BY <3>2
  <2>2. [s \in SUBSET cs |-> Body(g, s)] = [s \in SUBSET cs |-> Other(s)]
    <3> HIDE DEF Body, Other
    <3> QED
      BY <2>1
  <2> QED
    BY <2>2 DEF IsTally
<1>3. PICK g : IsTally(g, Weight, cs)
  BY TallyExists
<1>4. PICK f : f = (CHOOSE h : IsFold(h))
  OBVIOUS
<1>5. IsFold(f)
  <2> HIDE DEF IsFold
  <2> QED
    BY <1>2, <1>3, <1>4
<1> HIDE DEF IsFold
<1>6. IsTally(f, Weight, cs)
  BY <1>2, <1>5
<1>7. \A c \in cs : Weight[c] \in Nat
  BY DEF Weight, Candidate
<1>8. PICK h : IsTally(h, Weight, cs) /\ Total(Weight, cs) = h[cs]
  BY <1>7, TotalIs
<1>9. f[cs] = h[cs]
  BY <1>6, <1>7, <1>8, TalliesAgree
<1> QED
  BY <1>1, <1>4, <1>8, <1>9

LEMMA TokensNat ==
  ASSUME NEW cs \in SUBSET Candidate, IsFiniteSet(cs)
  PROVE  Tokens(cs) \in Nat /\ (cs = {} => Tokens(cs) = 0)
<1>1. \A c \in cs : Weight[c] \in Nat
  BY DEF Weight, Candidate
<1> QED
  BY <1>1, TokensAreTotal, TotalNat

LEMMA TokensPlus ==
  ASSUME NEW cs \in SUBSET Candidate, IsFiniteSet(cs), NEW e \in Candidate \ cs
  PROVE  Tokens(cs \cup {e}) = Tokens(cs) + e.tokens
<1>1. (\A c \in cs : Weight[c] \in Nat) /\ Weight[e] = e.tokens /\ e.tokens \in Nat
  BY DEF Weight, Candidate
<1>2. Total(Weight, cs \cup {e}) = Total(Weight, cs) + Weight[e]
  BY <1>1, TotalPlus
<1>3. cs \cup {e} \in SUBSET Candidate /\ IsFiniteSet(cs \cup {e})
  BY FS_AddElement
<1> QED
  BY <1>1, <1>2, <1>3, TokensAreTotal

LEMMA CategoryLimitNat ==
  ASSUME SelectionTypeOK
  PROVE  task.budget \in Nat /\ \A category : CategoryLimit(category) \in Nat
<1>1. task.budget \in Nat
  <2>1. CASE task = NoTask
    BY <2>1 DEF NoTask
  <2>2. CASE task \in Request
    <3>1. task.budget \in Budgets
      BY <2>2 DEF Request
    <3> QED
      BY <3>1, SelectionAssumption
  <2> QED
    BY <2>1, <2>2 DEF SelectionTypeOK
<1>2. PICK b \in Nat : b = task.budget
  BY <1>1
<1>3. (b * 25) \div 100 \in Nat /\ (b * 35) \div 100 \in Nat
  OBVIOUS
<1> QED
  BY <1>1, <1>2, <1>3 DEF CategoryLimit

LEMMA NothingSelected ==
  decision = <<>> /\ SelectionTypeOK => IsFiniteSet(DOMAIN decision) /\ SelectionFair
<1> SUFFICES ASSUME decision = <<>>, SelectionTypeOK
             PROVE  IsFiniteSet(DOMAIN decision) /\ SelectionFair
  OBVIOUS
<1>1. DOMAIN decision = {}
  OBVIOUS
<1>2. Selected = {} /\ \A category : InCategory(category) = {}
  BY <1>1 DEF Selected, InCategory
<1>3. Tokens({}) = 0
  BY TokensNat, FS_EmptySet
<1>4. task.budget \in Nat /\ \A category : CategoryLimit(category) \in Nat
  BY CategoryLimitNat
<1>5. Used <= task.budget /\ \A category \in Categories : Tokens(InCategory(category)) <= CategoryLimit(category)
  <2>1. Used = 0
    BY <1>2, <1>3 DEF Used
  <2>2. ASSUME NEW category PROVE Tokens(InCategory(category)) = 0
    <3>1. InCategory(category) = {}
      BY <1>2
    <3> QED
      BY <1>3, <3>1
  <2> QED
    BY <1>4, <2>1, <2>2
<1> QED
  BY <1>1, <1>5, FS_EmptySet DEF SelectionFair

LEMMA InitSelectionInv == SelectionInit => SelectionInv
<1> SUFFICES ASSUME SelectionInit PROVE SelectionInv
  OBVIOUS
<1>1. decision = <<>> /\ DOMAIN decision = {} /\ Range(decision) = {}
  BY DEF SelectionInit, Range
<1>2. SelectionTypeOK
  BY <1>1 DEF SelectionInit, SelectionTypeOK
<1> QED
  BY <1>1, <1>2, NothingSelected DEF SelectionInv, SelectionInit

LEMMA StartTaskKeeps ==
  ASSUME SelectionInv, task = NoTask, NEW cs \in CandidateSets, NEW asked \in Request,
         StartTask(cs, asked)
  PROVE  SelectionInv'
<1>1. decision' = <<>> /\ DOMAIN decision' = {} /\ Range(decision') = {}
  BY DEF StartTask, SelectionInv, Range
<1>2. SelectionTypeOK'
  <2>1. cs \subseteq Candidate
    BY SelectionAssumption
  <2>2. \A category : AnchorsOf(cs, category) \subseteq cs
    BY DEF AnchorsOf
  <2>3. anchors' \subseteq Candidate
    BY <2>1, <2>2 DEF StartTask
  <2> QED
    BY <1>1, <2>1, <2>3 DEF StartTask, SelectionTypeOK
<1>3. IsFiniteSet(DOMAIN decision)' /\ SelectionFair'
  <2>1. (decision = <<>> /\ SelectionTypeOK => IsFiniteSet(DOMAIN decision) /\ SelectionFair)'
    BY NothingSelected, PTL
  <2> QED
    BY <1>1, <1>2, <2>1
<1>4. task' # NoTask
  BY DEF StartTask, NoTask
<1> QED
  BY <1>1, <1>2, <1>3, <1>4 DEF SelectionInv

\* What has been selected after a decision, and what it sums up to.
LEMMA DecisionSums ==
  ASSUME SelectionInv, NEW e \in undecided,
         decision' = [d \in DOMAIN decision \cup {e} |->
                        IF d = e THEN Decide(e) ELSE decision[d]]
  PROVE  /\ e \in Candidate \ DOMAIN decision
         /\ Used \in Nat /\ \A category : Tokens(InCategory(category)) \in Nat
         /\ Decide(e) # "selected" =>
              Selected' = Selected /\ Used' = Used
                /\ \A category : Tokens(InCategory(category))' = Tokens(InCategory(category))
         /\ Decide(e) = "selected" =>
              /\ Selected' = Selected \cup {e} /\ Used' = Used + e.tokens
              /\ Tokens(InCategory(e.category))' = Tokens(InCategory(e.category)) + e.tokens
              /\ \A category : category # e.category =>
                   Tokens(InCategory(category))' = Tokens(InCategory(category))
<1>0. /\ e \in Candidate \ DOMAIN decision
      /\ DOMAIN decision \subseteq Candidate /\ IsFiniteSet(DOMAIN decision)
  BY DEF SelectionInv, SelectionTypeOK
<1>1. Selected \subseteq DOMAIN decision /\ \A category : InCategory(category) \subseteq Selected
  BY DEF Selected, InCategory
<1>2. /\ Selected \in SUBSET Candidate /\ IsFiniteSet(Selected)
      /\ \A category : InCategory(category) \in SUBSET Candidate /\ IsFiniteSet(InCategory(category))
  BY <1>0, <1>1, FS_Subset
<1>3. Used \in Nat /\ \A category : Tokens(InCategory(category)) \in Nat
  BY <1>2, TokensNat DEF Used
<1>4. DOMAIN decision' = DOMAIN decision \cup {e} /\ decision'[e] = Decide(e)
      /\ \A d \in DOMAIN decision : decision'[d] = decision[d]
  BY <1>0
<1>5. CASE Decide(e) # "selected"
  <2>1. Selected' = Selected
    BY <1>0, <1>4, <1>5 DEF Selected
  <2>2. \A category : InCategory(category)' = InCategory(category)
    BY <2>1 DEF InCategory
  <2>3. Used' = Used /\ \A category : Tokens(InCategory(category))' = Tokens(InCategory(category))
    BY <2>1, <2>2 DEF Used
  <2> QED
    BY <1>0, <1>3, <1>5, <2>1, <2>3
<1>6. CASE Decide(e) = "selected"
  <2>1. Selected' = Selected \cup {e}
    BY <1>0, <1>4, <1>6 DEF Selected
  <2>2. /\ InCategory(e.category)' = InCategory(e.category) \cup {e}
        /\ \A category : category # e.category => InCategory(category)' = InCategory(category)
    BY <2>1 DEF InCategory
  <2>3. e \notin Selected /\ e \notin InCategory(e.category)
    BY <1>0, <1>1
  <2>4. Tokens(Selected \cup {e}) = Tokens(Selected) + e.tokens
    BY <1>0, <1>2, <2>3, TokensPlus
  <2>5. Tokens(InCategory(e.category) \cup {e}) = Tokens(InCategory(e.category)) + e.tokens
    BY <1>0, <1>2, <2>3, TokensPlus
  <2>6. Used' = Tokens(Selected \cup {e})
    BY <2>1 DEF Used
  <2>7. Tokens(InCategory(e.category))' = Tokens(InCategory(e.category) \cup {e})
    BY <2>2
  <2>8. \A category : category # e.category =>
          Tokens(InCategory(category))' = Tokens(InCategory(category))
    BY <2>2
  <2> QED
    BY <1>0, <1>3, <1>6, <2>1, <2>4, <2>5, <2>6, <2>7, <2>8 DEF Used
<1> QED
  BY <1>5, <1>6

LEMMA ConsiderKeeps == SelectionInv /\ Consider => SelectionInv'
<1> SUFFICES ASSUME SelectionInv, Consider PROVE SelectionInv'
  OBVIOUS
<1>1. PICK e \in undecided :
        /\ \A other \in undecided \ {e} : DecidedBefore(e, other)
        /\ decision' = [d \in DOMAIN decision \cup {e} |->
                          IF d = e THEN Decide(e) ELSE decision[d]]
        /\ undecided' = undecided \ {e}
  BY DEF Consider
<1>2. UNCHANGED <<task, anchors>>
  BY DEF Consider
<1>3. PICK reason : reason = Decide(e)
  OBVIOUS
<1>4. /\ DOMAIN decision' = DOMAIN decision \cup {e} /\ decision'[e] = reason
      /\ \A d \in DOMAIN decision : decision'[d] = decision[d]
      /\ e \in Candidate \ DOMAIN decision
  BY <1>1, <1>3, DecisionSums
<1>5. reason \in {"selected", "irrelevant", "off topic", "category", "budget"}
  BY <1>3 DEF Decide
<1>6. SelectionTypeOK'
  <2>1. Range(decision') \subseteq {"selected", "irrelevant", "off topic", "category", "budget"}
    BY <1>4, <1>5 DEF SelectionInv, SelectionTypeOK, Range
  <2>2. DOMAIN decision' \subseteq Candidate \ undecided'
    BY <1>1, <1>4 DEF SelectionInv, SelectionTypeOK
  <2> QED
    BY <1>1, <1>2, <2>1, <2>2 DEF SelectionInv, SelectionTypeOK
<1>7. IsFiniteSet(DOMAIN decision)'
  BY <1>4, FS_AddElement DEF SelectionInv
<1>8. (task = NoTask => decision = <<>> /\ undecided = {})'
  <2>1. task # NoTask
    BY <1>1 DEF SelectionInv
  <2> QED
    BY <1>2, <2>1
<1>9. (\A d \in DOMAIN decision, c \in undecided : DecidedBefore(d, c))'
  <2> SUFFICES ASSUME NEW d \in DOMAIN decision', NEW c \in undecided' PROVE DecidedBefore(d, c)'
    OBVIOUS
  <2>1. DecidedBefore(d, c)
    BY <1>1, <1>4 DEF SelectionInv
  <2> QED
    BY <1>2, <2>1 DEF DecidedBefore
<1>10. SelectionFair'
  <2>1. /\ task.budget \in Nat /\ \A category : CategoryLimit(category) \in Nat
        /\ task'.budget = task.budget /\ \A category : CategoryLimit(category)' = CategoryLimit(category)
    BY <1>2, CategoryLimitNat DEF SelectionInv, CategoryLimit, Diverse
  <2>2. /\ Used \in Nat /\ \A category : Tokens(InCategory(category)) \in Nat
        /\ e.tokens \in Nat /\ e.category \in Categories
    BY <1>1, <1>4, DecisionSums DEF Candidate
  <2>3. /\ Used <= task.budget
        /\ \A category \in Categories : Tokens(InCategory(category)) <= CategoryLimit(category)
    BY DEF SelectionInv, SelectionFair
  <2>4. /\ reason = "selected" =>
             /\ Used + e.tokens <= task.budget
             /\ Tokens(InCategory(e.category)) + e.tokens <= CategoryLimit(e.category)
        /\ reason = "budget" => Used + e.tokens > task.budget
        /\ reason = "category" =>
             Tokens(InCategory(e.category)) + e.tokens > CategoryLimit(e.category)
    <3>1. PICK a, b, t, l, m : a = Used /\ b = task.budget /\ t = Tokens(InCategory(e.category))
                               /\ l = CategoryLimit(e.category) /\ m = e.tokens
      OBVIOUS
    <3>2. a \in Nat /\ b \in Nat /\ t \in Nat /\ l \in Nat /\ m \in Nat
      BY <2>1, <2>2, <3>1
    <3>3. /\ reason = "selected" => ~(a + m > b) /\ ~(t + m > l)
          /\ reason = "budget" => a + m > b
          /\ reason = "category" => t + m > l
      BY <1>3, <3>1 DEF Decide
    <3> QED
      BY <3>1, <3>2, <3>3
  <2>5. /\ reason # "selected" =>
             Selected' = Selected /\ Used' = Used
               /\ \A category : Tokens(InCategory(category))' = Tokens(InCategory(category))
        /\ reason = "selected" =>
             /\ Selected' = Selected \cup {e} /\ Used' = Used + e.tokens
             /\ Tokens(InCategory(e.category))' = Tokens(InCategory(e.category)) + e.tokens
             /\ \A category : category # e.category =>
                  Tokens(InCategory(category))' = Tokens(InCategory(category))
    BY <1>1, <1>3, DecisionSums
  <2>6. Used' <= task.budget /\ Used' \in Nat /\ Used <= Used'
    BY <2>1, <2>2, <2>3, <2>4, <2>5
  <2>7. ASSUME NEW category \in Categories
        PROVE  /\ Tokens(InCategory(category))' <= CategoryLimit(category)
               /\ Tokens(InCategory(category))' \in Nat
               /\ Tokens(InCategory(category)) <= Tokens(InCategory(category))'
    <3>1. CASE reason = "selected" /\ category = e.category
      BY <2>1, <2>2, <2>4, <2>5, <3>1
    <3>2. CASE ~(reason = "selected" /\ category = e.category)
      <4>1. Tokens(InCategory(category))' = Tokens(InCategory(category))
        BY <2>5, <3>2
      <4> QED
        BY <2>1, <2>2, <2>3, <4>1
    <3> QED
      BY <3>1, <3>2
  <2>8. \A c \in DOMAIN decision' : c.category \in Categories /\ c.tokens \in Nat
    BY <1>6 DEF SelectionTypeOK, Candidate
  <2>9. ASSUME NEW c \in DOMAIN decision', decision'[c] = "budget"
        PROVE  Used' + c.tokens > task.budget
    <3>1. CASE c = e
      BY <1>4, <2>4, <2>5, <2>9, <3>1
    <3>2. CASE c # e
      <4>1. Used + c.tokens > task.budget
        BY <1>4, <2>9, <3>2 DEF SelectionInv, SelectionFair
      <4> QED
        BY <2>1, <2>2, <2>6, <2>8, <4>1
    <3> QED
      BY <3>1, <3>2
  <2>10. ASSUME NEW c \in DOMAIN decision', decision'[c] = "category"
         PROVE  Tokens(InCategory(c.category))' + c.tokens > CategoryLimit(c.category)
    <3>1. CASE c = e
      BY <1>4, <2>4, <2>5, <2>10, <3>1
    <3>2. CASE c # e
      <4>1. Tokens(InCategory(c.category)) + c.tokens > CategoryLimit(c.category)
        BY <1>4, <2>10, <3>2 DEF SelectionInv, SelectionFair
      <4> QED
        BY <2>1, <2>2, <2>7, <2>8, <4>1
    <3> QED
      BY <3>1, <3>2
  <2>11. ASSUME NEW c \in DOMAIN decision', NEW d \in Selected',
                decision'[c] \in {"budget", "category"}, c.category = d.category,
                c.tokens <= d.tokens, d \notin anchors'
         PROVE  Before(d, c)
    <3>1. CASE c = e
      <4>1. d \in DOMAIN decision /\ d \in Selected
        BY <1>4, <2>5, <2>11, <3>1 DEF Selected
      <4>2. DecidedBefore(d, e)
        BY <1>1, <4>1 DEF SelectionInv
      <4> QED
        BY <1>2, <2>11, <3>1, <4>2 DEF DecidedBefore
    <3>2. CASE c # e /\ d = e
      <4>1. reason = "selected" /\ c \in DOMAIN decision /\ decision'[c] = decision[c]
        BY <1>4, <2>11, <3>2 DEF Selected
      <4>2. /\ Used + e.tokens <= task.budget
            /\ Tokens(InCategory(e.category)) + e.tokens <= CategoryLimit(e.category)
            /\ c.tokens <= e.tokens /\ c.category = e.category
        BY <2>4, <2>11, <3>2, <4>1
      <4>3. Used + c.tokens > task.budget
            \/ Tokens(InCategory(c.category)) + c.tokens > CategoryLimit(c.category)
        BY <2>11, <4>1 DEF SelectionInv, SelectionFair
      <4> QED
        BY <2>1, <2>2, <2>8, <4>2, <4>3
    <3>3. CASE c # e /\ d # e
      <4>1. c \in DOMAIN decision /\ decision'[c] = decision[c] /\ d \in Selected
        BY <1>4, <2>5, <2>11, <3>3
      <4> QED
        BY <1>2, <2>11, <4>1 DEF SelectionInv, SelectionFair
    <3> QED
      BY <3>1, <3>2, <3>3
  <2> QED
    BY <2>1, <2>6, <2>7, <2>8, <2>9, <2>10, <2>11 DEF SelectionFair
<1> QED
  BY <1>6, <1>7, <1>8, <1>9, <1>10 DEF SelectionInv

LEMMA SelectionNextKeeps == SelectionInv /\ [SelectionNext]_selectionVars => SelectionInv'
<1> SUFFICES ASSUME SelectionInv, [SelectionNext]_selectionVars PROVE SelectionInv'
  OBVIOUS
<1>1. CASE SelectionNext
  BY <1>1, StartTaskKeeps, ConsiderKeeps DEF SelectionNext
<1>2. CASE UNCHANGED selectionVars
  <2>1. UNCHANGED <<task, anchors, undecided, decision>>
    BY <1>2 DEF selectionVars
  <2>2. SelectionTypeOK' /\ Selected' = Selected
    BY <2>1 DEF SelectionInv, SelectionTypeOK, Selected
  <2>3. \A category : InCategory(category)' = InCategory(category)
                        /\ CategoryLimit(category)' = CategoryLimit(category)
    BY <2>1, <2>2 DEF InCategory, CategoryLimit, Diverse
  <2>4. Used' = Used /\ \A category : Tokens(InCategory(category))' = Tokens(InCategory(category))
    BY <2>2, <2>3 DEF Used
  <2>5. SelectionFair'
    BY <2>1, <2>2, <2>3, <2>4 DEF SelectionInv, SelectionFair
  <2> QED
    BY <2>1, <2>2, <2>5 DEF SelectionInv, DecidedBefore
<1> QED
  BY <1>1, <1>2

LEMMA SelectionSteps == [PipelineNext]_pipelineVars => [SelectionNext]_selectionVars
BY DEF PipelineNext, pipelineVars

\* Whatever the repository, the task and the budget: what is selected keeps to
\* the budget and to the share of each category, a candidate that was left out
\* for its size still does not fit at the end, and none that ranks behind it
\* and is no smaller was taken for it.
THEOREM SelectionStaysFair == PipelineSpec => []SelectionFair
<1>1. PipelineInit => SelectionInv
  BY InitSelectionInv DEF PipelineInit
<1>2. SelectionInv /\ [PipelineNext]_pipelineVars => SelectionInv'
  BY SelectionSteps, SelectionNextKeeps
<1>3. SelectionInv => SelectionFair
  BY DEF SelectionInv
<1> QED
  BY <1>1, <1>2, <1>3, PTL DEF PipelineSpec

-----------------------------------------------------------------------------
(* The searches of the graph: the inductive invariant.                      *)

\* A walk from a start.
IsWay(p) ==
  /\ p \in Seq(graph.nodes) /\ p # <<>>
  /\ p[1] \in request.starts /\ IsWalk(p)

\* What a search in rounds knows of a node: how far it is at most.
Known == request.starts \cup DOMAIN found
Level(n) == IF n \in request.starts THEN 0 ELSE Len(found[n]) - 1
KnownWithin(n, l) == n \in Known /\ Level(n) <= l

\* The edges before a place lead from a node to nodes known within a level.
ScannedTo(i, n, l) ==
  \A k \in 1..(i - 1) : LET m == OtherEnd(graph.edges[k], n)
                        IN  graph.edges[k].kind \in request.edgeKinds /\ m # 0 => KnownWithin(m, l)

\* All edges of a node were followed.
Opened(n) == \A m \in graph.nodes : Joined(n, m) => KnownWithin(m, Level(n) + 1)

\* A node whose edges were not followed yet is at the depth of the round, and
\* its turn comes or it is being visited.
Opening(n) ==
  /\ Level(n) = depth
  /\ \/ \E p \in frontier : Last(p) = n
     \/ at # 0 /\ Last(visiting) = n /\ ScannedTo(at, n, depth + 1)

RoundInv ==
  /\ depth <= request.depth
  /\ depth = request.depth => upcoming = {} /\ at = 0
  /\ \A p \in frontier : IsWay(p) /\ Len(p) = depth + 1
  /\ \A p \in upcoming : IsWay(p) /\ Len(p) = depth + 2
  /\ at # 0 => IsWay(visiting) /\ Len(visiting) = depth + 1
  /\ \A p \in frontier \cup upcoming : \A j \in DOMAIN p : KnownWithin(p[j], j - 1)
  /\ at # 0 => \A j \in DOMAIN visiting : KnownWithin(visiting[j], j - 1)
  /\ \A n \in DOMAIN found : Len(found[n]) <= depth + 2
  /\ \A n \in DOMAIN found \ request.starts : Len(found[n]) = depth + 2 => found[n] \in upcoming
  /\ \A n \in Known : Level(n) <= depth => Opened(n) \/ Opening(n)

\* What an expansion owes to a node that it met: it took it, its turn comes,
\* or it does not fit.
Fits(n) == n \in Listed /\ Spent + graph.cost[n] <= request.budget
Placed(m, l) ==
  \/ m \in DOMAIN found /\ Len(found[m]) <= l
  \/ \E i \in DOMAIN awaiting : Last(awaiting[i]) = m /\ Len(awaiting[i]) <= l
  \/ m \notin DOMAIN found \cup request.anchors /\ ~Fits(m)
ToFollow(n, m) ==
  /\ at # 0 /\ Last(visiting) = n
  /\ \E i \in at..Len(graph.edges) : /\ graph.edges[i].kind \in request.edgeKinds
                                     /\ OtherEnd(graph.edges[i], n) = m

QueueInv ==
  /\ \A i \in DOMAIN awaiting :
       /\ IsWay(awaiting[i]) /\ Len(awaiting[i]) <= request.depth + 1
       /\ \A j \in 1..(Len(awaiting[i]) - 1) : awaiting[i][j] \in DOMAIN found
       /\ at # 0 => Len(awaiting[i]) \in Len(visiting)..(Len(visiting) + 1)
       /\ \A n \in DOMAIN found : Len(found[n]) <= Len(awaiting[i])
  /\ \A i, j \in DOMAIN awaiting :
       /\ Len(awaiting[j]) <= Len(awaiting[i]) + 1
       /\ i < j => Len(awaiting[i]) <= Len(awaiting[j])
  /\ at # 0 => /\ Last(visiting) \in DOMAIN found /\ visiting = found[Last(visiting)]
               /\ Len(visiting) <= request.depth
               /\ \A n \in DOMAIN found : Len(found[n]) <= Len(visiting)

TakenInv ==
  /\ \A n \in DOMAIN found : Len(found[n]) <= request.depth + 1 /\ Range(found[n]) \subseteq DOMAIN found
  /\ DOMAIN found \subseteq Listed \cup request.anchors
  /\ Spent <= request.budget \/ DOMAIN found \subseteq request.anchors
  /\ \A a \in request.anchors \ DOMAIN found :
       /\ DOMAIN found \subseteq request.anchors
       /\ \E i \in DOMAIN awaiting :
            awaiting[i] = <<a>> /\ \A j \in 1..i : Last(awaiting[j]) \in request.anchors

ExpansionInv ==
  /\ QueueInv /\ TakenInv /\ request.anchors \subseteq request.starts
  /\ ~bounded =>
       /\ \A n \in request.starts : Placed(n, 1)
       /\ \A n \in DOMAIN found, m \in graph.nodes :
            Joined(n, m) /\ Len(found[n]) <= request.depth =>
              Placed(m, Len(found[n]) + 1) \/ ToFollow(n, m)

SearchInv ==
  /\ GraphSearchTypeOK
  /\ status # "refused" => request.starts \subseteq graph.nodes
  /\ \A n \in DOMAIN found : IsWay(found[n]) /\ Last(found[n]) = n
  /\ status = "none" =>
       /\ depth = 0 /\ frontier = {} /\ upcoming = {} /\ awaiting = <<>> /\ visiting = <<>>
       /\ at = 0 /\ found = <<>> /\ ~bounded
  /\ Running("neighbors") \/ Running("scoring") => RoundInv
  /\ Running("neighbors") => request.starts \subseteq DOMAIN found /\ at = 0
  /\ Running("expansion") => ExpansionInv
  /\ status = "done" => GraphSearchSound
-----------------------------------------------------------------------------
(* The searches of the graph: edges and walks.                              *)

LEMMA GraphFacts ==
  ASSUME GraphSearchTypeOK
  PROVE  /\ IsFiniteSet(graph.nodes) /\ graph.nodes \subseteq Nat \ {0}
         /\ graph.cost \in [graph.nodes -> Nat]
         /\ graph.edges \in Seq([kind : STRING, source : graph.nodes,
                                 target : graph.nodes \cup {0}])
<1>1. CASE graph \in Graphs
  BY <1>1, GraphSearchAssumption
<1>2. CASE graph = NoGraph
  <2>1. graph.nodes = {} /\ graph.cost = <<>> /\ graph.edges = <<>>
    BY <1>2 DEF NoGraph
  <2>2. <<>> \in [{} -> Nat] /\ \A S : <<>> \in Seq(S)
    OBVIOUS
  <2> QED
    BY <2>1, <2>2, FS_EmptySet
<1> QED
  BY <1>1, <1>2 DEF GraphSearchTypeOK

\* The other ends of the edges of a node.
LEMMA EndsAre ==
  ASSUME GraphSearchTypeOK, NEW n \in graph.nodes
  PROVE  /\ 0 \notin graph.nodes
         /\ \A i \in DOMAIN graph.edges : OtherEnd(graph.edges[i], n) \in graph.nodes \cup {0}
<1>1. ASSUME NEW i \in DOMAIN graph.edges PROVE OtherEnd(graph.edges[i], n) \in graph.nodes \cup {0}
  <2> DEFINE E == [kind : STRING, source : graph.nodes, target : graph.nodes \cup {0}]
  <2>2. graph.edges \in Seq(E)
    BY GraphFacts
  <2> HIDE DEF E
  <2>3. graph.edges[i] \in E
    BY <2>2
  <2>1. graph.edges[i] \in [kind : STRING, source : graph.nodes, target : graph.nodes \cup {0}]
    BY <2>3 DEF E
  <2> QED
    BY <2>1 DEF OtherEnd
<1> QED
  BY <1>1, GraphFacts

LEMMA JoinedEnds ==
  ASSUME GraphSearchTypeOK, NEW n \in graph.nodes, NEW m \in graph.nodes
  PROVE  /\ Joined(n, m) <=> \E i \in DOMAIN graph.edges :
                                /\ graph.edges[i].kind \in request.edgeKinds
                                /\ OtherEnd(graph.edges[i], n) = m
         /\ Joined(n, m) <=> Joined(m, n)
<1>1. m # 0
  BY GraphFacts
<1>2. Joined(n, m) <=> \E i \in DOMAIN graph.edges :
         /\ graph.edges[i].kind \in request.edgeKinds
         /\ {n, m} = {graph.edges[i].source, graph.edges[i].target}
  BY DEF Joined, EdgesOf, Range
<1>3. ASSUME NEW e
      PROVE  {n, m} = {e.source, e.target} <=> OtherEnd(e, n) = m
  BY <1>1 DEF OtherEnd
<1>4. \A a, b : {a, b} = {b, a}
  OBVIOUS
<1> QED
  BY <1>2, <1>3, <1>4 DEF Joined

LEMMA LongerWay ==
  ASSUME GraphSearchTypeOK, NEW p, IsWay(p), NEW m \in graph.nodes, Joined(Last(p), m)
  PROVE  /\ IsWay(Append(p, m)) /\ Last(Append(p, m)) = m
         /\ Len(Append(p, m)) = Len(p) + 1 /\ Len(p) \in Nat \ {0}
         /\ DOMAIN Append(p, m) = 1..(Len(p) + 1)
         /\ \A j \in 1..Len(p) : Append(p, m)[j] = p[j]
<1>1. p \in Seq(graph.nodes) /\ p # <<>> /\ Len(p) \in Nat \ {0}
  BY DEF IsWay
<1>2. /\ Append(p, m) \in Seq(graph.nodes) /\ Len(Append(p, m)) = Len(p) + 1
      /\ \A j \in 1..Len(p) : Append(p, m)[j] = p[j]
      /\ Append(p, m)[Len(p) + 1] = m /\ Append(p, m) # <<>>
  BY <1>1
<1>3. ASSUME NEW j \in 1..Len(p) PROVE Joined(Append(p, m)[j], Append(p, m)[j + 1])
  <2>1. CASE j = Len(p)
    BY <1>1, <1>2, <2>1 DEF Last
  <2>2. CASE j < Len(p)
    <3>1. j \in 1..(Len(p) - 1) /\ j + 1 \in 1..Len(p)
      BY <1>1, <2>2
    <3> QED
      BY <1>2, <3>1 DEF IsWay, IsWalk
  <2> QED
    BY <1>1, <2>1, <2>2
<1>4. Last(Append(p, m)) = m
  BY <1>2 DEF Last
<1>5. IsWalk(Append(p, m))
  BY <1>1, <1>2, <1>3 DEF IsWalk
<1>6. Append(p, m)[1] \in request.starts
  BY <1>1, <1>2 DEF IsWay
<1>7. DOMAIN Append(p, m) = 1..(Len(p) + 1)
  BY <1>2
<1> QED
  BY <1>1, <1>2, <1>4, <1>5, <1>6, <1>7 DEF IsWay

LEMMA WayEnds ==
  ASSUME NEW p, IsWay(p)
  PROVE  /\ Len(p) \in Nat \ {0} /\ DOMAIN p = 1..Len(p) /\ Last(p) = p[Len(p)]
         /\ Last(p) \in graph.nodes /\ p \in Seq(graph.nodes)
         /\ \A j \in DOMAIN p : p[j] \in graph.nodes
BY DEF IsWay, Last

LEMMA FirstWay ==
  ASSUME NEW n \in graph.nodes, n \in request.starts
  PROVE  IsWay(<<n>>) /\ Last(<<n>>) = n /\ Len(<<n>>) = 1 /\ DOMAIN <<n>> = {1} /\ <<n>>[1] = n
<1>1. PICK p : p = <<n>>
  OBVIOUS
<1>2. p \in Seq(graph.nodes) /\ p # <<>> /\ Len(p) = 1 /\ DOMAIN p = {1} /\ p[1] = n
  <2>1. Len(p) = 1 /\ p[1] = n /\ p # <<>>
    BY <1>1
  <2>2. p \in Seq(graph.nodes)
    <3>1. \A S : \A x \in S : <<x>> \in Seq(S)
      OBVIOUS
    <3> QED
      BY <1>1, <3>1
  <2>3. DOMAIN p = 1..1
    BY <2>1, <2>2
  <2> QED
    BY <2>1, <2>2, <2>3
<1>3. IsWay(p) /\ Last(p) = n
  BY <1>2 DEF IsWay, Last, IsWalk
<1> QED
  BY <1>1, <1>2, <1>3

LEMMA NextEdge ==
  ASSUME GraphSearchTypeOK, NEW i \in 0..Len(graph.edges)
  PROVE  /\ EdgeAfter(i) \in 0..Len(graph.edges)
         /\ EdgeAfter(i) # 0 => EdgeAfter(i) = i + 1
         /\ EdgeAfter(i) = 0 => i = Len(graph.edges)
<1>1. Len(graph.edges) \in Nat
  BY GraphFacts
<1> QED
  BY <1>1 DEF EdgeAfter

-----------------------------------------------------------------------------
(* The searches in rounds: levels and walks.                                *)

WaysKnown ==
  /\ GraphSearchTypeOK /\ request.starts \subseteq graph.nodes
  /\ \A n \in DOMAIN found : IsWay(found[n]) /\ Last(found[n]) = n

OpenedBelow(d) == \A n \in Known : Level(n) < d => Opened(n)

LEMMA LevelNat ==
  ASSUME WaysKnown, NEW n \in Known
  PROVE  Level(n) \in Nat /\ n \in graph.nodes /\ (n \notin request.starts => Level(n) > 0)
<1>1. CASE n \in request.starts
  BY <1>1 DEF Level, WaysKnown
<1>2. CASE n \notin request.starts
  <2>1. n \in DOMAIN found /\ IsWay(found[n]) /\ Last(found[n]) = n
    BY <1>2 DEF Known, WaysKnown
  <2>2. Len(found[n]) \in Nat \ {0} /\ n \in graph.nodes /\ n = found[n][Len(found[n])]
    BY <2>1, WayEnds
  <2>3. Len(found[n]) # 1
    BY <1>2, <2>1, <2>2 DEF IsWay
  <2>4. PICK l : l = Len(found[n])
    OBVIOUS
  <2>5. Level(n) = l - 1 /\ l \in Nat \ {0} /\ l # 1
    BY <1>2, <2>2, <2>3, <2>4 DEF Level
  <2> QED
    BY <2>2, <2>5
<1> QED
  BY <1>1, <1>2

\* A walk takes no node farther than it is.
LEMMA WalkLevels ==
  ASSUME WaysKnown, NEW d \in Nat, OpenedBelow(d), NEW k \in 1..(d + 1),
         NEW w \in [1..k -> graph.nodes], w[1] \in request.starts, IsWalk(w)
  PROVE  \A j \in 1..k : KnownWithin(w[j], j - 1)
<1> DEFINE Bad == {j \in 1..k : ~KnownWithin(w[j], j - 1)}
<1>1. SUFFICES Bad = {}
  OBVIOUS
<1>2. SUFFICES ASSUME Bad # {} PROVE FALSE
  OBVIOUS
<1>3. Bad \in SUBSET Nat
  OBVIOUS
<1>4. PICK j \in Bad : \A i \in Bad : j <= i
  BY <1>2, <1>3, LeastNumber
<1>5. j \in 1..k /\ ~KnownWithin(w[j], j - 1)
  OBVIOUS
<1>6. j # 1
  BY <1>5 DEF KnownWithin, Known, Level
<1>7. j - 1 \in 1..k /\ j - 1 \notin Bad
  BY <1>4, <1>5, <1>6
<1>8. KnownWithin(w[j - 1], j - 2)
  BY <1>5, <1>7
<1>9. PICK m : m = w[j - 1]
  OBVIOUS
<1>10. m \in Known /\ Level(m) <= j - 2 /\ Level(m) \in Nat
  BY <1>8, <1>9, LevelNat DEF KnownWithin
<1>11. Level(m) < d
  BY <1>5, <1>10
<1>12. Joined(m, w[j])
  <2>1. Len(w) = k
    OBVIOUS
  <2>2. j - 1 \in 1..(Len(w) - 1) /\ (j - 1) + 1 = j
    BY <1>5, <1>6, <2>1
  <2> QED
    BY <1>9, <2>2 DEF IsWalk
<1>13. KnownWithin(w[j], Level(m) + 1)
  BY <1>5, <1>10, <1>11, <1>12 DEF OpenedBelow, Opened
<1>14. w[j] \in Known /\ Level(w[j]) <= Level(m) + 1 /\ Level(w[j]) \in Nat
  BY <1>13, LevelNat DEF KnownWithin
<1> QED
  BY <1>5, <1>10, <1>14 DEF KnownWithin

\* What is reached by a walk of so many edges is known within that level.
LEMMA ReachedWithin ==
  ASSUME WaysKnown, NEW d \in Nat, OpenedBelow(d), NEW e \in 0..d,
         NEW n \in Within(e, graph.nodes)
  PROVE  KnownWithin(n, e)
<1>0. PICK k \in 1..(e + 1) : \E w \in [1..k -> graph.nodes] :
        w[1] \in request.starts /\ w[k] = n /\ IsWalk(w)
  BY DEF Within
<1>1. PICK w \in [1..k -> graph.nodes] : w[1] \in request.starts /\ w[k] = n /\ IsWalk(w)
  BY <1>0
<1>2. k \in 1..(d + 1)
  OBVIOUS
<1>3. KnownWithin(w[k], k - 1)
  BY <1>1, <1>2, WalkLevels
<1>4. n \in Known /\ Level(n) <= k - 1 /\ Level(n) \in Nat
  BY <1>1, <1>3, LevelNat DEF KnownWithin
<1> QED
  BY <1>4 DEF KnownWithin

LEMMA WayWithin ==
  ASSUME NEW p, IsWay(p), NEW d \in Nat, Len(p) <= d + 1
  PROVE  Last(p) \in Within(d, graph.nodes)
<1>1. Len(p) \in 1..(d + 1) /\ p \in [1..Len(p) -> graph.nodes] /\ Last(p) = p[Len(p)]
      /\ Last(p) \in graph.nodes
  BY WayEnds
<1> QED
  BY <1>1 DEF Within, IsWay

\* No node is found by a longer way, as long as what is nearer was opened.
LEMMA ShortestFound ==
  ASSUME WaysKnown, NEW d \in Nat, OpenedBelow(d),
         \A n \in DOMAIN found : Len(found[n]) <= d + 2
  PROVE  \A n \in DOMAIN found : n \in request.starts
           \/ n \in Within(Len(found[n]) - 1, graph.nodes)
                      \ Within(Len(found[n]) - 1 - 1, graph.nodes)
<1> SUFFICES ASSUME NEW n \in DOMAIN found, n \notin request.starts
             PROVE  n \in Within(Len(found[n]) - 1, graph.nodes)
                            \ Within(Len(found[n]) - 1 - 1, graph.nodes)
  OBVIOUS
<1>1. IsWay(found[n]) /\ Last(found[n]) = n /\ n \in Known
  BY DEF WaysKnown, Known
<1>2. Len(found[n]) \in Nat \ {0} /\ Level(n) = Len(found[n]) - 1 /\ Level(n) > 0
  BY <1>1, WayEnds, LevelNat DEF Level
<1>3. PICK e : e = Len(found[n]) - 1
  OBVIOUS
<1>4. e \in Nat /\ e - 1 \in 0..d /\ Level(n) = e
  BY <1>2, <1>3
<1>5. n \in Within(e, graph.nodes)
  BY <1>1, <1>2, <1>3, <1>4, WayWithin
<1>6. n \notin Within(e - 1, graph.nodes)
  <2>1. SUFFICES ASSUME n \in Within(e - 1, graph.nodes) PROVE FALSE
    OBVIOUS
  <2>2. KnownWithin(n, e - 1)
    BY <1>4, <2>1, ReachedWithin
  <2> QED
    BY <1>4, <2>2 DEF KnownWithin
<1> QED
  BY <1>3, <1>5, <1>6

\* What is known is what lies within the depth, if what is nearer was opened.
LEMMA AllFound ==
  ASSUME WaysKnown, NEW d \in Nat, OpenedBelow(d),
         \A n \in DOMAIN found \ request.starts : Len(found[n]) <= d + 1
  PROVE  \A n : n \in Known <=> n \in Within(d, graph.nodes)
<1>1. ASSUME NEW n \in Within(d, graph.nodes) PROVE n \in Known
  <2>1. d \in 0..d
    OBVIOUS
  <2> QED
    BY <1>1, <2>1, ReachedWithin DEF KnownWithin
<1>2. ASSUME NEW n \in Known PROVE n \in Within(d, graph.nodes)
  <2>1. CASE n \in request.starts
    <3>1. IsWay(<<n>>) /\ Last(<<n>>) = n /\ Len(<<n>>) <= d + 1
      BY <2>1, FirstWay DEF WaysKnown
    <3> QED
      BY <3>1, WayWithin
  <2>2. CASE n \notin request.starts
    <3>1. n \in DOMAIN found /\ IsWay(found[n]) /\ Last(found[n]) = n /\ Len(found[n]) <= d + 1
      BY <1>2, <2>2 DEF Known, WaysKnown
    <3> QED
      BY <3>1, WayWithin
  <2> QED
    BY <2>1, <2>2
<1> QED
  BY <1>1, <1>2

-----------------------------------------------------------------------------
(* The searches in rounds: the end of a round, and of the search.           *)

LEMMA SameGraph ==
  ASSUME UNCHANGED <<graph, request>>
  PROVE  /\ Listed' = Listed
         /\ \A m, n : Joined(m, n)' <=> Joined(m, n)
         /\ \A p : (IsWalk(p)' <=> IsWalk(p)) /\ (IsWay(p)' <=> IsWay(p))
         /\ \A d, S : Within(d, S)' = Within(d, S)
<1>1. \A m, n : Joined(m, n)' <=> Joined(m, n)
  BY DEF Joined, EdgesOf
<1>2. \A p : IsWalk(p)' <=> IsWalk(p)
  BY <1>1 DEF IsWalk
<1>3. \A p : IsWay(p)' <=> IsWay(p)
  BY <1>2 DEF IsWay
<1>4. \A d, S : Within(d, S)' = Within(d, S)
  BY <1>2 DEF Within
<1>5. Listed' = Listed
  BY DEF Listed
<1> QED
  BY <1>1, <1>2, <1>3, <1>4, <1>5

LEMMA KnownGrows ==
  ASSUME UNCHANGED <<graph, request>>,
         \A n \in Known : n \in Known' /\ Level(n)' = Level(n)
  PROVE  /\ \A n, l : KnownWithin(n, l) => KnownWithin(n, l)'
         /\ \A n \in Known : Opened(n) => Opened(n)'
         /\ \A i, n, l : ScannedTo(i, n, l) => ScannedTo(i, n, l)'
<1>1. \A n, l : KnownWithin(n, l) => KnownWithin(n, l)'
  BY DEF KnownWithin
<1>2. ASSUME NEW n \in Known, Opened(n) PROVE Opened(n)'
  <2>1. \A m : Joined(n, m)' <=> Joined(n, m)
    BY SameGraph
  <2>2. \A m \in graph'.nodes : Joined(n, m)' => KnownWithin(m, Level(n) + 1)'
    BY <1>1, <1>2, <2>1 DEF Opened
  <2>3. Level(n)' = Level(n)
    OBVIOUS
  <2> QED
    BY <2>2, <2>3 DEF Opened
<1>3. \A i, n, l : ScannedTo(i, n, l) => ScannedTo(i, n, l)'
  BY <1>1 DEF ScannedTo
<1> QED
  BY <1>1, <1>2, <1>3

\* What a search in rounds knows while it runs.
LEMMA InRounds ==
  ASSUME SearchInv, NEW kind \in {"neighbors", "scoring"}, Running(kind)
  PROVE  /\ WaysKnown /\ RoundInv /\ status # "none" /\ status # "done"
         /\ depth \in Nat /\ request.depth \in Nat
         /\ \A n \in DOMAIN found \ request.starts :
              Len(found[n]) \in Nat \ {0} /\ Level(n) = Len(found[n]) - 1
         /\ \A n \in Known : Level(n) \in Nat /\ n \in graph.nodes
<1>1. WaysKnown /\ RoundInv /\ status # "none" /\ status # "done"
  BY DEF SearchInv, Running, WaysKnown
<1>2. depth \in Nat /\ request.depth \in Nat
  BY DEF SearchInv, GraphSearchTypeOK, SearchRequest
<1>3. \A n \in DOMAIN found \ request.starts :
        Len(found[n]) \in Nat \ {0} /\ Level(n) = Len(found[n]) - 1
  BY <1>1, WayEnds DEF WaysKnown, Level
<1> QED
  BY <1>1, <1>2, <1>3, LevelNat

LEMMA EndRoundKeeps ==
  ASSUME SearchInv, NEW kind \in {"neighbors", "scoring"}, EndRound(kind)
  PROVE  SearchInv'
<1>1. /\ Running(kind) /\ at = 0 /\ depth < request.depth /\ frontier = {}
      /\ depth' = depth + 1 /\ frontier' = upcoming /\ upcoming' = {}
      /\ UNCHANGED <<graph, request, search, status, awaiting, visiting, at, found, inspected,
                     bounded>>
  BY DEF EndRound
<1>2. /\ WaysKnown /\ RoundInv /\ status # "none" /\ status # "done"
      /\ depth \in Nat /\ request.depth \in Nat
      /\ \A n \in DOMAIN found \ request.starts :
           Len(found[n]) \in Nat \ {0} /\ Level(n) = Len(found[n]) - 1
      /\ \A n \in Known : Level(n) \in Nat /\ n \in graph.nodes
  BY <1>1, InRounds
<1>3. /\ \A p : IsWay(p)' <=> IsWay(p)
      /\ Known' = Known /\ \A n : Level(n)' = Level(n)
  BY <1>1, SameGraph DEF Known, Level
<1>4. /\ \A n, l : KnownWithin(n, l) => KnownWithin(n, l)'
      /\ \A n \in Known : Opened(n) => Opened(n)'
  BY <1>1, <1>3, KnownGrows
<1>5. GraphSearchTypeOK'
  BY <1>1, <1>2 DEF WaysKnown, GraphSearchTypeOK
<1>6. RoundInv'
  <2>1. depth' <= request'.depth /\ (depth' = request'.depth => upcoming' = {} /\ at' = 0)
    BY <1>1, <1>2
  <2>2. /\ \A p \in frontier' : IsWay(p)' /\ Len(p) = depth' + 1
        /\ \A p \in upcoming' : IsWay(p)' /\ Len(p) = depth' + 2
        /\ at' = 0
    BY <1>1, <1>2, <1>3 DEF RoundInv
  <2>3. \A p \in frontier' \cup upcoming' : \A j \in DOMAIN p : KnownWithin(p[j], j - 1)'
    BY <1>1, <1>2, <1>4 DEF RoundInv
  <2>4. \A n \in DOMAIN found : Len(found[n]) <= depth + 2 /\ Len(found[n]) \in Nat
    BY <1>2, WayEnds DEF RoundInv, WaysKnown
  <2>5. /\ \A n \in DOMAIN found' : Len(found'[n]) <= depth' + 2
        /\ \A n \in DOMAIN found' \ request'.starts :
             Len(found'[n]) = depth' + 2 => found'[n] \in upcoming'
    BY <1>1, <1>2, <2>4
  <2>6. ASSUME NEW n \in Known', Level(n)' <= depth' PROVE Opened(n)' \/ Opening(n)'
    <3>1. n \in Known /\ Level(n) \in Nat /\ Level(n) <= depth + 1
      BY <1>1, <1>2, <1>3, <2>6
    <3>2. CASE Level(n) <= depth
      <4>1. Opened(n)
        BY <1>1, <1>2, <3>1, <3>2 DEF RoundInv, Opening
      <4> QED
        BY <1>4, <3>1, <4>1
    <3>3. CASE Level(n) = depth + 1
      <4>1. n \in DOMAIN found \ request.starts
        BY <1>2, <3>1, <3>3 DEF Known, Level
      <4>2. Len(found[n]) = depth + 2
        BY <1>2, <3>3, <4>1
      <4>3. found[n] \in upcoming /\ Last(found[n]) = n
        BY <1>2, <4>1, <4>2 DEF RoundInv, WaysKnown
      <4> QED
        BY <1>1, <1>3, <3>3, <4>3 DEF Opening
    <3> QED
      BY <1>2, <3>1, <3>2, <3>3
  <2> QED
    BY <2>1, <2>2, <2>3, <2>5, <2>6 DEF RoundInv
<1>7. Running("neighbors")' => request'.starts \subseteq DOMAIN found' /\ at' = 0
  BY <1>1 DEF SearchInv, Running
<1>8. (\A n \in DOMAIN found : IsWay(found[n]) /\ Last(found[n]) = n)'
  BY <1>1, <1>2, <1>3 DEF WaysKnown
<1>9. ~Running("expansion")' /\ status' # "none" /\ status' # "done"
  BY <1>1, <1>2 DEF Running
<1>10. request'.starts \subseteq graph'.nodes
  BY <1>1, <1>2 DEF WaysKnown
<1> QED
  BY <1>5, <1>6, <1>7, <1>8, <1>9, <1>10 DEF SearchInv

LEMMA EndSearchKeeps ==
  ASSUME SearchInv, NEW kind \in {"neighbors", "scoring"}, EndSearch(kind)
  PROVE  SearchInv'
<1>1. /\ Running(kind) /\ at = 0
      /\ depth = request.depth \/ (frontier = {} /\ upcoming = {})
      /\ status' = "done" /\ found' = Restrict(found, DOMAIN found \ request.starts)
      /\ UNCHANGED <<graph, request, search, depth, frontier, upcoming, awaiting, visiting, at,
                     inspected, bounded>>
  BY DEF EndSearch
<1>2. /\ WaysKnown /\ RoundInv /\ status # "none" /\ status # "done"
      /\ depth \in Nat /\ request.depth \in Nat
      /\ \A n \in DOMAIN found \ request.starts :
           Len(found[n]) \in Nat \ {0} /\ Level(n) = Len(found[n]) - 1
      /\ \A n \in Known : Level(n) \in Nat /\ n \in graph.nodes
  BY <1>1, InRounds
<1>3. /\ DOMAIN found' = DOMAIN found \ request.starts
      /\ \A n \in DOMAIN found' : found'[n] = found[n]
  BY <1>1 DEF Restrict
<1>4. upcoming = {} /\ depth <= request.depth
  BY <1>1, <1>2 DEF RoundInv
<1>5. \A n \in DOMAIN found \ request.starts : Len(found[n]) <= depth + 1
  <2>1. \A n \in DOMAIN found \ request.starts :
          Len(found[n]) <= depth + 2 /\ Len(found[n]) # depth + 2
    BY <1>2, <1>4 DEF RoundInv
  <2> QED
    BY <1>2, <2>1
<1>6. OpenedBelow(request.depth)
  <2> SUFFICES ASSUME NEW n \in Known, Level(n) < request.depth PROVE Opened(n)
    BY DEF OpenedBelow
  <2>1. Level(n) <= depth
    <3>1. CASE n \in request.starts
      BY <1>2, <3>1 DEF Level
    <3>2. CASE n \notin request.starts
      BY <1>2, <1>5, <3>2 DEF Known
    <3> QED
      BY <3>1, <3>2
  <2>2. Opened(n) \/ Opening(n)
    BY <1>2, <2>1 DEF RoundInv
  <2>3. ~Opening(n)
    BY <1>1, <1>2 DEF Opening
  <2> QED
    BY <2>2, <2>3
<1>7. \A n : n \in Known <=> n \in Within(request.depth, graph.nodes)
  <2>1. \A n \in DOMAIN found \ request.starts : Len(found[n]) <= request.depth + 1
    BY <1>2, <1>4, <1>5
  <2> QED
    BY <1>2, <1>6, <2>1, AllFound
<1>8. \A n \in DOMAIN found : n \in request.starts
        \/ n \in Within(Len(found[n]) - 1, graph.nodes)
                   \ Within(Len(found[n]) - 1 - 1, graph.nodes)
  <2>1. \A n \in DOMAIN found : Len(found[n]) <= request.depth + 2
    <3>1. \A n \in DOMAIN found : Len(found[n]) <= depth + 2 /\ Len(found[n]) \in Nat
      BY <1>2, WayEnds DEF RoundInv, WaysKnown
    <3> QED
      BY <1>2, <1>4, <3>1
  <2> QED
    BY <1>2, <1>6, <2>1, ShortestFound
<1>9. (\A n \in DOMAIN found : IsWay(found[n]) /\ Last(found[n]) = n)'
  BY <1>1, <1>2, <1>3, SameGraph DEF WaysKnown
<1>10. GraphSearchSound'
  <2>1. (\A n \in DOMAIN found : Last(found[n]) = n /\ IsWalk(found[n]))'
    BY <1>9 DEF IsWay
  <2>2. \A d, S : Within(d, S)' = Within(d, S)
    BY <1>1, SameGraph
  <2>3. (\A n \in DOMAIN found : n \in request.starts
           \/ n \in Within(Len(found[n]) - 1, graph.nodes)
                      \ Within(Len(found[n]) - 1 - 1, graph.nodes))'
    BY <1>1, <1>3, <1>8, <2>2
  <2>4. (DOMAIN found = Within(request.depth, graph.nodes) \ request.starts)'
    <3>1. \A n : n \in DOMAIN found' <=>
                   n \in Within(request.depth, graph.nodes) /\ n \notin request.starts
      BY <1>3, <1>7 DEF Known
    <3> QED
      BY <1>1, <2>2, <3>1
  <2>5. ~Done("expansion")'
    BY <1>1 DEF Done, Running
  <2> QED
    BY <2>1, <2>3, <2>4, <2>5 DEF GraphSearchSound
<1>11. GraphSearchTypeOK'
  BY <1>1, <1>2, <1>3 DEF WaysKnown, GraphSearchTypeOK, Range
<1>12. /\ \A k : ~Running(k)'
       /\ status' # "none" /\ (request.starts \subseteq graph.nodes)'
  BY <1>1, <1>2 DEF Running, WaysKnown
<1> QED
  BY <1>9, <1>10, <1>11, <1>12 DEF SearchInv

-----------------------------------------------------------------------------
(* The searches in rounds: a visit.                                         *)

LEMMA NeighborsVisitKeeps ==
  ASSUME SearchInv, NeighborsVisit
  PROVE  SearchInv'
<1> DEFINE Ends(p) == {OtherEnd(e, Last(p)) : e \in EdgesOf(request.edgeKinds)}
           New(p) == [n \in Ends(p) \ (DOMAIN found \cup {0}) |-> Append(p, n)]
<1>1. PICK path \in frontier :
        /\ frontier' = frontier \ {path}
        /\ found' = Reaching(New(path)) /\ upcoming' = upcoming \cup Range(New(path))
  BY DEF NeighborsVisit
<1>2. /\ Running("neighbors") /\ depth < request.depth
      /\ UNCHANGED <<graph, request, search, status, depth, awaiting, visiting, at, inspected,
                     bounded>>
  BY DEF NeighborsVisit
<1>3. /\ WaysKnown /\ RoundInv /\ status # "none" /\ status # "done"
      /\ depth \in Nat /\ request.depth \in Nat
      /\ \A n \in DOMAIN found \ request.starts :
           Len(found[n]) \in Nat \ {0} /\ Level(n) = Len(found[n]) - 1
      /\ \A n \in Known : Level(n) \in Nat /\ n \in graph.nodes
  BY <1>2, InRounds
<1>4. request.starts \subseteq DOMAIN found /\ at = 0
  BY <1>2 DEF SearchInv
<1>5. GraphSearchTypeOK
  BY <1>3 DEF WaysKnown
<1>6. IsWay(path) /\ Len(path) = depth + 1 /\ \A j \in DOMAIN path : KnownWithin(path[j], j - 1)
  BY <1>3 DEF RoundInv
<1>7. PICK a \in graph.nodes : a = Last(path)
  BY <1>6, WayEnds
<1>8. PICK S : S = Ends(path) \ (DOMAIN found \cup {0})
  OBVIOUS
<1>9. ASSUME NEW n \in S
      PROVE  /\ n \in graph.nodes /\ n \notin DOMAIN found /\ Joined(a, n)
             /\ IsWay(Append(path, n)) /\ Last(Append(path, n)) = n
             /\ Len(Append(path, n)) = depth + 2 /\ DOMAIN Append(path, n) = 1..(depth + 2)
             /\ \A j \in 1..(depth + 1) : Append(path, n)[j] = path[j]
             /\ Append(path, n)[depth + 2] = n
  <2>1. PICK i \in DOMAIN graph.edges : graph.edges[i].kind \in request.edgeKinds
                                          /\ OtherEnd(graph.edges[i], a) = n
    BY <1>7, <1>8 DEF EdgesOf, Range
  <2>2. n \in graph.nodes /\ n \notin DOMAIN found
    BY <1>5, <1>8, <2>1, EndsAre
  <2>3. Joined(a, n)
    BY <1>5, <2>1, <2>2, JoinedEnds
  <2>4. /\ IsWay(Append(path, n)) /\ Last(Append(path, n)) = n
        /\ Len(Append(path, n)) = Len(path) + 1 /\ DOMAIN Append(path, n) = 1..(Len(path) + 1)
        /\ \A j \in 1..Len(path) : Append(path, n)[j] = path[j]
    BY <1>5, <1>6, <1>7, <2>2, <2>3, LongerWay
  <2>5. Len(path) + 1 = depth + 2
    BY <1>3, <1>6
  <2> QED
    BY <1>6, <2>2, <2>3, <2>4, <2>5 DEF Last
<1>10. /\ DOMAIN found' = DOMAIN found \cup S
       /\ \A n \in DOMAIN found : found'[n] = found[n]
       /\ \A n \in S : found'[n] = Append(path, n)
       /\ \A p : p \in upcoming' <=> p \in upcoming \/ \E n \in S : p = Append(path, n)
  BY <1>1, <1>8 DEF Reaching, Range
<1> HIDE DEF Ends, New
<1>21. \A p \in upcoming' : IsWay(p) /\ Len(p) = depth + 2
  <2>1. \A p \in upcoming : IsWay(p) /\ Len(p) = depth + 2
    BY <1>3 DEF RoundInv
  <2> TAKE p \in upcoming'
  <2>2. CASE p \in upcoming
    BY <2>1, <2>2
  <2>3. ASSUME NEW n \in S, p = Append(path, n) PROVE IsWay(p) /\ Len(p) = depth + 2
    <3>1. IsWay(Append(path, n)) /\ Len(Append(path, n)) = depth + 2
      BY <1>9
    <3> QED
      BY <2>3, <3>1
  <2> QED
    BY <1>10, <2>2, <2>3
<1>11. \A n \in Known : n \in Known' /\ Level(n)' = Level(n)
  BY <1>2, <1>4, <1>10 DEF Known, Level
<1>12. /\ \A n, l : KnownWithin(n, l) => KnownWithin(n, l)'
       /\ \A n \in Known : Opened(n) => Opened(n)'
  BY <1>2, <1>11, KnownGrows
<1>13. \A n \in S : n \in Known' /\ Level(n)' = depth + 1
  BY <1>2, <1>3, <1>4, <1>9, <1>10 DEF Known, Level
<1>14. \A p : IsWay(p)' <=> IsWay(p)
  BY <1>2, SameGraph
<1>15. (\A n \in DOMAIN found : IsWay(found[n]) /\ Last(found[n]) = n)'
  BY <1>3, <1>9, <1>10, <1>14 DEF WaysKnown
<1>16. GraphSearchTypeOK'
  <2>1. DOMAIN found' \subseteq graph'.nodes
    BY <1>2, <1>5, <1>9, <1>10 DEF GraphSearchTypeOK
  <2>2. Range(found') \subseteq Seq(graph'.nodes)
    BY <1>15, WayEnds DEF Range, IsWay
  <2>3. frontier' \cup upcoming' \subseteq Seq(graph'.nodes)
    <3>1. frontier' \subseteq Seq(graph.nodes)
      BY <1>1, <1>5 DEF GraphSearchTypeOK
    <3>2. upcoming' \subseteq Seq(graph.nodes)
      BY <1>21 DEF IsWay
    <3> QED
      BY <1>2, <3>1, <3>2
  <2> QED
    BY <1>2, <1>5, <2>1, <2>2, <2>3 DEF GraphSearchTypeOK
<1>17. RoundInv'
  <2>1. \A p \in upcoming' : IsWay(p)' /\ Len(p) = depth' + 2
    BY <1>2, <1>14, <1>21
  <2>2. \A p \in frontier' : /\ IsWay(p)' /\ Len(p) = depth' + 1
                             /\ \A j \in DOMAIN p : KnownWithin(p[j], j - 1)'
    BY <1>1, <1>2, <1>3, <1>12, <1>14 DEF RoundInv
  <2>3. ASSUME NEW p \in upcoming', NEW j \in DOMAIN p PROVE KnownWithin(p[j], j - 1)'
    <3>1. CASE p \in upcoming
      BY <1>3, <1>12, <3>1 DEF RoundInv
    <3>2. ASSUME NEW n \in S, p = Append(path, n) PROVE KnownWithin(p[j], j - 1)'
      <4>1. CASE j = depth + 2
        BY <1>3, <1>9, <1>13, <3>2, <4>1 DEF KnownWithin
      <4>2. CASE j # depth + 2
        <5>1. j \in 1..(depth + 1) /\ p[j] = path[j]
          BY <1>3, <1>9, <3>2, <4>2
        <5>2. KnownWithin(path[j], j - 1)
          BY <1>6, <5>1, WayEnds
        <5> QED
          BY <1>12, <5>1, <5>2
      <4> QED
        BY <4>1, <4>2
    <3> QED
      BY <1>10, <3>1, <3>2
  <2>4. \A n \in DOMAIN found' : Len(found'[n]) <= depth' + 2
    BY <1>2, <1>3, <1>9, <1>10 DEF RoundInv
  <2>5. \A n \in DOMAIN found' \ request'.starts :
          Len(found'[n]) = depth' + 2 => found'[n] \in upcoming'
    BY <1>2, <1>3, <1>9, <1>10 DEF RoundInv
  <2>6. ASSUME NEW n \in Known', Level(n)' <= depth' PROVE Opened(n)' \/ Opening(n)'
    <3>1. n \in Known
      BY <1>2, <1>3, <1>10, <1>13, <2>6 DEF Known
    <3>2. Level(n) <= depth /\ Level(n)' = Level(n)
      BY <1>2, <1>11, <2>6, <3>1
    <3>3. CASE Opened(n)
      BY <1>12, <3>1, <3>3
    <3>4. ASSUME NEW p \in frontier, p # path, Last(p) = n, Level(n) = depth PROVE Opening(n)'
      BY <1>1, <1>2, <3>2, <3>4 DEF Opening
    <3>5. CASE n = a /\ Level(n) = depth
      <4>1. ASSUME NEW m \in graph.nodes, Joined(a, m) PROVE KnownWithin(m, depth + 1)'
        <5>1. PICK i \in DOMAIN graph.edges : graph.edges[i].kind \in request.edgeKinds
                                                /\ OtherEnd(graph.edges[i], a) = m
          BY <1>5, <4>1, JoinedEnds
        <5>2. m \in Ends(path) /\ m # 0
          BY <1>5, <1>7, <5>1, EndsAre DEF EdgesOf, Range, Ends
        <5>3. CASE m \in S
          BY <1>2, <1>3, <1>13, <5>3 DEF KnownWithin
        <5>4. CASE m \in DOMAIN found
          <6>1. m \in Known /\ Len(found[m]) <= depth + 2
            BY <1>3, <5>4 DEF Known, RoundInv
          <6>2. Level(m) <= depth + 1
            <7>1. CASE m \in request.starts
              BY <1>3, <7>1 DEF Level
            <7>2. CASE m \notin request.starts
              BY <1>3, <5>4, <6>1, <7>2
            <7> QED
              BY <7>1, <7>2
          <6> QED
            BY <1>2, <1>12, <6>1, <6>2 DEF KnownWithin
        <5> QED
          BY <1>8, <5>2, <5>3, <5>4
      <4>2. \A m : Joined(a, m)' <=> Joined(a, m)
        BY <1>2, SameGraph
      <4>3. Level(a)' = depth
        BY <3>2, <3>5
      <4> QED
        BY <1>2, <3>5, <4>1, <4>2, <4>3 DEF Opened
    <3>6. Opened(n) \/ (Level(n) = depth /\ \E p \in frontier : Last(p) = n)
      BY <1>3, <1>4, <3>1, <3>2 DEF RoundInv, Opening
    <3> QED
      BY <1>7, <3>3, <3>4, <3>5, <3>6
  <2>7. depth' <= request'.depth /\ depth' # request'.depth /\ at' = 0
    BY <1>2, <1>3, <1>4
  <2> QED
    BY <2>1, <2>2, <2>3, <2>4, <2>5, <2>6, <2>7 DEF RoundInv
<1>18. Running("neighbors")' => request'.starts \subseteq DOMAIN found' /\ at' = 0
  BY <1>2, <1>4, <1>10
<1>19. ~Running("expansion")' /\ status' # "none" /\ status' # "done"
  BY <1>2, <1>3 DEF Running
<1>20. (request.starts \subseteq graph.nodes)'
  BY <1>2, <1>3 DEF WaysKnown
<1> QED
  BY <1>15, <1>16, <1>17, <1>18, <1>19, <1>20 DEF SearchInv

LEMMA TakePathKeeps ==
  ASSUME SearchInv, TakePath
  PROVE  SearchInv'
<1>1. PICK path \in frontier :
        /\ frontier' = frontier \ {path} /\ visiting' = path /\ at' = EdgeAfter(0)
  BY DEF TakePath
<1>2. /\ Running("scoring") /\ at = 0 /\ depth < request.depth
      /\ UNCHANGED <<graph, request, search, status, depth, upcoming, awaiting, found, inspected,
                     bounded>>
  BY DEF TakePath
<1>3. /\ WaysKnown /\ RoundInv /\ status # "none" /\ status # "done"
      /\ depth \in Nat /\ request.depth \in Nat
      /\ \A n \in DOMAIN found \ request.starts :
           Len(found[n]) \in Nat \ {0} /\ Level(n) = Len(found[n]) - 1
      /\ \A n \in Known : Level(n) \in Nat /\ n \in graph.nodes
  BY <1>2, InRounds
<1>4. GraphSearchTypeOK
  BY <1>3 DEF WaysKnown
<1>5. Len(graph.edges) \in Nat
  BY <1>4, GraphFacts
<1>6. at' \in 0..Len(graph.edges) /\ (at' # 0 => at' = 1) /\ (at' = 0 => Len(graph.edges) = 0)
  BY <1>1, <1>4, <1>5, NextEdge
<1>7. /\ \A p : IsWay(p)' <=> IsWay(p)
      /\ Known' = Known /\ \A n : Level(n)' = Level(n)
  BY <1>2, SameGraph DEF Known, Level
<1>8. /\ \A n, l : KnownWithin(n, l) => KnownWithin(n, l)'
      /\ \A n \in Known : Opened(n) => Opened(n)'
  BY <1>2, <1>7, KnownGrows
<1>9. IsWay(path) /\ Len(path) = depth + 1 /\ \A j \in DOMAIN path : KnownWithin(path[j], j - 1)
  BY <1>3 DEF RoundInv
<1>10. GraphSearchTypeOK'
  BY <1>1, <1>2, <1>4, <1>6 DEF GraphSearchTypeOK
<1>11. RoundInv'
  <2>1. /\ \A p \in frontier' \cup upcoming' : \A j \in DOMAIN p : KnownWithin(p[j], j - 1)'
        /\ \A p \in frontier' : IsWay(p)' /\ Len(p) = depth' + 1
        /\ \A p \in upcoming' : IsWay(p)' /\ Len(p) = depth' + 2
    BY <1>1, <1>2, <1>3, <1>7, <1>8 DEF RoundInv
  <2>2. /\ IsWay(visiting)' /\ (Len(visiting) = depth + 1)'
        /\ (\A j \in DOMAIN visiting : KnownWithin(visiting[j], j - 1))'
    BY <1>1, <1>2, <1>7, <1>8, <1>9
  <2>3. (\A n \in DOMAIN found : Len(found[n]) <= depth + 2)'
    BY <1>2, <1>3 DEF RoundInv
  <2>4. (\A n \in DOMAIN found \ request.starts :
           Len(found[n]) = depth + 2 => found[n] \in upcoming)'
    BY <1>2, <1>3 DEF RoundInv
  <2>5. ASSUME NEW n \in Known', Level(n)' <= depth' PROVE Opened(n)' \/ Opening(n)'
    <3>1. n \in Known /\ Level(n) <= depth /\ Level(n)' = Level(n)
      BY <1>2, <1>7, <2>5
    <3>2. CASE Opened(n)
      BY <1>8, <3>1, <3>2
    <3>3. ASSUME NEW p \in frontier, p # path, Last(p) = n, Level(n) = depth PROVE Opening(n)'
      BY <1>1, <1>2, <3>1, <3>3 DEF Opening
    <3>4. CASE Level(n) = depth /\ Last(path) = n /\ at' # 0
      <4>1. ScannedTo(at, n, depth + 1)'
        BY <1>6, <3>4 DEF ScannedTo
      <4> QED
        BY <1>1, <1>2, <3>1, <3>4, <4>1 DEF Opening
    <3>5. CASE at' = 0
      <4>1. DOMAIN graph.edges = {}
        BY <1>4, <1>6, <3>5, GraphFacts
      <4>2. \A m \in graph.nodes : ~Joined(n, m)
        BY <1>3, <1>4, <3>1, <4>1, JoinedEnds
      <4> QED
        BY <1>8, <3>1, <4>2 DEF Opened
    <3>6. Opened(n) \/ (Level(n) = depth /\ \E p \in frontier : Last(p) = n)
      BY <1>2, <1>3, <3>1 DEF RoundInv, Opening
    <3> QED
      BY <3>2, <3>3, <3>4, <3>5, <3>6
  <2>6. depth' <= request'.depth /\ depth' # request'.depth
    BY <1>2, <1>3
  <2> QED
    BY <2>1, <2>2, <2>3, <2>4, <2>5, <2>6 DEF RoundInv
<1>12. (\A n \in DOMAIN found : IsWay(found[n]) /\ Last(found[n]) = n)'
  BY <1>2, <1>3, <1>7 DEF WaysKnown
<1>13. ~Running("expansion")' /\ ~Running("neighbors")' /\ status' # "none" /\ status' # "done"
  BY <1>2, <1>3 DEF Running
<1>14. (request.starts \subseteq graph.nodes)'
  BY <1>2, <1>3 DEF WaysKnown
<1> QED
  BY <1>10, <1>11, <1>12, <1>13, <1>14 DEF SearchInv

LEMMA OneMoreScanned ==
  ASSUME NEW i \in Nat \ {0}, NEW n, NEW l
  PROVE  /\ /\ ScannedTo(i, n, l)
            /\ graph.edges[i].kind \in request.edgeKinds /\ OtherEnd(graph.edges[i], n) # 0 =>
                 KnownWithin(OtherEnd(graph.edges[i], n), l)
            => ScannedTo(i + 1, n, l)
         /\ (/\ ScannedTo(i, n, l)
             /\ graph.edges[i].kind \in request.edgeKinds /\ OtherEnd(graph.edges[i], n) # 0 =>
                  KnownWithin(OtherEnd(graph.edges[i], n), l)
             => ScannedTo(i + 1, n, l))'
<1>1. \A k \in 1..(i + 1 - 1) : k = i \/ k \in 1..(i - 1)
  OBVIOUS
<1> QED
  BY <1>1 DEF ScannedTo

\* What going through an edge leaves of the invariant, whether the search goes
\* on behind it or ends there.
EdgeDone(i, a) ==
  /\ \A n \in DOMAIN found : IsWay(found[n]) /\ Last(found[n]) = n
  /\ \A p \in frontier : IsWay(p) /\ Len(p) = depth + 1
  /\ \A p \in upcoming : IsWay(p) /\ Len(p) = depth + 2
  /\ \A p \in frontier \cup upcoming \cup {visiting} : \A j \in DOMAIN p : KnownWithin(p[j], j - 1)
  /\ \A n \in DOMAIN found : Len(found[n]) <= depth + 2
  /\ \A n \in DOMAIN found \ request.starts : Len(found[n]) = depth + 2 => found[n] \in upcoming
  /\ \A n \in Known : Level(n) <= depth =>
       \/ Opened(n)
       \/ /\ Level(n) = depth
          /\ \/ \E p \in frontier : Last(p) = n
             \/ n = a /\ ScannedTo(i + 1, a, depth + 1)

LEMMA EdgeScanned ==
  ASSUME SearchInv, Running("scoring"), NEW i, i = at, i # 0, NEW a, a = Last(visiting),
         UNCHANGED <<graph, request, search, depth, frontier, visiting>>,
         NEW node, node = OtherEnd(graph.edges[i], a),
         \/ /\ UNCHANGED <<found, upcoming>>
            /\ \/ node = 0 \/ node \in Range(visiting)
               \/ graph.edges[i].kind \notin request.edgeKinds
               \/ ~Better(Append(visiting, node), node)
         \/ /\ node # 0 /\ graph.edges[i].kind \in request.edgeKinds
            /\ Better(Append(visiting, node), node)
            /\ found' = Reaching([n \in {node} |-> Append(visiting, node)])
            /\ upcoming' = upcoming \cup {Append(visiting, node)}
  PROVE  /\ \A n \in Known : n \in Known' /\ Level(n)' = Level(n)
         /\ a \in graph.nodes
         /\ EdgeDone(i, a)'
<1>1. /\ WaysKnown /\ RoundInv /\ status # "none" /\ status # "done"
      /\ depth \in Nat /\ request.depth \in Nat
      /\ \A n \in DOMAIN found \ request.starts :
           Len(found[n]) \in Nat \ {0} /\ Level(n) = Len(found[n]) - 1
      /\ \A n \in Known : Level(n) \in Nat /\ n \in graph.nodes
  BY InRounds
<1>2. GraphSearchTypeOK /\ i \in 1..Len(graph.edges) /\ i \in DOMAIN graph.edges
      /\ Len(graph.edges) \in Nat
  <2>1. GraphSearchTypeOK /\ Len(graph.edges) \in Nat /\ DOMAIN graph.edges = 1..Len(graph.edges)
    BY <1>1, GraphFacts DEF WaysKnown
  <2> QED
    BY <2>1 DEF GraphSearchTypeOK
<1>3. /\ IsWay(visiting) /\ Len(visiting) = depth + 1
      /\ \A j \in DOMAIN visiting : KnownWithin(visiting[j], j - 1)
  BY <1>1 DEF RoundInv
<1>4. /\ DOMAIN visiting = 1..(depth + 1) /\ a = visiting[depth + 1] /\ a \in graph.nodes
      /\ a \in Known /\ Level(a) <= depth
  <2>1. DOMAIN visiting = 1..(depth + 1) /\ a = visiting[depth + 1] /\ a \in graph.nodes
    BY <1>3, WayEnds
  <2>2. KnownWithin(visiting[depth + 1], depth + 1 - 1)
    BY <1>1, <1>3, <2>1
  <2> QED
    BY <1>1, <2>1, <2>2 DEF KnownWithin
<1>5. node \in graph.nodes \cup {0}
  BY <1>2, <1>4, EndsAre
<1>6. \A n \in DOMAIN found : n \in Known /\ Len(found[n]) \in Nat \ {0} /\ Len(found[n]) <= depth + 2
  BY <1>1, WayEnds DEF RoundInv, WaysKnown, Known
<1>7. \A p : IsWay(p)' <=> IsWay(p)
  BY SameGraph
<1>8. PICK path : path = Append(visiting, node)
  OBVIOUS
<1>9. \/ /\ UNCHANGED <<found, upcoming>>
         /\ \/ node = 0 \/ node \in Range(visiting)
            \/ graph.edges[i].kind \notin request.edgeKinds
            \/ ~Better(path, node)
      \/ /\ node # 0 /\ graph.edges[i].kind \in request.edgeKinds
         /\ Better(path, node) /\ found' = Reaching([n \in {node} |-> path])
         /\ upcoming' = upcoming \cup {path}
  BY <1>8
<1>10. ASSUME node # 0, graph.edges[i].kind \in request.edgeKinds
       PROVE  /\ node \in graph.nodes
              /\ IsWay(path) /\ Last(path) = node /\ Len(path) = depth + 2
              /\ DOMAIN path = 1..(depth + 2) /\ path[depth + 2] = node
              /\ \A j \in 1..(depth + 1) : path[j] = visiting[j]
  <2>1. node \in graph.nodes /\ Joined(a, node)
    BY <1>2, <1>4, <1>5, <1>10, JoinedEnds
  <2>2. /\ IsWay(path) /\ Last(path) = node /\ Len(path) = Len(visiting) + 1
        /\ DOMAIN path = 1..(Len(visiting) + 1)
        /\ \A j \in 1..Len(visiting) : path[j] = visiting[j]
    BY <1>2, <1>3, <1>8, <2>1, LongerWay
  <2>3. Len(visiting) + 1 = depth + 2
    BY <1>1, <1>3
  <2> QED
    BY <1>3, <2>1, <2>2, <2>3 DEF Last
<1>11. CASE UNCHANGED <<found, upcoming>>
            /\ \/ node = 0 \/ node \in Range(visiting)
               \/ graph.edges[i].kind \notin request.edgeKinds
               \/ ~Better(path, node)
  <2>1. Known' = Known /\ \A n : Level(n)' = Level(n)
    BY <1>11 DEF Known, Level
  <2>2. /\ \A n, l : KnownWithin(n, l) => KnownWithin(n, l)'
        /\ \A n \in Known : Opened(n) => Opened(n)'
        /\ \A j, n, l : ScannedTo(j, n, l) => ScannedTo(j, n, l)'
    BY <2>1, KnownGrows
  <2>3. graph.edges[i].kind \in request.edgeKinds /\ node # 0 => KnownWithin(node, depth + 1)
    <3>1. CASE node \in Range(visiting)
      <4>1. PICK j \in DOMAIN visiting : visiting[j] = node
        BY <3>1 DEF Range
      <4>2. KnownWithin(node, j - 1) /\ j - 1 <= depth
        BY <1>1, <1>3, <1>4, <4>1
      <4> QED
        BY <1>1, <1>4, <4>2 DEF KnownWithin
    <3>2. CASE ~Better(path, node)
      <4>1. node \in DOMAIN found
        BY <3>2 DEF Better
      <4>2. Level(node) <= depth + 1
        <5>1. CASE node \in request.starts
          BY <1>1, <5>1 DEF Level
        <5>2. CASE node \notin request.starts
          BY <1>1, <1>6, <4>1, <5>2
        <5> QED
          BY <5>1, <5>2
      <4> QED
        BY <1>6, <4>1, <4>2 DEF KnownWithin
    <3> QED
      BY <1>11, <3>1, <3>2
  <2>4. ASSUME NEW n \in Known', Level(n)' <= depth
        PROVE  \/ Opened(n)'
               \/ /\ Level(n)' = depth
                  /\ \/ \E p \in frontier' : Last(p) = n
                     \/ n = a /\ ScannedTo(i + 1, a, depth + 1)'
    <3>1. n \in Known /\ Level(n) <= depth /\ Level(n)' = Level(n)
      BY <2>1, <2>4
    <3>2. \/ Opened(n)
          \/ /\ Level(n) = depth
             /\ \/ \E p \in frontier : Last(p) = n
                \/ n = a /\ ScannedTo(i, a, depth + 1)
      BY <1>1, <3>1 DEF RoundInv, Opening
    <3>3. ASSUME ScannedTo(i, a, depth + 1) PROVE ScannedTo(i + 1, a, depth + 1)'
      <4>1. ScannedTo(i + 1, a, depth + 1)
        BY <1>2, <2>3, <3>3, OneMoreScanned
      <4> QED
        BY <2>2, <4>1
    <3> QED
      BY <2>2, <3>1, <3>2, <3>3
  <2>5. (\A n \in DOMAIN found : IsWay(found[n]) /\ Last(found[n]) = n)'
    BY <1>1, <1>7, <1>11 DEF WaysKnown
  <2>6. /\ \A p \in frontier' : IsWay(p)' /\ Len(p) = depth + 1
        /\ \A p \in upcoming' : IsWay(p)' /\ Len(p) = depth + 2
    BY <1>1, <1>7, <1>11 DEF RoundInv
  <2>7. \A p \in frontier' \cup upcoming' \cup {visiting} :
          \A j \in DOMAIN p : KnownWithin(p[j], j - 1)'
    BY <1>1, <1>3, <1>11, <2>2 DEF RoundInv
  <2>8. /\ \A n \in DOMAIN found' : Len(found'[n]) <= depth + 2
        /\ \A n \in DOMAIN found' \ request'.starts :
             Len(found'[n]) = depth + 2 => found'[n] \in upcoming'
    BY <1>1, <1>11 DEF RoundInv
  <2>9. EdgeDone(i, a)'
    BY <2>4, <2>5, <2>6, <2>7, <2>8 DEF EdgeDone
  <2> QED
    BY <1>4, <2>1, <2>9
<1>12. CASE /\ node # 0 /\ graph.edges[i].kind \in request.edgeKinds
            /\ Better(path, node) /\ found' = Reaching([n \in {node} |-> path])
            /\ upcoming' = upcoming \cup {path}
  <2>1. /\ DOMAIN found' = DOMAIN found \cup {node} /\ found'[node] = path
        /\ \A n \in DOMAIN found : n # node => found'[n] = found[n]
    <3>1. PICK g : g = [n \in {node} |-> path]
      OBVIOUS
    <3>2. DOMAIN g = {node} /\ g[node] = path
      BY <3>1
    <3>3. found' = Reaching(g)
      BY <1>12, <3>1
    <3> QED
      BY <3>2, <3>3 DEF Reaching
  <2>2. IsWay(path) /\ Last(path) = node /\ Len(path) = depth + 2
    BY <1>10, <1>12
  <2>3. node \in DOMAIN found => Len(found[node]) = depth + 2
    BY <1>1, <1>6, <1>12, <2>2 DEF Better
  <2>4. ASSUME NEW n \in Known PROVE n \in Known' /\ Level(n)' = Level(n)
    <3>1. CASE n \in request.starts
      BY <3>1 DEF Known, Level
    <3>2. CASE n \notin request.starts
      BY <2>1, <2>2, <2>3, <3>2 DEF Known, Level
    <3> QED
      BY <3>1, <3>2
  <2>5. /\ \A n, l : KnownWithin(n, l) => KnownWithin(n, l)'
        /\ \A n \in Known : Opened(n) => Opened(n)'
        /\ \A j, n, l : ScannedTo(j, n, l) => ScannedTo(j, n, l)'
    BY <2>4, KnownGrows
  <2>6. node \in Known' /\ (node \notin request.starts => Level(node)' = depth + 1)
          /\ (node \in request.starts => Level(node)' = 0)
    BY <1>1, <2>1, <2>2 DEF Known, Level
  <2>7. KnownWithin(node, depth + 1)'
    BY <1>1, <2>6 DEF KnownWithin
  <2>8. ASSUME NEW n \in Known', Level(n)' <= depth
        PROVE  \/ Opened(n)'
               \/ /\ Level(n)' = depth
                  /\ \/ \E p \in frontier' : Last(p) = n
                     \/ n = a /\ ScannedTo(i + 1, a, depth + 1)'
    <3>1. n \in Known
      BY <1>1, <2>1, <2>6, <2>8 DEF Known
    <3>2. Level(n) <= depth /\ Level(n)' = Level(n)
      BY <2>4, <2>8, <3>1
    <3>3. \/ Opened(n)
          \/ /\ Level(n) = depth
             /\ \/ \E p \in frontier : Last(p) = n
                \/ n = a /\ ScannedTo(i, a, depth + 1)
      BY <1>1, <3>1, <3>2 DEF RoundInv, Opening
    <3>4. ASSUME ScannedTo(i, a, depth + 1) PROVE ScannedTo(i + 1, a, depth + 1)'
      <4>1. ScannedTo(i, a, depth + 1)'
        BY <2>5, <3>4
      <4> QED
        <5>1. (/\ ScannedTo(i, a, depth + 1)
               /\ graph.edges[i].kind \in request.edgeKinds /\ OtherEnd(graph.edges[i], a) # 0 =>
                    KnownWithin(OtherEnd(graph.edges[i], a), depth + 1))'
          BY <2>7, <4>1
        <5>2. i \in Nat \ {0}
          BY <1>2
        <5>3. (/\ ScannedTo(i, a, depth + 1)
               /\ graph.edges[i].kind \in request.edgeKinds /\ OtherEnd(graph.edges[i], a) # 0 =>
                    KnownWithin(OtherEnd(graph.edges[i], a), depth + 1)
               => ScannedTo(i + 1, a, depth + 1))'
          BY <5>2, OneMoreScanned
        <5> QED
          BY <5>1, <5>3
    <3> QED
      BY <2>5, <3>1, <3>2, <3>3, <3>4
  <2>9. (\A n \in DOMAIN found : IsWay(found[n]) /\ Last(found[n]) = n)'
    BY <1>1, <1>7, <2>1, <2>2 DEF WaysKnown
  <2>10. \A p \in frontier' : IsWay(p)' /\ Len(p) = depth + 1
    BY <1>1, <1>7 DEF RoundInv
  <2>11. \A p \in upcoming' : IsWay(p)' /\ Len(p) = depth + 2
    BY <1>1, <1>7, <1>12, <2>2 DEF RoundInv
  <2>12. \A p \in frontier \cup upcoming \cup {visiting} :
           \A j \in DOMAIN p : KnownWithin(p[j], j - 1)'
    BY <1>1, <1>3, <2>5 DEF RoundInv
  <2>13. ASSUME NEW j \in DOMAIN path PROVE KnownWithin(path[j], j - 1)'
    <3>1. CASE j = depth + 2
      BY <1>1, <1>10, <1>12, <2>7, <3>1
    <3>2. CASE j # depth + 2
      <4>1. j \in 1..(depth + 1)
        BY <1>1, <1>10, <1>12, <3>2
      <4> QED
        BY <1>4, <1>10, <1>12, <2>12, <4>1
    <3> QED
      BY <3>1, <3>2
  <2>14. \A p \in frontier' \cup upcoming' \cup {visiting} :
           \A j \in DOMAIN p : KnownWithin(p[j], j - 1)'
    BY <1>12, <2>12, <2>13
  <2>15. \A n \in DOMAIN found' : Len(found'[n]) <= depth + 2
    BY <1>1, <1>6, <2>1, <2>2
  <2>16. \A n \in DOMAIN found' \ request'.starts :
           Len(found'[n]) = depth + 2 => found'[n] \in upcoming'
    BY <1>1, <1>12, <2>1 DEF RoundInv
  <2>17. EdgeDone(i, a)'
    BY <2>8, <2>9, <2>10, <2>11, <2>14, <2>15, <2>16 DEF EdgeDone
  <2> QED
    BY <1>4, <2>4, <2>17
<1> QED
  BY <1>9, <1>11, <1>12

Shortest ==
  \A n \in DOMAIN found : n \in request.starts
    \/ n \in Within(Len(found[n]) - 1, graph.nodes)
               \ Within(Len(found[n]) - 1 - 1, graph.nodes)

LEMMA ShortestAtDepth ==
  /\ WaysKnown /\ depth \in Nat /\ OpenedBelow(depth)
  /\ \A n \in DOMAIN found : Len(found[n]) <= depth + 2
  => Shortest
BY ShortestFound DEF Shortest

LEMMA LevelsNat == WaysKnown => \A n \in Known : Level(n) \in Nat
BY LevelNat

LEMMA ScanEdgeKeeps ==
  ASSUME SearchInv, ScanEdge
  PROVE  SearchInv'
<1>1. PICK i, a : i = at /\ a = Last(visiting)
  OBVIOUS
<1>2. PICK node : node = OtherEnd(graph.edges[i], a)
  OBVIOUS
<1>3. PICK path : path = Append(visiting, node)
  OBVIOUS
<1>4. /\ Running("scoring") /\ i # 0
      /\ UNCHANGED <<graph, request, search, depth, frontier, awaiting, visiting>>
  BY <1>1 DEF ScanEdge
<1>5. \/ /\ node = 0 \/ node \in Range(visiting)
         /\ at' = EdgeAfter(i) /\ UNCHANGED <<status, upcoming, found, inspected, bounded>>
      \/ /\ inspected' = inspected + 1 /\ node # 0
         /\ IF inspected = request.links \/ graph.edges[i].kind \notin request.edgeKinds
                 \/ ~Better(path, node)
            THEN UNCHANGED <<found, upcoming>>
            ELSE found' = Reaching([n \in {node} |-> path]) /\ upcoming' = upcoming \cup {path}
         /\ \/ status' = "done" /\ bounded' = TRUE /\ UNCHANGED at
            \/ inspected # request.links /\ at' = EdgeAfter(i) /\ UNCHANGED <<status, bounded>>
  BY <1>1, <1>2, <1>3 DEF ScanEdge
<1>6. /\ WaysKnown /\ RoundInv /\ status # "none" /\ status # "done"
      /\ depth \in Nat /\ request.depth \in Nat
      /\ \A n \in Known : Level(n) \in Nat /\ n \in graph.nodes
  BY <1>4, InRounds
<1>7. GraphSearchTypeOK
  BY <1>6 DEF WaysKnown
<1>8. Len(graph.edges) \in Nat /\ DOMAIN graph.edges = 1..Len(graph.edges)
  BY <1>7, GraphFacts
<1>9. i \in 1..Len(graph.edges) /\ i \in Nat \ {0}
  BY <1>1, <1>4, <1>7, <1>8 DEF GraphSearchTypeOK
<1>10. at' \in 0..Len(graph.edges) /\ (at' = EdgeAfter(i) /\ at' # 0 => at' = i + 1)
       /\ (at' = EdgeAfter(i) /\ at' = 0 => i = Len(graph.edges))
  <2>1. /\ EdgeAfter(i) \in 0..Len(graph.edges) /\ (EdgeAfter(i) # 0 => EdgeAfter(i) = i + 1)
        /\ (EdgeAfter(i) = 0 => i = Len(graph.edges))
    BY <1>7, <1>8, <1>9, NextEdge
  <2>2. at' = EdgeAfter(i) \/ at' = i
    BY <1>1, <1>5
  <2> QED
    BY <1>8, <1>9, <2>1, <2>2
<1>11. \A p : (IsWay(p)' <=> IsWay(p))
  BY <1>4, SameGraph
<1>12. (request.starts \subseteq graph.nodes)'
  BY <1>4, <1>6 DEF WaysKnown
\* The type, given what the paths are.
<1>13. ASSUME (\A n \in DOMAIN found : IsWay(found[n]) /\ Last(found[n]) = n)',
              \A p \in upcoming' : IsWay(p)'
       PROVE  GraphSearchTypeOK' /\ WaysKnown'
  <2>1. DOMAIN found' \subseteq graph'.nodes /\ Range(found') \subseteq Seq(graph'.nodes)
    <3>1. \A n \in DOMAIN found' : IsWay(found'[n]) /\ Last(found'[n]) = n
      BY <1>11, <1>13
    <3>2. \A n \in DOMAIN found' : n \in graph.nodes /\ found'[n] \in Seq(graph.nodes)
      BY <3>1, WayEnds
    <3> QED
      BY <1>4, <3>2 DEF Range
  <2>2. frontier' \cup upcoming' \subseteq Seq(graph'.nodes)
    BY <1>4, <1>7, <1>11, <1>13 DEF GraphSearchTypeOK, IsWay
  <2>3. status' \in {"none", "running", "done", "refused"} /\ inspected' \in Nat
        /\ bounded' \in BOOLEAN
    <3>1. status' = status \/ status' = "done"
      BY <1>5
    <3>2. bounded' = bounded \/ bounded' = TRUE
      BY <1>5
    <3>3. inspected' = inspected \/ inspected' = inspected + 1
      BY <1>5
    <3>4. status \in {"none", "running", "done", "refused"} /\ inspected \in Nat
          /\ bounded \in BOOLEAN
      BY <1>7 DEF GraphSearchTypeOK
    <3>5. bounded' \in BOOLEAN
      BY <3>2, <3>4
    <3> QED
      BY <3>1, <3>3, <3>4, <3>5
  <2>4. GraphSearchTypeOK'
    BY <1>4, <1>7, <1>8, <1>10, <2>1, <2>2, <2>3 DEF GraphSearchTypeOK
  <2> QED
    BY <1>12, <1>13, <2>4 DEF WaysKnown
\* The search ends.
<1>14. ASSUME status' = "done", WaysKnown', OpenedBelow(depth)',
              (\A n \in DOMAIN found : Len(found[n]) <= depth + 2)', bounded' = TRUE
       PROVE  SearchInv'
  <2>1. Shortest'
    <3>1. depth' \in Nat
      BY <1>4, <1>6
    <3> QED
      <4>1. (/\ WaysKnown /\ depth \in Nat /\ OpenedBelow(depth)
             /\ \A n \in DOMAIN found : Len(found[n]) <= depth + 2)'
        BY <1>14, <3>1
      <4> QED
        BY <4>1, ShortestAtDepth, PTL
  <2>2. ~Done("neighbors")' /\ ~Done("expansion")'
    BY <1>4 DEF Done, Running
  <2>3. (\A n \in DOMAIN found : Last(found[n]) = n /\ IsWalk(found[n]))'
    BY <1>14 DEF WaysKnown, IsWay
  <2>4. GraphSearchSound'
    BY <1>14, <2>1, <2>2, <2>3 DEF GraphSearchSound, Shortest
  <2>5. \A kind : ~Running(kind)'
    BY <1>14 DEF Running
  <2> QED
    BY <1>14, <2>4, <2>5 DEF SearchInv, WaysKnown
<1>15. CASE UNCHANGED <<found, upcoming>> /\ status' = "done" /\ bounded' = TRUE
  <2>1. /\ Known' = Known /\ \A n : Level(n)' = Level(n)
    BY <1>4, <1>15 DEF Known, Level
  <2>2. \A n \in Known : Opened(n) => Opened(n)'
    BY <1>4, <2>1, KnownGrows
  <2>3. ASSUME NEW n \in Known', Level(n)' < depth' PROVE Opened(n)'
    <3>1. n \in Known /\ Level(n) < depth /\ Level(n) \in Nat
      BY <1>4, <1>6, <2>1, <2>3
    <3>2. Opened(n)
      BY <1>6, <3>1 DEF RoundInv, Opening
    <3> QED
      BY <2>2, <3>1, <3>2
  <2>4. OpenedBelow(depth)'
    BY <2>3 DEF OpenedBelow
  <2>5. (\A n \in DOMAIN found : IsWay(found[n]) /\ Last(found[n]) = n)'
    BY <1>4, <1>6, <1>11, <1>15 DEF WaysKnown
  <2>6. \A p \in upcoming' : IsWay(p)'
    BY <1>6, <1>11, <1>15 DEF RoundInv
  <2>7. (\A n \in DOMAIN found : Len(found[n]) <= depth + 2)'
    BY <1>4, <1>6, <1>15 DEF RoundInv
  <2> QED
    BY <1>13, <1>14, <1>15, <2>4, <2>5, <2>6, <2>7
<1>16. CASE \/ /\ UNCHANGED <<found, upcoming>>
               /\ \/ node = 0 \/ node \in Range(visiting)
                  \/ graph.edges[i].kind \notin request.edgeKinds
                  \/ ~Better(path, node)
            \/ /\ node # 0 /\ graph.edges[i].kind \in request.edgeKinds
               /\ Better(path, node) /\ found' = Reaching([n \in {node} |-> path])
               /\ upcoming' = upcoming \cup {path}
  <2>1. /\ a \in graph.nodes
        /\ (\A n \in DOMAIN found : IsWay(found[n]) /\ Last(found[n]) = n)'
        /\ \A p \in frontier' : IsWay(p)' /\ Len(p) = depth + 1
        /\ \A p \in upcoming' : IsWay(p)' /\ Len(p) = depth + 2
        /\ \A p \in frontier' \cup upcoming' \cup {visiting} :
             \A j \in DOMAIN p : KnownWithin(p[j], j - 1)'
        /\ \A n \in DOMAIN found' : Len(found'[n]) <= depth + 2
        /\ \A n \in DOMAIN found' \ request'.starts :
             Len(found'[n]) = depth + 2 => found'[n] \in upcoming'
        /\ \A n \in Known' : Level(n)' <= depth =>
             \/ Opened(n)'
             \/ /\ Level(n)' = depth
                /\ \/ \E p \in frontier' : Last(p) = n
                   \/ n = a /\ ScannedTo(i + 1, a, depth + 1)'
    <3>1. \/ /\ UNCHANGED <<found, upcoming>>
             /\ \/ node = 0 \/ node \in Range(visiting)
                \/ graph.edges[i].kind \notin request.edgeKinds
                \/ ~Better(Append(visiting, node), node)
          \/ /\ node # 0 /\ graph.edges[i].kind \in request.edgeKinds
             /\ Better(Append(visiting, node), node)
             /\ found' = Reaching([n \in {node} |-> Append(visiting, node)])
             /\ upcoming' = upcoming \cup {Append(visiting, node)}
      BY <1>3, <1>16
    <3>2. i = at /\ i # 0 /\ a = Last(visiting) /\ node = OtherEnd(graph.edges[i], a)
          /\ Running("scoring")
      BY <1>1, <1>2, <1>4
    <3>3. UNCHANGED <<graph, request, search, depth, frontier, visiting>>
      BY <1>4
    <3>4. a \in graph.nodes /\ EdgeDone(i, a)'
      BY <3>1, <3>2, <3>3, EdgeScanned
    <3> QED
      BY <1>4, <3>4 DEF EdgeDone
  <2>2. WaysKnown' /\ GraphSearchTypeOK'
    BY <1>13, <2>1
  <2>3. CASE status' = "done" /\ bounded' = TRUE
    <3>1. \A n \in Known' : Level(n)' \in Nat
      <4>1. (\A n \in Known : Level(n) \in Nat)'
        BY <2>2, LevelsNat, PTL
      <4> QED
        BY <4>1
    <3>2. OpenedBelow(depth)'
      BY <1>4, <1>6, <2>1, <3>1 DEF OpenedBelow
    <3>3. (\A n \in DOMAIN found : Len(found[n]) <= depth + 2)'
      BY <1>4, <2>1
    <3> QED
      BY <1>14, <2>2, <2>3, <3>2, <3>3
  <2>4. CASE at' = EdgeAfter(i) /\ UNCHANGED <<status, bounded>>
    <3>1. RoundInv'
      <4>1. depth' <= request'.depth /\ depth' # request'.depth
        BY <1>1, <1>4, <1>6 DEF RoundInv
      <4>2. (/\ \A p \in frontier : IsWay(p) /\ Len(p) = depth + 1
             /\ \A p \in upcoming : IsWay(p) /\ Len(p) = depth + 2
             /\ \A p \in frontier \cup upcoming : \A j \in DOMAIN p : KnownWithin(p[j], j - 1))'
        BY <1>4, <2>1
      <4>3. (/\ IsWay(visiting) /\ Len(visiting) = depth + 1
             /\ \A j \in DOMAIN visiting : KnownWithin(visiting[j], j - 1))'
        BY <1>1, <1>4, <1>6, <1>11, <2>1 DEF RoundInv
      <4>4. (/\ \A n \in DOMAIN found : Len(found[n]) <= depth + 2
             /\ \A n \in DOMAIN found \ request.starts :
                  Len(found[n]) = depth + 2 => found[n] \in upcoming)'
        BY <1>4, <2>1
      <4>5. ASSUME NEW n \in Known', Level(n)' <= depth' PROVE Opened(n)' \/ Opening(n)'
        <5>1. Level(n)' <= depth
          BY <1>4, <4>5
        <5>2. CASE Opened(n)'
          BY <5>2
        <5>3. CASE Level(n)' = depth /\ \E p \in frontier' : Last(p) = n
          BY <1>4, <5>3 DEF Opening
        <5>4. CASE Level(n)' = depth /\ n = a /\ ScannedTo(i + 1, a, depth + 1)'
          <6>1. CASE at' # 0
            <7>1. ScannedTo(at, a, depth + 1)'
              BY <1>4, <1>10, <2>4, <5>4, <6>1
            <7> QED
              BY <1>1, <1>4, <5>4, <6>1, <7>1 DEF Opening
          <6>2. CASE at' = 0
            <7>1. i = Len(graph.edges)
              BY <1>10, <2>4, <6>2
            <7>2. \A k \in 1..Len(graph.edges) : k \in 1..(i + 1 - 1)
              BY <1>9, <7>1
            <7>3. ASSUME NEW m \in graph.nodes, Joined(a, m) PROVE KnownWithin(m, depth + 1)'
              <8>1. PICK k \in DOMAIN graph.edges : graph.edges[k].kind \in request.edgeKinds
                                                      /\ OtherEnd(graph.edges[k], a) = m
                BY <1>7, <2>1, <7>3, JoinedEnds
              <8>2. m # 0 /\ k \in 1..(i + 1 - 1)
                BY <1>7, <1>8, <2>1, <7>2, EndsAre
              <8>3. /\ graph'.edges[k].kind \in request'.edgeKinds
                    /\ OtherEnd(graph'.edges[k], a) = m
                BY <1>4, <8>1
              <8>4. (graph.edges[k].kind \in request.edgeKinds
                       /\ OtherEnd(graph.edges[k], a) # 0 =>
                     KnownWithin(OtherEnd(graph.edges[k], a), depth + 1))'
                <9>1. ScannedTo(i + 1, a, depth + 1)'
                  BY <5>4
                <9> QED
                  BY <1>9, <8>2, <9>1 DEF ScannedTo
              <8> QED
                BY <8>2, <8>3, <8>4 DEF ScannedTo
            <7>4. \A m : Joined(a, m)' <=> Joined(a, m)
              BY <1>4, SameGraph
            <7> QED
              BY <1>4, <5>4, <7>3, <7>4 DEF Opened
          <6> QED
            BY <6>1, <6>2
        <5> QED
          BY <2>1, <5>1, <5>2, <5>3, <5>4
      <4> QED
        BY <4>1, <4>2, <4>3, <4>4, <4>5 DEF RoundInv
    <3>2. ~Running("expansion")' /\ ~Running("neighbors")' /\ status' # "none" /\ status' # "done"
      BY <1>4, <1>6, <2>4 DEF Running
    <3> QED
      BY <2>2, <3>1, <3>2 DEF SearchInv, WaysKnown
  <2> QED
    BY <1>5, <2>3, <2>4
<1> QED
  BY <1>5, <1>15, <1>16

-----------------------------------------------------------------------------
(* The start of a search.                                                   *)

LEMMA SpentIs == GraphSearchTypeOK => Spent = Total(graph.cost, DOMAIN found)
BY DEF Spent, MapThenSumSet, MapThenFoldSet, Total, IsTally, Pick

LEMMA FirstWays ==
  request.starts \subseteq graph.nodes =>
    \A n \in request.starts : /\ IsWay(<<n>>) /\ Last(<<n>>) = n /\ Len(<<n>>) = 1
                              /\ DOMAIN <<n>> = {1} /\ <<n>>[1] = n
BY FirstWay

LEMMA StartSearchKeeps ==
  ASSUME SearchInv, status = "none", NEW g \in Graphs, NEW r \in SearchRequests,
         NEW kind \in Searches, StartSearch(g, r, kind)
  PROVE  SearchInv'
<1>1. PICK required, starts :
        /\ required = r.anchors \cap g.nodes
        /\ starts = IF kind = "neighbors" THEN r.starts
                    ELSE required \cup (r.starts \cap g.nodes)
  OBVIOUS
<1>2. /\ search' = kind /\ graph' = g
      /\ request' = [r EXCEPT !.starts = starts, !.anchors = required]
      /\ IF kind # "expansion" /\ ~Admitted(g, request', kind)
         THEN status' = "refused" /\ UNCHANGED <<frontier, awaiting, found>>
         ELSE /\ status' = (IF kind = "query" THEN "done" ELSE "running")
              /\ frontier' = (IF kind \in {"neighbors", "scoring"} THEN {<<n>> : n \in starts}
                              ELSE {})
              /\ IF kind # "expansion" THEN awaiting' = <<>>
                 ELSE \E ms \in [1..Cardinality(required) -> required],
                         ns \in [1..Cardinality(starts \ required) -> starts \ required] :
                        /\ Ascending(ms, required) /\ Ascending(ns, starts \ required)
                        /\ awaiting' = [i \in DOMAIN (ms \o ns) |-> <<(ms \o ns)[i]>>]
              /\ found' = (IF kind = "neighbors" THEN [n \in starts |-> <<n>>] ELSE <<>>)
      /\ UNCHANGED <<depth, upcoming, visiting, at, inspected, bounded>>
  BY <1>1 DEF StartSearch
<1>3. /\ depth = 0 /\ frontier = {} /\ upcoming = {} /\ awaiting = <<>> /\ visiting = <<>>
      /\ at = 0 /\ found = <<>> /\ ~bounded /\ GraphSearchTypeOK
  BY DEF SearchInv
<1>4. /\ IsFiniteSet(g.nodes) /\ g.nodes \subseteq Nat \ {0}
      /\ g.edges \in Seq([kind : STRING, source : g.nodes, target : g.nodes \cup {0}])
  BY GraphSearchAssumption
<1>5. r \in SearchRequest
  BY GraphSearchAssumption
<1>6. starts \in SUBSET Nat /\ required \in SUBSET Nat /\ required \subseteq g.nodes
  BY <1>1, <1>4, <1>5 DEF SearchRequest
<1>7. /\ request' \in SearchRequest /\ request'.starts = starts /\ request'.anchors = required
      /\ request'.depth \in Nat
  BY <1>2, <1>5, <1>6 DEF SearchRequest
<1>8. kind # "neighbors" => starts \subseteq g.nodes /\ required \subseteq starts
  BY <1>1
<1>9. \A n : <<>> # <<n>>
  OBVIOUS
<1>10. Len(g.edges) \in Nat /\ \A S : <<>> \in Seq(S) /\ DOMAIN <<>> = {}
  BY <1>4
\* The type, given what it begins with.
<1>11. ASSUME status' \in {"running", "done", "refused"}, frontier' \subseteq Seq(g.nodes),
              awaiting' \in Seq(Seq(g.nodes)), DOMAIN found' \subseteq g.nodes,
              Range(found') \subseteq Seq(g.nodes)
       PROVE  GraphSearchTypeOK'
  <2>1. graph' \in Graphs \cup {NoGraph} /\ search' \in Searches
    BY <1>2
  <2>2. (frontier \cup upcoming)' \subseteq Seq(graph'.nodes) /\ visiting' \in Seq(graph'.nodes)
    BY <1>2, <1>3, <1>10, <1>11
  <2>3. at' \in 0..Len(graph'.edges) /\ depth' \in Nat /\ inspected' \in Nat
    BY <1>2, <1>3, <1>10 DEF GraphSearchTypeOK
  <2>4. bounded' \in BOOLEAN
    BY <1>2, <1>3 DEF GraphSearchTypeOK
  <2> QED
    BY <1>2, <1>7, <1>11, <2>1, <2>2, <2>3, <2>4 DEF GraphSearchTypeOK
<1>12. CASE status' = "refused"
  <2>1. UNCHANGED <<frontier, awaiting, found>>
    BY <1>2, <1>12
  <2>2. GraphSearchTypeOK'
    <3>1. awaiting' \in Seq(Seq(g.nodes)) /\ DOMAIN found' = {}
      BY <1>3, <1>10, <2>1
    <3> QED
      BY <1>3, <1>11, <1>12, <2>1, <3>1 DEF Range
  <2>3. DOMAIN found' = {}
    BY <1>3, <1>10, <2>1
  <2> QED
    BY <1>12, <2>2, <2>3 DEF SearchInv, Running
<1>13. CASE status' = "done"
  <2>1. /\ kind = "query" /\ frontier' = {} /\ awaiting' = <<>> /\ found' = <<>>
    BY <1>2, <1>13
  <2>2. DOMAIN found' = {} /\ awaiting' \in Seq(Seq(g.nodes))
    BY <1>10, <2>1
  <2>3. GraphSearchTypeOK'
    BY <1>11, <1>13, <2>1, <2>2 DEF Range
  <2>4. GraphSearchSound'
    BY <1>2, <2>1, <2>2 DEF GraphSearchSound, Done
  <2>5. (request.starts \subseteq graph.nodes)'
    BY <1>2, <1>7, <1>8, <2>1
  <2> QED
    BY <1>13, <2>2, <2>3, <2>4, <2>5 DEF SearchInv, Running
<1>14. CASE status' = "running" /\ kind \in {"neighbors", "scoring"}
  <2>1. /\ frontier' = {<<n>> : n \in starts} /\ awaiting' = <<>>
        /\ found' = (IF kind = "neighbors" THEN [n \in starts |-> <<n>>] ELSE <<>>)
        /\ Admitted(g, request', kind)
    BY <1>2, <1>14
  <2>2. starts \subseteq g.nodes
    BY <1>7, <1>8, <2>1 DEF Admitted
  <2>3. (request.starts \subseteq graph.nodes)'
    BY <1>2, <1>7, <2>2
  <2>4. \A n \in starts : /\ IsWay(<<n>>)' /\ Last(<<n>>) = n /\ Len(<<n>>) = 1
                          /\ DOMAIN <<n>> = {1} /\ <<n>>[1] = n
    <3>1. (\A n \in request.starts : /\ IsWay(<<n>>) /\ Last(<<n>>) = n /\ Len(<<n>>) = 1
                                     /\ DOMAIN <<n>> = {1} /\ <<n>>[1] = n)'
      BY <2>3, FirstWays, PTL
    <3> QED
      BY <1>7, <3>1
  <2>5. /\ DOMAIN found' \subseteq starts /\ (kind = "neighbors" => DOMAIN found' = starts)
        /\ \A n \in DOMAIN found' : found'[n] = <<n>>
    BY <1>10, <1>14, <2>1
  <2>6. GraphSearchTypeOK'
    <3>1. \A n \in starts : <<n>> \in Seq(g.nodes)
      BY <1>2, <2>4 DEF IsWay
    <3>2. awaiting' \in Seq(Seq(g.nodes))
      BY <1>10, <2>1
    <3> QED
      BY <1>11, <1>14, <2>1, <2>2, <2>5, <3>1, <3>2 DEF Range
  <2>7. (\A n \in DOMAIN found : IsWay(found[n]) /\ Last(found[n]) = n)'
    BY <2>4, <2>5
  <2>8. \A n : n \in Known' <=> n \in starts
    BY <1>7, <2>5 DEF Known
  <2>9. \A n \in starts : Level(n)' = 0
    BY <1>7 DEF Level
  <2>10. RoundInv'
    <3>1. depth' = 0 /\ at' = 0 /\ upcoming' = {} /\ depth' <= request'.depth
      BY <1>2, <1>3, <1>7
    <3>2. \A p \in frontier' : IsWay(p)' /\ Len(p) = depth' + 1
      BY <2>1, <2>4, <3>1
    <3>3. ASSUME NEW p \in frontier', NEW j \in DOMAIN p PROVE KnownWithin(p[j], j - 1)'
      <4>1. PICK n \in starts : p = <<n>>
        BY <2>1
      <4>2. j = 1 /\ p[j] = n
        BY <2>4, <4>1
      <4> QED
        BY <2>8, <2>9, <4>2 DEF KnownWithin
    <3>4. /\ \A n \in DOMAIN found' : Len(found'[n]) <= depth' + 2
          /\ DOMAIN found' \ request'.starts = {}
      <4>1. \A n \in DOMAIN found' : n \in starts /\ Len(found'[n]) = 1
        BY <2>4, <2>5
      <4>2. \A n \in DOMAIN found' : Len(found'[n]) <= depth' + 2
        BY <3>1, <4>1
      <4>3. DOMAIN found' \ request'.starts = {}
        BY <1>7, <4>1
      <4> QED
        BY <4>2, <4>3
    <3>5. ASSUME NEW n \in Known' PROVE Opening(n)'
      <4>1. <<n>> \in frontier' /\ Last(<<n>>) = n /\ Level(n)' = 0
        BY <2>1, <2>4, <2>8, <2>9
      <4> QED
        BY <3>1, <4>1 DEF Opening
    <3> QED
      BY <3>1, <3>2, <3>3, <3>4, <3>5 DEF RoundInv
  <2>11. ~Running("expansion")' /\ (Running("neighbors")' => kind = "neighbors") /\ at' = 0
    BY <1>2, <1>3, <1>14 DEF Running
  <2> QED
    BY <1>7, <1>14, <2>3, <2>5, <2>6, <2>7, <2>10, <2>11 DEF SearchInv
<1>15. CASE status' = "running" /\ kind = "expansion"
  <2> DEFINE c == Cardinality(required)
             d == Cardinality(starts \ required)
  <2>1. PICK ms \in [1..c -> required], ns \in [1..d -> starts \ required] :
          /\ required \subseteq Range(ms) /\ starts \ required \subseteq Range(ns)
          /\ awaiting' = [i \in DOMAIN (ms \o ns) |-> <<(ms \o ns)[i]>>]
    BY <1>2, <1>15 DEF Ascending
  <2>2. frontier' = {} /\ found' = <<>> /\ DOMAIN found' = {}
    BY <1>2, <1>10, <1>15
  <2>3. starts \subseteq g.nodes /\ required \subseteq starts
    BY <1>8, <1>15
  <2>4. c \in Nat /\ d \in Nat
    BY <1>4, <2>3, FS_Subset, FS_CardinalityType
  <2> HIDE DEF c, d
  <2>5. /\ ms \in Seq(starts) /\ Len(ms) = c /\ ns \in Seq(starts) /\ Len(ns) = d
    BY <2>3, <2>4
  <2>6. PICK all : all = ms \o ns
    OBVIOUS
  <2>7. /\ all \in Seq(starts) /\ Len(all) = c + d /\ DOMAIN all = 1..(c + d)
        /\ \A i \in 1..c : all[i] = ms[i]
        /\ \A i \in 1..d : all[c + i] = ns[i]
    <3>1. all \in Seq(starts)
      BY <2>5, <2>6
    <3>2. Len(all) = c + d
      <4>1. Len(ms \o ns) = Len(ms) + Len(ns)
        BY <2>5, ConcatProperties
      <4> QED
        BY <2>5, <2>6, <4>1
    <3>3. DOMAIN all = 1..(c + d)
      BY <3>1, <3>2
    <3>4. \A i \in 1..c : all[i] = ms[i]
      BY <2>4, <2>5, <2>6, ConcatProperties
    <3>5. ASSUME NEW i \in 1..d PROVE all[c + i] = ns[i]
      <4>1. c + i \in (c + 1)..(c + d) /\ c + i - c = i
        BY <2>4
      <4>2. all[c + i] = ns[c + i - c]
        BY <2>4, <2>5, <2>6, <4>1, ConcatProperties
      <4> QED
        BY <4>1, <4>2
    <3> QED
      BY <3>1, <3>2, <3>3, <3>4, <3>5
  <2>8. PICK q : q = awaiting' /\ q = [i \in 1..(c + d) |-> <<all[i]>>]
    BY <2>1, <2>6, <2>7
  <2>9. (request.starts \subseteq graph.nodes)'
    BY <1>2, <1>7, <2>3
  <2>10. \A n \in starts : IsWay(<<n>>)' /\ Last(<<n>>) = n /\ Len(<<n>>) = 1
    <3>1. (\A n \in request.starts : /\ IsWay(<<n>>) /\ Last(<<n>>) = n /\ Len(<<n>>) = 1
                                     /\ DOMAIN <<n>> = {1} /\ <<n>>[1] = n)'
      BY <2>9, FirstWays, PTL
    <3> QED
      BY <1>7, <3>1
  <2>11. /\ DOMAIN q = 1..(c + d) /\ q = awaiting'
         /\ \A i \in 1..(c + d) : /\ q[i] = <<all[i]>> /\ all[i] \in starts
                                  /\ IsWay(q[i])' /\ Last(q[i]) = all[i]
                                  /\ Len(q[i]) = 1
    <3>1. \A i \in 1..(c + d) : all[i] \in starts /\ q[i] = <<all[i]>>
      BY <2>7, <2>8
    <3>2. ASSUME NEW i \in 1..(c + d)
          PROVE  IsWay(q[i])' /\ Last(q[i]) = all[i] /\ Len(q[i]) = 1
      <4>1. PICK n \in starts : n = all[i] /\ q[i] = <<n>>
        BY <3>1
      <4>2. IsWay(<<n>>)' /\ Last(<<n>>) = n /\ Len(<<n>>) = 1
        BY <2>10
      <4> QED
        BY <4>1, <4>2
    <3> QED
      BY <2>8, <3>1, <3>2
  <2>12. /\ \A n \in required : \E i \in 1..c : all[i] = n
         /\ \A n \in starts : \E i \in 1..(c + d) : all[i] = n
         /\ \A i \in 1..c : all[i] \in required
    <3>1. ASSUME NEW n \in required PROVE \E i \in 1..c : all[i] = n
      <4>1. PICK i \in DOMAIN ms : ms[i] = n
        BY <2>1, <3>1 DEF Range
      <4> QED
        BY <2>7, <4>1
    <3>2. ASSUME NEW n \in starts \ required PROVE \E i \in 1..(c + d) : all[i] = n
      <4>1. PICK i \in DOMAIN ns : ns[i] = n
        BY <2>1, <3>2 DEF Range
      <4>2. i \in 1..d /\ c + i \in 1..(c + d)
        BY <2>4, <4>1
      <4> QED
        BY <2>7, <4>1, <4>2
    <3>3. 1..c \subseteq 1..(c + d)
      BY <2>4
    <3> QED
      BY <2>7, <3>1, <3>2, <3>3
  <2>13. GraphSearchTypeOK'
    <3>1. \A i \in 1..(c + d) : q[i] \in Seq(g.nodes)
      BY <1>2, <2>11 DEF IsWay
    <3>2. awaiting' \in Seq(Seq(g.nodes))
      <4>1. c + d \in Nat
        BY <2>4
      <4>2. awaiting' \in [1..(c + d) -> Seq(g.nodes)]
        BY <2>8, <2>11, <3>1
      <4> QED
        BY <4>1, <4>2
    <3> QED
      BY <1>11, <1>15, <2>2, <3>2 DEF Range
  <2>14. at' = 0 /\ visiting' = visiting /\ depth' = depth
    BY <1>2, <1>3
  <2>15. QueueInv'
    <3>1. \A i \in DOMAIN q : Len(q[i]) = 1 /\ IsWay(q[i])'
      BY <2>11
    <3>2. \A i \in DOMAIN q : Len(q[i]) <= request'.depth + 1
                                         /\ 1..(Len(q[i]) - 1) = {}
      <4> SUFFICES ASSUME NEW i \in DOMAIN q
                   PROVE  Len(q[i]) <= request'.depth + 1 /\ 1..(Len(q[i]) - 1) = {}
        OBVIOUS
      <4>1. Len(q[i]) = 1
        BY <3>1
      <4> QED
        BY <1>7, <4>1
    <3>3. \A i, j \in DOMAIN q : Len(q[j]) <= Len(q[i]) + 1
                                            /\ Len(q[i]) <= Len(q[j])
      BY <3>1
    <3> QED
      BY <2>2, <2>11, <2>14, <3>1, <3>2, <3>3 DEF QueueInv
  <2>16. TakenInv'
    <3>1. ASSUME NEW a \in required
          PROVE  \E i \in DOMAIN q : q[i] = <<a>>
                   /\ \A j \in 1..i : Last(q[j]) \in required
      <4>1. PICK i \in 1..c : all[i] = a
        BY <2>12
      <4>2. i \in 1..(c + d) /\ \A j \in 1..i : j \in 1..c /\ j \in 1..(c + d)
        BY <2>4
      <4>3. i \in DOMAIN q /\ q[i] = <<a>>
        BY <2>11, <4>1, <4>2
      <4>4. \A j \in 1..i : Last(q[j]) \in required
        BY <2>11, <2>12, <4>2
      <4> QED
        BY <4>3, <4>4
    <3> QED
      BY <1>7, <2>2, <2>11, <3>1 DEF TakenInv
  <2>17. \A n \in request'.starts : Placed(n, 1)'
    <3>1. \A n \in starts : \E i \in DOMAIN q : Last(q[i]) = n
                                                           /\ Len(q[i]) <= 1
      <4> SUFFICES ASSUME NEW n \in starts
                   PROVE  \E i \in DOMAIN q : Last(q[i]) = n /\ Len(q[i]) <= 1
        OBVIOUS
      <4>1. PICK i \in 1..(c + d) : all[i] = n
        BY <2>12
      <4>2. i \in DOMAIN q /\ Last(q[i]) = n /\ Len(q[i]) = 1
        BY <2>11, <4>1
      <4>3. Len(q[i]) <= 1
        BY <4>2
      <4> QED
        BY <4>2, <4>3
    <3> QED
      BY <1>7, <2>11, <3>1 DEF Placed
  <2>18. ExpansionInv'
    BY <1>7, <2>2, <2>3, <2>15, <2>16, <2>17 DEF ExpansionInv
  <2>19. ~Running("neighbors")' /\ ~Running("scoring")'
    BY <1>2, <1>15 DEF Running
  <2> QED
    BY <1>15, <2>2, <2>9, <2>13, <2>18, <2>19 DEF SearchInv
<1> QED
  BY <1>2, <1>12, <1>13, <1>14, <1>15 DEF Searches

-----------------------------------------------------------------------------
(* Expansion: the steps.                                                    *)

LEMMA SpentNat ==
  ASSUME GraphSearchTypeOK
  PROVE  Spent \in Nat /\ IsFiniteSet(DOMAIN found)
<1>1. DOMAIN found \subseteq graph.nodes /\ IsFiniteSet(graph.nodes)
      /\ graph.cost \in [graph.nodes -> Nat]
  BY GraphFacts DEF GraphSearchTypeOK
<1>2. IsFiniteSet(DOMAIN found) /\ \A n \in DOMAIN found : graph.cost[n] \in Nat
  BY <1>1, FS_Subset
<1> QED
  BY <1>2, SpentIs, TotalNat

\* A node that is taken adds its cost.
LEMMA SpentGrows ==
  ASSUME GraphSearchTypeOK, GraphSearchTypeOK', graph' = graph
  PROVE  /\ DOMAIN found' = DOMAIN found => Spent' = Spent
         /\ \A n \in graph.nodes : n \notin DOMAIN found /\ DOMAIN found' = DOMAIN found \cup {n} =>
              Spent' = Spent + graph.cost[n]
<1>1. Spent = Total(graph.cost, DOMAIN found)
  BY SpentIs
<1>2. Spent' = Total(graph.cost, DOMAIN found')
  <2>1. (Spent = Total(graph.cost, DOMAIN found))'
    BY SpentIs, PTL
  <2> QED
    BY <2>1
<1>3. IsFiniteSet(DOMAIN found) /\ \A n \in graph.nodes : graph.cost[n] \in Nat
  BY SpentNat, GraphFacts
<1>4. ASSUME NEW n \in graph.nodes, n \notin DOMAIN found, DOMAIN found' = DOMAIN found \cup {n}
      PROVE  Spent' = Spent + graph.cost[n]
  <2>1. \A x \in DOMAIN found : graph.cost[x] \in Nat
    BY <1>3 DEF GraphSearchTypeOK
  <2>2. Total(graph.cost, DOMAIN found \cup {n}) = Total(graph.cost, DOMAIN found) + graph.cost[n]
    BY <1>3, <1>4, <2>1, TotalPlus
  <2> QED
    BY <1>1, <1>2, <1>4, <2>2
<1> QED
  BY <1>1, <1>2, <1>4

LEMMA InExpansion ==
  ASSUME SearchInv, Running("expansion")
  PROVE  /\ WaysKnown /\ ExpansionInv /\ GraphSearchTypeOK
         /\ request.depth \in Nat /\ request.budget \in Nat /\ inspected \in Nat
         /\ IsFiniteSet(request.anchors) /\ request.anchors \subseteq graph.nodes
         /\ awaiting \in Seq(Seq(graph.nodes)) /\ Len(awaiting) \in Nat
         /\ DOMAIN awaiting = 1..Len(awaiting)
         /\ \A n \in DOMAIN found : n \in graph.nodes /\ Len(found[n]) \in Nat \ {0}
         /\ \A i \in DOMAIN awaiting : /\ Len(awaiting[i]) \in Nat \ {0}
                                       /\ Last(awaiting[i]) \in graph.nodes
<1>1. WaysKnown /\ ExpansionInv /\ GraphSearchTypeOK
  BY DEF SearchInv, Running, WaysKnown
<1>2. request.depth \in Nat /\ request.budget \in Nat /\ inspected \in Nat
  BY <1>1 DEF GraphSearchTypeOK, SearchRequest
<1>3. IsFiniteSet(request.anchors) /\ request.anchors \subseteq graph.nodes
  BY <1>1, GraphFacts, FS_Subset DEF ExpansionInv, WaysKnown
<1>4. /\ awaiting \in Seq(Seq(graph.nodes)) /\ Len(awaiting) \in Nat
      /\ DOMAIN awaiting = 1..Len(awaiting)
  BY <1>1 DEF GraphSearchTypeOK
<1>5. \A n \in DOMAIN found : n \in graph.nodes /\ Len(found[n]) \in Nat \ {0}
  BY <1>1, WayEnds DEF WaysKnown
<1>6. \A i \in DOMAIN awaiting : Len(awaiting[i]) \in Nat \ {0} /\ Last(awaiting[i]) \in graph.nodes
  BY <1>1, WayEnds DEF ExpansionInv, QueueInv
<1> QED
  BY <1>1, <1>2, <1>3, <1>4, <1>5, <1>6

\* What a step of an expansion has to keep.
LEMMA ExpansionGoesOn ==
  ASSUME SearchInv, Running("expansion"),
         UNCHANGED <<graph, request, search, status, depth, frontier, upcoming>>,
         awaiting' \in Seq(Seq(graph.nodes)), visiting' \in Seq(graph.nodes),
         at' \in 0..Len(graph.edges), inspected' \in Nat, bounded' \in BOOLEAN,
         \A n \in DOMAIN found' : IsWay(found'[n]) /\ Last(found'[n]) = n
  PROVE  GraphSearchTypeOK' /\ (ExpansionInv' => SearchInv')
<1>1. \A p : IsWay(p)' <=> IsWay(p)
  BY SameGraph
<1>2. (\A n \in DOMAIN found : IsWay(found[n]) /\ Last(found[n]) = n)'
  BY <1>1
<1>3. DOMAIN found' \subseteq graph.nodes /\ Range(found') \subseteq Seq(graph.nodes)
  BY WayEnds DEF Range
<1>4. GraphSearchTypeOK'
  BY <1>3 DEF SearchInv, GraphSearchTypeOK
<1>5. ~Running("neighbors")' /\ ~Running("scoring")' /\ status' # "none" /\ status' # "done"
      /\ (request.starts \subseteq graph.nodes)'
  BY DEF Running, SearchInv
<1> QED
  BY <1>2, <1>4, <1>5 DEF SearchInv

LEMMA FollowEdgeKeeps ==
  ASSUME SearchInv, FollowEdge
  PROVE  SearchInv'
<1>1. PICK i, a : i = at /\ a = Last(visiting)
  OBVIOUS
<1>2. PICK node : node = OtherEnd(graph.edges[i], a)
  OBVIOUS
<1>3. PICK path : path = Append(visiting, node)
  OBVIOUS
<1>4. /\ Running("expansion") /\ i # 0
      /\ UNCHANGED <<graph, request, search, status, depth, frontier, upcoming, visiting, found>>
  BY <1>1 DEF FollowEdge
<1>5. \/ /\ node = 0 \/ graph.edges[i].kind \notin request.edgeKinds
         /\ at' = EdgeAfter(i) /\ UNCHANGED <<awaiting, inspected, bounded>>
      \/ bounded' = TRUE /\ at' = 0 /\ UNCHANGED <<awaiting, inspected>>
      \/ /\ node # 0 /\ graph.edges[i].kind \in request.edgeKinds
         /\ inspected' = inspected + 1 /\ at' = EdgeAfter(i) /\ UNCHANGED bounded
         /\ awaiting' = IF node \in DOMAIN found THEN awaiting ELSE Append(awaiting, path)
  BY <1>1, <1>2, <1>3 DEF FollowEdge
<1>6. /\ WaysKnown /\ ExpansionInv /\ GraphSearchTypeOK
      /\ request.depth \in Nat /\ request.budget \in Nat /\ inspected \in Nat
      /\ IsFiniteSet(request.anchors) /\ request.anchors \subseteq graph.nodes
      /\ awaiting \in Seq(Seq(graph.nodes)) /\ Len(awaiting) \in Nat
      /\ DOMAIN awaiting = 1..Len(awaiting)
      /\ \A n \in DOMAIN found : n \in graph.nodes /\ Len(found[n]) \in Nat \ {0}
      /\ \A k \in DOMAIN awaiting : /\ Len(awaiting[k]) \in Nat \ {0}
                                    /\ Last(awaiting[k]) \in graph.nodes
  BY <1>4, InExpansion
<1>7. QueueInv /\ TakenInv
  BY <1>6 DEF ExpansionInv
<1>8. Len(graph.edges) \in Nat /\ DOMAIN graph.edges = 1..Len(graph.edges)
  BY <1>6, GraphFacts
<1>9. i \in 1..Len(graph.edges) /\ i \in Nat \ {0}
  BY <1>1, <1>4, <1>6, <1>8 DEF GraphSearchTypeOK
<1>10. /\ at' \in 0..Len(graph.edges)
       /\ at' = EdgeAfter(i) => IF at' = 0 THEN i = Len(graph.edges) ELSE at' = i + 1
  BY <1>5, <1>6, <1>8, <1>9, NextEdge
<1>11. /\ a \in DOMAIN found /\ visiting = found[a] /\ Len(visiting) <= request.depth
       /\ a \in graph.nodes /\ IsWay(visiting) /\ Len(visiting) \in Nat \ {0}
       /\ \A n \in DOMAIN found : Len(found[n]) <= Len(visiting)
       /\ \A k \in DOMAIN awaiting : Len(awaiting[k]) \in Len(visiting)..(Len(visiting) + 1)
  BY <1>1, <1>4, <1>6, <1>7 DEF QueueInv, WaysKnown
<1>12. ASSUME node # 0, graph.edges[i].kind \in request.edgeKinds
       PROVE  /\ node \in graph.nodes /\ IsWay(path) /\ Last(path) = node
              /\ Len(path) = Len(visiting) + 1 /\ DOMAIN path = 1..(Len(visiting) + 1)
              /\ \A j \in 1..Len(visiting) : path[j] = visiting[j]
  <2>1. node \in graph.nodes /\ Joined(a, node)
    BY <1>2, <1>6, <1>8, <1>9, <1>11, <1>12, EndsAre, JoinedEnds
  <2> QED
    BY <1>1, <1>3, <1>6, <1>11, <2>1, LongerWay
\* The queue has what it had, and at most the path at its end.
<1>13. PICK q : q = awaiting'
  OBVIOUS
<1>14. /\ q \in Seq(Seq(graph.nodes)) /\ DOMAIN q = 1..Len(q) /\ Len(q) \in Nat
       /\ Len(awaiting) <= Len(q)
       /\ \A k \in DOMAIN awaiting : k \in DOMAIN q /\ q[k] = awaiting[k]
       /\ \A k \in DOMAIN q : k \in DOMAIN awaiting
            \/ /\ k = Len(awaiting) + 1 /\ q[k] = path
               /\ node # 0 /\ graph.edges[i].kind \in request.edgeKinds
  <2>1. CASE q = awaiting
    BY <1>6, <2>1
  <2>2. CASE q = Append(awaiting, path) /\ node # 0 /\ graph.edges[i].kind \in request.edgeKinds
    <3>1. path \in Seq(graph.nodes)
      BY <1>12, <2>2 DEF IsWay
    <3>2. /\ q \in Seq(Seq(graph.nodes)) /\ Len(q) = Len(awaiting) + 1
          /\ \A k \in 1..Len(awaiting) : q[k] = awaiting[k]
          /\ q[Len(awaiting) + 1] = path
      BY <1>6, <2>2, <3>1
    <3>3. DOMAIN q = 1..(Len(awaiting) + 1)
      BY <3>2
    <3> QED
      BY <1>6, <2>2, <3>2, <3>3
  <2> QED
    BY <1>5, <1>13, <2>1, <2>2
<1>15. GraphSearchTypeOK' /\ (ExpansionInv' => SearchInv')
  <2>1. inspected' \in Nat /\ bounded' \in BOOLEAN
    <3>1. inspected' = inspected \/ inspected' = inspected + 1
      BY <1>5
    <3>2. bounded' = bounded \/ bounded' = TRUE
      BY <1>5
    <3>3. bounded' \in BOOLEAN
      BY <1>6, <3>2 DEF GraphSearchTypeOK
    <3> QED
      BY <1>6, <3>1, <3>3
  <2>2. visiting' \in Seq(graph.nodes)
    BY <1>4, <1>11 DEF IsWay
  <2>3. \A n \in DOMAIN found' : IsWay(found'[n]) /\ Last(found'[n]) = n
    BY <1>4, <1>6 DEF WaysKnown
  <2> QED
    BY <1>4, <1>10, <1>13, <1>14, <2>1, <2>2, <2>3, ExpansionGoesOn
<1>16. /\ Spent' = Spent /\ Listed' = Listed /\ \A n : Fits(n)' <=> Fits(n)
       /\ \A p : IsWay(p)' <=> IsWay(p)
  <2>1. Spent' = Spent
    BY <1>4, <1>6, <1>15, SpentGrows
  <2>2. Listed' = Listed /\ \A p : IsWay(p)' <=> IsWay(p)
    BY <1>4, SameGraph
  <2> QED
    BY <1>4, <2>1, <2>2 DEF Fits
<1>17. \A k \in DOMAIN q : /\ IsWay(q[k]) /\ Len(q[k]) <= request.depth + 1
                           /\ Len(q[k]) \in Len(visiting)..(Len(visiting) + 1)
                           /\ \A j \in 1..(Len(q[k]) - 1) : q[k][j] \in DOMAIN found
  <2> TAKE k \in DOMAIN q
  <2>1. CASE k \in DOMAIN awaiting
    BY <1>7, <1>11, <1>14, <2>1 DEF QueueInv
  <2>2. CASE q[k] = path /\ node # 0 /\ graph.edges[i].kind \in request.edgeKinds
    <3>1. \A j \in 1..Len(visiting) : path[j] \in DOMAIN found
      <4>1. \A j \in 1..Len(visiting) : visiting[j] \in Range(found[a])
        BY <1>11, WayEnds DEF Range
      <4> QED
        BY <1>7, <1>11, <1>12, <2>2, <4>1 DEF TakenInv
    <3>2. Len(path) - 1 = Len(visiting)
      BY <1>11, <1>12, <2>2
    <3> QED
      BY <1>6, <1>11, <1>12, <2>2, <3>1, <3>2
  <2> QED
    BY <1>14, <2>1, <2>2
<1>18. QueueInv'
  <2>1. \A k \in DOMAIN q :
          /\ IsWay(q[k])' /\ Len(q[k]) <= request'.depth + 1
          /\ \A j \in 1..(Len(q[k]) - 1) : q[k][j] \in DOMAIN found'
          /\ at' # 0 => Len(q[k]) \in Len(visiting')..(Len(visiting') + 1)
    BY <1>4, <1>16, <1>17
  <2>2. ASSUME NEW k \in DOMAIN q, NEW n \in DOMAIN found PROVE Len(found[n]) <= Len(q[k])
    <3>1. Len(found[n]) <= Len(visiting) /\ Len(q[k]) \in Len(visiting)..(Len(visiting) + 1)
          /\ Len(found[n]) \in Nat
      BY <1>6, <1>11, <1>17
    <3> QED
      BY <1>11, <3>1
  <2>3. \A k, l \in DOMAIN q : Len(q[l]) <= Len(q[k]) + 1
    BY <1>11, <1>17
  <2>4. ASSUME NEW k \in DOMAIN q, NEW l \in DOMAIN q, k < l PROVE Len(q[k]) <= Len(q[l])
    <3>1. k \in DOMAIN awaiting
      BY <1>6, <1>14, <2>4
    <3>2. CASE l \in DOMAIN awaiting
      BY <1>7, <1>14, <2>4, <3>1, <3>2 DEF QueueInv
    <3>3. CASE q[l] = path /\ node # 0 /\ graph.edges[i].kind \in request.edgeKinds
      BY <1>11, <1>12, <1>17, <3>3
    <3> QED
      BY <1>14, <3>2, <3>3
  <2>5. at' # 0 => /\ Last(visiting') \in DOMAIN found' /\ visiting' = found'[Last(visiting')]
                   /\ Len(visiting') <= request'.depth
                   /\ \A n \in DOMAIN found' : Len(found'[n]) <= Len(visiting')
    BY <1>1, <1>4, <1>11
  <2>6. \A k \in DOMAIN q : \A n \in DOMAIN found' : Len(found'[n]) <= Len(q[k])
    BY <1>4, <2>2
  <2> QED
    BY <1>13, <2>1, <2>3, <2>4, <2>5, <2>6 DEF QueueInv
<1>19. TakenInv'
  <2>1. ASSUME NEW b \in request.anchors \ DOMAIN found
        PROVE  \E k \in DOMAIN q : q[k] = <<b>> /\ \A j \in 1..k : Last(q[j]) \in request.anchors
    <3>1. PICK k \in DOMAIN awaiting :
            awaiting[k] = <<b>> /\ \A j \in 1..k : Last(awaiting[j]) \in request.anchors
      BY <1>7 DEF TakenInv
    <3>2. \A j \in 1..k : j \in DOMAIN awaiting
      BY <1>6
    <3> QED
      BY <1>14, <3>1, <3>2
  <2> QED
    BY <1>4, <1>7, <1>13, <1>16, <2>1 DEF TakenInv
<1>20. ASSUME ~bounded' PROVE ~bounded /\ at' = EdgeAfter(i)
  BY <1>5, <1>20
<1>21. \A m, l : Placed(m, l) => Placed(m, l)'
  BY <1>4, <1>13, <1>14, <1>16 DEF Placed
<1>22. ASSUME ~bounded', NEW n \in DOMAIN found, NEW m \in graph.nodes, Joined(n, m),
              Len(found[n]) <= request.depth
       PROVE  Placed(m, Len(found[n]) + 1)' \/ ToFollow(n, m)'
  <2>1. Placed(m, Len(found[n]) + 1) \/ ToFollow(n, m)
    BY <1>6, <1>20, <1>22 DEF ExpansionInv
  <2>2. CASE Placed(m, Len(found[n]) + 1)
    <3>1. PICK l : l = Len(found[n]) + 1
      OBVIOUS
    <3>2. Placed(m, l)'
      BY <1>21, <2>2, <3>1
    <3> QED
      BY <1>4, <3>1, <3>2
  <2>3. CASE ToFollow(n, m)
    <3>1. n = a
      BY <1>1, <2>3 DEF ToFollow
    <3>2. PICK k \in i..Len(graph.edges) : graph.edges[k].kind \in request.edgeKinds
                                             /\ OtherEnd(graph.edges[k], n) = m
      BY <1>1, <2>3 DEF ToFollow
    <3>3. CASE k = i
      <4>1. m = node /\ node # 0 /\ graph.edges[i].kind \in request.edgeKinds
        BY <1>2, <1>6, <1>11, <3>1, <3>2, <3>3, EndsAre
      <4>2. CASE node \in DOMAIN found
        <5>1. Len(found[m]) <= Len(found[n]) + 1
          BY <1>6, <1>11, <3>1, <4>1, <4>2
        <5> QED
          BY <1>4, <4>1, <4>2, <5>1 DEF Placed
      <4>3. CASE node \notin DOMAIN found
        <5>1. bounded' = TRUE \/ q = Append(awaiting, path)
          BY <1>5, <1>13, <4>1, <4>3
        <5>2. q = Append(awaiting, path)
          BY <1>22, <5>1
        <5>3. path \in Seq(graph.nodes)
          BY <1>12, <4>1 DEF IsWay
        <5>4. Len(q) = Len(awaiting) + 1 /\ q[Len(awaiting) + 1] = path
          BY <1>6, <5>2, <5>3
        <5>5. Len(q) \in DOMAIN q /\ q[Len(q)] = path
          BY <1>6, <1>14, <5>4
        <5>6. Last(path) = m /\ Len(path) <= Len(found[n]) + 1
          BY <1>11, <1>12, <3>1, <4>1
        <5> QED
          BY <1>4, <1>13, <5>5, <5>6 DEF Placed
      <4> QED
        BY <4>2, <4>3
    <3>4. CASE k # i
      <4>1. at' = i + 1 /\ k \in (i + 1)..Len(graph.edges)
        BY <1>8, <1>9, <1>10, <1>20, <1>22, <3>2, <3>4
      <4>2. at' # 0 /\ Last(visiting') = n
        BY <1>1, <1>4, <1>9, <3>1, <4>1
      <4> QED
        BY <1>4, <3>2, <4>1, <4>2 DEF ToFollow
    <3> QED
      BY <3>3, <3>4
  <2> QED
    BY <2>1, <2>2, <2>3
<1>23. ASSUME ~bounded'
       PROVE  /\ (\A n \in request.starts : Placed(n, 1))'
              /\ (\A n \in DOMAIN found, m \in graph.nodes :
                    Joined(n, m) /\ Len(found[n]) <= request.depth =>
                      Placed(m, Len(found[n]) + 1) \/ ToFollow(n, m))'
  <2>1. \A m, n : Joined(m, n)' <=> Joined(m, n)
    BY <1>4, SameGraph
  <2>2. \A n \in request.starts : Placed(n, 1)
    BY <1>6, <1>20, <1>23 DEF ExpansionInv
  <2>3. (\A n \in request.starts : Placed(n, 1))'
    BY <1>4, <1>21, <2>2
  <2> QED
    BY <1>4, <1>22, <1>23, <2>1, <2>3
<1>24. (request.anchors \subseteq request.starts)'
  BY <1>4, <1>6 DEF ExpansionInv
<1>25. ExpansionInv'
  BY <1>18, <1>19, <1>23, <1>24 DEF ExpansionInv
<1> QED
  BY <1>15, <1>25

LEMMA TakeNodeKeeps ==
  ASSUME SearchInv, TakeNode
  PROVE  SearchInv'
<1>1. PICK path, node : path = Head(awaiting) /\ node = Last(path)
  OBVIOUS
<1>2. PICK q : q = awaiting'
  OBVIOUS
<1>3. /\ Running("expansion") /\ at = 0 /\ awaiting # <<>> /\ q = Tail(awaiting)
      /\ UNCHANGED <<graph, request, search, status, depth, frontier, upcoming, inspected, bounded>>
  BY <1>2 DEF TakeNode
<1>4. \/ Skipped(node) /\ UNCHANGED <<found, visiting, at>>
      \/ /\ ~Skipped(node) /\ found' = Reaching([n \in {node} |-> path]) /\ visiting' = path
         /\ at' = IF Len(path) > request.depth THEN 0 ELSE EdgeAfter(0)
  BY <1>1 DEF TakeNode
<1>5. /\ WaysKnown /\ ExpansionInv /\ GraphSearchTypeOK
      /\ request.depth \in Nat /\ request.budget \in Nat /\ inspected \in Nat
      /\ IsFiniteSet(request.anchors) /\ request.anchors \subseteq graph.nodes
      /\ awaiting \in Seq(Seq(graph.nodes)) /\ Len(awaiting) \in Nat
      /\ DOMAIN awaiting = 1..Len(awaiting)
      /\ \A n \in DOMAIN found : n \in graph.nodes /\ Len(found[n]) \in Nat \ {0}
      /\ \A k \in DOMAIN awaiting : /\ Len(awaiting[k]) \in Nat \ {0}
                                    /\ Last(awaiting[k]) \in graph.nodes
  BY <1>3, InExpansion
<1>6. QueueInv /\ TakenInv
  BY <1>5 DEF ExpansionInv
<1>7. /\ 1 \in DOMAIN awaiting /\ path = awaiting[1]
      /\ q \in Seq(Seq(graph.nodes)) /\ Len(q) \in Nat /\ Len(q) = Len(awaiting) - 1
      /\ DOMAIN q = 1..(Len(awaiting) - 1)
      /\ \A k \in DOMAIN q : q[k] = awaiting[k + 1] /\ k + 1 \in DOMAIN awaiting
      /\ \A k \in DOMAIN awaiting : k # 1 => k - 1 \in DOMAIN q /\ q[k - 1] = awaiting[k]
  <2>1. /\ Len(awaiting) \in Nat \ {0} /\ path = awaiting[1]
    BY <1>1, <1>3, <1>5
  <2>2. /\ q \in Seq(Seq(graph.nodes)) /\ Len(q) = Len(awaiting) - 1
        /\ \A k \in 1..(Len(awaiting) - 1) : q[k] = awaiting[k + 1]
    BY <1>3, <1>5, HeadTailProperties
  <2>3. DOMAIN q = 1..(Len(awaiting) - 1)
    BY <2>2
  <2> QED
    BY <1>5, <2>1, <2>2, <2>3
<1>8. /\ IsWay(path) /\ Last(path) = node /\ node \in graph.nodes /\ Len(path) \in Nat \ {0}
      /\ Len(path) <= request.depth + 1
      /\ \A j \in 1..(Len(path) - 1) : path[j] \in DOMAIN found
      /\ \A n \in DOMAIN found : Len(found[n]) <= Len(path)
      /\ \A k \in DOMAIN q : Len(q[k]) \in Len(path)..(Len(path) + 1)
  <2>1. \A k \in DOMAIN q : Len(awaiting[k + 1]) \in Nat /\ 1 < k + 1
    BY <1>5, <1>7
  <2>2. \A k \in DOMAIN q : Len(awaiting[k + 1]) <= Len(path) + 1 /\ Len(path) <= Len(awaiting[k + 1])
    BY <1>6, <1>7, <2>1 DEF QueueInv
  <2>3. Len(path) \in Nat
    BY <1>5, <1>7
  <2>4. \A k \in DOMAIN q : Len(q[k]) \in Len(path)..(Len(path) + 1)
    BY <1>7, <2>1, <2>2, <2>3
  <2> QED
    BY <1>1, <1>5, <1>6, <1>7, <2>4 DEF QueueInv
\* What is taken.
<1>9. /\ \A n \in DOMAIN found : n \in DOMAIN found' /\ found'[n] = found[n]
      /\ Skipped(node) => DOMAIN found' = DOMAIN found
      /\ ~Skipped(node) => /\ node \notin DOMAIN found /\ DOMAIN found' = DOMAIN found \cup {node}
                           /\ found'[node] = path
  <2>1. CASE Skipped(node)
    BY <1>4, <2>1
  <2>2. CASE ~Skipped(node)
    BY <1>4, <2>2 DEF Skipped, Reaching
  <2> QED
    BY <2>1, <2>2
<1>10. \A n \in DOMAIN found' : n \in DOMAIN found \/ (n = node /\ ~Skipped(node))
  BY <1>9
<1>11. /\ at' \in 0..Len(graph.edges) /\ at' \in {0, 1}
       /\ at' # 0 => ~Skipped(node) /\ visiting' = path /\ Len(path) <= request.depth
       /\ ~Skipped(node) /\ Len(path) <= request.depth => at' = EdgeAfter(0)
  <2>1. Len(graph.edges) \in Nat
    BY <1>5, GraphFacts
  <2>2. EdgeAfter(0) \in 0..Len(graph.edges) /\ EdgeAfter(0) \in {0, 1}
    BY <2>1 DEF EdgeAfter
  <2>3. CASE Skipped(node)
    BY <1>3, <1>4, <2>1, <2>3
  <2>4. CASE ~Skipped(node)
    BY <1>4, <1>5, <1>8, <2>1, <2>2, <2>4
  <2> QED
    BY <2>3, <2>4
<1>12. \A n \in DOMAIN found' : IsWay(found'[n]) /\ Last(found'[n]) = n
  BY <1>5, <1>8, <1>9, <1>10 DEF WaysKnown
<1>13. GraphSearchTypeOK' /\ (ExpansionInv' => SearchInv')
  <2>1. visiting' \in Seq(graph.nodes)
    BY <1>4, <1>5, <1>8 DEF GraphSearchTypeOK, IsWay
  <2>2. inspected' \in Nat /\ bounded' \in BOOLEAN
    BY <1>3, <1>5 DEF GraphSearchTypeOK
  <2> QED
    BY <1>2, <1>3, <1>7, <1>11, <1>12, <2>1, <2>2, ExpansionGoesOn
<1>14. /\ Listed' = Listed /\ \A p : IsWay(p)' <=> IsWay(p)
       /\ \A m, n : Joined(m, n)' <=> Joined(m, n)
  BY <1>3, SameGraph
<1>15. /\ graph.cost \in [graph.nodes -> Nat] /\ Spent \in Nat /\ Listed \subseteq graph.nodes
       /\ Skipped(node) => Spent' = Spent
       /\ ~Skipped(node) => Spent' = Spent + graph.cost[node]
  BY <1>3, <1>5, <1>8, <1>9, <1>13, SpentGrows, SpentNat, GraphFacts DEF Listed
<1>16. /\ Spent' \in Nat /\ Spent <= Spent'
       /\ \A n : Fits(n)' => Fits(n)
  <2>1. graph.cost[node] \in Nat
    BY <1>8, <1>15
  <2>2. Spent' \in Nat /\ Spent <= Spent'
    BY <1>15, <2>1
  <2>3. ASSUME NEW n, Fits(n)' PROVE Fits(n)
    <3>1. n \in Listed /\ Spent' + graph.cost[n] <= request.budget
      BY <1>3, <1>14, <2>3 DEF Fits
    <3>2. graph.cost[n] \in Nat
      BY <1>15, <3>1
    <3> QED
      BY <1>5, <1>15, <2>2, <3>1, <3>2 DEF Fits
  <2> QED
    BY <2>2, <2>3
<1>17. QueueInv'
  <2>1. \A k \in DOMAIN q : /\ IsWay(q[k])' /\ Len(q[k]) <= request'.depth + 1
                            /\ \A j \in 1..(Len(q[k]) - 1) : q[k][j] \in DOMAIN found'
    <3> TAKE k \in DOMAIN q
    <3>1. q[k] = awaiting[k + 1] /\ k + 1 \in DOMAIN awaiting
      BY <1>7
    <3>2. /\ IsWay(q[k]) /\ Len(q[k]) <= request.depth + 1
          /\ \A j \in 1..(Len(q[k]) - 1) : q[k][j] \in DOMAIN found
      BY <1>6, <3>1 DEF QueueInv
    <3> QED
      BY <1>3, <1>9, <1>14, <3>2
  <2>2. \A k \in DOMAIN q : at' # 0 => Len(q[k]) \in Len(visiting')..(Len(visiting') + 1)
    BY <1>8, <1>11
  <2>3. \A n \in DOMAIN found' : Len(found'[n]) <= Len(path) /\ Len(found'[n]) \in Nat
    BY <1>5, <1>8, <1>9, <1>10
  <2>4. \A k \in DOMAIN q : \A n \in DOMAIN found' : Len(found'[n]) <= Len(q[k])
    BY <1>8, <2>3
  <2>5. \A k, l \in DOMAIN q : Len(q[l]) <= Len(q[k]) + 1
    BY <1>8
  <2>6. \A k, l \in DOMAIN q : k < l => Len(q[k]) <= Len(q[l])
    <3>1. \A k, l \in DOMAIN q : k < l => k + 1 < l + 1
      BY <1>7
    <3> QED
      BY <1>6, <1>7, <3>1 DEF QueueInv
  <2>7. at' # 0 => /\ Last(visiting') \in DOMAIN found' /\ visiting' = found'[Last(visiting')]
                   /\ Len(visiting') <= request'.depth
                   /\ \A n \in DOMAIN found' : Len(found'[n]) <= Len(visiting')
    BY <1>3, <1>8, <1>9, <1>11, <2>3
  <2> QED
    BY <1>2, <2>1, <2>2, <2>4, <2>5, <2>6, <2>7 DEF QueueInv
<1>18. TakenInv'
  <2>1. ASSUME NEW n \in DOMAIN found'
        PROVE  Len(found'[n]) <= request.depth + 1 /\ Range(found'[n]) \subseteq DOMAIN found'
    <3>1. CASE n \in DOMAIN found
      BY <1>6, <1>9, <3>1 DEF TakenInv
    <3>2. CASE n = node /\ ~Skipped(node)
      <4>1. DOMAIN path = 1..Len(path) /\ path[Len(path)] = node
        BY <1>8, WayEnds
      <4>2. \A j \in DOMAIN path : path[j] \in DOMAIN found'
        BY <1>8, <1>9, <3>2, <4>1
      <4> QED
        BY <1>8, <1>9, <3>2, <4>2 DEF Range
    <3> QED
      BY <1>10, <2>1, <3>1, <3>2
  <2>2. DOMAIN found' \subseteq Listed \cup request.anchors
    BY <1>6, <1>10 DEF TakenInv, Skipped
  <2>3. Spent' <= request.budget \/ DOMAIN found' \subseteq request.anchors
    <3>1. CASE Skipped(node)
      BY <1>6, <1>9, <1>15, <3>1 DEF TakenInv
    <3>2. CASE ~Skipped(node) /\ node \in request.anchors
      BY <1>6, <1>9, <3>2 DEF TakenInv
    <3>3. CASE ~Skipped(node) /\ node \notin request.anchors
      <4>1. ~(Spent + graph.cost[node] > request.budget)
        BY <3>3 DEF Skipped
      <4>2. graph.cost[node] \in Nat
        BY <1>8, <1>15
      <4> QED
        BY <1>5, <1>15, <3>3, <4>1, <4>2
    <3> QED
      BY <3>1, <3>2, <3>3
  <2>4. ASSUME NEW b \in request.anchors \ DOMAIN found'
        PROVE  /\ DOMAIN found' \subseteq request.anchors
               /\ \E k \in DOMAIN q : q[k] = <<b>> /\ \A j \in 1..k : Last(q[j]) \in request.anchors
    <3>1. b \in request.anchors \ DOMAIN found
      BY <1>9
    <3>2. PICK k \in DOMAIN awaiting :
            awaiting[k] = <<b>> /\ \A j \in 1..k : Last(awaiting[j]) \in request.anchors
      BY <1>6, <3>1 DEF TakenInv
    <3>3. k \in 1..Len(awaiting) /\ node \in request.anchors
      BY <1>1, <1>5, <1>7, <3>2
    <3>4. k # 1
      <4>1. SUFFICES ASSUME k = 1 PROVE FALSE
        OBVIOUS
      <4>2. path = <<b>>
        BY <1>7, <3>2, <4>1
      <4>3. Len(<<b>>) = 1 /\ <<b>>[1] = b
        OBVIOUS
      <4>4. node = b
        BY <1>1, <4>2, <4>3 DEF Last
      <4> QED
        BY <1>9, <3>1, <3>3, <4>4 DEF Skipped
    <3>5. k - 1 \in DOMAIN q /\ q[k - 1] = <<b>>
      BY <1>7, <3>2, <3>4
    <3>6. ASSUME NEW j \in 1..(k - 1) PROVE Last(q[j]) \in request.anchors
      <4>1. k \in Nat /\ k <= Len(awaiting) /\ j \in Nat /\ 1 <= j /\ j <= k - 1
        BY <1>5, <3>3
      <4>2. j \in 1..(Len(awaiting) - 1) /\ j + 1 \in 1..k
        BY <1>5, <4>1
      <4> QED
        BY <1>7, <3>2, <4>2
    <3>7. DOMAIN found' \subseteq request.anchors
      BY <1>6, <1>10, <3>1, <3>3 DEF TakenInv
    <3> QED
      BY <3>5, <3>6, <3>7
  <2> QED
    BY <1>2, <1>3, <1>14, <2>1, <2>2, <2>3, <2>4 DEF TakenInv
<1>19. ASSUME NEW m, NEW l \in Nat, Placed(m, l) PROVE Placed(m, l)'
  <2>1. CASE m \in DOMAIN found /\ Len(found[m]) <= l
    BY <1>9, <2>1 DEF Placed
  <2>2. ASSUME NEW k \in DOMAIN awaiting, Last(awaiting[k]) = m, Len(awaiting[k]) <= l
        PROVE  Placed(m, l)'
    <3>1. CASE k # 1
      BY <1>2, <1>7, <2>2, <3>1 DEF Placed
    <3>2. CASE k = 1 /\ ~Skipped(node)
      BY <1>1, <1>7, <1>9, <2>2, <3>2 DEF Placed
    <3>3. CASE k = 1 /\ node \in DOMAIN found
      <4>1. m = node /\ Len(found[node]) <= Len(path) /\ Len(path) <= l
        BY <1>1, <1>7, <1>8, <2>2, <3>3
      <4>2. Len(found[node]) <= l
        BY <1>5, <1>8, <3>3, <4>1
      <4> QED
        BY <1>9, <3>3, <4>1, <4>2 DEF Placed
    <3>4. CASE k = 1 /\ node \notin DOMAIN found /\ Skipped(node)
      <4>1. m = node /\ node \notin request.anchors
            /\ (node \notin Listed \/ Spent + graph.cost[node] > request.budget)
        BY <1>1, <1>7, <2>2, <3>4 DEF Skipped
      <4>2. graph.cost[node] \in Nat
        BY <1>8, <1>15
      <4>3. ~Fits(node)
        BY <1>5, <1>15, <4>1, <4>2 DEF Fits
      <4> QED
        BY <1>3, <1>9, <1>16, <3>4, <4>1, <4>3 DEF Placed
    <3> QED
      BY <3>1, <3>2, <3>3, <3>4
  <2>3. CASE m \notin DOMAIN found \cup request.anchors /\ ~Fits(m)
    <3>1. ~(m = node /\ ~Skipped(node))
      <4>1. SUFFICES ASSUME m = node, ~Skipped(node) PROVE FALSE
        OBVIOUS
      <4>2. node \in Listed /\ ~(Spent + graph.cost[node] > request.budget)
        BY <2>3, <4>1 DEF Skipped
      <4>3. graph.cost[node] \in Nat
        BY <1>8, <1>15
      <4> QED
        BY <1>5, <1>15, <2>3, <4>1, <4>2, <4>3 DEF Fits
    <3>2. m \notin DOMAIN found' \cup request'.anchors /\ ~Fits(m)'
      BY <1>3, <1>10, <1>16, <2>3, <3>1
    <3> QED
      BY <3>2 DEF Placed
  <2> QED
    BY <1>19, <2>1, <2>2, <2>3 DEF Placed
<1>20. ASSUME ~bounded', NEW n \in DOMAIN found', NEW m \in graph.nodes, Joined(n, m),
              NEW l, l = Len(found'[n]), l <= request.depth
       PROVE  Placed(m, l + 1)' \/ ToFollow(n, m)'
  <2>1. CASE n \in DOMAIN found
    <3>1. l = Len(found[n]) /\ l + 1 \in Nat /\ ~bounded
      BY <1>3, <1>5, <1>9, <1>20, <2>1
    <3>2. Placed(m, l + 1)
      BY <1>3, <1>5, <1>20, <2>1, <3>1 DEF ExpansionInv, ToFollow
    <3> QED
      BY <1>19, <3>1, <3>2
  <2>2. CASE n = node /\ ~Skipped(node)
    <3>1. l = Len(path) /\ at' = EdgeAfter(0)
      BY <1>9, <1>11, <1>20, <2>2
    <3>2. PICK e \in DOMAIN graph.edges : /\ graph.edges[e].kind \in request.edgeKinds
                                          /\ OtherEnd(graph.edges[e], n) = m
      BY <1>5, <1>8, <1>20, <2>2, JoinedEnds
    <3>3. Len(graph.edges) \in Nat /\ DOMAIN graph.edges = 1..Len(graph.edges)
      BY <1>5, GraphFacts
    <3>4. at' = 1
      BY <3>1, <3>2, <3>3 DEF EdgeAfter
    <3>5. e \in at'..Len(graph.edges)
      BY <3>2, <3>3, <3>4
    <3>6. at' # 0 /\ Last(visiting') = n
      BY <1>8, <1>11, <2>2, <3>4
    <3> QED
      BY <1>3, <3>2, <3>5, <3>6 DEF ToFollow
  <2> QED
    BY <1>10, <1>20, <2>1, <2>2
<1>21. ASSUME ~bounded'
       PROVE  /\ (\A n \in request.starts : Placed(n, 1))'
              /\ (\A n \in DOMAIN found, m \in graph.nodes :
                    Joined(n, m) /\ Len(found[n]) <= request.depth =>
                      Placed(m, Len(found[n]) + 1) \/ ToFollow(n, m))'
  <2>1. \A n \in request.starts : Placed(n, 1)
    BY <1>3, <1>5, <1>21 DEF ExpansionInv
  <2>2. (\A n \in request.starts : Placed(n, 1))'
    BY <1>3, <1>19, <2>1
  <2> QED
    BY <1>3, <1>14, <1>20, <1>21, <2>2
<1>22. (request.anchors \subseteq request.starts)'
  BY <1>3, <1>5 DEF ExpansionInv
<1>23. ExpansionInv'
  BY <1>17, <1>18, <1>21, <1>22 DEF ExpansionInv
<1> QED
  BY <1>13, <1>23

\* What is owed to a node that still fits was given to it, once the queue is
\* empty and no edge is left.
LEMMA OweNothing ==
  ASSUME SearchInv, Running("expansion"), at = 0, awaiting = <<>>, ~bounded,
         NEW n \in (Listed \cup request.anchors) \ DOMAIN found,
         n \in Within(request.depth, DOMAIN found \cup {n})
  PROVE  Spent + graph.cost[n] > request.budget
<1>1. SUFFICES ASSUME ~(Spent + graph.cost[n] > request.budget) PROVE FALSE
  OBVIOUS
<1>2. /\ WaysKnown /\ ExpansionInv /\ GraphSearchTypeOK
      /\ request.depth \in Nat /\ request.budget \in Nat /\ request.anchors \subseteq graph.nodes
      /\ DOMAIN awaiting = 1..Len(awaiting)
      /\ \A m \in DOMAIN found : m \in graph.nodes /\ Len(found[m]) \in Nat \ {0}
  BY InExpansion
<1>3. DOMAIN awaiting = {}
  OBVIOUS
<1>4. n \in graph.nodes /\ Spent + graph.cost[n] <= request.budget
  <2>1. n \in graph.nodes
    BY <1>2 DEF Listed
  <2>2. Spent \in Nat /\ graph.cost[n] \in Nat
    BY <1>2, <2>1, SpentNat, GraphFacts
  <2> QED
    BY <1>1, <1>2, <2>1, <2>2
<1>5. ASSUME NEW m \in DOMAIN found \cup {n}, NEW l, Placed(m, l)
      PROVE  m \in DOMAIN found /\ Len(found[m]) <= l
  BY <1>3, <1>4, <1>5 DEF Placed, Fits
<1>6. PICK k \in 1..(request.depth + 1) :
        \E w \in [1..k -> DOMAIN found \cup {n}] :
          w[1] \in request.starts /\ w[k] = n /\ IsWalk(w)
  BY DEF Within
<1>7. PICK w \in [1..k -> DOMAIN found \cup {n}] :
        w[1] \in request.starts /\ w[k] = n /\ IsWalk(w)
  BY <1>6
<1> DEFINE Bad == {j \in 1..k : ~(w[j] \in DOMAIN found /\ Len(found[w[j]]) <= j)}
<1>8. Bad # {} /\ Bad \in SUBSET Nat
  <2>1. k \in Bad
    BY <1>2, <1>7
  <2> QED
    BY <2>1
<1>9. PICK j \in Bad : \A i \in Bad : j <= i
  BY <1>8, LeastNumber
<1>10. j \in 1..k /\ ~(w[j] \in DOMAIN found /\ Len(found[w[j]]) <= j)
  OBVIOUS
<1>11. w[j] \in DOMAIN found \cup {n} /\ w[j] \in graph.nodes
  BY <1>2, <1>4, <1>10
<1>12. CASE j = 1
  <2>1. Placed(w[1], 1)
    BY <1>2, <1>7 DEF ExpansionInv
  <2> QED
    BY <1>5, <1>10, <1>11, <1>12, <2>1
<1>13. CASE j # 1
  <2>1. j - 1 \in 1..k /\ j - 1 \notin Bad
    <3>1. j - 1 \in 1..k /\ ~(j <= j - 1)
      BY <1>10, <1>13
    <3> QED
      BY <1>9, <3>1
  <2>2. w[j - 1] \in DOMAIN found /\ Len(found[w[j - 1]]) <= j - 1
    BY <2>1
  <2>3. PICK p : p = w[j - 1]
    OBVIOUS
  <2>4. PICK l : l = Len(found[p])
    OBVIOUS
  <2>5. l \in Nat /\ l <= j - 1 /\ l <= request.depth /\ p \in DOMAIN found
    <3>1. l \in Nat /\ l <= j - 1 /\ p \in DOMAIN found
      BY <1>2, <2>2, <2>3, <2>4
    <3>2. j \in Nat /\ k \in Nat /\ j <= k /\ k <= request.depth + 1
      BY <1>2, <1>10
    <3> QED
      BY <1>2, <3>1, <3>2
  <2>6. Joined(p, w[j])
    <3>1. Len(w) = k
      OBVIOUS
    <3>2. j - 1 \in 1..(Len(w) - 1) /\ (j - 1) + 1 = j
      BY <1>10, <1>13, <3>1
    <3> QED
      BY <1>7, <2>3, <3>2 DEF IsWalk
  <2>7. Placed(w[j], l + 1)
    BY <1>2, <1>11, <2>4, <2>5, <2>6 DEF ExpansionInv, ToFollow
  <2>8. w[j] \in DOMAIN found /\ Len(found[w[j]]) <= l + 1
    BY <1>5, <1>11, <2>7
  <2>9. Len(found[w[j]]) \in Nat /\ l + 1 <= j
    BY <1>2, <1>10, <2>5, <2>8
  <2> QED
    BY <1>10, <2>5, <2>8, <2>9
<1> QED
  BY <1>12, <1>13

LEMMA EndExpansionKeeps ==
  ASSUME SearchInv, EndExpansion
  PROVE  SearchInv'
<1>1. /\ Running("expansion") /\ at = 0
      /\ awaiting = <<>> \/ request.aborted \/ Cardinality(DOMAIN found) >= MaximumItems
      /\ status' = "done" /\ bounded' = (bounded \/ awaiting # <<>>)
      /\ UNCHANGED <<graph, request, search, depth, frontier, upcoming, awaiting, visiting, at,
                     found, inspected>>
  BY DEF EndExpansion
<1>2. /\ WaysKnown /\ ExpansionInv /\ GraphSearchTypeOK
      /\ request.depth \in Nat /\ request.budget \in Nat
      /\ IsFiniteSet(request.anchors) /\ request.anchors \subseteq graph.nodes
      /\ \A n \in DOMAIN found : n \in graph.nodes /\ Len(found[n]) \in Nat \ {0}
  BY <1>1, InExpansion
<1>3. TakenInv
  BY <1>2 DEF ExpansionInv
<1>4. GraphSearchTypeOK'
  <2>1. bounded' \in BOOLEAN
    BY <1>1
  <2> QED
    BY <1>1, <1>2, <2>1 DEF GraphSearchTypeOK
<1>5. /\ Listed' = Listed /\ \A p : (IsWalk(p)' <=> IsWalk(p)) /\ (IsWay(p)' <=> IsWay(p))
      /\ \A d, S : Within(d, S)' = Within(d, S)
      /\ Spent' = Spent
  BY <1>1, <1>2, <1>4, SameGraph, SpentGrows
<1>6. (\A n \in DOMAIN found : IsWay(found[n]) /\ Last(found[n]) = n)'
  BY <1>1, <1>2, <1>5 DEF WaysKnown
<1>7. DOMAIN found \subseteq (Listed \cup request.anchors) \cap Within(request.depth, DOMAIN found)
  <2>1. ASSUME NEW n \in DOMAIN found PROVE n \in Within(request.depth, DOMAIN found)
    <3>1. PICK w : w = found[n]
      OBVIOUS
    <3>2. IsWay(w) /\ Last(w) = n /\ Len(w) <= request.depth + 1 /\ Range(w) \subseteq DOMAIN found
      BY <1>2, <1>3, <3>1 DEF WaysKnown, TakenInv
    <3>3. /\ Len(w) \in 1..(request.depth + 1) /\ w \in [1..Len(w) -> DOMAIN found]
          /\ w[Len(w)] = n /\ w[1] \in request.starts /\ IsWalk(w)
      <4>1. Len(w) \in Nat \ {0} /\ DOMAIN w = 1..Len(w) /\ n = w[Len(w)] /\ w \in Seq(graph.nodes)
        BY <3>2, WayEnds
      <4>2. \A j \in 1..Len(w) : w[j] \in DOMAIN found
        BY <3>2, <4>1 DEF Range
      <4> QED
        BY <1>2, <3>2, <4>1, <4>2 DEF IsWay
    <3> QED
      BY <3>3 DEF Within
  <2> QED
    BY <1>3, <2>1 DEF TakenInv
<1>8. Spent <= request.budget \/ DOMAIN found \subseteq request.anchors
  BY <1>3 DEF TakenInv
<1>9. ASSUME ~request.aborted PROVE request.anchors \subseteq DOMAIN found
  <2>1. SUFFICES ASSUME NEW b \in request.anchors, b \notin DOMAIN found PROVE FALSE
    OBVIOUS
  <2>2. DOMAIN found \subseteq request.anchors \ {b} /\ \E k \in DOMAIN awaiting : TRUE
    BY <1>3, <2>1 DEF TakenInv
  <2>3. awaiting # <<>>
    <3>1. DOMAIN <<>> = {}
      OBVIOUS
    <3> QED
      BY <2>2, <3>1
  <2>4. Cardinality(DOMAIN found) >= MaximumItems
    BY <1>1, <1>9, <2>3
  <2>5. /\ IsFiniteSet(request.anchors \ {b}) /\ Cardinality(request.anchors) \in Nat
        /\ Cardinality(request.anchors \ {b}) = Cardinality(request.anchors) - 1
    BY <1>2, <2>1, FS_RemoveElement, FS_CardinalityType
  <2>6. /\ Cardinality(DOMAIN found) <= Cardinality(request.anchors \ {b})
        /\ Cardinality(DOMAIN found) \in Nat
    BY <2>2, <2>5, FS_Subset, FS_CardinalityType
  <2>7. MaximumItems >= Cardinality(request.anchors) /\ MaximumItems \in Nat
    <3>1. request.items \in Nat
      BY <1>2 DEF GraphSearchTypeOK, SearchRequest
    <3> QED
      BY <2>5, <3>1 DEF MaximumItems, Larger
  <2> QED
    BY <2>4, <2>5, <2>6, <2>7
<1>10. ASSUME ~bounded', ~request.aborted, NEW n \in (Listed \cup request.anchors) \ DOMAIN found,
              n \in Within(request.depth, DOMAIN found \cup {n})
       PROVE  Spent + graph.cost[n] > request.budget
  <2>1. ~bounded /\ awaiting = <<>>
    BY <1>1, <1>10
  <2> QED
    BY <1>1, <1>10, <2>1, OweNothing
<1>11. GraphSearchSound'
  <2>1. (\A n \in DOMAIN found : Last(found[n]) = n /\ IsWalk(found[n]))'
    BY <1>6 DEF IsWay
  <2>2. ~Done("neighbors")' /\ ~Done("scoring")'
    BY <1>1 DEF Done, Running
  <2>3. (DOMAIN found \subseteq (Listed \cup request.anchors) \cap Within(request.depth, DOMAIN found))'
    BY <1>1, <1>5, <1>7
  <2>4. (Spent <= request.budget \/ DOMAIN found \subseteq request.anchors)'
    BY <1>1, <1>5, <1>8
  <2>5. (~request.aborted => request.anchors \subseteq DOMAIN found)'
    BY <1>1, <1>9
  <2>6. (~bounded /\ ~request.aborted =>
           \A n \in (Listed \cup request.anchors) \ DOMAIN found :
             n \in Within(request.depth, DOMAIN found \cup {n}) =>
               Spent + graph.cost[n] > request.budget)'
    BY <1>1, <1>5, <1>10
  <2> QED
    BY <2>1, <2>2, <2>3, <2>4, <2>5, <2>6 DEF GraphSearchSound
<1>12. /\ \A k : ~Running(k)'
       /\ status' # "none" /\ (request.starts \subseteq graph.nodes)'
  BY <1>1, <1>2 DEF Running, WaysKnown
<1> QED
  BY <1>4, <1>6, <1>11, <1>12 DEF SearchInv

\* What the rest of the pipeline does leaves the search alone.
LEMMA NothingSearched ==
  ASSUME SearchInv, UNCHANGED searchVars
  PROVE  SearchInv'
<1>1. UNCHANGED <<graph, request, search, status, depth, frontier, upcoming, awaiting, visiting, at,
                  found, inspected, bounded>>
  BY DEF searchVars
<1>2. GraphSearchTypeOK /\ GraphSearchTypeOK'
  BY <1>1 DEF SearchInv, GraphSearchTypeOK
<1>3. /\ Listed' = Listed /\ \A m, n : Joined(m, n)' <=> Joined(m, n)
      /\ \A p : (IsWalk(p)' <=> IsWalk(p)) /\ (IsWay(p)' <=> IsWay(p))
      /\ \A d, S : Within(d, S)' = Within(d, S)
      /\ Spent' = Spent
  BY <1>1, <1>2, SameGraph, SpentGrows
<1>4. RoundInv => RoundInv'
  <2>1. Known' = Known /\ \A n : Level(n)' = Level(n)
    BY <1>1 DEF Known, Level
  <2>2. \A n, l : KnownWithin(n, l)' <=> KnownWithin(n, l)
    BY <2>1 DEF KnownWithin
  <2>3. /\ \A i, n, l : ScannedTo(i, n, l)' <=> ScannedTo(i, n, l)
        /\ \A n : Opened(n)' <=> Opened(n)
    BY <1>1, <1>3, <2>1, <2>2 DEF ScannedTo, Opened
  <2>4. \A n : Opening(n)' <=> Opening(n)
    BY <1>1, <2>1, <2>3 DEF Opening
  <2> QED
    BY <1>1, <1>3, <2>1, <2>2, <2>3, <2>4 DEF RoundInv
<1>5. ExpansionInv => ExpansionInv'
  <2>1. QueueInv => QueueInv'
    BY <1>1, <1>3 DEF QueueInv
  <2>2. TakenInv => TakenInv'
    BY <1>1, <1>3 DEF TakenInv
  <2>3. /\ \A m, l : Placed(m, l)' <=> Placed(m, l)
        /\ \A m, n : ToFollow(m, n)' <=> ToFollow(m, n)
    BY <1>1, <1>3 DEF Placed, Fits, ToFollow
  <2> QED
    BY <1>1, <1>3, <2>1, <2>2, <2>3 DEF ExpansionInv
<1>6. GraphSearchSound => GraphSearchSound'
  BY <1>1, <1>3 DEF GraphSearchSound, Done
<1>7. /\ (status # "refused" => request.starts \subseteq graph.nodes)'
      /\ (\A n \in DOMAIN found : IsWay(found[n]) /\ Last(found[n]) = n)'
      /\ (status = "none" =>
            /\ depth = 0 /\ frontier = {} /\ upcoming = {} /\ awaiting = <<>> /\ visiting = <<>>
            /\ at = 0 /\ found = <<>> /\ ~bounded)'
      /\ (Running("neighbors") => request.starts \subseteq DOMAIN found /\ at = 0)'
  BY <1>1, <1>3 DEF SearchInv, Running
<1>8. \A kind : Running(kind)' <=> Running(kind)
  BY <1>1 DEF Running
<1> QED
  BY <1>1, <1>2, <1>4, <1>5, <1>6, <1>7, <1>8 DEF SearchInv

LEMMA SearchesKeep == SearchInv /\ [GraphSearchNext]_searchVars => SearchInv'
<1> SUFFICES ASSUME SearchInv, [GraphSearchNext]_searchVars PROVE SearchInv'
  OBVIOUS
<1>1. ASSUME status = "none", NEW g \in Graphs, NEW r \in SearchRequests, NEW kind \in Searches,
             StartSearch(g, r, kind)
      PROVE  SearchInv'
  BY <1>1, StartSearchKeeps
<1>2. ASSUME NEW kind \in {"neighbors", "scoring"}, EndRound(kind) \/ EndSearch(kind)
      PROVE  SearchInv'
  BY <1>2, EndRoundKeeps, EndSearchKeeps
<1>3. CASE NeighborsVisit
  BY <1>3, NeighborsVisitKeeps
<1>4. CASE TakePath
  BY <1>4, TakePathKeeps
<1>5. CASE ScanEdge
  BY <1>5, ScanEdgeKeeps
<1>6. CASE TakeNode
  BY <1>6, TakeNodeKeeps
<1>7. CASE FollowEdge
  BY <1>7, FollowEdgeKeeps
<1>8. CASE EndExpansion
  BY <1>8, EndExpansionKeeps
<1>9. CASE UNCHANGED searchVars
  BY <1>9, NothingSearched
<1> QED
  BY <1>1, <1>2, <1>3, <1>4, <1>5, <1>6, <1>7, <1>8, <1>9 DEF GraphSearchNext

LEMMA InitSearchInv == GraphSearchInit => SearchInv
<1> SUFFICES ASSUME GraphSearchInit PROVE SearchInv
  OBVIOUS
<1>1. /\ graph = NoGraph /\ request = NoRequest /\ search = "query" /\ status = "none"
      /\ depth = 0 /\ frontier = {} /\ upcoming = {} /\ awaiting = <<>> /\ visiting = <<>> /\ at = 0
      /\ found = <<>> /\ inspected = 0 /\ bounded = FALSE
  BY DEF GraphSearchInit
<1>2. /\ graph.nodes = {} /\ graph.edges = <<>> /\ request.starts = {}
  BY <1>1 DEF NoGraph, NoRequest
<1>3. \A S : <<>> \in Seq(S)
  OBVIOUS
<1>4. Len(<<>>) = 0 /\ DOMAIN <<>> = {}
  OBVIOUS
<1>5. request \in SearchRequest
  BY <1>1 DEF NoRequest, SearchRequest
<1>6. Range(found) = {}
  BY <1>1, <1>4 DEF Range
<1>7. awaiting \in Seq(Seq(graph.nodes)) /\ visiting \in Seq(graph.nodes) /\ at \in 0..Len(graph.edges)
  BY <1>1, <1>2, <1>3, <1>4
<1>8. GraphSearchTypeOK
  BY <1>1, <1>4, <1>5, <1>6, <1>7 DEF GraphSearchTypeOK, Searches
<1> QED
  BY <1>1, <1>2, <1>4, <1>8 DEF SearchInv, Running

LEMMA SearchInvSound == SearchInv => GraphSearchSound
<1> SUFFICES ASSUME SearchInv PROVE GraphSearchSound
  OBVIOUS
<1>1. CASE status = "done"
  BY <1>1 DEF SearchInv
<1>2. CASE status # "done"
  <2>1. \A n \in DOMAIN found : Last(found[n]) = n /\ IsWalk(found[n])
    BY DEF SearchInv, IsWay
  <2> QED
    BY <1>2, <2>1 DEF GraphSearchSound, Done
<1> QED
  BY <1>1, <1>2

LEMMA SearchSteps == [PipelineNext]_pipelineVars => [GraphSearchNext]_searchVars
BY DEF PipelineNext, pipelineVars

\* Whatever the graph and the request: neighbours are the nodes within the
\* depth, none by a longer way; a distance is the shortest one, and scores that
\* were not cut are complete; an expansion takes every anchor and keeps to its
\* budget, and what it left out, though nothing cut it short, has no room.
THEOREM SearchesStaySound == PipelineSpec => []GraphSearchSound
<1>1. PipelineInit => SearchInv
  BY InitSearchInv DEF PipelineInit
<1>2. SearchInv /\ [PipelineNext]_pipelineVars => SearchInv'
  BY SearchSteps, SearchesKeep
<1>3. SearchInv => GraphSearchSound
  BY SearchInvSound
<1> QED
  BY <1>1, <1>2, <1>3, PTL DEF PipelineSpec

-----------------------------------------------------------------------------
(* Packs: the sizes of sets of lines.                                       *)

Weights(T) == [l \in T |-> LineBytes(l)]

LEMMA BytesAreTotal ==
  ASSUME NEW T, NEW lines \in SUBSET T, IsFiniteSet(lines)
  PROVE  Bytes(lines) = Total(Weights(T), lines)
<1> DEFINE Body(g, s) == IF s = {} THEN 0 ELSE LineBytes(Pick(s)) + g[s \ {Pick(s)}]
           IsFold(g) == g = [s \in SUBSET lines |-> Body(g, s)]
<1>1. Bytes(lines) = (CHOOSE g : IsFold(g))[lines]
  BY DEF Bytes, MapThenSumSet, MapThenFoldSet, Pick
<1>2. \A g : IsFold(g) <=> IsTally(g, Weights(T), lines)
  <2> TAKE g
  <2> DEFINE Other(s) == IF s = {} THEN 0 ELSE Weights(T)[Pick(s)] + g[s \ {Pick(s)}]
  <2>1. ASSUME NEW s \in SUBSET lines PROVE Body(g, s) = Other(s)
    <3>1. s # {} => Pick(s) \in s
      BY DEF Pick
    <3>2. s # {} => Weights(T)[Pick(s)] = LineBytes(Pick(s))
      BY <3>1 DEF Weights
    <3> QED
      BY <3>2
  <2>2. [s \in SUBSET lines |-> Body(g, s)] = [s \in SUBSET lines |-> Other(s)]
    <3> HIDE DEF Body, Other
    <3> QED
      BY <2>1
  <2> QED
    BY <2>2 DEF IsTally
<1>3. PICK g : IsTally(g, Weights(T), lines)
  BY TallyExists
<1>4. PICK f : f = (CHOOSE h : IsFold(h))
  OBVIOUS
<1>5. IsFold(f)
  <2> HIDE DEF IsFold
  <2> QED
    BY <1>2, <1>3, <1>4
<1> HIDE DEF IsFold
<1>6. IsTally(f, Weights(T), lines)
  BY <1>2, <1>5
<1>7. \A l \in lines : Weights(T)[l] \in Nat
  BY DEF Weights, LineBytes
<1>8. PICK h : IsTally(h, Weights(T), lines) /\ Total(Weights(T), lines) = h[lines]
  BY <1>7, TotalIs
<1>9. f[lines] = h[lines]
  BY <1>6, <1>7, <1>8, TalliesAgree
<1> QED
  BY <1>1, <1>4, <1>8, <1>9

LEMMA OneLineMore ==
  ASSUME NEW lines, IsFiniteSet(lines), NEW line, line \notin lines
  PROVE  /\ Bytes(lines \cup {line}) = Bytes(lines) + LineBytes(line)
         /\ IsFiniteSet(lines \cup {line})
<1> DEFINE T == lines \cup {line}
<1>1. IsFiniteSet(T) /\ lines \in SUBSET T
  BY FS_AddElement
<1>2. (\A l \in lines : Weights(T)[l] \in Nat) /\ Weights(T)[line] = LineBytes(line)
      /\ LineBytes(line) \in Nat
  BY DEF Weights, LineBytes
<1>3. Bytes(lines) = Total(Weights(T), lines) /\ Bytes(T) = Total(Weights(T), T)
  BY <1>1, BytesAreTotal
<1>4. Total(Weights(T), lines \cup {line}) = Total(Weights(T), lines) + Weights(T)[line]
  <2> HIDE DEF T
  <2> QED
    BY <1>2, TotalPlus
<1> QED
  BY <1>1, <1>2, <1>3, <1>4

-----------------------------------------------------------------------------
(* Packs: the inductive invariant.                                          *)

Admissible == {p \in DOMAIN source : OwnCommand(call) \/ p \in Wanted(call)}
WithBaseline == call.since /\ call.source = "local"
ToFile == call.output /\ ~call.dryRun

PackTyped ==
  /\ PackTypeOK /\ call \in PackCalls
  /\ repository \in PackTrees /\ baseline \in PackTrees \cup {<<>>}
  /\ phase # "ended" => exit = "none"

NothingYet ==
  /\ phase \in {"idle", "acquire"} =>
       got = <<>> /\ failed = {} /\ git = {} /\ deleted = {} /\ analysed = <<>>
  /\ phase \in {"filter", "transform", "report"} => analysed = <<>>
  /\ phase \in {"filter", "transform", "report", "since"} => deleted = {}
  /\ phase \notin {"split", "write", "ended"} => parts = <<>> /\ written = 0

\* The items are files of one reading, and the analysis saw the same one
\* unless somebody edited it.
ItemsRead ==
  phase \notin {"idle", "acquire", "ended"} =>
    /\ DOMAIN source \subseteq DOMAIN ScopeOf
    /\ DOMAIN got \subseteq DOMAIN source \ failed
    /\ \A p \in DOMAIN got : got[p].original = source[p]
    /\ call.source = "prPack" => failed = {}
    /\ OnDisk /\ ~edited /\ phase \in {"filter", "transform", "report"} => repository = source
    /\ ~edited /\ analysed # <<>> => analysed = source

\* Before the filters, all that could be read; after them, what they admit.
ItemsAdmitted ==
  /\ phase = "filter" => DOMAIN got = DOMAIN source \ failed /\ git = {}
  /\ phase \in {"transform", "report", "since", "render", "split", "write"} =>
       /\ DOMAIN got \subseteq Admissible
       /\ git # {} => DOMAIN got \subseteq git
       /\ git = {} /\ (WithBaseline => phase \in {"transform", "report", "since"}) =>
            DOMAIN got = Admissible \ failed

\* Before the transformations the content is the original one; after them,
\* the declarations are.
ItemsTransformed ==
  /\ phase \in {"filter", "transform"} => \A p \in DOMAIN got : got[p] = Item(source[p])
  /\ phase \in {"report", "since", "render", "split", "write"} => \A p \in DOMAIN got :
       /\ {"comments", "empty"} \subseteq call.transforms =>
            Range(got[p].lines) \cap {"comment", "empty"} = {}
       /\ Places(got[p].lines, "declaration") = Places(source[p], "declaration")

DeletedIsGone ==
  phase \in {"render", "split", "write"} =>
    /\ ~WithBaseline => deleted = {}
    /\ failed = {} /\ call.scope = {} /\ call.keeps = DOMAIN ScopeOf /\ git = {} =>
         deleted \cap DOMAIN source = {}

NoneTooLong ==
  \A i \in DOMAIN parts : Bytes(parts[i]) <= call.split \/ Cardinality(parts[i]) = 1
InOrderOfParts ==
  \A i, j \in DOMAIN parts : i < j => \A l \in parts[i], m \in parts[j] : Earlier(l, m)

\* The lines that are not in a part yet come after those that are.
PartsGrow ==
  phase = "split" =>
    /\ ToFile /\ Split /\ NoneTooLong /\ InOrderOfParts
    /\ \A i \in DOMAIN parts : IsFiniteSet(parts[i]) /\ \A l \in parts[i], m \in Rest : Earlier(l, m)
    /\ written = 0

\* The parts are the bundle, and those written are on disk.
PartsWritten ==
  phase = "write" =>
    /\ ToFile /\ UNION Range(parts) = Rendered(got)
    /\ Split => NoneTooLong
    /\ call.source = "dual" => \A i \in DOMAIN parts : parts[i] = Rendered(got)
    /\ call.source # "dual" => InOrderOfParts
    /\ ~Split /\ call.source # "dual" => Len(parts) = 1
    /\ \A i \in 1..written : NameOf(i) \in DOMAIN outputs /\ outputs[NameOf(i)] = parts[i]

Untouched ==
  /\ Exclusive => \A n \in DOMAIN earlier : outputs[n] = earlier[n]
  /\ Exclusive /\ 0 \in DOMAIN earlier => outputs = earlier

PackInv ==
  /\ PackTyped /\ NothingYet /\ ItemsRead /\ ItemsAdmitted /\ ItemsTransformed
  /\ DeletedIsGone /\ PartsGrow /\ PartsWritten /\ Untouched
  /\ phase = "ended" => PackHonest

LEMMA PackInvHonest == PackInv => PackHonest
<1> SUFFICES ASSUME PackInv, phase # "ended" PROVE PackHonest
  BY DEF PackInv
<1>1. ~Delivered
  BY DEF Delivered
<1>2. Untouched
  BY DEF PackInv
<1> QED
  BY <1>1, <1>2 DEF PackHonest, Untouched

LEMMA NoParts == \A S : <<>> \in Seq(S) /\ Len(<<>>) = 0
OBVIOUS

LEMMA InitPackInv == PackInit => PackInv
<1> SUFFICES ASSUME PackInit PROVE PackInv
  OBVIOUS
<1>1. call \in PackCalls /\ PackCalls \subseteq Call
  BY PackAssumption DEF PackInit
<1>2. calls \in 0..MaxCalls
  BY PackAssumption DEF PackInit
<1>3. got = <<>> /\ parts = <<>> /\ written = 0 /\ outputs = <<>> /\ earlier = <<>> /\ failed = {}
      /\ phase = "idle" /\ exit = "none"
  BY DEF PackInit
<1>4. DOMAIN got = {} /\ DOMAIN earlier = {} /\ DOMAIN outputs = {}
  BY <1>3
<1>5. PackTypeOK
  BY <1>1, <1>2, <1>3, <1>4, NoParts DEF PackTypeOK
<1>6. PackTyped
  BY <1>1, <1>3, <1>5 DEF PackTyped, PackInit
<1>7. NothingYet
  BY <1>3 DEF NothingYet, PackInit
<1>8. ItemsRead /\ ItemsAdmitted /\ ItemsTransformed /\ DeletedIsGone /\ PartsGrow /\ PartsWritten
  BY <1>3 DEF ItemsRead, ItemsAdmitted, ItemsTransformed, DeletedIsGone, PartsGrow, PartsWritten
<1>9. Untouched
  BY <1>3, <1>4 DEF Untouched
<1> QED
  BY <1>3, <1>6, <1>7, <1>8, <1>9 DEF PackInv

\* A call that fails has nothing to answer for.
LEMMA FailureIsHonest ==
  ASSUME PackTyped', Untouched', phase' = "ended", exit' \notin {"success", "partial"}
  PROVE  PackInv'
<1>1. ~Delivered'
  BY DEF Delivered
<1>2. PackHonest'
  BY <1>1 DEF PackHonest, Untouched
<1> QED
  BY <1>2 DEF PackInv, NothingYet, ItemsRead, ItemsAdmitted, ItemsTransformed, DeletedIsGone,
              PartsGrow, PartsWritten

LEMMA StartPackKeeps ==
  ASSUME PackInv, NEW c \in PackCalls, StartPack(c)
  PROVE  PackInv'
<1>1. call' \in PackCalls /\ call' \in Call /\ repository' = repository /\ baseline' = baseline
  BY PackAssumption DEF StartPack
<1>2. calls' \in 0..MaxCalls
  BY PackAssumption DEF StartPack, PackInv, PackTyped, PackTypeOK
<1>3. /\ got' = <<>> /\ failed' = {} /\ git' = {} /\ deleted' = {} /\ analysed' = <<>>
      /\ parts' = <<>> /\ written' = 0 /\ outputs' = outputs /\ earlier' = outputs
  BY DEF StartPack
<1>4. \/ phase' = "ended" /\ exit' = "validation"
      \/ phase' = "acquire" /\ exit' = "none"
  BY DEF StartPack, End
<1>5. DOMAIN got' = {}
  BY <1>3
<1>6. parts' \in Seq(SUBSET Rendered(got)') /\ written' \in 0..Len(parts')
  BY <1>3, NoParts
<1>7. PackTypeOK'
  BY <1>1, <1>2, <1>3, <1>4, <1>5, <1>6 DEF PackTypeOK
<1>8. PackTyped'
  BY <1>1, <1>4, <1>7 DEF PackTyped, PackInv
<1>9. Untouched'
  BY <1>3 DEF Untouched
<1>10. CASE phase' = "ended"
  BY <1>4, <1>8, <1>9, <1>10, FailureIsHonest
<1>11. CASE phase' = "acquire"
  BY <1>3, <1>8, <1>9, <1>11 DEF PackInv, NothingYet, ItemsRead, ItemsAdmitted, ItemsTransformed,
       DeletedIsGone, PartsGrow, PartsWritten
<1> QED
  BY <1>4, <1>10, <1>11

LEMMA AcquireFailsKeeps == PackInv /\ AcquireFails => PackInv'
<1> SUFFICES ASSUME PackInv, AcquireFails PROVE PackInv'
  OBVIOUS
<1>1. /\ UNCHANGED <<repository, baseline, calls, call, got, failed, parts, written, outputs, earlier>>
      /\ phase' = "ended" /\ exit' \in {"internal", "validation", "environment"}
  BY DEF AcquireFails, End, Failure
<1>2. PackTyped'
  BY <1>1 DEF PackInv, PackTyped, PackTypeOK
<1>3. Untouched'
  BY <1>1 DEF PackInv, Untouched, Exclusive, OwnCommand
<1> QED
  BY <1>1, <1>2, <1>3, FailureIsHonest

LEMMA OriginalOf == \A lines : Item(lines).original = lines /\ Item(lines).lines = lines
BY DEF Item

\* Reading starts the life of the items.
LEMMA ReadingKeeps ==
  ASSUME PackInv, phase = "acquire", phase' = "filter", DOMAIN source' \subseteq DOMAIN ScopeOf,
         UNCHANGED <<repository, baseline, calls, call, edited, git, deleted, analysed, parts,
                     written, outputs, earlier, exit>>,
         got' = ItemsOf(source', DOMAIN source' \ failed'),
         failed' \subseteq DOMAIN source',
         call.source = "prPack" => failed' = {},
         OnDisk => repository = source'
  PROVE  PackInv'
<1>1. DOMAIN got' = DOMAIN source' \ failed' /\ \A p \in DOMAIN got' : got'[p] = Item(source'[p])
  BY DEF ItemsOf
<1>2. parts = <<>> /\ written = 0 /\ git = {} /\ deleted = {} /\ analysed = <<>> /\ exit = "none"
  BY DEF PackInv, NothingYet, PackTyped
<1>3. parts' \in Seq(SUBSET Rendered(got)') /\ written' \in 0..Len(parts')
  BY <1>2, NoParts
<1>4. PackTypeOK'
  <2>1. DOMAIN got' \subseteq DOMAIN ScopeOf /\ failed' \subseteq DOMAIN ScopeOf
    BY <1>1
  <2>2. call' \in Call /\ calls' \in 0..MaxCalls /\ DOMAIN earlier' \subseteq DOMAIN outputs'
        /\ exit' \in {"none", "success"}
    BY <1>2 DEF PackInv, PackTyped, PackTypeOK
  <2> QED
    BY <1>3, <2>1, <2>2 DEF PackTypeOK
<1>5. PackTyped'
  BY <1>2, <1>4 DEF PackInv, PackTyped
<1>6. NothingYet'
  BY <1>2 DEF NothingYet
<1>7. ItemsRead'
  <2>1. \A p \in DOMAIN got' : got'[p].original = source'[p]
    BY <1>1, OriginalOf
  <2> QED
    BY <1>1, <1>2, <2>1 DEF ItemsRead, OnDisk
<1>8. ItemsAdmitted'
  BY <1>1, <1>2 DEF ItemsAdmitted
<1>9. ItemsTransformed'
  BY <1>1 DEF ItemsTransformed
<1>10. Untouched'
  BY DEF PackInv, Untouched, Exclusive, OwnCommand
<1> QED
  BY <1>5, <1>6, <1>7, <1>8, <1>9, <1>10 DEF PackInv, DeletedIsGone, PartsGrow, PartsWritten

LEMMA TreePaths == \A t \in PackTrees : DOMAIN t \subseteq DOMAIN ScopeOf
BY PackAssumption

LEMMA AcquireTreeKeeps == PackInv /\ AcquireTree => PackInv'
<1> SUFFICES ASSUME PackInv, AcquireTree PROVE PackInv'
  OBVIOUS
<1>1. PICK t \in IF OnDisk THEN {repository} ELSE PackTrees : \E unreadable \in SUBSET DOMAIN t :
        source' = t /\ got' = ItemsOf(t, DOMAIN t \ unreadable) /\ failed' = unreadable
  BY DEF AcquireTree
<1>2. t \in PackTrees /\ (OnDisk => repository = t)
  BY <1>1 DEF PackInv, PackTyped
<1>3. call.source # "prPack" /\ phase = "acquire" /\ phase' = "filter"
      /\ UNCHANGED <<repository, baseline, calls, call, edited, git, deleted, analysed, parts,
                     written, outputs, earlier, exit>>
  BY DEF AcquireTree
<1> QED
  BY <1>1, <1>2, <1>3, TreePaths, ReadingKeeps

LEMMA AcquirePullKeeps == PackInv /\ AcquirePull => PackInv'
<1> SUFFICES ASSUME PackInv, AcquirePull PROVE PackInv'
  OBVIOUS
<1>1. PICK t \in PackTrees, pulled \in PullFiles, cloned \in BOOLEAN :
        LET paths == Changed(pulled)
            rest == IF call.full /\ cloned THEN DOMAIN t \ paths ELSE {}
        IN  /\ got' = [p \in paths \cup rest |-> Item(IF p \in paths THEN <<"diff">> ELSE t[p])]
            /\ source' = [p \in paths \cup rest |-> got'[p].original]
  BY DEF AcquirePull
<1>2. PICK rest : /\ rest \subseteq DOMAIN t
                  /\ got' = [p \in Changed(pulled) \cup rest |->
                               Item(IF p \in Changed(pulled) THEN <<"diff">> ELSE t[p])]
                  /\ source' = [p \in Changed(pulled) \cup rest |-> got'[p].original]
  BY <1>1
<1>3. Changed(pulled) \subseteq DOMAIN ScopeOf
  BY PackAssumption DEF Changed
<1>4. DOMAIN source' \subseteq DOMAIN ScopeOf
  BY <1>2, <1>3, TreePaths
<1>5. \A p \in DOMAIN source' : got'[p] = Item(source'[p])
  BY <1>2 DEF Item
<1>6. failed' = {}
  BY DEF AcquirePull, PackInv, NothingYet
<1>7. got' = ItemsOf(source', DOMAIN source' \ failed')
  BY <1>2, <1>5, <1>6 DEF ItemsOf
<1>8. ~OnDisk /\ phase = "acquire" /\ phase' = "filter"
      /\ UNCHANGED <<repository, baseline, calls, call, edited, git, deleted, analysed, parts,
                     written, outputs, earlier, exit>>
  BY DEF AcquirePull, OnDisk
<1> QED
  BY <1>4, <1>6, <1>7, <1>8, ReadingKeeps

LEMMA AcquireStdinKeeps == PackInv /\ AcquireStdin => PackInv'
<1> SUFFICES ASSUME PackInv, AcquireStdin PROVE PackInv'
  OBVIOUS
<1>1. PICK lines : got' = [p \in {1} |-> Item(lines)] /\ source' = [p \in {1} |-> lines]
  BY DEF AcquireStdin
<1>2. DOMAIN source' \subseteq DOMAIN ScopeOf
  BY <1>1, PackAssumption
<1>3. failed' = {}
  BY DEF AcquireStdin, PackInv, NothingYet
<1>4. got' = ItemsOf(source', DOMAIN source' \ failed')
  BY <1>1, <1>3 DEF ItemsOf
<1>5. ~OnDisk /\ phase = "acquire" /\ phase' = "filter"
      /\ UNCHANGED <<repository, baseline, calls, call, edited, git, deleted, analysed, parts,
                     written, outputs, earlier, exit>>
  BY DEF AcquireStdin, OnDisk
<1> QED
  BY <1>2, <1>3, <1>4, <1>5, ReadingKeeps

-----------------------------------------------------------------------------
(* Packs: filters and transformations.                                      *)

\* A step before anything is rendered that leaves out items at most.
LEMMA ItemsLeft ==
  ASSUME PackInv, phase \in {"filter", "transform", "report", "since"},
         phase' \in {"filter", "transform", "report", "since", "render"}, exit' = exit,
         repository' \in PackTrees, DOMAIN got' \subseteq DOMAIN got,
         UNCHANGED <<baseline, calls, call, failed, parts, written, outputs, earlier>>
  PROVE  PackTyped' /\ Untouched' /\ parts' = <<>> /\ written' = 0 /\ exit' = "none"
<1>1. parts = <<>> /\ written = 0 /\ exit = "none"
  BY DEF PackInv, NothingYet, PackTyped
<1>2. parts' \in Seq(SUBSET Rendered(got)') /\ written' \in 0..Len(parts')
  BY <1>1, NoParts
<1>3. PackTypeOK'
  BY <1>1, <1>2 DEF PackInv, PackTyped, PackTypeOK
<1>4. PackTyped'
  BY <1>1, <1>3 DEF PackInv, PackTyped
<1>5. Untouched'
  BY DEF PackInv, Untouched, Exclusive, OwnCommand
<1> QED
  BY <1>1, <1>4, <1>5

LEMMA FilterKeeps == PackInv /\ Filter => PackInv'
<1> SUFFICES ASSUME PackInv, Filter PROVE PackInv'
  OBVIOUS
<1>1. /\ UNCHANGED <<repository, baseline, calls, call, source, edited, failed, deleted, analysed,
                     parts, written, outputs, earlier, exit>>
      /\ phase = "filter" /\ phase' = "transform"
  BY DEF Filter
<1>2. DOMAIN got = DOMAIN source \ failed /\ git = {}
  BY <1>1 DEF PackInv, ItemsAdmitted
<1>3. \/ OwnCommand(call) /\ got' = got /\ git' = git
      \/ ~OwnCommand(call) /\ got' = Keep(Wanted(call) \cap (IF git' = {} THEN DOMAIN source ELSE git'))
  BY DEF Filter
<1>4. DOMAIN got' \subseteq DOMAIN got /\ \A p \in DOMAIN got' : got'[p] = got[p]
  BY <1>3 DEF Keep
<1>5. /\ DOMAIN got' \subseteq Admissible
      /\ git' # {} => DOMAIN got' \subseteq git'
      /\ git' = {} => DOMAIN got' = Admissible \ failed
  <2>1. CASE OwnCommand(call)
    BY <1>2, <1>3, <2>1 DEF Admissible
  <2>2. CASE ~OwnCommand(call)
    <3>1. DOMAIN got' = DOMAIN got \cap (Wanted(call) \cap (IF git' = {} THEN DOMAIN source ELSE git'))
      BY <1>3, <2>2 DEF Keep
    <3>2. Admissible = DOMAIN source \cap Wanted(call)
      BY <2>2 DEF Admissible
    <3> QED
      BY <1>2, <3>1, <3>2
  <2> QED
    BY <2>1, <2>2
<1>6. PackTyped' /\ Untouched' /\ parts' = <<>> /\ written' = 0
  <2>1. repository' \in PackTrees
    BY <1>1 DEF PackInv, PackTyped
  <2> QED
    BY <1>1, <1>4, <2>1, ItemsLeft
<1>7. NothingYet'
  BY <1>1, <1>6 DEF PackInv, NothingYet
<1>8. ItemsRead'
  BY <1>1, <1>4 DEF PackInv, ItemsRead, OnDisk
<1>9. ItemsAdmitted'
  <2>1. Admissible' = Admissible
    BY <1>1 DEF Admissible, OwnCommand, Wanted
  <2> QED
    BY <1>1, <1>5, <2>1 DEF ItemsAdmitted
<1>10. ItemsTransformed'
  BY <1>1, <1>4 DEF PackInv, ItemsTransformed
<1> QED
  BY <1>1, <1>6, <1>7, <1>8, <1>9, <1>10 DEF PackInv, DeletedIsGone, PartsGrow, PartsWritten

LEMMA WithoutIs ==
  ASSUME NEW lines, NEW kind, kind # "declaration"
  PROVE  /\ \A i \in DOMAIN Without(lines, kind) :
              i \in DOMAIN lines /\ Without(lines, kind)[i] = lines[i] /\ lines[i] # kind
         /\ Places(Without(lines, kind), "declaration") = Places(lines, "declaration")
BY DEF Without, Restrict, Places

LEMMA TransformedIs ==
  ASSUME NEW lines, NEW transforms
  PROVE  /\ {"comments", "empty"} \subseteq transforms =>
              Range(Transformed(lines, transforms)) \cap {"comment", "empty"} = {}
         /\ Places(Transformed(lines, transforms), "declaration") = Places(lines, "declaration")
<1>1. PICK compressed :
        compressed = IF "compress" \in transforms THEN Without(lines, "body") ELSE lines
  OBVIOUS
<1>2. PICK bare :
        bare = IF "comments" \in transforms
               THEN [i \in DOMAIN compressed |->
                       IF compressed[i] = "comment" THEN "empty" ELSE compressed[i]]
               ELSE compressed
  OBVIOUS
<1>3. PICK all :
        all = IF "empty" \in transforms THEN Without(bare, "empty") ELSE bare
  OBVIOUS
<1>4. Transformed(lines, transforms) = all
  BY <1>1, <1>2, <1>3 DEF Transformed
<1>5. Places(compressed, "declaration") = Places(lines, "declaration")
  BY <1>1, WithoutIs
<1>6. Places(bare, "declaration") = Places(compressed, "declaration")
  <2>1. DOMAIN bare = DOMAIN compressed
    BY <1>2
  <2>2. \A i \in DOMAIN bare : bare[i] = "declaration" <=> compressed[i] = "declaration"
    BY <1>2
  <2> QED
    BY <2>1, <2>2 DEF Places
<1>7. Places(all, "declaration") = Places(bare, "declaration")
  BY <1>3, WithoutIs
<1>8. ASSUME {"comments", "empty"} \subseteq transforms
      PROVE  Range(all) \cap {"comment", "empty"} = {}
  <2>1. \A i \in DOMAIN bare : bare[i] # "comment"
    BY <1>2, <1>8
  <2>2. \A i \in DOMAIN all : i \in DOMAIN bare /\ all[i] = bare[i] /\ all[i] # "empty"
    BY <1>3, <1>8, WithoutIs
  <2>3. \A x \in Range(all) : \E i \in DOMAIN all : x = all[i]
    BY DEF Range
  <2> QED
    BY <2>1, <2>2, <2>3
<1> QED
  BY <1>4, <1>5, <1>6, <1>7, <1>8

LEMMA TransformKeeps == PackInv /\ Transform => PackInv'
<1> SUFFICES ASSUME PackInv, Transform PROVE PackInv'
  OBVIOUS
<1>1. /\ UNCHANGED <<repository, baseline, calls, call, source, edited, failed, git, deleted,
                     analysed, parts, written, outputs, earlier, exit>>
      /\ phase = "transform" /\ phase' = "report"
  BY DEF Transform
<1>2. DOMAIN got' = DOMAIN got
  BY DEF Transform
<1>3. ASSUME NEW p \in DOMAIN got
      PROVE  got'[p].original = source[p] /\ got'[p].lines = Transformed(source[p], call.transforms)
  <2>1. got[p] = Item(source[p])
    BY <1>1 DEF PackInv, ItemsTransformed
  <2>2. got'[p] = [got[p] EXCEPT !.lines = Transformed(@, call.transforms)]
    BY DEF Transform
  <2>3. PICK new : new = Transformed(source[p], call.transforms)
    OBVIOUS
  <2>4. got'[p] = [original |-> source[p], lines |-> new]
    BY <2>1, <2>2, <2>3 DEF Item
  <2> QED
    BY <2>3, <2>4
<1>4. PackTyped' /\ Untouched' /\ parts' = <<>> /\ written' = 0
  <2>1. repository' \in PackTrees
    BY <1>1 DEF PackInv, PackTyped
  <2> QED
    BY <1>1, <1>2, <2>1, ItemsLeft
<1>5. NothingYet'
  BY <1>1, <1>4 DEF PackInv, NothingYet
<1>6. ItemsRead'
  BY <1>1, <1>2, <1>3 DEF PackInv, ItemsRead, OnDisk
<1>7. ItemsAdmitted'
  <2>1. Admissible' = Admissible /\ WithBaseline' = WithBaseline
    BY <1>1 DEF Admissible, OwnCommand, Wanted, WithBaseline
  <2> QED
    BY <1>1, <1>2, <2>1 DEF PackInv, ItemsAdmitted
<1>8. ItemsTransformed'
  BY <1>1, <1>2, <1>3, TransformedIs DEF ItemsTransformed
<1> QED
  BY <1>1, <1>4, <1>5, <1>6, <1>7, <1>8 DEF PackInv, DeletedIsGone, PartsGrow, PartsWritten

LEMMA EditKeepsPack == PackInv /\ EditRepository => PackInv'
<1> SUFFICES ASSUME PackInv, EditRepository PROVE PackInv'
  OBVIOUS
<1>1. /\ UNCHANGED <<baseline, calls, phase, call, source, got, failed, git, deleted, analysed,
                     parts, written, outputs, earlier, exit>>
      /\ phase \in {"filter", "transform", "report"} /\ edited' = TRUE /\ repository' \in PackTrees
  BY DEF EditRepository
<1>2. PackTyped' /\ Untouched' /\ parts' = <<>> /\ written' = 0
  BY <1>1, ItemsLeft
<1>3. NothingYet'
  BY <1>1 DEF PackInv, NothingYet
<1>4. ItemsRead'
  BY <1>1 DEF PackInv, ItemsRead
<1>5. ItemsAdmitted'
  <2>1. Admissible' = Admissible /\ WithBaseline' = WithBaseline
    BY <1>1 DEF Admissible, OwnCommand, Wanted, WithBaseline
  <2> QED
    BY <1>1, <2>1 DEF PackInv, ItemsAdmitted
<1>6. ItemsTransformed'
  BY <1>1 DEF PackInv, ItemsTransformed
<1> QED
  BY <1>1, <1>2, <1>3, <1>4, <1>5, <1>6 DEF PackInv, DeletedIsGone, PartsGrow, PartsWritten

-----------------------------------------------------------------------------
(* Packs: report, baseline, rendering and output.                           *)

\* A call that ends well has kept its word.
LEMMA DeliveryKeeps ==
  ASSUME PackInv, phase \in {"report", "render", "write"}, phase' = "ended",
         exit' \in {"success", "partial"},
         UNCHANGED <<repository, baseline, calls, call, source, edited, got, failed, git, deleted,
                     analysed, parts, written, outputs, earlier>>,
         exit' = "success" =>
           failed = {} \/ call.source = "dual" \/ (call.stats /\ call.dryRun /\ phase = "report"),
         ToFile => phase = "write" /\ written = Len(parts)
  PROVE  PackInv'
<1>1. PackTyped'
  BY DEF PackInv, PackTyped, PackTypeOK
<1>2. Untouched'
  BY DEF PackInv, Untouched, Exclusive, OwnCommand
<1>3. Admissible' = Admissible /\ WithBaseline' = WithBaseline /\ Split' = Split
  BY DEF Admissible, OwnCommand, Wanted, WithBaseline, Split
<1>4. DOMAIN got \subseteq Admissible \ failed
  BY DEF PackInv, ItemsAdmitted, ItemsRead
<1>5. ~WithBaseline /\ git = {} => DOMAIN got = Admissible \ failed
  BY DEF PackInv, ItemsAdmitted
<1>6. git # {} => DOMAIN got \subseteq git
  BY DEF PackInv, ItemsAdmitted
<1>7. \A p \in DOMAIN got :
        /\ got[p].original = source[p]
        /\ {"comments", "empty"} \subseteq call.transforms =>
             Range(got[p].lines) \cap {"comment", "empty"} = {}
        /\ Places(got[p].lines, "declaration") = Places(source[p], "declaration")
  BY DEF PackInv, ItemsRead, ItemsTransformed
<1>8. exit' = "success" /\ call.scope = {} /\ call.keeps = DOMAIN ScopeOf /\ git = {} =>
        deleted \cap DOMAIN source = {}
  <2>1. CASE phase = "report"
    BY <2>1 DEF PackInv, NothingYet
  <2>2. CASE phase # "report" /\ call.source = "dual"
    BY <2>2 DEF PackInv, DeletedIsGone, WithBaseline
  <2>3. CASE phase # "report" /\ call.source # "dual"
    BY <2>3 DEF PackInv, DeletedIsGone
  <2> QED
    BY <2>1, <2>2, <2>3
<1>9. ~edited /\ analysed # <<>> => analysed = source
  BY DEF PackInv, ItemsRead
<1>10. ToFile =>
         /\ UNION Range(parts) = Rendered(got)
         /\ \A i \in DOMAIN parts :
              /\ NameOf(i) \in DOMAIN outputs /\ outputs[NameOf(i)] = parts[i]
              /\ Split => Bytes(parts[i]) <= call.split \/ Cardinality(parts[i]) = 1
              /\ call.source = "dual" => parts[i] = Rendered(got)
         /\ call.source # "dual" => InOrderOfParts
  <2>1. ToFile => phase = "write" /\ DOMAIN parts = 1..written
    BY DEF PackInv, PackTyped, PackTypeOK
  <2> QED
    BY <2>1 DEF PackInv, PartsWritten, NoneTooLong
<1>11. PackHonest'
  <2>1. Untouched'
    BY <1>2
  <2>2. \A i : NameOf(i)' = NameOf(i)
    BY <1>3 DEF NameOf
  <2> QED
    BY <1>3, <1>4, <1>5, <1>6, <1>7, <1>8, <1>9, <1>10, <2>1, <2>2
       DEF PackHonest, Admissible, WithBaseline, Untouched, ToFile, InOrderOfParts
<1> QED
  BY <1>1, <1>2, <1>11 DEF PackInv, NothingYet, ItemsRead, ItemsAdmitted, ItemsTransformed,
       DeletedIsGone, PartsGrow, PartsWritten

LEMMA ReportKeeps == PackInv /\ Report => PackInv'
<1> SUFFICES ASSUME PackInv, Report PROVE PackInv'
  OBVIOUS
<1>1. /\ UNCHANGED <<repository, baseline, calls, call, source, edited, got, failed, git, deleted,
                     parts, written, outputs, earlier>>
      /\ phase = "report"
  BY DEF Report
<1>2. CASE call.stats /\ call.dryRun
  <2>1. UNCHANGED analysed /\ phase' = "ended" /\ exit' = "success"
    BY <1>2 DEF Report, End
  <2> QED
    BY <1>1, <1>2, <2>1, DeliveryKeeps DEF ToFile
<1>3. CASE ~(call.stats /\ call.dryRun)
  <2>1. /\ phase' = "since" /\ exit' = exit
        /\ analysed' = CASE call.source = "local" -> repository
                         [] call.source = "dual" -> source
                         [] OTHER -> <<>>
    BY <1>3 DEF Report
  <2>2. PackTyped' /\ Untouched' /\ parts' = <<>> /\ written' = 0
    <3>1. repository' \in PackTrees
      BY <1>1 DEF PackInv, PackTyped
    <3> QED
      BY <1>1, <2>1, <3>1, ItemsLeft
  <2>3. NothingYet'
    BY <1>1, <2>1, <2>2 DEF PackInv, NothingYet
  <2>4. ItemsRead'
    <3>1. ~edited /\ analysed' # <<>> => analysed' = source
      BY <1>1, <2>1 DEF PackInv, ItemsRead, OnDisk
    <3> QED
      BY <1>1, <2>1, <3>1 DEF PackInv, ItemsRead
  <2>5. ItemsAdmitted'
    <3>1. Admissible' = Admissible /\ WithBaseline' = WithBaseline
      BY <1>1 DEF Admissible, OwnCommand, Wanted, WithBaseline
    <3> QED
      BY <1>1, <2>1, <3>1 DEF PackInv, ItemsAdmitted
  <2>6. ItemsTransformed'
    BY <1>1, <2>1 DEF PackInv, ItemsTransformed
  <2> QED
    BY <2>1, <2>2, <2>3, <2>4, <2>5, <2>6 DEF PackInv, DeletedIsGone, PartsGrow, PartsWritten
<1> QED
  BY <1>2, <1>3

LEMMA ScopeKeeps == PackInv /\ Scope => PackInv'
<1> SUFFICES ASSUME PackInv, Scope PROVE PackInv'
  OBVIOUS
<1>1. /\ UNCHANGED <<repository, baseline, calls, call, source, edited, failed, git, analysed,
                     parts, written, outputs, earlier>>
      /\ phase = "since"
  BY DEF Scope
<1>2. deleted = {} /\ parts = <<>> /\ written = 0 /\ repository' \in PackTrees
  BY <1>1 DEF PackInv, NothingYet, PackTyped
<1>3. Admissible' = Admissible /\ WithBaseline' = WithBaseline
  BY <1>1 DEF Admissible, OwnCommand, Wanted, WithBaseline
<1>4. CASE WithBaseline /\ baseline = <<>>
  <2>1. UNCHANGED <<got, deleted>> /\ phase' = "ended" /\ exit' = "internal"
    BY <1>4 DEF Scope, End, WithBaseline
  <2>2. PackTyped'
    BY <1>1, <2>1 DEF PackInv, PackTyped, PackTypeOK
  <2>3. Untouched'
    BY <1>1 DEF PackInv, Untouched, Exclusive, OwnCommand
  <2> QED
    BY <2>1, <2>2, <2>3, FailureIsHonest
<1>5. CASE ~(WithBaseline /\ baseline = <<>>)
  <2>1. phase' = "render" /\ exit' = exit
    BY <1>5 DEF Scope, WithBaseline
  <2>2. ~WithBaseline => got' = got /\ deleted' = deleted
    BY DEF Scope, WithBaseline
  <2>3. WithBaseline =>
          /\ got' = Keep({p \in DOMAIN got : p \notin DOMAIN baseline
                                             \/ got[p].original # baseline[p]})
          /\ deleted' = {p \in DOMAIN baseline \ DOMAIN got : ~Moved(p)}
    BY <1>5 DEF Scope, WithBaseline
  <2>4. DOMAIN got' \subseteq DOMAIN got /\ \A p \in DOMAIN got' : got'[p] = got[p]
    BY <2>2, <2>3 DEF Keep
  <2>5. PackTyped' /\ Untouched' /\ parts' = <<>> /\ written' = 0
    BY <1>1, <1>2, <2>1, <2>4, ItemsLeft
  <2>6. NothingYet'
    BY <2>1, <2>5 DEF NothingYet
  <2>7. ItemsRead'
    BY <1>1, <2>1, <2>4 DEF PackInv, ItemsRead
  <2>8. ItemsAdmitted'
    <3>1. git = {} => DOMAIN got = Admissible \ failed
      BY <1>1 DEF PackInv, ItemsAdmitted
    <3>2. git = {} /\ ~WithBaseline => DOMAIN got' = Admissible \ failed
      BY <2>2, <3>1
    <3>3. DOMAIN got \subseteq Admissible /\ (git # {} => DOMAIN got \subseteq git)
      BY <1>1 DEF PackInv, ItemsAdmitted
    <3> QED
      BY <1>1, <1>3, <2>1, <2>4, <3>2, <3>3 DEF ItemsAdmitted
  <2>9. ItemsTransformed'
    BY <1>1, <2>1, <2>4 DEF PackInv, ItemsTransformed
  <2>10. DeletedIsGone'
    <3>1. ~WithBaseline => deleted' = {}
      BY <1>2, <2>2
    <3>2. ASSUME WithBaseline, failed = {}, call.scope = {}, call.keeps = DOMAIN ScopeOf, git = {}
          PROVE  deleted' \cap DOMAIN source = {}
      <4>1. DOMAIN got = Admissible \ failed
        BY <1>1, <3>2 DEF PackInv, ItemsAdmitted
      <4>2. Wanted(call) = DOMAIN ScopeOf
        BY <3>2 DEF Wanted
      <4>3. DOMAIN source \subseteq Admissible
        BY <1>1, <4>2 DEF PackInv, ItemsRead, Admissible
      <4> QED
        BY <2>3, <3>2, <4>1, <4>3
    <3> QED
      BY <1>1, <1>3, <3>1, <3>2 DEF DeletedIsGone
  <2> QED
    BY <2>1, <2>5, <2>6, <2>7, <2>8, <2>9, <2>10 DEF PackInv, PartsGrow, PartsWritten
<1> QED
  BY <1>4, <1>5

\* The items do not change any more once they are rendered.
LEMMA ItemsStay ==
  ASSUME PackInv, phase \in {"render", "split", "write"}, phase' \in {"split", "write"},
         UNCHANGED <<repository, baseline, calls, call, source, edited, got, failed, git, deleted,
                     analysed, exit>>
  PROVE  ItemsRead' /\ ItemsAdmitted' /\ ItemsTransformed' /\ DeletedIsGone' /\ NothingYet'
<1>1. Admissible' = Admissible /\ WithBaseline' = WithBaseline
  BY DEF Admissible, OwnCommand, Wanted, WithBaseline
<1>2. ItemsRead'
  BY DEF PackInv, ItemsRead
<1>3. ItemsAdmitted'
  BY <1>1 DEF PackInv, ItemsAdmitted
<1>4. ItemsTransformed'
  BY DEF PackInv, ItemsTransformed
<1>5. DeletedIsGone'
  BY <1>1 DEF PackInv, DeletedIsGone
<1> QED
  BY <1>2, <1>3, <1>4, <1>5 DEF NothingYet

\* Only the pack command cuts its output.
LEMMA OwnIsWhole == PackInv /\ Split => call.source # "dual"
<1> SUFFICES ASSUME PackInv, Split, call.source = "dual" PROVE FALSE
  OBVIOUS
<1>1. OwnCommand(call) /\ call \in PackCalls
  BY DEF OwnCommand, PackInv, PackTyped
<1>2. call.split = 0
  BY <1>1, PackAssumption DEF WithoutOptions
<1> QED
  BY <1>2 DEF Split

LEMMA RenderKeeps == PackInv /\ Render => PackInv'
<1> SUFFICES ASSUME PackInv, Render PROVE PackInv'
  OBVIOUS
<1>1. /\ UNCHANGED <<repository, baseline, calls, call, source, edited, got, failed, git, deleted,
                     analysed, written, outputs, earlier>>
      /\ phase = "render"
  BY DEF Render
<1>2. parts = <<>> /\ written = 0
  BY <1>1 DEF PackInv, NothingYet
<1>3. CASE ~ToFile
  <2>1. UNCHANGED parts /\ phase' = "ended" /\ exit' = ExitOf(failed)
    BY <1>3 DEF Render, End, ToFile
  <2>2. exit' \in {"success", "partial"} /\ (exit' = "success" => failed = {})
    BY <2>1 DEF ExitOf
  <2> QED
    BY <1>1, <1>3, <2>1, <2>2, DeliveryKeeps
<1>4. CASE ToFile
  <2> DEFINE R == Rendered(got)
  <2>1. /\ exit' = exit /\ phase' = (IF Split THEN "split" ELSE "write")
        /\ parts' = (IF Split THEN <<>> ELSE IF call.source = "dual" THEN <<R, R>> ELSE <<R>>)
    BY <1>4 DEF Render, ToFile
  <2>2. Split' = Split /\ ToFile' /\ Rendered(got)' = R
    BY <1>1, <1>4 DEF Split, ToFile
  <2> HIDE DEF R
  <2>3. parts' \in Seq(SUBSET R) /\ written' \in 0..Len(parts')
    <3>1. R \in SUBSET R
      OBVIOUS
    <3>2. <<>> \in Seq(SUBSET R) /\ <<R>> \in Seq(SUBSET R) /\ <<R, R>> \in Seq(SUBSET R)
      BY <3>1
    <3>3. parts' \in Seq(SUBSET R)
      BY <2>1, <3>2
    <3> QED
      BY <1>1, <1>2, <3>3
  <2>4. PackTypeOK'
    <3>1. parts' \in Seq(SUBSET Rendered(got)')
      BY <2>2, <2>3
    <3>2. phase' \in {"split", "write"}
      BY <2>1
    <3>3. call' \in Call /\ calls' \in 0..MaxCalls /\ DOMAIN got' \subseteq DOMAIN ScopeOf
          /\ failed' \subseteq DOMAIN ScopeOf /\ DOMAIN earlier' \subseteq DOMAIN outputs'
      BY <1>1 DEF PackInv, PackTyped, PackTypeOK
    <3>4. exit' = "none"
      BY <1>1, <2>1 DEF PackInv, PackTyped
    <3> QED
      BY <2>3, <3>1, <3>2, <3>3, <3>4 DEF PackTypeOK
  <2>5. PackTyped'
    BY <1>1, <2>1, <2>4 DEF PackInv, PackTyped
  <2>6. Untouched'
    BY <1>1 DEF PackInv, Untouched, Exclusive, OwnCommand
  <2>7. CASE Split
    <3>1. parts' = <<>> /\ phase' = "split"
      BY <2>1, <2>7
    <3>0. DOMAIN parts' = {}
      BY <3>1
    <3>2. PartsGrow'
      BY <1>1, <1>2, <2>2, <2>7, <3>0, <3>1 DEF PartsGrow, NoneTooLong, InOrderOfParts
    <3> QED
      BY <1>1, <2>1, <2>5, <2>6, <3>1, <3>2, ItemsStay DEF PackInv, PartsWritten
  <2>8. CASE ~Split
    <3>1. phase' = "write"
      BY <2>1, <2>8
    <3>2. /\ \A i \in DOMAIN parts' : parts'[i] = R
          /\ 1 \in DOMAIN parts'
          /\ call.source # "dual" => Len(parts') = 1
      BY <2>1, <2>8
    <3>3. UNION Range(parts') = R
      BY <3>2 DEF Range
    <3>4. call.source # "dual" => InOrderOfParts'
      <4>1. call.source # "dual" => DOMAIN parts' = {1}
        BY <2>1, <2>8
      <4> QED
        BY <4>1 DEF InOrderOfParts
    <3>5. 1..written' = {}
      BY <1>1, <1>2
    <3>6. PartsWritten'
      BY <1>1, <2>2, <2>8, <3>1, <3>2, <3>3, <3>4, <3>5 DEF PartsWritten
    <3> QED
      BY <1>1, <2>1, <2>5, <2>6, <3>1, <3>6, ItemsStay DEF PackInv, PartsGrow
  <2> QED
    BY <2>7, <2>8
<1> QED
  BY <1>3, <1>4

LEMMA LastChanged ==
  ASSUME NEW S, NEW s \in Seq(S), NEW n, n = Len(s), s # <<>>, NEW x \in S, NEW t,
         t = [s EXCEPT ![n] = x]
  PROVE  /\ t \in Seq(S) /\ DOMAIN t = 1..n /\ DOMAIN s = 1..n /\ n \in Nat \ {0}
         /\ t[n] = x /\ \A i \in 1..(n - 1) : t[i] = s[i]
<1>1. n \in Nat \ {0} /\ n \in 1..n /\ DOMAIN s = 1..n
  OBVIOUS
<1>2. t \in Seq(S) /\ Len(t) = n
  BY <1>1, ExceptSeq
<1>3. DOMAIN t = 1..n
  BY <1>1
<1> QED
  BY <1>1, <1>2, <1>3

LEMMA OneAppended ==
  ASSUME NEW S, NEW s \in Seq(S), NEW n, n = Len(s), NEW x \in S, NEW t, t = Append(s, x)
  PROVE  /\ t \in Seq(S) /\ DOMAIN t = 1..(n + 1) /\ DOMAIN s = 1..n /\ n \in Nat
         /\ t[n + 1] = x /\ \A i \in 1..n : t[i] = s[i]
BY AppendProperties

LEMMA SplitLineKeeps == PackInv /\ SplitLine => PackInv'
<1> SUFFICES ASSUME PackInv, SplitLine PROVE PackInv'
  OBVIOUS
<1>1. /\ UNCHANGED <<repository, baseline, calls, call, source, edited, got, failed, git, deleted,
                     analysed, written, outputs, earlier, exit>>
      /\ phase = "split"
  BY DEF SplitLine
<1> DEFINE R == Rendered(got)
<1>0. PICK n : n = Len(parts)
  OBVIOUS
<1>2. PICK line \in Rest :
        /\ \A other \in Rest \ {line} : Earlier(line, other)
        /\ parts' = (IF parts # <<>> /\ HasRoom(parts[n], line)
                     THEN [parts EXCEPT ![n] = @ \cup {line}]
                     ELSE Append(parts, {line}))
        /\ phase' = (IF Rest = {line} THEN "write" ELSE "split")
  BY <1>0 DEF SplitLine
<1>3. parts \in Seq(SUBSET R) /\ n \in Nat /\ DOMAIN parts = 1..n /\ (parts # <<>> => n >= 1)
  BY <1>0 DEF PackInv, PackTyped, PackTypeOK
<1>4. /\ ToFile /\ Split /\ NoneTooLong /\ InOrderOfParts /\ written = 0
      /\ \A i \in DOMAIN parts : IsFiniteSet(parts[i]) /\ \A l \in parts[i], m \in Rest : Earlier(l, m)
  BY <1>1 DEF PackInv, PartsGrow
<1>5. line \in R /\ \A i \in DOMAIN parts : line \notin parts[i]
  BY <1>2 DEF Rest, Range
<1>6. Split' = Split /\ ToFile' /\ Rendered(got)' = R
  BY <1>1, <1>4 DEF Split, ToFile
<1> HIDE DEF R
\* The part that the line goes into, and what becomes of it.
<1>7. PICK k : /\ k \in 1..(n + 1) /\ DOMAIN parts' = 1..k /\ n <= k
               /\ parts' \in Seq(SUBSET R)
               /\ \A i \in 1..(k - 1) : i \in DOMAIN parts /\ parts'[i] = parts[i]
               /\ \/ k = n /\ k \in DOMAIN parts /\ parts'[k] = parts[k] \cup {line}
                     /\ HasRoom(parts[k], line)
                  \/ k = n + 1 /\ parts'[k] = {line}
  <2>1. CASE parts # <<>> /\ HasRoom(parts[n], line)
    <3>1. n \in DOMAIN parts /\ parts[n] \in SUBSET R
      BY <1>3, <2>1
    <3>2. PICK x : x = parts[n] \cup {line}
      OBVIOUS
    <3>3. x \in SUBSET R /\ parts' = [parts EXCEPT ![n] = x]
      BY <1>2, <1>5, <2>1, <3>1, <3>2
    <3>4. /\ parts' \in Seq(SUBSET R) /\ DOMAIN parts' = 1..n
          /\ parts'[n] = x /\ \A i \in 1..(n - 1) : parts'[i] = parts[i]
      BY <1>0, <1>3, <2>1, <3>3, LastChanged
    <3>5. n \in 1..(n + 1) /\ n <= n /\ \A i \in 1..(n - 1) : i \in DOMAIN parts
      BY <1>3, <3>1
    <3> QED
      BY <2>1, <3>1, <3>2, <3>4, <3>5
  <2>2. CASE ~(parts # <<>> /\ HasRoom(parts[n], line))
    <3>1. parts' = Append(parts, {line}) /\ {line} \in SUBSET R
      BY <1>2, <1>5, <2>2
    <3>2. /\ parts' \in Seq(SUBSET R) /\ DOMAIN parts' = 1..(n + 1) /\ parts'[n + 1] = {line}
          /\ \A i \in 1..n : parts'[i] = parts[i]
      BY <1>0, <1>3, <3>1, OneAppended
    <3>3. n + 1 \in 1..(n + 1) /\ n <= n + 1 /\ \A i \in 1..((n + 1) - 1) : i \in 1..n
      BY <1>3
    <3> QED
      BY <1>3, <3>2, <3>3
  <2> QED
    BY <2>1, <2>2
<1>8. \A i \in DOMAIN parts' : \A l \in parts'[i] :
        (i \in DOMAIN parts /\ l \in parts[i]) \/ (i = k /\ l = line)
  <2> TAKE i \in DOMAIN parts'
  <2>1. i = k \/ i \in 1..(k - 1)
    BY <1>7
  <2>2. CASE i = k
    BY <1>7, <2>2
  <2>3. CASE i \in 1..(k - 1)
    BY <1>7, <2>3
  <2> QED
    BY <2>1, <2>2, <2>3
<1>9. Rest' = Rest \ {line}
  <2>1. UNION Range(parts') = (UNION Range(parts)) \cup {line}
    <3>1. ASSUME NEW l PROVE l \in UNION Range(parts') => l \in (UNION Range(parts)) \cup {line}
      <4>1. SUFFICES ASSUME NEW i \in DOMAIN parts', l \in parts'[i]
                     PROVE  l \in (UNION Range(parts)) \cup {line}
        BY DEF Range
      <4> QED
        BY <1>8, <4>1 DEF Range
    <3>2. ASSUME NEW i \in DOMAIN parts, NEW l \in parts[i] PROVE i \in DOMAIN parts' /\ l \in parts'[i]
      <4>1. i \in 1..k /\ (i = k \/ i \in 1..(k - 1))
        BY <1>3, <1>7
      <4>2. CASE i = k
        <5>1. i \in 1..n /\ k # n + 1
          BY <1>3, <4>2
        <5> QED
          BY <1>7, <4>2, <5>1
      <4>3. CASE i \in 1..(k - 1)
        BY <1>7, <4>1, <4>3
      <4> QED
        BY <4>1, <4>2, <4>3
    <3>3. k \in DOMAIN parts' /\ line \in parts'[k]
      BY <1>7
    <3> QED
      BY <3>1, <3>2, <3>3 DEF Range
  <2> QED
    BY <1>1, <1>6, <2>1 DEF Rest, R
<1>10. PackTyped'
  <2>1. parts' \in Seq(SUBSET Rendered(got)')
    BY <1>6, <1>7
  <2>2. written' \in 0..Len(parts')
    BY <1>1, <1>4, <1>7
  <2>3. call' \in Call /\ calls' \in 0..MaxCalls /\ DOMAIN got' \subseteq DOMAIN ScopeOf
        /\ failed' \subseteq DOMAIN ScopeOf /\ DOMAIN earlier' \subseteq DOMAIN outputs'
        /\ exit' = "none"
    BY <1>1 DEF PackInv, PackTyped, PackTypeOK
  <2>4. PackTypeOK'
    BY <1>2, <2>1, <2>2, <2>3 DEF PackTypeOK
  <2> QED
    BY <1>1, <2>3, <2>4 DEF PackInv, PackTyped
<1>11. Untouched'
  BY <1>1 DEF PackInv, Untouched, Exclusive, OwnCommand
<1>12. \A i \in DOMAIN parts' :
         IsFiniteSet(parts'[i]) /\ (Bytes(parts'[i]) <= call.split \/ Cardinality(parts'[i]) = 1)
  <2> SUFFICES ASSUME NEW i \in DOMAIN parts'
               PROVE  IsFiniteSet(parts'[i])
                        /\ (Bytes(parts'[i]) <= call.split \/ Cardinality(parts'[i]) = 1)
    OBVIOUS
  <2>1. CASE i \in DOMAIN parts /\ parts'[i] = parts[i]
    BY <1>4, <2>1 DEF NoneTooLong
  <2>2. CASE parts'[i] = {line}
    BY <2>2, FS_Singleton
  <2>3. CASE i \in DOMAIN parts /\ parts'[i] = parts[i] \cup {line} /\ HasRoom(parts[i], line)
    <3>1. /\ Bytes(parts[i] \cup {line}) = Bytes(parts[i]) + LineBytes(line)
          /\ IsFiniteSet(parts[i] \cup {line})
      BY <1>4, <1>5, <2>3, OneLineMore
    <3> QED
      BY <2>3, <3>1 DEF HasRoom
  <2> QED
    BY <1>7, <2>1, <2>2, <2>3
<1>13. NoneTooLong'
  BY <1>1, <1>12 DEF NoneTooLong
<1>14. InOrderOfParts'
  <2> SUFFICES ASSUME NEW i \in DOMAIN parts', NEW j \in DOMAIN parts', i < j,
                      NEW l \in parts'[i], NEW m \in parts'[j]
               PROVE  Earlier(l, m)
    BY DEF InOrderOfParts
  <2>1. i \in DOMAIN parts /\ l \in parts[i]
    BY <1>7, <1>8
  <2>2. CASE j \in DOMAIN parts /\ m \in parts[j]
    BY <1>4, <2>1, <2>2 DEF InOrderOfParts
  <2>3. CASE m = line
    BY <1>4, <2>1, <2>3
  <2> QED
    BY <1>8, <2>2, <2>3
<1>15. \A i \in DOMAIN parts' : \A l \in parts'[i], m \in Rest' : Earlier(l, m)
  BY <1>2, <1>4, <1>8, <1>9
<1>16. CASE Rest = {line}
  <2>1. phase' = "write" /\ Rest' = {}
    BY <1>2, <1>9, <1>16
  <2>2. R \subseteq UNION Range(parts')
    BY <1>6, <2>1 DEF Rest
  <2>3. UNION Range(parts') \subseteq R
    BY <1>7 DEF Range
  <2>4. call.source # "dual"
    BY <1>4, OwnIsWhole
  <2>5. 1..written' = {}
    BY <1>1, <1>4
  <2>6. PartsWritten'
    BY <1>1, <1>4, <1>6, <1>13, <1>14, <2>1, <2>2, <2>3, <2>4, <2>5 DEF PartsWritten
  <2> QED
    BY <1>1, <1>10, <1>11, <2>1, <2>6, ItemsStay DEF PackInv, PartsGrow
<1>17. CASE Rest # {line}
  <2>1. phase' = "split"
    BY <1>2, <1>17
  <2>2. PartsGrow'
    BY <1>1, <1>4, <1>6, <1>12, <1>13, <1>14, <1>15 DEF PartsGrow
  <2> QED
    BY <1>1, <1>10, <1>11, <2>1, <2>2, ItemsStay DEF PackInv, PartsWritten
<1> QED
  BY <1>16, <1>17

LEMMA WritePartKeeps ==
  ASSUME PackInv, NEW succeeds \in BOOLEAN, WritePart(succeeds)
  PROVE  PackInv'
<1>1. /\ UNCHANGED <<repository, baseline, calls, call, source, edited, got, failed, git, deleted,
                     analysed, parts, earlier>>
      /\ phase = "write" /\ written < Len(parts)
  BY DEF WritePart
<1>2. /\ ToFile /\ UNION Range(parts) = Rendered(got)
      /\ Split => NoneTooLong
      /\ call.source = "dual" => \A i \in DOMAIN parts : parts[i] = Rendered(got)
      /\ call.source # "dual" => InOrderOfParts
      /\ ~Split /\ call.source # "dual" => Len(parts) = 1
      /\ \A i \in 1..written : NameOf(i) \in DOMAIN outputs /\ outputs[NameOf(i)] = parts[i]
  BY <1>1 DEF PackInv, PartsWritten
<1>3. written \in Nat /\ Len(parts) \in Nat /\ DOMAIN earlier \subseteq DOMAIN outputs
  BY DEF PackInv, PackTyped, PackTypeOK
<1>4. \/ /\ Exclusive /\ Target \in DOMAIN outputs
         /\ UNCHANGED <<written, outputs>> /\ phase' = "ended" /\ exit' = Failure
      \/ /\ ~(Exclusive /\ Target \in DOMAIN outputs)
         /\ outputs' = [n \in DOMAIN outputs \cup {Target} |->
                          IF n # Target THEN outputs[n]
                          ELSE IF succeeds THEN parts[written + 1] ELSE TornOutput]
         /\ IF succeeds THEN written' = written + 1 /\ UNCHANGED <<phase, exit>>
            ELSE phase' = "ended" /\ exit' = Failure /\ UNCHANGED written
  BY DEF WritePart, End
<1>5. \A n \in DOMAIN outputs : n \in DOMAIN outputs' /\ (n # Target => outputs'[n] = outputs[n])
  BY <1>4
<1>6. Exclusive => Target = 0
  BY DEF Exclusive, Target, NameOf, OwnCommand, Split
<1>7. Untouched'
  <2>1. Exclusive' = Exclusive
    BY <1>1 DEF Exclusive, OwnCommand
  <2>2. CASE ~Exclusive
    BY <2>1, <2>2 DEF Untouched
  <2>3. CASE Exclusive /\ Target \in DOMAIN outputs
    BY <1>1, <1>4, <2>1, <2>3 DEF PackInv, Untouched
  <2>4. CASE Exclusive /\ Target \notin DOMAIN outputs
    <3>1. 0 \notin DOMAIN outputs /\ 0 \notin DOMAIN earlier
      BY <1>3, <1>6, <2>4
    <3>2. \A n \in DOMAIN earlier : outputs'[n] = outputs[n] /\ outputs[n] = earlier[n]
      BY <1>3, <1>5, <1>6, <2>4, <3>1 DEF PackInv, Untouched
    <3> QED
      BY <1>1, <3>1, <3>2 DEF Untouched
  <2> QED
    BY <2>2, <2>3, <2>4
<1>8. PackTyped'
  <2>1. written' \in 0..Len(parts)
    BY <1>1, <1>3, <1>4
  <2>2. Failure \in {"internal", "validation", "environment"}
    BY DEF Failure
  <2>3. exit = "none"
    BY <1>1 DEF PackInv, PackTyped
  <2>4. \/ phase' = "ended" /\ exit' \in {"internal", "validation", "environment"}
        \/ phase' = "write" /\ exit' = "none"
    BY <1>1, <1>4, <2>2, <2>3
  <2>5. DOMAIN earlier' \subseteq DOMAIN outputs'
    BY <1>1, <1>3, <1>5
  <2>6. /\ call' \in Call /\ calls' \in 0..MaxCalls /\ DOMAIN got' \subseteq DOMAIN ScopeOf
        /\ failed' \subseteq DOMAIN ScopeOf
    BY <1>1 DEF PackInv, PackTyped, PackTypeOK
  <2>7. parts' \in Seq(SUBSET Rendered(got)')
    BY <1>1 DEF PackInv, PackTyped, PackTypeOK
  <2>8. PackTypeOK'
    BY <1>1, <2>1, <2>4, <2>5, <2>6, <2>7 DEF PackTypeOK
  <2> QED
    BY <1>1, <2>4, <2>8 DEF PackInv, PackTyped
<1>9. CASE phase' = "ended"
  <2>1. exit' = Failure
    BY <1>1, <1>4, <1>9
  <2>2. exit' \notin {"success", "partial"}
    BY <2>1 DEF Failure
  <2> QED
    BY <1>7, <1>8, <1>9, <2>2, FailureIsHonest
<1>10. CASE phase' # "ended"
  <2>1. /\ written' = written + 1 /\ UNCHANGED <<phase, exit>>
        /\ Target \in DOMAIN outputs' /\ outputs'[Target] = parts[written + 1]
    BY <1>4, <1>10
  <2>2. Split' = Split /\ \A i : NameOf(i)' = NameOf(i)
    BY <1>1 DEF NameOf, Split
  <2>3. ASSUME NEW i \in 1..written'
        PROVE  NameOf(i) \in DOMAIN outputs' /\ outputs'[NameOf(i)] = parts[i]
    <3>1. CASE i = written + 1
      BY <2>1, <3>1 DEF Target
    <3>2. CASE i # written + 1
      <4>1. i \in 1..written
        BY <1>3, <2>1, <3>2
      <4>2. NameOf(i) # Target
        <5>1. 1 <= written /\ Len(parts) # 1
          <6>1. PICK w, len : w = written /\ len = Len(parts)
            OBVIOUS
          <6>2. w \in Nat /\ len \in Nat /\ w < len /\ i \in 1..w
            BY <1>1, <1>3, <4>1, <6>1
          <6>3. 1 <= w /\ len # 1
            BY <6>2
          <6> QED
            BY <6>1, <6>3
        <5>2. Split \/ call.source = "dual"
          BY <1>2, <5>1
        <5> QED
          BY <3>2, <5>2 DEF Target, NameOf
      <4> QED
        BY <1>2, <1>5, <4>1, <4>2
    <3> QED
      BY <3>1, <3>2
  <2>4. PartsWritten'
    BY <1>1, <1>2, <2>2, <2>3 DEF PartsWritten, ToFile, NoneTooLong, InOrderOfParts
  <2> QED
    BY <1>1, <1>7, <1>8, <2>1, <2>4, ItemsStay DEF PackInv, PartsGrow
<1> QED
  BY <1>9, <1>10

LEMMA FinishPackKeeps == PackInv /\ FinishPack => PackInv'
<1> SUFFICES ASSUME PackInv, FinishPack PROVE PackInv'
  OBVIOUS
<1>1. /\ UNCHANGED <<repository, baseline, calls, call, source, edited, got, failed, git, deleted,
                     analysed, parts, written, outputs, earlier>>
      /\ phase = "write" /\ written = Len(parts) /\ phase' = "ended"
      /\ exit' = IF OwnCommand(call) THEN "success" ELSE ExitOf(failed)
  BY DEF FinishPack, End
<1>2. call.source = "prPack" => failed = {}
  BY <1>1 DEF PackInv, ItemsRead
<1>3. exit' \in {"success", "partial"} /\ (exit' = "success" => failed = {} \/ call.source = "dual")
  BY <1>1, <1>2 DEF ExitOf, OwnCommand
<1> QED
  BY <1>1, <1>3, DeliveryKeeps

LEMMA PackStays == PackInv /\ UNCHANGED packVars => PackInv'
<1> SUFFICES ASSUME PackInv, UNCHANGED packVars PROVE PackInv'
  OBVIOUS
<1>1. /\ UNCHANGED <<repository, baseline, calls, phase, call, source, edited, got, failed>>
      /\ UNCHANGED <<git, deleted, analysed, parts, written, outputs, earlier, exit>>
  BY DEF packVars
<1>2. PackTyped'
  BY <1>1 DEF PackInv, PackTyped, PackTypeOK
<1>3. Untouched' /\ Split' = Split /\ \A i : NameOf(i)' = NameOf(i)
  BY <1>1 DEF PackInv, Untouched, Exclusive, OwnCommand, Split, NameOf
<1>4. Admissible' = Admissible /\ WithBaseline' = WithBaseline
  BY <1>1 DEF Admissible, OwnCommand, Wanted, WithBaseline
<1>5. NothingYet' /\ ItemsRead' /\ ItemsTransformed'
  BY <1>1 DEF PackInv, NothingYet, ItemsRead, ItemsTransformed, OnDisk
<1>6. ItemsAdmitted' /\ DeletedIsGone'
  BY <1>1, <1>4 DEF PackInv, ItemsAdmitted, DeletedIsGone
<1>7. PartsGrow' /\ PartsWritten'
  BY <1>1, <1>3 DEF PackInv, PartsGrow, PartsWritten, ToFile, NoneTooLong, InOrderOfParts, Rest
<1>8. phase' = "ended" => PackHonest'
  <2>1. Exclusive' = Exclusive /\ Wanted(call)' = Wanted(call) /\ OwnCommand(call)' = OwnCommand(call)
    BY <1>1 DEF Exclusive, OwnCommand, Wanted
  <2> QED
    BY <1>1, <1>3, <2>1 DEF PackInv, PackHonest, Delivered
<1> QED
  BY <1>2, <1>3, <1>5, <1>6, <1>7, <1>8 DEF PackInv

LEMMA PackNextKeeps == PackInv /\ [PackNext]_packVars => PackInv'
<1> SUFFICES ASSUME PackInv, [PackNext]_packVars PROVE PackInv'
  OBVIOUS
<1>1. CASE \E c \in PackCalls : StartPack(c)
  BY <1>1, StartPackKeeps
<1>2. CASE AcquireTree
  BY <1>2, AcquireTreeKeeps
<1>3. CASE AcquirePull
  BY <1>3, AcquirePullKeeps
<1>4. CASE AcquireStdin
  BY <1>4, AcquireStdinKeeps
<1>5. CASE AcquireFails
  BY <1>5, AcquireFailsKeeps
<1>6. CASE Filter
  BY <1>6, FilterKeeps
<1>7. CASE Transform
  BY <1>7, TransformKeeps
<1>8. CASE Report
  BY <1>8, ReportKeeps
<1>9. CASE Scope
  BY <1>9, ScopeKeeps
<1>10. CASE Render
  BY <1>10, RenderKeeps
<1>11. CASE SplitLine
  BY <1>11, SplitLineKeeps
<1>12. CASE \E succeeds \in BOOLEAN : WritePart(succeeds)
  BY <1>12, WritePartKeeps
<1>13. CASE FinishPack
  BY <1>13, FinishPackKeeps
<1>14. CASE EditRepository
  BY <1>14, EditKeepsPack
<1>15. CASE UNCHANGED packVars
  BY <1>15, PackStays
<1> QED
  BY <1>1, <1>2, <1>3, <1>4, <1>5, <1>6, <1>7, <1>8, <1>9, <1>10, <1>11, <1>12, <1>13, <1>14,
     <1>15 DEF PackNext

LEMMA PackSteps == [PipelineNext]_pipelineVars => [PackNext]_packVars
BY DEF PipelineNext, pipelineVars

\* Whatever the repository, the options, the edits meanwhile and the writes that
\* fail: a pack that reports success or a partial result delivers the admitted
\* items of one reading and nothing else, its parts put together are the bundle,
\* and no pack into one file changes a file that was there.
THEOREM PackStaysHonest == PipelineSpec => []PackHonest
<1>1. PipelineInit => PackInv
  BY InitPackInv DEF PipelineInit
<1>2. PackInv /\ [PipelineNext]_pipelineVars => PackInv'
  BY PackSteps, PackNextKeeps
<1> QED
  BY <1>1, <1>2, PackInvHonest, PTL DEF PipelineSpec

-----------------------------------------------------------------------------
(* The types of the acquisition.                                            *)

Acquirings ==
  /\ items \subseteq [path : DOMAIN tree, status : {"complete", "truncated", "changed"}]
  /\ omissions \subseteq [path : DOMAIN tree, reason : Reasons, failure : BOOLEAN]

LEMMA OmissionTyped ==
  ASSUME NEW P, NEW p \in P, NEW reason \in Reasons, NEW failure \in BOOLEAN
  PROVE  Omission(p, reason, failure) \in [path : P, reason : Reasons, failure : BOOLEAN]
BY DEF Omission

\* What is reported when a directory is entered is in the tree.
LEMMA EnterTyped ==
  ASSUME Acquirings, <<>> \in DOMAIN tree, NEW d, NEW stack, Enter(d, stack),
         UNCHANGED <<tree, items>>
  PROVE  Acquirings'
<1>1. PICK P : P = DOMAIN tree
  OBVIOUS
<1>2. PICK O : O = [path : P, reason : Reasons, failure : BOOLEAN]
  OBVIOUS
<1>3. omissions \subseteq O /\ <<>> \in P
  BY <1>1, <1>2 DEF Acquirings
<1>4. \/ omissions' = omissions \cup {Omission(<<>>, "traversal-failed", TRUE)}
      \/ \E left \in SUBSET Children(d) :
           omissions' = omissions \cup
             {Omission(p, IF tree[p].sensitive THEN "sensitive" ELSE "ignored", FALSE) : p \in left}
  <2>1. CASE tree[d].text = "unlistable" \/ ~Exists(d)
    BY <2>1 DEF Enter, Omit
  <2>2. CASE ~(tree[d].text = "unlistable" \/ ~Exists(d))
    BY <2>2 DEF Enter
  <2> QED
    BY <2>1, <2>2
<1>5. omissions' \subseteq O
  <2>1. CASE omissions' = omissions \cup {Omission(<<>>, "traversal-failed", TRUE)}
    <3>1. Omission(<<>>, "traversal-failed", TRUE) \in O
      BY <1>2, <1>3, OmissionTyped DEF Reasons
    <3> QED
      BY <1>3, <2>1, <3>1
  <2>2. ASSUME NEW left \in SUBSET Children(d),
               omissions' = omissions \cup
                 {Omission(p, IF tree[p].sensitive THEN "sensitive" ELSE "ignored", FALSE) :
                    p \in left}
        PROVE  omissions' \subseteq O
    <3>1. ASSUME NEW p \in left
          PROVE  Omission(p, IF tree[p].sensitive THEN "sensitive" ELSE "ignored", FALSE) \in O
      <4>1. p \in P
        BY <1>1 DEF Children
      <4>2. PICK reason \in Reasons :
              reason = IF tree[p].sensitive THEN "sensitive" ELSE "ignored"
        BY DEF Reasons
      <4> QED
        BY <1>2, <4>1, <4>2, OmissionTyped
    <3> QED
      BY <1>3, <2>2, <3>1
  <2> QED
    BY <1>4, <2>1, <2>2
<1> QED
  BY <1>1, <1>2, <1>5 DEF Acquirings

\* What is said of the top of the stack is said of the tree.
LEMMA OmitTyped ==
  ASSUME Acquirings, NEW p \in DOMAIN tree, NEW reason \in Reasons, NEW failure \in BOOLEAN,
         Omit(p, reason, failure), UNCHANGED <<tree, items>>
  PROVE  Acquirings'
<1>1. Omission(p, reason, failure) \in [path : DOMAIN tree, reason : Reasons, failure : BOOLEAN]
  BY OmissionTyped
<1> QED
  BY <1>1 DEF Acquirings, Omit

LEMMA AcquiringTyped ==
  ASSUME AcquisitionInv, Acquirings, [Acquiring]_acquisitionVars
  PROVE  Acquirings'
<1>1. /\ UNCHANGED <<tree, items, omissions>> => Acquirings'
      /\ <<>> \in DOMAIN tree
  BY DEF Acquirings, AcquisitionInv, TreeTyped
<1>2. pending # <<>> => Top \in DOMAIN tree
  <2>1. PICK top, rest : top = Top /\ rest = Tail(pending)
    OBVIOUS
  <2> QED
    BY <2>1, TopIs
<1>3. CASE StartWalk
  BY <1>1, <1>3, EnterTyped DEF StartWalk
<1>4. CASE VisitOther
  BY <1>1, <1>4, EnterTyped DEF VisitOther
<1>5. CASE Classify
  <2>1. PICK top : top = Top
    OBVIOUS
  <2>2. CASE Exists(top) /\ tree[top].text # "binary"
    BY <1>1, <1>5, <2>1, <2>2 DEF Classify
  <2>3. CASE Exists(top) /\ tree[top].text = "binary"
    <3>1. Omit(top, "binary", FALSE) /\ UNCHANGED <<tree, items>> /\ top \in DOMAIN tree
      BY <1>2, <1>5, <2>1, <2>3 DEF Classify, Omit, Omission
    <3> QED
      BY <3>1, OmitTyped DEF Reasons
  <2>4. CASE ~Exists(top)
    <3>1. Omit(top, "classification-failed", TRUE) /\ UNCHANGED <<tree, items>>
          /\ top \in DOMAIN tree
      BY <1>2, <1>5, <2>1, <2>4 DEF Classify, Omit, Omission
    <3> QED
      BY <3>1, OmitTyped DEF Reasons
  <2> QED
    BY <2>2, <2>3, <2>4
<1>6. ASSUME NEW full, Read(full) PROVE Acquirings'
  <2>0. pending # <<>> /\ Top \in DOMAIN tree
    BY <1>2, <1>6 DEF Read, AcquisitionInv, Traversal, Reading
  <2>1. CASE Exists(Top) /\ tree[Top].text # "undecodable"
    <3>1. PICK how \in {"complete", "truncated", "changed"} :
            items' = items \cup {[path |-> Top, status |-> how]}
      BY <1>6, <2>1 DEF Read
    <3>2. UNCHANGED <<tree, omissions>>
      BY <1>6, <2>1 DEF Read
    <3> QED
      BY <2>0, <3>1, <3>2 DEF Acquirings
  <2>2. CASE ~(Exists(Top) /\ tree[Top].text # "undecodable")
    <3>1. Omit(Top, "content-read-failed", TRUE) /\ UNCHANGED <<tree, items>>
      BY <1>6, <2>2 DEF Read
    <3> QED
      BY <2>0, <3>1, OmitTyped DEF Reasons
  <2> QED
    BY <2>1, <2>2
<1>7. CASE FinishWalk
  BY <1>1, <1>7 DEF FinishWalk
<1>8. CASE \E p \in DOMAIN tree, after \in {1, Gone} : Disturb(p, after)
  BY <1>1, <1>8 DEF Disturb
<1>9. CASE UNCHANGED acquisitionVars
  BY <1>1, <1>9 DEF acquisitionVars
<1> QED
  BY <1>3, <1>4, <1>5, <1>6, <1>7, <1>8, <1>9 DEF Acquiring, AcquisitionNext, WalkStep

LEMMA InitAcquirings == AcquisitionInit => Acquirings
BY DEF AcquisitionInit, Acquirings

LEMMA AcquisitionTyped == AcquisitionInv /\ Acquirings => AcquisitionTypeOK
BY DEF AcquisitionInv, TreeTyped, VersionsTyped, StackTyped, Traversal, Acquirings,
       AcquisitionTypeOK

-----------------------------------------------------------------------------
(* The types of the commands.                                               *)

Exits == {"success", "validation", "internal"}
Results == {"none", "running", "killed", "success", "validation", "environment", "internal"}

Originated(content) == content = NoFile \/ Head(content) \in Origins

CommandsTyped ==
  /\ machine \subseteq Facts /\ meddled \in BOOLEAN /\ result \in Results
  /\ job # NoJob => job.exit \in Exits
  /\ \A name \in FileNames : Originated(files[name])

LEMMA InitCommandsTyped == CommandsInit => CommandsTyped
BY CommandAssumption DEF CommandsInit, CommandsTyped, Results, Originated

LEMMA AnswersTyped ==
  ASSUME NEW question \in DOMAIN Answers
  PROVE  Answers[question] \in Results
BY AnswersEnd DEF Results

LEMMA PlanExits ==
  ASSUME NEW c \in WriteCommands
  PROVE  Plan(c).exit \in Exits
<1>1. CASE c.name = "init"
  <2>1. Plan(c) = InitPlan(c)
    BY <1>1 DEF Plan
  <2> QED
    BY <2>1 DEF InitPlan, Exits
<1>2. CASE c.name \in {"graph", "context"}
  <2>1. Plan(c) = CreatePlan(c.name)
    BY <1>2 DEF Plan
  <2> QED
    BY <2>1 DEF CreatePlan, Exits
<1>3. CASE c.name = "apply"
  <2>1. Plan(c) = ApplyPlan(c.blocks)
    BY <1>3 DEF Plan
  <2> QED
    BY <2>1 DEF ApplyPlan, Exits
<1>4. CASE c.name = "cacheInit"
  <2>1. Plan(c) = CacheInitPlan
    BY <1>4 DEF Plan
  <2> QED
    BY <2>1 DEF CacheInitPlan, Exits
<1>5. CASE c.name = "rebuild"
  <2>1. Plan(c) = RebuildPlan(c.dry)
    BY <1>5 DEF Plan
  <2> QED
    BY <2>1 DEF RebuildPlan, Exits
<1>6. CASE c.name = "watch"
  <2>1. Plan(c) = WatchPlan
    BY <1>6 DEF Plan
  <2> QED
    BY <2>1 DEF WatchPlan, Exits
<1>7. CASE c.name = "purge"
  <2>1. Plan(c) = PurgePlan(c)
    BY <1>7 DEF Plan
  <2> QED
    BY <2>1 DEF PurgePlan, Exits
<1> QED
  BY <1>1, <1>2, <1>3, <1>4, <1>5, <1>6, <1>7, CommandAssumption

\* Every content that is written is Fuzit's, but what an entry is added to.
LEMMA WrittenOriginated ==
  ASSUME CommandsInv, CommandsTyped, NEW c \in WriteCommands, NEW edits, NEW w,
         Writes(c, edits, w), w.name \in FileNames
  PROVE  Originated(After(w))
<1>0. "fuzit" \in Origins
  BY DEF Origins
<1>1. CASE w.name # "ignore"
  <2>1. After(w) = w.content
    BY <1>1 DEF After
  <2>2. PICK all : all = (Holds("listable") /\ Holds("readable"))
    OBVIOUS
  <2>3. \/ w.content \in {Ours("config"), Ours("block"), NoFile}
        \/ w.content = <<"fuzit", edits, all>>
        \/ w.content = <<"fuzit", edits, IF c.name = "watch" THEN "watch" ELSE "cache">>
        \/ w = OpenIndex
    BY <1>1, <2>2 DEF Writes
  <2>4. OpenIndex.content = Ours("index")
    BY WriteFields DEF OpenIndex
  <2>5. \A what : Head(Ours(what)) = "fuzit"
    BY DEF Ours
  <2> QED
    BY <1>0, <2>1, <2>3, <2>4, <2>5, Contents DEF Originated
<1>2. CASE w.name = "ignore"
  <2>1. After(w) = IF w.mode = "wx" \/ files["ignore"] = NoFile
                   THEN <<"fuzit", "ignore", w.content>>
                   ELSE [files["ignore"] EXCEPT ![3] = @ \cup w.content]
    BY <1>2 DEF After
  <2>2. CASE w.mode = "wx" \/ files["ignore"] = NoFile
    BY <1>0, <2>1, <2>2, Contents DEF Originated
  <2>3. CASE ~(w.mode = "wx" \/ files["ignore"] = NoFile)
    <3>1. PICK o, s : files["ignore"] = <<o, "ignore", s>>
      BY <2>3 DEF CommandsInv, FilesShape
    <3>2. o \in Origins
      BY <1>2, <2>3, <3>1, Contents DEF CommandsTyped, Originated, FileNames
    <3>3. After(w) = <<o, "ignore", s \cup w.content>>
      BY <2>1, <2>3, <3>1, IgnoreGrows
    <3> QED
      BY <3>2, <3>3, Contents DEF Originated
  <2> QED
    BY <2>2, <2>3
<1> QED
  BY <1>1, <1>2

\* One file gets a content that has an origin.
LEMMA OneFileOriginated ==
  ASSUME CommandsInv, CommandsTyped, NEW name, NEW content, Originated(content),
         files' = [files EXCEPT ![name] = content]
  PROVE  \A other \in FileNames : Originated(files'[other])
<1>1. DOMAIN files = FileNames
  BY DEF CommandsInv, FilesShape
<1>2. \A other \in FileNames : files'[other] \in {files[other], content}
  BY <1>1
<1> QED
  BY <1>2 DEF CommandsTyped

LEMMA CommandsStayTyped ==
  ASSUME CommandsInv, CommandsTyped, [CommandsNext]_commandVars
  PROVE  CommandsTyped'
<1>0. /\ machine \subseteq Facts /\ meddled \in BOOLEAN /\ result \in Results
      /\ job # NoJob => job.exit \in Exits
      /\ \A name \in FileNames : Originated(files[name])
      /\ Exits \subseteq Results
  BY DEF CommandsTyped, Exits, Results
<1>1. CASE UNCHANGED commandVars
  BY <1>0, <1>1 DEF commandVars, CommandsTyped
<1>2. ASSUME NEW question \in DOMAIN Answers, Ask(question) PROVE CommandsTyped'
  BY <1>0, <1>2, AnswersTyped DEF Ask, CommandsTyped
<1>3. ASSUME NEW c \in WriteCommands, StartCommand(c) PROVE CommandsTyped'
  <2>1. PICK writes, code : writes = Plan(c).writes /\ code = Plan(c).exit
    OBVIOUS
  <2>2. code \in Exits
    BY <2>1, PlanExits
  <2>3. /\ job' = [command |-> c, writes |-> writes, done |-> 0, seen |-> revision, exit |-> code]
        /\ result' = IF writes = <<>> THEN code ELSE "running"
        /\ meddled' = FALSE /\ UNCHANGED <<machine, files>>
    BY <1>3, <2>1 DEF StartCommand
  <2>4. job'.exit = code /\ result' \in Results
    BY <1>0, <2>2, <2>3 DEF Results
  <2> QED
    BY <1>0, <2>2, <2>3, <2>4 DEF CommandsTyped
<1>4. CASE WriteNext
  <2>0. result = "running" /\ UNCHANGED <<machine, meddled>>
    BY <1>4 DEF WriteNext
  <2>1. PICK c \in WriteCommands : \E writes, edits, code, n, w :
          Working(c, writes, edits, code, n, w)
    BY <2>0, AtWork
  <2>2. PICK writes, edits, code, n, w : Working(c, writes, edits, code, n, w)
    BY <2>1
  <2>3. /\ job = [command |-> c, writes |-> writes, done |-> n, seen |-> edits, exit |-> code]
        /\ Writes(c, edits, w) /\ w.name \in FileNames /\ w = job.writes[job.done + 1]
        /\ job # NoJob /\ job.exit = code
    BY <2>2 DEF Working
  <2>4. CASE w.mode = "wx" /\ files[w.name] # NoFile
    <3>1. result' = FailureExit /\ UNCHANGED <<files, job>>
      BY <1>4, <2>3, <2>4 DEF WriteNext
    <3>2. result' \in Results
      BY <3>1 DEF FailureExit, Results
    <3> QED
      BY <1>0, <2>0, <3>1, <3>2 DEF CommandsTyped
  <2>5. CASE ~(w.mode = "wx" /\ files[w.name] # NoFile)
    <3>1. /\ files' = [files EXCEPT ![w.name] = After(w)]
          /\ job' = [job EXCEPT !.done = @ + 1]
          /\ result' = IF job.done + 1 = Len(job.writes) THEN job.exit ELSE "running"
      BY <1>4, <2>3, <2>5 DEF WriteNext
    <3>2. job'.exit = job.exit
      BY <2>3, <3>1
    <3>3. result' \in Results
      BY <1>0, <2>3, <3>1 DEF Results
    <3>4. \A name \in FileNames : Originated(files'[name])
      BY <2>3, <3>1, WrittenOriginated, OneFileOriginated
    <3> QED
      BY <1>0, <2>0, <2>3, <3>2, <3>3, <3>4 DEF CommandsTyped
  <2> QED
    BY <2>4, <2>5
<1>5. ASSUME NEW killed, WriteFails(killed) PROVE CommandsTyped'
  <2>1. PICK w : w = job.writes[job.done + 1]
    OBVIOUS
  <2>2. /\ \/ UNCHANGED files
           \/ files' = [files EXCEPT ![w.name] = Torn]
        /\ result' = (IF killed THEN "killed" ELSE FailureExit)
        /\ UNCHANGED <<machine, job, meddled>>
    BY <1>5, <2>1 DEF WriteFails
  <2>3. Originated(Torn)
    BY DEF Originated, Torn, Origins
  <2>4. \A name \in FileNames : Originated(files'[name])
    BY <1>0, <2>2, <2>3, OneFileOriginated
  <2>5. result' \in Results
    BY <2>2 DEF FailureExit, Results
  <2> QED
    BY <1>0, <2>2, <2>4, <2>5 DEF CommandsTyped
<1>6. CASE Edit
  <2>1. /\ UNCHANGED <<machine, job, result>> /\ meddled' = TRUE
        /\ \/ UNCHANGED files
           \/ \E name, content : content \in {Users("valid"), Users("bad"), NoFile}
                                   /\ files' = [files EXCEPT ![name] = content]
    BY <1>6 DEF Edit
  <2>2. Originated(Users("valid")) /\ Originated(Users("bad")) /\ Originated(NoFile)
    BY DEF Originated, Users, Origins
  <2>3. \A name \in FileNames : Originated(files'[name])
    BY <1>0, <2>1, <2>2, OneFileOriginated
  <2> QED
    BY <1>0, <2>1, <2>3 DEF CommandsTyped
<1> QED
  BY <1>1, <1>2, <1>3, <1>4, <1>5, <1>6 DEF CommandsNext

LEMMA CommandsTypes == CommandsInv /\ CommandsTyped => CommandsTypeOK
<1> SUFFICES ASSUME CommandsInv, CommandsTyped PROVE CommandsTypeOK
  OBVIOUS
<1>1. DOMAIN files = FileNames
  BY DEF CommandsInv, FilesShape
<1>2. job.done \in 0..Len(job.writes)
  <2>1. CASE job = NoJob
    BY <2>1, NoJobFields
  <2>2. CASE JobShape
    BY <2>2 DEF JobShape
  <2> QED
    BY <2>1, <2>2 DEF CommandsInv
<1> QED
  BY <1>1, <1>2 DEF CommandsTyped, CommandsTypeOK, Originated, Results

-----------------------------------------------------------------------------
(* The theorem about the types.                                             *)

\* The state of the parts of the pipeline stays in its type: what was acquired
\* and left out is of the tree, decisions are about candidates, ways are of the
\* graph, inodes are inodes, what is packed is of the bundle and what the
\* commands say and write is one of the things they know.
THEOREM PipelineTypeCorrect == PipelineSpec => []PipelineTypeOK
<1> DEFINE TypesInv == /\ AcquisitionInv /\ Acquirings /\ SelectionInv /\ SearchInv
                       /\ SnapshotInv /\ PackInv /\ CommandsInv /\ CommandsTyped
<1>1. PipelineInit => TypesInv
  BY InitAcquisitionInv, InitAcquirings, InitSelectionInv, InitSearchInv, InitSnapshotInv,
     InitPackInv, InitCommandsInv, InitCommandsTyped DEF PipelineInit
<1>2. TypesInv /\ [PipelineNext]_pipelineVars => TypesInv'
  <2> SUFFICES ASSUME TypesInv, [PipelineNext]_pipelineVars PROVE TypesInv'
    OBVIOUS
  <2>1. AcquisitionInv' /\ Acquirings'
    BY AcquisitionSteps, AcquisitionKeeps, AcquiringTyped
  <2>2. SelectionInv'
    BY SelectionSteps, SelectionNextKeeps
  <2>3. SearchInv'
    BY SearchSteps, SearchesKeep
  <2>4. SnapshotInv'
    BY SnapshotSteps, SnapshotNextKeeps
  <2>5. PackInv'
    BY PackSteps, PackNextKeeps
  <2>6. CommandsInv' /\ CommandsTyped'
    BY CommandSteps, CommandsNextKeeps, CommandsStayTyped
  <2> QED
    BY <2>1, <2>2, <2>3, <2>4, <2>5, <2>6
<1>3. TypesInv => PipelineTypeOK
  BY AcquisitionTyped, CommandsTypes
     DEF SelectionInv, SearchInv, SnapshotInv, SavesTyped, PackInv, PackTyped, PipelineTypeOK
<1> QED
  BY <1>1, <1>2, <1>3, PTL DEF PipelineSpec

=============================================================================
