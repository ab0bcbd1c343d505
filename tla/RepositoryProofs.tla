---------------------------- MODULE RepositoryProofs ----------------------------
(***************************************************************************)
(* Proofs about the parts of Pipeline that read a repository and keep what *)
(* they have found: the graph store keeps the graph closed, snapshots are  *)
(* faithful, commands keep their word, what is read is accounted for, and  *)
(* an invalidation reaches all it has to.                                  *)
(*                                                                         *)
(* Each part is proved about by itself: a step of Pipeline is a step of    *)
(* the part that runs, or changes nothing of it.                           *)
(***************************************************************************)
EXTENDS Pipeline, SequenceTheorems, FiniteSetTheorems, WellFoundedInduction, TLAPS

-----------------------------------------------------------------------------
(* Numbers.                                                                 *)

\* A set of natural numbers that is not empty has a least one.
LEMMA LeastNumber ==
  ASSUME NEW S \in SUBSET Nat, S # {}
  PROVE  \E n \in S : \A m \in S : n <= m
<1>1. PICK n \in S : \A m \in S : ~(<<m, n>> \in OpToRel(<, Nat))
  BY WFMin, NatLessThanWellFounded
<1>2. \A m \in S : n <= m
  <2> TAKE m \in S
  <2>1. m \in Nat /\ n \in Nat
    OBVIOUS
  <2>2. ~(m < n)
    BY <2>1, <1>1 DEF OpToRel
  <2> QED
    BY <2>1, <2>2
<1> QED
  BY <1>2

\* A set of natural numbers below a bound that is not empty has a largest one.
LEMMA LargestNumber ==
  ASSUME NEW N \in Nat, NEW V \in SUBSET (0..N), V # {}
  PROVE  \E m \in V : \A x \in V : x <= m
<1> DEFINE S == {n \in Nat : N - n \in V}
<1>1. S # {}
  <2>1. PICK x \in V : TRUE
    OBVIOUS
  <2>2. x \in 0..N
    OBVIOUS
  <2>3. N - x \in Nat /\ N - (N - x) = x
    BY <2>2
  <2> QED
    BY <2>1, <2>3
<1>2. PICK n \in S : \A k \in S : n <= k
  <2>1. S \in SUBSET Nat
    OBVIOUS
  <2> HIDE DEF S
  <2> QED
    BY <1>1, <2>1, LeastNumber
<1>3. ASSUME NEW x \in V PROVE x <= N - n
  <2>0. x \in 0..N
    OBVIOUS
  <2>1. N - x \in S
    <3>1. N - x \in Nat /\ N - (N - x) = x
      BY <2>0
    <3> QED
      BY <3>1
  <2>2. n <= N - x /\ n \in Nat
    BY <1>2, <2>1
  <2> QED
    BY <2>0, <2>2
<1> QED
  BY <1>2, <1>3

-----------------------------------------------------------------------------
(* Sums over finite sets.                                                   *)
(*                                                                         *)
(* MapThenSumSet is a function on the subsets of a set, defined by          *)
(* recursion on the element that CHOOSE takes.  A tally is such a function: *)
(* there is one, two of them agree, and the order of the elements does not  *)
(* matter.  Each is by a least counterexample, the cardinality being the    *)
(* measure.                                                                 *)

Pick(s) == CHOOSE x \in s : TRUE

IsTally(g, w, S) ==
  g = [s \in SUBSET S |-> IF s = {} THEN 0 ELSE w[Pick(s)] + g[s \ {Pick(s)}]]

LEMMA PickLeaves ==
  ASSUME NEW s, IsFiniteSet(s), s # {}
  PROVE  /\ Pick(s) \in s /\ IsFiniteSet(s \ {Pick(s)})
         /\ Cardinality(s \ {Pick(s)}) = Cardinality(s) - 1
         /\ Cardinality(s) \in Nat \ {0} /\ Cardinality(s \ {Pick(s)}) \in Nat
<1>1. Pick(s) \in s
  BY DEF Pick
<1> QED
  BY <1>1, FS_RemoveElement, FS_CardinalityType, FS_EmptySet

LEMMA TallyExists ==
  ASSUME NEW S, IsFiniteSet(S), NEW w
  PROVE  \E g : IsTally(g, w, S)
<1> DEFINE Small(n) == {s \in SUBSET S : Cardinality(s) <= n}
           Body(g, s) == IF s = {} THEN 0 ELSE w[Pick(s)] + g[s \ {Pick(s)}]
           Bad == {n \in Nat : ~ \E g : g = [s \in Small(n) |-> Body(g, s)]}
<1>1. \A s \in SUBSET S : IsFiniteSet(s) /\ Cardinality(s) \in Nat
  BY FS_Subset, FS_CardinalityType
<1>2. Bad = {}
  <2> SUFFICES ASSUME Bad # {} PROVE FALSE
    OBVIOUS
  <2>1. PICK n \in Bad : \A m \in Bad : n <= m
    <3>1. Bad \in SUBSET Nat
      OBVIOUS
    <3> HIDE DEF Bad
    <3> QED
      BY <3>1, LeastNumber
  <2>2. n \in Nat
    OBVIOUS
  <2>3. CASE n = 0
    <3> DEFINE h == [s \in Small(0) |-> 0]
    <3>1. \A s \in Small(0) : s = {}
      BY <1>1, FS_EmptySet
    <3>2. h = [s \in Small(0) |-> Body(h, s)]
      BY <3>1
    <3> HIDE DEF h, Body, Small
    <3>3. \E g : g = [s \in Small(0) |-> Body(g, s)]
      BY <3>2
    <3> QED
      BY <2>3, <3>3
  <2>4. CASE n # 0
    <3>1. n - 1 \in Nat /\ n - 1 \notin Bad
      <4>1. n - 1 \in Nat /\ ~(n <= n - 1)
        BY <2>2, <2>4
      <4> HIDE DEF Bad
      <4> QED
        BY <2>1, <4>1
    <3>2. PICK g : g = [s \in Small(n - 1) |-> Body(g, s)]
      BY <3>1
    <3> DEFINE h == [s \in Small(n) |-> Body(g, s)]
    <3>3. ASSUME NEW s \in Small(n) PROVE Body(g, s) = Body(h, s)
      <4>1. CASE s = {}
        BY <4>1
      <4>2. CASE s # {}
        <5> DEFINE t == s \ {Pick(s)}
        <5>1. Cardinality(t) = Cardinality(s) - 1 /\ Cardinality(s) \in Nat /\ Cardinality(s) <= n
          BY <1>1, <4>2, PickLeaves
        <5>2. t \in Small(n - 1) /\ t \in Small(n)
          BY <2>2, <5>1
        <5>3. g[t] = Body(g, t)
          <6> HIDE DEF Body, Small, t
          <6> QED
            BY <3>2, <5>2
        <5>4. h[t] = Body(g, t)
          <6> HIDE DEF Body, Small, t
          <6> QED
            BY <5>2
        <5> HIDE DEF h
        <5> QED
          BY <4>2, <5>3, <5>4
      <4> QED
        BY <4>1, <4>2
    <3>4. h = [s \in Small(n) |-> Body(h, s)]
      <4>1. [s \in Small(n) |-> Body(g, s)] = [s \in Small(n) |-> Body(h, s)]
        <5> HIDE DEF Body, Small, h
        <5> QED
          BY <3>3
      <4> QED
        BY <4>1
    <3> HIDE DEF h, Body, Small
    <3>5. \E f : f = [s \in Small(n) |-> Body(f, s)]
      BY <3>4
    <3> QED
      BY <3>5
  <2> QED
    BY <2>3, <2>4
<1>3. PICK g : g = [s \in Small(Cardinality(S)) |-> Body(g, s)]
  BY <1>1, <1>2
<1>4. Small(Cardinality(S)) = SUBSET S
  BY FS_Subset
<1>5. g = [s \in SUBSET S |-> Body(g, s)]
  <2> HIDE DEF Body, Small
  <2> QED
    BY <1>3, <1>4
<1> QED
  BY <1>5 DEF IsTally

LEMMA TallyAt ==
  ASSUME NEW S, NEW w, NEW g, IsTally(g, w, S), NEW s \in SUBSET S
  PROVE  g[s] = IF s = {} THEN 0 ELSE w[Pick(s)] + g[s \ {Pick(s)}]
<1> DEFINE Body(t) == IF t = {} THEN 0 ELSE w[Pick(t)] + g[t \ {Pick(t)}]
<1>1. g = [t \in SUBSET S |-> Body(t)]
  BY DEF IsTally
<1> HIDE DEF Body
<1>2. g[s] = Body(s)
  BY <1>1
<1> QED
  BY <1>2 DEF Body

LEMMA TalliesAgree ==
  ASSUME NEW S, IsFiniteSet(S), NEW T, NEW w, NEW g, NEW h,
         IsTally(g, w, S), IsTally(h, w, T), \A x \in S : w[x] \in Nat
  PROVE  \A s \in SUBSET S : s \subseteq T => g[s] = h[s] /\ g[s] \in Nat
<1> DEFINE Bad == {n \in Nat : \E s \in SUBSET S : /\ s \subseteq T /\ Cardinality(s) = n
                                                   /\ ~(g[s] = h[s] /\ g[s] \in Nat)}
<1>1. \A s \in SUBSET S : IsFiniteSet(s) /\ Cardinality(s) \in Nat
  BY FS_Subset, FS_CardinalityType
<1>2. Bad = {}
  <2> SUFFICES ASSUME Bad # {} PROVE FALSE
    OBVIOUS
  <2>1. PICK n \in Bad : \A m \in Bad : n <= m
    <3>1. Bad \in SUBSET Nat
      OBVIOUS
    <3> HIDE DEF Bad
    <3> QED
      BY <3>1, LeastNumber
  <2>2. PICK s \in SUBSET S : /\ s \subseteq T /\ Cardinality(s) = n
                              /\ ~(g[s] = h[s] /\ g[s] \in Nat)
    OBVIOUS
  <2>3. s # {}
    <3>1. {} \in SUBSET S /\ {} \in SUBSET T
      OBVIOUS
    <3>2. g[{}] = 0 /\ h[{}] = 0
      BY <3>1, TallyAt
    <3> QED
      BY <2>2, <3>2
  <2> DEFINE t == s \ {Pick(s)}
  <2>4. Pick(s) \in s /\ Cardinality(t) = n - 1 /\ n \in Nat /\ Cardinality(t) \in Nat
    BY <1>1, <2>2, <2>3, PickLeaves
  <2>5. t \in SUBSET S /\ t \subseteq T /\ s \in SUBSET T
    BY <2>2
  <2>6. g[t] = h[t] /\ g[t] \in Nat
    <3>1. n - 1 \notin Bad
      <4>1. n - 1 \in Nat /\ ~(n <= n - 1)
        BY <2>4
      <4> HIDE DEF Bad
      <4> QED
        BY <2>1, <4>1
    <3> HIDE DEF t
    <3> QED
      BY <2>4, <2>5, <3>1
  <2>7. g[s] = w[Pick(s)] + g[t] /\ h[s] = w[Pick(s)] + h[t]
    BY <2>3, <2>5, TallyAt
  <2>8. w[Pick(s)] \in Nat
    BY <2>4
  <2> QED
    BY <2>2, <2>6, <2>7, <2>8
<1> HIDE DEF Bad
<1>3. ASSUME NEW s \in SUBSET S, s \subseteq T PROVE g[s] = h[s] /\ g[s] \in Nat
  <2>1. Cardinality(s) \notin Bad /\ Cardinality(s) \in Nat
    BY <1>1, <1>2
  <2> QED
    BY <1>3, <2>1 DEF Bad
<1> QED
  BY <1>3

\* Any element may come first.
LEMMA TallyInAnyOrder ==
  ASSUME NEW S, IsFiniteSet(S), NEW w, NEW g, IsTally(g, w, S), \A x \in S : w[x] \in Nat
  PROVE  \A s \in SUBSET S, x \in S : x \in s => g[s] = w[x] + g[s \ {x}]
<1> DEFINE Bad == {n \in Nat : \E s \in SUBSET S, x \in S :
                                 x \in s /\ Cardinality(s) = n /\ g[s] # w[x] + g[s \ {x}]}
<1>1. \A s \in SUBSET S : IsFiniteSet(s) /\ Cardinality(s) \in Nat /\ g[s] \in Nat
  BY FS_Subset, FS_CardinalityType, TalliesAgree
<1>2. Bad = {}
  <2> SUFFICES ASSUME Bad # {} PROVE FALSE
    OBVIOUS
  <2>1. PICK n \in Bad : \A m \in Bad : n <= m
    <3>1. Bad \in SUBSET Nat
      OBVIOUS
    <3> HIDE DEF Bad
    <3> QED
      BY <3>1, LeastNumber
  <2>2. PICK s \in SUBSET S, x \in S :
          x \in s /\ Cardinality(s) = n /\ g[s] # w[x] + g[s \ {x}]
    OBVIOUS
  <2>3. s # {}
    BY <2>2
  <2>4. PICK y : y = Pick(s)
    OBVIOUS
  <2>5. /\ y \in s /\ y \in S /\ Cardinality(s \ {y}) = n - 1 /\ n \in Nat
        /\ Cardinality(s \ {y}) \in Nat
    BY <1>1, <2>2, <2>3, <2>4, PickLeaves
  <2>6. g[s] = w[y] + g[s \ {y}]
    BY <2>3, <2>4, TallyAt
  <2>7. x # y
    BY <2>2, <2>6
  <2>8. Cardinality(s \ {x}) = n - 1
    BY <1>1, <2>2, FS_RemoveElement
  <2>9. n - 1 \in Nat /\ n - 1 \notin Bad
    <3>1. n - 1 \in Nat /\ ~(n <= n - 1)
      BY <2>5
    <3> HIDE DEF Bad
    <3> QED
      BY <2>1, <3>1
  <2>10. g[s \ {y}] = w[x] + g[(s \ {y}) \ {x}]
    <3>1. s \ {y} \in SUBSET S /\ x \in s \ {y}
      BY <2>2, <2>7
    <3> QED
      BY <2>5, <2>9, <3>1
  <2>11. g[s \ {x}] = w[y] + g[(s \ {x}) \ {y}]
    <3>1. s \ {x} \in SUBSET S /\ y \in s \ {x}
      BY <2>5, <2>7
    <3> QED
      BY <2>5, <2>8, <2>9, <3>1
  <2>12. PICK r \in SUBSET S : r = (s \ {y}) \ {x} /\ r = (s \ {x}) \ {y}
    <3>1. (s \ {y}) \ {x} = (s \ {x}) \ {y} /\ (s \ {y}) \ {x} \in SUBSET S
      OBVIOUS
    <3> QED
      BY <3>1
  <2>13. PICK a, b, c : a = g[r] /\ b = w[x] /\ c = w[y]
    OBVIOUS
  <2>14. a \in Nat /\ b \in Nat /\ c \in Nat
    BY <1>1, <2>2, <2>5, <2>13
  <2>15. g[s] = c + (b + a) /\ g[s \ {x}] = c + a
    BY <2>6, <2>10, <2>11, <2>12, <2>13
  <2>16. c + (b + a) = b + (c + a)
    BY <2>14
  <2> QED
    BY <2>2, <2>13, <2>15, <2>16
<1> HIDE DEF Bad
<1>3. ASSUME NEW s \in SUBSET S, NEW x \in S, x \in s PROVE g[s] = w[x] + g[s \ {x}]
  <2>1. Cardinality(s) \notin Bad /\ Cardinality(s) \in Nat
    BY <1>1, <1>2
  <2> QED
    BY <1>3, <2>1 DEF Bad
<1> QED
  BY <1>3

\* The sum that a fold makes of the weights of a finite set.
Total(w, S) == (CHOOSE g : IsTally(g, w, S))[S]

LEMMA TotalIs ==
  ASSUME NEW S, IsFiniteSet(S), NEW w, \A x \in S : w[x] \in Nat
  PROVE  \E g : IsTally(g, w, S) /\ Total(w, S) = g[S]
<1>1. IsTally(CHOOSE g : IsTally(g, w, S), w, S)
  BY TallyExists
<1> QED
  BY <1>1 DEF Total

LEMMA TotalNat ==
  ASSUME NEW S, IsFiniteSet(S), NEW w, \A x \in S : w[x] \in Nat
  PROVE  Total(w, S) \in Nat /\ (S = {} => Total(w, S) = 0)
<1>1. PICK g : IsTally(g, w, S) /\ Total(w, S) = g[S]
  BY TotalIs
<1>2. S \in SUBSET S
  OBVIOUS
<1>3. g[S] \in Nat
  BY <1>1, <1>2, TalliesAgree
<1>4. S = {} => g[S] = 0
  BY <1>1, <1>2, TallyAt
<1> QED
  BY <1>1, <1>3, <1>4

LEMMA TotalPlus ==
  ASSUME NEW S, IsFiniteSet(S), NEW w, \A x \in S : w[x] \in Nat,
         NEW y, y \notin S, w[y] \in Nat
  PROVE  Total(w, S \cup {y}) = Total(w, S) + w[y]
<1> DEFINE T == S \cup {y}
<1>1. IsFiniteSet(T) /\ (\A x \in T : w[x] \in Nat) /\ y \in T /\ T \ {y} = S
  BY FS_AddElement
<1> HIDE DEF T
<1>2. PICK g : IsTally(g, w, S) /\ Total(w, S) = g[S]
  BY TotalIs
<1>3. PICK h : IsTally(h, w, T) /\ Total(w, T) = h[T]
  BY <1>1, TotalIs
<1>4. T \in SUBSET T /\ S \in SUBSET S /\ S \subseteq T
  BY <1>1
<1>5. h[T] = w[y] + h[T \ {y}]
  BY <1>1, <1>3, <1>4, TallyInAnyOrder
<1>6. g[S] = h[S] /\ g[S] \in Nat
  BY <1>2, <1>3, <1>4, TalliesAgree
<1>7. Total(w, T) = Total(w, S) + w[y]
  <2>1. Total(w, T) = w[y] + h[S] /\ Total(w, S) = h[S]
    BY <1>1, <1>2, <1>3, <1>5, <1>6
  <2>2. PICK a, b : a = h[S] /\ b = w[y]
    OBVIOUS
  <2>3. a \in Nat /\ b \in Nat
    BY <1>6, <2>2
  <2> QED
    BY <2>1, <2>2, <2>3
<1> QED
  BY <1>7 DEF T

-----------------------------------------------------------------------------
(* The graph store: the inductive invariant.                                *)

EdgesJoinNodes == \A e \in edges : e.source \in nodes /\ e.target \in nodes \cup {Unresolved}

FilesThere ==
  stage >= 1 => \A f \in analysis.files :
    FileNode(f) \in nodes \/ (stage > 5 /\ NodeTombstone(FileNode(f)) \in tombstones)

RelationHasEdge(r) ==
  \E e \in edges : e.kind = r.kind /\ e.source \in {r.source, <<"configuration", r.source>>}

Dependency == {"import", "export", "reference", "call"}
Domain == {"test", "endpoint", "schema", "configuration-link"}

\* What a graph that calls itself complete has, stage by stage.
CompleteSoFar ==
  stage <= 5 /\ Complete =>
    /\ stage >= 2 => {SymbolNode(s) : s \in analysis.symbols} \subseteq nodes
    /\ stage >= 3 => \A r \in analysis.relations : r.kind \in Dependency => RelationHasEdge(r)
    /\ stage >= 4 => \A r \in analysis.relations : r.kind \in Domain => RelationHasEdge(r)
    /\ stage >= 5 => \A c \in analysis.changes : FileNode(c.path) \in nodes

GraphInv ==
  /\ analysis \in Analyses /\ stage \in Nat
  /\ EdgesJoinNodes /\ FilesThere /\ CompleteSoFar

LEMMA InitGraphInv == GraphInit => GraphInv
BY DEF GraphInit, GraphInv, EdgesJoinNodes, FilesThere, CompleteSoFar, Complete

\* The longest package root above a file belongs to a package.
LEMMA NearestIsNode ==
  ASSUME analysis \in Analyses, NEW f \in analysis.files
  PROVE  NearestPackage(f) \in {Repository} \cup {PackageNode(p) : p \in analysis.packages}
<1> DEFINE above == {p \in analysis.packages : IsPrefix(p.path, f)}
           lengths == {Len(p.path) : p \in above}
<1>1. CASE above = {}
  BY <1>1 DEF NearestPackage
<1>2. CASE above # {}
  <2>1. f \in Seq(STRING) /\ \A p \in above : p.path \in Seq(STRING)
    BY GraphAssumption
  <2>2. Len(f) \in Nat /\ \A p \in above : Len(p.path) \in Nat /\ Len(p.path) <= Len(f)
    BY <2>1, LenProperties DEF IsPrefix
  <2>3. lengths \in SUBSET (0..Len(f)) /\ lengths # {}
    <3>1. ASSUME NEW x \in lengths PROVE x \in 0..Len(f)
      <4>1. PICK p \in above : x = Len(p.path)
        OBVIOUS
      <4> QED
        BY <2>2, <4>1
    <3>2. lengths # {}
      BY <1>2
    <3> QED
      BY <3>1, <3>2
  <2>4. PICK m \in lengths : \A x \in lengths : x <= m
    BY <2>2, <2>3, LargestNumber
  <2>5. PICK p \in above : \A q \in above : Len(q.path) <= Len(p.path)
    BY <2>4
  <2> DEFINE nearest == CHOOSE q \in above : \A o \in above : Len(o.path) <= Len(q.path)
  <2>6. nearest \in above
    BY <2>5
  <2>7. NearestPackage(f) = PackageNode(nearest)
    BY <1>2 DEF NearestPackage
  <2> HIDE DEF nearest
  <2> QED
    BY <2>6, <2>7
<1> QED
  BY <1>1, <1>2

\* A dependency that is resolved is a package.
LEMMA DependencyIsNode ==
  ASSUME NEW name
  PROVE  DependencyTarget(name) \in {PackageNode(p) : p \in analysis.packages} \cup {Unresolved}
<1>1. CASE Cardinality(Named(name)) = 1
  <2>1. Named(name) # {}
    BY <1>1, FS_EmptySet
  <2>2. (CHOOSE p \in Named(name) : TRUE) \in analysis.packages
    BY <2>1 DEF Named
  <2> QED
    BY <1>1, <2>2 DEF DependencyTarget
<1>2. CASE Cardinality(Named(name)) # 1
  BY <1>2 DEF DependencyTarget
<1> QED
  BY <1>1, <1>2

\* The ends of an edge.
LEMMA EdgeEnds ==
  \A kind, from, to :
    /\ Edge(kind, from, to).kind = kind
    /\ Edge(kind, from, to).source = from
    /\ Edge(kind, from, to).target = to
BY DEF Edge

LEMMA FilePackageKeeps ==
  ASSUME GraphInv, BuildFilePackageGraph
  PROVE  GraphInv'
<1> DEFINE packages == {PackageNode(p) : p \in analysis.packages}
<1>1. /\ stage' = 1 /\ analysis' = analysis
      /\ nodes' = {Repository} \cup packages \cup {FileNode(f) : f \in analysis.files}
      /\ edges' =
           {Edge("contains", Repository, PackageNode(p)) : p \in analysis.packages}
             \cup {Edge("contains", NearestPackage(f), FileNode(f)) : f \in analysis.files}
             \cup UNION {{Edge("depends-on", PackageNode(p), DependencyTarget(d)) :
                            d \in p.dependencies} : p \in analysis.packages}
  BY DEF BuildFilePackageGraph
<1>2. ASSUME NEW e \in edges'
      PROVE  e.source \in nodes' /\ e.target \in nodes' \cup {Unresolved}
  <2>1. CASE e \in {Edge("contains", Repository, PackageNode(p)) : p \in analysis.packages}
    BY <1>1, <2>1, EdgeEnds
  <2>2. CASE e \in {Edge("contains", NearestPackage(f), FileNode(f)) : f \in analysis.files}
    <3>1. PICK f \in analysis.files : e = Edge("contains", NearestPackage(f), FileNode(f))
      BY <2>2
    <3>2. NearestPackage(f) \in {Repository} \cup packages
      BY NearestIsNode DEF GraphInv
    <3> QED
      BY <1>1, <3>1, <3>2, EdgeEnds
  <2>3. ASSUME NEW p \in analysis.packages, NEW d \in p.dependencies,
               e = Edge("depends-on", PackageNode(p), DependencyTarget(d))
        PROVE  e.source \in nodes' /\ e.target \in nodes' \cup {Unresolved}
    <3>1. DependencyTarget(d) \in packages \cup {Unresolved}
      BY DependencyIsNode
    <3> QED
      BY <1>1, <2>3, <3>1, EdgeEnds
  <2> QED
    BY <1>1, <2>1, <2>2, <2>3
<1>3. FilesThere'
  BY <1>1 DEF FilesThere
<1>4. CompleteSoFar'
  BY <1>1 DEF CompleteSoFar
<1>5. EdgesJoinNodes'
  BY <1>2 DEF EdgesJoinNodes
<1> QED
  BY <1>1, <1>3, <1>4, <1>5 DEF GraphInv

LEMMA SymbolsKeep ==
  ASSUME GraphInv, MaterializeSymbols
  PROVE  GraphInv'
<1>1. PICK placed :
        /\ placed = {s \in analysis.symbols : FileNode(s.file) \in nodes}
        /\ stage = 1 /\ stage' = 2 /\ analysis' = analysis
        /\ nodes' = nodes \cup {SymbolNode(s) : s \in placed}
        /\ edges' = edges \cup {Edge("contains", FileNode(s.file), SymbolNode(s)) : s \in placed}
        /\ diagnostics' = diagnostics \cup {<<"symbol", s>> : s \in analysis.symbols \ placed}
  BY DEF MaterializeSymbols
<1>2. EdgesJoinNodes'
  BY <1>1, EdgeEnds DEF GraphInv, EdgesJoinNodes
<1>3. FilesThere'
  BY <1>1 DEF GraphInv, FilesThere
<1>4. CompleteSoFar'
  <2>1. Complete' => analysis.symbols \subseteq placed
    BY <1>1 DEF Complete
  <2> QED
    BY <1>1, <2>1 DEF CompleteSoFar
<1> QED
  BY <1>1, <1>2, <1>3, <1>4 DEF GraphInv

\* The relations of some kinds: each has an edge or a diagnostic, and what was
\* there stays.
LEMMA RelationsKeep ==
  ASSUME GraphInv, NEW kinds, MaterializeRelations(kinds)
  PROVE  /\ analysis' = analysis /\ nodes \subseteq nodes' /\ edges \subseteq edges'
         /\ diagnostics \subseteq diagnostics' /\ tombstones' = tombstones
         /\ EdgesJoinNodes'
         /\ Complete' => \A r \in analysis.relations : r.kind \in kinds => RelationHasEdge(r)'
<1> DEFINE own(r) == r.kind = "configuration-link"
           origin(r) == IF own(r) THEN <<"configuration", r.source>> ELSE r.source
<1>1. PICK relations, placed :
        /\ relations = {r \in analysis.relations : r.kind \in kinds}
        /\ placed = {r \in relations : r.source \in nodes}
        /\ nodes' = nodes \cup {origin(r) : r \in placed}
        /\ edges' = edges \cup {Edge(r.kind, origin(r), Found(r.target)) : r \in placed}
        /\ diagnostics' = diagnostics \cup {<<"relation", r>> : r \in relations \ placed}
        /\ UNCHANGED <<analysis, tombstones, refused>>
  BY DEF MaterializeRelations
<1>2. \A n : Found(n) \in nodes \cup {Unresolved}
  BY DEF Found
<1>3. \A r : origin(r) \in {r.source, <<"configuration", r.source>>}
  OBVIOUS
<1> HIDE DEF origin
<1>4. EdgesJoinNodes'
  <2>1. ASSUME NEW e \in edges'
        PROVE  e.source \in nodes' /\ e.target \in nodes' \cup {Unresolved}
    <3>1. CASE e \in edges
      BY <1>1, <3>1 DEF GraphInv, EdgesJoinNodes
    <3>2. CASE e \notin edges
      <4>1. PICK r \in placed : e = Edge(r.kind, origin(r), Found(r.target))
        BY <1>1, <2>1, <3>2
      <4>2. e.source = origin(r) /\ e.target = Found(r.target)
        BY <4>1, EdgeEnds
      <4> QED
        BY <1>1, <1>2, <4>1, <4>2
    <3> QED
      BY <3>1, <3>2
  <2> QED
    BY <2>1 DEF EdgesJoinNodes
<1>5. ASSUME Complete', NEW r \in analysis.relations, r.kind \in kinds
      PROVE  RelationHasEdge(r)'
  <2>1. r \in placed
    <3>1. r \notin relations \ placed
      BY <1>1, <1>5 DEF Complete
    <3> QED
      BY <1>1, <1>5, <3>1
  <2>2. PICK e : e = Edge(r.kind, origin(r), Found(r.target))
    OBVIOUS
  <2>3. e \in edges' /\ e.kind = r.kind /\ e.source = origin(r)
    BY <1>1, <2>1, <2>2, EdgeEnds
  <2> QED
    BY <1>3, <2>3 DEF RelationHasEdge
<1> QED
  BY <1>1, <1>4, <1>5

LEMMA DependenciesKeep ==
  ASSUME GraphInv, MaterializeDependencies
  PROVE  GraphInv'
<1>1. stage = 2 /\ stage' = 3 /\ MaterializeRelations(Dependency)
  BY DEF MaterializeDependencies, Dependency
<1>2. /\ analysis' = analysis /\ nodes \subseteq nodes' /\ edges \subseteq edges'
      /\ diagnostics \subseteq diagnostics' /\ tombstones' = tombstones
      /\ EdgesJoinNodes'
      /\ Complete' => \A r \in analysis.relations : r.kind \in Dependency => RelationHasEdge(r)'
  BY <1>1, RelationsKeep
<1>3. FilesThere'
  BY <1>1, <1>2 DEF GraphInv, FilesThere
<1>4. Complete' => Complete
  BY <1>2 DEF Complete
<1>5. CompleteSoFar'
  BY <1>1, <1>2, <1>4 DEF GraphInv, CompleteSoFar
<1> QED
  BY <1>1, <1>2, <1>3, <1>5 DEF GraphInv

LEMMA DomainKeeps ==
  ASSUME GraphInv, MaterializeDomain
  PROVE  GraphInv'
<1>1. stage = 3 /\ stage' = 4 /\ MaterializeRelations(Domain)
  BY DEF MaterializeDomain, Domain
<1>2. /\ analysis' = analysis /\ nodes \subseteq nodes' /\ edges \subseteq edges'
      /\ diagnostics \subseteq diagnostics' /\ tombstones' = tombstones
      /\ EdgesJoinNodes'
      /\ Complete' => \A r \in analysis.relations : r.kind \in Domain => RelationHasEdge(r)'
  BY <1>1, RelationsKeep
<1>3. FilesThere'
  BY <1>1, <1>2 DEF GraphInv, FilesThere
<1>4. Complete' => Complete
  BY <1>2 DEF Complete
<1>5. \A r : RelationHasEdge(r) => RelationHasEdge(r)'
  BY <1>2 DEF RelationHasEdge
<1>6. CompleteSoFar'
  BY <1>1, <1>2, <1>4, <1>5 DEF GraphInv, CompleteSoFar
<1> QED
  BY <1>1, <1>2, <1>3, <1>6 DEF GraphInv

LEMMA LifecycleKeeps ==
  ASSUME GraphInv, MaterializeLifecycle
  PROVE  GraphInv'
<1> DEFINE peers(c) == {f \in c.changedWith : FileNode(f) \in nodes}
<1>1. PICK known, modifies, introduced, together, missing :
        /\ known = {c \in analysis.changes : FileNode(c.path) \in nodes}
        /\ modifies = {Edge("modifies", ChangeNode(c), FileNode(c.path)) : c \in known}
        /\ introduced = {Edge("introduced-by", FileNode(c.path), ChangeNode(c)) :
                           c \in {d \in known : d.introduced}}
        /\ together = UNION {{Edge("changed-with", FileNode(c.path), FileNode(f)) : f \in peers(c)}
                               : c \in known}
        /\ missing = {<<"changed file", c.path>> : c \in analysis.changes \ known}
        /\ stage = 4 /\ stage' = 5
        /\ nodes' = nodes \cup {ChangeNode(c) : c \in known}
        /\ edges' = edges \cup modifies \cup introduced \cup together
        /\ diagnostics' = diagnostics \cup missing
             \cup (IF analysis.history = "complete" THEN {} ELSE {<<"history">>})
        /\ UNCHANGED <<analysis, tombstones, refused>>
  BY DEF MaterializeLifecycle
<1> HIDE DEF peers
<1>2. stage = 4 /\ stage' = 5 /\ analysis' = analysis /\ tombstones' = tombstones
      /\ edges' = edges \cup modifies \cup introduced \cup together
  BY <1>1
<1>3. \A c \in known : FileNode(c.path) \in nodes /\ ChangeNode(c) \in nodes'
  BY <1>1
<1>4. nodes \subseteq nodes' /\ edges \subseteq edges' /\ diagnostics \subseteq diagnostics'
  BY <1>1
<1>5. ASSUME NEW e \in edges'
      PROVE  e.source \in nodes' /\ e.target \in nodes' \cup {Unresolved}
  <2>1. CASE e \in edges
    BY <1>4, <2>1 DEF GraphInv, EdgesJoinNodes
  <2>2. CASE e \in modifies
    <3>1. PICK c \in known : e = Edge("modifies", ChangeNode(c), FileNode(c.path))
      BY <1>1, <2>2
    <3> QED
      BY <1>4, <1>3, <3>1, EdgeEnds
  <2>3. CASE e \in introduced
    <3>1. PICK c \in known : e = Edge("introduced-by", FileNode(c.path), ChangeNode(c))
      BY <1>1, <2>3
    <3> QED
      BY <1>4, <1>3, <3>1, EdgeEnds
  <2>4. CASE e \in together
    <3>1. PICK c \in known :
            e \in {Edge("changed-with", FileNode(c.path), FileNode(f)) : f \in peers(c)}
      BY <1>1, <2>4
    <3>2. PICK f \in peers(c) : e = Edge("changed-with", FileNode(c.path), FileNode(f))
      BY <3>1
    <3>3. FileNode(f) \in nodes
      BY DEF peers
    <3> QED
      BY <1>4, <1>3, <3>2, <3>3, EdgeEnds
  <2> QED
    BY <1>2, <2>1, <2>2, <2>3, <2>4
<1>6. FilesThere'
  BY <1>4, <1>2 DEF GraphInv, FilesThere
<1>7. Complete' => Complete /\ analysis.changes \subseteq known
  <2>1. Complete' => Complete
    BY <1>4 DEF Complete
  <2>2. Complete' => missing = {}
    BY <1>1 DEF Complete
  <2>3. missing = {} => analysis.changes \ known = {}
    BY <1>1
  <2> QED
    BY <2>1, <2>2, <2>3
<1>8. \A r : RelationHasEdge(r) => RelationHasEdge(r)'
  BY <1>4 DEF RelationHasEdge
<1>9. CompleteSoFar'
  BY <1>4, <1>7, <1>8, <1>2, <1>3 DEF GraphInv, CompleteSoFar
<1>10. EdgesJoinNodes'
  BY <1>5 DEF EdgesJoinNodes
<1> QED
  BY <1>2, <1>6, <1>9, <1>10 DEF GraphInv

\* A transaction that would leave an edge without its nodes is refused.
LEMMA TransactionKeeps ==
  ASSUME GraphInv, NEW deleteNodes, NEW deleteEdges, NEW replaceNodes, NEW replaceEdges,
         ApplyTransaction(deleteNodes, deleteEdges, replaceNodes, replaceEdges)
  PROVE  GraphInv'
<1> DEFINE gone == deleteEdges \cup Incident(deleteNodes)
           newNodes == (nodes \ deleteNodes) \cup replaceNodes
           newEdges == (edges \ gone) \cup replaceEdges
           dangles == \E e \in newEdges : e.source \notin newNodes
                                            \/ e.target \notin newNodes \cup {Unresolved}
<1>1. /\ stage \in 5..(4 + Transactions) /\ stage' = stage + 1
      /\ IF dangles
         THEN refused' = refused + 1 /\ UNCHANGED <<nodes, edges, tombstones>>
         ELSE /\ nodes' = newNodes /\ edges' = newEdges
              /\ tombstones' = tombstones \cup {NodeTombstone(n) : n \in deleteNodes}
                                 \cup {EdgeTombstone(e) : e \in gone}
              /\ UNCHANGED refused
      /\ UNCHANGED <<analysis, diagnostics>>
  BY DEF ApplyTransaction
<1>6. nodes \ deleteNodes \subseteq newNodes
  OBVIOUS
<1> HIDE DEF gone, newNodes, newEdges
<1>2. stage \in Nat /\ stage >= 5 /\ stage' \in Nat /\ stage' > 5
  BY <1>1, GraphAssumption DEF GraphInv
<1>3. EdgesJoinNodes'
  BY <1>1 DEF GraphInv, EdgesJoinNodes
<1>4. FilesThere'
  <2>1. ASSUME NEW f \in analysis.files
        PROVE  FileNode(f) \in nodes' \/ NodeTombstone(FileNode(f)) \in tombstones'
    <3>1. FileNode(f) \in nodes \/ NodeTombstone(FileNode(f)) \in tombstones
      BY <1>2 DEF GraphInv, FilesThere
    <3> QED
      BY <1>1, <1>6, <3>1
  <2> QED
    BY <1>1, <1>2, <2>1 DEF FilesThere
<1>5. CompleteSoFar'
  BY <1>2 DEF CompleteSoFar
<1> QED
  BY <1>1, <1>2, <1>3, <1>4, <1>5 DEF GraphInv

LEMMA GraphNextKeeps ==
  ASSUME GraphInv, [GraphNext]_graphVars
  PROVE  GraphInv'
<1>1. CASE UNCHANGED graphVars
  BY <1>1 DEF graphVars, GraphInv, EdgesJoinNodes, FilesThere, CompleteSoFar, Complete,
              RelationHasEdge
<1>2. CASE GraphNext
  BY <1>2, FilePackageKeeps, SymbolsKeep, DependenciesKeep, DomainKeeps, LifecycleKeeps,
     TransactionKeeps DEF GraphNext
<1> QED
  BY <1>1, <1>2

LEMMA InvGivesClosed ==
  ASSUME GraphInv
  PROVE  GraphClosed
<1>1. \A r \in analysis.relations : r.kind \in Dependency \cup Domain
  BY GraphAssumption DEF GraphInv, Dependency, Domain
<1>2. EdgesJoinNodes /\ FilesThere /\ CompleteSoFar /\ stage \in Nat
  BY DEF GraphInv
<1>3. stage = 5 /\ Complete =>
        /\ {SymbolNode(s) : s \in analysis.symbols} \subseteq nodes
        /\ \A r \in analysis.relations : RelationHasEdge(r)
        /\ \A c \in analysis.changes : FileNode(c.path) \in nodes
  BY <1>1, <1>2 DEF CompleteSoFar
<1> QED
  BY <1>2, <1>3 DEF GraphClosed, EdgesJoinNodes, FilesThere, RelationHasEdge

-----------------------------------------------------------------------------
(* The theorem about the graph store.                                       *)

\* What the pipeline does to the graph is the steps of the graph store.
LEMMA GraphSteps == [PipelineNext]_pipelineVars => [GraphNext]_graphVars
BY DEF PipelineNext, pipelineVars

\* No edge dangles and nothing goes without a tombstone, whatever the analysis
\* has found, through any number of transactions; a graph that calls itself
\* complete has all of its analysis.
THEOREM GraphStaysClosed == PipelineSpec => []GraphClosed
<1>1. PipelineInit => GraphInv
  BY InitGraphInv DEF PipelineInit
<1>2. GraphInv /\ [PipelineNext]_pipelineVars => GraphInv'
  BY GraphSteps, GraphNextKeeps
<1> QED
  BY <1>1, <1>2, InvGivesClosed, PTL DEF PipelineSpec

-----------------------------------------------------------------------------
(* Snapshots: the comparison of two manifests.                              *)

\* What SnapshotsFaithful says of the comparison files of old and new.
Accounts(entries, old, new) ==
  /\ {e.path : e \in {f \in entries : f.kind # "deleted"}} = DOMAIN new
  /\ \A p \in DOMAIN old : Cardinality({e \in entries : e.previous = p}) = 1
  /\ \A e, f \in entries : e.path = f.path /\ e # f =>
       e.kind = "renamed" /\ f.kind = "renamed" /\ old[e.previous] = old[f.previous]
  /\ \A e \in entries : e.kind = "renamed" => old[e.previous] = new[e.path]
  /\ {e.path : e \in {f \in entries : f.kind \in {"added", "modified", "renamed"}}}
       = {p \in DOMAIN new : p \notin DOMAIN old \/ old[p] # new[p]}

LEMMA DeltaFields ==
  \A kind, path, previous :
    /\ FileDelta(kind, path, previous).kind = kind
    /\ FileDelta(kind, path, previous).path = path
    /\ FileDelta(kind, path, previous).previous = previous
BY DEF FileDelta

\* The comparison accounts for every file of both manifests.
LEMMA ComparisonAccounts ==
  ASSUME NEW old, NEW new, IsFiniteSet(DOMAIN old), IsFiniteSet(DOMAIN new),
         "none" \notin DOMAIN old
  PROVE  Accounts(Compared(old, new), old, new)
<1> DEFINE gone == DOMAIN old \ DOMAIN new
           added == DOMAIN new \ DOMAIN old
           twins(p) == Twins(old, new, p)
           renamed(p) == Cardinality(twins(p)) = 1
           twin(p) == CHOOSE q \in twins(p) : TRUE
           targets == UNION {twins(p) : p \in {q \in gone : renamed(q)}}
           entries == Compared(old, new)
<1>1. \A p : twins(p) = {q \in added : new[q] = old[p]}
  BY DEF Twins
<1>2. entries =
        {IF renamed(p) THEN FileDelta("renamed", twin(p), p)
         ELSE FileDelta("deleted", p, p) : p \in gone}
          \cup {FileDelta("added", p, "none") : p \in added \ targets}
          \cup {FileDelta(IF old[p] = new[p] THEN "unchanged" ELSE "modified", p, p) :
                  p \in DOMAIN old \cap DOMAIN new}
  BY DEF Compared
<1>3. ASSUME NEW p \in gone, renamed(p)
      PROVE  twins(p) = {twin(p)} /\ twin(p) \in added /\ new[twin(p)] = old[p]
  <2>1. IsFiniteSet(twins(p))
    <3>1. twins(p) \in SUBSET (DOMAIN new)
      BY <1>1
    <3> QED
      BY <3>1, FS_Subset
  <2>2. PICK x : twins(p) = {x}
    BY <1>3, <2>1, FS_Singleton
  <2>3. twin(p) = x
    BY <2>2
  <2> QED
    BY <1>1, <2>2, <2>3
<1>4. targets = {twin(p) : p \in {q \in gone : renamed(q)}}
  BY <1>3
<1> HIDE DEF twins, twin, targets, renamed, entries
<1> DEFINE Renamed(e) == \E p \in gone : renamed(p) /\ e = FileDelta("renamed", twin(p), p)
           Deleted(e) == \E p \in gone : ~renamed(p) /\ e = FileDelta("deleted", p, p)
           Added(e) == \E p \in added : p \notin targets /\ e = FileDelta("added", p, "none")
           Same(e) == \E p \in DOMAIN old \cap DOMAIN new :
                        e = FileDelta(IF old[p] = new[p] THEN "unchanged" ELSE "modified", p, p)
<1>5. \A e : e \in entries <=> Renamed(e) \/ Deleted(e) \/ Added(e) \/ Same(e)
  BY <1>2
<1>6. ASSUME NEW e, Renamed(e)
      PROVE  /\ e.kind = "renamed" /\ e.previous \in gone /\ renamed(e.previous)
             /\ e.path = twin(e.previous) /\ e = FileDelta("renamed", twin(e.previous), e.previous)
             /\ e.path \in added /\ e.path \in targets /\ new[e.path] = old[e.previous]
  <2>1. PICK p \in gone : renamed(p) /\ e = FileDelta("renamed", twin(p), p)
    BY <1>6
  <2>2. e.kind = "renamed" /\ e.previous = p /\ e.path = twin(p)
    BY <2>1, DeltaFields
  <2> QED
    BY <1>3, <1>4, <2>1, <2>2
<1>7. ASSUME NEW e, Deleted(e)
      PROVE  /\ e.kind = "deleted" /\ e.path = e.previous /\ e.path \in gone
             /\ ~renamed(e.path) /\ e = FileDelta("deleted", e.path, e.path)
  <2>1. PICK p \in gone : ~renamed(p) /\ e = FileDelta("deleted", p, p)
    BY <1>7
  <2>2. e.kind = "deleted" /\ e.previous = p /\ e.path = p
    BY <2>1, DeltaFields
  <2> QED
    BY <2>1, <2>2
<1>8. ASSUME NEW e, Added(e)
      PROVE  /\ e.kind = "added" /\ e.previous = "none" /\ e.path \in added
             /\ e.path \notin targets /\ e = FileDelta("added", e.path, "none")
  <2>1. PICK p \in added : p \notin targets /\ e = FileDelta("added", p, "none")
    BY <1>8
  <2>2. e.kind = "added" /\ e.previous = "none" /\ e.path = p
    BY <2>1, DeltaFields
  <2> QED
    BY <2>1, <2>2
<1>9. ASSUME NEW e, Same(e)
      PROVE  /\ e.kind = (IF old[e.path] = new[e.path] THEN "unchanged" ELSE "modified")
             /\ e.path = e.previous /\ e.path \in DOMAIN old \cap DOMAIN new
             /\ e = FileDelta(IF old[e.path] = new[e.path] THEN "unchanged" ELSE "modified",
                              e.path, e.path)
  <2>1. PICK p \in DOMAIN old \cap DOMAIN new :
          e = FileDelta(IF old[p] = new[p] THEN "unchanged" ELSE "modified", p, p)
    BY <1>9
  <2>2. e.kind = (IF old[p] = new[p] THEN "unchanged" ELSE "modified")
        /\ e.previous = p /\ e.path = p
    BY <2>1, DeltaFields
  <2> QED
    BY <2>1, <2>2
<1>10. ASSUME NEW p \in DOMAIN new
       PROVE  \E e \in entries : /\ e.path = p
                               /\ IF p \notin DOMAIN old THEN e.kind \in {"added", "renamed"}
                                  ELSE IF old[p] # new[p] THEN e.kind = "modified"
                                  ELSE e.kind = "unchanged"
  <2>1. CASE p \in DOMAIN old
    <3>1. PICK e : e = FileDelta(IF old[p] = new[p] THEN "unchanged" ELSE "modified", p, p)
      OBVIOUS
    <3>2. Same(e)
      BY <2>1, <3>1
    <3>3. e.path = p /\ e.kind = (IF old[p] = new[p] THEN "unchanged" ELSE "modified")
      BY <3>1, DeltaFields
    <3> QED
      BY <1>5, <2>1, <3>2, <3>3
  <2>2. CASE p \in targets
    <3>1. PICK q \in gone : renamed(q) /\ p = twin(q)
      BY <1>4, <2>2
    <3>2. PICK e : e = FileDelta("renamed", twin(q), q)
      OBVIOUS
    <3>3. Renamed(e)
      BY <3>1, <3>2
    <3>4. e.path = p /\ e.kind = "renamed" /\ p \in added
      BY <1>6, <3>1, <3>2, <3>3, DeltaFields
    <3> QED
      BY <1>5, <3>3, <3>4
  <2>3. CASE p \notin DOMAIN old /\ p \notin targets
    <3>1. PICK e : e = FileDelta("added", p, "none")
      OBVIOUS
    <3>2. Added(e)
      BY <2>3, <3>1
    <3>3. e.path = p /\ e.kind = "added"
      BY <3>1, DeltaFields
    <3> QED
      BY <1>5, <2>3, <3>2, <3>3
  <2> QED
    BY <2>1, <2>2, <2>3
<1> HIDE DEF Renamed, Deleted, Added, Same
<1>11. {e.path : e \in {f \in entries : f.kind # "deleted"}} = DOMAIN new
  <2>1. ASSUME NEW e \in entries, e.kind # "deleted" PROVE e.path \in DOMAIN new
    BY <1>5, <1>6, <1>7, <1>8, <1>9, <2>1
  <2>2. ASSUME NEW p \in DOMAIN new PROVE \E e \in entries : e.kind # "deleted" /\ e.path = p
    BY <1>10
  <2> QED
    BY <2>1, <2>2
<1>12. ASSUME NEW p \in DOMAIN old
       PROVE  Cardinality({e \in entries : e.previous = p}) = 1
  <2>1. PICK e : e = IF p \in gone
                     THEN IF renamed(p) THEN FileDelta("renamed", twin(p), p)
                          ELSE FileDelta("deleted", p, p)
                     ELSE FileDelta(IF old[p] = new[p] THEN "unchanged" ELSE "modified", p, p)
    OBVIOUS
  <2>2. e \in entries
    <3>1. CASE p \in gone /\ renamed(p)
      BY <1>5, <2>1, <3>1 DEF Renamed
    <3>2. CASE p \in gone /\ ~renamed(p)
      BY <1>5, <2>1, <3>2 DEF Deleted
    <3>3. CASE p \notin gone
      BY <1>5, <2>1, <3>3 DEF Same
    <3> QED
      BY <3>1, <3>2, <3>3
  <2>3. e.previous = p
    BY <2>1, DeltaFields
  <2>4. ASSUME NEW f \in entries, f.previous = p PROVE f = e
    <3>1. ~Added(f)
      BY <1>8, <2>4
    <3>2. CASE Renamed(f)
      BY <1>6, <2>1, <2>4, <3>2
    <3>3. CASE Deleted(f)
      BY <1>7, <2>1, <2>4, <3>3
    <3>4. CASE Same(f)
      BY <1>9, <2>1, <2>4, <3>4
    <3> QED
      BY <1>5, <3>1, <3>2, <3>3, <3>4
  <2>5. {f \in entries : f.previous = p} = {e}
    BY <2>2, <2>3, <2>4
  <2> QED
    BY <2>5, FS_Singleton
<1>13. ASSUME NEW e \in entries, NEW f \in entries, e.path = f.path, e # f
       PROVE  e.kind = "renamed" /\ f.kind = "renamed" /\ old[e.previous] = old[f.previous]
  <2>1. CASE Renamed(e) /\ Renamed(f)
    BY <1>6, <1>13, <2>1
  <2>2. CASE Deleted(e) \/ Deleted(f)
    BY <1>5, <1>6, <1>7, <1>8, <1>9, <1>13, <2>2
  <2>3. CASE Added(e) \/ Added(f)
    BY <1>5, <1>6, <1>7, <1>8, <1>9, <1>13, <2>3
  <2>4. CASE Same(e) \/ Same(f)
    BY <1>5, <1>6, <1>7, <1>8, <1>9, <1>13, <2>4
  <2> QED
    BY <1>5, <2>1, <2>2, <2>3, <2>4
<1>14. ASSUME NEW e \in entries, e.kind = "renamed"
       PROVE  old[e.previous] = new[e.path]
  BY <1>5, <1>6, <1>7, <1>8, <1>9, <1>14
<1>15. {e.path : e \in {f \in entries : f.kind \in {"added", "modified", "renamed"}}}
         = {p \in DOMAIN new : p \notin DOMAIN old \/ old[p] # new[p]}
  <2>1. ASSUME NEW e \in entries, e.kind \in {"added", "modified", "renamed"}
        PROVE  e.path \in DOMAIN new /\ (e.path \notin DOMAIN old \/ old[e.path] # new[e.path])
    BY <1>5, <1>6, <1>7, <1>8, <1>9, <2>1
  <2>2. ASSUME NEW p \in DOMAIN new, p \notin DOMAIN old \/ old[p] # new[p]
        PROVE  \E e \in entries : e.kind \in {"added", "modified", "renamed"} /\ e.path = p
    BY <1>10, <2>2
  <2> QED
    BY <2>1, <2>2
<1> QED
  BY <1>11, <1>12, <1>13, <1>14, <1>15 DEF Accounts, entries

-----------------------------------------------------------------------------
(* Snapshots: the inductive invariant.                                      *)

SaverType ==
  [step : {"idle", "write", "rename", "saved", "failed", "dead"},
   snapshot : Manifests \cup {Idle.snapshot}, inode : Inodes \cup {Absent}, saves : 0..2]

SavesTyped == saver \in [Savers -> SaverType] /\ SnapshotTypeOK

\* The inode holds the content of m, or will.
Has(m, i) ==
  \/ temporary[m] = i \/ published[m] = i
  \/ \E s \in Savers : Saving(s) /\ saver[s].snapshot = m /\ saver[s].inode = i

\* No inode stands for two snapshots, or for both names of one.
InodesApart ==
  /\ \A m, n \in Manifests, i \in Inodes : Has(m, i) /\ Has(n, i) => m = n
  /\ \A m \in Manifests : temporary[m] # Absent => temporary[m] # published[m]

\* What a saver works on, and that the only saver of a snapshot writes what its
\* rename will publish.
SaversKnow ==
  \A s \in Savers :
    /\ Saving(s) => saver[s].snapshot \in Manifests /\ saver[s].inode \in Inodes
    /\ saver[s].step = "saved" => saver[s].snapshot \in Manifests /\ Published(saver[s].snapshot)

SaversAlone ==
  \A s \in Savers :
    Saving(s) /\ saver[s].snapshot \notin raced =>
      /\ temporary[saver[s].snapshot] = saver[s].inode
      /\ saver[s].step = "rename" => saver[s].inode \in whole
      /\ \A t \in Savers : Saving(t) /\ saver[t].snapshot = saver[s].snapshot => t = s

PublishedWhole == \A m \in Manifests : Published(m) => Readable(m) \/ m \in raced

\* Each inode in use was taken by a save of its own, so while a process may
\* still save there is an inode for it.
Held == {i \in Inodes : \E m \in Manifests : Has(m, i)}
Tickets == {t \in Savers \X (1..2) : t[2] <= saver[t[1]].saves}
InodesTaken ==
  \E taken \in [Held -> Tickets] : \A i, j \in Held : taken[i] = taken[j] => i = j

DeltaCompares ==
  \/ delta = NoDelta
  \/ \E m, n \in Manifests :
       delta = [before |-> m, after |-> n, files |-> Compared(m.files, n.files),
                complete |-> m.complete /\ n.complete]

SnapshotInv ==
  /\ SavesTyped /\ InodesApart /\ SaversKnow /\ SaversAlone /\ PublishedWhole /\ InodesTaken
  /\ DeltaCompares

LEMMA InodeNumbers ==
  /\ Cardinality(Savers) \in Nat /\ Inodes = 1..(2 * Cardinality(Savers))
  /\ Inodes \subseteq Nat /\ Absent \notin Inodes
<1>1. Cardinality(Savers) \in Nat
  BY SnapshotAssumption, FS_CardinalityType
<1> QED
  BY <1>1 DEF Inodes, Absent

LEMMA InitSnapshotInv == SnapshotInit => SnapshotInv
<1> SUFFICES ASSUME SnapshotInit PROVE SnapshotInv
  OBVIOUS
<1>1. /\ saver = [s \in Savers |-> Idle] /\ whole = {} /\ raced = {} /\ delta = NoDelta
      /\ temporary = [m \in Manifests |-> Absent] /\ published = [m \in Manifests |-> Absent]
  BY DEF SnapshotInit
<1>2. Idle.step = "idle" /\ Idle \in SaverType
  BY DEF Idle, SaverType
<1>3. \A s \in Savers : ~Saving(s) /\ saver[s].step = "idle"
  BY <1>1, <1>2 DEF Saving
<1>4. SavesTyped
  BY <1>1, <1>2, <1>3 DEF SavesTyped, SnapshotTypeOK
<1>5. \A m \in Manifests, i \in Inodes : ~Has(m, i)
  BY <1>1, <1>3, InodeNumbers DEF Has
<1>6. InodesApart /\ PublishedWhole
  BY <1>1, <1>5 DEF InodesApart, PublishedWhole, Published
<1>7. SaversKnow /\ SaversAlone
  BY <1>3 DEF SaversKnow, SaversAlone
<1>8. InodesTaken
  <2>1. Held = {}
    BY <1>5 DEF Held
  <2>2. [h \in Held |-> h] \in [Held -> Tickets]
    BY <2>1
  <2> QED
    BY <2>1, <2>2 DEF InodesTaken
<1> QED
  BY <1>1, <1>4, <1>6, <1>7, <1>8 DEF SnapshotInv, DeltaCompares

\* A step that uses no new inode takes none.
LEMMA FewerHeld ==
  ASSUME InodesTaken, Held' \subseteq Held, Tickets \subseteq Tickets'
  PROVE  InodesTaken'
<1>1. PICK taken \in [Held -> Tickets] : \A i, j \in Held : taken[i] = taken[j] => i = j
  BY DEF InodesTaken
<1>2. PICK rest : rest = [h \in Held' |-> taken[h]]
  OBVIOUS
<1>3. rest \in [Held' -> Tickets']
  BY <1>1, <1>2
<1>4. \A i, j \in Held' : rest[i] = rest[j] => i = j
  BY <1>1, <1>2
<1> QED
  BY <1>3, <1>4 DEF InodesTaken

\* A process that has a save left finds an inode.
LEMMA InodeLeft ==
  ASSUME SnapshotInv, NEW s \in Savers, saver[s].saves < 2
  PROVE  Inodes \ Held # {}
<1> DEFINE N == Cardinality(Savers)
           All == Savers \X (1..2)
           next == <<s, saver[s].saves + 1>>
<1>1. saver[s].saves \in 0..2
  BY DEF SnapshotInv, SavesTyped, SaverType
<1>2. N \in Nat /\ Inodes = 1..(2 * N)
  BY InodeNumbers
<1> HIDE DEF N
<1>3. IsFiniteSet(All) /\ Cardinality(All) = N * 2
  <2>1. IsFiniteSet(1..2) /\ Cardinality(1..2) = 2
    <3>1. IsFiniteSet(1..2) /\ Cardinality(1..2) = IF 1 > 2 THEN 0 ELSE 2 - 1 + 1
      <4>1. 1 \in Int /\ 2 \in Int
        OBVIOUS
      <4> QED
        BY ONLY <4>1, FS_Interval
    <3> QED
      BY <3>1
  <2> QED
    BY <2>1, FS_Product, SnapshotAssumption DEF N
<1>4. next \in All
  BY <1>1
<1>5. next \notin Tickets
  BY <1>1 DEF Tickets
<1>6. Tickets \in SUBSET (All \ {next})
  BY <1>5 DEF Tickets
<1> HIDE DEF All, next
<1>7. IsFiniteSet(All \ {next}) /\ Cardinality(All \ {next}) = N * 2 - 1
  BY <1>3, <1>4, FS_RemoveElement
<1>8. IsFiniteSet(Tickets) /\ Cardinality(Tickets) <= N * 2 - 1
  BY <1>6, <1>7, FS_Subset
<1>9. IsFiniteSet(Inodes) /\ Cardinality(Inodes) = 2 * N
  <2>1. 1 \in Int /\ 2 * N \in Int /\ 2 * N >= 0
    BY <1>2
  <2>2. IsFiniteSet(1..(2 * N)) /\ Cardinality(1..(2 * N)) = IF 1 > 2 * N THEN 0 ELSE 2 * N - 1 + 1
    BY <2>1, FS_Interval
  <2> QED
    BY <1>2, <2>1, <2>2
<1>10. Cardinality(Tickets) < Cardinality(Inodes)
  <2>1. Cardinality(Tickets) \in Nat
    BY <1>8, FS_CardinalityType
  <2> QED
    BY <1>2, <1>8, <1>9, <2>1
<1>11. ASSUME Inodes = Held PROVE FALSE
  <2>1. PICK taken \in [Held -> Tickets] : \A i, j \in Held : taken[i] = taken[j] => i = j
    BY DEF SnapshotInv, InodesTaken
  <2>2. taken \in [Inodes -> Tickets]
    BY <1>11, <2>1
  <2>3. \E i, j \in Inodes : i # j /\ taken[i] = taken[j]
    BY <1>8, <1>9, <1>10, <2>2, FS_PigeonHole
  <2> QED
    BY <1>11, <2>1, <2>3
<1>12. Held \subseteq Inodes
  BY DEF Held
<1> QED
  BY <1>11, <1>12

LEMMA UnusedIsFree ==
  ASSUME SnapshotInv
  PROVE  Unused = Inodes \ Held
<1>1. \A s \in Savers : Saving(s) => saver[s].snapshot \in Manifests
  BY DEF SnapshotInv, SaversKnow
<1> QED
  BY <1>1 DEF Unused, Held, Has

LEMMA CreateSnapshotKeeps ==
  ASSUME SnapshotInv, NEW s \in Savers, NEW m \in Manifests, CreateSnapshot(s, m)
  PROVE  SnapshotInv'
<1> DEFINE inode == IF temporary[m] # Absent THEN temporary[m]
                    ELSE CHOOSE x \in Unused : \A other \in Unused : x <= other
<1>0. /\ saver' = [saver EXCEPT ![s] = [step |-> "write", snapshot |-> m, inode |-> inode,
                                        saves |-> @.saves + 1]]
      /\ temporary' = [temporary EXCEPT ![m] = inode]
      /\ whole' = whole \ {inode}
  BY DEF CreateSnapshot
<1> HIDE DEF inode
<1>1. PICK i :
        /\ i = inode
        /\ saver' = [saver EXCEPT ![s] = [step |-> "write", snapshot |-> m, inode |-> i,
                                          saves |-> @.saves + 1]]
        /\ temporary' = [temporary EXCEPT ![m] = i]
        /\ whole' = whole \ {i}
  BY <1>0
<1>2. /\ saver[s].step \in {"idle", "saved", "failed"} /\ saver[s].saves < 2
      /\ raced' = IF \E t \in Savers : Saving(t) /\ saver[t].snapshot = m
                  THEN raced \cup {m} ELSE raced
      /\ published' = published /\ delta' = delta
  BY DEF CreateSnapshot
<1>3. /\ SavesTyped /\ InodesApart /\ SaversKnow /\ SaversAlone /\ PublishedWhole /\ InodesTaken
      /\ DeltaCompares
  BY DEF SnapshotInv
<1>4. /\ saver \in [Savers -> SaverType] /\ temporary \in [Manifests -> Inodes \cup {Absent}]
      /\ published \in [Manifests -> Inodes \cup {Absent}] /\ whole \subseteq Inodes
      /\ raced \subseteq Manifests /\ saver[s].saves \in 0..1
  BY <1>2, <1>3 DEF SavesTyped, SnapshotTypeOK, SaverType
\* the inode
<1>5. i \in Inodes /\ (temporary[m] = Absent => i \notin Held)
  <2>1. CASE temporary[m] # Absent
    BY <1>1, <1>4, <2>1 DEF inode
  <2>2. CASE temporary[m] = Absent
    <3>1. Unused = Inodes \ Held /\ Inodes \ Held # {}
      BY <1>2, InodeLeft, UnusedIsFree
    <3>2. Unused \in SUBSET Nat
      BY <3>1, InodeNumbers
    <3>3. \E x \in Unused : \A other \in Unused : x <= other
      BY <3>1, <3>2, LeastNumber
    <3>4. i \in Unused
      BY <1>1, <2>2, <3>3 DEF inode
    <3> QED
      BY <3>1, <3>4
  <2> QED
    BY <2>1, <2>2
<1>6. \A n \in Manifests : Has(n, i) => n = m /\ temporary[m] = i
  <2>1. CASE temporary[m] # Absent
    <3>1. temporary[m] = i /\ Has(m, i)
      BY <1>1, <2>1 DEF Has, inode
    <3> QED
      BY <1>3, <1>5, <3>1 DEF InodesApart
  <2>2. CASE temporary[m] = Absent
    BY <1>5, <2>2 DEF Held
  <2> QED
    BY <2>1, <2>2
<1>7. \A n \in Manifests : published[n] # i
  <2>1. ASSUME NEW n \in Manifests, published[n] = i PROVE FALSE
    <3>1. n = m /\ temporary[m] = i
      BY <1>6, <2>1 DEF Has
    <3> QED
      BY <1>3, <1>5, <2>1, <3>1, InodeNumbers DEF InodesApart
  <2> QED
    BY <2>1
\* the savers
<1>8. /\ saver'[s].step = "write" /\ saver'[s].snapshot = m /\ saver'[s].inode = i
      /\ saver'[s].saves = saver[s].saves + 1
      /\ \A t \in Savers \ {s} : saver'[t] = saver[t]
      /\ \A n \in Manifests \ {m} : temporary'[n] = temporary[n]
      /\ temporary'[m] = i
  BY <1>1, <1>4
<1>9. /\ Saving(s)' /\ ~Saving(s) /\ \A t \in Savers \ {s} : Saving(t)' <=> Saving(t)
  BY <1>2, <1>8 DEF Saving
<1>10. ASSUME NEW n \in Manifests, NEW j \in Inodes, Has(n, j)'
       PROVE  Has(n, j) \/ (n = m /\ j = i)
  <2>1. CASE temporary'[n] = j
    BY <1>8, <2>1 DEF Has
  <2>2. CASE published'[n] = j
    BY <1>2, <2>2 DEF Has
  <2>3. ASSUME NEW t \in Savers, Saving(t)', saver'[t].snapshot = n, saver'[t].inode = j
        PROVE  Has(n, j) \/ (n = m /\ j = i)
    BY <1>8, <1>9, <2>3 DEF Has
  <2> QED
    BY <1>10, <2>1, <2>2, <2>3 DEF Has
<1>11. SavesTyped'
  <2>1. [step |-> "write", snapshot |-> m, inode |-> i, saves |-> saver[s].saves + 1] \in SaverType
    BY <1>4, <1>5 DEF SaverType
  <2>2. saver' \in [Savers -> SaverType]
    BY <1>1, <1>4, <2>1
  <2>3. temporary' \in [Manifests -> Inodes \cup {Absent}]
    BY <1>1, <1>4, <1>5
  <2>4. \A t \in Savers :
          saver'[t].step \in {"idle", "write", "rename", "saved", "failed", "dead"}
    BY <2>2 DEF SaverType
  <2> QED
    BY <1>1, <1>2, <1>4, <2>2, <2>3, <2>4 DEF SavesTyped, SnapshotTypeOK
<1>12. InodesApart'
  <2>1. \A n, o \in Manifests, j \in Inodes : Has(n, j)' /\ Has(o, j)' => n = o
    BY <1>3, <1>6, <1>10 DEF InodesApart
  <2>2. \A n \in Manifests : temporary'[n] # Absent => temporary'[n] # published'[n]
    BY <1>2, <1>3, <1>7, <1>8 DEF InodesApart
  <2> QED
    BY <2>1, <2>2 DEF InodesApart
<1>13. SaversKnow'
  <2>1. ASSUME NEW t \in Savers
        PROVE  /\ Saving(t)' => saver'[t].snapshot \in Manifests /\ saver'[t].inode \in Inodes
               /\ saver'[t].step = "saved" =>
                    saver'[t].snapshot \in Manifests /\ published'[saver'[t].snapshot] # Absent
    BY <1>2, <1>3, <1>5, <1>8, <1>9 DEF SaversKnow, Published
  <2> QED
    BY <2>1 DEF SaversKnow, Published
<1>14. SaversAlone'
  <2>1. ASSUME NEW t \in Savers, Saving(t)', saver'[t].snapshot \notin raced'
        PROVE  /\ temporary'[saver'[t].snapshot] = saver'[t].inode
               /\ saver'[t].step = "rename" => saver'[t].inode \in whole'
               /\ \A u \in Savers : Saving(u)' /\ saver'[u].snapshot = saver'[t].snapshot => u = t
    <3>1. CASE t = s
      <4>1. m \notin raced'
        BY <1>8, <2>1, <3>1
      <4>2. \A u \in Savers : ~(Saving(u) /\ saver[u].snapshot = m)
        BY <1>2, <4>1
      <4> QED
        BY <1>8, <1>9, <3>1, <4>2
    <3>2. CASE t # s
      <4>1. PICK n : n = saver[t].snapshot
        OBVIOUS
      <4>2. saver'[t] = saver[t] /\ Saving(t) /\ n \in Manifests /\ saver[t].inode \in Inodes
        BY <1>3, <1>8, <1>9, <2>1, <3>2, <4>1 DEF SaversKnow
      <4>3. n \notin raced /\ n # m
        BY <1>2, <2>1, <4>1, <4>2
      <4>4. /\ temporary[n] = saver[t].inode
            /\ saver[t].step = "rename" => saver[t].inode \in whole
            /\ \A u \in Savers : Saving(u) /\ saver[u].snapshot = n => u = t
        BY <1>3, <4>1, <4>2, <4>3 DEF SaversAlone
      <4>5. saver[t].inode # i
        BY <1>6, <4>2, <4>3, <4>4 DEF Has
      <4>6. saver'[t].snapshot = n /\ temporary'[n] = saver'[t].inode
        BY <1>4, <1>8, <4>1, <4>2, <4>3, <4>4
      <4>7. saver'[t].step = "rename" => saver'[t].inode \in whole'
        <5>1. saver'[t] = saver[t]
          BY <4>2
        <5>2. ASSUME saver[t].step = "rename" PROVE saver[t].inode \in whole'
          BY <1>1, <4>4, <4>5, <5>2
        <5> QED
          BY <5>1, <5>2
      <4>8. \A u \in Savers : Saving(u)' /\ saver'[u].snapshot = n => u = t
        BY <1>8, <1>9, <4>3, <4>4
      <4> QED
        BY <4>6, <4>7, <4>8
    <3> QED
      BY <3>1, <3>2
  <2> QED
    BY <2>1 DEF SaversAlone
<1>15. PublishedWhole'
  <2>1. raced \subseteq raced'
    BY <1>2
  <2> QED
    BY <1>1, <1>2, <1>3, <1>7, <2>1 DEF PublishedWhole, Published, Readable
<1>16. Tickets' = Tickets \cup {<<s, saver[s].saves + 1>>} /\ Tickets \subseteq Tickets'
  <2>1. \A t \in Savers \X (1..2) :
          t[2] <= saver'[t[1]].saves <=> t[2] <= saver[t[1]].saves \/ t = <<s, saver[s].saves + 1>>
    <3>1. ASSUME NEW u \in Savers, NEW k \in 1..2
          PROVE  k <= saver'[u].saves <=> k <= saver[u].saves \/ <<u, k>> = <<s, saver[s].saves + 1>>
      <4>1. CASE u # s
        BY <1>8, <4>1
      <4>2. CASE u = s
        BY <1>4, <1>8, <4>2
      <4> QED
        BY <4>1, <4>2
    <3> QED
      BY <3>1
  <2>2. <<s, saver[s].saves + 1>> \in Savers \X (1..2)
    BY <1>4
  <2> QED
    BY <2>1, <2>2 DEF Tickets
<1>17. InodesTaken'
  <2>1. CASE temporary[m] # Absent
    <3>1. Has(m, i)
      BY <1>1, <2>1 DEF Has, inode
    <3>2. Held' \subseteq Held
      BY <1>10, <3>1 DEF Held
    <3> QED
      BY <1>3, <1>16, <3>2, FewerHeld
  <2>2. CASE temporary[m] = Absent
    <3>1. PICK taken \in [Held -> Tickets] : \A j, k \in Held : taken[j] = taken[k] => j = k
      BY <1>3 DEF InodesTaken
    <3>2. PICK next : next = <<s, saver[s].saves + 1>>
      OBVIOUS
    <3>3. next \notin Tickets /\ Tickets' = Tickets \cup {next}
      BY <1>4, <1>16, <3>2 DEF Tickets
    <3>4. PICK more : more = [h \in Held' |-> IF h = i THEN next ELSE taken[h]]
      OBVIOUS
    <3>5. Held' \subseteq Held \cup {i}
      BY <1>10 DEF Held
    <3>6. more \in [Held' -> Tickets']
      BY <3>1, <3>3, <3>4, <3>5
    <3>7. \A j, k \in Held' : more[j] = more[k] => j = k
      BY <3>1, <3>3, <3>4, <3>5
    <3> QED
      BY <3>6, <3>7 DEF InodesTaken
  <2> QED
    BY <2>1, <2>2
<1>18. DeltaCompares'
  BY <1>2, <1>3 DEF DeltaCompares
<1> QED
  BY <1>11, <1>12, <1>13, <1>14, <1>15, <1>17, <1>18 DEF SnapshotInv

\* A step that opens no file: no inode gets another snapshot and no save starts.
LEMMA QuietStep ==
  ASSUME SnapshotInv, saver' \in [Savers -> SaverType],
         \A t \in Savers : saver'[t].saves = saver[t].saves,
         \A n \in Manifests, j \in Inodes : Has(n, j)' => Has(n, j)
  PROVE  InodesTaken' /\ \A n, o \in Manifests, j \in Inodes : Has(n, j)' /\ Has(o, j)' => n = o
<1>1. Held' \subseteq Held
  BY DEF Held
<1>2. Tickets \subseteq Tickets'
  BY DEF Tickets
<1>3. InodesTaken'
  BY <1>1, <1>2, FewerHeld DEF SnapshotInv
<1> QED
  BY <1>3 DEF SnapshotInv, InodesApart

LEMMA WriteAllKeeps ==
  ASSUME SnapshotInv, NEW s \in Savers, WriteAll(s)
  PROVE  SnapshotInv'
<1>1. /\ saver[s].step = "write" /\ whole' = whole \cup {saver[s].inode}
      /\ saver' = [saver EXCEPT ![s].step = "rename"]
      /\ temporary' = temporary /\ published' = published /\ raced' = raced /\ delta' = delta
  BY DEF WriteAll
<1>2. /\ SavesTyped /\ InodesApart /\ SaversKnow /\ SaversAlone /\ PublishedWhole
      /\ DeltaCompares
  BY DEF SnapshotInv
<1>3. /\ saver \in [Savers -> SaverType] /\ saver' \in [Savers -> SaverType]
      /\ saver'[s].step = "rename" /\ saver'[s].snapshot = saver[s].snapshot
      /\ saver'[s].inode = saver[s].inode /\ saver'[s].saves = saver[s].saves
      /\ \A t \in Savers \ {s} : saver'[t] = saver[t]
  BY <1>1, <1>2 DEF SavesTyped, SaverType
<1>4. \A t \in Savers : /\ Saving(t)' <=> Saving(t)
                        /\ saver'[t].snapshot = saver[t].snapshot
                        /\ saver'[t].inode = saver[t].inode /\ saver'[t].saves = saver[t].saves
                        /\ saver'[t].step = "rename" => t = s \/ saver[t].step = "rename"
                        /\ saver'[t].step = "saved" => saver[t].step = "saved"
  BY <1>1, <1>3 DEF Saving
<1>5. saver[s].inode \in Inodes
  BY <1>1, <1>2 DEF SaversKnow, Saving
<1>6. \A n, j : Has(n, j)' <=> Has(n, j)
  BY <1>1, <1>4 DEF Has
<1>7. InodesTaken' /\ \A n, o \in Manifests, j \in Inodes : Has(n, j)' /\ Has(o, j)' => n = o
  BY <1>3, <1>4, <1>6, QuietStep
<1>8. SavesTyped'
  <2>1. \A t \in Savers :
          saver'[t].step \in {"idle", "write", "rename", "saved", "failed", "dead"}
    BY <1>3 DEF SaverType
  <2> QED
    BY <1>1, <1>2, <1>3, <1>5, <2>1 DEF SavesTyped, SnapshotTypeOK
<1>9. InodesApart'
  BY <1>1, <1>2, <1>7 DEF InodesApart
<1>10. SaversKnow'
  BY <1>1, <1>2, <1>4 DEF SaversKnow, Published
<1>11. SaversAlone'
  BY <1>1, <1>2, <1>4 DEF SaversAlone
<1>12. PublishedWhole'
  BY <1>1, <1>2 DEF PublishedWhole, Published, Readable
<1>13. DeltaCompares'
  BY <1>1, <1>2 DEF DeltaCompares
<1> QED
  BY <1>7, <1>8, <1>9, <1>10, <1>11, <1>12, <1>13 DEF SnapshotInv

\* What publishes a snapshot that one saver alone was saving is its own file.
LEMMA RenameKeeps ==
  ASSUME SnapshotInv, NEW s \in Savers, Rename(s)
  PROVE  SnapshotInv'
<1>1. PICK m : m = saver[s].snapshot
  OBVIOUS
<1>2. /\ saver[s].step = "rename"
      /\ IF temporary[m] = Absent
         THEN saver' = [saver EXCEPT ![s].step = "failed"] /\ UNCHANGED <<temporary, published>>
         ELSE /\ saver' = [saver EXCEPT ![s].step = "saved"]
              /\ published' = [published EXCEPT ![m] = temporary[m]]
              /\ temporary' = [temporary EXCEPT ![m] = Absent]
      /\ whole' = whole /\ raced' = raced /\ delta' = delta
  BY <1>1 DEF Rename
<1>3. /\ SavesTyped /\ InodesApart /\ SaversKnow /\ SaversAlone /\ PublishedWhole
      /\ DeltaCompares
  BY DEF SnapshotInv
<1>4. Saving(s) /\ m \in Manifests
  BY <1>1, <1>2, <1>3 DEF SaversKnow, Saving
<1>5. /\ saver \in [Savers -> SaverType] /\ temporary \in [Manifests -> Inodes \cup {Absent}]
      /\ published \in [Manifests -> Inodes \cup {Absent}] /\ whole \subseteq Inodes
      /\ raced \subseteq Manifests
  BY <1>3 DEF SavesTyped, SnapshotTypeOK
<1>6. PICK step \in {"saved", "failed"} :
        saver' = [saver EXCEPT ![s].step = step] /\ (step = "failed" <=> temporary[m] = Absent)
  BY <1>2
<1>7. /\ saver' \in [Savers -> SaverType]
      /\ saver'[s].step = step /\ saver'[s].snapshot = m
      /\ saver'[s].saves = saver[s].saves
      /\ \A t \in Savers \ {s} : saver'[t] = saver[t]
  BY <1>1, <1>5, <1>6 DEF SaverType
<1>8. /\ ~Saving(s)' /\ \A t \in Savers \ {s} : Saving(t)' <=> Saving(t)
  BY <1>7 DEF Saving
<1>9. \A n \in Manifests :
        /\ n # m => temporary'[n] = temporary[n] /\ published'[n] = published[n]
        /\ published'[n] \in {published[n], temporary[n]}
        /\ Published(n) \/ (n = m /\ temporary[m] # Absent) => published'[n] # Absent
        /\ temporary'[n] \in {temporary[n], Absent}
        /\ temporary'[n] # Absent => temporary'[n] = temporary[n] /\ published'[n] = published[n]
        /\ published'[n] # published[n] =>
             n = m /\ temporary[m] # Absent /\ published'[m] = temporary[m]
  BY <1>2, <1>4, <1>5 DEF Published
<1>10. \A n \in Manifests, j \in Inodes : Has(n, j)' => Has(n, j)
  <2>1. ASSUME NEW n \in Manifests, NEW j \in Inodes, Has(n, j)' PROVE Has(n, j)
    <3>1. CASE temporary'[n] = j
      <4>1. temporary[n] = j
        BY <1>9, <3>1, InodeNumbers
      <4> QED
        BY <4>1 DEF Has
    <3>2. CASE published'[n] = j
      <4>1. published[n] = j \/ temporary[n] = j
        BY <1>9, <3>2
      <4> QED
        BY <4>1 DEF Has
    <3>3. ASSUME NEW t \in Savers, Saving(t)', saver'[t].snapshot = n, saver'[t].inode = j
          PROVE  Has(n, j)
      <4>1. t # s
        BY <1>8, <3>3
      <4> QED
        BY <1>7, <1>8, <3>3, <4>1 DEF Has
    <3> QED
      BY <2>1, <3>1, <3>2, <3>3 DEF Has
  <2> QED
    BY <2>1
<1>11. InodesTaken' /\ \A n, o \in Manifests, j \in Inodes : Has(n, j)' /\ Has(o, j)' => n = o
  <2>1. \A t \in Savers : saver'[t].saves = saver[t].saves
    BY <1>7
  <2> QED
    BY <1>7, <1>10, <2>1, QuietStep
<1>12. SavesTyped'
  <2>1. \A t \in Savers :
          saver'[t].step \in {"idle", "write", "rename", "saved", "failed", "dead"}
    BY <1>7 DEF SaverType
  <2>2. temporary' \in [Manifests -> Inodes \cup {Absent}]
        /\ published' \in [Manifests -> Inodes \cup {Absent}]
    BY <1>2, <1>4, <1>5
  <2> QED
    BY <1>2, <1>5, <1>7, <2>1, <2>2 DEF SavesTyped, SnapshotTypeOK
<1>13. InodesApart'
  BY <1>3, <1>9, <1>11 DEF InodesApart
<1>14. SaversKnow'
  <2>1. ASSUME NEW t \in Savers
        PROVE  /\ Saving(t)' => saver'[t].snapshot \in Manifests /\ saver'[t].inode \in Inodes
               /\ saver'[t].step = "saved" =>
                    saver'[t].snapshot \in Manifests /\ published'[saver'[t].snapshot] # Absent
    <3>1. CASE t = s
      BY <1>4, <1>6, <1>7, <1>8, <1>9, <3>1
    <3>2. CASE t # s
      BY <1>3, <1>7, <1>8, <1>9, <3>2 DEF SaversKnow
    <3> QED
      BY <3>1, <3>2
  <2> QED
    BY <2>1 DEF SaversKnow, Published
<1>15. SaversAlone'
  <2>1. ASSUME NEW t \in Savers, Saving(t)', saver'[t].snapshot \notin raced'
        PROVE  /\ temporary'[saver'[t].snapshot] = saver'[t].inode
               /\ saver'[t].step = "rename" => saver'[t].inode \in whole'
               /\ \A u \in Savers : Saving(u)' /\ saver'[u].snapshot = saver'[t].snapshot => u = t
    <3>1. t # s /\ Saving(t) /\ saver'[t] = saver[t] /\ saver[t].snapshot \notin raced
      BY <1>2, <1>7, <1>8, <2>1
    <3>2. PICK n : n = saver[t].snapshot
      OBVIOUS
    <3>3. /\ temporary[n] = saver[t].inode
          /\ saver[t].step = "rename" => saver[t].inode \in whole
          /\ \A u \in Savers : Saving(u) /\ saver[u].snapshot = n => u = t
      BY <1>3, <3>1, <3>2 DEF SaversAlone
    <3>4. n # m /\ n \in Manifests
      BY <1>1, <1>3, <1>4, <3>1, <3>2, <3>3 DEF SaversKnow
    <3>5. temporary'[n] = saver[t].inode
      BY <1>9, <3>3, <3>4
    <3>6. \A u \in Savers : Saving(u)' /\ saver'[u].snapshot = n => u = t
      BY <1>7, <1>8, <3>3, <3>4
    <3> QED
      BY <1>2, <3>1, <3>2, <3>3, <3>5, <3>6
  <2> QED
    BY <2>1 DEF SaversAlone
<1>16. PublishedWhole'
  <2>1. ASSUME NEW n \in Manifests, published'[n] # Absent, n \notin raced'
        PROVE  published'[n] \in whole'
    <3>1. CASE published'[n] = published[n]
      BY <1>2, <1>3, <2>1, <3>1 DEF PublishedWhole, Published, Readable
    <3>2. CASE published'[n] # published[n]
      <4>1. n = m /\ published'[m] = temporary[m]
        BY <1>9, <3>2
      <4>2. temporary[m] = saver[s].inode /\ saver[s].inode \in whole
        BY <1>1, <1>2, <1>3, <1>4, <2>1, <4>1 DEF SaversAlone
      <4> QED
        BY <1>2, <4>1, <4>2
    <3> QED
      BY <3>1, <3>2
  <2> QED
    BY <2>1 DEF PublishedWhole, Published, Readable
<1>17. DeltaCompares'
  BY <1>2, <1>3 DEF DeltaCompares
<1> QED
  BY <1>11, <1>12, <1>13, <1>14, <1>15, <1>16, <1>17 DEF SnapshotInv

LEMMA SaverDiesKeeps ==
  ASSUME SnapshotInv, NEW s \in Savers, SaverDies(s)
  PROVE  SnapshotInv'
<1>1. /\ saver' = [saver EXCEPT ![s].step = "dead"] /\ whole' = whole
      /\ temporary' = temporary /\ published' = published /\ raced' = raced /\ delta' = delta
  BY DEF SaverDies
<1>2. /\ SavesTyped /\ InodesApart /\ SaversKnow /\ SaversAlone /\ PublishedWhole
      /\ DeltaCompares
  BY DEF SnapshotInv
<1>3. /\ saver \in [Savers -> SaverType] /\ saver' \in [Savers -> SaverType]
      /\ saver'[s].step = "dead" /\ saver'[s].saves = saver[s].saves
      /\ \A t \in Savers \ {s} : saver'[t] = saver[t]
  BY <1>1, <1>2 DEF SavesTyped, SaverType
<1>4. ~Saving(s)' /\ \A t \in Savers \ {s} : Saving(t)' <=> Saving(t)
  BY <1>3 DEF Saving
<1>5. \A n \in Manifests, j \in Inodes : Has(n, j)' => Has(n, j)
  BY <1>1, <1>3, <1>4 DEF Has
<1>6. InodesTaken' /\ \A n, o \in Manifests, j \in Inodes : Has(n, j)' /\ Has(o, j)' => n = o
  BY <1>3, <1>5, QuietStep
<1>7. SavesTyped'
  <2>1. \A t \in Savers :
          saver'[t].step \in {"idle", "write", "rename", "saved", "failed", "dead"}
    BY <1>3 DEF SaverType
  <2> QED
    BY <1>1, <1>2, <1>3, <2>1 DEF SavesTyped, SnapshotTypeOK
<1>8. InodesApart'
  BY <1>1, <1>2, <1>6 DEF InodesApart
<1>9. SaversKnow'
  <2>1. ASSUME NEW t \in Savers
        PROVE  /\ Saving(t)' => saver'[t].snapshot \in Manifests /\ saver'[t].inode \in Inodes
               /\ saver'[t].step = "saved" =>
                    saver'[t].snapshot \in Manifests /\ published'[saver'[t].snapshot] # Absent
    BY <1>1, <1>2, <1>3, <1>4 DEF SaversKnow, Published
  <2> QED
    BY <2>1 DEF SaversKnow, Published
<1>10. SaversAlone'
  <2>1. ASSUME NEW t \in Savers, Saving(t)', saver'[t].snapshot \notin raced'
        PROVE  /\ temporary'[saver'[t].snapshot] = saver'[t].inode
               /\ saver'[t].step = "rename" => saver'[t].inode \in whole'
               /\ \A u \in Savers : Saving(u)' /\ saver'[u].snapshot = saver'[t].snapshot => u = t
    BY <1>1, <1>2, <1>3, <1>4, <2>1 DEF SaversAlone
  <2> QED
    BY <2>1 DEF SaversAlone
<1>11. PublishedWhole' /\ DeltaCompares'
  BY <1>1, <1>2 DEF PublishedWhole, Published, Readable, DeltaCompares
<1> QED
  BY <1>6, <1>7, <1>8, <1>9, <1>10, <1>11 DEF SnapshotInv

\* The invariant is about these variables.
LEMMA SameFiles ==
  ASSUME SnapshotInv, UNCHANGED <<saver, whole, temporary, published, raced>>, DeltaCompares'
  PROVE  SnapshotInv'
<1>1. \A n, j : Has(n, j)' <=> Has(n, j)
  BY DEF Has, Saving
<1>2. SavesTyped' /\ InodesApart'
  BY <1>1 DEF SnapshotInv, SavesTyped, SnapshotTypeOK, InodesApart
<1>3. SaversKnow' /\ SaversAlone' /\ PublishedWhole'
  BY DEF SnapshotInv, SaversKnow, SaversAlone, PublishedWhole, Published, Readable, Saving
<1>4. InodesTaken'
  <2>1. Held' = Held /\ Tickets' = Tickets
    BY <1>1 DEF Held, Tickets
  <2> QED
    BY <2>1 DEF SnapshotInv, InodesTaken
<1> QED
  BY <1>2, <1>3, <1>4 DEF SnapshotInv

LEMMA DiffKeeps ==
  ASSUME SnapshotInv, NEW before \in Manifests, NEW after \in Manifests,
         DiffSnapshots(before, after)
  PROVE  SnapshotInv'
<1>1. DeltaCompares' /\ UNCHANGED <<saver, whole, temporary, published, raced>>
  BY DEF DiffSnapshots, DeltaCompares
<1> QED
  BY <1>1, SameFiles

LEMMA SnapshotNextKeeps ==
  ASSUME SnapshotInv, [SnapshotNext]_snapshotVars
  PROVE  SnapshotInv'
<1>1. CASE UNCHANGED snapshotVars
  <2>1. UNCHANGED <<saver, whole, temporary, published, raced>> /\ DeltaCompares'
    BY <1>1 DEF snapshotVars, SnapshotInv, DeltaCompares
  <2> QED
    BY <2>1, SameFiles
<1>2. CASE SnapshotNext
  BY <1>2, CreateSnapshotKeeps, WriteAllKeeps, RenameKeeps, SaverDiesKeeps, DiffKeeps
     DEF SnapshotNext
<1> QED
  BY <1>1, <1>2

LEMMA InvGivesFaithful ==
  ASSUME SnapshotInv
  PROVE  SnapshotsFaithful
<1>1. Accounts(delta.files, delta.before.files, delta.after.files)
  <2>1. CASE delta = NoDelta
    <3>1. delta.files = {} /\ delta.before.files = <<>> /\ delta.after.files = <<>>
      BY <2>1 DEF NoDelta, Idle
    <3>2. Accounts({}, <<>>, <<>>)
      BY DEF Accounts
    <3> QED
      BY <3>1, <3>2
  <2>2. ASSUME NEW m \in Manifests, NEW n \in Manifests,
               delta = [before |-> m, after |-> n, files |-> Compared(m.files, n.files),
                        complete |-> m.complete /\ n.complete]
        PROVE  Accounts(delta.files, delta.before.files, delta.after.files)
    <3>1. /\ delta.files = Compared(m.files, n.files)
          /\ delta.before.files = m.files /\ delta.after.files = n.files
      BY <2>2
    <3>2. /\ IsFiniteSet(DOMAIN m.files) /\ IsFiniteSet(DOMAIN n.files)
          /\ "none" \notin DOMAIN m.files
      BY SnapshotAssumption
    <3>3. Accounts(Compared(m.files, n.files), m.files, n.files)
      BY <3>2, ComparisonAccounts
    <3> QED
      BY <3>1, <3>3
  <2> QED
    BY <2>1, <2>2 DEF SnapshotInv, DeltaCompares
<1>2. \A s \in Savers : saver[s].step = "saved" => Published(saver[s].snapshot)
  BY DEF SnapshotInv, SaversKnow
<1>3. \A m \in Manifests : Published(m) => Readable(m) \/ m \in raced
  BY DEF SnapshotInv, PublishedWhole
<1> QED
  BY <1>1, <1>2, <1>3 DEF SnapshotsFaithful, Accounts, InScope

-----------------------------------------------------------------------------
(* The theorem about snapshots.                                             *)

LEMMA SnapshotSteps == [PipelineNext]_pipelineVars => [SnapshotNext]_snapshotVars
BY DEF PipelineNext, pipelineVars

\* Whatever snapshots however many processes save, and wherever they die: a
\* snapshot that is listed can be read unless two savers of it shared its
\* temporary file, what is saved is there, and a comparison accounts for every
\* file of both snapshots.
THEOREM SnapshotsStayFaithful == PipelineSpec => []SnapshotsFaithful
<1>1. PipelineInit => SnapshotInv
  BY InitSnapshotInv DEF PipelineInit
<1>2. SnapshotInv /\ [PipelineNext]_pipelineVars => SnapshotInv'
  BY SnapshotSteps, SnapshotNextKeeps
<1> QED
  BY <1>1, <1>2, InvGivesFaithful, PTL DEF PipelineSpec

-----------------------------------------------------------------------------
(* The commands: the inductive invariant.                                   *)

\* The writes that are still to come.
Left(name) == \E i \in (job.done + 1)..Len(job.writes) : job.writes[i].name = name

Caching == {"cacheInit", "rebuild", "watch"}

\* What a command writes, from a repository that was edited so often.
Writes(c, edits, w) ==
  \/ c.name = "init" /\ w.name = "config" /\ w.content = Ours("config") /\ w.mode \in {"w", "wx"}
  \/ c.name = "init" /\ w.name = "ignore" /\ w.mode \in {"append", "wx"}
  \/ /\ c.name \in {"graph", "context"} /\ w.name = c.name /\ w.mode = "wx"
     /\ w.content = <<"fuzit", edits, Holds("listable") /\ Holds("readable")>>
  \/ c.name = "apply" /\ w.name \in Targets /\ w.mode = "w" /\ w.content = Ours("block")
  \/ c.name \in Caching /\ w = OpenIndex
  \/ /\ c.name \in Caching /\ w.name = "state" /\ w.mode = "w"
     /\ w.content = <<"fuzit", edits, IF c.name = "watch" THEN "watch" ELSE "cache">>
  \/ c.name = "purge" /\ w.name \in {"index", "state"} /\ w.mode = "rm" /\ w.content = NoFile

JobShape ==
  \E c \in WriteCommands : \E writes, edits, code :
    /\ job = [command |-> c, writes |-> writes, done |-> job.done, seen |-> edits, exit |-> code]
    /\ Len(writes) \in Nat /\ job.done \in 0..Len(writes) /\ code # "running"
    /\ \A i \in 1..Len(writes) : Writes(c, edits, writes[i])
    /\ c.name \in Caching /\ writes # <<>> => writes[1] = OpenIndex
    /\ c.name = "init" => \A i \in 2..Len(writes) : writes[i].mode # "w"
    /\ ~meddled => edits = revision

Progress ==
  /\ result = "running" => job # NoJob /\ job.done < Len(job.writes)
  /\ result = "success" /\ job # NoJob => job.done = Len(job.writes) /\ job.exit = "success"

\* What the files hold.
FilesShape ==
  /\ files = [name \in FileNames |-> files[name]] /\ revision \in Nat
  /\ files["ignore"] = NoFile
       \/ files["ignore"] = <<files["ignore"][1], "ignore", files["ignore"][3]>>
  /\ files["state"] # NoFile => Head(files["state"]) = "fuzit"
  /\ \A name \in FileNames : files[name] = Torn => interrupted # {}

\* What a command that has not failed will have done when its writes are.
Under(name) == job # NoJob /\ job.command.name = name /\ result \in {"running", "success"}
InitGoal ==
  Under("init") /\ ~job.command.dry /\ ~job.command.mcp =>
    /\ Compatible(files["config"]) \/ Left("config")
    /\ \A e \in IgnoreEntries :
         \/ files["ignore"] # NoFile /\ e \in files["ignore"][3]
         \/ \E i \in (job.done + 1)..Len(job.writes) :
              job.writes[i].name = "ignore" /\ e \in job.writes[i].content
CreateGoal ==
  \A name \in {"graph", "context"} : Under(name) =>
    \/ files[name] = <<"fuzit", job.seen, Holds("listable") /\ Holds("readable")>>
    \/ Left(name)
ApplyGoal ==
  Under("apply") => \A i \in DOMAIN job.command.blocks :
    files[job.command.blocks[i]] = Ours("block") \/ Left(job.command.blocks[i])
StoreGoal ==
  Under("cacheInit") \/ (Under("rebuild") /\ ~job.command.dry) => job.exit # "success" \/
    /\ files["state"] = <<"fuzit", job.seen, "cache">> \/ Left("state")
    /\ files["index"] # NoFile \/ Left("index")
         \/ (job.command.name = "rebuild" /\ "purge" \in interrupted)
Goals == ~meddled => InitGoal /\ CreateGoal /\ ApplyGoal /\ StoreGoal

\* A state has an index, but for a purge.
IndexBeside ==
  /\ job # NoJob /\ job.command.name \in Caching /\ job.done >= 1 => files["index"] # NoFile
  /\ job # NoJob /\ job.command.name = "purge" /\ result = "running" =>
       files["state"] = NoFile \/ Left("state")
  /\ files["state"] # NoFile =>
       \/ files["index"] # NoFile \/ "purge" \in interrupted
       \/ job # NoJob /\ job.command.name = "purge" /\ result = "running"

\* A forced init was planned for a configuration that is not compatible.
Losses ==
  /\ job # NoJob /\ job.command.name = "init" /\ result = "running" =>
       \A i \in (job.done + 1)..Len(job.writes) :
         job.writes[i].mode = "w" => ~Compatible(files["config"]) \/ revision > 0
  /\ \A l \in lost : l.command \in {"init", "apply"}
  /\ \A l \in lost : l.command = "init" =>
       l.name = "config" /\ (Compatible(l.content) => revision > 0)

CommandsInv ==
  /\ job = NoJob \/ JobShape
  /\ Progress /\ FilesShape /\ Goals /\ IndexBeside /\ Losses

-----------------------------------------------------------------------------
(* The commands: contents and plans.                                        *)

\* Contents of different kinds differ.
LEMMA Contents ==
  /\ \A a, b, c : /\ <<a, b, c>> # NoFile /\ <<a, b, c>> # Torn
                  /\ Head(<<a, b, c>>) = a /\ <<a, b, c>>[1] = a /\ <<a, b, c>>[3] = c
  /\ \A a, b : <<a, b>> # NoFile /\ <<a, b>> # Torn
  /\ NoFile # Torn
BY DEF NoFile, Torn

LEMMA IgnoreGrows ==
  \A o, s, t : [<<o, "ignore", s>> EXCEPT ![3] = @ \cup t] = <<o, "ignore", s \cup t>>
OBVIOUS

LEMMA WriteFields ==
  \A name, mode, content :
    /\ Write(name, mode, content).name = name
    /\ Write(name, mode, content).mode = mode
    /\ Write(name, mode, content).content = content
BY DEF Write

\* What StartCommand needs of a plan.
There(writes, name) == \E i \in 1..Len(writes) : writes[i].name = name
PlanFits(c, writes, code) ==
  /\ Len(writes) \in Nat /\ (writes = <<>> <=> Len(writes) = 0)
  /\ code # "running"
  /\ \A i \in 1..Len(writes) : Writes(c, revision, writes[i])
  /\ c.name \in Caching /\ writes # <<>> => writes[1] = OpenIndex
  /\ c.name \notin Caching /\ code # "success" => writes = <<>>
  /\ c.name = "init" /\ code = "success" /\ ~c.dry /\ ~c.mcp =>
       /\ Compatible(files["config"]) \/ There(writes, "config")
       /\ \A e \in IgnoreEntries :
            \/ files["ignore"] # NoFile /\ e \in files["ignore"][3]
            \/ \E i \in 1..Len(writes) : writes[i].name = "ignore" /\ e \in writes[i].content
  /\ c.name = "init" =>
       \A i \in 1..Len(writes) :
         writes[i].mode = "w" => i = 1 /\ ~Compatible(files["config"])
  /\ c.name \in {"graph", "context"} /\ code = "success" => There(writes, c.name)
  /\ c.name = "apply" => \A i \in DOMAIN c.blocks : There(writes, c.blocks[i])
  /\ c.name = "cacheInit" \/ (c.name = "rebuild" /\ ~c.dry) => code # "success" \/
       /\ files["state"] = State("cache") \/ There(writes, "state")
       /\ files["index"] # NoFile \/ There(writes, "index")
            \/ (c.name = "rebuild" /\ "purge" \in interrupted)
  /\ c.name = "purge" /\ writes # <<>> => There(writes, "state")

LEMMA NoWrites ==
  /\ Len(<<>>) = 0
  /\ \A c : ~(\E i \in 1..Len(<<>>) : Writes(c, revision, <<>>[i]))
OBVIOUS

LEMMA OneWrite ==
  \A w : /\ Len(<<w>>) = 1 /\ <<w>> # <<>> /\ <<w>>[1] = w
         /\ 1..Len(<<w>>) = {1}
OBVIOUS

LEMMA TwoWrites ==
  \A v, w : /\ Len(<<v, w>>) = 2 /\ <<v, w>> # <<>> /\ <<v, w>>[1] = v /\ <<v, w>>[2] = w
            /\ 1..Len(<<v, w>>) = {1, 2}
OBVIOUS

LEMMA OneAfterOther ==
  \A v, w : <<v>> \o <<w>> = <<v, w>>
<1> TAKE v, w
<1>1. <<v>> \in Seq({v, w}) /\ <<w>> \in Seq({v, w}) /\ <<v, w>> \in Seq({v, w})
  OBVIOUS
<1>2. PICK s : s = <<v>> \o <<w>>
  OBVIOUS
<1>3. s \in Seq({v, w}) /\ Len(s) = 2 /\ s[1] = v /\ s[2] = w
  BY <1>1, <1>2
<1>4. PICK t : t = <<v, w>>
  OBVIOUS
<1>5. t \in Seq({v, w}) /\ Len(t) = 2 /\ t[1] = v /\ t[2] = w
  BY <1>4
<1>6. Len(s) = Len(t) /\ \A i \in 1..Len(s) : s[i] = t[i]
  BY <1>3, <1>5
<1>7. s = t
  BY ONLY <1>3, <1>5, <1>6, SeqEqual
<1> QED
  BY <1>2, <1>4, <1>7

LEMMA NothingBefore == \A w : <<>> \o <<w>> = <<w>> /\ <<w>> \o <<>> = <<w>> /\ <<>> \o <<>> = <<>>
OBVIOUS

LEMMA InitFits ==
  ASSUME CommandsInv, NEW c \in WriteCommands, c.name = "init"
  PROVE  PlanFits(c, Plan(c).writes, Plan(c).exit)
<1> DEFINE config == IF files["config"] = NoFile
                     THEN <<Write("config", "wx", Ours("config"))>>
                     ELSE IF Compatible(files["config"]) THEN <<>>
                     ELSE <<Write("config", "w", Ours("config"))>>
           mode == IF files["ignore"] = NoFile THEN "wx" ELSE "append"
           ignore == IF MissingEntries = {} THEN <<>>
                     ELSE <<Write("ignore", mode, MissingEntries)>>
           turnedDown == files["config"] # NoFile /\ ~Compatible(files["config"]) /\ ~c.force
           plan == IF turnedDown THEN [exit |-> "validation", writes |-> <<>>]
                   ELSE [exit |-> "success",
                         writes |-> IF c.dry \/ c.mcp THEN <<>> ELSE config \o ignore]
<1>1. Plan(c) = plan
  BY DEF Plan, InitPlan
<1>2. PICK writes, code : writes = Plan(c).writes /\ code = Plan(c).exit
  OBVIOUS
<1>3. CASE writes = <<>> /\ (code = "validation" \/ (code = "success" /\ (c.dry \/ c.mcp)))
  BY <1>2, <1>3, NoWrites DEF PlanFits, There, Caching
<1>4. CASE code = "success" /\ writes = config \o ignore
  <2>1. Compatible(files["config"]) => config \in {<<>>, <<Write("config", "wx", Ours("config"))>>}
    OBVIOUS
  <2>2. PICK how \in {"w", "wx"} :
          \/ config = <<>> /\ Compatible(files["config"])
          \/ /\ config = <<Write("config", how, Ours("config"))>>
             /\ how = "w" => ~Compatible(files["config"])
    OBVIOUS
  <2>0. PICK entries : entries = MissingEntries
    OBVIOUS
  <2>3. PICK way \in {"append", "wx"} :
          ignore = IF entries = {} THEN <<>> ELSE <<Write("ignore", way, entries)>>
    BY <2>0
  <2>4. \A e \in IgnoreEntries :
          (files["ignore"] # NoFile /\ e \in files["ignore"][3]) \/ e \in entries
    BY <2>0 DEF MissingEntries
  <2> HIDE DEF config, ignore
  <2>5. PICK v : v = Write("config", how, Ours("config"))
    OBVIOUS
  <2>6. PICK w : w = Write("ignore", way, entries)
    OBVIOUS
  <2>7. /\ v.name = "config" /\ v.mode = how /\ v.content = Ours("config")
        /\ w.name = "ignore" /\ w.mode = way /\ w.content = entries
    BY <2>5, <2>6, WriteFields
  <2>8. Writes(c, revision, v) /\ Writes(c, revision, w)
    BY <2>7 DEF Writes
  <2>9. CASE config = <<>> /\ Compatible(files["config"]) /\ ignore = <<>> /\ entries = {}
    <3>1. writes = <<>>
      BY <1>4, <2>9, NothingBefore
    <3> QED
      BY <1>2, <1>4, <2>4, <2>9, <3>1, NoWrites DEF PlanFits, There, Caching
  <2>10. CASE config = <<>> /\ Compatible(files["config"]) /\ ignore = <<w>>
    <3>1. writes = <<w>>
      BY <1>4, <2>10, NothingBefore
    <3> QED
      BY <1>2, <1>4, <2>4, <2>7, <2>8, <2>10, <3>1, OneWrite DEF PlanFits, There, Caching
  <2>11. CASE /\ config = <<v>> /\ (how = "w" => ~Compatible(files["config"]))
              /\ ignore = <<>> /\ entries = {}
    <3>1. writes = <<v>>
      BY <1>4, <2>11, NothingBefore
    <3> QED
      BY <1>2, <1>4, <2>4, <2>7, <2>8, <2>11, <3>1, OneWrite DEF PlanFits, There, Caching
  <2>12. CASE config = <<v>> /\ (how = "w" => ~Compatible(files["config"])) /\ ignore = <<w>>
    <3>1. writes = <<v, w>>
      BY <1>4, <2>12, OneAfterOther
    <3> QED
      BY <1>2, <1>4, <2>4, <2>7, <2>8, <2>12, <3>1, TwoWrites DEF PlanFits, There, Caching
  <2>13. \/ config = <<>> /\ Compatible(files["config"])
         \/ config = <<v>> /\ (how = "w" => ~Compatible(files["config"]))
    BY <2>2, <2>5
  <2>14. (ignore = <<>> /\ entries = {}) \/ ignore = <<w>>
    BY <2>3, <2>6
  <2> QED
    BY <2>9, <2>10, <2>11, <2>12, <2>13, <2>14
<1> QED
  BY <1>1, <1>2, <1>3, <1>4

LEMMA CreateFits ==
  ASSUME CommandsInv, NEW c \in WriteCommands, c.name \in {"graph", "context"}
  PROVE  PlanFits(c, Plan(c).writes, Plan(c).exit)
<1>1. Plan(c) = CreatePlan(c.name)
  BY DEF Plan
<1>2. CASE ConfigLoads
  <2>1. PICK w : w = Write(c.name, "wx", Snapshot)
    OBVIOUS
  <2>2. Plan(c).exit = "success" /\ Plan(c).writes = <<w>>
    BY <1>1, <1>2, <2>1 DEF CreatePlan
  <2>3. w.name = c.name /\ w.mode = "wx" /\ w.content = Snapshot
    BY <2>1, WriteFields
  <2>4. Writes(c, revision, w)
    BY <2>3 DEF Writes, Snapshot
  <2> QED
    BY <2>2, <2>3, <2>4, OneWrite DEF PlanFits, There, Caching
<1>3. CASE ~ConfigLoads
  <2>1. Plan(c).exit = "validation" /\ Plan(c).writes = <<>>
    BY <1>1, <1>3 DEF CreatePlan
  <2> QED
    BY <2>1, NoWrites DEF PlanFits, There, Caching
<1> QED
  BY <1>2, <1>3

LEMMA ApplyFits ==
  ASSUME CommandsInv, NEW c \in WriteCommands, c.name = "apply"
  PROVE  PlanFits(c, Plan(c).writes, Plan(c).exit)
<1>1. Plan(c) = ApplyPlan(c.blocks) /\ c.blocks \in Seq(Targets)
  BY CommandAssumption DEF Plan
<1>0. PICK writes, code : writes = Plan(c).writes /\ code = Plan(c).exit
  OBVIOUS
<1>2. PICK n \in Nat :
        /\ n = Len(c.blocks) /\ DOMAIN c.blocks = 1..n
        /\ (c.blocks = <<>> <=> n = 0)
        /\ \A i \in 1..n : c.blocks[i] \in Targets
  <2>1. Len(c.blocks) \in Nat /\ DOMAIN c.blocks = 1..Len(c.blocks)
        /\ \A i \in 1..Len(c.blocks) : c.blocks[i] \in Targets
    BY <1>1, LenProperties, ElementOfSeq
  <2>2. c.blocks = <<>> <=> Len(c.blocks) = 0
    BY <1>1, EmptySeq
  <2> QED
    BY <2>1, <2>2
<1>3. /\ code = (IF n = 0 THEN "validation" ELSE "success")
      /\ writes = [i \in 1..n |-> Write(c.blocks[i], "w", Ours("block"))]
  BY <1>0, <1>1, <1>2 DEF ApplyPlan
<1>4. Len(writes) = n /\ (writes = <<>> <=> n = 0)
  <2>1. \A i \in 1..n : Write(c.blocks[i], "w", Ours("block")) \in
                          {Write(name, "w", Ours("block")) : name \in Targets}
    BY <1>2
  <2>2. writes \in Seq({Write(name, "w", Ours("block")) : name \in Targets})
    BY <1>3, <2>1
  <2>3. DOMAIN writes = 1..n
    BY <1>3
  <2>4. Len(writes) \in Nat /\ 1..Len(writes) = 1..n
    BY <2>2, <2>3, LenProperties
  <2>5. Len(writes) = n
    BY <2>4
  <2> QED
    BY <2>2, <2>5, EmptySeq
<1>5. ASSUME NEW i \in 1..n
      PROVE  writes[i].name = c.blocks[i] /\ Writes(c, revision, writes[i])
  <2>1. writes[i] = Write(c.blocks[i], "w", Ours("block"))
    BY <1>3
  <2> QED
    BY <1>2, <2>1, WriteFields DEF Writes
<1>6. PlanFits(c, writes, code)
  BY <1>2, <1>3, <1>4, <1>5 DEF PlanFits, There, Caching
<1> QED
  BY <1>0, <1>6

\* The index and then its state.
LEMMA StoreFits ==
  ASSUME CommandsInv, NEW c \in WriteCommands, c.name \in Caching,
         NEW w, w = Write("state", "w", State(IF c.name = "watch" THEN "watch" ELSE "cache"))
  PROVE  PlanFits(c, <<OpenIndex, w>>, "success")
<1>1. w.name = "state" /\ w.mode = "w" /\ OpenIndex.name = "index"
      /\ w.content = State(IF c.name = "watch" THEN "watch" ELSE "cache")
  BY WriteFields DEF OpenIndex
<1>2. Writes(c, revision, OpenIndex) /\ Writes(c, revision, w)
  BY <1>1 DEF Writes, State
<1> QED
  BY <1>1, <1>2, TwoWrites DEF PlanFits, There, Caching

LEMMA OpenFits ==
  ASSUME CommandsInv, NEW c \in WriteCommands, c.name \in {"cacheInit", "watch"}, NEW code,
         code = "success" => c.name = "watch", code # "running"
  PROVE  PlanFits(c, <<OpenIndex>>, code)
<1>1. Writes(c, revision, OpenIndex)
  BY DEF Writes, Caching
<1> QED
  BY <1>1, OneWrite DEF PlanFits, There, Caching

LEMMA CacheFits ==
  ASSUME CommandsInv, result # "running", NEW c \in WriteCommands, c.name \in Caching
  PROVE  PlanFits(c, Plan(c).writes, Plan(c).exit)
<1>1. PICK w : w = Write("state", "w", State(IF c.name = "watch" THEN "watch" ELSE "cache"))
  OBVIOUS
<1>2. CASE c.name = "cacheInit"
  <2>1. Plan(c) = CacheInitPlan
    BY <1>2 DEF Plan
  <2>2. \/ Plan(c).exit = "success" /\ Plan(c).writes = <<OpenIndex, w>>
        \/ Plan(c).exit = "internal" /\ Plan(c).writes = <<OpenIndex>>
    BY <1>1, <1>2, <2>1 DEF CacheInitPlan
  <2> QED
    BY <1>1, <1>2, <2>2, StoreFits, OpenFits
<1>3. CASE c.name = "watch"
  <2>1. Plan(c) = WatchPlan
    BY <1>3 DEF Plan
  <2>2. \/ Plan(c).exit = "success" /\ Plan(c).writes = <<OpenIndex, w>>
        \/ Plan(c).exit # "running" /\ Plan(c).writes = <<OpenIndex>>
    BY <1>1, <1>3, <2>1 DEF WatchPlan
  <2> QED
    BY <1>1, <1>3, <2>2, StoreFits, OpenFits
<1>4. CASE c.name = "rebuild"
  <2>1. Plan(c) = RebuildPlan(c.dry)
    BY <1>4 DEF Plan
  <2>2. \/ Plan(c).exit = "success" /\ Plan(c).writes = <<OpenIndex, w>>
        \/ Plan(c).exit = "internal" /\ Plan(c).writes = <<>>
        \/ /\ Plan(c).exit = "success" /\ Plan(c).writes = <<>>
           /\ c.dry \/ files["state"] = State("cache")
    BY <1>1, <1>4, <2>1 DEF RebuildPlan
  <2>3. CASE Plan(c).exit = "internal" /\ Plan(c).writes = <<>>
    BY <1>4, <2>3, NoWrites DEF PlanFits, There, Caching
  <2>4. CASE /\ Plan(c).exit = "success" /\ Plan(c).writes = <<>>
             /\ c.dry \/ files["state"] = State("cache")
    <3>1. files["state"] = State("cache") => files["index"] # NoFile \/ "purge" \in interrupted
      BY Contents DEF CommandsInv, IndexBeside, State
    <3> QED
      BY <1>4, <2>4, <3>1, NoWrites DEF PlanFits, There, Caching
  <2> QED
    BY <1>1, <1>4, <2>2, <2>3, <2>4, StoreFits
<1> QED
  BY <1>2, <1>3, <1>4 DEF Caching

LEMMA PurgeFits ==
  ASSUME CommandsInv, NEW c \in WriteCommands, c.name = "purge"
  PROVE  PlanFits(c, Plan(c).writes, Plan(c).exit)
<1>1. Plan(c) = PurgePlan(c) /\ (~c.dry => c.order \in {<<"state", "index">>, <<"index", "state">>})
  BY CommandAssumption DEF Plan
<1>2. CASE c.dry
  <2>1. Plan(c).exit = "success" /\ Plan(c).writes = <<>>
    BY <1>1, <1>2 DEF PurgePlan
  <2> QED
    BY <2>1, NoWrites DEF PlanFits, There, Caching
<1>3. ASSUME NEW a \in {"index", "state"}, NEW b \in {"index", "state"}, "state" \in {a, b},
             ~c.dry, c.order = <<a, b>>
      PROVE  PlanFits(c, Plan(c).writes, Plan(c).exit)
  <2>1. PICK v : v = Write(a, "rm", NoFile)
    OBVIOUS
  <2>2. PICK w : w = Write(b, "rm", NoFile)
    OBVIOUS
  <2>3. Plan(c).exit = "success" /\ Plan(c).writes = <<v, w>>
    <3>1. [i \in DOMAIN <<a, b>> |-> Write(<<a, b>>[i], "rm", NoFile)] = <<v, w>>
      BY <2>1, <2>2
    <3> QED
      BY <1>1, <1>3, <3>1 DEF PurgePlan
  <2>4. /\ v.name = a /\ v.mode = "rm" /\ v.content = NoFile
        /\ w.name = b /\ w.mode = "rm" /\ w.content = NoFile
    BY <2>1, <2>2, WriteFields
  <2>5. Writes(c, revision, v) /\ Writes(c, revision, w)
    BY <1>3, <2>4 DEF Writes
  <2> QED
    BY <1>3, <2>3, <2>4, <2>5, TwoWrites DEF PlanFits, There, Caching
<1> QED
  BY <1>1, <1>2, <1>3

LEMMA EveryPlanFits ==
  ASSUME CommandsInv, result # "running", NEW c \in WriteCommands
  PROVE  PlanFits(c, Plan(c).writes, Plan(c).exit)
BY CommandAssumption, InitFits, CreateFits, ApplyFits, CacheFits, PurgeFits DEF Caching


-----------------------------------------------------------------------------
(* The commands: the steps.                                                 *)

LEMMA NoJobFields ==
  /\ NoJob.command.name = "none" /\ NoJob.writes = <<>> /\ NoJob.done = 0
BY DEF NoJob

LEMMA InitCommandsInv == CommandsInit => CommandsInv
<1> SUFFICES ASSUME CommandsInit PROVE CommandsInv
  OBVIOUS
<1>1. /\ files \in Start /\ revision = 0 /\ job = NoJob /\ result = "none" /\ meddled = FALSE
      /\ lost = {} /\ interrupted = {}
  BY DEF CommandsInit
<1>2. FilesShape
  BY <1>1, CommandAssumption DEF FilesShape
<1>3. IndexBeside
  BY <1>1, CommandAssumption DEF IndexBeside
<1> QED
  BY <1>1, <1>2, <1>3
     DEF CommandsInv, Progress, Goals, InitGoal, CreateGoal, ApplyGoal, StoreGoal, Under, Losses

\* An answer is an end.
LEMMA AnswersEnd ==
  ASSUME NEW question \in DOMAIN Answers
  PROVE  Answers[question] \in {"success", "validation", "environment", "internal"}
<1> DEFINE Ends == {"success", "validation", "environment", "internal"}
<1>1. \A holds, otherwise : otherwise \in Ends => Check(holds, otherwise) \in Ends
  BY DEF Check
<1>2. \A works, otherwise : otherwise \in Ends => ScanExit(works, otherwise) \in Ends
  BY <1>1 DEF ScanExit
<1> HIDE DEF Ends
<1>3. {"success", "validation", "environment", "internal"} = Ends
  BY DEF Ends
<1>4. /\ ConfigExit \in Ends /\ DoctorExit \in Ends /\ RootsExit \in Ends
      /\ ScanSummaryExit \in Ends /\ ScanItemsExit \in Ends /\ StatsExit \in Ends
      /\ UiExit \in Ends /\ ContextStdoutExit \in Ends /\ GraphQueryExit \in Ends
      /\ ExplainSelectionExit \in Ends /\ ExplainPathExit \in Ends /\ GitExit \in Ends
      /\ BlameExit(TRUE) \in Ends /\ BlameExit(FALSE) \in Ends
  BY <1>1, <1>2, <1>3
     DEF ConfigExit, DoctorExit, RootsExit, ScanSummaryExit, ScanItemsExit, StatsExit, UiExit,
         ContextStdoutExit, GraphQueryExit, ExplainSelectionExit, ExplainPathExit, GitExit,
         BlameExit
<1>5. /\ PluginListExit \in Ends /\ PluginInspectExit \in Ends /\ PluginValidateExit \in Ends
      /\ PluginEnableExit \in Ends /\ PluginDisableExit \in Ends /\ PluginDoctorExit \in Ends
      /\ VerifyExit \in Ends /\ UsageExit \in Ends
  BY <1>1, <1>3
     DEF PluginListExit, PluginInspectExit, PluginValidateExit, PluginEnableExit,
         PluginDisableExit, PluginDoctorExit, VerifyExit, UsageExit
<1>6. /\ Answers.config \in Ends /\ Answers.doctor \in Ends /\ Answers.roots \in Ends
      /\ Answers.summary \in Ends /\ Answers.items \in Ends /\ Answers.scanConflict \in Ends
      /\ Answers.stats \in Ends /\ Answers.ui \in Ends /\ Answers.context \in Ends
      /\ Answers.graph \in Ends /\ Answers.explain \in Ends /\ Answers.why \in Ends
      /\ Answers.git \in Ends /\ Answers.blame \in Ends /\ Answers.blameRange \in Ends
  BY <1>3, <1>4 DEF Answers
<1>7. /\ Answers.pluginList \in Ends /\ Answers.pluginInspect \in Ends
      /\ Answers.pluginValidate \in Ends /\ Answers.pluginEnable \in Ends
      /\ Answers.pluginDisable \in Ends /\ Answers.pluginDoctor \in Ends
      /\ Answers.cacheStatus \in Ends /\ Answers.cacheVerify \in Ends /\ Answers.usage \in Ends
      /\ Answers.profile \in Ends /\ Answers.support \in Ends
  BY <1>3, <1>5 DEF Answers
<1>8. question \in {"config", "doctor", "roots", "summary", "items", "scanConflict", "stats", "ui",
                    "context", "graph", "explain", "why", "git", "blame", "blameRange"}
        \cup {"pluginList", "pluginInspect", "pluginValidate", "pluginEnable", "pluginDisable",
              "pluginDoctor", "cacheStatus", "cacheVerify", "usage", "profile", "support"}
  BY DEF Answers
<1>9. Answers[question] \in Ends
  BY <1>6, <1>7, <1>8
<1> QED
  BY <1>9 DEF Ends

LEMMA AskKeeps ==
  ASSUME CommandsInv, NEW question \in DOMAIN Answers, Ask(question)
  PROVE  CommandsInv'
<1>1. /\ result # "running" /\ job' = NoJob /\ result' = Answers[question]
      /\ UNCHANGED <<machine, files, revision, meddled, lost, interrupted, issued>>
  BY DEF Ask
<1>2. FilesShape'
  BY <1>1 DEF CommandsInv, FilesShape
<1>3. IndexBeside'
  BY <1>1 DEF CommandsInv, IndexBeside
<1>4. Losses'
  BY <1>1 DEF CommandsInv, Losses
<1>5. Goals'
  BY <1>1 DEF Goals, InitGoal, CreateGoal, ApplyGoal, StoreGoal, Under
<1>6. result' # "running"
  BY <1>1, AnswersEnd
<1> QED
  BY <1>1, <1>2, <1>3, <1>4, <1>5, <1>6 DEF CommandsInv, Progress

LEMMA StartKeeps ==
  ASSUME CommandsInv, NEW c \in WriteCommands, StartCommand(c)
  PROVE  CommandsInv'
<1>1. PICK writes, code : writes = Plan(c).writes /\ code = Plan(c).exit
  OBVIOUS
<1>2. /\ result # "running" /\ meddled' = FALSE
      /\ job' = [command |-> c, writes |-> writes, done |-> 0, seen |-> revision, exit |-> code]
      /\ result' = IF writes = <<>> THEN code ELSE "running"
      /\ UNCHANGED <<machine, files, revision, lost, interrupted>>
  BY <1>1 DEF StartCommand
<1>3. PlanFits(c, writes, code)
  BY <1>1, <1>2, EveryPlanFits
<1>4. Len(writes) \in Nat /\ (writes = <<>> <=> Len(writes) = 0)
  BY <1>3 DEF PlanFits
<1>5. /\ job'.command = c /\ job'.writes = writes /\ job'.done = 0 /\ job'.seen = revision
      /\ job'.exit = code
  BY <1>2
<1>6. \A w : Writes(c, revision, w) => Writes(c, revision, w)'
  BY <1>2 DEF Writes, Holds
<1>7. JobShape'
  <2>1. PICK edits : edits = revision
    OBVIOUS
  <2>2. \A i \in 1..Len(writes) : Writes(c, edits, writes[i])'
    BY <1>2, <1>3, <2>1 DEF PlanFits, Writes, Holds
  <2>3. /\ c.name \in Caching /\ writes # <<>> => writes[1] = OpenIndex
        /\ c.name = "init" => \A i \in 2..Len(writes) : writes[i].mode # "w"
        /\ code # "running"
    <3>1. \A i \in 2..Len(writes) : i \in 1..Len(writes) /\ i # 1
      BY <1>4
    <3> QED
      BY <1>3, <3>1 DEF PlanFits
  <2>4. job' = [command |-> c, writes |-> writes, done |-> job'.done, seen |-> edits,
                exit |-> code]
    BY <1>2, <1>5, <2>1
  <2>5. job'.done \in 0..Len(writes) /\ (~meddled' => edits = revision')
    BY <1>2, <1>4, <1>5, <2>1
  <2> QED
    BY <1>4, <2>2, <2>3, <2>4, <2>5 DEF JobShape
<1>8. \A name : Left(name)' <=> There(writes, name)
  BY <1>5 DEF Left, There
<1>9. Progress'
  <2>1. job' # NoJob
    BY <1>5, CommandAssumption, NoJobFields
  <2>2. result' = "running" => writes # <<>>
    BY <1>2, <1>3 DEF PlanFits
  <2>3. result' = "success" => writes = <<>> /\ code = "success"
    BY <1>2
  <2> QED
    BY <1>4, <1>5, <2>1, <2>2, <2>3 DEF Progress
<1>10. FilesShape'
  BY <1>2 DEF CommandsInv, FilesShape
<1>11. \A name : Under(name)' =>
         c.name = name /\ (c.name \notin Caching => code = "success")
  <2>1. writes = <<>> => result' = code
    BY <1>2
  <2>2. c.name \notin Caching /\ code # "success" => result' # "success" /\ result' # "running"
    BY <1>3, <2>1 DEF PlanFits
  <2> QED
    BY <1>5, <2>2 DEF Under
<1>12. Goals'
  <2>1. ASSUME Under("init")', ~c.dry, ~c.mcp
        PROVE  /\ Compatible(files["config"]) \/ There(writes, "config")
               /\ \A e \in IgnoreEntries :
                    \/ files["ignore"] # NoFile /\ e \in files["ignore"][3]
                    \/ \E i \in 1..Len(writes) :
                         writes[i].name = "ignore" /\ e \in writes[i].content
    BY <1>3, <1>11, <2>1 DEF PlanFits, Caching
  <2>2. ASSUME NEW name \in {"graph", "context"}, Under(name)' PROVE There(writes, name)
    BY <1>3, <1>11, <2>2 DEF PlanFits, Caching
  <2>3. ASSUME Under("apply")' PROVE \A i \in DOMAIN c.blocks : There(writes, c.blocks[i])
    BY <1>3, <1>11, <2>3 DEF PlanFits
  <2>4. ASSUME Under("cacheInit")' \/ (Under("rebuild")' /\ ~c.dry), code = "success"
        PROVE  /\ files["state"] = <<"fuzit", revision, "cache">> \/ There(writes, "state")
               /\ files["index"] # NoFile \/ There(writes, "index")
                    \/ (c.name = "rebuild" /\ "purge" \in interrupted)
    BY <1>3, <1>11, <2>4 DEF PlanFits, State
  <2>5. job'.done + 1 = 1
    BY <1>5
  <2> QED
    <3>1. InitGoal'
      BY <1>2, <1>5, <1>8, <2>1, <2>5 DEF InitGoal
    <3>2. CreateGoal' /\ ApplyGoal'
      BY <1>5, <1>8, <2>2, <2>3 DEF CreateGoal, ApplyGoal
    <3>3. StoreGoal'
      BY <1>2, <1>5, <1>8, <2>4 DEF StoreGoal
    <3> QED
      BY <3>1, <3>2, <3>3 DEF Goals
<1>13. IndexBeside'
  <2>1. ~(job'.done >= 1)
    BY <1>5
  <2>2. c.name = "purge" /\ result' = "running" => There(writes, "state")
    <3>1. result' = "running" => writes # <<>>
      BY <1>2, <1>3 DEF PlanFits
    <3> QED
      BY <1>3, <3>1 DEF PlanFits
  <2>3. files["state"] # NoFile => files["index"] # NoFile \/ "purge" \in interrupted
    BY <1>2 DEF CommandsInv, IndexBeside
  <2> QED
    BY <1>2, <1>5, <1>8, <2>1, <2>2, <2>3 DEF IndexBeside
<1>14. Losses'
  <2>1. c.name = "init" =>
          \A i \in 1..Len(writes) : writes[i].mode = "w" => ~Compatible(files["config"])
    BY <1>3 DEF PlanFits
  <2>2. job'.done + 1 = 1
    BY <1>5
  <2> QED
    BY <1>2, <1>5, <2>1, <2>2 DEF CommandsInv, Losses
<1> QED
  BY <1>7, <1>9, <1>10, <1>12, <1>13, <1>14 DEF CommandsInv

\* A command at work has a next write.
Working(c, writes, edits, code, n, w) ==
  /\ job = [command |-> c, writes |-> writes, done |-> n, seen |-> edits, exit |-> code]
  /\ Len(writes) \in Nat /\ n \in Nat /\ n < Len(writes) /\ code # "running"
  /\ \A i \in 1..Len(writes) : Writes(c, edits, writes[i])
  /\ c.name \in Caching => writes[1] = OpenIndex
  /\ c.name = "init" => \A i \in 2..Len(writes) : writes[i].mode # "w"
  /\ ~meddled => edits = revision
  /\ n + 1 \in 1..Len(writes) /\ w = writes[n + 1] /\ Writes(c, edits, w)
  /\ w.name \in FileNames
  /\ w = job.writes[job.done + 1] /\ job # NoJob

LEMMA AtWork ==
  ASSUME CommandsInv, result = "running"
  PROVE  \E c \in WriteCommands : \E writes, edits, code, n, w :
           Working(c, writes, edits, code, n, w)
<1>1. job # NoJob /\ job.done < Len(job.writes)
  BY DEF CommandsInv, Progress
<1>2. PICK c \in WriteCommands : \E writes, edits, code :
        /\ job = [command |-> c, writes |-> writes, done |-> job.done, seen |-> edits, exit |-> code]
        /\ Len(writes) \in Nat /\ job.done \in 0..Len(writes) /\ code # "running"
        /\ \A i \in 1..Len(writes) : Writes(c, edits, writes[i])
        /\ c.name \in Caching /\ writes # <<>> => writes[1] = OpenIndex
        /\ c.name = "init" => \A i \in 2..Len(writes) : writes[i].mode # "w"
        /\ ~meddled => edits = revision
  BY <1>1 DEF CommandsInv, JobShape
<1>3. PICK writes, edits, code :
        /\ job = [command |-> c, writes |-> writes, done |-> job.done, seen |-> edits, exit |-> code]
        /\ Len(writes) \in Nat /\ job.done \in 0..Len(writes) /\ code # "running"
        /\ \A i \in 1..Len(writes) : Writes(c, edits, writes[i])
        /\ c.name \in Caching /\ writes # <<>> => writes[1] = OpenIndex
        /\ c.name = "init" => \A i \in 2..Len(writes) : writes[i].mode # "w"
        /\ ~meddled => edits = revision
  BY <1>2
<1>4. PICK n : n = job.done
  OBVIOUS
<1>5. n \in Nat /\ n < Len(writes) /\ job.writes = writes
  BY <1>1, <1>3, <1>4
<1>6. n + 1 \in 1..Len(writes) /\ writes # <<>>
  BY <1>3, <1>5, NoWrites
<1>7. PICK w : w = writes[n + 1]
  OBVIOUS
<1>8. Writes(c, edits, w)
  BY <1>3, <1>6, <1>7
<1>9. w.name \in FileNames
  BY <1>8, WriteFields DEF Writes, FileNames, OpenIndex
<1>10. job = [command |-> c, writes |-> writes, done |-> n, seen |-> edits, exit |-> code]
  BY <1>3, <1>4
<1>11. w = job.writes[job.done + 1]
  BY <1>4, <1>5, <1>7
<1>12. Working(c, writes, edits, code, n, w)
  BY <1>1, <1>3, <1>5, <1>6, <1>7, <1>8, <1>9, <1>10, <1>11 DEF Working
<1> QED
  BY <1>12

\* What a write may overwrite is a target of an apply or the configuration of a
\* forced init.
LEMMA LossesGrow ==
  ASSUME CommandsInv, result = "running", NEW w, w = job.writes[job.done + 1],
         revision' = revision, lost' \subseteq lost \cup Overwritten(w)
  PROVE  /\ \A l \in lost' : l.command \in {"init", "apply"}
         /\ \A l \in lost' : l.command = "init" =>
              l.name = "config" /\ (Compatible(l.content) => revision' > 0)
<1>1. PICK c \in WriteCommands : \E writes, edits, code, n, v :
        Working(c, writes, edits, code, n, v)
  BY AtWork
<1>2. PICK writes, edits, code, n, v : Working(c, writes, edits, code, n, v)
  BY <1>1
<1>3. /\ job.command = c /\ job # NoJob /\ job.done = n /\ job.writes = writes
      /\ Writes(c, edits, w) /\ n \in Nat /\ n + 1 \in 1..Len(writes) /\ w = writes[n + 1]
  BY <1>2 DEF Working
<1>4. ASSUME NEW l \in Overwritten(w)
      PROVE  /\ l.command \in {"init", "apply"}
             /\ l.command = "init" =>
                  l.name = "config" /\ (Compatible(l.content) => revision' > 0)
  <2>1. /\ w.mode = "w" /\ files[w.name] # NoFile /\ Head(files[w.name]) = "user"
        /\ l.name = w.name /\ l.content = files[w.name] /\ l.command = c.name
    BY <1>3 DEF Overwritten
  <2>2. w.name # "state"
    BY <2>1 DEF CommandsInv, FilesShape
  <2>3. w # OpenIndex
    BY <2>1, WriteFields DEF OpenIndex
  <2>4. \/ c.name = "init" /\ w.name = "config"
        \/ c.name = "apply"
    BY <1>3, <2>1, <2>2, <2>3 DEF Writes
  <2>5. CASE c.name = "init"
    <3>1. n + 1 \in (job.done + 1)..Len(job.writes) /\ job.writes[n + 1].mode = "w"
      BY <1>3, <2>1
    <3>2. ~Compatible(files["config"]) \/ revision > 0
      BY <1>3, <2>5, <3>1 DEF CommandsInv, Losses
    <3> QED
      BY <2>1, <2>4, <2>5, <3>2
  <2> QED
    BY <2>1, <2>4, <2>5
<1>5. Losses
  BY DEF CommandsInv
<1> QED
  BY <1>4, <1>5 DEF Losses


\* The files after the next write.
Written(w) ==
  /\ FilesShape'
  /\ \A name \in FileNames \ {w.name} : files'[name] = files[name]
  /\ w.name # "ignore" => files'[w.name] = w.content
  /\ w.name = "ignore" =>
       /\ files'["ignore"] # NoFile
       /\ \A e : e \in w.content \/ (w.mode # "wx" /\ files["ignore"] # NoFile
                                       /\ e \in files["ignore"][3]) =>
            e \in files'["ignore"][3]

LEMMA AfterWrite ==
  ASSUME CommandsInv, NEW c, NEW edits, NEW w, Writes(c, edits, w), w.name \in FileNames,
         files' = [files EXCEPT ![w.name] = After(w)], revision' = revision,
         interrupted' = interrupted
  PROVE  Written(w)
<1>1. FilesShape
  BY DEF CommandsInv
<1>2. /\ files = [name \in FileNames |-> files[name]]
      /\ \A name \in FileNames \ {w.name} : files'[name] = files[name]
      /\ files'[w.name] = After(w)
      /\ files' = [name \in FileNames |-> files'[name]]
  BY <1>1 DEF FilesShape
<1>3. CASE w.name # "ignore"
  <2>1. After(w) = w.content
    BY <1>3 DEF After
  <2>2. w.content # Torn
    <3>1. OpenIndex.content = Ours("index")
      BY WriteFields DEF OpenIndex
    <3>2. PICK all : all = (Holds("listable") /\ Holds("readable"))
      OBVIOUS
    <3>3. \/ w.content \in {Ours("config"), Ours("block"), NoFile}
          \/ w.content = <<"fuzit", edits, all>>
          \/ w.content = <<"fuzit", edits, IF c.name = "watch" THEN "watch" ELSE "cache">>
          \/ w = OpenIndex
      BY <1>3, <3>2 DEF Writes
    <3>4. \A what : Ours(what) # Torn
      BY Contents DEF Ours
    <3> QED
      BY <3>1, <3>3, <3>4, Contents
  <2>3. w.name = "state" /\ w.content # NoFile => Head(w.content) = "fuzit"
    <3>1. w # OpenIndex \/ w.name = "index"
      BY WriteFields DEF OpenIndex
    <3>2. w.name = "state" =>
            \/ w.content = <<"fuzit", edits, IF c.name = "watch" THEN "watch" ELSE "cache">>
            \/ w.content = NoFile
      BY <3>1, CommandAssumption DEF Writes
    <3> QED
      BY <3>2, Contents
  <2>4. "ignore" \in FileNames /\ "state" \in FileNames
    BY DEF FileNames
  <2>5. FilesShape'
    BY <1>1, <1>2, <1>3, <2>1, <2>2, <2>3, <2>4 DEF FilesShape
  <2> QED
    BY <1>2, <1>3, <2>1, <2>5 DEF Written
<1>4. CASE w.name = "ignore"
  <2>1. After(w) = IF w.mode = "wx" \/ files["ignore"] = NoFile
                   THEN <<"fuzit", "ignore", w.content>>
                   ELSE [files["ignore"] EXCEPT ![3] = @ \cup w.content]
    BY <1>4 DEF After
  <2>2. PICK o, s :
          /\ After(w) = <<o, "ignore", s>>
          /\ \A e : e \in w.content \/ (w.mode # "wx" /\ files["ignore"] # NoFile
                                          /\ e \in files["ignore"][3]) => e \in s
    <3>1. CASE w.mode = "wx" \/ files["ignore"] = NoFile
      BY <2>1, <3>1
    <3>2. CASE w.mode # "wx" /\ files["ignore"] # NoFile
      <4>1. PICK o, s : files["ignore"] = <<o, "ignore", s>>
        BY <1>1, <3>2 DEF FilesShape
      <4>2. After(w) = <<o, "ignore", s \cup w.content>> /\ files["ignore"][3] = s
        BY <2>1, <3>2, <4>1, IgnoreGrows, Contents
      <4> QED
        BY <4>2
    <3> QED
      BY <3>1, <3>2
  <2>3. /\ files'["ignore"] = <<o, "ignore", s>> /\ files'["ignore"][1] = o
        /\ files'["ignore"][3] = s
        /\ files'["ignore"] # NoFile /\ files'["ignore"] # Torn
    BY <1>2, <1>4, <2>2, Contents
  <2>4. "state" \in FileNames \ {w.name}
    BY <1>4 DEF FileNames
  <2>5. FilesShape'
    BY <1>1, <1>2, <1>4, <2>3, <2>4 DEF FilesShape
  <2> QED
    BY <1>2, <1>4, <2>2, <2>3, <2>5 DEF Written
<1> QED
  BY <1>3, <1>4

\* A command that fails at a write promises nothing any more.
LEMMA FailureKeeps ==
  ASSUME CommandsInv, result = "running", NEW w, w = job.writes[job.done + 1],
         result' \in {"validation", "internal", "killed"}, job' = job, machine' = machine,
         revision' = revision, meddled' = meddled, interrupted \subseteq interrupted',
         \/ UNCHANGED <<files, lost>>
         \/ /\ w.name \notin {"index", "state", "ignore"} /\ interrupted' # {}
            /\ files' = [files EXCEPT ![w.name] = Torn]
            /\ lost' = lost \cup Overwritten(w),
         job.command.name = "purge" => "purge" \in interrupted'
  PROVE  CommandsInv'
<1>1. PICK c \in WriteCommands : \E writes, edits, code, n, v :
        Working(c, writes, edits, code, n, v)
  BY AtWork
<1>2. w.name \in FileNames /\ job # NoJob
  BY <1>1 DEF Working
<1>3. job # NoJob /\ JobShape'
  <2>1. JobShape
    BY <1>2 DEF CommandsInv
  <2> QED
    BY <1>2, <2>1 DEF JobShape, Writes, Holds
<1>4. Progress' /\ Goals'
  BY DEF Progress, Goals, InitGoal, CreateGoal, ApplyGoal, StoreGoal, Under
<1>5. /\ files' = [name \in FileNames |-> files'[name]]
      /\ \A name \in {"index", "state", "ignore"} : files'[name] = files[name]
      /\ \A name \in FileNames : files'[name] = files[name]
                                   \/ (files'[name] = Torn /\ interrupted' # {})
  BY <1>2 DEF CommandsInv, FilesShape, FileNames
<1>6. FilesShape'
  BY <1>5 DEF CommandsInv, FilesShape
<1>7. IndexBeside'
  BY <1>3, <1>5 DEF CommandsInv, IndexBeside
<1>8. Losses'
  <2>1. lost' \subseteq lost \cup Overwritten(w)
    OBVIOUS
  <2>2. /\ \A l \in lost' : l.command \in {"init", "apply"}
        /\ \A l \in lost' : l.command = "init" =>
             l.name = "config" /\ (Compatible(l.content) => revision' > 0)
    BY <2>1, LossesGrow
  <2> QED
    BY <2>2 DEF Losses
<1> QED
  BY <1>3, <1>4, <1>6, <1>7, <1>8 DEF CommandsInv

LEMMA WriteFailsKeeps ==
  ASSUME CommandsInv, NEW killed, WriteFails(killed)
  PROVE  CommandsInv'
<1>1. PICK w : w = job.writes[job.done + 1]
  OBVIOUS
<1>2. /\ result = "running"
      /\ IF w.name \in {"index", "state", "ignore"} \/ (w.mode = "wx" /\ files[w.name] # NoFile)
         THEN UNCHANGED <<files, lost>>
         ELSE /\ files' = [files EXCEPT ![w.name] = Torn]
              /\ lost' = lost \cup Overwritten(w)
      /\ result' = IF killed THEN "killed" ELSE FailureExit
      /\ interrupted' = interrupted \cup {job.command.name}
      /\ UNCHANGED <<machine, revision, job, meddled, issued>>
  BY <1>1 DEF WriteFails
<1>3. result' \in {"validation", "internal", "killed"}
  BY <1>2 DEF FailureExit
<1> QED
  BY <1>1, <1>2, <1>3, FailureKeeps

LEMMA EditKeeps ==
  ASSUME CommandsInv, Edit
  PROVE  CommandsInv'
<1>1. /\ revision' = revision + 1 /\ meddled' = TRUE
      /\ UNCHANGED <<machine, job, result, lost, interrupted, issued>>
      /\ \/ UNCHANGED files
         \/ \E name \in {"config", "graph", "context"} : \E content :
              content # Torn /\ files' = [files EXCEPT ![name] = content]
  BY Contents DEF Edit, Users
<1>2. revision \in Nat /\ revision' \in Nat /\ revision' > 0
  BY <1>1 DEF CommandsInv, FilesShape
<1>3. {"config", "graph", "context", "index", "state", "ignore"} \subseteq FileNames
  BY DEF FileNames
<1>4. /\ files' = [name \in FileNames |-> files'[name]]
      /\ \A name \in {"index", "state", "ignore"} : files'[name] = files[name]
      /\ \A name \in FileNames : files'[name] = files[name] \/ files'[name] # Torn
  BY <1>1, <1>3 DEF CommandsInv, FilesShape
<1>5. FilesShape'
  BY <1>1, <1>2, <1>4 DEF CommandsInv, FilesShape
<1>6. job' = NoJob \/ JobShape'
  BY <1>1 DEF CommandsInv, JobShape, Writes, Holds
<1>7. Progress' /\ Goals'
  BY <1>1 DEF CommandsInv, Progress, Goals
<1>8. IndexBeside'
  BY <1>1, <1>4 DEF CommandsInv, IndexBeside, Left
<1>9. Losses'
  BY <1>1, <1>2 DEF CommandsInv, Losses
<1> QED
  BY <1>5, <1>6, <1>7, <1>8, <1>9 DEF CommandsInv


LEMMA WriteNextKeeps ==
  ASSUME CommandsInv, WriteNext
  PROVE  CommandsInv'
<1>0. result = "running"
  BY DEF WriteNext
<1>1. PICK c \in WriteCommands : \E writes, edits, code, n, w :
        Working(c, writes, edits, code, n, w)
  BY <1>0, AtWork
<1>a. PICK writes, edits, code, n, w : Working(c, writes, edits, code, n, w)
  BY <1>1
<1>2. /\ job = [command |-> c, writes |-> writes, done |-> n, seen |-> edits, exit |-> code]
      /\ Len(writes) \in Nat /\ n \in Nat /\ n < Len(writes) /\ code # "running"
      /\ \A i \in 1..Len(writes) : Writes(c, edits, writes[i])
      /\ c.name \in Caching => writes[1] = OpenIndex
      /\ c.name = "init" => \A i \in 2..Len(writes) : writes[i].mode # "w"
      /\ ~meddled => edits = revision
      /\ n + 1 \in 1..Len(writes) /\ w = writes[n + 1] /\ Writes(c, edits, w)
      /\ w.name \in FileNames
  BY <1>a DEF Working
<1>3. /\ job.command = c /\ job.writes = writes /\ job.done = n /\ job.seen = edits
      /\ job.exit = code /\ w = job.writes[job.done + 1] /\ job # NoJob
  BY <1>a DEF Working
<1>4. UNCHANGED <<machine, revision, meddled, interrupted, issued>>
  BY DEF WriteNext
<1>5. CASE w.mode = "wx" /\ files[w.name] # NoFile
  <2>1. result' = FailureExit /\ UNCHANGED <<files, job, lost>>
    BY <1>3, <1>5 DEF WriteNext
  <2>2. result' \in {"validation", "internal", "killed"}
    BY <2>1 DEF FailureExit
  <2>3. job.command.name # "purge"
    BY <1>2, <1>3, <1>5 DEF Writes, Caching
  <2> QED
    BY <1>0, <1>3, <1>4, <2>1, <2>2, <2>3, FailureKeeps
<1>6. CASE ~(w.mode = "wx" /\ files[w.name] # NoFile)
  <2>1. /\ files' = [files EXCEPT ![w.name] = After(w)]
        /\ lost' = lost \cup Overwritten(w)
        /\ job' = [job EXCEPT !.done = @ + 1]
        /\ result' = IF n + 1 = Len(writes) THEN code ELSE "running"
    BY <1>3, <1>6 DEF WriteNext
  <2>2. /\ job' = [command |-> c, writes |-> writes, done |-> n + 1, seen |-> edits, exit |-> code]
        /\ job'.command = c /\ job'.writes = writes /\ job'.done = n + 1 /\ job'.seen = edits
        /\ job'.exit = code
    BY <1>2, <2>1
  <2>3. job' # NoJob
    BY <2>2, CommandAssumption, NoJobFields
  <2>4. /\ FilesShape'
        /\ \A name \in FileNames \ {w.name} : files'[name] = files[name]
        /\ w.name # "ignore" => files'[w.name] = w.content
        /\ w.name = "ignore" =>
             /\ files'["ignore"] # NoFile
             /\ \A e : e \in w.content \/ (w.mode # "wx" /\ files["ignore"] # NoFile
                                             /\ e \in files["ignore"][3]) =>
                  e \in files'["ignore"][3]
    <3>1. Written(w)
      BY <1>2, <1>4, <2>1, AfterWrite
    <3> QED
      BY <3>1 DEF Written
  <2>5. JobShape'
    <3>1. \A i \in 1..Len(writes) : Writes(c, edits, writes[i])'
      BY <1>2, <1>4 DEF Writes, Holds
    <3>2. job'.done \in 0..Len(writes)
      BY <1>2, <2>2
    <3>3. job' = [command |-> c, writes |-> writes, done |-> job'.done, seen |-> edits,
                  exit |-> code]
      BY <2>2
    <3> QED
      BY <1>2, <1>4, <3>1, <3>2, <3>3 DEF JobShape
  \* what is left
  <2>6. \A i : i \in (n + 1)..Len(writes) => i = n + 1 \/ i \in (n + 2)..Len(writes)
    BY <1>2
  <2>7. \A i : i \in (job'.done + 1)..Len(job'.writes) <=> i \in (n + 2)..Len(writes)
    BY <1>2, <2>2
  <2>8. \A name : Left(name) => Left(name)' \/ w.name = name
    BY <1>2, <1>3, <2>2, <2>6, <2>7 DEF Left
  <2>9. \A name : Left(name)' => n + 1 # Len(writes)
    <3>1. n + 1 = Len(writes) => \A i : i \notin (n + 2)..Len(writes)
      BY <1>2
    <3>2. \A name : Left(name)' => \E i : i \in (job'.done + 1)..Len(job'.writes)
      BY DEF Left
    <3> QED
      BY <2>7, <3>1, <3>2
  <2>10. {"config", "ignore", "graph", "context", "index", "state"} \subseteq FileNames
         /\ Targets \subseteq FileNames
    BY DEF FileNames
  <2>11. Progress'
    BY <1>2, <2>1, <2>2, <2>3 DEF Progress
  <2>12. /\ w.name = "config" => w.content = Ours("config")
         /\ w.name = "index" => w.content = Ours("index") \/ c.name = "purge"
         /\ w.name = "state" => c.name \in Caching \/ w.content = NoFile
         /\ w.name = "state" /\ c.name \in {"cacheInit", "rebuild"} =>
              w.content = <<"fuzit", edits, "cache">>
         /\ c.name = "init" => w.name \in {"config", "ignore"} /\ w.mode \in {"w", "wx", "append"}
         /\ c.name \in {"graph", "context"} => w.name = c.name /\
              w.content = <<"fuzit", edits, Holds("listable") /\ Holds("readable")>>
         /\ c.name = "apply" => w.content = Ours("block") /\ w.name \in Targets
         /\ c.name = "purge" => w.content = NoFile /\ w.name \in {"index", "state"}
    BY <1>2, WriteFields, CommandAssumption DEF Writes, OpenIndex, Caching
  <2>13. Ours("index") # NoFile /\ Compatible(Ours("config"))
    BY Contents DEF Ours, Compatible
  <2>14. Goals'
    <3>1. SUFFICES ASSUME ~meddled PROVE Goals'
      BY <1>4 DEF Goals
    <3>2. \A name : Under(name)' => Under(name) /\ c.name = name
      BY <1>0, <1>3, <2>2 DEF Under
    <3>3. ASSUME Under("init")', ~c.dry, ~c.mcp
          PROVE  /\ Compatible(files'["config"]) \/ Left("config")'
                 /\ \A e \in IgnoreEntries :
                      \/ files'["ignore"] # NoFile /\ e \in files'["ignore"][3]
                      \/ \E i \in (n + 2)..Len(writes) :
                           writes[i].name = "ignore" /\ e \in writes[i].content
      <4>1. Compatible(files["config"]) \/ Left("config")
        BY <1>3, <3>1, <3>2, <3>3 DEF CommandsInv, Goals, InitGoal
      <4>2. Compatible(files'["config"]) \/ Left("config")'
        <5>1. CASE w.name = "config"
          BY <2>4, <2>12, <2>13, <5>1
        <5>2. CASE w.name # "config"
          BY <2>4, <2>8, <2>10, <4>1, <5>2
        <5> QED
          BY <5>1, <5>2
      <4>3. ASSUME NEW e \in IgnoreEntries
            PROVE  \/ files'["ignore"] # NoFile /\ e \in files'["ignore"][3]
                   \/ \E i \in (n + 2)..Len(writes) :
                        writes[i].name = "ignore" /\ e \in writes[i].content
        <5>1. \/ files["ignore"] # NoFile /\ e \in files["ignore"][3]
              \/ \E i \in (n + 1)..Len(writes) :
                   writes[i].name = "ignore" /\ e \in writes[i].content
          BY <1>3, <3>1, <3>2, <3>3 DEF CommandsInv, Goals, InitGoal
        <5>2. CASE files["ignore"] # NoFile /\ e \in files["ignore"][3]
          BY <1>6, <2>4, <2>10, <5>2
        <5>3. ASSUME NEW i \in (n + 1)..Len(writes), writes[i].name = "ignore",
                     e \in writes[i].content
              PROVE  \/ files'["ignore"] # NoFile /\ e \in files'["ignore"][3]
                     \/ \E j \in (n + 2)..Len(writes) :
                          writes[j].name = "ignore" /\ e \in writes[j].content
          <6>1. CASE i = n + 1
            BY <1>2, <2>4, <5>3, <6>1
          <6>2. CASE i # n + 1
            BY <2>6, <5>3, <6>2
          <6> QED
            BY <6>1, <6>2
        <5> QED
          BY <5>1, <5>2, <5>3
      <4> QED
        BY <4>2, <4>3
    <3>4. ASSUME NEW name \in {"graph", "context"}, Under(name)'
          PROVE  files'[name] = <<"fuzit", edits, Holds("listable") /\ Holds("readable")>>
      BY <2>4, <2>12, <3>2, <3>4
    <3>5. ASSUME Under("apply")', NEW i \in DOMAIN c.blocks
          PROVE  files'[c.blocks[i]] = Ours("block") \/ Left(c.blocks[i])'
      <4>1. files[c.blocks[i]] = Ours("block") \/ Left(c.blocks[i])
        BY <1>3, <3>1, <3>2, <3>5 DEF CommandsInv, Goals, ApplyGoal
      <4>2. c.blocks \in Seq(Targets) /\ c.name = "apply"
        BY <3>2, <3>5, CommandAssumption
      <4>3. c.blocks[i] \in Targets
        BY <4>2, LenProperties
      <4>4. w.name # "ignore"
        BY <2>12, <4>2, CommandAssumption
      <4> QED
        BY <2>4, <2>8, <2>10, <2>12, <4>1, <4>2, <4>3, <4>4
    <3>6. ASSUME Under("cacheInit")' \/ (Under("rebuild")' /\ ~c.dry), code = "success"
          PROVE  /\ files'["state"] = <<"fuzit", edits, "cache">> \/ Left("state")'
                 /\ files'["index"] # NoFile \/ Left("index")'
                      \/ (c.name = "rebuild" /\ "purge" \in interrupted)
      <4>1. /\ files["state"] = <<"fuzit", edits, "cache">> \/ Left("state")
            /\ files["index"] # NoFile \/ Left("index")
                 \/ (c.name = "rebuild" /\ "purge" \in interrupted)
        BY <1>3, <3>1, <3>2, <3>6 DEF CommandsInv, Goals, StoreGoal
      <4>2. c.name \in {"cacheInit", "rebuild"}
        BY <3>2, <3>6
      <4>3. files'["state"] = <<"fuzit", edits, "cache">> \/ Left("state")'
        <5>1. CASE w.name = "state"
          BY <2>4, <2>12, <4>2, <5>1
        <5>2. CASE w.name # "state"
          BY <2>4, <2>8, <2>10, <4>1, <5>2
        <5> QED
          BY <5>1, <5>2
      <4>4. files'["index"] # NoFile \/ Left("index")'
              \/ (c.name = "rebuild" /\ "purge" \in interrupted)
        <5>1. CASE w.name = "index"
          BY <2>4, <2>12, <2>13, <4>2, <5>1
        <5>2. CASE w.name # "index"
          BY <2>4, <2>8, <2>10, <4>1, <5>2
        <5> QED
          BY <5>1, <5>2
      <4> QED
        BY <4>3, <4>4
    <3>7. job'.done + 1 = n + 2
      BY <1>2, <2>2
    <3>8. \A fact : Holds(fact)' <=> Holds(fact)
      BY <1>4 DEF Holds
    <3>9. InitGoal'
      BY <2>2, <3>3, <3>7 DEF InitGoal
    <3>10. CreateGoal'
      BY <2>2, <3>4, <3>8 DEF CreateGoal
    <3>11. ApplyGoal'
      BY <2>2, <3>5 DEF ApplyGoal
    <3>12. StoreGoal'
      BY <1>4, <2>2, <3>6 DEF StoreGoal
    <3> QED
      BY <3>9, <3>10, <3>11, <3>12 DEF Goals
  <2>15. IndexBeside'
    <3>1. /\ c.name \in Caching /\ n >= 1 => files["index"] # NoFile
          /\ c.name = "purge" => files["state"] = NoFile \/ Left("state")
          /\ files["state"] # NoFile =>
               files["index"] # NoFile \/ "purge" \in interrupted \/ c.name = "purge"
      BY <1>0, <1>3 DEF CommandsInv, IndexBeside
    <3>2. w.name = "index" /\ c.name # "purge" => files'["index"] # NoFile
      BY <2>4, <2>12, <2>13
    <3>3. w.name # "index" => files'["index"] = files["index"]
      BY <2>4, <2>10
    <3>4. w.name # "state" => files'["state"] = files["state"]
      BY <2>4, <2>10
    <3>5. c.name \in Caching /\ w.name # "index" => n >= 1
      <4>1. OpenIndex.name = "index"
        BY WriteFields DEF OpenIndex
      <4>2. n = 0 => w = writes[1]
        BY <1>2
      <4> QED
        BY <1>2, <4>1, <4>2
    <3>6. c.name \in Caching => c.name # "purge"
      BY DEF Caching
    <3>7. c.name \in Caching => files'["index"] # NoFile
      BY <3>1, <3>2, <3>3, <3>5, <3>6
    <3>8. c.name = "purge" => files'["state"] = NoFile \/ Left("state")'
      BY <2>4, <2>8, <2>12, <3>1, <3>4
    <3>9. result' # "running" => ~Left("state")'
      BY <2>1, <2>9
    <3>10. ASSUME files'["state"] # NoFile
           PROVE  \/ files'["index"] # NoFile \/ "purge" \in interrupted'
                  \/ c.name = "purge" /\ result' = "running"
      <4>1. CASE c.name = "purge"
        BY <3>8, <3>9, <3>10, <4>1
      <4>2. CASE c.name # "purge" /\ w.name = "state"
        BY <2>4, <2>12, <3>7, <3>10, <4>2
      <4>3. CASE c.name # "purge" /\ w.name # "state"
        BY <1>4, <3>1, <3>2, <3>3, <3>4, <3>10, <4>3
      <4> QED
        BY <4>1, <4>2, <4>3
    <3> QED
      BY <2>2, <2>3, <3>7, <3>8, <3>10 DEF IndexBeside
  <2>16. Losses'
    <3>1. /\ \A l \in lost' : l.command \in {"init", "apply"}
          /\ \A l \in lost' : l.command = "init" =>
               l.name = "config" /\ (Compatible(l.content) => revision' > 0)
      BY <1>0, <1>3, <1>4, <2>1, LossesGrow
    <3>2. c.name = "init" => \A i \in (n + 2)..Len(writes) : writes[i].mode # "w"
      <4>1. \A i \in (n + 2)..Len(writes) : i \in 2..Len(writes)
        BY <1>2
      <4> QED
        BY <1>2, <4>1
    <3> QED
      BY <2>2, <2>7, <3>1, <3>2 DEF Losses
  <2> QED
    BY <2>4, <2>5, <2>11, <2>14, <2>15, <2>16 DEF CommandsInv
<1> QED
  BY <1>5, <1>6

LEMMA CommandsNextKeeps ==
  ASSUME CommandsInv, [CommandsNext]_commandVars
  PROVE  CommandsInv'
<1>1. CASE UNCHANGED commandVars
  <2>1. job' = NoJob \/ JobShape'
    BY <1>1 DEF commandVars, CommandsInv, JobShape, Writes, Holds
  <2>2. Progress' /\ FilesShape' /\ Losses'
    BY <1>1 DEF commandVars, CommandsInv, Progress, FilesShape, Losses
  <2>3. IndexBeside'
    BY <1>1 DEF commandVars, CommandsInv, IndexBeside, Left
  <2>4. Goals'
    BY <1>1 DEF commandVars, CommandsInv, Goals, InitGoal, CreateGoal, ApplyGoal, StoreGoal,
                Under, Left, Holds
  <2> QED
    BY <2>1, <2>2, <2>3, <2>4 DEF CommandsInv
<1>2. CASE CommandsNext
  BY <1>2, AskKeeps, StartKeeps, WriteNextKeeps, WriteFailsKeeps, EditKeeps DEF CommandsNext
<1> QED
  BY <1>1, <1>2


LEMMA InvGivesHonest ==
  ASSUME CommandsInv
  PROVE  CommandsHonest
<1>1. ASSUME NEW name, name # "none", Succeeded(name)
      PROVE  /\ Under(name) /\ ~meddled /\ JobShape
             /\ job.done + 1 > Len(job.writes) /\ job.seen = revision
             /\ \A i : i \notin (job.done + 1)..Len(job.writes)
  <2>1. result = "success" /\ job.command.name = name /\ ~meddled /\ job # NoJob
    BY <1>1, NoJobFields DEF Succeeded
  <2>2. JobShape /\ job.done = Len(job.writes)
    BY <2>1 DEF CommandsInv, Progress
  <2>3. job.seen = revision /\ Len(job.writes) \in Nat
    BY <2>1, <2>2 DEF JobShape
  <2> QED
    BY <2>1, <2>2, <2>3 DEF Under
<1>2. ASSUME NEW name, name # "none", Succeeded(name)
      PROVE  (\A other : ~Left(other)) /\ Goals /\ ~meddled
  <2>1. ~meddled /\ \A i : i \notin (job.done + 1)..Len(job.writes)
    BY <1>1, <1>2
  <2> QED
    BY <2>1 DEF CommandsInv, Left
<1>3. Succeeded("init") /\ ~job.command.dry /\ ~job.command.mcp =>
        Compatible(files["config"]) /\ IgnoreEntries \subseteq files["ignore"][3]
  <2>1. SUFFICES ASSUME Succeeded("init"), ~job.command.dry, ~job.command.mcp
                 PROVE  Compatible(files["config"]) /\ IgnoreEntries \subseteq files["ignore"][3]
    OBVIOUS
  <2>2. InitGoal /\ Under("init") /\ ~Left("config")
        /\ \A i : i \notin (job.done + 1)..Len(job.writes)
    BY <1>1, <1>2, <2>1 DEF Goals
  <2> QED
    BY <2>1, <2>2 DEF InitGoal
<1>4. \A name \in {"graph", "context"} : Succeeded(name) =>
        files[name] = <<"fuzit", job.seen, Holds("listable") /\ Holds("readable")>>
  <2>1. ASSUME NEW name \in {"graph", "context"}, Succeeded(name)
        PROVE  files[name] = <<"fuzit", job.seen, Holds("listable") /\ Holds("readable")>>
    <3>1. CreateGoal /\ Under(name) /\ ~Left(name)
      BY <1>1, <1>2, <2>1 DEF Goals
    <3> QED
      BY <3>1 DEF CreateGoal
  <2> QED
    BY <2>1
<1>5. Succeeded("apply") =>
        \A i \in DOMAIN job.command.blocks : files[job.command.blocks[i]] = Ours("block")
  <2>1. SUFFICES ASSUME Succeeded("apply")
                 PROVE  \A i \in DOMAIN job.command.blocks :
                          files[job.command.blocks[i]] = Ours("block")
    OBVIOUS
  <2>2. ApplyGoal /\ Under("apply") /\ \A other : ~Left(other)
    BY <1>1, <1>2, <2>1 DEF Goals
  <2> QED
    BY <2>2 DEF ApplyGoal
\* a command that stores something and ends well has the exit code of its plan
<1>6. ASSUME Succeeded("cacheInit") \/ (Succeeded("rebuild") /\ ~job.command.dry)
      PROVE  /\ files["state"] = State("cache")
             /\ files["index"] # NoFile
                  \/ (job.command.name = "rebuild" /\ "purge" \in interrupted)
  <2>1. /\ StoreGoal /\ job.seen = revision /\ ~Left("state") /\ ~Left("index")
        /\ Under("cacheInit") \/ (Under("rebuild") /\ ~job.command.dry)
    BY <1>1, <1>2, <1>6 DEF Goals
  <2>2. job.exit = "success"
    BY <1>6, NoJobFields DEF Succeeded, CommandsInv, Progress
  <2> QED
    BY <2>1, <2>2 DEF StoreGoal, State
<1>7. /\ Succeeded("cacheInit") => Verified
      /\ Succeeded("rebuild") /\ ~job.command.dry => Verified \/ "purge" \in interrupted
  BY <1>6 DEF Verified, Succeeded
<1>8. /\ \A l \in lost : l.command \in {"init", "apply"}
      /\ \A l \in lost : l.command = "init" =>
           l.name = "config" /\ (Compatible(l.content) => revision > 0)
      /\ \A name \in FileNames : files[name] = Torn => interrupted # {}
  BY DEF CommandsInv, Losses, FilesShape
<1>9. DoctorExit = "success" =>
        {ConfigExit, StatsExit, UiExit, ContextStdoutExit, GraphQueryExit} = {"success"}
  BY DEF DoctorExit, ConfigExit, StatsExit, UiExit, ContextStdoutExit, GraphQueryExit, Check
<1>10. PluginEnableExit = "success" =>
         PluginDoctorExit = "success" /\ PluginDisableExit = "success"
  BY DEF PluginEnableExit, PluginDoctorExit, PluginDisableExit, PluginFound, Check
<1> QED
  BY <1>3, <1>4, <1>5, <1>7, <1>8, <1>9, <1>10 DEF CommandsHonest

-----------------------------------------------------------------------------
(* The theorem about the commands.                                          *)

LEMMA CommandSteps == [PipelineNext]_pipelineVars => [CommandsNext]_commandVars
BY DEF PipelineNext, pipelineVars

\* Whatever commands follow each other in whatever repository, however often
\* its user edits and wherever a command is killed: what a command that ends
\* successfully says is so, nothing of the user's is overwritten but by an
\* apply or a forced init, and only what was interrupted leaves a torn file.
THEOREM CommandsStayHonest == PipelineSpec => []CommandsHonest
<1>1. PipelineInit => CommandsInv
  BY InitCommandsInv DEF PipelineInit
<1>2. CommandsInv /\ [PipelineNext]_pipelineVars => CommandsInv'
  BY CommandSteps, CommandsNextKeeps
<1> QED
  BY <1>1, <1>2, InvGivesHonest, PTL DEF PipelineSpec

-----------------------------------------------------------------------------
(* Acquisition: paths.                                                      *)

Paths == Seq(STRING)

\* The first names of a path.
LEMMA FirstNames ==
  ASSUME NEW p \in Paths, NEW n \in 0..Len(p)
  PROVE  /\ SubSeq(p, 1, n) \in Paths /\ Len(SubSeq(p, 1, n)) = n
         /\ \A i \in 1..n : SubSeq(p, 1, n)[i] = p[i]
<1>1. Len(p) \in Nat /\ \A i \in 1..Len(p) : p[i] \in STRING
  BY LenProperties, ElementOfSeq DEF Paths
<1>2. n \in Int /\ 1 \in Int /\ \A i \in 1..n : p[i] \in STRING
  BY <1>1
<1>3. /\ SubSeq(p, 1, n) \in Paths
      /\ Len(SubSeq(p, 1, n)) = IF 1 <= n THEN n - 1 + 1 ELSE 0
      /\ \A i \in 1..(n - 1 + 1) : SubSeq(p, 1, n)[i] = p[1 + i - 1]
  BY <1>2, SubSeqProperties DEF Paths
<1> QED
  BY <1>1, <1>3

LEMMA SamePath ==
  ASSUME NEW p \in Paths, NEW q \in Paths, Len(p) = Len(q),
         \A i \in 1..Len(p) : p[i] = q[i]
  PROVE  p = q
BY SeqEqual DEF Paths

LEMMA PathLength ==
  ASSUME NEW p \in Paths
  PROVE  Len(p) \in Nat /\ (p = <<>> <=> Len(p) = 0) /\ <<>> \in Paths
BY LenProperties, EmptySeq DEF Paths

\* What is above a path.
LEMMA AboveIs ==
  ASSUME NEW p \in Paths
  PROVE  \A a : a \in Above(p) <=>
           a \in Paths /\ Len(a) <= Len(p) /\ \A i \in 1..Len(a) : a[i] = p[i]
<1>1. ASSUME NEW a \in Above(p)
      PROVE  a \in Paths /\ Len(a) <= Len(p) /\ \A i \in 1..Len(a) : a[i] = p[i]
  <2>1. PICK n \in 0..Len(p) : a = SubSeq(p, 1, n)
    BY <1>1 DEF Above
  <2> QED
    BY <2>1, FirstNames, PathLength
<1>2. ASSUME NEW a \in Paths, Len(a) <= Len(p), \A i \in 1..Len(a) : a[i] = p[i]
      PROVE  a \in Above(p)
  <2>1. Len(a) \in 0..Len(p)
    BY <1>2, PathLength
  <2>2. PICK b : b = SubSeq(p, 1, Len(a))
    OBVIOUS
  <2>3. b \in Paths /\ Len(a) = Len(b) /\ \A i \in 1..Len(a) : a[i] = b[i]
    BY <1>2, <2>1, <2>2, FirstNames
  <2>4. a = b
    BY <2>3, SamePath
  <2> QED
    BY <2>1, <2>2, <2>4 DEF Above
<1> QED
  BY <1>1, <1>2

LEMMA AboveOrder ==
  /\ \A p \in Paths : p \in Above(p) /\ <<>> \in Above(p)
  /\ \A p \in Paths : \A b \in Above(p) : \A a \in Above(b) : a \in Above(p)
  /\ \A p \in Paths : \A a \in Above(p) : Len(a) = Len(p) => a = p
<1>1. ASSUME NEW p \in Paths PROVE p \in Above(p) /\ <<>> \in Above(p)
  BY AboveIs, PathLength
<1>2. ASSUME NEW p \in Paths, NEW b \in Above(p), NEW a \in Above(b) PROVE a \in Above(p)
  <2>1. b \in Paths /\ Len(b) <= Len(p) /\ \A i \in 1..Len(b) : b[i] = p[i]
    BY AboveIs
  <2>2. a \in Paths /\ Len(a) <= Len(b) /\ \A i \in 1..Len(a) : a[i] = b[i]
    BY <2>1, AboveIs
  <2>3. Len(a) \in Nat /\ Len(b) \in Nat /\ Len(p) \in Nat
    BY <2>1, <2>2, PathLength
  <2>4. Len(a) <= Len(p) /\ \A i \in 1..Len(a) : a[i] = p[i]
    BY <2>1, <2>2, <2>3
  <2> QED
    BY <2>2, <2>4, AboveIs
<1>3. ASSUME NEW p \in Paths, NEW a \in Above(p), Len(a) = Len(p) PROVE a = p
  <2>1. a \in Paths /\ \A i \in 1..Len(a) : a[i] = p[i]
    BY AboveIs
  <2> QED
    BY <1>3, <2>1, SamePath
<1> QED
  BY <1>1, <1>2, <1>3

\* A directory and what is in it.
LEMMA InDirectory ==
  ASSUME NEW c \in Paths, c # <<>>, NEW d, d = Front(c)
  PROVE  /\ d \in Paths /\ Len(c) = Len(d) + 1 /\ d \in Above(c)
         /\ \A a \in Above(c) : a = c \/ a \in Above(d)
<1>1. Len(c) \in Nat /\ Len(c) > 0
  BY PathLength
<1>2. Len(c) - 1 \in 0..Len(c)
  BY <1>1
<1>3. d \in Paths /\ Len(d) = Len(c) - 1 /\ \A i \in 1..Len(d) : d[i] = c[i]
  BY <1>2, FirstNames DEF Front
<1>4. d \in Above(c)
  BY <1>1, <1>3, AboveIs
<1>5. ASSUME NEW a \in Above(c), a # c PROVE a \in Above(d)
  <2>1. a \in Paths /\ Len(a) <= Len(c) /\ \A i \in 1..Len(a) : a[i] = c[i]
    BY AboveIs
  <2>2. Len(a) # Len(c)
    BY <1>5, AboveOrder
  <2>3. Len(a) \in Nat
    BY <2>1, PathLength
  <2>4. Len(a) <= Len(d) /\ \A i \in 1..Len(a) : a[i] = d[i]
    BY <1>1, <1>3, <2>1, <2>2, <2>3
  <2> QED
    BY <1>3, <2>1, <2>4, AboveIs
<1> QED
  BY <1>1, <1>3, <1>4, <1>5

\* The way from a directory to a path below it.
LEMMA WayDown ==
  ASSUME NEW p \in Paths, NEW d \in Above(p), d # p
  PROVE  LET c == SubSeq(p, 1, Len(d) + 1)
         IN  c \in Above(p) /\ c # <<>> /\ Front(c) = d /\ Len(d) + 1 \in 1..Len(p)
<1>1. d \in Paths /\ Len(d) <= Len(p) /\ \A i \in 1..Len(d) : d[i] = p[i]
  BY AboveIs
<1>2. Len(d) \in Nat /\ Len(p) \in Nat /\ Len(d) # Len(p)
  BY <1>1, PathLength, AboveOrder
<1>3. Len(d) + 1 \in 1..Len(p)
  BY <1>1, <1>2
<1>4. PICK c : c = SubSeq(p, 1, Len(d) + 1)
  OBVIOUS
<1>5. c \in Paths /\ Len(c) = Len(d) + 1 /\ \A i \in 1..Len(c) : c[i] = p[i]
  BY <1>2, <1>3, <1>4, FirstNames
<1>6. c \in Above(p) /\ c # <<>>
  BY <1>2, <1>3, <1>5, AboveIs, PathLength
<1>7. Front(c) = d
  <2>1. PICK f : f = Front(c)
    OBVIOUS
  <2>2. f \in Paths /\ Len(c) = Len(f) + 1 /\ f \in Above(c)
    BY <1>5, <1>6, <2>1, InDirectory
  <2>3. Len(f) \in Nat /\ Len(f) <= Len(c) /\ \A i \in 1..Len(f) : f[i] = c[i]
    BY <1>5, <2>2, AboveIs, PathLength
  <2>4. Len(f) = Len(d) /\ \A i \in 1..Len(f) : f[i] = d[i]
    BY <1>1, <1>2, <1>5, <2>2, <2>3
  <2> QED
    BY <1>1, <2>1, <2>2, <2>4, SamePath
<1> QED
  BY <1>3, <1>4, <1>6, <1>7

-----------------------------------------------------------------------------
(* Acquisition: rules, and what a directory lists.                          *)

TreeTyped ==
  /\ IsFiniteSet(DOMAIN tree) /\ DOMAIN tree \subseteq Paths /\ tree \in [DOMAIN tree -> Node]
  /\ <<>> \in DOMAIN tree /\ tree[<<>>].kind = "directory"
  /\ \A p \in DOMAIN tree : \A n \in 0..(Len(p) - 1) :
       SubSeq(p, 1, n) \in DOMAIN tree /\ tree[SubSeq(p, 1, n)].kind = "directory"

LEMMA LayerNumbers == DOMAIN Layers = 1..5
BY DEF Layers

\* The evaluation of the layers is what its reader expects.
LEMMA RulesAgree ==
  ASSUME TreeTyped, NEW p \in DOMAIN tree
  PROVE  LeftOut(p) <=> RuledOut(p)
<1> DEFINE verdicts == {i \in DOMAIN Layers : tree[p].verdict[i] # "none"}
<1>1. verdicts \in SUBSET Nat /\ DOMAIN Layers = 1..5
  BY LayerNumbers
<1>2. RuledOut(p) <=> \/ tree[p].sensitive \/ tree[p].hard
                      \/ verdicts # {} /\ tree[p].verdict[Min(verdicts)] = "exclude"
  BY DEF RuledOut
<1>3. ASSUME NEW i \in DOMAIN Layers, tree[p].verdict[i] = "exclude",
             \A j \in 1..(i - 1) : tree[p].verdict[j] = "none"
      PROVE  verdicts # {} /\ tree[p].verdict[Min(verdicts)] = "exclude"
  <2>1. i \in verdicts
    BY <1>3
  <2>2. \A j \in verdicts : i <= j
    <3>1. ASSUME NEW j \in verdicts, ~(i <= j) PROVE FALSE
      <4>1. j \in 1..5 /\ i \in 1..5
        BY <1>1, <1>3
      <4>2. j \in 1..(i - 1)
        BY <3>1, <4>1
      <4> QED
        BY <1>3, <4>2
    <3> QED
      BY <3>1
  <2>3. \A x \in verdicts : (\A y \in verdicts : x <= y) => x = i
    <3>1. ASSUME NEW x \in verdicts, \A y \in verdicts : x <= y PROVE x = i
      <4>1. x <= i /\ i <= x
        BY <2>1, <2>2, <3>1
      <4>2. x \in 1..5 /\ i \in 1..5
        BY <1>1, <1>3
      <4> QED
        BY <4>1, <4>2
    <3> QED
      BY <3>1
  <2> HIDE DEF verdicts
  <2>4. Min(verdicts) = i
    BY <2>1, <2>2, <2>3 DEF Min
  <2> QED
    BY <1>3, <2>1, <2>4
<1>4. ASSUME verdicts # {}, tree[p].verdict[Min(verdicts)] = "exclude"
      PROVE  \E i \in DOMAIN Layers : /\ tree[p].verdict[i] = "exclude"
                                      /\ \A j \in 1..(i - 1) : tree[p].verdict[j] = "none"
  <2> DEFINE least == Min(verdicts)
  <2>1. least \in verdicts /\ \A y \in verdicts : least <= y
    <3> HIDE DEF verdicts
    <3>1. \E x \in verdicts : \A y \in verdicts : x <= y
      BY <1>1, <1>4, LeastNumber
    <3> QED
      BY <3>1 DEF Min
  <2> HIDE DEF least
  <2>2. least \in 1..5
    BY <1>1, <2>1
  <2>3. \A j \in 1..(least - 1) : tree[p].verdict[j] = "none"
    <3>1. ASSUME NEW j \in 1..(least - 1), tree[p].verdict[j] # "none" PROVE FALSE
      <4>1. j \in 1..5 /\ ~(least <= j)
        BY <2>2
      <4>2. j \in verdicts
        BY <1>1, <3>1, <4>1
      <4> QED
        BY <2>1, <4>1, <4>2
    <3> QED
      BY <3>1
  <2> QED
    BY <1>1, <1>4, <2>2, <2>3 DEF least
<1> HIDE DEF verdicts
<1> QED
  BY <1>2, <1>3, <1>4 DEF LeftOut, Ignored

\* A list of a finite set has every element once.
LEMMA Enumerated ==
  ASSUME NEW S, IsFiniteSet(S), NEW f, f = SetToSeq(S)
  PROVE  /\ f \in Seq(S)
         /\ \A x \in S : \E i \in 1..Len(f) : f[i] = x
         /\ \A i, j \in 1..Len(f) : f[i] = f[j] => i = j
<1>1. PICK n \in Nat : n = Cardinality(S)
  BY FS_CardinalityType
<1>2. ExistsBijection(1..n, S)
  BY <1>1, FS_CardinalityType
<1>3. f \in [1..n -> S] /\ IsInjective(f)
  <2>1. \E g \in [1..n -> S] : IsInjective(g)
    BY <1>2 DEF ExistsBijection, Bijection, Injection
  <2> QED
    BY <1>1, <2>1 DEF SetToSeq
<1>4. f \in Seq(S) /\ Len(f) = n
  BY <1>1, <1>3
<1>5. f \in Injection(1..n, S)
  BY <1>3 DEF Injection
<1>6. f \in Surjection(1..n, S)
  <2>1. 1 \in Int /\ n \in Int
    BY <1>1
  <2>2. Cardinality(1..n) = n
    <3>1. Cardinality(1..n) = IF 1 > n THEN 0 ELSE n - 1 + 1
      BY <2>1, FS_Interval
    <3> QED
      BY <1>1, <3>1
  <2> QED
    BY <1>1, <1>5, <2>2, FS_Injection
<1>7. \A x \in S : \E i \in 1..n : f[i] = x
  BY <1>3, <1>6 DEF Surjection
<1>8. \A i, j \in 1..n : f[i] = f[j] => i = j
  BY <1>3 DEF IsInjective
<1>9. /\ f \in Seq(S) /\ \A x \in S : \E i \in 1..Len(f) : f[i] = x
      /\ \A i, j \in 1..Len(f) : f[i] = f[j] => i = j
  BY <1>4, <1>7, <1>8
<1> QED
  BY <1>9

-----------------------------------------------------------------------------
(* Acquisition: the stack of the traversal.                                 *)

Waiting(s) == {s[i] : i \in 1..Len(s)}
Distinct(s) == \A i, j \in 1..Len(s) : s[i] = s[j] => i = j

LEMMA Popped ==
  ASSUME NEW S, NEW s \in Seq(S), s # <<>>, Distinct(s), NEW t, t = Tail(s)
  PROVE  /\ Head(s) \in S /\ t \in Seq(S) /\ Distinct(t)
         /\ \A x : x \in Waiting(s) <=> x = Head(s) \/ x \in Waiting(t)
         /\ Head(s) \notin Waiting(t)
<1>1. /\ Head(s) \in S /\ t \in Seq(S) /\ Len(t) = Len(s) - 1
      /\ \A i \in 1..Len(t) : t[i] = s[i + 1]
  BY HeadTailProperties
<1>2. Len(s) \in Nat /\ Len(s) > 0 /\ Head(s) = s[1] /\ 1 \in 1..Len(s)
  <2>1. Len(s) \in Nat /\ Len(s) > 0
    BY LenProperties, EmptySeq
  <2> QED
    BY <2>1
<1>3. \A i \in 1..Len(t) : i + 1 \in 1..Len(s) /\ i + 1 # 1
  BY <1>1, <1>2
<1>4. \A i \in 1..Len(s) : i = 1 \/ (i - 1 \in 1..Len(t) /\ (i - 1) + 1 = i)
  BY <1>1, <1>2
<1>5. Distinct(t)
  <2>1. ASSUME NEW i \in 1..Len(t), NEW j \in 1..Len(t), t[i] = t[j] PROVE i = j
    <3>1. i + 1 = j + 1
      BY <1>1, <1>3, <2>1 DEF Distinct
    <3> QED
      BY <3>1, <1>1, <1>2
  <2> QED
    BY <2>1 DEF Distinct
<1>6. Head(s) \notin Waiting(t)
  <2>1. ASSUME NEW i \in 1..Len(t), t[i] = s[1] PROVE FALSE
    BY <1>1, <1>2, <1>3, <2>1 DEF Distinct
  <2> QED
    BY <2>1, <1>2 DEF Waiting
<1>7. ASSUME NEW x \in Waiting(s) PROVE x = Head(s) \/ x \in Waiting(t)
  <2>1. PICK i \in 1..Len(s) : x = s[i]
    BY DEF Waiting
  <2>2. i = 1 \/ (i - 1 \in 1..Len(t) /\ t[i - 1] = s[i])
    BY <1>1, <1>4
  <2> QED
    BY <1>2, <2>1, <2>2 DEF Waiting
<1>8. ASSUME NEW x \in Waiting(t) PROVE x \in Waiting(s)
  <2>1. PICK i \in 1..Len(t) : x = t[i]
    BY DEF Waiting
  <2>2. x = s[i + 1] /\ i + 1 \in 1..Len(s)
    BY <1>1, <1>3, <2>1
  <2> QED
    BY <2>2 DEF Waiting
<1>9. Head(s) \in Waiting(s)
  BY <1>2 DEF Waiting
<1> QED
  BY <1>1, <1>5, <1>6, <1>7, <1>8, <1>9

LEMMA Pushed ==
  ASSUME NEW S, NEW s \in Seq(S), NEW t \in Seq(S), Distinct(s), Distinct(t),
         Waiting(s) \cap Waiting(t) = {}, NEW u, u = s \o t
  PROVE  /\ u \in Seq(S) /\ Distinct(u)
         /\ \A x : x \in Waiting(u) <=> x \in Waiting(s) \/ x \in Waiting(t)
<1>1. /\ u \in Seq(S) /\ Len(u) = Len(s) + Len(t) /\ Len(s) \in Nat /\ Len(t) \in Nat
      /\ \A i \in 1..(Len(s) + Len(t)) : u[i] = IF i <= Len(s) THEN s[i] ELSE t[i - Len(s)]
  BY ConcatProperties, LenProperties
<1>2. \A i \in 1..Len(u) : \/ i \in 1..Len(s) /\ u[i] = s[i]
                           \/ i - Len(s) \in 1..Len(t) /\ u[i] = t[i - Len(s)] /\ ~(i <= Len(s))
  BY <1>1
<1>3. \A i \in 1..Len(s) : i \in 1..Len(u) /\ u[i] = s[i]
  BY <1>1
<1>4. \A i \in 1..Len(t) : i + Len(s) \in 1..Len(u) /\ u[i + Len(s)] = t[i]
  <2> TAKE i \in 1..Len(t)
  <2>1. i + Len(s) \in 1..Len(u) /\ ~(i + Len(s) <= Len(s)) /\ (i + Len(s)) - Len(s) = i
    BY <1>1
  <2> QED
    BY <1>1, <2>1
<1>5. Distinct(u)
  <2>1. ASSUME NEW i \in 1..Len(u), NEW j \in 1..Len(u), u[i] = u[j] PROVE i = j
    <3>0. i \in Nat /\ j \in Nat /\ Len(s) \in Nat
      BY <1>1
    <3>1. CASE i \in 1..Len(s) /\ u[i] = s[i] /\ j \in 1..Len(s) /\ u[j] = s[j]
      BY <2>1, <3>1 DEF Distinct
    <3>2. CASE i \in 1..Len(s) /\ u[i] = s[i] /\ j - Len(s) \in 1..Len(t) /\ u[j] = t[j - Len(s)]
      BY <2>1, <3>2 DEF Waiting
    <3>3. CASE j \in 1..Len(s) /\ u[j] = s[j] /\ i - Len(s) \in 1..Len(t) /\ u[i] = t[i - Len(s)]
      BY <2>1, <3>3 DEF Waiting
    <3>4. CASE /\ i - Len(s) \in 1..Len(t) /\ u[i] = t[i - Len(s)]
               /\ j - Len(s) \in 1..Len(t) /\ u[j] = t[j - Len(s)]
      <4>1. i - Len(s) = j - Len(s)
        BY <2>1, <3>4 DEF Distinct
      <4> QED
        BY <3>0, <4>1
    <3> QED
      BY <1>2, <3>1, <3>2, <3>3, <3>4
  <2> QED
    BY <2>1 DEF Distinct
<1>6. ASSUME NEW x \in Waiting(u) PROVE x \in Waiting(s) \cup Waiting(t)
  BY <1>2 DEF Waiting
<1>7. ASSUME NEW x \in Waiting(s) \cup Waiting(t) PROVE x \in Waiting(u)
  BY <1>3, <1>4 DEF Waiting
<1> QED
  BY <1>1, <1>5, <1>6, <1>7

-----------------------------------------------------------------------------
(* Acquisition: the invariant.                                              *)

Got == {i.path : i \in items}
Reported == {o.path : o \in omissions}

\* Neither a path nor anything above it is ruled out.
LetThrough(p) == \A a \in Above(p) : a # <<>> => ~RuledOut(a)

VersionsTyped ==
  /\ version \in [DOMAIN tree -> {0, 1, Gone}]
  /\ \A p \in DOMAIN tree : version[p] # 0 => tree[p].kind = "file"

\* What waits is let through, nothing of it is above anything else of it, and
\* nothing that is accounted for is below it.
InFront(W) ==
  \A w \in W : /\ w \in DOMAIN tree /\ LetThrough(w)
               /\ \A v \in W : v # w => v \notin Above(w)
               /\ \A q \in Got \cup Reported : w \notin Above(q)

\* What exists is accounted for, or will be when what waits above it is.
Covered(W) ==
  \A p \in DOMAIN tree : tree[p].kind = "file" /\ Exists(p) =>
    p \in Got \/ Above(p) \cap Reported # {} \/ Above(p) \cap W # {}

StackTyped == /\ pending \in Seq(DOMAIN tree) /\ Distinct(pending)
              /\ <<>> \notin Waiting(pending)

\* The traversal has ended early, and says so.
Ended == \E o \in omissions : o.path = <<>> /\ o.failure

ReasonsGiven ==
  \A o \in omissions :
    /\ o.path \in DOMAIN tree
    /\ \/ o.failure
       \/ o.path # <<>> /\ RuledOut(o.path)
       \/ tree[o.path].kind = "file" /\ tree[o.path].text = "binary"

ItemsRight ==
  /\ IsFiniteSet(items)
  /\ \A i \in items : /\ i.path \in DOMAIN tree /\ tree[i.path].kind = "file"
                      /\ LetThrough(i.path)
                      /\ version[i.path] = 0 => i.status # "changed"
  /\ \A i, j \in items : i.path = j.path => i = j
  /\ Got \cap Reported = {}

Reading ==
  /\ pending # <<>> /\ tree[Top].kind = "file" /\ tree[Top].text # "binary"
  /\ version[Top] = 0 => seen = 0

Traversal ==
  /\ walk \in {"none", "walking", "reading", "done"}
  /\ walk = "none" => pending = <<>> /\ items = {} /\ omissions = {}
  /\ walk # "none" => Ended \/ Covered(Waiting(pending))
  /\ walk = "done" => Ended \/ pending = <<>>
  /\ walk = "reading" => Reading

AcquisitionInv ==
  /\ TreeTyped /\ VersionsTyped /\ StackTyped /\ InFront(Waiting(pending))
  /\ ReasonsGiven /\ ItemsRight /\ Traversal

LEMMA InitAcquisitionInv == AcquisitionInit => AcquisitionInv
<1> SUFFICES ASSUME AcquisitionInit PROVE AcquisitionInv
  OBVIOUS
<1>1. TreeTyped
  BY TreeAssumption DEF AcquisitionInit, TreeTyped, Paths
<1>2. VersionsTyped
  BY DEF AcquisitionInit, VersionsTyped
<1>3. pending = <<>> /\ Waiting(pending) = {} /\ Len(pending) = 0 /\ items = {} /\ omissions = {}
  BY DEF AcquisitionInit, Waiting
<1>4. StackTyped
  BY <1>3 DEF StackTyped, Distinct
<1>5. InFront(Waiting(pending)) /\ ReasonsGiven
  BY <1>3 DEF InFront, ReasonsGiven
<1>6. ItemsRight
  BY <1>3, FS_EmptySet DEF ItemsRight, Got
<1>7. Traversal
  BY <1>3 DEF Traversal, AcquisitionInit
<1> QED
  BY <1>1, <1>2, <1>4, <1>5, <1>6, <1>7 DEF AcquisitionInv

\* The invariant at the end of a step gives the property.
LEMMA InvGivesAccount == AcquisitionInv => FilesAccountedFor
<1> SUFFICES ASSUME AcquisitionInv PROVE FilesAccountedFor
  OBVIOUS
<1>1. /\ TreeTyped /\ VersionsTyped /\ StackTyped /\ InFront(Waiting(pending))
      /\ ReasonsGiven /\ ItemsRight /\ Traversal
  BY DEF AcquisitionInv
<1>2. DOMAIN tree \subseteq Paths
  BY <1>1 DEF TreeTyped
<1>3. \A p \in DOMAIN tree : LetThrough(p) <=> \A n \in 1..Len(p) : ~RuledOut(SubSeq(p, 1, n))
  <2> TAKE p \in DOMAIN tree
  <2>0. p \in Paths /\ Len(p) \in Nat
    BY <1>2, PathLength
  <2>1. ASSUME NEW n \in 1..Len(p) PROVE SubSeq(p, 1, n) \in Above(p) /\ SubSeq(p, 1, n) # <<>>
    <3>1. n \in 0..Len(p) /\ n # 0
      BY <2>0
    <3>2. SubSeq(p, 1, n) \in Paths /\ Len(SubSeq(p, 1, n)) = n
      BY <2>0, <3>1, FirstNames
    <3> QED
      BY <3>1, <3>2, PathLength DEF Above
  <2>2. ASSUME NEW a \in Above(p), a # <<>> PROVE \E n \in 1..Len(p) : a = SubSeq(p, 1, n)
    <3>1. PICK n \in 0..Len(p) : a = SubSeq(p, 1, n)
      BY DEF Above
    <3>2. a \in Paths /\ Len(a) = n
      BY <2>0, <3>1, FirstNames
    <3>3. n # 0
      BY <2>2, <3>2, PathLength
    <3>4. n \in 1..Len(p)
      BY <2>0, <3>3
    <3> QED
      BY <3>1, <3>4
  <2> QED
    BY <2>1, <2>2 DEF LetThrough
<1>4. \A p : p \in Expected <=> p \in DOMAIN tree /\ tree[p].kind = "file" /\ LetThrough(p)
  BY <1>3 DEF Expected
<1>5. Got \subseteq Expected /\ Got \cap Reported = {}
  BY <1>1, <1>4 DEF ItemsRight, Got
<1>6. Cardinality(items) = Cardinality(Got)
  <2>1. [i \in items |-> i.path] \in Bijection(items, Got)
    BY <1>1 DEF ItemsRight, Got, Bijection, Injection, Surjection, IsInjective
  <2>2. ExistsBijection(items, Got)
    BY <2>1 DEF ExistsBijection
  <2> QED
    BY <1>1, <2>2, FS_Bijection DEF ItemsRight
<1>7. ASSUME walk = "done" PROVE Ended \/ (pending = <<>> /\ Covered({}))
  <2>1. pending = <<>> => Waiting(pending) = {}
    BY DEF Waiting
  <2> QED
    BY <1>1, <1>7, <2>1 DEF Traversal
<1>8. ASSUME walk = "done", NEW p \in DOMAIN tree, tree[p].kind = "file", version[p] = 0
      PROVE  p \in Got \/ Above(p) \cap Reported # {}
  <2>1. CASE Ended
    <3>1. <<>> \in Above(p)
      BY <1>2, AboveOrder
    <3>2. <<>> \in Reported
      BY <2>1 DEF Ended, Reported
    <3> QED
      BY <3>1, <3>2
  <2>2. CASE Covered({})
    BY <1>8, <2>2 DEF Covered, Exists, Gone
  <2> QED
    BY <1>7, <1>8, <2>1, <2>2
<1>9. ASSUME walk = "done", Acquired, NEW p \in Expected, tree[p].text \in {"plain", "large"},
             Exists(p)
      PROVE  p \in Got
  <2>0. p \in DOMAIN tree /\ tree[p].kind = "file" /\ LetThrough(p) /\ p \in Paths
    BY <1>2, <1>4
  <2>1. ~Ended
    BY <1>9 DEF Ended, Acquired
  <2>2. p \in Got \/ Above(p) \cap Reported # {}
    BY <1>7, <1>9, <2>0, <2>1 DEF Covered
  <2>3. ASSUME NEW a \in Above(p), a \in Reported PROVE FALSE
    <3>1. PICK o \in omissions : o.path = a
      BY <2>3 DEF Reported
    <3>2. ~o.failure /\ a \in DOMAIN tree
      BY <1>1, <1>9, <3>1 DEF Acquired, ReasonsGiven
    <3>3. ~(a # <<>> /\ RuledOut(a))
      BY <2>0 DEF LetThrough
    <3>4. tree[a].kind = "file" /\ tree[a].text = "binary"
      BY <1>1, <3>1, <3>2, <3>3 DEF ReasonsGiven
    <3>5. a # p
      BY <1>9, <3>4
    <3>6. PICK n \in 0..Len(p) : a = SubSeq(p, 1, n)
      BY DEF Above
    <3>7. Len(a) = n /\ a \in Paths /\ Len(p) \in Nat
      BY <2>0, <3>6, FirstNames, PathLength
    <3>8. n # Len(p)
      BY <2>0, <2>3, <3>5, <3>7, AboveOrder
    <3>9. n \in 0..(Len(p) - 1)
      BY <3>7, <3>8
    <3> QED
      BY <1>1, <2>0, <3>4, <3>6, <3>9 DEF TreeTyped
  <2> QED
    BY <2>2, <2>3
<1>10. \A i \in items : version[i.path] = 0 => i.status # "changed"
  BY <1>1 DEF ItemsRight
<1>11. Got = {i.path : i \in items} /\ Reported = {o.path : o \in omissions}
  BY DEF Got, Reported
<1>12. walk = "done" => /\ \A p \in DOMAIN tree : tree[p].kind = "file" /\ version[p] = 0 =>
                             p \in Got \/ Above(p) \cap Reported # {}
                        /\ Acquired => {p \in Expected : tree[p].text \in {"plain", "large"}
                                                           /\ Exists(p)} \subseteq Got
  BY <1>8, <1>9
<1> QED
  BY <1>5, <1>6, <1>10, <1>11, <1>12 DEF FilesAccountedFor

-----------------------------------------------------------------------------
(* Acquisition: entering a directory.                                       *)

LEMMA SameTree ==
  ASSUME tree' = tree
  PROVE  /\ \A p : (RuledOut(p)' <=> RuledOut(p)) /\ (LetThrough(p)' <=> LetThrough(p))
         /\ TreeTyped => TreeTyped'
<1>1. \A p : RuledOut(p)' <=> RuledOut(p)
  BY DEF RuledOut
<1>2. \A p : LetThrough(p)' <=> LetThrough(p)
  BY <1>1 DEF LetThrough
<1>3. TreeTyped => TreeTyped'
  BY DEF TreeTyped
<1> QED
  BY <1>1, <1>2, <1>3

LEMMA AboveRoot == \A a : a \in Above(<<>>) => a = <<>>
<1>1. ASSUME NEW a \in Above(<<>>) PROVE a = <<>>
  <2>1. <<>> \in Paths /\ Len(<<>>) = 0
    BY EmptySeq DEF Paths
  <2>2. a \in Paths /\ Len(a) <= 0
    BY <2>1, AboveIs
  <2> QED
    BY <2>2, PathLength
<1> QED
  BY <1>1

\* What the children of a directory are.
LEMMA ChildrenAre ==
  ASSUME TreeTyped, NEW d \in DOMAIN tree, NEW c \in Children(d)
  PROVE  /\ c \in DOMAIN tree /\ c # <<>> /\ c \in Paths /\ d \in Above(c) /\ c \notin Above(d)
         /\ c \in Above(c)
         /\ \A a \in Above(c) : a = c \/ a \in Above(d)
<1>1. c \in DOMAIN tree /\ c # <<>> /\ d = Front(c) /\ c \in Paths
  BY DEF Children, TreeTyped
<1>2. d \in Paths /\ Len(c) = Len(d) + 1 /\ d \in Above(c)
      /\ \A a \in Above(c) : a = c \/ a \in Above(d)
  BY <1>1, InDirectory
<1>3. c \notin Above(d)
  <2>1. Len(d) \in Nat
    BY <1>2, PathLength
  <2>2. c \in Above(d) => Len(c) <= Len(d)
    BY <1>2, AboveIs
  <2> QED
    BY <1>2, <2>1, <2>2
<1>4. c \in Above(c)
  BY <1>1, AboveOrder
<1> QED
  BY <1>1, <1>2, <1>3, <1>4

\* On the way from a directory to an existing file below it is a child that exists.
LEMMA ChildOnTheWay ==
  ASSUME TreeTyped, VersionsTyped, NEW d \in DOMAIN tree, tree[d].kind = "directory",
         NEW p \in DOMAIN tree, tree[p].kind = "file", Exists(p), d \in Above(p)
  PROVE  \E c \in Children(d) : c \in Above(p) /\ Exists(c)
<1>1. p \in Paths /\ d # p
  BY DEF TreeTyped
<1>2. PICK c : c = SubSeq(p, 1, Len(d) + 1)
  OBVIOUS
<1>3. c \in Above(p) /\ c # <<>> /\ Front(c) = d /\ Len(d) + 1 \in 1..Len(p)
  BY <1>1, <1>2, WayDown
<1>4. Len(p) \in Nat /\ Len(d) + 1 \in 0..Len(p)
  BY <1>1, <1>3, PathLength
<1>5. Len(c) = Len(d) + 1
  BY <1>1, <1>2, <1>4, FirstNames
<1>6. c \in DOMAIN tree /\ Exists(c)
  <2>1. CASE Len(d) + 1 = Len(p)
    BY <1>1, <1>3, <1>5, <2>1, AboveOrder
  <2>2. CASE Len(d) + 1 # Len(p)
    <3>1. Len(d) + 1 \in 0..(Len(p) - 1)
      BY <1>4, <2>2
    <3>2. c \in DOMAIN tree /\ tree[c].kind = "directory"
      BY <1>2, <3>1 DEF TreeTyped
    <3> QED
      BY <3>2 DEF VersionsTyped, Exists, Gone
  <2> QED
    BY <2>1, <2>2
<1> QED
  BY <1>3, <1>6 DEF Children

\* A directory is replaced by what it lists and the rules let through.
LEMMA EnterKeeps ==
  ASSUME AcquisitionInv, NEW d \in DOMAIN tree, tree[d].kind = "directory",
         NEW stack \in Seq(DOMAIN tree), Distinct(stack), <<>> \notin Waiting(stack),
         d \notin Waiting(stack), InFront({d} \cup Waiting(stack)),
         Ended \/ Covered({d} \cup Waiting(stack)),
         Enter(d, stack), UNCHANGED <<tree, version, seen, items>>
  PROVE  AcquisitionInv'
<1>1. /\ TreeTyped /\ VersionsTyped /\ StackTyped /\ InFront(Waiting(pending))
      /\ ReasonsGiven /\ ItemsRight /\ Traversal
  BY DEF AcquisitionInv
<1>2. /\ TreeTyped' /\ VersionsTyped' /\ Got' = Got
      /\ \A p : (RuledOut(p)' <=> RuledOut(p)) /\ (LetThrough(p)' <=> LetThrough(p))
  BY <1>1, SameTree DEF VersionsTyped, Got
<1>3. DOMAIN tree \subseteq Paths /\ <<>> \in DOMAIN tree /\ tree[<<>>].kind = "directory"
  BY <1>1 DEF TreeTyped
<1>4. CASE tree[d].text = "unlistable" \/ ~Exists(d)
  <2>1. /\ omissions' = omissions \cup {Omission(<<>>, "traversal-failed", TRUE)}
        /\ walk' = "done" /\ pending' = pending
    BY <1>4 DEF Enter, Omit
  <2>2. PICK o : o = Omission(<<>>, "traversal-failed", TRUE)
    OBVIOUS
  <2>3. o.path = <<>> /\ o.failure
    BY <2>2 DEF Omission
  <2>4. omissions' = omissions \cup {o}
    BY <2>1, <2>2
  <2>5. Reported' = Reported \cup {<<>>} /\ Ended'
    BY <2>3, <2>4 DEF Reported, Ended
  <2>6. StackTyped' /\ Waiting(pending)' = Waiting(pending)
    BY <1>1, <2>1 DEF StackTyped, Distinct, Waiting
  <2>7. \A w \in Waiting(pending) : w \notin Above(<<>>)
    BY <1>1, AboveRoot DEF StackTyped
  <2>8. InFront(Waiting(pending))'
    BY <1>1, <1>2, <2>5, <2>6, <2>7 DEF InFront
  <2>9. ReasonsGiven'
    BY <1>1, <1>2, <1>3, <2>3, <2>4 DEF ReasonsGiven
  <2>10. <<>> \notin Got
    BY <1>1, <1>3 DEF ItemsRight, Got
  <2>11. ItemsRight'
    BY <1>1, <1>2, <2>5, <2>10 DEF ItemsRight
  <2>12. Traversal'
    BY <2>1, <2>5 DEF Traversal
  <2> QED
    BY <1>2, <2>6, <2>8, <2>9, <2>11, <2>12 DEF AcquisitionInv
<1>5. CASE ~(tree[d].text = "unlistable" \/ ~Exists(d))
  <2>1. PICK there : there = {p \in Children(d) : Exists(p)}
    OBVIOUS
  <2>2. PICK kept : kept = {p \in there : ~LeftOut(p)}
    OBVIOUS
  <2>3. PICK said : said = {Omission(p, IF tree[p].sensitive THEN "sensitive" ELSE "ignored",
                                     FALSE) : p \in there \ kept}
    OBVIOUS
  <2>4. /\ omissions' = omissions \cup said /\ pending' = SetToSeq(kept) \o stack
        /\ walk' = "walking"
    BY <1>5, <2>1, <2>2, <2>3 DEF Enter
  <2>5. \A o \in said : o.path \in there \ kept /\ o.failure = FALSE
    BY <2>3 DEF Omission
  <2>6. ASSUME NEW p \in there \ kept PROVE \E o \in said : o.path = p
    <3>1. PICK o : o = Omission(p, IF tree[p].sensitive THEN "sensitive" ELSE "ignored", FALSE)
      OBVIOUS
    <3>2. o \in said
      BY <2>3, <3>1
    <3> QED
      BY <3>1, <3>2 DEF Omission
  <2>7. Reported' = Reported \cup (there \ kept)
    BY <2>4, <2>5, <2>6 DEF Reported
  <2>8. /\ \A c \in there : /\ c \in DOMAIN tree /\ c # <<>> /\ c \in Paths /\ d \in Above(c)
                            /\ c \notin Above(d) /\ c \in Above(c)
                            /\ \A a \in Above(c) : a = c \/ a \in Above(d)
        /\ kept \subseteq there
    BY <1>1, <2>1, <2>2, ChildrenAre
  <2>9. \A c \in there : c \in kept <=> ~RuledOut(c)
    BY <1>1, <2>2, <2>8, RulesAgree
  \* the new stack
  <2>10. PICK first : first = SetToSeq(kept)
    OBVIOUS
  <2>11. first \in Seq(DOMAIN tree) /\ Distinct(first) /\ Waiting(first) = kept
    <3>1. IsFiniteSet(kept) /\ kept \subseteq DOMAIN tree
      <4>1. kept \subseteq DOMAIN tree /\ IsFiniteSet(DOMAIN tree)
        BY <1>1, <2>8 DEF TreeTyped
      <4> QED
        BY <4>1, FS_Subset
    <3>2. /\ first \in Seq(kept) /\ \A x \in kept : \E i \in 1..Len(first) : first[i] = x
          /\ \A i, j \in 1..Len(first) : first[i] = first[j] => i = j
      BY <2>10, <3>1, Enumerated
    <3>3. \A i \in 1..Len(first) : first[i] \in kept
      BY <3>2, ElementOfSeq
    <3>4. first \in Seq(DOMAIN tree)
      BY <3>1, <3>2
    <3> QED
      BY <3>2, <3>3, <3>4 DEF Distinct, Waiting
  <2>12. kept \cap Waiting(stack) = {}
    <3>1. ASSUME NEW c \in kept, c \in Waiting(stack) PROVE FALSE
      <4>1. d \in Above(c) /\ c # d
        BY <2>8, <3>1
      <4> QED
        BY <3>1, <4>1 DEF InFront
    <3> QED
      BY <3>1
  <2>13. pending' \in Seq(DOMAIN tree) /\ Distinct(pending') /\
         Waiting(pending') = kept \cup Waiting(stack)
    <3>1. PICK u : u = first \o stack
      OBVIOUS
    <3>2. u \in Seq(DOMAIN tree) /\ Distinct(u) /\ Waiting(u) = Waiting(first) \cup Waiting(stack)
      <4>1. Waiting(first) \cap Waiting(stack) = {}
        BY <2>11, <2>12
      <4>2. PICK P : P = DOMAIN tree
        OBVIOUS
      <4>3. first \in Seq(P) /\ stack \in Seq(P) /\ Distinct(first) /\ Distinct(stack)
        BY <2>11, <4>2
      <4>4. u \in Seq(P)
        BY ONLY <3>1, <4>1, <4>3, Pushed
      <4>5. Distinct(u)
        BY ONLY <3>1, <4>1, <4>3, Pushed
      <4>6. \A x : x \in Waiting(u) <=> x \in Waiting(first) \/ x \in Waiting(stack)
        BY ONLY <3>1, <4>1, <4>3, Pushed
      <4> QED
        BY <4>2, <4>4, <4>5, <4>6
    <3>3. pending' = u
      BY <2>4, <2>10, <3>1
    <3> QED
      BY <2>11, <3>2, <3>3
  <2>14. StackTyped'
    BY <2>8, <2>13 DEF StackTyped
  \* nothing of it is above anything else, or above what is accounted for
  <2>15. ASSUME NEW s \in Waiting(stack)
         PROVE  /\ s \in DOMAIN tree /\ LetThrough(s) /\ d \notin Above(s) /\ s \notin Above(d)
                /\ \A v \in Waiting(stack) : v # s => v \notin Above(s)
                /\ \A q \in Got \cup Reported : s \notin Above(q)
    BY DEF InFront
  <2>16. LetThrough(d) /\ \A q \in Got \cup Reported : d \notin Above(q)
    BY DEF InFront
  <2>17. ASSUME NEW c \in there, NEW q, q \in Paths, d \notin Above(q) PROVE c \notin Above(q)
    BY <2>8, <2>17, AboveOrder
  <2>18. ASSUME NEW s \in Waiting(stack), NEW c \in there PROVE s \notin Above(c)
    <3>1. s = c => d \in Above(s)
      BY <2>8
    <3> QED
      BY <2>8, <2>15, <3>1
  <2>19. ASSUME NEW c \in there, NEW e \in there, c # e PROVE c \notin Above(e)
    BY <2>8, <2>19
  <2>20. \A q \in Got \cup Reported : q \in Paths
    BY <1>1, <1>3 DEF ItemsRight, ReasonsGiven, Got, Reported
  <2>21. ASSUME NEW c \in kept
         PROVE  /\ c \in DOMAIN tree /\ LetThrough(c)
                /\ \A v \in kept \cup Waiting(stack) : v # c => v \notin Above(c)
                /\ \A q \in Got \cup Reported \cup (there \ kept) : c \notin Above(q)
    <3>1. c \in there /\ c \in DOMAIN tree /\ ~RuledOut(c)
      BY <2>8, <2>9
    <3>2. LetThrough(c)
      BY <2>8, <2>16, <3>1 DEF LetThrough
    <3>3. \A v \in kept \cup Waiting(stack) : v # c => v \notin Above(c)
      BY <2>8, <2>18, <2>19, <3>1
    <3>4. \A q \in Got \cup Reported : c \notin Above(q)
      BY <2>16, <2>17, <2>20, <3>1
    <3>5. \A q \in there \ kept : c \notin Above(q)
      BY <2>19, <3>1
    <3> QED
      BY <3>1, <3>2, <3>3, <3>4, <3>5
  <2>22. ASSUME NEW s \in Waiting(stack)
         PROVE  /\ s \in DOMAIN tree /\ LetThrough(s)
                /\ \A v \in kept \cup Waiting(stack) : v # s => v \notin Above(s)
                /\ \A q \in Got \cup Reported \cup (there \ kept) : s \notin Above(q)
    <3>1. s \in Paths /\ d \notin Above(s)
      BY <1>3, <2>15
    <3>2. \A v \in kept : v \notin Above(s)
      BY <2>8, <2>17, <3>1
    <3> QED
      BY <2>15, <2>18, <3>2
  <2>23. InFront(Waiting(pending))'
    <3>1. \A w \in kept \cup Waiting(stack) :
            /\ w \in DOMAIN tree /\ LetThrough(w)
            /\ \A v \in kept \cup Waiting(stack) : v # w => v \notin Above(w)
            /\ \A q \in Got \cup Reported \cup (there \ kept) : w \notin Above(q)
      BY <2>21, <2>22
    <3> QED
      BY <1>2, <2>7, <2>13, <3>1 DEF InFront
  <2>24. ReasonsGiven'
    <3>1. \A o \in said : o.path \in DOMAIN tree /\ o.path # <<>> /\ RuledOut(o.path)
      BY <2>5, <2>8, <2>9
    <3> QED
      BY <1>1, <1>2, <2>4, <3>1 DEF ReasonsGiven
  <2>25. ItemsRight'
    <3>1. Got \cap (there \ kept) = {}
      <4>1. ASSUME NEW c \in there, c \in Got PROVE FALSE
        BY <2>8, <2>16, <4>1
      <4> QED
        BY <4>1
    <3> QED
      BY <1>1, <1>2, <2>7, <3>1 DEF ItemsRight
  <2>26. Ended' \/ Covered(Waiting(pending))'
    <3>1. CASE Ended
      BY <2>4, <3>1 DEF Ended
    <3>2. CASE Covered({d} \cup Waiting(stack))
      <4>1. ASSUME NEW p \in DOMAIN tree, tree[p].kind = "file", Exists(p)
            PROVE  \/ p \in Got \/ Above(p) \cap Reported' # {}
                   \/ Above(p) \cap Waiting(pending') # {}
        <5>1. CASE d \in Above(p)
          <6>1. PICK c \in Children(d) : c \in Above(p) /\ Exists(c)
            BY <1>1, <4>1, <5>1, ChildOnTheWay
          <6>2. c \in there
            BY <2>1, <6>1
          <6> QED
            BY <2>7, <2>13, <6>1, <6>2
        <5>2. CASE d \notin Above(p)
          BY <2>7, <2>13, <3>2, <4>1, <5>2 DEF Covered
        <5> QED
          BY <5>1, <5>2
      <4>2. \A p : Exists(p)' <=> Exists(p)
        BY DEF Exists
      <4> QED
        BY <1>2, <4>1, <4>2 DEF Covered
    <3> QED
      BY <3>1, <3>2
  <2>27. Traversal'
    BY <2>4, <2>26 DEF Traversal
  <2> QED
    BY <1>2, <2>14, <2>23, <2>24, <2>25, <2>27 DEF AcquisitionInv
<1> QED
  BY <1>4, <1>5

-----------------------------------------------------------------------------
(* Acquisition: leaving the top of the stack.                               *)

LEMMA TopIs ==
  ASSUME AcquisitionInv, pending # <<>>, NEW top, top = Top, NEW rest, rest = Tail(pending)
  PROVE  /\ top \in DOMAIN tree /\ top \in Paths /\ top # <<>>
         /\ rest \in Seq(DOMAIN tree) /\ Distinct(rest)
         /\ top \notin Waiting(rest) /\ <<>> \notin Waiting(rest)
         /\ InFront({top} \cup Waiting(rest))
         /\ walk # "none" => Ended \/ Covered({top} \cup Waiting(rest))
<1>1. /\ TreeTyped /\ StackTyped /\ InFront(Waiting(pending)) /\ Traversal
  BY DEF AcquisitionInv
<1>2. PICK P : P = DOMAIN tree
  OBVIOUS
<1>3. pending \in Seq(P) /\ pending # <<>> /\ Distinct(pending)
  BY <1>1, <1>2 DEF StackTyped
<1>4. top = Head(pending)
  BY DEF Top
<1>5. top \in P
  BY ONLY <1>3, <1>4, rest = Tail(pending), Popped
<1>6. rest \in Seq(P)
  BY ONLY <1>3, <1>4, rest = Tail(pending), Popped
<1>7. Distinct(rest)
  BY ONLY <1>3, <1>4, rest = Tail(pending), Popped
<1>8. \A x : x \in Waiting(pending) <=> x = top \/ x \in Waiting(rest)
  BY ONLY <1>3, <1>4, rest = Tail(pending), Popped
<1>9. top \notin Waiting(rest)
  BY ONLY <1>3, <1>4, rest = Tail(pending), Popped
<1>10. Waiting(pending) = {top} \cup Waiting(rest)
  BY <1>8
<1>11. <<>> \notin Waiting(rest) /\ top # <<>>
  BY <1>1, <1>8 DEF StackTyped
<1>12. top \in Paths
  BY <1>1, <1>2, <1>5 DEF TreeTyped
<1>13. walk # "none" => Ended \/ Covered({top} \cup Waiting(rest))
  BY <1>1, <1>10 DEF Traversal
<1> QED
  BY <1>1, <1>2, <1>5, <1>6, <1>7, <1>9, <1>10, <1>11, <1>12, <1>13

\* What is no directory is only above itself.
LEMMA PopKeeps ==
  ASSUME AcquisitionInv, pending # <<>>, walk # "none", tree[Top].kind # "directory",
         pending' = Tail(pending), UNCHANGED <<tree, version>>,
         Got \subseteq Got', Reported \subseteq Reported', Ended => Ended',
         Got' \cup Reported' \subseteq Got \cup Reported \cup {Top},
         tree[Top].kind = "file" /\ Exists(Top) => Top \in Got' \cup Reported'
  PROVE  StackTyped' /\ InFront(Waiting(pending))' /\ (Ended' \/ Covered(Waiting(pending))')
<1>1. TreeTyped
  BY DEF AcquisitionInv
<1>2. PICK top : top = Top
  OBVIOUS
<1>3. PICK rest : rest = Tail(pending)
  OBVIOUS
<1>4. /\ top \in DOMAIN tree /\ top \in Paths /\ top # <<>>
      /\ rest \in Seq(DOMAIN tree) /\ Distinct(rest)
      /\ top \notin Waiting(rest) /\ <<>> \notin Waiting(rest)
      /\ InFront({top} \cup Waiting(rest))
      /\ Ended \/ Covered({top} \cup Waiting(rest))
  BY <1>2, <1>3, TopIs
<1>5. pending' = rest
  BY <1>3
<1>6. StackTyped'
  BY <1>4, <1>5 DEF StackTyped
<1>7. \A p : (RuledOut(p)' <=> RuledOut(p)) /\ (LetThrough(p)' <=> LetThrough(p))
  BY SameTree
<1>8. InFront(Waiting(pending))'
  <2>1. \A w \in Waiting(rest) : /\ w \in DOMAIN tree /\ LetThrough(w)
                                 /\ \A v \in Waiting(rest) : v # w => v \notin Above(w)
                                 /\ \A q \in Got \cup Reported \cup {top} : w \notin Above(q)
    BY <1>4 DEF InFront
  <2>2. Got' \cup Reported' \subseteq Got \cup Reported \cup {top}
    BY <1>2
  <2> QED
    BY <1>5, <1>7, <2>1, <2>2 DEF InFront
<1>9. ASSUME NEW p \in DOMAIN tree, tree[p].kind = "file", top \in Above(p) PROVE p = top
  <2>1. p \in Paths /\ Len(p) \in Nat
    BY <1>1, PathLength DEF TreeTyped
  <2>2. PICK n \in 0..Len(p) : top = SubSeq(p, 1, n)
    BY <1>9 DEF Above
  <2>3. Len(top) = n
    BY <2>1, <2>2, FirstNames
  <2>4. CASE n = Len(p)
    BY <1>9, <2>1, <2>3, <2>4, AboveOrder
  <2>5. CASE n # Len(p)
    <3>1. n \in 0..(Len(p) - 1)
      BY <2>1, <2>5
    <3>2. tree[top].kind = "directory"
      BY <1>1, <2>2, <3>1 DEF TreeTyped
    <3> QED
      BY <1>2, <3>2
  <2> QED
    BY <2>4, <2>5
<1>10. Ended' \/ Covered(Waiting(pending))'
  <2>1. CASE Ended
    BY <2>1
  <2>2. CASE Covered({top} \cup Waiting(rest))
    <3>1. ASSUME NEW p \in DOMAIN tree, tree[p].kind = "file", Exists(p)
          PROVE  \/ p \in Got' \/ Above(p) \cap Reported' # {}
                 \/ Above(p) \cap Waiting(rest) # {}
      <4>1. CASE top \in Above(p)
        <5>1. p = top /\ p \in Above(p)
          BY <1>9, <3>1, <4>1
        <5>2. p \in Got' \cup Reported'
          BY <1>2, <3>1, <5>1
        <5> QED
          BY <5>1, <5>2
      <4>2. CASE top \notin Above(p)
        <5>1. \/ p \in Got \/ Above(p) \cap Reported # {}
              \/ Above(p) \cap ({top} \cup Waiting(rest)) # {}
          BY <2>2, <3>1 DEF Covered
        <5> QED
          BY <4>2, <5>1
      <4> QED
        BY <4>1, <4>2
    <3>2. \A p : Exists(p)' <=> Exists(p)
      BY DEF Exists
    <3> QED
      BY <1>5, <3>1, <3>2 DEF Covered
  <2> QED
    BY <1>4, <2>1, <2>2
<1> QED
  BY <1>6, <1>8, <1>10

-----------------------------------------------------------------------------
(* Acquisition: the steps keep the invariant.                               *)

LEMMA StartWalkKeeps == AcquisitionInv /\ StartWalk => AcquisitionInv'
<1> SUFFICES ASSUME AcquisitionInv, StartWalk PROVE AcquisitionInv'
  OBVIOUS
<1>1. TreeTyped /\ Traversal
  BY DEF AcquisitionInv
<1>2. <<>> \in DOMAIN tree /\ tree[<<>>].kind = "directory" /\ DOMAIN tree \subseteq Paths
  BY <1>1 DEF TreeTyped
<1>3. Got = {} /\ Reported = {} /\ walk = "none"
  BY <1>1 DEF Traversal, StartWalk, Got, Reported
<1>4. PICK stack : stack = <<>>
  OBVIOUS
<1>5. stack \in Seq(DOMAIN tree) /\ Len(stack) = 0 /\ Waiting(stack) = {} /\ Distinct(stack)
  BY <1>4 DEF Waiting, Distinct
<1>6. PICK d : d = <<>>
  OBVIOUS
<1>7. Enter(d, stack) /\ UNCHANGED <<tree, version, seen, items>>
  BY <1>4, <1>6 DEF StartWalk
<1>8. LetThrough(d) /\ \A v \in {d} \cup Waiting(stack) : v = d
  BY <1>5, <1>6, AboveRoot DEF LetThrough
<1>9. InFront({d} \cup Waiting(stack))
  BY <1>2, <1>3, <1>5, <1>6, <1>8 DEF InFront
<1>10. Covered({d} \cup Waiting(stack))
  BY <1>2, <1>6, AboveOrder DEF Covered
<1> QED
  BY <1>2, <1>5, <1>6, <1>7, <1>9, <1>10, EnterKeeps

LEMMA VisitOtherKeeps == AcquisitionInv /\ VisitOther => AcquisitionInv'
<1> SUFFICES ASSUME AcquisitionInv, VisitOther PROVE AcquisitionInv'
  OBVIOUS
<1>1. /\ walk = "walking" /\ pending # <<>> /\ tree[Top].kind # "file"
      /\ UNCHANGED <<tree, version, seen, items>>
  BY DEF VisitOther
<1>2. CASE tree[Top].kind = "directory"
  <2>1. PICK top : top = Top
    OBVIOUS
  <2>2. PICK rest : rest = Tail(pending)
    OBVIOUS
  <2>3. /\ top \in DOMAIN tree /\ top \in Paths /\ top # <<>>
        /\ rest \in Seq(DOMAIN tree) /\ Distinct(rest)
        /\ top \notin Waiting(rest) /\ <<>> \notin Waiting(rest)
        /\ InFront({top} \cup Waiting(rest))
        /\ Ended \/ Covered({top} \cup Waiting(rest))
    BY <1>1, <2>1, <2>2, TopIs
  <2>4. Enter(top, rest) /\ tree[top].kind = "directory"
    BY <1>2, <2>1, <2>2 DEF VisitOther
  <2> QED
    BY <1>1, <2>3, <2>4, EnterKeeps
<1>3. CASE tree[Top].kind # "directory"
  <2>1. pending' = Tail(pending) /\ UNCHANGED <<omissions, walk, tree, version, seen, items>>
    BY <1>1, <1>3 DEF VisitOther
  <2>2. Got' = Got /\ Reported' = Reported /\ Ended' = Ended
    BY <2>1 DEF Got, Reported, Ended
  <2>3. StackTyped' /\ InFront(Waiting(pending))' /\ (Ended' \/ Covered(Waiting(pending))')
    BY <1>1, <1>3, <2>1, <2>2, PopKeeps
  <2>4. \A p : (RuledOut(p)' <=> RuledOut(p)) /\ (LetThrough(p)' <=> LetThrough(p))
    BY <2>1, SameTree
  <2>5. TreeTyped' /\ VersionsTyped' /\ ReasonsGiven' /\ ItemsRight'
    BY <2>1, <2>2, <2>4, SameTree
       DEF AcquisitionInv, VersionsTyped, ReasonsGiven, ItemsRight
  <2>6. Traversal'
    BY <1>1, <2>1, <2>3 DEF Traversal
  <2> QED
    BY <2>3, <2>5, <2>6 DEF AcquisitionInv
<1> QED
  BY <1>2, <1>3

\* What is said of the file at the top.
LEMMA SaidOfTop ==
  ASSUME AcquisitionInv, pending # <<>>, walk # "none", tree[Top].kind = "file",
         NEW o, o.path = Top, o.failure \/ tree[Top].text = "binary",
         omissions' = omissions \cup {o}, walk' = "walking",
         pending' = Tail(pending), UNCHANGED <<tree, version, items>>
  PROVE  AcquisitionInv'
<1>1. /\ TreeTyped /\ VersionsTyped /\ InFront(Waiting(pending)) /\ ReasonsGiven
      /\ ItemsRight /\ Traversal
  BY DEF AcquisitionInv
<1>2. PICK top : top = Top
  OBVIOUS
<1>3. top \in DOMAIN tree /\ top \in Paths /\ top \in Above(top)
      /\ \A q \in Got \cup Reported : top \notin Above(q)
  <2>1. PICK rest : rest = Tail(pending)
    OBVIOUS
  <2>2. top \in DOMAIN tree /\ top \in Paths /\ InFront({top} \cup Waiting(rest))
    BY <1>2, <2>1, TopIs
  <2> QED
    BY <2>2, AboveOrder DEF InFront
<1>4. Got' = Got /\ Reported' = Reported \cup {top} /\ (Ended => Ended')
  BY <1>2 DEF Got, Reported, Ended
<1>5. StackTyped' /\ InFront(Waiting(pending))' /\ (Ended' \/ Covered(Waiting(pending))')
  BY <1>2, <1>4, PopKeeps
<1>6. /\ TreeTyped' /\ \A p : /\ RuledOut(p)' <=> RuledOut(p)
                              /\ LetThrough(p)' <=> LetThrough(p)
  BY <1>1, SameTree
<1>7. VersionsTyped'
  BY <1>1 DEF VersionsTyped
<1>8. ReasonsGiven'
  BY <1>1, <1>2, <1>3, <1>6 DEF ReasonsGiven
<1>9. ItemsRight'
  <2>1. top \notin Got
    BY <1>3
  <2> QED
    BY <1>1, <1>4, <1>6, <2>1 DEF ItemsRight
<1>10. Traversal'
  BY <1>5 DEF Traversal
<1> QED
  BY <1>5, <1>6, <1>7, <1>8, <1>9, <1>10 DEF AcquisitionInv

\* The file at the top becomes an item.
LEMMA TopTaken ==
  ASSUME AcquisitionInv, pending # <<>>, walk # "none", tree[Top].kind = "file",
         NEW i, i.path = Top, version[Top] = 0 => i.status # "changed",
         items' = items \cup {i}, walk' = "walking",
         pending' = Tail(pending), UNCHANGED <<tree, version, omissions>>
  PROVE  AcquisitionInv'
<1>1. /\ TreeTyped /\ VersionsTyped /\ InFront(Waiting(pending)) /\ ReasonsGiven
      /\ ItemsRight /\ Traversal
  BY DEF AcquisitionInv
<1>2. PICK top : top = Top
  OBVIOUS
<1>3. top \in DOMAIN tree /\ top \in Paths /\ top \in Above(top) /\ LetThrough(top)
      /\ \A q \in Got \cup Reported : top \notin Above(q)
  <2>1. PICK rest : rest = Tail(pending)
    OBVIOUS
  <2>2. top \in DOMAIN tree /\ top \in Paths /\ InFront({top} \cup Waiting(rest))
    BY <1>2, <2>1, TopIs
  <2> QED
    BY <2>2, AboveOrder DEF InFront
<1>4. Got' = Got \cup {top} /\ Reported' = Reported /\ (Ended => Ended')
  BY <1>2 DEF Got, Reported, Ended
<1>5. StackTyped' /\ InFront(Waiting(pending))' /\ (Ended' \/ Covered(Waiting(pending))')
  BY <1>2, <1>4, PopKeeps
<1>6. /\ TreeTyped' /\ \A p : /\ RuledOut(p)' <=> RuledOut(p)
                              /\ LetThrough(p)' <=> LetThrough(p)
  BY <1>1, SameTree
<1>7. VersionsTyped'
  BY <1>1 DEF VersionsTyped
<1>8. ReasonsGiven'
  BY <1>1, <1>6 DEF ReasonsGiven
<1>9. ItemsRight'
  <2>1. top \notin Got /\ top \notin Reported
    BY <1>3
  <2>2. IsFiniteSet(items')
    BY <1>1, FS_AddElement DEF ItemsRight
  <2>3. \A j \in items : j.path # i.path
    BY <1>2, <2>1 DEF Got
  <2>4. Got' \cap Reported' = {}
    BY <1>1, <1>4, <2>1 DEF ItemsRight
  <2>5. \A j \in items' : /\ j.path \in DOMAIN tree' /\ tree'[j.path].kind = "file"
                          /\ LetThrough(j.path)'
                          /\ version'[j.path] = 0 => j.status # "changed"
    BY <1>1, <1>2, <1>3, <1>6 DEF ItemsRight
  <2>6. \A j, k \in items' : j.path = k.path => j = k
    BY <1>1, <2>3 DEF ItemsRight
  <2> QED
    BY <2>2, <2>4, <2>5, <2>6 DEF ItemsRight
<1>10. Traversal'
  BY <1>5 DEF Traversal
<1> QED
  BY <1>5, <1>6, <1>7, <1>8, <1>9, <1>10 DEF AcquisitionInv

\* Only the walk and the version seen change.
LEMMA StackStays ==
  ASSUME AcquisitionInv,
         UNCHANGED <<tree, version, pending, items, omissions>>, Traversal'
  PROVE  AcquisitionInv'
<1>1. Got' = Got /\ Reported' = Reported
  BY DEF Got, Reported
<1>2. \A p : (RuledOut(p)' <=> RuledOut(p)) /\ (LetThrough(p)' <=> LetThrough(p))
  BY SameTree
<1>3. StackTyped' /\ Waiting(pending)' = Waiting(pending)
  BY DEF AcquisitionInv, StackTyped, Distinct, Waiting
<1>4. InFront(Waiting(pending))'
  BY <1>1, <1>2, <1>3 DEF AcquisitionInv, InFront
<1>5. TreeTyped' /\ VersionsTyped' /\ ReasonsGiven' /\ ItemsRight'
  BY <1>1, <1>2, SameTree DEF AcquisitionInv, VersionsTyped, ReasonsGiven, ItemsRight
<1> QED
  BY <1>3, <1>4, <1>5 DEF AcquisitionInv

LEMMA ClassifyKeeps == AcquisitionInv /\ Classify => AcquisitionInv'
<1> SUFFICES ASSUME AcquisitionInv, Classify PROVE AcquisitionInv'
  OBVIOUS
<1>1. /\ walk = "walking" /\ pending # <<>> /\ tree[Top].kind = "file"
      /\ UNCHANGED <<tree, version, items>> /\ Traversal
  BY DEF Classify, AcquisitionInv
<1>2. CASE Exists(Top) /\ tree[Top].text # "binary"
  <2>1. walk' = "reading" /\ seen' = version[Top] /\ UNCHANGED <<pending, omissions>>
    BY <1>2 DEF Classify
  <2>2. Ended' = Ended /\ (Covered(Waiting(pending)) => Covered(Waiting(pending))')
    BY <1>1, <2>1 DEF Ended, Covered, Exists, Waiting, Got, Reported
  <2>3. Reading'
    BY <1>1, <1>2, <2>1 DEF Reading, Top
  <2>4. Traversal'
    BY <1>1, <2>1, <2>2, <2>3 DEF Traversal
  <2> QED
    BY <1>1, <2>1, <2>4, StackStays
<1>3. CASE ~(Exists(Top) /\ tree[Top].text # "binary")
  <2>1. PICK o : o = Omission(Top, IF Exists(Top) THEN "binary" ELSE "classification-failed",
                              ~Exists(Top))
    OBVIOUS
  <2>2. omissions' = omissions \cup {o} /\ pending' = Tail(pending) /\ walk' = "walking"
    BY <1>1, <1>3, <2>1 DEF Classify, Omit
  <2>3. o.path = Top
    BY <2>1 DEF Omission
  <2>4. o.failure = ~Exists(Top)
    BY <2>1, Zenon DEF Omission
  <2>5. o.failure \/ tree[Top].text = "binary"
    BY <1>3, <2>4
  <2> QED
    BY <1>1, <2>2, <2>3, <2>5, SaidOfTop
<1> QED
  BY <1>2, <1>3

LEMMA ReadKeeps ==
  ASSUME AcquisitionInv, NEW full, Read(full)
  PROVE  AcquisitionInv'
<1>1. /\ walk = "reading" /\ pending' = Tail(pending) /\ walk' = "walking"
      /\ UNCHANGED <<tree, version, seen>>
  BY DEF Read
<1>2. pending # <<>> /\ tree[Top].kind = "file" /\ (version[Top] = 0 => seen = 0)
  BY <1>1 DEF AcquisitionInv, Traversal, Reading
<1>3. CASE Exists(Top) /\ tree[Top].text # "undecodable"
  <2>1. PICK i : i = [path |-> Top,
                      status |-> IF version[Top] # seen THEN "changed"
                                 ELSE IF tree[Top].text = "large" /\ ~full THEN "truncated"
                                 ELSE "complete"]
    OBVIOUS
  <2>2. items' = items \cup {i} /\ UNCHANGED omissions
    BY <1>3, <2>1 DEF Read
  <2>3. i.path = Top /\ (version[Top] = 0 => i.status # "changed")
    BY <1>2, <2>1
  <2> QED
    BY <1>1, <1>2, <2>2, <2>3, TopTaken
<1>4. CASE ~(Exists(Top) /\ tree[Top].text # "undecodable")
  <2>1. PICK o : o = Omission(Top, "content-read-failed", TRUE)
    OBVIOUS
  <2>2. omissions' = omissions \cup {o} /\ UNCHANGED items
    BY <1>4, <2>1 DEF Read, Omit
  <2>3. o.path = Top /\ o.failure
    BY <2>1 DEF Omission
  <2> QED
    BY <1>1, <1>2, <2>2, <2>3, SaidOfTop
<1> QED
  BY <1>3, <1>4

LEMMA FinishWalkKeeps == AcquisitionInv /\ FinishWalk => AcquisitionInv'
<1> SUFFICES ASSUME AcquisitionInv, FinishWalk PROVE AcquisitionInv'
  OBVIOUS
<1>1. /\ walk = "walking" /\ pending = <<>> /\ walk' = "done"
      /\ UNCHANGED <<tree, version, pending, seen, items, omissions>> /\ Traversal
  BY DEF FinishWalk, AcquisitionInv
<1>2. Ended' = Ended /\ (Covered(Waiting(pending)) => Covered(Waiting(pending))')
  BY <1>1 DEF Ended, Covered, Exists, Waiting, Got, Reported
<1>3. Traversal'
  BY <1>1, <1>2 DEF Traversal
<1> QED
  BY <1>1, <1>3, StackStays

\* Somebody changes or removes a file.
LEMMA DisturbKeeps ==
  ASSUME AcquisitionInv, NEW p \in DOMAIN tree, NEW after \in {1, Gone}, Disturb(p, after)
  PROVE  AcquisitionInv'
<1>1. /\ tree[p].kind = "file" /\ version[p] = 0
      /\ version' = [version EXCEPT ![p] = after]
      /\ UNCHANGED <<tree, walk, pending, seen, items, omissions>>
  BY DEF Disturb
<1>2. /\ TreeTyped /\ VersionsTyped /\ StackTyped /\ InFront(Waiting(pending))
      /\ ReasonsGiven /\ ItemsRight /\ Traversal
  BY DEF AcquisitionInv
<1>3. /\ \A q \in DOMAIN tree : version'[q] = IF q = p THEN after ELSE version[q]
      /\ after # 0 /\ after \in {0, 1, Gone}
  BY <1>1, <1>2 DEF VersionsTyped, Gone
<1>4. \A q \in DOMAIN tree : /\ Exists(q)' => Exists(q)
                             /\ version'[q] = 0 => version[q] = 0
  BY <1>1, <1>3 DEF Exists, Gone
<1>5. /\ Got' = Got /\ Reported' = Reported /\ Ended' = Ended
      /\ Waiting(pending)' = Waiting(pending)
  BY <1>1 DEF Got, Reported, Ended, Waiting
<1>6. /\ TreeTyped' /\ \A q : /\ RuledOut(q)' <=> RuledOut(q)
                              /\ LetThrough(q)' <=> LetThrough(q)
  BY <1>1, <1>2, SameTree
<1>7. VersionsTyped'
  <2>1. version' \in [DOMAIN tree -> {0, 1, Gone}]
    BY <1>1, <1>2, <1>3 DEF VersionsTyped
  <2>2. \A q \in DOMAIN tree : version'[q] # 0 => tree[q].kind = "file"
    BY <1>1, <1>2, <1>3 DEF VersionsTyped
  <2> QED
    BY <1>1, <2>1, <2>2 DEF VersionsTyped
<1>8. StackTyped'
  BY <1>1, <1>2, <1>5 DEF StackTyped, Distinct
<1>9. InFront(Waiting(pending))'
  BY <1>1, <1>2, <1>5, <1>6 DEF InFront
<1>10. ReasonsGiven'
  BY <1>1, <1>2, <1>6 DEF ReasonsGiven
<1>11. ItemsRight'
  BY <1>1, <1>2, <1>4, <1>5, <1>6 DEF ItemsRight
<1>12. Covered(Waiting(pending)) => Covered(Waiting(pending))'
  BY <1>1, <1>4, <1>5 DEF Covered
<1>13. Reading => Reading'
  <2>1. SUFFICES ASSUME Reading PROVE Reading'
    OBVIOUS
  <2>2. Top' = Top /\ Top \in DOMAIN tree
    <3>1. PICK top : top = Top
      OBVIOUS
    <3>2. PICK rest : rest = Tail(pending)
      OBVIOUS
    <3>3. top \in DOMAIN tree
      BY <2>1, <3>1, <3>2, TopIs DEF Reading
    <3> QED
      BY <1>1, <3>1, <3>3 DEF Top
  <2> QED
    BY <1>1, <1>4, <2>1, <2>2 DEF Reading
<1>14. Traversal'
  BY <1>1, <1>2, <1>5, <1>12, <1>13 DEF Traversal
<1> QED
  BY <1>6, <1>7, <1>8, <1>9, <1>10, <1>11, <1>14 DEF AcquisitionInv

\* A step of some part that is not the acquisition leaves it alone.
Acquiring == \E full \in BOOLEAN : AcquisitionNext(full)

LEMMA AcquisitionKeeps == AcquisitionInv /\ [Acquiring]_acquisitionVars => AcquisitionInv'
<1> SUFFICES ASSUME AcquisitionInv, [Acquiring]_acquisitionVars PROVE AcquisitionInv'
  OBVIOUS
<1>1. CASE Acquiring
  <2>1. PICK full \in BOOLEAN : AcquisitionNext(full)
    BY <1>1 DEF Acquiring
  <2>2. CASE WalkStep(full)
    BY <2>2, StartWalkKeeps, VisitOtherKeeps, ClassifyKeeps, ReadKeeps, FinishWalkKeeps
       DEF WalkStep
  <2>3. CASE \E p \in DOMAIN tree, after \in {1, Gone} : Disturb(p, after)
    BY <2>3, DisturbKeeps
  <2> QED
    BY <2>1, <2>2, <2>3 DEF AcquisitionNext
<1>2. CASE UNCHANGED acquisitionVars
  <2>1. UNCHANGED <<tree, version, walk, pending, seen, items, omissions>> /\ Traversal
    BY <1>2 DEF acquisitionVars, AcquisitionInv
  <2>2. /\ Ended' = Ended /\ (Covered(Waiting(pending)) => Covered(Waiting(pending))')
        /\ Reading' = Reading
    BY <2>1 DEF Ended, Covered, Exists, Waiting, Got, Reported, Reading, Top
  <2>3. Traversal'
    BY <2>1, <2>2 DEF Traversal
  <2> QED
    BY <2>1, <2>3, StackStays
<1> QED
  BY <1>1, <1>2

-----------------------------------------------------------------------------
(* The theorem about the acquisition.                                       *)

LEMMA AcquisitionSteps == [PipelineNext]_pipelineVars => [Acquiring]_acquisitionVars
BY DEF PipelineNext, pipelineVars, Acquiring

\* Whatever the repository and its rules, and whatever others change or remove
\* while it is read: a file is acquired once, or it or a directory above it is
\* reported with a reason, and never both; only what the rules let through is
\* acquired, and without a reported failure all of that which is text and stayed.
THEOREM FilesStayAccountedFor == PipelineSpec => []FilesAccountedFor
<1>1. PipelineInit => AcquisitionInv
  BY InitAcquisitionInv DEF PipelineInit
<1>2. AcquisitionInv /\ [PipelineNext]_pipelineVars => AcquisitionInv'
  BY AcquisitionSteps, AcquisitionKeeps
<1> QED
  BY <1>1, <1>2, InvGivesAccount, PTL DEF PipelineSpec

-----------------------------------------------------------------------------
(* Invalidation: the inductive invariant.                                   *)

Entry == [path : RecordPaths, relations : SUBSET Relations]

SearchTyped ==
  /\ changed \in ChangeSets /\ waiting \subseteq changed
  /\ maxAffected \in Nat
  /\ affected \subseteq RecordPaths /\ IsFiniteSet(reasons)
  /\ queue \in Seq(Entry) /\ \A i \in DOMAIN queue : queue[i].path \in affected
  /\ dependents \subseteq Relations \X RecordPaths
  /\ \A e \in dependents : current \in affected /\ e[2] \in Dependents(e[1], current)

\* How many are affected, and why.
Justified ==
  /\ Cardinality(affected) <= maxAffected
  /\ truncated => Cardinality(affected) = maxAffected
  /\ {r.path : r \in reasons} = affected /\ Cardinality(reasons) = Cardinality(affected)
  /\ \A r \in reasons :
       \/ [path |-> r.path, kind |-> r.kind] \in changed
       \/ /\ r.sourcePath \in affected /\ r.kind \in Relations
          /\ <<r.path, r.sourcePath>> \in dependencies[r.kind]

Roots == RecordPaths \cap {c.path : c \in changed}

\* Nothing is forgotten: a change waits until its path is affected, and what
\* depends on an affected path is affected, or is being added, or the path is
\* still in the queue.
NoneForgotten ==
  ~truncated =>
    /\ \A c \in changed : c \in waiting \/ c.path \notin RecordPaths \/ c.path \in affected
    /\ AllWide => \A q \in affected, r \in Transitive, p \in RecordPaths :
         <<p, q>> \in dependencies[r] =>
           \/ p \in affected
           \/ q = current /\ <<r, p>> \in dependents
           \/ \E i \in DOMAIN queue : queue[i] = [path |-> q, relations |-> Transitive]

\* Nothing else is added.
NothingElse ==
  AllWide =>
    /\ \A i \in DOMAIN queue : queue[i].relations = Transitive
    /\ \A e \in dependents : e[1] \in Transitive
    /\ \A S \in SUBSET RecordPaths : Roots \subseteq S /\ Closed(S) => affected \subseteq S

VerdictOrdered ==
  /\ "file" \in verdict.affected => "analysis" \in verdict.affected
  /\ "analysis" \in verdict.affected => "graph" \in verdict.affected

InvalidationInv ==
  SearchTyped /\ Justified /\ NoneForgotten /\ NothingElse /\ VerdictOrdered

LEMMA InvalidationValues ==
  /\ Kinds = {"configuration", "exports", "graph-edges", "imports", "parser-output",
              "test-dependencies"}
  /\ Relations = {"configuration", "import", "test", "graph"}
<1>1. DOMAIN ChangeKinds = 1..6 /\ DOMAIN RelationOrder = 1..4
  BY DEF ChangeKinds, RelationOrder
<1>2. 1..6 = {1, 2, 3, 4, 5, 6} /\ 1..4 = {1, 2, 3, 4}
  OBVIOUS
<1>3. Kinds = {ChangeKinds[i] : i \in {1, 2, 3, 4, 5, 6}}
  BY <1>1, <1>2 DEF Kinds
<1>4. Relations = {RelationOrder[i] : i \in {1, 2, 3, 4}}
  BY <1>1, <1>2 DEF Relations
<1>5. Kinds = {ChangeKinds[1], ChangeKinds[2], ChangeKinds[3], ChangeKinds[4],
               ChangeKinds[5], ChangeKinds[6]}
  BY <1>3
<1>6. Relations = {RelationOrder[1], RelationOrder[2], RelationOrder[3], RelationOrder[4]}
  BY <1>4
<1> QED
  BY <1>5, <1>6 DEF ChangeKinds, RelationOrder

LEMMA RelationsOfChanges ==
  ASSUME NEW kind \in Kinds
  PROVE  /\ RelationsByChange(kind) \in SUBSET Relations
         /\ kind \in {"exports", "parser-output"} => RelationsByChange(kind) = Transitive
BY InvalidationValues DEF RelationsByChange, Transitive

LEMMA InitInvalidationInv == InvalidationInit => InvalidationInv
<1> SUFFICES ASSUME InvalidationInit PROVE InvalidationInv
  OBVIOUS
<1> USE DEF InvalidationInit
<1>1. SearchTyped
  <2>1. maxAffected \in Nat
    BY InvalidationAssumption
  <2> QED
    BY <2>1, FS_EmptySet DEF SearchTyped
<1>2. Justified
  BY InvalidationAssumption, FS_EmptySet DEF Justified
<1>3. NoneForgotten /\ NothingElse
  BY DEF NoneForgotten, NothingElse
<1>4. VerdictOrdered
  BY DEF VerdictOrdered, NoVerdict
<1> QED
  BY <1>1, <1>2, <1>3, <1>4 DEF InvalidationInv

\* What add does: nothing, the limit, or one path more.
LEMMA AddOutcomes ==
  ASSUME NEW path, NEW origin, NEW kind, NEW relations,
         Add(path, origin, kind, relations)
  PROVE  \/ (path \notin RecordPaths \/ path \in affected) /\ UNCHANGED searchState
         \/ /\ path \in RecordPaths /\ Cardinality(affected) >= maxAffected
            /\ truncated' = TRUE /\ UNCHANGED <<affected, reasons, queue>>
         \/ /\ path \in RecordPaths \ affected /\ ~(Cardinality(affected) >= maxAffected)
            /\ affected' = affected \cup {path}
            /\ reasons' = reasons \cup {[path |-> path, sourcePath |-> origin, kind |-> kind]}
            /\ queue' = Append(queue, [path |-> path, relations |-> relations])
            /\ UNCHANGED truncated
BY DEF Add

\* The queue when an entry is appended.
LEMMA Appended ==
  ASSUME NEW q \in Seq(Entry), NEW e \in Entry
  PROVE  /\ Append(q, e) \in Seq(Entry)
         /\ DOMAIN Append(q, e) = 1..(Len(q) + 1) /\ DOMAIN q = 1..Len(q) /\ Len(q) \in Nat
         /\ \A i \in DOMAIN q : i \in DOMAIN Append(q, e) /\ Append(q, e)[i] = q[i]
         /\ \A i \in DOMAIN Append(q, e) : i \in DOMAIN q \/ Append(q, e)[i] = e
         /\ \E i \in DOMAIN Append(q, e) : Append(q, e)[i] = e
<1>1. Append(q, e) \in Seq(Entry) /\ Len(Append(q, e)) = Len(q) + 1 /\ Len(q) \in Nat
      /\ Append(q, e)[Len(q) + 1] = e
      /\ (\A i \in 1..Len(q) : Append(q, e)[i] = q[i])
  BY AppendProperties, LenProperties
<1>2. DOMAIN Append(q, e) = 1..(Len(q) + 1) /\ DOMAIN q = 1..Len(q)
  BY <1>1, LenProperties
<1>3. Len(q) + 1 \in 1..(Len(q) + 1)
  BY <1>1
<1>4. \A i \in 1..(Len(q) + 1) : i \in 1..Len(q) \/ i = Len(q) + 1
  BY <1>1
<1>5. \A i \in 1..Len(q) : i \in 1..(Len(q) + 1)
  BY <1>1
<1> QED
  BY <1>1, <1>2, <1>3, <1>4, <1>5

\* Adding a path that is a changed one, or a dependent of an affected one,
\* keeps the count and the reasons.
LEMMA AddKeepsCounts ==
  ASSUME SearchTyped, Justified, NEW path, NEW origin, NEW kind,
         NEW relations \in SUBSET Relations, Add(path, origin, kind, relations),
         UNCHANGED <<dependencies, changed, maxAffected>>,
         \/ [path |-> path, kind |-> kind] \in changed
         \/ origin \in affected /\ kind \in Relations /\ <<path, origin>> \in dependencies[kind]
  PROVE  /\ changed' \in ChangeSets /\ maxAffected' \in Nat
         /\ affected' \subseteq RecordPaths /\ IsFiniteSet(reasons')
         /\ affected \subseteq affected'
         /\ queue' \in Seq(Entry) /\ (\A i \in DOMAIN queue' : queue'[i].path \in affected')
         /\ Justified'
<1> DEFINE reason == [path |-> path, sourcePath |-> origin, kind |-> kind]
           entry == [path |-> path, relations |-> relations]
<1>0. IsFiniteSet(affected) /\ Cardinality(affected) \in Nat /\ Cardinality(reasons) \in Nat
  BY InvalidationAssumption, FS_Subset, FS_CardinalityType DEF SearchTyped
<1>1. CASE UNCHANGED searchState
  BY <1>1 DEF SearchTyped, Justified, searchState
<1>2. CASE /\ Cardinality(affected) >= maxAffected
           /\ truncated' = TRUE /\ UNCHANGED <<affected, reasons, queue>>
  <2>1. Cardinality(affected) = maxAffected
    BY <1>0, <1>2 DEF SearchTyped, Justified
  <2> QED
    BY <1>2, <2>1 DEF SearchTyped, Justified
<1>3. CASE /\ path \in RecordPaths \ affected /\ ~(Cardinality(affected) >= maxAffected)
           /\ affected' = affected \cup {path}
           /\ reasons' = reasons \cup {reason}
           /\ queue' = Append(queue, entry)
           /\ UNCHANGED truncated
  <2>1. entry \in Entry
    BY <1>3 DEF Entry
  <2>2. queue' \in Seq(Entry) /\ \A i \in DOMAIN queue' :
          (i \in DOMAIN queue /\ queue'[i] = queue[i]) \/ queue'[i] = entry
    BY <1>3, <2>1, Appended DEF SearchTyped
  <2>3. \A i \in DOMAIN queue' : queue'[i].path \in affected'
    <3> TAKE i \in DOMAIN queue'
    <3>1. CASE i \in DOMAIN queue /\ queue'[i] = queue[i]
      BY <1>3, <3>1 DEF SearchTyped
    <3>2. CASE queue'[i] = entry
      BY <1>3, <3>2
    <3> QED
      BY <2>2, <3>1, <3>2
  <2>4. reason \notin reasons
    <3>1. reason.path = path
      OBVIOUS
    <3> HIDE DEF reason
    <3> QED
      BY <1>3, <3>1 DEF Justified
  <2>5. IsFiniteSet(reasons') /\ Cardinality(reasons') = Cardinality(reasons) + 1
    BY <1>3, <2>4, FS_AddElement DEF SearchTyped
  <2>6. Cardinality(affected') = Cardinality(affected) + 1
    BY <1>0, <1>3, FS_AddElement
  <2>7. Cardinality(affected') <= maxAffected' /\ (truncated' => Cardinality(affected') = maxAffected')
    <3>1. Cardinality(affected) < maxAffected
      BY <1>0, <1>3 DEF SearchTyped
    <3> QED
      BY <1>0, <1>3, <2>6, <3>1 DEF SearchTyped, Justified
  <2>8. {r.path : r \in reasons'} = affected'
    <3>1. reason.path = path
      OBVIOUS
    <3> HIDE DEF reason
    <3>2. {r.path : r \in reasons \cup {reason}} = {r.path : r \in reasons} \cup {path}
      BY <3>1
    <3> QED
      BY <1>3, <3>2 DEF Justified
  <2>9. \A r \in reasons' :
          \/ [path |-> r.path, kind |-> r.kind] \in changed'
          \/ /\ r.sourcePath \in affected' /\ r.kind \in Relations
             /\ <<r.path, r.sourcePath>> \in dependencies'[r.kind]
    <3>1. reason.path = path /\ reason.sourcePath = origin /\ reason.kind = kind
      OBVIOUS
    <3> HIDE DEF reason
    <3> TAKE r \in reasons'
    <3>2. CASE r \in reasons
      BY <1>3, <3>2 DEF Justified
    <3>3. CASE r = reason
      BY <1>3, <3>1, <3>3
    <3> QED
      BY <1>3, <3>2, <3>3
  <2>10. Justified'
    BY <2>5, <2>6, <2>7, <2>8, <2>9 DEF Justified
  <2> QED
    BY <1>3, <2>2, <2>3, <2>5, <2>10 DEF SearchTyped
<1> QED
  BY <1>1, <1>2, <1>3, AddOutcomes

\* Without the limit the path is affected afterwards, and its entry is in the
\* queue if it is new; nothing else is added, and no entry goes.
LEMMA AddAddsOne ==
  ASSUME SearchTyped, NEW path, NEW origin, NEW kind,
         NEW relations \in SUBSET Relations, Add(path, origin, kind, relations)
  PROVE  /\ affected \subseteq affected' /\ affected' \subseteq affected \cup {path}
         /\ \A i \in DOMAIN queue : \E j \in DOMAIN queue' : queue'[j] = queue[i]
         /\ \A j \in DOMAIN queue' : queue'[j] = [path |-> path, relations |-> relations]
                                       \/ \E i \in DOMAIN queue : queue'[j] = queue[i]
         /\ affected' = affected
              \/ \E j \in DOMAIN queue' : queue'[j] = [path |-> path, relations |-> relations]
         /\ ~truncated' => ~truncated /\ (path \in RecordPaths => path \in affected')
<1> DEFINE entry == [path |-> path, relations |-> relations]
<1>1. CASE UNCHANGED searchState /\ (path \notin RecordPaths \/ path \in affected)
  BY <1>1 DEF searchState
<1>2. CASE truncated' = TRUE /\ UNCHANGED <<affected, reasons, queue>>
  BY <1>2
<1>3. CASE /\ path \in RecordPaths \ affected
           /\ affected' = affected \cup {path}
           /\ queue' = Append(queue, entry)
           /\ UNCHANGED truncated
  <2>1. entry \in Entry
    BY <1>3 DEF Entry
  <2>2. queue \in Seq(Entry)
    BY DEF SearchTyped
  <2> HIDE DEF entry
  <2>3. /\ \A i \in DOMAIN queue : i \in DOMAIN queue' /\ queue'[i] = queue[i]
        /\ \A i \in DOMAIN queue' : (i \in DOMAIN queue /\ queue'[i] = queue[i]) \/ queue'[i] = entry
        /\ \E i \in DOMAIN queue' : queue'[i] = entry
    BY <1>3, <2>1, <2>2, Appended
  <2> QED
    BY <1>3, <2>3 DEF entry
<1> QED
  BY <1>1, <1>2, <1>3, AddOutcomes

-----------------------------------------------------------------------------
(* Invalidation: every step keeps the invariant.                            *)

LEMMA ChangeShape ==
  ASSUME SearchTyped, NEW c \in waiting
  PROVE  /\ c \in changed /\ c = [path |-> c.path, kind |-> c.kind] /\ c.kind \in Kinds
         /\ RelationsByChange(c.kind) \in SUBSET Relations
         /\ AllWide => RelationsByChange(c.kind) = Transitive
<1>1. c \in [path : Nat, kind : Kinds] /\ c \in changed
  BY InvalidationAssumption DEF SearchTyped
<1>2. c = [path |-> c.path, kind |-> c.kind] /\ c.kind \in Kinds
  BY <1>1
<1> QED
  BY <1>1, <1>2, RelationsOfChanges DEF AllWide

LEMMA AddChangeKeeps == InvalidationInv /\ AddChange => InvalidationInv'
<1> SUFFICES ASSUME InvalidationInv, AddChange PROVE InvalidationInv'
  OBVIOUS
<1> USE DEF InvalidationInv
<1>1. PICK c \in waiting :
        /\ Add(c.path, c.path, c.kind, RelationsByChange(c.kind)) /\ waiting' = waiting \ {c}
  BY DEF AddChange
<1>2. UNCHANGED <<dependencies, changed, maxAffected, current, dependents, verdict>>
  BY DEF AddChange
<1>3. /\ c \in changed /\ [path |-> c.path, kind |-> c.kind] \in changed
      /\ RelationsByChange(c.kind) \in SUBSET Relations
      /\ AllWide => RelationsByChange(c.kind) = Transitive
  BY ChangeShape
<1>4. PICK path, kind, relations :
        path = c.path /\ kind = c.kind /\ relations = RelationsByChange(c.kind)
  OBVIOUS
<1>5. /\ Add(path, path, kind, relations) /\ [path |-> path, kind |-> kind] \in changed
      /\ relations \in SUBSET Relations /\ (AllWide => relations = Transitive)
  BY <1>1, <1>3, <1>4
<1>6. /\ changed' \in ChangeSets /\ maxAffected' \in Nat
      /\ affected' \subseteq RecordPaths /\ IsFiniteSet(reasons')
      /\ affected \subseteq affected'
      /\ queue' \in Seq(Entry) /\ (\A i \in DOMAIN queue' : queue'[i].path \in affected')
      /\ Justified'
  BY <1>2, <1>5, AddKeepsCounts
<1>7. SearchTyped'
  BY <1>1, <1>2, <1>6 DEF SearchTyped, Dependents
<1>8. /\ affected' \subseteq affected \cup {path}
      /\ \A i \in DOMAIN queue : \E j \in DOMAIN queue' : queue'[j] = queue[i]
      /\ \A j \in DOMAIN queue' : queue'[j] = [path |-> path, relations |-> relations]
                                    \/ \E i \in DOMAIN queue : queue'[j] = queue[i]
      /\ affected' = affected
           \/ \E j \in DOMAIN queue' : queue'[j] = [path |-> path, relations |-> relations]
      /\ ~truncated' => ~truncated /\ (path \in RecordPaths => path \in affected')
  BY <1>5, AddAddsOne
<1>9. AllWide' = AllWide /\ Roots' = Roots /\ \A S : Closed(S)' = Closed(S)
  BY <1>2 DEF AllWide, Roots, Closed
<1>10. NoneForgotten'
  <2> SUFFICES ASSUME ~truncated' PROVE NoneForgotten'
    BY DEF NoneForgotten
  <2>0. ~truncated /\ (path \in RecordPaths => path \in affected')
    BY <1>8
  <2>1. ASSUME NEW d \in changed' PROVE d \in waiting' \/ d.path \notin RecordPaths \/ d.path \in affected'
    <3>1. d \in waiting \/ d.path \notin RecordPaths \/ d.path \in affected
      BY <1>2, <2>0, <2>1 DEF NoneForgotten
    <3>2. CASE d = c
      BY <1>4, <2>0, <3>2
    <3>3. CASE d # c
      BY <1>1, <1>6, <3>1, <3>3
    <3> QED
      BY <3>2, <3>3
  <2>2. ASSUME AllWide, NEW q \in affected', NEW r \in Transitive, NEW p \in RecordPaths,
               <<p, q>> \in dependencies'[r]
        PROVE  \/ p \in affected'
               \/ q = current' /\ <<r, p>> \in dependents'
               \/ \E i \in DOMAIN queue' : queue'[i] = [path |-> q, relations |-> Transitive]
    <3>1. CASE q \in affected
      <4>1. \/ p \in affected
            \/ q = current /\ <<r, p>> \in dependents
            \/ \E i \in DOMAIN queue : queue[i] = [path |-> q, relations |-> Transitive]
        BY <1>2, <2>0, <2>2, <3>1 DEF NoneForgotten
      <4> QED
        BY <1>2, <1>6, <1>8, <4>1
    <3>2. CASE q \notin affected
      BY <1>5, <1>8, <2>2, <3>2
    <3> QED
      BY <3>1, <3>2
  <2> QED
    BY <1>9, <2>1, <2>2 DEF NoneForgotten
<1>11. NothingElse'
  <2> SUFFICES ASSUME AllWide PROVE NothingElse'
    BY <1>9 DEF NothingElse
  <2>0. relations = Transitive
    BY <1>5
  <2>1. \A j \in DOMAIN queue' : queue'[j].relations = Transitive
    <3> TAKE j \in DOMAIN queue'
    <3>1. CASE queue'[j] = [path |-> path, relations |-> relations]
      BY <2>0, <3>1
    <3>2. CASE \E i \in DOMAIN queue : queue'[j] = queue[i]
      BY <3>2 DEF NothingElse
    <3> QED
      BY <1>8, <3>1, <3>2
  <2>2. \A e \in dependents' : e[1] \in Transitive
    BY <1>2 DEF NothingElse
  <2>3. ASSUME NEW S \in SUBSET RecordPaths, Roots \subseteq S, Closed(S) PROVE affected' \subseteq S
    <3>1. affected \subseteq S
      BY <2>3 DEF NothingElse
    <3>2. path \in RecordPaths => path \in S
      BY <1>3, <1>4, <2>3 DEF Roots
    <3> QED
      BY <1>6, <1>8, <3>1, <3>2
  <2> QED
    BY <1>9, <2>1, <2>2, <2>3 DEF NothingElse
<1>12. VerdictOrdered'
  BY <1>2 DEF VerdictOrdered
<1> QED
  BY <1>6, <1>7, <1>10, <1>11, <1>12

LEMMA AddDependentKeeps == InvalidationInv /\ AddDependent => InvalidationInv'
<1> SUFFICES ASSUME InvalidationInv, AddDependent PROVE InvalidationInv'
  OBVIOUS
<1> USE DEF InvalidationInv
<1>1. PICK e \in dependents :
        Add(e[2], current, e[1], Transitive) /\ dependents' = dependents \ {e}
  BY DEF AddDependent
<1>2. UNCHANGED <<dependencies, changed, maxAffected, waiting, current, verdict>>
  BY DEF AddDependent
<1>3. PICK kind \in Relations, path \in RecordPaths : e = <<kind, path>>
  BY DEF SearchTyped
<1>4. /\ Add(path, current, kind, Transitive) /\ Transitive \in SUBSET Relations
      /\ current \in affected /\ <<path, current>> \in dependencies[kind]
      /\ AllWide => kind \in Transitive
  <2>1. e[1] = kind /\ e[2] = path
    BY <1>3
  <2>2. Transitive \in SUBSET Relations
    BY InvalidationValues DEF Transitive
  <2> QED
    BY <1>1, <2>1, <2>2 DEF SearchTyped, Dependents, NothingElse
<1>6. /\ changed' \in ChangeSets /\ maxAffected' \in Nat
      /\ affected' \subseteq RecordPaths /\ IsFiniteSet(reasons')
      /\ affected \subseteq affected'
      /\ queue' \in Seq(Entry) /\ (\A i \in DOMAIN queue' : queue'[i].path \in affected')
      /\ Justified'
  BY <1>2, <1>4, AddKeepsCounts
<1>7. SearchTyped'
  BY <1>1, <1>2, <1>6 DEF SearchTyped, Dependents
<1>8. /\ affected' \subseteq affected \cup {path}
      /\ \A i \in DOMAIN queue : \E j \in DOMAIN queue' : queue'[j] = queue[i]
      /\ \A j \in DOMAIN queue' : queue'[j] = [path |-> path, relations |-> Transitive]
                                    \/ \E i \in DOMAIN queue : queue'[j] = queue[i]
      /\ affected' = affected
           \/ \E j \in DOMAIN queue' : queue'[j] = [path |-> path, relations |-> Transitive]
      /\ ~truncated' => ~truncated /\ (path \in RecordPaths => path \in affected')
  BY <1>4, AddAddsOne
<1>9. AllWide' = AllWide /\ Roots' = Roots /\ \A S : Closed(S)' = Closed(S)
  BY <1>2 DEF AllWide, Roots, Closed
<1>10. NoneForgotten'
  <2> SUFFICES ASSUME ~truncated' PROVE NoneForgotten'
    BY DEF NoneForgotten
  <2>0. ~truncated /\ path \in affected'
    BY <1>8
  <2>1. ASSUME NEW d \in changed' PROVE d \in waiting' \/ d.path \notin RecordPaths \/ d.path \in affected'
    BY <1>2, <1>6, <2>0, <2>1 DEF NoneForgotten
  <2>2. ASSUME AllWide, NEW q \in affected', NEW r \in Transitive, NEW p \in RecordPaths,
               <<p, q>> \in dependencies'[r]
        PROVE  \/ p \in affected'
               \/ q = current' /\ <<r, p>> \in dependents'
               \/ \E i \in DOMAIN queue' : queue'[i] = [path |-> q, relations |-> Transitive]
    <3>1. CASE q \in affected
      <4>1. \/ p \in affected
            \/ q = current /\ <<r, p>> \in dependents
            \/ \E i \in DOMAIN queue : queue[i] = [path |-> q, relations |-> Transitive]
        BY <1>2, <2>0, <2>2, <3>1 DEF NoneForgotten
      <4>2. CASE q = current /\ <<r, p>> \in dependents
        <5>1. CASE <<r, p>> = e
          BY <1>3, <2>0, <5>1
        <5> QED
          BY <1>1, <1>2, <4>2, <5>1
      <4> QED
        BY <1>6, <1>8, <4>1, <4>2
    <3>2. CASE q \notin affected
      BY <1>8, <3>2
    <3> QED
      BY <3>1, <3>2
  <2> QED
    BY <1>9, <2>1, <2>2 DEF NoneForgotten
<1>11. NothingElse'
  <2> SUFFICES ASSUME AllWide PROVE NothingElse'
    BY <1>9 DEF NothingElse
  <2>1. \A j \in DOMAIN queue' : queue'[j].relations = Transitive
    <3> TAKE j \in DOMAIN queue'
    <3>1. CASE queue'[j] = [path |-> path, relations |-> Transitive]
      BY <3>1
    <3>2. CASE \E i \in DOMAIN queue : queue'[j] = queue[i]
      BY <3>2 DEF NothingElse
    <3> QED
      BY <1>8, <3>1, <3>2
  <2>2. \A f \in dependents' : f[1] \in Transitive
    BY <1>1 DEF NothingElse
  <2>3. ASSUME NEW S \in SUBSET RecordPaths, Roots \subseteq S, Closed(S) PROVE affected' \subseteq S
    <3>1. affected \subseteq S
      BY <2>3 DEF NothingElse
    <3>2. path \in S
      BY <1>4, <2>3, <3>1 DEF Closed
    <3> QED
      BY <1>8, <3>1, <3>2
  <2> QED
    BY <1>9, <2>1, <2>2, <2>3 DEF NothingElse
<1>12. VerdictOrdered'
  BY <1>2 DEF VerdictOrdered
<1> QED
  BY <1>6, <1>7, <1>10, <1>11, <1>12

LEMMA TakeEntryKeeps == InvalidationInv /\ TakeEntry => InvalidationInv'
<1> SUFFICES ASSUME InvalidationInv, TakeEntry PROVE InvalidationInv'
  OBVIOUS
<1> USE DEF InvalidationInv
<1>1. UNCHANGED <<dependencies, changed, maxAffected, waiting, affected, reasons, truncated,
                  verdict>>
  BY DEF TakeEntry
<1>2. queue \in Seq(Entry) /\ queue # <<>> /\ queue' = Tail(queue) /\ dependents = {}
  BY DEF TakeEntry, SearchTyped
<1>3. PICK entry : entry = queue[1]
  OBVIOUS
<1>4. /\ queue' \in Seq(Entry)
      /\ \A i \in DOMAIN queue' : \E j \in DOMAIN queue : queue'[i] = queue[j]
      /\ \A j \in DOMAIN queue : queue[j] = entry \/ \E i \in DOMAIN queue' : queue'[i] = queue[j]
      /\ Head(queue) = entry /\ 1 \in DOMAIN queue
  <2>1. /\ Tail(queue) \in Seq(Entry) /\ Len(Tail(queue)) = Len(queue) - 1
        /\ Head(queue) = queue[1] /\ Len(queue) \in Nat \ {0}
        /\ \A i \in 1..Len(Tail(queue)) : Tail(queue)[i] = queue[i + 1]
    BY <1>2, HeadTailProperties, LenProperties, EmptySeq
  <2>2. DOMAIN queue = 1..Len(queue) /\ DOMAIN Tail(queue) = 1..(Len(queue) - 1)
    BY <1>2, <2>1, LenProperties
  <2>3. \A i \in 1..(Len(queue) - 1) : i + 1 \in 1..Len(queue)
    BY <2>1
  <2>4. \A j \in 1..Len(queue) : j = 1 \/ (j - 1 \in 1..(Len(queue) - 1) /\ (j - 1) + 1 = j)
    BY <2>1
  <2>5. 1 \in 1..Len(queue)
    BY <2>1
  <2> QED
    BY <1>2, <1>3, <2>1, <2>2, <2>3, <2>4, <2>5
<1>5. /\ entry \in Entry /\ entry.path \in affected
      /\ entry.path \in RecordPaths /\ entry.relations \in SUBSET Relations
      /\ AllWide => entry.relations = Transitive
  <2>1. entry \in Entry /\ entry.path \in affected
    BY <1>2, <1>3, <1>4, LenProperties DEF SearchTyped
  <2>2. AllWide => entry.relations = Transitive
    BY <1>3, <1>4 DEF NothingElse
  <2> QED
    BY <2>1, <2>2 DEF Entry
<1>6. current' = entry.path
  BY <1>4 DEF TakeEntry
<1>7. \A f : f \in dependents' <=> \E r \in entry.relations, p \in RecordPaths :
                                     f = <<r, p>> /\ <<p, entry.path>> \in dependencies[r]
  <2>1. dependents' = UNION {{r} \X Dependents(r, entry.path) : r \in entry.relations}
    BY <1>4 DEF TakeEntry
  <2>2. \A f : f \in dependents' <=> \E r \in entry.relations : f \in {r} \X Dependents(r, entry.path)
    BY <2>1
  <2>3. \A f, r : f \in {r} \X Dependents(r, entry.path)
                    <=> \E p \in Dependents(r, entry.path) : f = <<r, p>>
    OBVIOUS
  <2>4. \A r, p : p \in Dependents(r, entry.path)
                    <=> p \in RecordPaths /\ <<p, entry.path>> \in dependencies[r]
    BY DEF Dependents
  <2>5. ASSUME NEW f \in dependents'
        PROVE  \E r \in entry.relations, p \in RecordPaths :
                 f = <<r, p>> /\ <<p, entry.path>> \in dependencies[r]
    <3>1. PICK r \in entry.relations : f \in {r} \X Dependents(r, entry.path)
      BY <2>2, <2>5
    <3>2. PICK p \in Dependents(r, entry.path) : f = <<r, p>>
      BY <2>3, <3>1
    <3> QED
      BY <2>4, <3>2
  <2>6. ASSUME NEW r \in entry.relations, NEW p \in RecordPaths,
               <<p, entry.path>> \in dependencies[r]
        PROVE  <<r, p>> \in dependents'
    <3>1. p \in Dependents(r, entry.path)
      BY <2>4, <2>6
    <3>2. <<r, p>> \in {r} \X Dependents(r, entry.path)
      BY <3>1
    <3> QED
      BY <2>2, <3>2
  <2> QED
    BY <2>5, <2>6
<1>8. SearchTyped'
  <2>1. \A i \in DOMAIN queue' : queue'[i].path \in affected'
    BY <1>1, <1>4 DEF SearchTyped
  <2>2. dependents' \subseteq Relations \X RecordPaths
    <3> SUFFICES ASSUME NEW f \in dependents' PROVE f \in Relations \X RecordPaths
      OBVIOUS
    <3>1. PICK r \in entry.relations, p \in RecordPaths : f = <<r, p>>
      BY <1>7
    <3>2. r \in Relations
      BY <1>5
    <3> QED
      BY <3>1, <3>2
  <2>3. \A f \in dependents' : current' \in affected' /\ f[2] \in Dependents(f[1], current)'
    <3> TAKE f \in dependents'
    <3>1. PICK r \in entry.relations, p \in RecordPaths :
            f = <<r, p>> /\ <<p, entry.path>> \in dependencies[r]
      BY <1>7
    <3>2. f[1] = r /\ f[2] = p
      BY <3>1
    <3> QED
      BY <1>1, <1>5, <1>6, <3>1, <3>2 DEF Dependents
  <2> QED
    BY <1>1, <1>4, <2>1, <2>2, <2>3 DEF SearchTyped
<1>9. Justified'
  BY <1>1 DEF Justified
<1>10. AllWide' = AllWide /\ Roots' = Roots /\ \A S : Closed(S)' = Closed(S)
  BY <1>1 DEF AllWide, Roots, Closed
<1>11. NoneForgotten'
  <2> SUFFICES ASSUME ~truncated PROVE NoneForgotten'
    BY <1>1 DEF NoneForgotten
  <2>1. ASSUME AllWide, NEW q \in affected, NEW r \in Transitive, NEW p \in RecordPaths,
               <<p, q>> \in dependencies[r]
        PROVE  \/ p \in affected
               \/ q = current' /\ <<r, p>> \in dependents'
               \/ \E i \in DOMAIN queue' : queue'[i] = [path |-> q, relations |-> Transitive]
    <3>1. p \in affected \/ \E i \in DOMAIN queue : queue[i] = [path |-> q, relations |-> Transitive]
      BY <1>2, <2>1 DEF NoneForgotten
    <3>2. CASE entry = [path |-> q, relations |-> Transitive]
      <4>1. entry.path = q /\ entry.relations = Transitive
        BY <3>2
      <4> QED
        BY <1>6, <1>7, <2>1, <4>1
    <3> QED
      BY <1>4, <3>1, <3>2
  <2>2. \A c \in changed : c \in waiting \/ c.path \notin RecordPaths \/ c.path \in affected
    BY DEF NoneForgotten
  <2> QED
    BY <1>1, <1>10, <2>1, <2>2 DEF NoneForgotten
<1>12. NothingElse'
  <2> SUFFICES ASSUME AllWide PROVE NothingElse'
    BY <1>10 DEF NothingElse
  <2>1. \A i \in DOMAIN queue' : queue'[i].relations = Transitive
    BY <1>4 DEF NothingElse
  <2>2. \A f \in dependents' : f[1] \in Transitive
    <3> TAKE f \in dependents'
    <3>1. PICK r \in entry.relations, p \in RecordPaths : f = <<r, p>>
      BY <1>7
    <3>2. f[1] = r
      BY <3>1
    <3> QED
      BY <1>5, <3>2
  <2>3. \A S \in SUBSET RecordPaths : Roots \subseteq S /\ Closed(S) => affected \subseteq S
    BY DEF NothingElse
  <2> QED
    BY <1>1, <1>10, <2>1, <2>2, <2>3 DEF NothingElse
<1>13. VerdictOrdered'
  BY <1>1 DEF VerdictOrdered
<1> QED
  BY <1>8, <1>9, <1>11, <1>12, <1>13

LEMMA EvaluateKeeps == InvalidationInv /\ Evaluate => InvalidationInv'
<1> SUFFICES ASSUME InvalidationInv, Evaluate PROVE InvalidationInv'
  OBVIOUS
<1>1. UNCHANGED <<dependencies, changed, maxAffected, waiting, affected, reasons, queue,
                  truncated, current, dependents>>
  BY DEF Evaluate, searchState
<1>2. PICK differing \in SUBSET Identities, versions \in BOOLEAN :
        verdict' = [identities |-> differing, versions |-> versions,
                    affected |-> UNION ({identityDependencies[i] : i \in differing}
                                          \cup (IF versions THEN {RecordTypes} ELSE {}))]
  BY DEF Evaluate
<1>3. \A x : x \in verdict'.affected <=>
        (\E i \in differing : x \in identityDependencies[i]) \/ (versions /\ x \in RecordTypes)
  BY <1>2
<1>4. \A i \in Identities :
        /\ "file" \in identityDependencies[i] => "analysis" \in identityDependencies[i]
        /\ "analysis" \in identityDependencies[i] => "graph" \in identityDependencies[i]
  BY DEF Identities, identityDependencies, RecordTypes
<1>5. VerdictOrdered'
  BY <1>3, <1>4 DEF VerdictOrdered, RecordTypes
<1>6. SearchTyped' /\ Justified'
  BY <1>1 DEF InvalidationInv, SearchTyped, Justified, Dependents
<1>7. NoneForgotten' /\ NothingElse'
  BY <1>1 DEF InvalidationInv, NoneForgotten, NothingElse, AllWide, Roots, Closed
<1> QED
  BY <1>5, <1>6, <1>7 DEF InvalidationInv

LEMMA InvalidationNextKeeps ==
  InvalidationInv /\ [InvalidationNext]_invalidationVars => InvalidationInv'
<1> SUFFICES ASSUME InvalidationInv, [InvalidationNext]_invalidationVars PROVE InvalidationInv'
  OBVIOUS
<1>1. CASE InvalidationNext
  BY <1>1, AddChangeKeeps, TakeEntryKeeps, AddDependentKeeps, EvaluateKeeps DEF InvalidationNext
<1>2. CASE UNCHANGED invalidationVars
  <2>1. UNCHANGED <<dependencies, changed, maxAffected, waiting, affected, reasons, queue,
                    truncated, current, dependents, verdict>>
    BY <1>2 DEF invalidationVars, searchState
  <2> QED
    BY <2>1 DEF InvalidationInv, SearchTyped, Justified, Dependents, NoneForgotten, NothingElse,
                AllWide, Roots, Closed, VerdictOrdered
<1> QED
  BY <1>1, <1>2

LEMMA InvGivesSound == InvalidationInv => InvalidationSound
<1> SUFFICES ASSUME InvalidationInv PROVE InvalidationSound
  OBVIOUS
<1> USE DEF InvalidationInv
<1>1. ASSUME Searched, ~truncated, AllWide
      PROVE  /\ Roots \subseteq affected /\ Closed(affected)
             /\ \A S \in SUBSET RecordPaths : Roots \subseteq S /\ Closed(S) => affected \subseteq S
  <2>1. Roots \subseteq affected
    BY <1>1 DEF Searched, NoneForgotten, Roots
  <2>2. Closed(affected)
    <3> SUFFICES ASSUME NEW p \in RecordPaths, NEW q \in affected, NEW r \in Transitive,
                        <<p, q>> \in dependencies[r]
                 PROVE  p \in affected
      BY DEF Closed
    <3>1. queue = <<>> /\ dependents = {}
      BY <1>1 DEF Searched
    <3>2. DOMAIN queue = {}
      BY <3>1
    <3> QED
      BY <1>1, <3>1, <3>2 DEF NoneForgotten
  <2> QED
    BY <1>1, <2>1, <2>2 DEF NothingElse
<1> QED
  BY <1>1 DEF InvalidationSound, Justified, VerdictOrdered, Roots

LEMMA InvalidationSteps == [PipelineNext]_pipelineVars => [InvalidationNext]_invalidationVars
BY DEF PipelineNext, pipelineVars

\* Whatever the records and the changes: nothing is affected without a reason
\* or beyond the limit, a search that was not cut short by it ends with the
\* least closed set around the changed records, if each change is as wide as
\* an export change, and what is derived from a stale record is stale.
THEOREM InvalidationStaysSound == PipelineSpec => []InvalidationSound
<1>1. PipelineInit => InvalidationInv
  BY InitInvalidationInv DEF PipelineInit
<1>2. InvalidationInv /\ [PipelineNext]_pipelineVars => InvalidationInv'
  BY InvalidationSteps, InvalidationNextKeeps
<1> QED
  BY <1>1, <1>2, InvGivesSound, PTL DEF PipelineSpec

=============================================================================
