------------------------------ MODULE MapProofs ------------------------------
(***************************************************************************)
(* The component map and the levels of the graph, for every snapshot and   *)
(* every view: each link is counted once, the stored summary of a          *)
(* component and the one read from the rows say the same, and a level is   *)
(* honest about what it draws and hides.                                   *)
(***************************************************************************)
EXTENDS MapLevels, FiniteSetTheorems, WellFoundedInduction, TLAPS

\* A set of natural numbers has a least member.
LEMMA LeastNumber ==
  ASSUME NEW T, T \subseteq Nat, T # {}
  PROVE  \E x \in T : \A y \in T : x <= y
<1> DEFINE R == OpToRel(<, Nat)
<1>1. IsWellFoundedOn(R, Nat)
  BY NatLessThanWellFounded
<1>2. \A x, y \in Nat : y < x => <<y, x>> \in R
  BY DEF OpToRel
<1> HIDE DEF R
<1>3. PICK x \in T : \A y \in T : ~ (<<y, x>> \in R)
  BY <1>1, WFMin
<1>4. \A y \in T : x <= y
  <2> TAKE y \in T
  <2>1. x \in Nat /\ y \in Nat
    OBVIOUS
  <2>2. ~ (y < x)
    BY <2>1, <1>2, <1>3, Zenon
  <2> QED  BY <2>1, <2>2
<1> QED  BY <1>4

(* Sums over finite sets: what MapThenSumSet computes *)

Pick(s) == CHOOSE x \in s : TRUE

\* One unfolding of the sum of h over s, when it is the sum over smaller sets.
Unfold(it, h, s) == IF s = {} THEN 0 ELSE h[Pick(s)] + it[s \ {Pick(s)}]
IsSum(it, S, h) == it = [s \in SUBSET S |-> Unfold(it, h, s)]

LEMMA PickIsOne == ASSUME NEW s, s # {}  PROVE Pick(s) \in s
  BY DEF Pick

\* The unfolding defines a function.
LEMMA SumExists ==
  ASSUME NEW S, IsFiniteSet(S), NEW h
  PROVE  \E it : IsSum(it, S, h)
<1> DEFINE Up(g, n) == \A s \in SUBSET S : Cardinality(s) <= n => g[s] = Unfold(g, h, s)
           Bad == {n \in Nat : ~ \E g : g = [s \in SUBSET S |-> g[s]] /\ Up(g, n)}
<1>0. \A s \in SUBSET S : IsFiniteSet(s) /\ Cardinality(s) \in Nat
  BY FS_Subset, FS_CardinalityType
<1>1. Bad = {}
  <2> SUFFICES ASSUME Bad # {} PROVE FALSE
    OBVIOUS
  <2>1. PICK n \in Bad : \A m \in Bad : n <= m
    <3>1. Bad \subseteq Nat
      OBVIOUS
    <3> HIDE DEF Bad
    <3> QED  BY <3>1, LeastNumber
  <2>2. n # 0
    <3> SUFFICES ASSUME n = 0 PROVE FALSE
      OBVIOUS
    <3> DEFINE g == [s \in SUBSET S |-> 0]
    <3>1. \A s \in SUBSET S : Cardinality(s) <= 0 => s = {}
      BY <1>0, FS_EmptySet
    <3>2. Up(g, 0)
      BY <3>1 DEF Unfold
    <3>3. g = [s \in SUBSET S |-> g[s]]
      OBVIOUS
    <3> QED  BY <3>2, <3>3
  <2>3. n - 1 \in Nat /\ n - 1 \notin Bad
    <3>1. n \in Nat
      OBVIOUS
    <3> HIDE DEF Bad
    <3> QED  BY <3>1, <2>1, <2>2
  <2>4. PICK g : g = [s \in SUBSET S |-> g[s]] /\ Up(g, n - 1)
    BY <2>3
  <2> DEFINE k == [s \in SUBSET S |-> IF Cardinality(s) <= n - 1 THEN g[s] ELSE Unfold(g, h, s)]
  <2>5. \A s \in SUBSET S : Cardinality(s) <= n => k[s] = Unfold(k, h, s)
    <3> SUFFICES ASSUME NEW s \in SUBSET S, Cardinality(s) <= n  PROVE k[s] = Unfold(k, h, s)
      OBVIOUS
    <3>1. CASE s = {}
      <4>1. Cardinality(s) = 0
        BY <3>1, FS_EmptySet
      <4>2. Cardinality(s) <= n - 1
        BY <4>1, <2>3
      <4> QED  BY <3>1, <4>2, <2>4 DEF Unfold
    <3>2. CASE s # {}
      <4> DEFINE x == Pick(s)
                 t == s \ {x}
      <4>1. x \in s
        BY <3>2, PickIsOne
      <4>2. t \in SUBSET S /\ IsFiniteSet(s)
        BY <1>0
      <4>3. Cardinality(t) = Cardinality(s) - 1
        BY <4>1, <4>2, FS_RemoveElement
      <4>4. Cardinality(t) <= n - 1
        BY <4>3, <1>0, <2>3
      <4>5. k[t] = g[t]
        BY <4>2, <4>4
      <4>6. Unfold(k, h, s) = Unfold(g, h, s)
        BY <4>5 DEF Unfold
      <4>7. k[s] = Unfold(g, h, s)
        BY <2>4
      <4> QED  BY <4>6, <4>7
    <3> QED  BY <3>1, <3>2
  <2>6. k = [s \in SUBSET S |-> k[s]]
    OBVIOUS
  <2> HIDE DEF k
  <2> QED  BY <2>5, <2>6
<1> DEFINE n == Cardinality(S)
<1>2. n \in Nat
  BY FS_CardinalityType
<1>3. PICK g : g = [s \in SUBSET S |-> g[s]] /\ Up(g, n)
  BY <1>1, <1>2
<1>4. \A s \in SUBSET S : Cardinality(s) <= n
  BY FS_Subset
<1>5. \A s \in SUBSET S : g[s] = Unfold(g, h, s)
  BY <1>3, <1>4
<1>6. IsSum(g, S, h)
  BY <1>3, <1>5 DEF IsSum
<1> QED  BY <1>6

\* Members of E, each with an address: what is at the addresses of s.
Fibre(E, at, s) == {e \in E : at[e] \in s}

\* h counts what is at each address of S.
Counts(h, S, E, at) == \A x \in S : h[x] = Cardinality(Fibre(E, at, {x}))

\* When h counts what is at one address, its sum counts what is at all of them.
LEMMA SumOfFibres ==
  ASSUME NEW S, IsFiniteSet(S), NEW h, NEW it, IsSum(it, S, h),
         NEW E, IsFiniteSet(E), NEW at, Counts(h, S, E, at)
  PROVE  it[S] = Cardinality(Fibre(E, at, S))
<1> DEFINE Off == {Cardinality(s) : s \in {t \in SUBSET S : it[t] # Cardinality(Fibre(E, at, t))}}
<1>0. \A s \in SUBSET S : IsFiniteSet(s) /\ Cardinality(s) \in Nat
  BY FS_Subset, FS_CardinalityType
<1>1. \A s : IsFiniteSet(Fibre(E, at, s)) /\ Cardinality(Fibre(E, at, s)) \in Nat
  BY FS_Subset, FS_CardinalityType DEF Fibre
<1>2. \A s \in SUBSET S : it[s] = Unfold(it, h, s)
  BY DEF IsSum
<1>3. Off = {}
  <2> SUFFICES ASSUME Off # {} PROVE FALSE
    OBVIOUS
  <2>0. Off \subseteq Nat
    BY <1>0
  <2>1. PICK n \in Off : \A m \in Off : n <= m
    <3> HIDE DEF Off
    <3> QED  BY <2>0, LeastNumber
  <2>2. PICK s \in SUBSET S : Cardinality(s) = n /\ it[s] # Cardinality(Fibre(E, at, s))
    OBVIOUS
  <2>3. s # {}
    <3> SUFFICES ASSUME s = {} PROVE FALSE
      OBVIOUS
    <3>1. it[s] = 0
      BY <1>2 DEF Unfold
    <3>2. Fibre(E, at, s) = {}
      BY DEF Fibre
    <3> QED  BY <2>2, <3>1, <3>2, FS_EmptySet
  <2> DEFINE x == Pick(s)
             t == s \ {x}
  <2>4. x \in s
    BY <2>3, PickIsOne
  <2>5. t \in SUBSET S /\ Cardinality(t) = Cardinality(s) - 1
    BY <2>4, <1>0, FS_RemoveElement
  <2>6. it[t] = Cardinality(Fibre(E, at, t))
    <3> SUFFICES ASSUME it[t] # Cardinality(Fibre(E, at, t)) PROVE FALSE
      OBVIOUS
    <3>1. Cardinality(t) \in Off
      BY <2>5
    <3>2. n <= Cardinality(t) /\ n \in Nat /\ Cardinality(t) = n - 1
      BY <2>0, <2>1, <2>2, <2>5, <3>1
    <3> QED  BY <3>2
  <2>7. it[s] = h[x] + it[t]
    BY <1>2, <2>3 DEF Unfold
  <2>8. h[x] = Cardinality(Fibre(E, at, {x}))
    BY <2>4 DEF Counts
  <2> HIDE DEF x, t
  <2> DEFINE one == Fibre(E, at, {x})
             rest == Fibre(E, at, t)
  <2>9. Fibre(E, at, s) = one \cup rest /\ one \cap rest = {}
    BY <2>4 DEF Fibre, t
  <2>10. IsFiniteSet(one) /\ IsFiniteSet(rest) /\ Cardinality(one) \in Nat /\ Cardinality(rest) \in Nat
    BY <1>1
  <2> HIDE DEF one, rest
  <2>11. Cardinality(one \cup rest) = Cardinality(one) + Cardinality(rest)
    <3>1. Cardinality(one \cap rest) = 0
      BY <2>9, FS_EmptySet
    <3>2. Cardinality(one \cup rest) = Cardinality(one) + Cardinality(rest) - Cardinality(one \cap rest)
      BY <2>10, FS_Union
    <3> QED  BY <2>10, <3>1, <3>2
  <2> QED  BY <2>2, <2>6, <2>7, <2>8, <2>9, <2>11 DEF one, rest
<1> QED  BY <1>3

\* The sum itself, as the folds of the community modules compute it.
SumOver(h, S) == (CHOOSE it : IsSum(it, S, h))[S]

\* When every member of E has its address in S, the sum counts all of E.
LEMMA SumOfAll ==
  ASSUME NEW S, IsFiniteSet(S), NEW h, NEW E, IsFiniteSet(E), NEW at, Counts(h, S, E, at),
         \A e \in E : at[e] \in S
  PROVE  SumOver(h, S) = Cardinality(E)
<1> DEFINE it == CHOOSE i : IsSum(i, S, h)
<1>1. IsSum(it, S, h)
  BY SumExists
<1>2. SumOver(h, S) = it[S]
  BY DEF SumOver
<1> HIDE DEF it
<1>3. it[S] = Cardinality(Fibre(E, at, S))
  BY <1>1, SumOfFibres
<1>4. Fibre(E, at, S) = E
  BY DEF Fibre
<1> QED  BY <1>2, <1>3, <1>4

\* What a finite set maps to is finite, and no larger.
LEMMA FiniteImage ==
  ASSUME NEW E, IsFiniteSet(E), NEW f, NEW T, T = {f[e] : e \in E}
  PROVE  IsFiniteSet(T) /\ Cardinality(T) <= Cardinality(E)
<1> DEFINE g == [e \in E |-> f[e]]
<1>1. g \in Surjection(E, T)
  BY DEF Surjection
<1> HIDE DEF g
<1> QED  BY <1>1, FS_Surjection

(* The map *)

LEMMA SameSize ==
  ASSUME NEW s
  PROVE  Arch!Cardinality(s) = Cardinality(s) /\ View!Cardinality(s) = Cardinality(s)
  BY DEF Cardinality, Arch!Cardinality, View!Cardinality

LEMMA WeightsAreASum ==
  ASSUME NEW g
  PROVE  Arch!WeightsAddUp(g) <=>
           SumOver([a \in Arch!Aggregated(g) |-> Arch!Weight(g, a)], Arch!Aggregated(g))
             = Cardinality(Arch!Crossing(g))
<1> DEFINE S == Arch!Aggregated(g)
           h == [a \in S |-> Arch!Weight(g, a)]
           Other(it) == it = [s \in SUBSET S |-> IF s = {} THEN 0 ELSE Arch!Weight(g, Pick(s)) + it[s \ {Pick(s)}]]
<1>1. \A it : Other(it) <=> IsSum(it, S, h)
  <2> SUFFICES ASSUME NEW it PROVE Other(it) <=> IsSum(it, S, h)
    OBVIOUS
  <2>1. \A s \in SUBSET S : Unfold(it, h, s) = IF s = {} THEN 0 ELSE Arch!Weight(g, Pick(s)) + it[s \ {Pick(s)}]
    BY PickIsOne DEF Unfold
  <2> QED  BY <2>1 DEF IsSum
<1>2. (CHOOSE it : Other(it)) = (CHOOSE it : IsSum(it, S, h))
  <2> HIDE DEF Other, h
  <2> QED  BY <1>1, Zenon
<1>3. Arch!WeightsAddUp(g) <=> (CHOOSE it : Other(it))[S] = Cardinality(Arch!Crossing(g))
  BY SameSize DEF Arch!WeightsAddUp, Arch!MapThenSumSet, Arch!MapThenFoldSet, Pick
<1> QED  BY <1>2, <1>3 DEF SumOver

THEOREM EveryLinkIsCounted ==
  ASSUME NEW g, IsFiniteSet(g.edges)
  PROVE  Arch!WeightsAddUp(g)
<1> DEFINE E == Arch!Crossing(g)
           S == Arch!Aggregated(g)
           at == [e \in E |-> Arch!Collapsed(g, e)]
           h == [a \in S |-> Arch!Weight(g, a)]
<1>1. IsFiniteSet(E)
  BY FS_Subset DEF Arch!Crossing
<1>2. S = {at[e] : e \in E}
  BY DEF Arch!Aggregated
<1>3. IsFiniteSet(S)
  <2> HIDE DEF E, S, at
  <2> QED  BY <1>1, <1>2, FiniteImage
<1>4. \A e \in E : at[e] \in S
  BY <1>2
<1>5. Counts(h, S, E, at)
  <2> SUFFICES ASSUME NEW a \in S  PROVE h[a] = Cardinality(Fibre(E, at, {a}))
    BY DEF Counts
  <2>1. Fibre(E, at, {a}) = {e \in E : Arch!Collapsed(g, e) = a}
    BY DEF Fibre
  <2>2. Arch!Weight(g, a) = Cardinality({e \in E : Arch!Collapsed(g, e) = a})
    BY SameSize DEF Arch!Weight
  <2>3. h[a] = Arch!Weight(g, a)
    OBVIOUS
  <2> HIDE DEF E, S, at, h
  <2> QED  BY <2>1, <2>2, <2>3
<1>6. SumOver(h, S) = Cardinality(E)
  <2> HIDE DEF E, S, at, h
  <2> QED  BY <1>1, <1>3, <1>4, <1>5, SumOfAll
<1> QED  BY <1>6, WeightsAreASum DEF Arch!WeightsAddUp


\* What the evidence graph gives the map: a file is in itself, the code that
\* touches a table is in a file, only a file refers to a package and only by
\* its own kind of edge, and whether a package is third-party is told by its name.
IsSnapshot(g) ==
  /\ \A n \in Arch!Members(g) : Arch!IsFile(g, n) => g.path[n] = n
  /\ \A e \in g.edges : e.type = "touches_schema" =>
       /\ g.path[e.from] \in Arch!Members(g) /\ Arch!IsFile(g, g.path[e.from])
       /\ e.from \in Arch!Members(g) => Arch!IsFile(g, e.from)
  /\ \A e \in g.edges : e.type = "references_external" =>
       /\ e.from \in Arch!Members(g) /\ Arch!IsFile(g, e.from)
       /\ e.to \in g.nodes /\ g.type[e.to] = "external"
  /\ \A e \in g.edges : e.type = "imports" => g.type[e.to] # "external"
  /\ \A m, n \in g.nodes : g.type[m] = "external" /\ g.type[n] = "external" /\ g.package[m] = g.package[n]
                             => g.third[m] = g.third[n]

\* The last row of a path is one of its rows.
LEMMA LastIsOne ==
  ASSUME NEW rows, NEW of \in Arch!LastWins(rows)
  PROVE  DOMAIN of = Arch!PathsOf(rows) /\ \A p \in DOMAIN of : of[p] \in Arch!OwnersOfPath(rows, p)
<1> DEFINE Owners(p) == Arch!OwnersOfPath(rows, p)
           paths == Arch!PathsOf(rows)
           shared == {p \in paths : Arch!Cardinality(Owners(p)) > 1}
           picks == {f \in [shared -> UNION {Owners(p) : p \in shared}] : \A p \in shared : f[p] \in Owners(p)}
           only(p) == CHOOSE k \in Owners(p) : TRUE
<1>1. PICK f \in picks : of = [p \in paths |-> IF p \in shared THEN f[p] ELSE only(p)]
  BY DEF Arch!LastWins
<1>2. \A p \in paths : only(p) \in Owners(p)
  <2> TAKE p \in paths
  <2>1. \E k : k \in Owners(p)
    BY DEF Arch!PathsOf, Arch!OwnersOfPath
  <2> QED  BY <2>1
<1>3. \A p \in shared : f[p] \in Owners(p)
  BY <1>1
<1> HIDE DEF only, shared, picks, Owners
<1>4. \A p \in paths : of[p] \in Owners(p)
  BY <1>1, <1>2, <1>3
<1>5. DOMAIN of = paths
  BY <1>1
<1> QED  BY <1>4, <1>5 DEF Owners

\* A file has one component, whichever row of its path comes last.
LEMMA FileHasOneOwner ==
  ASSUME NEW g, IsSnapshot(g), Arch!SourcesApart(g),
         NEW of \in Arch!LastWins(Arch!Rows(g, g.nodes)),
         NEW f \in Arch!Members(g), Arch!IsFile(g, f)
  PROVE  f \in DOMAIN of /\ of[f] = Arch!KeyOf(g, f)
<1> DEFINE rows == Arch!Rows(g, g.nodes)
<1>1. rows.members = {[key |-> Arch!KeyOf(g, n), path |-> g.path[n]] : n \in Arch!Members(g)}
  <2>1. Arch!Members(g) \cap g.nodes = Arch!Members(g)
    BY DEF Arch!Members
  <2> QED  BY <2>1 DEF Arch!Rows
<1>2. g.path[f] = f
  BY DEF IsSnapshot
<1> HIDE DEF rows
<1>3. f \in Arch!PathsOf(rows)
  <2> DEFINE m == [key |-> Arch!KeyOf(g, f), path |-> g.path[f]]
  <2>1. m \in rows.members
    BY <1>1
  <2>2. m.path = f
    BY <1>2
  <2> HIDE DEF m
  <2> QED  BY <2>1, <2>2 DEF Arch!PathsOf
<1>4. DOMAIN of = Arch!PathsOf(rows) /\ of[f] \in Arch!OwnersOfPath(rows, f)
  <2>1. of \in Arch!LastWins(rows)
    BY DEF rows
  <2> QED  BY <1>3, <2>1, LastIsOne
<1>5. PICK n \in Arch!Members(g) : of[f] = Arch!KeyOf(g, n) /\ g.path[n] = f
  BY <1>1, <1>4 DEF Arch!OwnersOfPath
<1>6. Arch!IsFile(g, n)
  BY <1>2, <1>5 DEF Arch!SourcesApart
<1>7. n = f
  BY <1>5, <1>6 DEF IsSnapshot
<1> QED  BY <1>3, <1>4, <1>5, <1>7

\* The name a row carries is the name of its component.
LEMMA LabelsAgree ==
  ASSUME NEW g, NEW k \in Arch!Clusters(g)
  PROVE  Arch!LabelOf(Arch!Rows(g, g.nodes), k) = Arch!Label(g, k)
<1> DEFINE cs == {[key |-> j, label |-> Arch!Label(g, j), kind |-> Arch!Kind(g, j)] : j \in Arch!Clusters(g)}
           c == CHOOSE x \in cs : x.key = k
           row(j) == [key |-> j, label |-> Arch!Label(g, j), kind |-> Arch!Kind(g, j)]
<1>1. Arch!Rows(g, g.nodes).clusters = cs
  BY DEF Arch!Rows
<1>2. \E x \in cs : x.key = k
  <2>1. row(k) \in cs /\ row(k).key = k
    OBVIOUS
  <2> HIDE DEF cs, row
  <2> QED  BY <2>1
<1>3. c \in cs /\ c.key = k
  <2> HIDE DEF cs
  <2> QED  BY <1>2
<1>4. c.label = Arch!Label(g, k)
  <2> HIDE DEF c
  <2>1. PICK j \in Arch!Clusters(g) : c = row(j)
    BY <1>3
  <2>2. c.key = j /\ c.label = Arch!Label(g, j)
    BY <2>1
  <2> QED  BY <1>3, <2>2
<1> QED  BY <1>1, <1>4 DEF Arch!LabelOf

\* The two ends of an edge of the map are components.
LEMMA EndsAreClusters ==
  ASSUME NEW g, NEW a \in Arch!Aggregated(g)
  PROVE  a.from \in Arch!Clusters(g) /\ a.to \in Arch!Clusters(g)
<1>1. PICK e \in Arch!Crossing(g) : a = Arch!Collapsed(g, e)
  BY DEF Arch!Aggregated
<1>2. \A n : Arch!ClusterOf(g, n) # Arch!Nowhere => Arch!ClusterOf(g, n) \in Arch!Clusters(g)
  BY DEF Arch!ClusterOf, Arch!Clusters
<1>3. Arch!ClusterOf(g, e.from) # Arch!Nowhere /\ Arch!ClusterOf(g, e.to) # Arch!Nowhere
  BY DEF Arch!Crossing
<1>4. a.from = Arch!ClusterOf(g, e.from) /\ a.to = Arch!ClusterOf(g, e.to)
  BY <1>1 DEF Arch!Collapsed
<1> QED  BY <1>2, <1>3, <1>4

\* The links read from the rows are those the run drew.
LEMMA LinksAgree ==
  ASSUME NEW g, NEW k, NEW rows, rows = Arch!Rows(g, g.nodes)
  PROVE  /\ {[other |-> Arch!LabelOf(rows, e.to), type |-> e.type, carries |-> e.flows] :
                e \in {x \in rows.edges : x.from = k}} = Arch!Outbound(g, k)
         /\ {[other |-> Arch!LabelOf(rows, e.from), type |-> e.type, carries |-> e.flows] :
                e \in {x \in rows.edges : x.to = k}} = Arch!Inbound(g, k)
<1> DEFINE A == Arch!Aggregated(g)
<1>1. rows.edges = {[from |-> a.from, to |-> a.to, type |-> a.type, flows |-> Arch!Crossings(g, a)] : a \in A}
  BY DEF Arch!Rows
<1>2. \A a \in A : Arch!LabelOf(rows, a.to) = Arch!Label(g, a.to) /\ Arch!LabelOf(rows, a.from) = Arch!Label(g, a.from)
  BY LabelsAgree, EndsAreClusters
<1> DEFINE row(a) == [from |-> a.from, to |-> a.to, type |-> a.type, flows |-> Arch!Crossings(g, a)]
<1> HIDE DEF A
<1>3. {[other |-> Arch!LabelOf(rows, e.to), type |-> e.type, carries |-> e.flows] :
         e \in {x \in rows.edges : x.from = k}}
      = {[other |-> Arch!Label(g, a.to), type |-> a.type, carries |-> Arch!Crossings(g, a)] : a \in {b \in A : b.from = k}}
  <2> DEFINE Read(e) == [other |-> Arch!LabelOf(rows, e.to), type |-> e.type, carries |-> e.flows]
             Drawn(a) == [other |-> Arch!Label(g, a.to), type |-> a.type, carries |-> Arch!Crossings(g, a)]
  <2>1. \A a \in A : Read(row(a)) = Drawn(a) /\ row(a).from = a.from /\ row(a) \in rows.edges
    BY <1>1, <1>2
  <2>2. \A e \in rows.edges : \E a \in A : e = row(a)
    BY <1>1
  <2> HIDE DEF Read, Drawn, row
  <2>3. {Read(e) : e \in {x \in rows.edges : x.from = k}} = {Drawn(a) : a \in {b \in A : b.from = k}}
    BY <2>1, <2>2
  <2> QED  BY <2>3 DEF Read, Drawn
<1>4. {[other |-> Arch!LabelOf(rows, e.from), type |-> e.type, carries |-> e.flows] :
         e \in {x \in rows.edges : x.to = k}}
      = {[other |-> Arch!Label(g, a.from), type |-> a.type, carries |-> Arch!Crossings(g, a)] : a \in {b \in A : b.to = k}}
  <2> DEFINE Read(e) == [other |-> Arch!LabelOf(rows, e.from), type |-> e.type, carries |-> e.flows]
             Drawn(a) == [other |-> Arch!Label(g, a.from), type |-> a.type, carries |-> Arch!Crossings(g, a)]
  <2>1. \A a \in A : Read(row(a)) = Drawn(a) /\ row(a).to = a.to /\ row(a) \in rows.edges
    BY <1>1, <1>2
  <2>2. \A e \in rows.edges : \E a \in A : e = row(a)
    BY <1>1
  <2> HIDE DEF Read, Drawn, row
  <2>3. {Read(e) : e \in {x \in rows.edges : x.to = k}} = {Drawn(a) : a \in {b \in A : b.to = k}}
    BY <2>1, <2>2
  <2> QED  BY <2>3 DEF Read, Drawn
<1> QED  BY <1>3, <1>4 DEF Arch!Outbound, Arch!Inbound, A


\* The tables found through the files of a component are those its code touches.
LEMMA TablesAgree ==
  ASSUME NEW g, IsSnapshot(g), Arch!SourcesApart(g), NEW rows, rows = Arch!Rows(g, g.nodes),
         NEW of \in Arch!LastWins(rows), NEW k
  PROVE  {t.table : t \in {x \in rows.tables : x.path \in DOMAIN of /\ of[x.path] = k}} = Arch!TablesOf(g, k)
<1> DEFINE touches == {x \in g.edges : x.type = "touches_schema"}
           row(e) == [path |-> g.path[e.from], table |-> e.to]
<1>1. rows.tables = {row(e) : e \in touches}
  BY DEF Arch!Rows
<1>2. \A e \in touches : row(e).path = g.path[e.from] /\ row(e).table = e.to
  OBVIOUS
<1>3. \A e \in touches : /\ g.path[e.from] \in DOMAIN of
                         /\ of[g.path[e.from]] = Arch!ClusterOf(g, e.from)
  <2> SUFFICES ASSUME NEW e \in touches
               PROVE  g.path[e.from] \in DOMAIN of /\ of[g.path[e.from]] = Arch!ClusterOf(g, e.from)
    OBVIOUS
  <2>1. /\ g.path[e.from] \in Arch!Members(g) /\ Arch!IsFile(g, g.path[e.from])
        /\ e.from \in Arch!Members(g) => Arch!IsFile(g, e.from)
    BY DEF IsSnapshot
  <2>2. g.path[e.from] \in DOMAIN of /\ of[g.path[e.from]] = Arch!KeyOf(g, g.path[e.from])
    BY <2>1, FileHasOneOwner
  <2>3. e.from \in Arch!Members(g) => g.path[e.from] = e.from
    BY <2>1 DEF IsSnapshot
  <2>4. Arch!ClusterOf(g, e.from) = Arch!KeyOf(g, g.path[e.from])
    BY <2>1, <2>3 DEF Arch!ClusterOf
  <2> QED  BY <2>2, <2>4
<1>4. Arch!TablesOf(g, k) = {e.to : e \in {x \in touches : Arch!ClusterOf(g, x.from) = k}}
  BY DEF Arch!TablesOf
<1> HIDE DEF row, touches
<1> QED  BY <1>1, <1>2, <1>3, <1>4

\* What a file of the snapshot imports of the packages that are third-party.
Uses(g, f, p) == \E e \in g.edges : /\ e.type = "references_external" /\ e.from = f
                                    /\ g.package[e.to] = p /\ g.third[e.to]

LEMMA PullsAreUses ==
  ASSUME NEW g, IsSnapshot(g), NEW f, NEW p
  PROVE  p \in Arch!ThirdPartyOf(g, f) <=> Uses(g, f, p)
<1>1. ASSUME p \in Arch!ThirdPartyOf(g, f)  PROVE Uses(g, f, p)
  <2>1. PICK m \in g.nodes : g.type[m] = "external" /\ g.third[m] /\ p = g.package[m]
    BY <1>1 DEF Arch!ThirdPartyOf, Arch!ThirdParty
  <2>2. PICK e \in g.edges : /\ e.from = f /\ e.type \in {"imports", "references_external"}
                             /\ g.type[e.to] = "external" /\ p = g.package[e.to]
    BY <1>1 DEF Arch!ThirdPartyOf, Arch!ImportsOf
  <2>3. e.type = "references_external" /\ e.to \in g.nodes
    BY <2>2 DEF IsSnapshot
  <2>4. g.third[e.to] = g.third[m]
    BY <2>1, <2>2, <2>3 DEF IsSnapshot
  <2> QED  BY <2>1, <2>2, <2>3, <2>4 DEF Uses
<1>2. ASSUME Uses(g, f, p)  PROVE p \in Arch!ThirdPartyOf(g, f)
  <2>1. PICK e \in g.edges : /\ e.type = "references_external" /\ e.from = f
                             /\ g.package[e.to] = p /\ g.third[e.to]
    BY <1>2 DEF Uses
  <2>2. e.to \in g.nodes /\ g.type[e.to] = "external"
    BY <2>1 DEF IsSnapshot
  <2>3. p \in Arch!ImportsOf(g, f)
    BY <2>1, <2>2 DEF Arch!ImportsOf
  <2>4. p \in {g.package[n] : n \in {m \in g.nodes : Arch!ThirdParty(g, m)}}
    BY <2>1, <2>2 DEF Arch!ThirdParty
  <2> QED  BY <2>3, <2>4 DEF Arch!ThirdPartyOf
<1> QED  BY <1>1, <1>2

\* The packages that are one component's own, by the imports and by the rows.
LEMMA PackagesAgree ==
  ASSUME NEW g, IsSnapshot(g), Arch!SourcesApart(g), NEW rows, rows = Arch!Rows(g, g.nodes),
         NEW of \in Arch!LastWins(rows), NEW k \in Arch!Clusters(g)
  PROVE  Arch!ExclusiveFromRows(rows, of, k) = Arch!Exclusive(g, k)
<1> DEFINE refers == {x \in g.edges : x.type = "references_external"}
           row(e) == [path |-> g.path[e.from], package |-> g.package[e.to], third |-> g.third[e.to]]
           U(p) == Arch!UsersOf(rows, of, p)
<1>1. rows.externals = {row(e) : e \in refers}
  BY DEF Arch!Rows
<1>2. \A e \in refers : row(e).path = g.path[e.from] /\ row(e).package = g.package[e.to] /\ row(e).third = g.third[e.to]
  OBVIOUS
<1>3. \A e \in refers : /\ e.from \in Arch!Members(g) /\ Arch!IsFile(g, e.from) /\ g.path[e.from] = e.from
                        /\ e.from \in DOMAIN of /\ of[e.from] = Arch!KeyOf(g, e.from)
  <2> SUFFICES ASSUME NEW e \in refers
               PROVE  /\ e.from \in Arch!Members(g) /\ Arch!IsFile(g, e.from) /\ g.path[e.from] = e.from
                      /\ e.from \in DOMAIN of /\ of[e.from] = Arch!KeyOf(g, e.from)
    OBVIOUS
  <2>1. e.from \in Arch!Members(g) /\ Arch!IsFile(g, e.from)
    BY DEF IsSnapshot
  <2>2. g.path[e.from] = e.from
    BY <2>1 DEF IsSnapshot
  <2> QED  BY <2>1, <2>2, FileHasOneOwner
<1>4. \A e : e \in refers <=> e \in g.edges /\ e.type = "references_external"
  OBVIOUS
<1>5. \A p : U(p) = {of[x.path] : x \in {y \in rows.externals : y.third /\ y.package = p /\ y.path \in DOMAIN of}}
  BY DEF Arch!UsersOf
<1> HIDE DEF row, refers, U
<1>6. \A p, j : j \in U(p) <=> \E e \in refers : g.third[e.to] /\ g.package[e.to] = p /\ j = Arch!KeyOf(g, e.from)
  <2> TAKE p, j
  <2>1. j \in U(p) <=> \E e \in refers : row(e).third /\ row(e).package = p /\ row(e).path \in DOMAIN of /\ j = of[row(e).path]
    BY <1>1, <1>5
  <2> QED  BY <1>2, <1>3, <2>1
<1>7. \A p, j : j \in U(p) <=> j \in Arch!Clusters(g) /\ p \in Arch!PullsIn(g, j)
  <2> TAKE p, j
  <2>1. p \in Arch!PullsIn(g, j) <=> \E f \in Arch!Files(g, j) : Uses(g, f, p)
    BY PullsAreUses DEF Arch!PullsIn
  <2>2. \A f : f \in Arch!Files(g, j) <=> f \in Arch!Members(g) /\ Arch!IsFile(g, f) /\ Arch!KeyOf(g, f) = j
    BY DEF Arch!Files, Arch!InCluster
  <2>3. ASSUME j \in U(p)  PROVE j \in Arch!Clusters(g) /\ p \in Arch!PullsIn(g, j)
    <3>1. PICK e \in refers : g.third[e.to] /\ g.package[e.to] = p /\ j = Arch!KeyOf(g, e.from)
      BY <1>6, <2>3
    <3>2. e.from \in Arch!Files(g, j) /\ j \in Arch!Clusters(g)
      BY <1>3, <2>2, <3>1 DEF Arch!Clusters
    <3>3. Uses(g, e.from, p)
      BY <1>4, <3>1 DEF Uses
    <3> QED  BY <2>1, <3>2, <3>3
  <2>4. ASSUME p \in Arch!PullsIn(g, j)  PROVE j \in U(p)
    <3>1. PICK f \in Arch!Files(g, j) : Uses(g, f, p)
      BY <2>1, <2>4
    <3>2. PICK e \in g.edges : e.type = "references_external" /\ e.from = f /\ g.package[e.to] = p /\ g.third[e.to]
      BY <3>1 DEF Uses
    <3> QED  BY <1>4, <1>6, <2>2, <3>1, <3>2
  <2> QED  BY <2>3, <2>4
<1>8. \A p : p \in Arch!ExclusiveFromRows(rows, of, k) <=> U(p) = {k}
  <2> TAKE p
  <2>1. p \in Arch!ExclusiveFromRows(rows, of, k) <=> \E x \in rows.externals : p = x.package /\ U(x.package) = {k}
    BY DEF Arch!ExclusiveFromRows, U
  <2>2. U(p) = {k} => \E x \in rows.externals : p = x.package
    <3> SUFFICES ASSUME U(p) = {k} PROVE \E x \in rows.externals : p = x.package
      OBVIOUS
    <3>1. PICK e \in refers : g.package[e.to] = p
      BY <1>6
    <3>2. row(e) \in rows.externals /\ row(e).package = p
      BY <1>1, <1>2, <3>1
    <3> QED  BY <3>2
  <2> QED  BY <2>1, <2>2
<1>9. \A p : p \in Arch!Exclusive(g, k) <=> U(p) = {k}
  <2> TAKE p
  <2>1. p \in Arch!Exclusive(g, k) <=> /\ p \in Arch!PullsIn(g, k)
                                       /\ \A j \in Arch!Clusters(g) \ {k} : p \notin Arch!PullsIn(g, j)
    BY DEF Arch!Exclusive
  <2>2. U(p) = {k} <=> \A j : j \in U(p) <=> j = k
    OBVIOUS
  <2> QED  BY <1>7, <2>1, <2>2
<1> QED  BY <1>8, <1>9


\* The directories are counted over the files, at analysis, and over all the
\* members, later: the same when the component holds nothing but files.
LEMMA DirectoryAgrees ==
  ASSUME NEW g, IsSnapshot(g), NEW rows, rows = Arch!Rows(g, g.nodes),
         NEW k, Arch!Files(g, k) = Arch!InCluster(g, k)
  PROVE  {m.path : m \in {x \in rows.members : x.key = k}} = Arch!Files(g, k)
<1> DEFINE row(n) == [key |-> Arch!KeyOf(g, n), path |-> g.path[n]]
<1>1. rows.members = {row(n) : n \in Arch!Members(g)}
  <2>1. Arch!Members(g) \cap g.nodes = Arch!Members(g)
    BY DEF Arch!Members
  <2> QED  BY <2>1 DEF Arch!Rows
<1>2. \A n : row(n).key = Arch!KeyOf(g, n) /\ row(n).path = g.path[n]
  OBVIOUS
<1>3. \A n : n \in Arch!Files(g, k) <=> n \in Arch!Members(g) /\ Arch!KeyOf(g, n) = k
  BY DEF Arch!InCluster
<1>4. \A n \in Arch!Files(g, k) : g.path[n] = n
  BY DEF IsSnapshot, Arch!Files, Arch!InCluster
<1> HIDE DEF row
<1> QED  BY <1>1, <1>2, <1>3, <1>4

\* The facts of a component that a narrative is built from.
FactsOf(kind, tables, externals, inbound, outbound, common) ==
  [kind |-> kind, tables |-> tables, externals |-> externals, inbound |-> inbound,
   outbound |-> outbound, common |-> common]
PlainOf(n) == IF n.separation = "shares_directory" THEN [n EXCEPT !.separation = "convention"] ELSE n

\* The directory tells in one place only.
LEMMA DirectoryIsTheOnlyWord ==
  ASSUME NEW kind, NEW tables, NEW externals, NEW inbound, NEW outbound, NEW c, NEW d
  PROVE  PlainOf(Arch!Narrative(FactsOf(kind, tables, externals, inbound, outbound, c)))
           = PlainOf(Arch!Narrative(FactsOf(kind, tables, externals, inbound, outbound, d)))
<1> DEFINE links == inbound \cup outbound
           carried == UNION {l.carries : l \in links}
           Sep(common) == CASE links = {} -> "alone"
                            [] inbound = {} /\ links # {} -> "nothing_depends"
                            [] outbound = {} /\ inbound # {} -> "depends_on_nothing"
                            [] OTHER -> IF externals # {} THEN "keeps_packages"
                                        ELSE IF common # <<>> THEN "shares_directory" ELSE "convention"
           unk == {u \in {"no_link", "no_flow", "no_nouns"} :
                         \/ u = "no_link" /\ links = {}
                         \/ u = "no_flow" /\ links # {} /\ carried = {}
                         \/ u = "no_nouns" /\ ~(tables # {} \/ externals # {}) /\ carried = {}}
           Told(s) == [kind |-> kind, tables |-> tables, externals |-> externals,
                       out |-> Arch!Strongest(outbound), in |-> Arch!Strongest(inbound), flows |-> carried,
                       separation |-> s, unknowns |-> unk]
<1>1. \A common : Arch!Narrative(FactsOf(kind, tables, externals, inbound, outbound, common)) = Told(Sep(common))
  BY DEF Arch!Narrative, FactsOf
<1>2. \A s : Told(s).separation = s /\ [Told(s) EXCEPT !.separation = "convention"] = Told("convention")
  <2> HIDE DEF links, carried, unk
  <2> TAKE s
  <2>1. Told(s).separation = s
    OBVIOUS
  <2>2. [Told(s) EXCEPT !.separation = "convention"] = Told("convention")
    OBVIOUS
  <2> QED  BY <2>1, <2>2
<1>3. \/ Sep(c) = Sep(d)
      \/ /\ Sep(c) \in {"shares_directory", "convention"}
         /\ Sep(d) \in {"shares_directory", "convention"}
  <2> DEFINE p == links = {}
             q == inbound = {} /\ links # {}
             r == outbound = {} /\ inbound # {}
  <2>1. \A common : Sep(common) = CASE p -> "alone" [] q -> "nothing_depends" [] r -> "depends_on_nothing"
                     [] OTHER -> IF externals # {} THEN "keeps_packages"
                                 ELSE IF common # <<>> THEN "shares_directory" ELSE "convention"
    OBVIOUS
  <2>2. (p => ~q) /\ (p => ~r) /\ (q => ~r)
    OBVIOUS
  <2> HIDE DEF p, q, r, Sep
  <2>3. CASE p \/ q \/ r
    BY <2>1, <2>2, <2>3
  <2>4. CASE ~p /\ ~q /\ ~r
    BY <2>1, <2>4
  <2> QED  BY <2>3, <2>4
<1> HIDE DEF Told, Sep
<1>4. \A s : PlainOf(Told(s)) = IF s = "shares_directory" THEN Told("convention") ELSE Told(s)
  BY <1>2 DEF PlainOf
<1> QED  BY <1>1, <1>3, <1>4

\* What the run stores about a component, and what the rows say of it later in
\* whatever order they come, is the same, for every snapshot the graph can be.
THEOREM SummariesAgree ==
  ASSUME NEW g, IsSnapshot(g)
  PROVE  Arch!NarrativesAgree(g)
<1> DEFINE rows == Arch!Rows(g, g.nodes)
<1> SUFFICES ASSUME Arch!SourcesApart(g), NEW of \in Arch!LastWins(rows), NEW c \in rows.clusters
             PROVE  IF Arch!Files(g, c.key) = Arch!InCluster(g, c.key)
                    THEN Arch!AtRequest(g, rows, of, c) = Arch!AtAnalysis(g, c.key)
                    ELSE PlainOf(Arch!AtRequest(g, rows, of, c)) = PlainOf(Arch!AtAnalysis(g, c.key))
  BY DEF Arch!NarrativesAgree, PlainOf
<1>0. rows = Arch!Rows(g, g.nodes)
  OBVIOUS
<1>1. PICK k \in Arch!Clusters(g) : c.key = k /\ c.kind = Arch!Kind(g, k)
  BY DEF Arch!Rows
<1> HIDE DEF rows
<1> DEFINE byRow == Arch!CommonDirectory(g, {m.path : m \in {x \in rows.members : x.key = k}})
           byFile == Arch!CommonDirectory(g, Arch!Files(g, k))
           Of(common) == Arch!Narrative(FactsOf(Arch!Kind(g, k), Arch!TablesOf(g, k), Arch!Exclusive(g, k),
                                                Arch!Inbound(g, k), Arch!Outbound(g, k), common))
<1>2. Arch!AtAnalysis(g, c.key) = Of(byFile)
  BY <1>1 DEF Arch!AtAnalysis, FactsOf
<1>3. Arch!AtRequest(g, rows, of, c) = Of(byRow)
  <2> DEFINE tables == {t.table : t \in {x \in rows.tables : x.path \in DOMAIN of /\ of[x.path] = k}}
             outbound == {[other |-> Arch!LabelOf(rows, e.to), type |-> e.type, carries |-> e.flows] :
                            e \in {x \in rows.edges : x.from = k}}
             inbound == {[other |-> Arch!LabelOf(rows, e.from), type |-> e.type, carries |-> e.flows] :
                            e \in {x \in rows.edges : x.to = k}}
  <2>1. tables = Arch!TablesOf(g, k)
    BY <1>0, TablesAgree
  <2>2. Arch!ExclusiveFromRows(rows, of, k) = Arch!Exclusive(g, k)
    BY <1>0, PackagesAgree
  <2>3. outbound = Arch!Outbound(g, k) /\ inbound = Arch!Inbound(g, k)
    BY <1>0, LinksAgree
  <2>4. Arch!AtRequest(g, rows, of, c)
          = Arch!Narrative(FactsOf(c.kind, tables, Arch!ExclusiveFromRows(rows, of, k), inbound, outbound, byRow))
    BY <1>1 DEF Arch!AtRequest, FactsOf
  <2> HIDE DEF tables, outbound, inbound, byRow
  <2> QED  BY <1>1, <2>1, <2>2, <2>3, <2>4
<1>4. Arch!Files(g, k) = Arch!InCluster(g, k) => byRow = byFile
  <2> SUFFICES ASSUME Arch!Files(g, k) = Arch!InCluster(g, k) PROVE byRow = byFile
    OBVIOUS
  <2>1. {m.path : m \in {x \in rows.members : x.key = k}} = Arch!Files(g, k)
    BY <1>0, DirectoryAgrees
  <2> QED  BY <2>1
<1>5. PlainOf(Of(byRow)) = PlainOf(Of(byFile))
  <2> HIDE DEF byRow, byFile
  <2> QED  BY DirectoryIsTheOnlyWord
<1> HIDE DEF byRow, byFile, Of
<1> QED  BY <1>1, <1>2, <1>3, <1>4, <1>5


(* The levels *)

\* What a level is honest about, with its sums written out.
LEMMA NothingVanishesIs ==
  ASSUME NEW v, NEW at, NEW level
  PROVE  View!NothingVanishes(v, at, level) <=>
           (level.hidden = 0 => SumOver(level.size, level.drawn) = Cardinality(View!Covered(v, at)))
  BY SameSize DEF View!NothingVanishes, View!MapThenSumSet, View!MapThenFoldSet, SumOver, IsSum, Unfold, Pick

LEMMA HeaderAgreesIs ==
  ASSUME NEW level
  PROVE  View!HeaderAgrees(level) <=>
           /\ level.clustered => level.linksTotal >= level.linksInside + Cardinality(level.arrows)
           /\ level.clustered /\ level.hidden = 0 =>
                /\ SumOver(level.out, level.drawn) = level.linksTotal - level.linksInside
                /\ SumOver(level.in, level.drawn) = level.linksTotal - level.linksInside
           /\ Cardinality(level.drawn) <= MaxNodes
  BY SameSize DEF View!HeaderAgrees, View!MapThenSumSet, View!MapThenFoldSet, SumOver, IsSum, Unfold, Pick

\* What may survive a cut.
LEMMA SurvivorsFit ==
  ASSUME NEW S, IsFiniteSet(S), NEW rank, NEW n \in Nat, NEW K \in View!Survivors(S, rank, n)
  PROVE  /\ K \subseteq S /\ IsFiniteSet(K) /\ Cardinality(K) <= n
         /\ Cardinality(K) = IF Cardinality(S) < n THEN Cardinality(S) ELSE n
<1>1. Cardinality(S) \in Nat
  BY FS_CardinalityType
<1>2. K \in SUBSET S /\ Cardinality(K) = IF Cardinality(S) < n THEN Cardinality(S) ELSE n
  BY SameSize DEF View!Survivors
<1>3. IsFiniteSet(K)
  BY <1>2, FS_Subset
<1> QED  BY <1>1, <1>2, <1>3

\* The nodes of a level are finitely many.
LEMMA NodesFinite ==
  ASSUME NEW S, IsFiniteSet(S), NEW standsFor
  PROVE  IsFiniteSet(View!Nodes(S, standsFor)) /\ Cardinality(View!Nodes(S, standsFor)) <= Cardinality(S)
<1>1. View!Nodes(S, standsFor) = {standsFor[i] : i \in S}
  BY DEF View!Nodes
<1> QED  BY <1>1, FiniteImage

\* Never more nodes are drawn than a page can hold.
LEMMA DrawnFits ==
  ASSUME NEW v, NEW S, IsFiniteSet(S), NEW standsFor, NEW rank,
         NEW d \in View!Drawn(v, S, standsFor, rank)
  PROVE  d \subseteq View!Nodes(S, standsFor) /\ IsFiniteSet(d) /\ Cardinality(d) <= MaxNodes
<1> DEFINE all == View!Nodes(S, standsFor)
           groups == View!GroupsIn(S, standsFor)
           singles == all \ groups
           room == IF Cardinality(groups) >= MaxNodes THEN 0 ELSE MaxNodes - Cardinality(groups)
<1>0. MaxNodes \in Nat
  BY LevelsAssumption
<1>1. IsFiniteSet(all)
  BY NodesFinite
<1>2. groups \subseteq all
  BY DEF View!GroupsIn
<1>3. PICK A \in View!Survivors(groups, rank, MaxNodes), B \in View!Survivors(singles, rank, room) : d = A \cup B
  BY SameSize, SMTT(30) DEF View!Drawn
<1> HIDE DEF all, groups
<1>4. IsFiniteSet(groups) /\ IsFiniteSet(singles) /\ Cardinality(groups) \in Nat
  BY <1>1, <1>2, FS_Subset, FS_Difference, FS_CardinalityType
<1>5. room \in Nat
  BY <1>0, <1>4
<1> HIDE DEF singles
<1>6. A \subseteq groups /\ IsFiniteSet(A) /\ Cardinality(A) = IF Cardinality(groups) < MaxNodes THEN Cardinality(groups) ELSE MaxNodes
  <2> HIDE DEF room
  <2> QED  BY <1>0, <1>3, <1>4, SurvivorsFit
<1>7. B \subseteq singles /\ IsFiniteSet(B) /\ Cardinality(B) <= room
  <2> HIDE DEF room
  <2> QED  BY <1>3, <1>4, <1>5, SurvivorsFit
<1>8. IsFiniteSet(d) /\ Cardinality(d) = Cardinality(A) + Cardinality(B) - Cardinality(A \cap B)
  BY <1>3, <1>6, <1>7, FS_Union
<1>9. Cardinality(A) \in Nat /\ Cardinality(B) \in Nat /\ Cardinality(A \cap B) \in Nat
  BY <1>6, <1>7, FS_CardinalityType, FS_Intersection
<1>10. Cardinality(d) <= MaxNodes
  BY <1>0, <1>4, <1>6, <1>7, <1>8, <1>9
<1>11. d \subseteq all
  BY <1>2, <1>3, <1>6, <1>7 DEF singles
<1> QED  BY <1>8, <1>10, <1>11 DEF all

\* A set and the part of it with a property.
LEMMA PartAndRest ==
  ASSUME NEW E, IsFiniteSet(E), NEW P, P \subseteq E
  PROVE  /\ IsFiniteSet(P) /\ IsFiniteSet(E \ P)
         /\ Cardinality(E) = Cardinality(P) + Cardinality(E \ P)
         /\ Cardinality(E) \in Nat /\ Cardinality(P) \in Nat /\ Cardinality(E \ P) \in Nat
<1>1. IsFiniteSet(P) /\ IsFiniteSet(E \ P)
  BY FS_Subset, FS_Difference
<1>2. Cardinality(E \ P) = Cardinality(E) - Cardinality(E \cap P) /\ E \cap P = P
  BY FS_Difference
<1>3. Cardinality(E) \in Nat /\ Cardinality(P) \in Nat /\ Cardinality(E \ P) \in Nat
  BY <1>1, FS_CardinalityType
<1> QED  BY <1>1, <1>2, <1>3


\* The numbers of a grouped level are right, whatever is drawn of it.
LEMMA GroupedCounts ==
  ASSUME NEW v, IsFiniteSet(v.edges), NEW at, NEW S, S = View!Covered(v, at), IsFiniteSet(S), NEW standsFor,
         NEW drawn, drawn \subseteq View!Nodes(S, standsFor), IsFiniteSet(drawn), Cardinality(drawn) <= MaxNodes,
         NEW level, level = View!GroupedLevel(v, S, standsFor, drawn)
  PROVE  View!NothingVanishes(v, at, level) /\ View!HeaderAgrees(level)
<1> DEFINE all == View!Nodes(S, standsFor)
           links == View!Links(v, S)
           shown == View!LinksDrawn(v, S, standsFor, drawn)
           inside == {e \in shown : standsFor[e.from] = standsFor[e.to]}
           across == shown \ inside
           outOf(n) == {e \in links : standsFor[e.from] = n /\ standsFor[e.to] # n}
           into(n) == {e \in links : standsFor[e.to] = n /\ standsFor[e.from] # n}
<1>1. /\ level.drawn = drawn /\ level.clustered = TRUE
      /\ level.arrows = View!Arrows(v, S, standsFor, drawn)
      /\ level.size = [n \in drawn |-> Cardinality(View!Holds(S, standsFor, n))]
      /\ level.out = [n \in drawn |-> Cardinality(outOf(n))]
      /\ level.in = [n \in drawn |-> Cardinality(into(n))]
      /\ level.linksTotal = Cardinality(shown) /\ level.linksInside = Cardinality(inside)
      /\ level.hidden = Cardinality(all) - Cardinality(drawn)
  BY SameSize DEF View!GroupedLevel
<1>2. IsFiniteSet(links) /\ IsFiniteSet(shown)
  BY FS_Subset DEF View!Links, View!LinksDrawn
<1>3. /\ IsFiniteSet(across) /\ Cardinality(shown) = Cardinality(inside) + Cardinality(across)
      /\ Cardinality(inside) \in Nat /\ Cardinality(across) \in Nat
  <2>1. inside \subseteq shown
    OBVIOUS
  <2> HIDE DEF inside, shown
  <2> QED  BY <1>2, <2>1, PartAndRest
<1>4. Cardinality(level.arrows) \in Nat /\ Cardinality(level.arrows) <= Cardinality(across)
  <2> DEFINE f == [e \in across |-> <<standsFor[e.from], standsFor[e.to]>>]
  <2>1. across = {x \in shown : standsFor[x.from] # standsFor[x.to]}
    OBVIOUS
  <2>2. level.arrows = {f[e] : e \in across}
    BY <1>1, <2>1 DEF View!Arrows
  <2> HIDE DEF f, across
  <2> QED  BY <1>3, <2>2, FiniteImage, FS_CardinalityType
<1>5. level.linksTotal >= level.linksInside + Cardinality(level.arrows)
  <2> HIDE DEF shown, inside, across, links, all
  <2> QED  BY <1>1, <1>3, <1>4
<1>6. ASSUME level.hidden = 0  PROVE drawn = all
  <2> HIDE DEF all
  <2>1. IsFiniteSet(all) /\ Cardinality(all) \in Nat /\ Cardinality(drawn) \in Nat
    BY NodesFinite, FS_CardinalityType DEF all
  <2>2. Cardinality(all) = Cardinality(drawn)
    <3>1. Cardinality(all) - Cardinality(drawn) = 0
      <4> HIDE DEF shown, inside, outOf, into
      <4> QED  BY <1>1, <1>6
    <3> QED  BY <2>1, <3>1
  <2>3. drawn \subseteq all
    BY DEF all
  <2> QED  BY <2>1, <2>2, <2>3, FS_Subset
<1>7. ASSUME drawn = all  PROVE SumOver(level.size, drawn) = Cardinality(S)
  <2> DEFINE h == level.size
  <2>1. Counts(h, drawn, S, standsFor)
    BY <1>1 DEF Counts, Fibre, View!Holds
  <2>2. \A i \in S : standsFor[i] \in drawn
    BY <1>7 DEF View!Nodes
  <2> HIDE DEF h
  <2>3. SumOver(h, drawn) = Cardinality(S)
    BY <2>1, <2>2, SumOfAll
  <2> QED  BY <2>3 DEF h
<1>8. ASSUME drawn = all
      PROVE  SumOver(level.out, drawn) = Cardinality(across) /\ SumOver(level.in, drawn) = Cardinality(across)
  <2> DEFINE leaves == [e \in across |-> standsFor[e.from]]
             arrives == [e \in across |-> standsFor[e.to]]
             ho == level.out
             hi == level.in
  <2>1. \A e \in links : standsFor[e.from] \in drawn /\ standsFor[e.to] \in drawn
    BY <1>8 DEF View!Links, View!Nodes
  <2>2. shown = links
    BY <2>1 DEF View!LinksDrawn
  <2>3. \A e : e \in across <=> e \in links /\ standsFor[e.from] # standsFor[e.to]
    BY <2>2
  <2>4. \A n \in drawn : Fibre(across, leaves, {n}) = outOf(n) /\ Fibre(across, arrives, {n}) = into(n)
    <3> HIDE DEF links, across
    <3>1. \A e \in across : leaves[e] = standsFor[e.from] /\ arrives[e] = standsFor[e.to]
      OBVIOUS
    <3> HIDE DEF leaves, arrives
    <3> QED  BY <2>3, <3>1 DEF Fibre
  <2>5. \A e \in across : leaves[e] \in drawn /\ arrives[e] \in drawn
    BY <2>1, <2>3
  <2>6. ho = [n \in drawn |-> Cardinality(outOf(n))] /\ hi = [n \in drawn |-> Cardinality(into(n))]
    BY <1>1
  <2> HIDE DEF leaves, arrives, ho, hi, outOf, into, across
  <2>7. Counts(ho, drawn, across, leaves) /\ Counts(hi, drawn, across, arrives)
    BY <2>4, <2>6 DEF Counts
  <2>8. SumOver(ho, drawn) = Cardinality(across)
    BY <1>3, <2>5, <2>7, SumOfAll
  <2>9. SumOver(hi, drawn) = Cardinality(across)
    BY <1>3, <2>5, <2>7, SumOfAll
  <2> QED  BY <2>8, <2>9 DEF ho, hi
<1> HIDE DEF all, links, shown, inside, across, outOf, into
<1>9. View!NothingVanishes(v, at, level)
  BY <1>1, <1>6, <1>7, NothingVanishesIs
<1>10. level.hidden = 0 => /\ SumOver(level.out, level.drawn) = level.linksTotal - level.linksInside
                           /\ SumOver(level.in, level.drawn) = level.linksTotal - level.linksInside
  BY <1>1, <1>3, <1>6, <1>8
<1>11. View!HeaderAgrees(level)
  BY <1>1, <1>5, <1>10, HeaderAgreesIs
<1> QED  BY <1>9, <1>11


\* A level of items hides what its header says, and no more.
LEMMA FlatIsHonest ==
  ASSUME NEW v, NEW at, NEW S, S = View!Covered(v, at), IsFiniteSet(S), NEW rank,
         NEW level \in View!FlatLevels(v, S, rank)
  PROVE  View!LevelHonest(v, at, level)
<1>0. MaxNodes \in Nat
  BY LevelsAssumption
<1>1. PICK kept \in View!Survivors(S, rank, MaxNodes) : level = View!FlatLevel(v, S, kept)
  BY DEF View!FlatLevels
<1> DEFINE single == [i \in kept |-> View!Single(i)]
           drawn == {single[i] : i \in kept}
<1>2. /\ level.drawn = drawn /\ level.clustered = FALSE /\ level.size = [n \in drawn |-> 1]
      /\ level.hidden = Cardinality(S) - Cardinality(kept)
  <2> DEFINE d == {View!Single(i) : i \in kept}
  <2>1. d = drawn
    OBVIOUS
  <2>2. /\ level.drawn = d /\ level.clustered = FALSE /\ level.size = [n \in d |-> 1]
        /\ level.hidden = Cardinality(S) - Cardinality(kept)
    BY <1>1, SameSize DEF View!FlatLevel
  <2> HIDE DEF d, drawn
  <2> QED  BY <2>1, <2>2
<1>3. kept \subseteq S /\ IsFiniteSet(kept) /\ Cardinality(kept) <= MaxNodes /\ Cardinality(kept) \in Nat
  BY <1>0, SurvivorsFit, FS_CardinalityType
<1>4. IsFiniteSet(drawn) /\ Cardinality(drawn) <= Cardinality(kept)
  <2> HIDE DEF single
  <2> QED  BY <1>3, FiniteImage
<1>5. \A n \in drawn : n.group = FALSE
  BY DEF View!Single
<1>6. Cardinality(level.drawn) <= MaxNodes
  <2>1. Cardinality(drawn) \in Nat
    BY <1>4, FS_CardinalityType
  <2> HIDE DEF drawn
  <2> QED  BY <1>0, <1>2, <1>3, <1>4, <2>1
<1>7. ASSUME level.hidden = 0  PROVE SumOver(level.size, level.drawn) = Cardinality(S)
  <2>1. Cardinality(S) \in Nat
    BY FS_CardinalityType
  <2>2. Cardinality(kept) = Cardinality(S)
    <3>1. Cardinality(S) - Cardinality(kept) = 0
      <4> HIDE DEF drawn
      <4> QED  BY <1>2, <1>7
    <3> QED  BY <1>3, <2>1, <3>1
  <2> DEFINE h == level.size
  <2>3. \A i, j \in kept : single[i] = single[j] => i = j
    <3> SUFFICES ASSUME NEW i \in kept, NEW j \in kept, single[i] = single[j]  PROVE i = j
      OBVIOUS
    <3>1. View!Single(i).at = View!Single(j).at
      OBVIOUS
    <3>2. <<i>> = <<j>>
      BY <3>1 DEF View!Single
    <3> QED  BY <3>2
  <2> HIDE DEF single
  <2>4. \A n \in drawn : \E i \in kept : Fibre(kept, single, {n}) = {i}
    BY <2>3 DEF Fibre
  <2>5. Counts(h, drawn, kept, single)
    <3> SUFFICES ASSUME NEW n \in drawn  PROVE h[n] = Cardinality(Fibre(kept, single, {n}))
      BY DEF Counts
    <3>1. Cardinality(Fibre(kept, single, {n})) = 1
      BY <2>4, FS_Singleton
    <3> QED  BY <1>2, <3>1
  <2>6. \A i \in kept : single[i] \in drawn
    OBVIOUS
  <2> HIDE DEF h, drawn
  <2>7. SumOver(h, drawn) = Cardinality(kept)
    BY <1>3, <1>4, <2>5, <2>6, SumOfAll
  <2> QED  BY <1>2, <2>2, <2>7 DEF h
<1>8. View!NothingVanishes(v, at, level)
  BY <1>7, NothingVanishesIs
<1>9. View!HeaderAgrees(level)
  BY <1>2, <1>6, HeaderAgreesIs
<1>10. View!OpensWhatItCounts(v, at, level) /\ View!OpeningGoesDown(at, level)
  BY <1>2, <1>5 DEF View!OpensWhatItCounts, View!OpeningGoesDown
<1> QED  BY <1>8, <1>9, <1>10 DEF View!LevelHonest

\* The segments of a path, whatever they are written in.
IsPath(p) == \E T : p \in Seq(T)

\* What a view is drawn from: finitely many items and links, each item with the
\* path of its file, and no file where another has a directory.
IsView(v) ==
  /\ IsFiniteSet(v.items) /\ IsFiniteSet(v.edges)
  /\ \A i \in v.items : IsPath(v.path[i]) /\ v.path[i] # <<>>
  /\ \A i, j \in v.items : View!IsPrefix(v.path[i], v.path[j]) => v.path[i] = v.path[j]

\* A group of a level holds the items that lie under its directory.
GroupsHoldAll(v, at, S, standsFor) ==
  \A n \in View!GroupsIn(S, standsFor) :
    /\ ~(at = View!Root /\ Len(n.at) = 1) => View!Covered(v, n.at) = View!Holds(S, standsFor, n)
    /\ at = View!Root \/ Len(n.at) > Len(at)

LEMMA GroupedIsHonest ==
  ASSUME NEW v, IsView(v), NEW at, NEW S, S = View!Covered(v, at), NEW standsFor,
         GroupsHoldAll(v, at, S, standsFor), NEW rank, NEW drawn \in View!Drawn(v, S, standsFor, rank),
         NEW level, level = View!GroupedLevel(v, S, standsFor, drawn)
  PROVE  View!LevelHonest(v, at, level)
<1>1. IsFiniteSet(S) /\ IsFiniteSet(v.edges)
  BY FS_Subset DEF IsView, View!Covered
<1>2. drawn \subseteq View!Nodes(S, standsFor) /\ IsFiniteSet(drawn) /\ Cardinality(drawn) <= MaxNodes
  BY <1>1, DrawnFits
<1>3. View!NothingVanishes(v, at, level) /\ View!HeaderAgrees(level)
  BY <1>1, <1>2, GroupedCounts
<1>4. level.drawn = drawn /\ level.size = [n \in drawn |-> Cardinality(View!Holds(S, standsFor, n))]
  BY SameSize DEF View!GroupedLevel
<1>5. \A n \in drawn : n.group => n \in View!GroupsIn(S, standsFor)
  BY <1>2 DEF View!GroupsIn
<1>6. View!OpensWhatItCounts(v, at, level)
  BY SameSize, <1>4, <1>5 DEF View!OpensWhatItCounts, GroupsHoldAll
<1>7. View!OpeningGoesDown(at, level)
  BY <1>4, <1>5 DEF View!OpeningGoesDown, GroupsHoldAll
<1> QED  BY <1>3, <1>6, <1>7 DEF View!LevelHonest


\* The first n elements of a sequence.
LEMMA FirstElements ==
  ASSUME NEW T, NEW p \in Seq(T), NEW n \in Nat, n <= Len(p)
  PROVE  LET s == SubSeq(p, 1, n)
         IN  /\ s \in Seq(T) /\ Len(s) = n /\ SubSeq(s, 1, n) = s
             /\ \A m \in Nat : m <= n => SubSeq(s, 1, m) = SubSeq(p, 1, m)
             /\ n = Len(p) => s = p
<1> DEFINE s == SubSeq(p, 1, n)
<1>1. s \in Seq(T) /\ Len(s) = n /\ \A i \in 1 .. n : s[i] = p[i]
  OBVIOUS
<1> HIDE DEF s
<1>2. \A m \in Nat : m <= n => SubSeq(s, 1, m) = SubSeq(p, 1, m)
  <2> SUFFICES ASSUME NEW m \in Nat, m <= n  PROVE SubSeq(s, 1, m) = SubSeq(p, 1, m)
    OBVIOUS
  <2> DEFINE a == SubSeq(s, 1, m)
             b == SubSeq(p, 1, m)
  <2>1. a \in Seq(T) /\ Len(a) = m /\ \A i \in 1 .. m : a[i] = s[i]
    BY <1>1
  <2>2. b \in Seq(T) /\ Len(b) = m /\ \A i \in 1 .. m : b[i] = p[i]
    OBVIOUS
  <2>3. \A i \in 1 .. m : s[i] = p[i]
    BY <1>1
  <2> HIDE DEF a, b
  <2>4. a = b
    BY <2>1, <2>2, <2>3
  <2> QED  BY <2>4 DEF a, b
<1>3. SubSeq(s, 1, n) = s
  BY <1>2 DEF s
<1>4. n = Len(p) => s = p
  BY <1>1
<1> QED  BY <1>1, <1>2, <1>3, <1>4 DEF s

\* The first n segments of a path.
LEMMA FirstSegments ==
  ASSUME NEW p, IsPath(p), NEW n \in Nat, n <= Len(p)
  PROVE  LET s == SubSeq(p, 1, n)
         IN  /\ IsPath(s) /\ Len(s) = n /\ SubSeq(s, 1, n) = s
             /\ \A m \in Nat : m <= n => SubSeq(s, 1, m) = SubSeq(p, 1, m)
             /\ n = Len(p) => s = p
<1>1. PICK T : p \in Seq(T)
  BY DEF IsPath
<1> DEFINE s == SubSeq(p, 1, n)
<1>2. /\ s \in Seq(T) /\ Len(s) = n /\ SubSeq(s, 1, n) = s
      /\ \A m \in Nat : m <= n => SubSeq(s, 1, m) = SubSeq(p, 1, m)
      /\ n = Len(p) => s = p
  BY <1>1, FirstElements
<1>3. IsPath(s)
  BY <1>2 DEF IsPath
<1> QED  BY <1>2, <1>3

LEMMA PathFacts == \A p : IsPath(p) => Len(p) \in Nat /\ (p # <<>> => Len(p) >= 1)
  BY DEF IsPath

LEMMA PlacesDiffer == Len(View!Root) = 1 /\ Len(View!Here) = 0 /\ View!Root # View!Here
<1>1. Len(View!Root) = 1 /\ Len(View!Here) = 0
  BY DEF View!Root, View!Here
<1> QED  BY <1>1

\* A directory that item i lies beneath, n segments deep.
LiesUnder(v, i, n, dir) == n >= 2 /\ Len(v.path[i]) > n /\ dir = SubSeq(v.path[i], 1, n)

\* The items under a directory that has something beneath it: those that have
\* its segments first, and more after them.
LEMMA UnderADirectory ==
  ASSUME NEW v, IsView(v), NEW i \in v.items, NEW n \in Nat, NEW dir, LiesUnder(v, i, n, dir)
  PROVE  /\ Len(dir) = n
         /\ View!Covered(v, dir) = {j \in v.items : Len(v.path[j]) > n /\ SubSeq(v.path[j], 1, n) = dir}
<1>0. n >= 2 /\ Len(v.path[i]) > n /\ dir = SubSeq(v.path[i], 1, n)
  BY DEF LiesUnder
<1>1. \A j \in v.items : IsPath(v.path[j]) /\ Len(v.path[j]) \in Nat
  BY DEF IsView
<1>2. IsPath(dir) /\ Len(dir) = n /\ SubSeq(dir, 1, n) = dir
  BY <1>0, <1>1, FirstSegments
<1>3. dir # View!Root /\ dir # View!Here
  <2> DEFINE lenD == Len(dir)
  <2>1. lenD >= 2 /\ lenD \in Nat
    BY <1>0, <1>2
  <2>2. dir = View!Root => lenD = 1
    BY PlacesDiffer
  <2>3. dir = View!Here => lenD = 0
    BY PlacesDiffer
  <2> HIDE DEF lenD
  <2> QED  BY <2>1, <2>2, <2>3
<1>4. View!Covered(v, dir) = {j \in v.items : View!IsPrefix(dir, v.path[j])}
  BY <1>3 DEF View!Covered
<1>5. \A j \in v.items : View!IsPrefix(dir, v.path[j]) <=> Len(v.path[j]) > n /\ SubSeq(v.path[j], 1, n) = dir
  <2> SUFFICES ASSUME NEW j \in v.items
               PROVE  View!IsPrefix(dir, v.path[j]) <=> Len(v.path[j]) > n /\ SubSeq(v.path[j], 1, n) = dir
    OBVIOUS
  <2>1. View!IsPrefix(dir, v.path[j]) <=> n <= Len(v.path[j]) /\ dir = SubSeq(v.path[j], 1, n)
    BY <1>2 DEF View!IsPrefix
  <2>2. ASSUME n = Len(v.path[j]), dir = SubSeq(v.path[j], 1, n)  PROVE FALSE
    <3>1. dir = v.path[j]
      BY <1>1, <2>2, FirstSegments
    <3>2. View!IsPrefix(v.path[j], v.path[i])
      BY <1>0, <1>1, <1>2, <2>2, <3>1 DEF View!IsPrefix
    <3>3. v.path[j] = v.path[i]
      BY <3>2 DEF IsView
    <3> QED  BY <1>0, <1>1, <2>2, <3>3
  <2> QED  BY <1>1, <2>1, <2>2
<1> QED  BY <1>2, <1>4, <1>5

\* The first level groups by the first two directories.
LEMMA RootDirIs ==
  ASSUME NEW p, IsPath(p), p # <<>>
  PROVE  \/ Len(p) > 2 /\ Len(View!RootDir(p)) = 2 /\ View!RootDir(p) = SubSeq(p, 1, 2)
         \/ Len(p) = 2 /\ Len(View!RootDir(p)) = 1
         \/ Len(p) = 1 /\ Len(View!RootDir(p)) = 0 /\ View!RootDir(p) = View!Here
<1>2. Len(p) \in Nat /\ Len(p) >= 1
  OBVIOUS
<1>3. CASE Len(p) > 2
  <2>1. View!RootDir(p) = SubSeq(p, 1, 2)
    BY <1>3 DEF View!RootDir
  <2>2. Len(SubSeq(p, 1, 2)) = 2
    BY <1>3
  <2> QED  BY <1>3, <2>1, <2>2
<1>4. CASE Len(p) = 2
  <2>1. View!RootDir(p) = <<p[1]>>
    BY <1>4 DEF View!RootDir
  <2>2. Len(<<p[1]>>) = 1
    OBVIOUS
  <2> QED  BY <1>4, <2>1, <2>2
<1>5. CASE Len(p) = 1
  <2>1. View!RootDir(p) = View!Here
    BY <1>5 DEF View!RootDir
  <2> QED  BY <1>5, <2>1, PlacesDiffer
<1> DEFINE n == Len(p)
<1>6. n > 2 \/ n = 2 \/ n = 1
  <2> HIDE DEF n
  <2>1. n \in Nat /\ n >= 1
    BY <1>2 DEF n
  <2> QED  BY <2>1
<1> QED  BY <1>3, <1>4, <1>5, <1>6

LEMMA RootDirFacts ==
  ASSUME NEW v, IsView(v), NEW i \in v.items
  PROVE  \/ Len(v.path[i]) > 2 /\ Len(View!RootDir(v.path[i])) = 2 /\ View!RootDir(v.path[i]) = SubSeq(v.path[i], 1, 2)
         \/ Len(v.path[i]) = 2 /\ Len(View!RootDir(v.path[i])) = 1
         \/ Len(v.path[i]) = 1 /\ Len(View!RootDir(v.path[i])) = 0 /\ View!RootDir(v.path[i]) = View!Here
<1>1. IsPath(v.path[i]) /\ v.path[i] # <<>>
  BY DEF IsView
<1> QED  BY <1>1, RootDirIs

LEMMA RootGroupOpens ==
  ASSUME NEW v, IsView(v), NEW i \in v.items, NEW dir, dir = View!RootDir(v.path[i])
  PROVE  Len(dir) # 1 => View!Covered(v, dir) = {j \in v.items : View!RootDir(v.path[j]) = dir}
<1>1. CASE Len(v.path[i]) > 2 /\ Len(dir) = 2 /\ dir = SubSeq(v.path[i], 1, 2)
  <2>1. View!Covered(v, dir) = {j \in v.items : Len(v.path[j]) > 2 /\ SubSeq(v.path[j], 1, 2) = dir}
    <3>1. PICK n \in Nat : n = 2
      OBVIOUS
    <3>2. LiesUnder(v, i, n, dir)
      BY <1>1, <3>1 DEF LiesUnder
    <3>3. View!Covered(v, dir) = {j \in v.items : Len(v.path[j]) > n /\ SubSeq(v.path[j], 1, n) = dir}
      BY <3>2, UnderADirectory
    <3> QED  BY <3>1, <3>3
  <2>2. \A j \in v.items : View!RootDir(v.path[j]) = dir <=> Len(v.path[j]) > 2 /\ SubSeq(v.path[j], 1, 2) = dir
    <3> TAKE j \in v.items
    <3> DEFINE p == v.path[j]
               d == View!RootDir(p)
               lenP == Len(p)
               lenD == Len(d)
               first == SubSeq(p, 1, 2)
    <3>1. \/ lenP > 2 /\ lenD = 2 /\ d = first
          \/ lenP = 2 /\ lenD = 1
          \/ lenP = 1 /\ lenD = 0 /\ d = View!Here
      BY RootDirFacts
    <3>2. d = dir => lenD = 2
      BY <1>1
    <3> HIDE DEF p, d, lenP, lenD, first
    <3>3. d = dir <=> lenP > 2 /\ first = dir
      BY <3>1, <3>2
    <3> QED  BY <3>3 DEF p, d, lenP, first
  <2> QED  BY <2>1, <2>2
<1>2. CASE Len(v.path[i]) = 1 /\ Len(dir) = 0 /\ dir = View!Here
  <2>1. View!Covered(v, dir) = {j \in v.items : Len(v.path[j]) = 1}
    BY <1>2, PlacesDiffer DEF View!Covered
  <2>2. \A j \in v.items : View!RootDir(v.path[j]) = dir <=> Len(v.path[j]) = 1
    BY <1>2, RootDirFacts
  <2> QED  BY <2>1, <2>2
<1> QED  BY <1>1, <1>2, RootDirFacts

\* A group is named by its directory.
LEMMA GroupsDiffer == \A d, e : View!Group(d).at = d /\ View!Group(d).group = TRUE /\ (View!Group(d) = View!Group(e) <=> d = e)
<1>1. \A d : View!Group(d).at = d /\ View!Group(d).group = TRUE
  BY DEF View!Group
<1> QED  BY <1>1

LEMMA RootGroupsOpen ==
  ASSUME NEW v, IsView(v)
  PROVE  GroupsHoldAll(v, View!Root, View!Covered(v, View!Root), View!RootGroups(v))
<1> DEFINE sf == View!RootGroups(v)
<1>1. View!Covered(v, View!Root) = v.items
  BY PlacesDiffer DEF View!Covered
<1>2. \A j \in v.items : sf[j] = View!Group(View!RootDir(v.path[j]))
  BY DEF View!RootGroups
<1> HIDE DEF sf
<1>3. \A i \in v.items : Len(sf[i].at) # 1 => View!Covered(v, sf[i].at) = View!Holds(v.items, sf, sf[i])
  <2> TAKE i \in v.items
  <2> DEFINE dir == View!RootDir(v.path[i])
  <2>1. sf[i].at = dir
    BY <1>2, GroupsDiffer
  <2>2. View!Holds(v.items, sf, sf[i]) = {j \in v.items : View!RootDir(v.path[j]) = dir}
    BY <1>2, GroupsDiffer DEF View!Holds
  <2> HIDE DEF dir
  <2>3. Len(dir) # 1 => View!Covered(v, dir) = {j \in v.items : View!RootDir(v.path[j]) = dir}
    BY RootGroupOpens DEF dir
  <2> QED  BY <2>1, <2>2, <2>3
<1> QED  BY <1>1, <1>3 DEF GroupsHoldAll, View!GroupsIn, View!Nodes, sf


\* What regrouping one directory deeper makes of an item.
DirAt(v, depth, i) == SubSeq(v.path[i], 1, IF Len(v.path[i]) < depth THEN Len(v.path[i]) ELSE depth)
IsLoose(v, depth, i) == Len(v.path[i]) <= depth
IsAlone(v, S, depth, i) == \A j \in S \ {i} : IsLoose(v, depth, j) \/ DirAt(v, depth, j) # DirAt(v, depth, i)

LEMMA DeeperIs ==
  ASSUME NEW v, NEW S, NEW depth, NEW i \in S
  PROVE  View!Deeper(v, S, depth)[i] =
           IF IsLoose(v, depth, i) \/ IsAlone(v, S, depth, i) THEN View!Single(i) ELSE View!Group(DirAt(v, depth, i))
<1> DEFINE dirs == [k \in S |-> DirAt(v, depth, k)]
           loose(k) == Len(v.path[k]) <= depth
           alone(k) == \A j \in S \ {k} : loose(j) \/ dirs[j] # dirs[k]
<1>1. View!Deeper(v, S, depth) = [k \in S |-> IF loose(k) \/ alone(k) THEN View!Single(k) ELSE View!Group(dirs[k])]
  BY DEF View!Deeper, DirAt
<1>2. \A k \in S : dirs[k] = DirAt(v, depth, k) /\ (loose(k) <=> IsLoose(v, depth, k))
  BY DEF IsLoose
<1> HIDE DEF dirs, loose
<1>3. alone(i) <=> IsAlone(v, S, depth, i)
  BY <1>2 DEF IsAlone
<1> QED  BY <1>1, <1>2, <1>3

LEMMA SinglesAreNoGroups == \A i, d : View!Single(i).group = FALSE /\ View!Single(i) # View!Group(d)
<1>1. \A i : View!Single(i).group = FALSE
  BY DEF View!Single
<1> QED  BY <1>1, GroupsDiffer

\* The items of a level that lie under the directory of one of its groups are all
\* in the group, and so are those of the whole view.
LEMMA DeeperGroupOpens ==
  ASSUME NEW v, IsView(v), NEW at, at = View!Root \/ (IsPath(at) /\ at # View!Here),
         NEW S, S = View!Covered(v, at), NEW depth \in Nat, depth >= 2,
         at = View!Root \/ depth = Len(at) + 1,
         NEW i \in S, ~IsLoose(v, depth, i), ~IsAlone(v, S, depth, i)
  PROVE  LET dir == DirAt(v, depth, i)
         IN  /\ Len(dir) = depth
             /\ View!Covered(v, dir) = View!Holds(S, View!Deeper(v, S, depth), View!Group(dir))
<1> DEFINE dir == DirAt(v, depth, i)
           sub == View!Deeper(v, S, depth)
<1>1. S \subseteq v.items
  BY DEF View!Covered
<1>2. \A j \in v.items : IsPath(v.path[j]) /\ Len(v.path[j]) \in Nat
  BY DEF IsView
<1>3. \A j \in v.items : IsLoose(v, depth, j) \/ (Len(v.path[j]) > depth /\ DirAt(v, depth, j) = SubSeq(v.path[j], 1, depth))
  <2> TAKE j \in v.items
  <2>1. Len(v.path[j]) \in Nat
    BY <1>2
  <2> QED  BY <2>1 DEF IsLoose, DirAt
<1>4. \A j \in v.items : IsLoose(v, depth, j) => ~ (Len(v.path[j]) > depth)
  BY <1>2 DEF IsLoose
<1>5. LiesUnder(v, i, depth, dir)
  BY <1>1, <1>3 DEF LiesUnder
<1> HIDE DEF dir, sub
<1>6. /\ Len(dir) = depth
      /\ View!Covered(v, dir) = {j \in v.items : Len(v.path[j]) > depth /\ SubSeq(v.path[j], 1, depth) = dir}
  BY <1>1, <1>5, UnderADirectory
<1>7. \A j \in v.items : Len(v.path[j]) > depth /\ SubSeq(v.path[j], 1, depth) = dir
                           <=> ~IsLoose(v, depth, j) /\ DirAt(v, depth, j) = dir
  BY <1>3, <1>4
<1>8. \A j \in S : sub[j] = View!Group(dir) <=> ~IsLoose(v, depth, j) /\ DirAt(v, depth, j) = dir
  <2> SUFFICES ASSUME NEW j \in S
               PROVE  sub[j] = View!Group(dir) <=> ~IsLoose(v, depth, j) /\ DirAt(v, depth, j) = dir
    OBVIOUS
  <2>1. sub[j] = IF IsLoose(v, depth, j) \/ IsAlone(v, S, depth, j) THEN View!Single(j) ELSE View!Group(DirAt(v, depth, j))
    BY DeeperIs DEF sub
  <2>2. DirAt(v, depth, j) = dir => ~IsAlone(v, S, depth, j)
    <3>1. CASE j = i
      BY <3>1
    <3>2. CASE j # i
      BY <3>2 DEF IsAlone, dir
    <3> QED  BY <3>1, <3>2
  <2> QED  BY <2>1, <2>2, GroupsDiffer, SinglesAreNoGroups
<1>9. ASSUME NEW j \in v.items, Len(v.path[j]) > depth, SubSeq(v.path[j], 1, depth) = dir
      PROVE  j \in S
  <2>1. CASE at = View!Root
    BY <2>1, PlacesDiffer DEF View!Covered
  <2>2. CASE at # View!Root
    <3> DEFINE m == Len(at)
    <3>0. IsPath(at) /\ m \in Nat /\ depth = m + 1 /\ m <= depth
      BY <2>2
    <3>1. S = {q \in v.items : View!IsPrefix(at, v.path[q])}
      BY <2>2 DEF View!Covered
    <3>2. \A q : View!IsPrefix(at, v.path[q]) <=> m <= Len(v.path[q]) /\ SubSeq(at, 1, m) = SubSeq(v.path[q], 1, m)
      BY DEF View!IsPrefix
    <3>3. i \in v.items /\ depth <= Len(v.path[i]) /\ dir = SubSeq(v.path[i], 1, depth)
      BY <1>1, <1>2, <1>5 DEF LiesUnder
    <3> HIDE DEF m
    <3>4. SubSeq(dir, 1, m) = SubSeq(v.path[i], 1, m)
      BY <1>2, <3>0, <3>3, FirstSegments
    <3>5. depth <= Len(v.path[j])
      BY <1>2, <1>9
    <3>6. SubSeq(dir, 1, m) = SubSeq(v.path[j], 1, m)
      BY <1>2, <1>9, <3>0, <3>5, FirstSegments
    <3>7. SubSeq(at, 1, m) = SubSeq(v.path[i], 1, m)
      BY <3>1, <3>2
    <3>8. m <= Len(v.path[j])
      BY <1>2, <3>0, <3>5
    <3> QED  BY <3>1, <3>2, <3>4, <3>6, <3>7, <3>8
  <2> QED  BY <2>1, <2>2
<1>10. View!Covered(v, dir) = View!Holds(S, sub, View!Group(dir))
  BY <1>1, <1>6, <1>7, <1>8, <1>9 DEF View!Holds
<1> QED  BY <1>6, <1>10 DEF dir, sub


\* A level can be asked for by any path, or for all there is.
IsPlace(at) == at = View!Root \/ IsPath(at)
DepthOf(at, depth) == depth \in Nat /\ IF at = View!Root THEN depth >= 2 ELSE depth = Len(at) + 1

LEMMA DeeperGroupsOpen ==
  ASSUME NEW v, IsView(v), NEW at, IsPlace(at), NEW depth, DepthOf(at, depth),
         NEW S, S = View!Covered(v, at)
  PROVE  GroupsHoldAll(v, at, S, View!Deeper(v, S, depth))
<1> DEFINE sub == View!Deeper(v, S, depth)
<1>0. depth \in Nat
  BY DEF DepthOf
<1> SUFFICES ASSUME NEW n \in View!GroupsIn(S, sub)
             PROVE  /\ View!Covered(v, n.at) = View!Holds(S, sub, n)
                    /\ at = View!Root \/ Len(n.at) > Len(at)
  BY DEF GroupsHoldAll
<1>1. PICK i \in S : n = sub[i] /\ n.group
  BY DEF View!GroupsIn, View!Nodes
<1>2. sub[i] = IF IsLoose(v, depth, i) \/ IsAlone(v, S, depth, i) THEN View!Single(i) ELSE View!Group(DirAt(v, depth, i))
  BY DeeperIs
<1> HIDE DEF sub
<1>3. ~IsLoose(v, depth, i) /\ ~IsAlone(v, S, depth, i) /\ n = View!Group(DirAt(v, depth, i))
  BY <1>1, <1>2, SinglesAreNoGroups
<1>4. at # View!Here
  <2> SUFFICES ASSUME at = View!Here PROVE FALSE
    OBVIOUS
  <2>1. Len(v.path[i]) = 1
    BY PlacesDiffer DEF View!Covered
  <2>2. depth = 1
    BY PlacesDiffer DEF DepthOf
  <2> QED  BY <1>3, <2>1, <2>2 DEF IsLoose
<1>5. at = View!Root \/ (IsPath(at) /\ at # View!Here)
  BY <1>4 DEF IsPlace
<1>6. depth >= 2 /\ (at = View!Root \/ depth = Len(at) + 1)
  <2>1. CASE at = View!Root
    BY <2>1 DEF DepthOf
  <2>2. CASE at # View!Root
    <3> DEFINE m == Len(at)
    <3>1. m \in Nat /\ m # 0 /\ depth = m + 1
      BY <1>5, <2>2 DEF DepthOf, View!Here
    <3> HIDE DEF m
    <3>2. depth >= 2
      BY <3>1
    <3> QED  BY <3>1, <3>2 DEF m
  <2> QED  BY <2>1, <2>2
<1> DEFINE dir == DirAt(v, depth, i)
<1>7. Len(dir) = depth /\ View!Covered(v, dir) = View!Holds(S, sub, View!Group(dir))
  BY <1>0, <1>3, <1>5, <1>6, DeeperGroupOpens DEF sub
<1>8. n.at = dir
  BY <1>3, GroupsDiffer
<1>9. at = View!Root \/ Len(dir) > Len(at)
  <2>1. CASE at = View!Root
    BY <2>1
  <2>2. CASE at # View!Root
    <3> DEFINE m == Len(at)
    <3>1. m \in Nat /\ Len(dir) = m + 1
      BY <1>5, <1>6, <1>7, <2>2
    <3> HIDE DEF m, dir
    <3>2. Len(dir) > m
      BY <3>1
    <3> QED  BY <3>2 DEF m
  <2> QED  BY <2>1, <2>2
<1> HIDE DEF dir
<1> QED  BY <1>3, <1>7, <1>8, <1>9 DEF dir

\* A level of either view is honest, whatever is asked for and however the ties
\* of the ranking fall: it draws no more than a page holds, hides nothing it does
\* not tell of, its header agrees with its canvas, and a group opens on what it counts.
THEOREM LevelsAreHonest ==
  ASSUME NEW v, IsView(v), NEW at, IsPlace(at)
  PROVE  /\ \A level \in View!Dependencies(v, at) : View!LevelHonest(v, at, level)
         /\ \A level \in View!Classes(v, at) : View!LevelHonest(v, at, level)
<1> DEFINE S == View!Covered(v, at)
           root == View!RootGroups(v)
           sub == View!Deeper(v, S, Len(at) + 1)
           byClass == View!Deeper(v, S, View!Depth(at, 2))
           Grouped(sf, r, level) == \E d \in View!Drawn(v, S, sf, r) : level = View!GroupedLevel(v, S, sf, d)
<1>1. IsFiniteSet(S)
  BY FS_Subset DEF IsView, View!Covered
<1>2. ASSUME NEW rank, NEW level \in View!FlatLevels(v, S, rank)  PROVE View!LevelHonest(v, at, level)
  <2> HIDE DEF S
  <2>1. S = View!Covered(v, at)
    BY DEF S
  <2> QED  BY <1>1, <1>2, <2>1, FlatIsHonest
<1>3. ASSUME NEW sf, GroupsHoldAll(v, at, S, sf), NEW r, NEW level, Grouped(sf, r, level)
      PROVE  View!LevelHonest(v, at, level)
  <2>1. PICK d \in View!Drawn(v, S, sf, r) : level = View!GroupedLevel(v, S, sf, d)
    BY <1>3
  <2> HIDE DEF S
  <2>2. S = View!Covered(v, at)
    BY DEF S
  <2> QED  BY <1>3, <2>1, <2>2, GroupedIsHonest
<1>4. at = View!Root => GroupsHoldAll(v, at, S, root)
  BY RootGroupsOpen
<1>5. at # View!Root => GroupsHoldAll(v, at, S, sub)
  <2> SUFFICES ASSUME at # View!Root PROVE GroupsHoldAll(v, at, S, sub)
    OBVIOUS
  <2> DEFINE depth == Len(at) + 1
  <2>1. DepthOf(at, depth)
    BY DEF DepthOf, IsPlace
  <2> HIDE DEF depth
  <2>2. GroupsHoldAll(v, at, S, View!Deeper(v, S, depth))
    BY <2>1, DeeperGroupsOpen
  <2> QED  BY <2>2 DEF depth
<1>6. GroupsHoldAll(v, at, S, byClass)
  <2> DEFINE depth == View!Depth(at, 2)
  <2>1. DepthOf(at, depth)
    BY DEF DepthOf, IsPlace, View!Depth
  <2> HIDE DEF depth
  <2>2. GroupsHoldAll(v, at, S, View!Deeper(v, S, depth))
    BY <2>1, DeeperGroupsOpen
  <2> QED  BY <2>2 DEF depth
<1>7. \A level \in View!Dependencies(v, at) :
        \/ at = View!Root /\ \E r : Grouped(root, r, level)
        \/ at # View!Root /\ \E r : Grouped(sub, r, level)
        \/ \E r : level \in View!FlatLevels(v, S, r)
  <2> TAKE level \in View!Dependencies(v, at)
  <2> HIDE DEF S
  <2> QED  BY DEF View!Dependencies, S
<1>8. \A level \in View!Classes(v, at) :
        \/ \E r : Grouped(byClass, r, level)
        \/ \E r : level \in View!FlatLevels(v, S, r)
  <2> TAKE level \in View!Classes(v, at)
  <2> QED  BY DEF View!Classes
<1> HIDE DEF S, root, sub, byClass, Grouped
<1> QED  BY <1>2, <1>3, <1>4, <1>5, <1>6, <1>7, <1>8


(* The inputs that are drawn are ones the theorems are about *)

LEMMA ThreeAreFinite == ASSUME NEW a, NEW b, NEW c PROVE IsFiniteSet({a, b, c})
<1>1. IsFiniteSet({a}) /\ IsFiniteSet({b}) /\ IsFiniteSet({c})
  BY FS_Singleton
<1>2. IsFiniteSet({a} \cup {b})
  BY <1>1, FS_Union
<1>3. IsFiniteSet(({a} \cup {b}) \cup {c})
  BY <1>1, <1>2, FS_Union
<1>4. {a, b, c} = ({a} \cup {b}) \cup {c}
  OBVIOUS
<1> QED  BY <1>3, <1>4

LEMMA MapIsASnapshot ==
  ASSUME NEW i \in MapInputs
  PROVE  IsSnapshot(MapOf(i)) /\ IsFiniteSet(MapOf(i).edges)
<1> DEFINE g == MapOf(i)
<1>1. i.edges \subseteq MapEdges
  BY DEF MapInputs
<1>2. /\ g.edges = i.edges /\ g.nodes = MapNodes /\ g.type = MapBase.type /\ g.path = MapBase.path
      /\ g.package = MapBase.package /\ g.third = MapBase.third
  <2>1. {"nodes", "type", "path", "package", "third"} \subseteq DOMAIN MapBase
    BY DEF MapBase
  <2>2. MapBase.nodes = MapNodes
    BY DEF MapBase
  <2> QED  BY <2>1, <2>2 DEF MapOf
<1> HIDE DEF g
<1>3. \A n \in MapNodes : g.type[n] = CASE n \in {"srv", "run", "web", "lib"} -> "module"
                                        [] n \in {"serve", "draw"} -> "function"
                                        [] n \in {"env", "mig"} -> "config"
                                        [] n = "users" -> "schema" [] OTHER -> "external"
  BY <1>2 DEF MapBase
<1>4. \A n \in MapNodes : g.path[n] = CASE n = "serve" -> "srv" [] n = "draw" -> "web"
                                        [] n = "users" -> "mig" [] OTHER -> n
  BY <1>2 DEF MapBase
<1>5. \A n \in MapNodes : g.package[n] = n
  BY <1>2 DEF MapBase
<1>6. \A n \in MapNodes : n \in Arch!Members(g) /\ Arch!IsFile(g, n) <=> n \in {"srv", "run", "web", "lib"}
  <2>1. \A n \in MapNodes : g.type[n] \in {"module", "file"} <=> n \in {"srv", "run", "web", "lib"}
    BY <1>3 DEF MapNodes
  <2> QED  BY <1>2, <2>1 DEF Arch!Members, Arch!IsFile
<1>7. Arch!Members(g) \subseteq MapNodes
  BY <1>2 DEF Arch!Members
<1>8. \A n \in Arch!Members(g) : Arch!IsFile(g, n) => g.path[n] = n
  BY <1>4, <1>6, <1>7
<1>9. \A e \in g.edges : e.type = "touches_schema" => e.from = "serve"
  BY <1>1, <1>2 DEF MapEdges, Edge
<1>10. g.path["serve"] = "srv" /\ "serve" \notin Arch!Members(g) /\ "srv" \in Arch!Members(g) /\ Arch!IsFile(g, "srv")
  <2>1. "serve" \in MapNodes /\ "srv" \in MapNodes
    BY DEF MapNodes
  <2>2. g.path["serve"] = "srv"
    BY <1>4, <2>1
  <2>3. g.type["serve"] = "function"
    BY <1>3, <2>1
  <2>4. "serve" \notin Arch!Members(g)
    BY <2>3 DEF Arch!Members, Arch!IsFile
  <2> QED  BY <1>6, <2>1, <2>2, <2>4
<1>11. \A e \in g.edges : e.type = "references_external" => e.from \in {"srv", "run", "lib"} /\ e.to \in {"express", "fs"}
  BY <1>1, <1>2 DEF MapEdges, Edge
<1>12. \A e \in g.edges : e.type = "imports" => e.to \in {"srv", "web", "lib"}
  BY <1>1, <1>2 DEF MapEdges, Edge
<1>13. \A n \in {"srv", "run", "lib"} : n \in Arch!Members(g) /\ Arch!IsFile(g, n)
  BY <1>6 DEF MapNodes
<1>14. \A n \in {"express", "fs"} : n \in g.nodes /\ g.type[n] = "external"
  BY <1>2, <1>3 DEF MapNodes
<1>15. \A n \in {"srv", "web", "lib"} : g.type[n] # "external"
  BY <1>3 DEF MapNodes
<1>16. IsSnapshot(g)
  BY <1>2, <1>5, <1>8, <1>9, <1>10, <1>11, <1>12, <1>13, <1>14, <1>15 DEF IsSnapshot
<1>17. IsFiniteSet(g.edges)
  <2>1. IsFiniteSet(MapEdges)
    <3> DEFINE A == {Edge("srv", "web", "imports"), Edge("srv", "lib", "imports"), Edge("web", "srv", "imports")}
               B == {Edge("serve", "draw", "calls"), Edge("serve", "users", "touches_schema"),
                     Edge("srv", "express", "references_external")}
               C == {Edge("run", "express", "references_external"), Edge("lib", "fs", "references_external"),
                     Edge("run", "srv", "imports")}
    <3>1. MapEdges = (A \cup B) \cup C
      BY DEF MapEdges
    <3>2. IsFiniteSet(A) /\ IsFiniteSet(B) /\ IsFiniteSet(C)
      BY ThreeAreFinite
    <3> HIDE DEF A, B, C
    <3> QED  BY <3>1, <3>2, FS_Union
  <2> QED  BY <1>1, <1>2, <2>1, FS_Subset
<1> QED  BY <1>16, <1>17 DEF g

LEMMA OneSegment == ASSUME NEW T, NEW x \in T
  PROVE  <<x>> \in Seq(T) /\ Len(<<x>>) = 1 /\ <<x>>[1] = x
  OBVIOUS
LEMMA TwoSegments == ASSUME NEW T, NEW x \in T, NEW y \in T
  PROVE  <<x, y>> \in Seq(T) /\ Len(<<x, y>>) = 2 /\ <<x, y>>[1] = x /\ <<x, y>>[2] = y
  OBVIOUS
LEMMA ThreeSegments == ASSUME NEW T, NEW x \in T, NEW y \in T, NEW z \in T
  PROVE  /\ <<x, y, z>> \in Seq(T) /\ Len(<<x, y, z>>) = 3
         /\ <<x, y, z>>[1] = x /\ <<x, y, z>>[2] = y /\ <<x, y, z>>[3] = z
  OBVIOUS

LEMMA PrefixTells ==
  ASSUME NEW T, NEW p \in Seq(T), NEW q \in Seq(T), View!IsPrefix(p, q)
  PROVE  Len(p) <= Len(q) /\ \A m \in 1 .. Len(p) : p[m] = q[m]
<1>1. Len(p) <= Len(q) /\ SubSeq(p, 1, Len(p)) = SubSeq(q, 1, Len(p))
  BY DEF View!IsPrefix
<1>2. \A m \in 1 .. Len(p) : SubSeq(p, 1, Len(p))[m] = p[m] /\ SubSeq(q, 1, Len(p))[m] = q[m]
  BY <1>1
<1> QED  BY <1>1, <1>2

LEMMA LevelIsAView ==
  ASSUME NEW i \in LevelInputs
  PROVE  IsView(ViewOf(i)) /\ IsPlace(i.at)
<1> DEFINE v == ViewOf(i)
           all == {"r", "i", "a", "c", "d", "e"}
<1>1. i.items \subseteq DOMAIN ViewPath /\ i.edges \subseteq ViewEdges /\ i.at \in Asked
  BY DEF LevelInputs
<1>2. v.items = i.items /\ v.path = ViewPath /\ v.edges \subseteq i.edges
  BY DEF ViewOf
<1> HIDE DEF v
<1>3. DOMAIN ViewPath = all
  BY DEF ViewPath
<1>4. IsFiniteSet(all) /\ IsFiniteSet(ViewEdges)
  <2>1. IsFiniteSet(all)
    <3> DEFINE A == {"r", "i", "a"}
               B == {"c", "d", "e"}
    <3>1. all = A \cup B
      OBVIOUS
    <3>2. IsFiniteSet(A) /\ IsFiniteSet(B)
      BY ThreeAreFinite
    <3> HIDE DEF A, B, all
    <3> QED  BY <3>1, <3>2, FS_Union
  <2>2. IsFiniteSet(ViewEdges)
    <3> DEFINE A == {Edge("r", "i", "imports"), Edge("a", "c", "imports"), Edge("c", "a", "tests")}
               B == {Edge("d", "a", "imports"), Edge("i", "d", "imports"), Edge("e", "a", "imports")}
    <3>1. ViewEdges = A \cup B
      BY DEF ViewEdges
    <3>2. IsFiniteSet(A) /\ IsFiniteSet(B)
      BY ThreeAreFinite
    <3> HIDE DEF A, B
    <3> QED  BY <3>1, <3>2, FS_Union
  <2> QED  BY <2>1, <2>2
<1>5. IsFiniteSet(v.items) /\ IsFiniteSet(v.edges)
  <2>1. v.items \subseteq all /\ v.edges \subseteq ViewEdges
    BY <1>1, <1>2, <1>3
  <2> QED  BY <1>4, <2>1, FS_Subset
<1>6. /\ \A k \in all : IsPath(ViewPath[k]) /\ ViewPath[k] # <<>>
      /\ \A j, k \in all : View!IsPrefix(ViewPath[j], ViewPath[k]) => ViewPath[j] = ViewPath[k]
  <2> DEFINE T == {"b", "s", "t", "f", "p", "r.ts", "i.ts", "a.ts", "c.ts", "d.ts", "e.ts"}
  <2>0. /\ "b" \in T /\ "s" \in T /\ "t" \in T /\ "f" \in T /\ "p" \in T /\ "r.ts" \in T
        /\ "i.ts" \in T /\ "a.ts" \in T /\ "c.ts" \in T /\ "d.ts" \in T /\ "e.ts" \in T
    OBVIOUS
  <2> HIDE DEF T
  <2>1. ViewPath["r"] \in Seq(T) /\ Len(ViewPath["r"]) = 1 /\ ViewPath["r"][1] = "r.ts"
    <3>1. ViewPath["r"] = <<"r.ts">>
      BY DEF ViewPath
    <3> QED  BY <2>0, <3>1, OneSegment
  <2>2. ViewPath["i"] \in Seq(T) /\ Len(ViewPath["i"]) = 2 /\ ViewPath["i"][1] = "b" /\ ViewPath["i"][2] = "i.ts"
    <3>1. ViewPath["i"] = <<"b", "i.ts">>
      BY DEF ViewPath
    <3> QED  BY <2>0, <3>1, TwoSegments
  <2>3. ViewPath["a"] \in Seq(T) /\ Len(ViewPath["a"]) = 3 /\ ViewPath["a"][1] = "b" /\ ViewPath["a"][2] = "s" /\ ViewPath["a"][3] = "a.ts"
    <3>1. ViewPath["a"] = <<"b", "s", "a.ts">>
      BY DEF ViewPath
    <3> QED  BY <2>0, <3>1, ThreeSegments
  <2>4. ViewPath["c"] \in Seq(T) /\ Len(ViewPath["c"]) = 3 /\ ViewPath["c"][1] = "b" /\ ViewPath["c"][2] = "s" /\ ViewPath["c"][3] = "c.ts"
    <3>1. ViewPath["c"] = <<"b", "s", "c.ts">>
      BY DEF ViewPath
    <3> QED  BY <2>0, <3>1, ThreeSegments
  <2>5. ViewPath["d"] \in Seq(T) /\ Len(ViewPath["d"]) = 3 /\ ViewPath["d"][1] = "b" /\ ViewPath["d"][2] = "t" /\ ViewPath["d"][3] = "d.ts"
    <3>1. ViewPath["d"] = <<"b", "t", "d.ts">>
      BY DEF ViewPath
    <3> QED  BY <2>0, <3>1, ThreeSegments
  <2>6. ViewPath["e"] \in Seq(T) /\ Len(ViewPath["e"]) = 3 /\ ViewPath["e"][1] = "f" /\ ViewPath["e"][2] = "p" /\ ViewPath["e"][3] = "e.ts"
    <3>1. ViewPath["e"] = <<"f", "p", "e.ts">>
      BY DEF ViewPath
    <3> QED  BY <2>0, <3>1, ThreeSegments
  <2>7. \A k \in all : ViewPath[k] \in Seq(T) /\ Len(ViewPath[k]) > 0
    BY <2>1, <2>2, <2>3, <2>4, <2>5, <2>6
  <2>8. \A k \in all : IsPath(ViewPath[k]) /\ ViewPath[k] # <<>>
    BY <2>7 DEF IsPath
  <2>9. ASSUME NEW j \in all, NEW k \in all, View!IsPrefix(ViewPath[j], ViewPath[k])
        PROVE  ViewPath[j] = ViewPath[k]
    <3>1. Len(ViewPath[j]) <= Len(ViewPath[k]) /\ \A m \in 1 .. Len(ViewPath[j]) : ViewPath[j][m] = ViewPath[k][m]
      BY <2>7, <2>9, PrefixTells
    <3> DEFINE Same(m) == ViewPath[j][m] = ViewPath[k][m]
    <3>2. Len(ViewPath[j]) = 1 => Same(1)
      BY <3>1
    <3>3. Len(ViewPath[j]) = 2 => Same(1) /\ Same(2) /\ Len(ViewPath[k]) >= 2
      BY <3>1
    <3>4. Len(ViewPath[j]) = 3 => Same(3) /\ Len(ViewPath[k]) >= 3
      BY <3>1
    <3>5. CASE j = "r"
      BY <2>1, <2>2, <2>3, <2>4, <2>5, <2>6, <3>2, <3>5
    <3>6. CASE j = "i"
      BY <2>1, <2>2, <2>3, <2>4, <2>5, <2>6, <3>3, <3>6
    <3>7. CASE j \in {"a", "c", "d", "e"}
      BY <2>1, <2>2, <2>3, <2>4, <2>5, <2>6, <3>4, <3>7
    <3> QED  BY <3>5, <3>6, <3>7
  <2> QED  BY <2>8, <2>9
<1>7. IsView(v)
  BY <1>1, <1>2, <1>3, <1>5, <1>6 DEF IsView
<1>8. IsPlace(i.at)
  <2>1. i.at \in {View!Root, <<>>, <<"b">>, <<"b", "s">>, <<"f", "p">>}
    BY <1>1 DEF Asked, View!Here
  <2>2. IsPath(<<>>) /\ IsPath(<<"b">>) /\ IsPath(<<"b", "s">>) /\ IsPath(<<"f", "p">>)
    <3> DEFINE T == {"b", "s", "f", "p"}
    <3>1. "b" \in T /\ "s" \in T /\ "f" \in T /\ "p" \in T
      OBVIOUS
    <3> HIDE DEF T
    <3>2. <<>> \in Seq(T) /\ <<"b">> \in Seq(T) /\ <<"b", "s">> \in Seq(T) /\ <<"f", "p">> \in Seq(T)
      BY <3>1, OneSegment, TwoSegments
    <3> QED  BY <3>2 DEF IsPath
  <2> QED  BY <2>1, <2>2 DEF IsPlace
<1> QED  BY <1>7, <1>8 DEF v

\* The input stays what it was drawn to be.
DrawInv ==
  /\ task = "map" => in \in MapInputs
  /\ task \in {"dependencies", "classes"} => in \in LevelInputs

LEMMA DrawnIsCorrect == DrawInv => MapCorrect
<1> SUFFICES ASSUME DrawInv PROVE MapCorrect
  OBVIOUS
<1>1. ASSUME task = "map"  PROVE Arch!WeightsAddUp(MapOf(in)) /\ Arch!NarrativesAgree(MapOf(in))
  <2>1. IsSnapshot(MapOf(in)) /\ IsFiniteSet(MapOf(in).edges)
    BY <1>1, MapIsASnapshot DEF DrawInv
  <2> QED  BY <2>1, EveryLinkIsCounted, SummariesAgree
<1>2. ASSUME task \in {"dependencies", "classes"}
      PROVE  /\ \A level \in View!Dependencies(ViewOf(in), in.at) : View!LevelHonest(ViewOf(in), in.at, level)
             /\ \A level \in View!Classes(ViewOf(in), in.at) : View!LevelHonest(ViewOf(in), in.at, level)
  <2>1. IsView(ViewOf(in)) /\ IsPlace(in.at)
    BY <1>2, LevelIsAView DEF DrawInv
  <2> QED  BY <2>1, LevelsAreHonest
<1> QED  BY <1>1, <1>2 DEF MapCorrect

\* In every behaviour the map and the levels keep what they promise, for every
\* bound on the nodes of a page.
THEOREM MapIsCorrect == DrawSpec => []MapCorrect
<1>1. DrawInit => DrawInv
  BY DEF DrawInit, DrawInv
<1>2. DrawInv /\ [DrawNext]_inputVars => DrawInv'
  BY DEF DrawInv, DrawNext, DrawMap, DrawLevel, Judge, inputVars
<1> QED  BY <1>1, <1>2, DrawnIsCorrect, PTL DEF DrawSpec
==============================================================================
