--------------------------- MODULE RunBudgetProofs ---------------------------
(***************************************************************************)
(* Theorems about what a run may spend and what it spends it on, for every *)
(* value of the constants.  BatchPlan: every symbol is in one call, within *)
(* the caps, at the price estimated, beside its family.  SymbolPass: every *)
(* symbol is recorded, whatever is halved, hedged or stopped.  RunBudget:  *)
(* types, and, for a job that has its snapshot to itself, that its calls   *)
(* stay within the cap, the counter is true and only a used-up cap trips.  *)
(***************************************************************************)
EXTENDS MCBudget, FiniteSetTheorems, WellFoundedInduction, TLAPS

------------------------------------------------------------------------------
(* Numbers and finite sets of numbers. *)

LEMMA LeastNumber ==
  ASSUME NEW T, T \subseteq Nat, T # {}
  PROVE  \E x \in T : \A y \in T : x <= y
<1> DEFINE R == OpToRel(<, Nat)
<1>1. IsWellFoundedOn(R, Nat)
  BY NatLessThanWellFounded
<1>2. \A x, y \in Nat : y < x => <<y, x>> \in R
  BY DEF OpToRel
<1> HIDE DEF R
<1>3. PICK x \in T : \A y \in T : ~ (<<y, x>> \in R)
  BY <1>1, WFMin
<1>4. \A y \in T : x <= y
  <2> TAKE y \in T
  <2>1. x \in Nat /\ y \in Nat
    OBVIOUS
  <2>2. ~ (y < x)
    BY <2>1, <1>2, <1>3, Zenon
  <2> QED  BY <2>1, <2>2
<1> QED  BY <1>4

\* The first symbol of a part is one of it.
LEMMA MinIsOne ==
  ASSUME NEW T, T \subseteq Nat, T # {}
  PROVE  Min(T) \in T
<1>1. PICK x \in T : \A y \in T : x <= y
  BY LeastNumber
<1> QED  BY <1>1 DEF Min

\* A finite set of numbers has a first part of every size.
LEMMA FirstPart ==
  ASSUME NEW T, T \subseteq Nat, IsFiniteSet(T), NEW k \in Nat, k <= Cardinality(T)
  PROVE  \E h \in SUBSET T : Cardinality(h) = k /\ \A x \in h, y \in T \ h : x < y
<1> DEFINE Has(n) == \E h \in SUBSET T : Cardinality(h) = n /\ \A x \in h, y \in T \ h : x < y
           Bad == {n \in Nat : n <= Cardinality(T) /\ ~Has(n)}
<1>1. Cardinality(T) \in Nat
  BY FS_CardinalityType
<1>2. SUFFICES Bad = {}
  OBVIOUS
<1>3. SUFFICES ASSUME Bad # {}  PROVE FALSE
  OBVIOUS
<1>4. PICK n \in Bad : \A m \in Bad : n <= m
  <2>1. Bad \subseteq Nat
    OBVIOUS
  <2> HIDE DEF Bad
  <2> QED  BY <1>3, <2>1, LeastNumber
<1>5. n \in Nat /\ n <= Cardinality(T) /\ ~Has(n)
  OBVIOUS
<1>6. Has(0)
  <2>1. Cardinality({}) = 0
    BY FS_EmptySet
  <2> QED  BY <2>1
<1>7. n # 0
  BY <1>5, <1>6
<1>8. Has(n - 1)
  <2>1. n - 1 \in Nat /\ n - 1 <= Cardinality(T) /\ ~(n <= n - 1)
    BY <1>1, <1>5, <1>7
  <2>2. n - 1 \notin Bad
    BY <1>4, <2>1
  <2> HIDE DEF Has
  <2> QED  BY <2>1, <2>2
<1>9. PICK h \in SUBSET T : Cardinality(h) = n - 1 /\ \A x \in h, y \in T \ h : x < y
  BY <1>8
<1>10. IsFiniteSet(h) /\ T \ h # {}
  <2>1. IsFiniteSet(h)
    BY FS_Subset
  <2>2. h # T
    BY <1>1, <1>5, <1>7, <1>9
  <2> QED  BY <2>1, <2>2
<1>11. PICK m \in T \ h : \A y \in T \ h : m <= y
  <2>1. T \ h \subseteq Nat
    OBVIOUS
  <2> QED  BY <1>10, <2>1, LeastNumber
<1>12. Cardinality(h \union {m}) = n
  <2>1. Cardinality(h \union {m}) = Cardinality(h) + 1
    BY <1>10, <1>11, FS_AddElement
  <2> QED  BY <2>1, <1>5, <1>9
<1>13. \A x \in h \union {m}, y \in T \ (h \union {m}) : x < y
  <2> SUFFICES ASSUME NEW x \in h \union {m}, NEW y \in T \ (h \union {m})  PROVE x < y
    OBVIOUS
  <2>1. CASE x \in h
    BY <2>1, <1>9
  <2>2. CASE x = m
    <3>1. m <= y /\ m # y /\ m \in Nat /\ y \in Nat
      BY <1>11
    <3> QED  BY <2>2, <3>1
  <2> QED  BY <2>1, <2>2
<1>14. Has(n)
  BY <1>11, <1>12, <1>13
<1> QED  BY <1>5, <1>14

------------------------------------------------------------------------------
(* The plan: what a symbol costs, families, and calls. *)

\* The price and the estimate as functions of what a symbol is.
PointersOf(p, w, s) == {i \in 1 .. Len(s) : w[s[i]] /\ \E j \in 1 .. i - 1 : s[j] = p[s[i]]}
PriceOf(p, w, c, s, i) == Facts + IF i \in PointersOf(p, w, s) THEN Pointer ELSE c[s[i]]
UpTo(p, w, c, s) == CHOOSE f : f = [i \in 0 .. Len(s) |->
                      IF i = 0 THEN Overhead ELSE f[i - 1] + PriceOf(p, w, c, s, i)]
TokensOf(p, w, c, s) == UpTo(p, w, c, s)[Len(s)]

LEMMA TokensAre ==
  ASSUME NEW s
  PROVE  Tokens(s) = TokensOf(parent, inWindow, cost, s)
BY DEF Tokens, TokensOf, UpTo, Price, PriceOf, Pointers, PointersOf

LEMMA TokensStay ==
  ASSUME UNCHANGED <<parent, inWindow, cost>>, NEW s
  PROVE  Tokens(s)' = TokensOf(parent, inWindow, cost, s')
<1>1. Tokens(s)' = TokensOf(parent', inWindow', cost', s')
  BY DEF Tokens, TokensOf, UpTo, Price, PriceOf, Pointers, PointersOf
<1> QED  BY <1>1

LEMMA TokensOfCurrent ==
  ASSUME UNCHANGED <<parent, inWindow, cost>>
  PROVE  Tokens(current)' = TokensOf(parent, inWindow, cost, current')
<1>1. Tokens(current)' = TokensOf(parent', inWindow', cost', current')
  BY DEF Tokens, TokensOf, UpTo, Price, PriceOf, Pointers, PointersOf
<1> QED  BY <1>1

\* Counting up: what holds at nought, and at a number when at the one before,
\* holds everywhere.
LEMMA CountingUp ==
  ASSUME NEW n \in Nat, NEW G, 0 \in G, \A k \in 1 .. n : k - 1 \in G => k \in G
  PROVE  n \in G /\ \A k \in 0 .. n : k \in G
<1> DEFINE Bad == (0 .. n) \ G
<1> SUFFICES ASSUME Bad # {}  PROVE FALSE
  <2>1. n \in 0 .. n
    OBVIOUS
  <2> QED  BY <2>1
<1>1. PICK k \in Bad : \A m \in Bad : k <= m
  <2>1. Bad \subseteq Nat
    OBVIOUS
  <2> HIDE DEF Bad
  <2> QED  BY <2>1, LeastNumber
<1>2. k \in 1 .. n /\ k - 1 \in 0 .. n /\ ~(k <= k - 1)
  OBVIOUS
<1>3. k - 1 \in G
  BY <1>1, <1>2
<1> QED  BY <1>1, <1>2, <1>3

Inputs(p, w, c) == p \in [Nodes -> 0 .. N] /\ w \in [Nodes -> BOOLEAN] /\ c \in [Nodes -> Costs]

LEMMA PriceIsNat ==
  ASSUME NEW p, NEW w, NEW c, Inputs(p, w, c), NEW s \in Seq(Nodes), NEW i \in 1 .. Len(s)
  PROVE  PriceOf(p, w, c, s, i) \in Nat
<1>1. s[i] \in Nodes
  OBVIOUS
<1>2. c[s[i]] \in Nat /\ Facts \in Nat /\ Pointer \in Nat
  BY <1>1, PlanAssumption DEF Inputs
<1> QED  BY <1>2 DEF PriceOf

\* The running estimate is there for every sequence, and adds the prices up.
LEMMA UpToIs ==
  ASSUME NEW p, NEW w, NEW c, Inputs(p, w, c), NEW s \in Seq(Nodes)
  PROVE  /\ UpTo(p, w, c, s)[0] = Overhead
         /\ \A k \in 1 .. Len(s) : UpTo(p, w, c, s)[k] = UpTo(p, w, c, s)[k - 1] + PriceOf(p, w, c, s, k)
         /\ \A k \in 0 .. Len(s) : UpTo(p, w, c, s)[k] \in Nat
<1> DEFINE Sum(f, n) == [i \in 0 .. n |-> IF i = 0 THEN Overhead ELSE f[i - 1] + PriceOf(p, w, c, s, i)]
           G == {n \in Nat : n <= Len(s) => \E f : f = Sum(f, n)}
<1>1. Len(s) \in Nat
  OBVIOUS
<1>2. 0 \in G
  <2> DEFINE f == [i \in 0 .. 0 |-> Overhead]
  <2>1. f = Sum(f, 0)
    OBVIOUS
  <2>2. \E g : g = Sum(g, 0)
    BY <2>1
  <2> HIDE DEF Sum
  <2> QED  BY <2>2
<1>3. ASSUME NEW k \in 1 .. Len(s), k - 1 \in G  PROVE k \in G
  <2>1. PICK f : f = Sum(f, k - 1)
    <3> HIDE DEF Sum
    <3> QED  BY <1>3
  <2> DEFINE g == [i \in 0 .. k |-> IF i = k THEN f[k - 1] + PriceOf(p, w, c, s, k) ELSE f[i]]
  <2>2. g = Sum(g, k)
    <3>1. ASSUME NEW i \in 0 .. k
          PROVE  g[i] = IF i = 0 THEN Overhead ELSE g[i - 1] + PriceOf(p, w, c, s, i)
      <4>1. CASE i = k
        BY <4>1
      <4>2. CASE i # k
        <5>1. i \in 0 .. k - 1 /\ (i # 0 => i - 1 \in 0 .. k - 1 /\ i - 1 \in 0 .. k /\ i - 1 # k)
          BY <4>2
        <5>2. f[i] = IF i = 0 THEN Overhead ELSE f[i - 1] + PriceOf(p, w, c, s, i)
          BY <2>1, <5>1
        <5> QED  BY <4>2, <5>1, <5>2
      <4> QED  BY <4>1, <4>2
    <3> QED  BY <3>1
  <2>3. \E h : h = Sum(h, k)
    <3> HIDE DEF g, Sum
    <3> QED  BY <2>2
  <2> HIDE DEF Sum
  <2> QED  BY <2>3
<1>4. Len(s) \in G
  <2>1. \A k \in 1 .. Len(s) : k - 1 \in G => k \in G
    BY <1>3
  <2> HIDE DEF G
  <2> QED  BY <1>1, <1>2, <2>1, CountingUp
<1>5. \E f : f = Sum(f, Len(s))
  <2> HIDE DEF Sum
  <2> QED  BY <1>4
<1> DEFINE u == UpTo(p, w, c, s)
<1>6. u = Sum(u, Len(s))
  BY <1>5 DEF UpTo
<1> HIDE DEF u
<1>7. u[0] = Overhead /\ \A k \in 1 .. Len(s) : u[k] = u[k - 1] + PriceOf(p, w, c, s, k)
  BY <1>1, <1>6
<1> DEFINE H == {k \in Nat : k <= Len(s) => u[k] \in Nat}
<1>8. 0 \in H
  BY <1>7, PlanAssumption
<1>9. ASSUME NEW k \in 1 .. Len(s), k - 1 \in H  PROVE k \in H
  <2>1. u[k - 1] \in Nat /\ PriceOf(p, w, c, s, k) \in Nat
    BY <1>9, PriceIsNat
  <2> QED  BY <1>7, <2>1
<1>10. \A k \in 0 .. Len(s) : u[k] \in Nat
  <2>1. \A k \in 0 .. Len(s) : k \in H
    <3>1. \A k \in 1 .. Len(s) : k - 1 \in H => k \in H
      BY <1>9
    <3> HIDE DEF H
    <3> QED  BY <1>1, <1>8, <3>1, CountingUp
  <2> QED  BY <2>1
<1> QED  BY <1>7, <1>10 DEF u

LEMMA TokensFacts ==
  ASSUME NEW p, NEW w, NEW c, Inputs(p, w, c), NEW s \in Seq(Nodes)
  PROVE  TokensOf(p, w, c, s) \in Nat /\ (Len(s) = 0 => TokensOf(p, w, c, s) = Overhead)
<1>1. Len(s) \in Nat
  OBVIOUS
<1> QED  BY <1>1, UpToIs DEF TokensOf

\* Two runs of symbols of which none in the second is nested in one of the
\* first cost together what they cost apart: no pointer crosses.
LEMMA CostsAdd ==
  ASSUME NEW p, NEW w, NEW c, Inputs(p, w, c), NEW s \in Seq(Nodes), NEW t \in Seq(Nodes),
         \A i \in 1 .. Len(s), j \in 1 .. Len(t) : s[i] # p[t[j]]
  PROVE  TokensOf(p, w, c, s \o t) = TokensOf(p, w, c, s) + TokensOf(p, w, c, t) - Overhead
<1> DEFINE r == s \o t
           m == Len(s)
           u == UpTo(p, w, c, r)
           us == UpTo(p, w, c, s)
           ut == UpTo(p, w, c, t)
<1>1. /\ r \in Seq(Nodes) /\ m \in Nat /\ Len(t) \in Nat /\ Len(r) = m + Len(t)
      /\ \A i \in 1 .. m : r[i] = s[i] /\ \A j \in 1 .. Len(t) : r[m + j] = t[j]
  OBVIOUS
<1>2. ASSUME NEW k \in 1 .. m  PROVE PriceOf(p, w, c, r, k) = PriceOf(p, w, c, s, k)
  <2> HIDE DEF r
  <2>1. k \in PointersOf(p, w, r) <=> k \in PointersOf(p, w, s)
    <3>1. k \in 1 .. Len(r) /\ r[k] = s[k] /\ \A j \in 1 .. k - 1 : j \in 1 .. m /\ r[j] = s[j]
      BY <1>1
    <3> QED  BY <3>1 DEF PointersOf
  <2> QED  BY <1>1, <2>1 DEF PriceOf
<1>3. ASSUME NEW k \in 1 .. Len(t)  PROVE PriceOf(p, w, c, r, m + k) = PriceOf(p, w, c, t, k)
  <2>1. r[m + k] = t[k] /\ m + k \in 1 .. Len(r) /\ m + k - 1 \in Int
    BY <1>1
  <2>2. ASSUME NEW j \in 1 .. (m + k) - 1, r[j] = p[t[k]]  PROVE \E i \in 1 .. k - 1 : t[i] = p[t[k]]
    <3>1. CASE j <= m
      <4>1. j \in 1 .. m
        BY <3>1, <1>1
      <4> QED  BY <1>1, <2>2, <4>1
    <3>2. CASE ~(j <= m)
      <4>1. j - m \in 1 .. k - 1 /\ j - m \in 1 .. Len(t) /\ j = m + (j - m)
        BY <3>2, <1>1
      <4>2. r[j] = t[j - m]
        BY <1>1, <4>1
      <4> QED  BY <2>2, <4>1, <4>2
    <3> QED  BY <3>1, <3>2
  <2>3. ASSUME NEW i \in 1 .. k - 1, t[i] = p[t[k]]  PROVE \E j \in 1 .. (m + k) - 1 : r[j] = p[t[k]]
    <3>1. m + i \in 1 .. (m + k) - 1 /\ i \in 1 .. Len(t)
      BY <1>1
    <3>2. r[m + i] = t[i]
      BY <1>1, <3>1
    <3> QED  BY <2>3, <3>1, <3>2
  <2> HIDE DEF r, m
  <2>4. m + k \in PointersOf(p, w, r) <=> k \in PointersOf(p, w, t)
    BY <2>1, <2>2, <2>3 DEF PointersOf
  <2> QED  BY <2>1, <2>4 DEF PriceOf
<1> HIDE DEF r
<1>4. /\ u[0] = Overhead /\ \A k \in 1 .. Len(r) : u[k] = u[k - 1] + PriceOf(p, w, c, r, k)
      /\ us[0] = Overhead /\ \A k \in 1 .. m : us[k] = us[k - 1] + PriceOf(p, w, c, s, k)
      /\ ut[0] = Overhead /\ \A k \in 1 .. Len(t) : ut[k] = ut[k - 1] + PriceOf(p, w, c, t, k)
      /\ \A k \in 0 .. Len(r) : u[k] \in Nat
      /\ \A k \in 0 .. m : us[k] \in Nat
      /\ \A k \in 0 .. Len(t) : ut[k] \in Nat
  BY <1>1, UpToIs
<1> HIDE DEF u, us, ut, m
<1>5. u[m] = us[m]
  <2> DEFINE G == {k \in Nat : k <= m => u[k] = us[k]}
  <2>1. 0 \in G
    BY <1>4
  <2>2. ASSUME NEW k \in 1 .. m, k - 1 \in G  PROVE k \in G
    <3>1. k \in 1 .. Len(r) /\ u[k - 1] = us[k - 1]
      BY <1>1, <2>2
    <3> QED  BY <1>2, <1>4, <3>1
  <2>3. m \in G
    <3>1. \A k \in 1 .. m : k - 1 \in G => k \in G
      BY <2>2
    <3> HIDE DEF G
    <3>2. m \in Nat
      BY <1>1
    <3> QED  BY <2>1, <3>1, <3>2, CountingUp
  <2> QED  BY <1>1, <2>3
<1>6. u[m + Len(t)] = u[m] + ut[Len(t)] - Overhead
  <2> DEFINE G == {k \in Nat : k <= Len(t) => u[m + k] = u[m] + ut[k] - Overhead}
  <2>1. 0 \in G
    <3>1. m + 0 = m /\ u[m] \in Nat
      BY <1>1, <1>4
    <3> QED  BY <1>4, <3>1
  <2>2. ASSUME NEW k \in 1 .. Len(t), k - 1 \in G  PROVE k \in G
    <3>1. m + k \in 1 .. Len(r) /\ (m + k) - 1 = m + (k - 1)
      BY <1>1
    <3>2. u[m + (k - 1)] = u[m] + ut[k - 1] - Overhead
      BY <1>1, <2>2
    <3>3. u[m + k] = u[m + (k - 1)] + PriceOf(p, w, c, t, k)
      BY <1>3, <1>4, <3>1
    <3>4. ut[k] = ut[k - 1] + PriceOf(p, w, c, t, k)
      BY <1>4
    <3>5. /\ u[m] \in Nat /\ ut[k - 1] \in Nat /\ PriceOf(p, w, c, t, k) \in Nat
      BY <1>1, <1>4, PriceIsNat
    <3>6. u[m + k] = u[m] + ut[k] - Overhead
      BY <3>2, <3>3, <3>4, <3>5, PlanAssumption
    <3> QED  BY <3>6
  <2>3. Len(t) \in G
    <3>1. \A k \in 1 .. Len(t) : k - 1 \in G => k \in G
      BY <2>2
    <3> HIDE DEF G
    <3> QED  BY <1>1, <2>1, <3>1, CountingUp
  <2> QED  BY <1>1, <2>3
<1> QED  BY <1>1, <1>5, <1>6 DEF TokensOf, u, us, ut, m, r

\* A set in the order of the sort: a sequence that has each of it once.
LEMMA SortedIs ==
  ASSUME NEW S \in SUBSET Nodes
  PROVE  /\ Sorted[S] \in Seq(Nodes)
         /\ \A i \in 1 .. Len(Sorted[S]) : Sorted[S][i] \in S
         /\ \A i, j \in 1 .. Len(Sorted[S]) : Sorted[S][i] = Sorted[S][j] => i = j
         /\ \A x \in S : \E i \in 1 .. Len(Sorted[S]) : Sorted[S][i] = x
         /\ Len(Sorted[S]) = Cardinality(S)
<1> DEFINE n == Cardinality(S)
           Under(x) == {y \in S : y < x}
           s == Sorted[S]
<1>1. S \subseteq Nat /\ IsFiniteSet(S) /\ n \in Nat
  <2>1. IsFiniteSet(1 .. N)
    BY FS_Interval, PlanAssumption
  <2>2. S \subseteq 1 .. N /\ S \subseteq Nat
    BY PlanAssumption DEF Nodes
  <2>3. IsFiniteSet(S)
    BY <2>1, <2>2, FS_Subset
  <2> QED  BY <2>2, <2>3, FS_CardinalityType
<1>2. ASSUME NEW x \in S  PROVE IsFiniteSet(Under(x)) /\ Cardinality(Under(x)) \in Nat /\ Cardinality(Under(x)) < n
  <2>1. Under(x) \subseteq S /\ Under(x) # S
    BY <1>1
  <2> HIDE DEF Under
  <2> QED  BY <1>1, <2>1, FS_Subset, FS_CardinalityType
<1>3. ASSUME NEW i \in 1 .. n  PROVE \E x \in S : Cardinality(Under(x)) = i - 1
  <2>1. i - 1 \in Nat /\ i - 1 <= n /\ i - 1 # n
    BY <1>1
  <2>2. PICK h \in SUBSET S : Cardinality(h) = i - 1 /\ \A x \in h, y \in S \ h : x < y
    BY <1>1, <2>1, FirstPart
  <2>3. S \ h # {}
    BY <2>1, <2>2
  <2>4. PICK x \in S \ h : \A y \in S \ h : x <= y
    <3>1. S \ h \subseteq Nat
      BY <1>1
    <3> QED  BY <2>3, <3>1, LeastNumber
  <2>5. Under(x) = h
    <3>1. ASSUME NEW y \in S, y < x  PROVE y \in h
      <4>1. x \in Nat /\ y \in Nat /\ ~(x <= y)
        BY <1>1, <3>1
      <4> QED  BY <2>4, <4>1
    <3>2. \A y \in h : y < x
      BY <2>2, <2>4
    <3> QED  BY <3>1, <3>2
  <2> QED  BY <2>2, <2>4, <2>5
<1>4. ASSUME NEW x \in S, NEW y \in S, Cardinality(Under(x)) = Cardinality(Under(y))  PROVE x = y
  <2>1. ASSUME NEW a \in S, NEW b \in S, a < b  PROVE Cardinality(Under(a)) < Cardinality(Under(b))
    <3>1. a \in Nat /\ b \in Nat /\ \A z \in S : z \in Nat
      BY <1>1
    <3>2. \A z \in S : z < a => z < b
      BY <2>1, <3>1
    <3>3. Under(a) \subseteq Under(b) /\ a \in Under(b) /\ a \notin Under(a)
      <4>1. Under(a) \subseteq Under(b) /\ a \in Under(b)
        BY <2>1, <3>2
      <4>2. ~(a < a)
        BY <3>1
      <4> QED  BY <4>1, <4>2
    <3>4. Under(a) # Under(b) /\ IsFiniteSet(Under(b)) /\ Cardinality(Under(a)) \in Nat /\ Cardinality(Under(b)) \in Nat
      BY <3>3, <1>2
    <3> HIDE DEF Under
    <3>5. Cardinality(Under(a)) <= Cardinality(Under(b)) /\ Cardinality(Under(a)) # Cardinality(Under(b))
      BY <3>3, <3>4, FS_Subset
    <3> QED  BY <3>4, <3>5
  <2>2. x \in Nat /\ y \in Nat
    BY <1>1
  <2>3. ~(x < y) /\ ~(y < x)
    BY <1>2, <1>4, <2>1
  <2> QED  BY <2>2, <2>3
<1>5. s = [i \in 1 .. n |-> CHOOSE x \in S : Cardinality(Under(x)) = i - 1]
  BY DEF Sorted
<1> HIDE DEF s
<1>6. \A i \in 1 .. n : s[i] \in S /\ Cardinality(Under(s[i])) = i - 1
  <2> HIDE DEF Under
  <2> QED  BY <1>3, <1>5
<1>7. s \in Seq(Nodes) /\ Len(s) = n
  <2>1. s \in [1 .. n -> Nodes]
    BY <1>5, <1>6
  <2> QED  BY <1>1, <2>1
<1>8. ASSUME NEW i \in 1 .. n, NEW j \in 1 .. n, s[i] = s[j]  PROVE i = j
  <2>1. i - 1 = j - 1
    <3> HIDE DEF Under
    <3> QED  BY <1>6, <1>8
  <2> QED  BY <2>1
<1>9. ASSUME NEW x \in S  PROVE \E i \in 1 .. n : s[i] = x
  <2> DEFINE i == Cardinality(Under(x)) + 1
  <2>1. i \in 1 .. n /\ i - 1 = Cardinality(Under(x))
    BY <1>1, <1>2
  <2> HIDE DEF i
  <2>2. s[i] \in S /\ Cardinality(Under(s[i])) = Cardinality(Under(x))
    BY <1>6, <2>1
  <2>3. s[i] = x
    BY <1>4, <2>2
  <2> QED  BY <2>1, <2>3
<1> QED  BY <1>6, <1>7, <1>8, <1>9 DEF s


------------------------------------------------------------------------------
(* Sequences, one fact at a time. *)
LEMMA AppendIs ==
  ASSUME NEW S, NEW s \in Seq(S), NEW x \in S
  PROVE  /\ Append(s, x) \in Seq(S) /\ Len(Append(s, x)) = Len(s) + 1 /\ Len(s) \in Nat
         /\ \A i \in 1 .. Len(s) : Append(s, x)[i] = s[i]
         /\ Append(s, x)[Len(s) + 1] = x
OBVIOUS

LEMMA TailIs ==
  ASSUME NEW S, NEW s \in Seq(S), s # <<>>
  PROVE  /\ Len(s) \in Nat /\ Len(s) > 0 /\ Head(s) = s[1] /\ Head(s) \in S
         /\ Tail(s) \in Seq(S) /\ Len(Tail(s)) = Len(s) - 1
         /\ \A i \in 1 .. Len(s) - 1 : Tail(s)[i] = s[i + 1]
OBVIOUS

LEMMA ConcatIs ==
  ASSUME NEW S, NEW s \in Seq(S), NEW t \in Seq(S)
  PROVE  /\ s \o t \in Seq(S) /\ Len(s \o t) = Len(s) + Len(t) /\ Len(s) \in Nat /\ Len(t) \in Nat
         /\ \A i \in 1 .. Len(s) : (s \o t)[i] = s[i]
         /\ \A i \in 1 .. Len(t) : (s \o t)[Len(s) + i] = t[i]
OBVIOUS

LEMMA FunctionIsSeq ==
  ASSUME NEW S, NEW n \in Nat, NEW f \in [1 .. n -> S]
  PROVE  f \in Seq(S) /\ Len(f) = n
OBVIOUS

LEMMA PutBackIs ==
  ASSUME NEW S, NEW s \in Seq(S), s # <<>>, NEW x \in S
  PROVE  /\ <<x>> \o Tail(s) \in Seq(S) /\ Len(<<x>> \o Tail(s)) = Len(s)
         /\ (<<x>> \o Tail(s))[1] = x
         /\ \A i \in 2 .. Len(s) : (<<x>> \o Tail(s))[i] = s[i]
<1>1. /\ Len(s) \in Nat /\ Len(s) > 0 /\ Tail(s) \in Seq(S) /\ Len(Tail(s)) = Len(s) - 1
      /\ \A i \in 1 .. Len(s) - 1 : Tail(s)[i] = s[i + 1]
  BY TailIs
<1>2. <<x>> \in Seq(S) /\ Len(<<x>>) = 1 /\ <<x>>[1] = x
  OBVIOUS
<1>3. /\ <<x>> \o Tail(s) \in Seq(S) /\ Len(<<x>> \o Tail(s)) = 1 + Len(Tail(s))
      /\ \A i \in 1 .. 1 : (<<x>> \o Tail(s))[i] = <<x>>[i]
      /\ \A i \in 1 .. Len(Tail(s)) : (<<x>> \o Tail(s))[1 + i] = Tail(s)[i]
  BY <1>1, <1>2, ConcatIs
<1>4. ASSUME NEW i \in 2 .. Len(s)  PROVE (<<x>> \o Tail(s))[i] = s[i]
  <2>1. i - 1 \in 1 .. Len(s) - 1 /\ 1 + (i - 1) = i /\ (i - 1) + 1 = i
    BY <1>1
  <2> QED  BY <1>1, <1>3, <2>1
<1> QED  BY <1>1, <1>2, <1>3, <1>4

------------------------------------------------------------------------------
(* Where a symbol is, and what the plan keeps. *)
Holds(s, n) == \E j \in 1 .. Len(s) : s[j] = n
Inj(s) == \A i, j \in 1 .. Len(s) : s[i] = s[j] => i = j

UpOf(p, n) == IF p[n] = 0 THEN n ELSE p[n]
TopOf(p) == [n \in Nodes |-> UpOf(p, UpOf(p, UpOf(p, UpOf(p, n))))]
FamilyOf(p) == [h \in Nodes |-> Sorted[{n \in Nodes : TopOf(p)[n] = h}]]
FitsOneOf(p, w, c, s) == Len(s) <= MaxSymbols /\ TokensOf(p, w, c, s) <= MaxTokens

Typed(fs, hf, bs, cur) ==
    /\ fs \in Seq(Seq(Nodes)) /\ hf \in BOOLEAN /\ bs \in Seq(Seq(Nodes)) /\ cur \in Seq(Nodes)

\* The families still to place are whole, but the first of them while it is
\* placed member by member.
Shape(p, fs, hf) ==
    /\ hf => fs # <<>>
    /\ \A k \in 1 .. Len(fs) : Len(fs[k]) > 0 /\ Inj(fs[k])
    /\ \A k, l \in 1 .. Len(fs) : \A n, m \in Nodes :
         Holds(fs[k], n) /\ Holds(fs[l], m) => (TopOf(p)[n] = TopOf(p)[m] <=> k = l)
    /\ \A k \in 1 .. Len(fs) : (k > 1 \/ ~hf) =>
         \A n \in Nodes : Holds(fs[k], n) => fs[k] = FamilyOf(p)[TopOf(p)[n]]

\* A symbol is in one place, once.
Once(fs, bs, cur) ==
    /\ \A i \in 1 .. Len(bs) : Inj(bs[i])
    /\ Inj(cur)
    /\ \A i, j \in 1 .. Len(bs) : \A n \in Nodes : Holds(bs[i], n) /\ Holds(bs[j], n) => i = j
    /\ \A i \in 1 .. Len(bs) : \A n \in Nodes : Holds(bs[i], n) => ~Holds(cur, n)
    /\ \A k \in 1 .. Len(fs) : \A n \in Nodes : Holds(fs[k], n) =>
         ~Holds(cur, n) /\ \A i \in 1 .. Len(bs) : ~Holds(bs[i], n)
    /\ \A n \in Nodes : \/ Holds(cur, n)
                        \/ \E i \in 1 .. Len(bs) : Holds(bs[i], n)
                        \/ \E k \in 1 .. Len(fs) : Holds(fs[k], n)

\* A call within the caps.
Caps(p, w, c, s) == Len(s) <= MaxSymbols /\ (Len(s) > 1 => TokensOf(p, w, c, s) <= MaxTokens)
Fits(p, w, c, bs, cur) == (\A i \in 1 .. Len(bs) : Caps(p, w, c, bs[i])) /\ Caps(p, w, c, cur)

\* A family that fits one call is in one, or is still to place.
AllIn(p, h, s) == \A n \in Nodes : TopOf(p)[n] = h => Holds(s, n)
Whole(p, w, c, fs, hf, bs, cur) ==
    \A h \in Nodes : p[h] = 0 /\ FitsOneOf(p, w, c, FamilyOf(p)[h]) =>
        \/ \E i \in 1 .. Len(bs) : AllIn(p, h, bs[i])
        \/ AllIn(p, h, cur)
        \/ \E k \in 1 .. Len(fs) : (k > 1 \/ ~hf) /\ AllIn(p, h, fs[k])

Good(p, w, c, fs, hf, bs, cur) ==
    /\ Typed(fs, hf, bs, cur)
    /\ Shape(p, fs, hf)
    /\ Once(fs, bs, cur)
    /\ Fits(p, w, c, bs, cur)
    /\ Whole(p, w, c, fs, hf, bs, cur)


Roots(p) == \A n \in Nodes : p[n] # 0 => p[n] \in Nodes /\ p[p[n]] = 0

LEMMA TopIs ==
  ASSUME NEW p, Roots(p), NEW n \in Nodes
  PROVE  /\ TopOf(p)[n] = UpOf(p, n) /\ TopOf(p)[n] \in Nodes
         /\ p[TopOf(p)[n]] = 0
         /\ (p[n] = 0 => TopOf(p)[n] = n)
         /\ (p[n] # 0 => TopOf(p)[p[n]] = TopOf(p)[n])
<1>1. ASSUME NEW m \in Nodes  PROVE UpOf(p, m) \in Nodes /\ p[UpOf(p, m)] = 0 /\ UpOf(p, UpOf(p, m)) = UpOf(p, m)
  BY DEF UpOf, Roots
<1>2. ASSUME NEW m \in Nodes  PROVE TopOf(p)[m] = UpOf(p, m)
  BY <1>1 DEF TopOf
<1>3. p[n] # 0 => p[n] \in Nodes /\ UpOf(p, p[n]) = p[n] /\ UpOf(p, n) = p[n]
  BY DEF UpOf, Roots
<1> QED  BY <1>1, <1>2, <1>3 DEF UpOf

LEMMA FamilyIs ==
  ASSUME NEW p, Roots(p), NEW h \in Nodes
  PROVE  /\ FamilyOf(p)[h] \in Seq(Nodes) /\ Inj(FamilyOf(p)[h])
         /\ \A n \in Nodes : Holds(FamilyOf(p)[h], n) <=> TopOf(p)[n] = h
<1> DEFINE S == {n \in Nodes : TopOf(p)[n] = h}
<1>1. FamilyOf(p)[h] = Sorted[S] /\ S \in SUBSET Nodes
  BY DEF FamilyOf
<1> HIDE DEF S
<1>2. /\ Sorted[S] \in Seq(Nodes)
      /\ \A i \in 1 .. Len(Sorted[S]) : Sorted[S][i] \in S
      /\ \A i, j \in 1 .. Len(Sorted[S]) : Sorted[S][i] = Sorted[S][j] => i = j
      /\ \A x \in S : \E i \in 1 .. Len(Sorted[S]) : Sorted[S][i] = x
  BY <1>1, SortedIs
<1>3. \A n \in Nodes : Holds(FamilyOf(p)[h], n) <=> n \in S
  BY <1>1, <1>2 DEF Holds
<1>4. \A n \in Nodes : n \in S <=> TopOf(p)[n] = h
  BY DEF S
<1> QED  BY <1>1, <1>2, <1>3, <1>4 DEF Inj

\* Closing a call moves what it holds, and changes nothing else.
LEMMA FlushGood ==
  ASSUME NEW p, NEW w, NEW c, Inputs(p, w, c), NEW fs, NEW hf, NEW bs, NEW cur,
         Good(p, w, c, fs, hf, bs, cur)
  PROVE  Good(p, w, c, fs, hf, Append(bs, cur), <<>>)
<1> DEFINE b == Append(bs, cur)
<1>1. Typed(fs, hf, bs, cur) /\ Len(bs) \in Nat
  BY DEF Good, Typed
<1>2. /\ b \in Seq(Seq(Nodes)) /\ Len(b) = Len(bs) + 1
      /\ \A i \in 1 .. Len(bs) : b[i] = bs[i]
      /\ b[Len(bs) + 1] = cur
  BY <1>1, AppendIs DEF Typed
<1>3. <<>> \in Seq(Nodes) /\ Len(<<>>) = 0 /\ \A n : ~Holds(<<>>, n)
  BY DEF Holds
<1> HIDE DEF b
<1>4. \A i \in 1 .. Len(b) : i \in 1 .. Len(bs) \/ i = Len(bs) + 1
  BY <1>1, <1>2
<1>5. /\ \A i \in 1 .. Len(bs) : i \in 1 .. Len(b)
      /\ Len(bs) + 1 \in 1 .. Len(b) /\ Len(bs) + 1 \notin 1 .. Len(bs)
  BY <1>1, <1>2
<1>6. Typed(fs, hf, b, <<>>)
  BY <1>1, <1>2, <1>3 DEF Typed
<1>7. Once(fs, b, <<>>)
  <2>1. Once(fs, bs, cur)
    BY DEF Good
  <2>2. \A i \in 1 .. Len(b) : Inj(b[i])
    BY <1>2, <1>4, <2>1 DEF Once
  <2>3. Inj(<<>>)
    BY DEF Inj
  <2>4. ASSUME NEW i \in 1 .. Len(b), NEW j \in 1 .. Len(b), NEW n \in Nodes, Holds(b[i], n), Holds(b[j], n)
        PROVE  i = j
    <3>1. CASE i \in 1 .. Len(bs) /\ j \in 1 .. Len(bs)
      BY <1>2, <2>1, <2>4, <3>1 DEF Once
    <3>2. CASE i \in 1 .. Len(bs) /\ j = Len(bs) + 1
      BY <1>2, <2>1, <2>4, <3>2 DEF Once
    <3>3. CASE i = Len(bs) + 1 /\ j \in 1 .. Len(bs)
      BY <1>2, <2>1, <2>4, <3>3 DEF Once
    <3> QED  BY <1>4, <3>1, <3>2, <3>3
  <2>5. \A k \in 1 .. Len(fs) : \A n \in Nodes : Holds(fs[k], n) => \A i \in 1 .. Len(b) : ~Holds(b[i], n)
    BY <1>2, <1>4, <2>1 DEF Once
  <2>6. ASSUME NEW n \in Nodes
        PROVE  (\E i \in 1 .. Len(b) : Holds(b[i], n)) \/ (\E k \in 1 .. Len(fs) : Holds(fs[k], n))
    BY <1>2, <1>5, <2>1 DEF Once
  <2> HIDE DEF Holds, Inj
  <2> QED  BY <1>3, <2>2, <2>3, <2>4, <2>5, <2>6 DEF Once
<1>8. Fits(p, w, c, b, <<>>)
  <2>1. Fits(p, w, c, bs, cur)
    BY DEF Good
  <2>2. \A i \in 1 .. Len(b) : Caps(p, w, c, b[i])
    BY <1>2, <1>4, <2>1 DEF Fits
  <2>3. Caps(p, w, c, <<>>)
    BY <1>3, PlanAssumption DEF Caps
  <2> QED  BY <2>2, <2>3 DEF Fits
<1>9. Whole(p, w, c, fs, hf, b, <<>>)
  <2> SUFFICES ASSUME NEW h \in Nodes, p[h] = 0 /\ FitsOneOf(p, w, c, FamilyOf(p)[h])
               PROVE  \/ \E i \in 1 .. Len(b) : AllIn(p, h, b[i])
                      \/ \E k \in 1 .. Len(fs) : (k > 1 \/ ~hf) /\ AllIn(p, h, fs[k])
    BY DEF Whole
  <2>1. \/ \E i \in 1 .. Len(bs) : AllIn(p, h, bs[i])
        \/ AllIn(p, h, cur)
        \/ \E k \in 1 .. Len(fs) : (k > 1 \/ ~hf) /\ AllIn(p, h, fs[k])
    BY DEF Good, Whole
  <2> QED  BY <1>2, <1>5, <2>1
<1> QED  BY <1>6, <1>7, <1>8, <1>9 DEF Good, b


\* What is in two runs of symbols put one after the other.
LEMMA InConcat ==
  ASSUME NEW s \in Seq(Nodes), NEW t \in Seq(Nodes)
  PROVE  /\ \A n \in Nodes : Holds(s \o t, n) <=> Holds(s, n) \/ Holds(t, n)
         /\ Inj(s) /\ Inj(t) /\ (\A n \in Nodes : ~(Holds(s, n) /\ Holds(t, n))) => Inj(s \o t)
<1> DEFINE r == s \o t
           m == Len(s)
<1>1. /\ r \in Seq(Nodes) /\ Len(r) = m + Len(t) /\ m \in Nat /\ Len(t) \in Nat
      /\ \A i \in 1 .. m : r[i] = s[i]
      /\ \A i \in 1 .. Len(t) : r[m + i] = t[i]
  BY ConcatIs
<1> HIDE DEF r, m
<1>2. ASSUME NEW j \in 1 .. Len(r)
      PROVE  \/ j \in 1 .. m /\ r[j] = s[j]
             \/ j - m \in 1 .. Len(t) /\ r[j] = t[j - m] /\ j = m + (j - m)
  <2>1. CASE j <= m
    BY <2>1, <1>1
  <2>2. CASE ~(j <= m)
    <3>1. j - m \in 1 .. Len(t) /\ j = m + (j - m)
      BY <1>1, <2>2
    <3> QED  BY <1>1, <3>1
  <2> QED  BY <2>1, <2>2
<1>3. ASSUME NEW n \in Nodes  PROVE Holds(r, n) <=> Holds(s, n) \/ Holds(t, n)
  <2>1. ASSUME Holds(r, n)  PROVE Holds(s, n) \/ Holds(t, n)
    <3>1. PICK j \in 1 .. Len(r) : r[j] = n
      BY <2>1 DEF Holds
    <3> QED  BY <1>2, <3>1 DEF Holds, m
  <2>2. ASSUME Holds(s, n)  PROVE Holds(r, n)
    <3>1. PICK j \in 1 .. m : s[j] = n
      BY <2>2 DEF Holds, m
    <3>2. j \in 1 .. Len(r)
      BY <1>1
    <3> QED  BY <1>1, <3>1, <3>2 DEF Holds
  <2>3. ASSUME Holds(t, n)  PROVE Holds(r, n)
    <3>1. PICK j \in 1 .. Len(t) : t[j] = n
      BY <2>3 DEF Holds
    <3>2. m + j \in 1 .. Len(r)
      BY <1>1
    <3> QED  BY <1>1, <3>1, <3>2 DEF Holds
  <2> QED  BY <2>1, <2>2, <2>3
<1>4. ASSUME Inj(s), Inj(t), \A n \in Nodes : ~(Holds(s, n) /\ Holds(t, n))  PROVE Inj(r)
  <2> SUFFICES ASSUME NEW i \in 1 .. Len(r), NEW j \in 1 .. Len(r), r[i] = r[j]  PROVE i = j
    BY DEF Inj
  <2> DEFINE n == r[i]
  <2>0. n \in Nodes
    BY <1>1
  <2>1. CASE i \in 1 .. m /\ r[i] = s[i] /\ j \in 1 .. m /\ r[j] = s[j]
    BY <1>4, <2>1 DEF Inj, m
  <2>2. CASE i - m \in 1 .. Len(t) /\ r[i] = t[i - m] /\ i = m + (i - m)
             /\ j - m \in 1 .. Len(t) /\ r[j] = t[j - m] /\ j = m + (j - m)
    <3>1. i - m = j - m
      BY <1>4, <2>2 DEF Inj
    <3> QED  BY <2>2, <3>1
  <2>3. CASE i \in 1 .. m /\ r[i] = s[i] /\ j - m \in 1 .. Len(t) /\ r[j] = t[j - m]
    <3>1. Holds(s, n) /\ Holds(t, n)
      BY <2>3 DEF Holds, m
    <3> QED  BY <1>4, <2>0, <3>1
  <2>4. CASE i - m \in 1 .. Len(t) /\ r[i] = t[i - m] /\ j \in 1 .. m /\ r[j] = s[j]
    <3>1. Holds(s, n) /\ Holds(t, n)
      BY <2>4 DEF Holds, m
    <3> QED  BY <1>4, <2>0, <3>1
  <2> QED  BY <1>2, <2>1, <2>2, <2>3, <2>4
<1> QED  BY <1>3, <1>4 DEF r

\* A family placed whole.
LEMMA PlaceWhole ==
  ASSUME NEW p, NEW w, NEW c, Inputs(p, w, c), Roots(p), NEW fs, NEW bs, NEW cur,
         Good(p, w, c, fs, FALSE, bs, cur), fs # <<>>, FitsOneOf(p, w, c, Head(fs)),
         Len(cur) + Len(Head(fs)) <= MaxSymbols,
         cur # <<>> => TokensOf(p, w, c, cur) + (TokensOf(p, w, c, Head(fs)) - Overhead) <= MaxTokens
  PROVE  /\ Good(p, w, c, Tail(fs), FALSE, bs, cur \o Head(fs))
         /\ TokensOf(p, w, c, cur \o Head(fs)) = TokensOf(p, w, c, cur) + (TokensOf(p, w, c, Head(fs)) - Overhead)
<1> DEFINE f == Head(fs)
           t == Tail(fs)
           q == cur \o f
<1>1. Typed(fs, FALSE, bs, cur) /\ Shape(p, fs, FALSE) /\ Once(fs, bs, cur) /\ Fits(p, w, c, bs, cur) /\ Whole(p, w, c, fs, FALSE, bs, cur)
  BY DEF Good
<1>2. /\ Len(fs) \in Nat /\ Len(fs) > 0 /\ f = fs[1] /\ f \in Seq(Nodes)
      /\ t \in Seq(Seq(Nodes)) /\ Len(t) = Len(fs) - 1
      /\ \A i \in 1 .. Len(fs) - 1 : t[i] = fs[i + 1]
  BY <1>1, TailIs DEF Typed
<1>3. cur \in Seq(Nodes) /\ q \in Seq(Nodes) /\ Len(q) = Len(cur) + Len(f) /\ Len(cur) \in Nat /\ Len(f) \in Nat
  BY <1>1, <1>2, ConcatIs DEF Typed
<1> HIDE DEF f, t
<1>4. \A n \in Nodes : Holds(q, n) <=> Holds(cur, n) \/ Holds(f, n)
  BY <1>2, <1>3, InConcat
<1>5. ASSUME NEW k \in 1 .. Len(t)  PROVE k + 1 \in 1 .. Len(fs) /\ t[k] = fs[k + 1] /\ k + 1 # 1 /\ k + 1 > 1 /\ k \in Nat
  BY <1>2
<1>6. 1 \in 1 .. Len(fs)
  BY <1>2
<1>7. ASSUME NEW k \in 1 .. Len(fs)  PROVE k = 1 \/ (k - 1 \in 1 .. Len(t) /\ t[k - 1] = fs[k])
  BY <1>2
<1>8. \A n \in Nodes : Holds(f, n) => ~Holds(cur, n) /\ \A i \in 1 .. Len(bs) : ~Holds(bs[i], n)
  BY <1>1, <1>2, <1>6 DEF Once
<1>9. ASSUME NEW k \in 1 .. Len(t), NEW n \in Nodes, Holds(t[k], n)  PROVE ~Holds(f, n)
  BY <1>1, <1>2, <1>5, <1>6, <1>9 DEF Shape
<1>10. TokensOf(p, w, c, q) = TokensOf(p, w, c, cur) + (TokensOf(p, w, c, f) - Overhead)
  <2>1. ASSUME NEW i \in 1 .. Len(cur), NEW j \in 1 .. Len(f), cur[i] = p[f[j]]  PROVE FALSE
    <3>1. cur[i] \in Nodes /\ f[j] \in Nodes /\ Holds(cur, cur[i]) /\ Holds(f, f[j])
      BY <1>2, <1>3 DEF Holds
    <3>2. p[f[j]] # 0
      BY <2>1, <3>1 DEF Nodes
    <3>3. TopOf(p)[cur[i]] = TopOf(p)[f[j]]
      BY <2>1, <3>1, <3>2, TopIs
    <3>4. f = FamilyOf(p)[TopOf(p)[f[j]]]
      BY <1>1, <1>2, <1>6, <3>1 DEF Shape
    <3>5. TopOf(p)[f[j]] \in Nodes
      BY <3>1, TopIs
    <3>6. Holds(f, cur[i])
      BY <3>1, <3>3, <3>4, <3>5, FamilyIs
    <3> QED  BY <1>8, <3>1, <3>6
  <2>2. TokensOf(p, w, c, q) = TokensOf(p, w, c, cur) + TokensOf(p, w, c, f) - Overhead
    <3>1. \A i \in 1 .. Len(cur), j \in 1 .. Len(f) : cur[i] # p[f[j]]
      BY <2>1
    <3>2. cur \in Seq(Nodes) /\ f \in Seq(Nodes)
      BY <1>2, <1>3
    <3> QED  BY <3>1, <3>2, CostsAdd, Zenon
  <2>3. TokensOf(p, w, c, cur) \in Nat /\ TokensOf(p, w, c, f) \in Nat /\ Overhead \in Nat
    BY <1>2, <1>3, TokensFacts, PlanAssumption
  <2> HIDE DEF q
  <2> QED  BY <2>2, <2>3
<1>11. Inj(q)
  <2>1. Inj(cur) /\ Inj(f)
    BY <1>1, <1>2, <1>6 DEF Once, Shape
  <2> QED  BY <1>2, <1>3, <1>8, <2>1, InConcat
<1> HIDE DEF q
<1>12. Typed(t, FALSE, bs, q)
  BY <1>1, <1>2, <1>3 DEF Typed
<1>13. Shape(p, t, FALSE)
  <2>1. \A k \in 1 .. Len(t) : Len(t[k]) > 0 /\ Inj(t[k])
    BY <1>1, <1>5 DEF Shape
  <2>2. ASSUME NEW k \in 1 .. Len(t), NEW l \in 1 .. Len(t), NEW n \in Nodes, NEW m \in Nodes,
               Holds(t[k], n), Holds(t[l], m)
        PROVE  TopOf(p)[n] = TopOf(p)[m] <=> k = l
    <3>1. TopOf(p)[n] = TopOf(p)[m] <=> k + 1 = l + 1
      BY <1>1, <1>5, <2>2 DEF Shape
    <3>2. k \in Nat /\ l \in Nat
      BY <1>5
    <3>3. k + 1 = l + 1 <=> k = l
      BY <3>2
    <3> QED  BY <3>1, <3>3, Zenon
  <2>3. \A k \in 1 .. Len(t) : \A n \in Nodes : Holds(t[k], n) => t[k] = FamilyOf(p)[TopOf(p)[n]]
    BY <1>1, <1>5 DEF Shape
  <2> HIDE DEF Holds, Inj
  <2> QED  BY <2>1, <2>2, <2>3 DEF Shape
<1>14. Once(t, bs, q)
  <2>1. \A i \in 1 .. Len(bs) : \A n \in Nodes : Holds(bs[i], n) => ~Holds(q, n)
    BY <1>1, <1>4, <1>8 DEF Once
  <2>2. ASSUME NEW k \in 1 .. Len(t), NEW n \in Nodes, Holds(t[k], n)
        PROVE  ~Holds(q, n) /\ \A i \in 1 .. Len(bs) : ~Holds(bs[i], n)
    BY <1>1, <1>4, <1>5, <1>9, <2>2 DEF Once
  <2>3. ASSUME NEW n \in Nodes
        PROVE  Holds(q, n) \/ (\E i \in 1 .. Len(bs) : Holds(bs[i], n)) \/ (\E k \in 1 .. Len(t) : Holds(t[k], n))
    <3>1. CASE \E k \in 1 .. Len(fs) : Holds(fs[k], n)
      BY <1>2, <1>4, <1>7, <3>1
    <3>2. CASE ~\E k \in 1 .. Len(fs) : Holds(fs[k], n)
      BY <1>1, <1>4, <3>2 DEF Once
    <3> QED  BY <3>1, <3>2
  <2> HIDE DEF Holds, Inj
  <2> QED  BY <1>1, <1>11, <2>1, <2>2, <2>3 DEF Once
<1>15. Fits(p, w, c, bs, q)
  <2>1. Len(q) <= MaxSymbols
    BY <1>3 DEF f
  <2>2. TokensOf(p, w, c, q) <= MaxTokens
    <3>1. CASE cur = <<>>
      <4>1. TokensOf(p, w, c, cur) = Overhead
        BY <1>3, <3>1, TokensFacts
      <4>2. TokensOf(p, w, c, f) \in Nat /\ Overhead \in Nat /\ TokensOf(p, w, c, f) <= MaxTokens
        BY <1>2, TokensFacts, PlanAssumption DEF f, FitsOneOf
      <4> QED  BY <1>10, <4>1, <4>2
    <3>2. CASE cur # <<>>
      BY <1>10, <3>2 DEF f
    <3> QED  BY <3>1, <3>2
  <2> QED  BY <1>1, <2>1, <2>2 DEF Fits, Caps
<1>16. Whole(p, w, c, t, FALSE, bs, q)
  <2> SUFFICES ASSUME NEW h \in Nodes, p[h] = 0 /\ FitsOneOf(p, w, c, FamilyOf(p)[h])
               PROVE  \/ \E i \in 1 .. Len(bs) : AllIn(p, h, bs[i])
                      \/ AllIn(p, h, q)
                      \/ \E k \in 1 .. Len(t) : AllIn(p, h, t[k])
    BY DEF Whole
  <2>1. \/ \E i \in 1 .. Len(bs) : AllIn(p, h, bs[i])
        \/ AllIn(p, h, cur)
        \/ \E k \in 1 .. Len(fs) : AllIn(p, h, fs[k])
    BY <1>1 DEF Whole
  <2>2. CASE AllIn(p, h, cur) \/ AllIn(p, h, f)
    BY <1>4, <2>2 DEF AllIn
  <2>3. CASE \E k \in 1 .. Len(fs) : AllIn(p, h, fs[k])
    BY <1>2, <1>7, <2>2, <2>3
  <2> QED  BY <2>1, <2>2, <2>3
<1> QED  BY <1>10, <1>12, <1>13, <1>14, <1>15, <1>16 DEF Good, f, t, q


LEMMA InAppend ==
  ASSUME NEW s \in Seq(Nodes), NEW x \in Nodes
  PROVE  /\ \A n \in Nodes : Holds(Append(s, x), n) <=> Holds(s, n) \/ n = x
         /\ Inj(s) /\ ~Holds(s, x) => Inj(Append(s, x))
<1> DEFINE r == Append(s, x)
           m == Len(s)
<1>1. /\ r \in Seq(Nodes) /\ Len(r) = m + 1 /\ m \in Nat
      /\ \A i \in 1 .. m : r[i] = s[i]
      /\ r[m + 1] = x
  BY AppendIs
<1> HIDE DEF r, m
<1>2. /\ \A j \in 1 .. Len(r) : j \in 1 .. m \/ j = m + 1
      /\ \A j \in 1 .. m : j \in 1 .. Len(r)
      /\ m + 1 \in 1 .. Len(r)
  BY <1>1
<1>3. ASSUME NEW n \in Nodes  PROVE Holds(r, n) <=> Holds(s, n) \/ n = x
  <2>1. Holds(r, n) => Holds(s, n) \/ n = x
    BY <1>1, <1>2 DEF Holds, m
  <2>2. Holds(s, n) => Holds(r, n)
    BY <1>1, <1>2 DEF Holds, m
  <2>3. n = x => Holds(r, n)
    BY <1>1, <1>2 DEF Holds
  <2> QED  BY <2>1, <2>2, <2>3
<1>4. ASSUME Inj(s), ~Holds(s, x)  PROVE Inj(r)
  <2> SUFFICES ASSUME NEW i \in 1 .. Len(r), NEW j \in 1 .. Len(r), r[i] = r[j]  PROVE i = j
    BY DEF Inj
  <2>1. CASE i \in 1 .. m /\ j \in 1 .. m
    BY <1>1, <1>4, <2>1 DEF Inj, m
  <2>2. CASE i \in 1 .. m /\ j = m + 1
    BY <1>1, <1>4, <2>2 DEF Holds, m
  <2>3. CASE i = m + 1 /\ j \in 1 .. m
    BY <1>1, <1>4, <2>3 DEF Holds, m
  <2> QED  BY <1>2, <2>1, <2>2, <2>3
<1> QED  BY <1>3, <1>4 DEF r

LEMMA InTail ==
  ASSUME NEW s \in Seq(Nodes), s # <<>>, Inj(s)
  PROVE  /\ \A n \in Nodes : Holds(s, n) <=> n = Head(s) \/ Holds(Tail(s), n)
         /\ Inj(Tail(s)) /\ ~Holds(Tail(s), Head(s))
<1> DEFINE t == Tail(s)
<1>1. /\ Len(s) \in Nat /\ Len(s) > 0 /\ Head(s) = s[1]
      /\ Len(t) = Len(s) - 1 /\ \A i \in 1 .. Len(s) - 1 : t[i] = s[i + 1]
  BY TailIs
<1> HIDE DEF t
<1>2. ASSUME NEW i \in 1 .. Len(t)  PROVE i + 1 \in 1 .. Len(s) /\ t[i] = s[i + 1] /\ i + 1 # 1 /\ i \in Nat
  BY <1>1
<1>3. ASSUME NEW i \in 1 .. Len(s)  PROVE i = 1 \/ (i - 1 \in 1 .. Len(t) /\ t[i - 1] = s[i])
  BY <1>1
<1>4. 1 \in 1 .. Len(s)
  BY <1>1
<1>5. ASSUME NEW n \in Nodes  PROVE Holds(s, n) <=> n = Head(s) \/ Holds(t, n)
  <2>1. ASSUME Holds(s, n)  PROVE n = Head(s) \/ Holds(t, n)
    <3>1. PICK i \in 1 .. Len(s) : s[i] = n
      BY <2>1 DEF Holds
    <3> QED  BY <1>1, <1>3, <3>1 DEF Holds
  <2>2. Holds(t, n) => Holds(s, n)
    BY <1>2 DEF Holds
  <2>3. n = Head(s) => Holds(s, n)
    BY <1>1, <1>4 DEF Holds
  <2> QED  BY <2>1, <2>2, <2>3
<1>6. Inj(t)
  <2> SUFFICES ASSUME NEW i \in 1 .. Len(t), NEW j \in 1 .. Len(t), t[i] = t[j]  PROVE i = j
    BY DEF Inj
  <2>1. i + 1 = j + 1
    BY <1>2 DEF Inj
  <2> QED  BY <1>2, <2>1
<1>7. ~Holds(t, Head(s))
  <2> SUFFICES ASSUME NEW i \in 1 .. Len(t), t[i] = Head(s)  PROVE FALSE
    BY DEF Holds
  <2>1. s[i + 1] = s[1] /\ i + 1 \in 1 .. Len(s) /\ i + 1 # 1
    BY <1>1, <1>2
  <2> QED  BY <1>4, <2>1 DEF Inj
<1> QED  BY <1>5, <1>6, <1>7 DEF t

\* One member of a family too big for a call.
LEMMA PlaceOne ==
  ASSUME NEW p, NEW w, NEW c, Inputs(p, w, c), Roots(p), NEW fs, NEW hf, NEW bs, NEW cur,
         Good(p, w, c, fs, hf, bs, cur), fs # <<>>, hf \/ ~FitsOneOf(p, w, c, Head(fs)),
         Len(cur) < MaxSymbols,
         cur # <<>> => TokensOf(p, w, c, Append(cur, Head(Head(fs)))) <= MaxTokens
  PROVE  Good(p, w, c, IF Len(Head(fs)) = 1 THEN Tail(fs) ELSE <<Tail(Head(fs))>> \o Tail(fs),
              Len(Head(fs)) > 1, bs, Append(cur, Head(Head(fs))))
<1> DEFINE f == Head(fs)
           n == Head(f)
           e == Len(f) > 1
           g == IF Len(f) = 1 THEN Tail(fs) ELSE <<Tail(f)>> \o Tail(fs)
           K(k) == IF e THEN k ELSE k + 1
           q == Append(cur, n)
<1>1. Typed(fs, hf, bs, cur) /\ Shape(p, fs, hf) /\ Once(fs, bs, cur) /\ Fits(p, w, c, bs, cur) /\ Whole(p, w, c, fs, hf, bs, cur)
  BY DEF Good
<1>2. /\ Len(fs) \in Nat /\ Len(fs) > 0 /\ f = fs[1] /\ f \in Seq(Nodes)
      /\ Tail(fs) \in Seq(Seq(Nodes)) /\ Len(Tail(fs)) = Len(fs) - 1
      /\ \A i \in 1 .. Len(fs) - 1 : Tail(fs)[i] = fs[i + 1]
  BY <1>1, TailIs DEF Typed
<1>3. 1 \in 1 .. Len(fs) /\ Len(f) \in Nat /\ Len(f) > 0 /\ f # <<>> /\ Inj(f)
  <2>1. 1 \in 1 .. Len(fs)
    BY <1>2
  <2>2. Len(f) > 0 /\ Inj(f)
    BY <1>1, <1>2, <2>1 DEF Shape
  <2> HIDE DEF f
  <2>3. Len(f) \in Nat
    BY <1>2
  <2> QED  BY <2>1, <2>2, <2>3
<1> HIDE DEF f
<1>4. /\ n \in Nodes /\ n = f[1] /\ Tail(f) \in Seq(Nodes) /\ Len(Tail(f)) = Len(f) - 1
      /\ \A m \in Nodes : Holds(f, m) <=> m = n \/ Holds(Tail(f), m)
      /\ Inj(Tail(f)) /\ ~Holds(Tail(f), n)
  BY <1>2, <1>3, TailIs, InTail
<1>5. cur \in Seq(Nodes) /\ q \in Seq(Nodes) /\ Len(q) = Len(cur) + 1 /\ Len(cur) \in Nat
  BY <1>1, <1>4, AppendIs DEF Typed
<1>6. \A m \in Nodes : Holds(q, m) <=> Holds(cur, m) \/ m = n
  BY <1>4, <1>5, InAppend
<1>7. Holds(f, n)
  BY <1>4
<1>8. ~Holds(cur, n) /\ \A i \in 1 .. Len(bs) : ~Holds(bs[i], n)
  BY <1>1, <1>2, <1>3, <1>4, <1>7 DEF Once
<1>9. Inj(q)
  <2>1. Inj(cur)
    BY <1>1 DEF Once
  <2> QED  BY <1>4, <1>5, <1>8, <2>1, InAppend
<1> HIDE DEF n, q
<1>e. Len(f) # 1 => e
  <2> HIDE DEF g, K
  <2> QED  BY <1>3
<1>10. g \in Seq(Seq(Nodes)) /\ e \in BOOLEAN
  <2>1. CASE Len(f) = 1
    BY <1>2, <2>1
  <2>2. CASE Len(f) # 1
    <3>1. <<Tail(f)>> \o Tail(fs) \in Seq(Seq(Nodes))
      BY <1>1, <1>4, PutBackIs DEF Typed
    <3> QED  BY <2>2, <3>1
  <2> QED  BY <2>1, <2>2
\* What is left, family by family.
<1>11. ASSUME NEW k \in 1 .. Len(g)
       PROVE  /\ k \in Nat /\ K(k) \in 1 .. Len(fs)
              /\ \/ K(k) > 1 /\ g[k] = fs[K(k)]
                 \/ e /\ k = 1 /\ K(k) = 1 /\ g[k] = Tail(f)
              /\ K(k) > 1 <=> (k > 1 \/ ~e)
  <2>1. CASE Len(f) = 1
    <3>1. g = Tail(fs) /\ ~e
      BY <2>1
    <3> HIDE DEF g, e
    <3> QED  BY <1>2, <3>1
  <2>2. CASE Len(f) # 1
    <3>1. e
      BY <1>e, <2>2
    <3>2. /\ Len(g) = Len(fs) /\ g[1] = Tail(f)
          /\ \A i \in 2 .. Len(fs) : g[i] = fs[i]
      <4>1. fs \in Seq(Seq(Nodes))
        BY <1>1 DEF Typed
      <4> QED  BY <1>4, <2>2, <4>1, PutBackIs
    <3> HIDE DEF g, e
    <3> QED  BY <1>2, <3>1, <3>2
  <2> QED  BY <2>1, <2>2
<1>12. ASSUME NEW k \in 1 .. Len(fs)
       PROVE  \/ k > 1 /\ \E l \in 1 .. Len(g) : (l > 1 \/ ~e) /\ g[l] = fs[k]
              \/ k = 1 /\ ~e /\ Len(f) = 1
              \/ k = 1 /\ e /\ 1 \in 1 .. Len(g) /\ g[1] = Tail(f)
  <2>1. CASE Len(f) = 1
    <3>1. g = Tail(fs) /\ ~e
      BY <2>1
    <3> HIDE DEF g, e
    <3>2. CASE k = 1
      BY <2>1, <3>1, <3>2
    <3>3. CASE k # 1
      <4>1. k - 1 \in 1 .. Len(g) /\ g[k - 1] = fs[k] /\ k > 1
        BY <1>2, <3>1, <3>3
      <4> QED  BY <3>1, <4>1
    <3> QED  BY <3>2, <3>3
  <2>2. CASE Len(f) # 1
    <3>1. e
      BY <1>e, <2>2
    <3>2. /\ Len(g) = Len(fs) /\ g[1] = Tail(f)
          /\ \A i \in 2 .. Len(fs) : g[i] = fs[i]
      <4>1. fs \in Seq(Seq(Nodes))
        BY <1>1 DEF Typed
      <4> QED  BY <1>4, <2>2, <4>1, PutBackIs
    <3> HIDE DEF g, e
    <3> QED  BY <1>2, <3>1, <3>2
  <2> QED  BY <2>1, <2>2
<1> HIDE DEF g
<1>13. ASSUME NEW k \in 1 .. Len(g), NEW l \in 1 .. Len(g)  PROVE K(k) = K(l) <=> k = l
  <2>1. k \in Nat /\ l \in Nat
    BY <1>11
  <2> HIDE DEF e
  <2> QED  BY <2>1
<1>14. Len(f) = 1 => \A m \in Nodes : Holds(f, m) => m = n
  BY <1>2, <1>4 DEF Holds
<1>15. e => Len(Tail(f)) > 0
  BY <1>3, <1>4
<1> HIDE DEF e, K
<1>16. ASSUME NEW k \in 1 .. Len(g), NEW m \in Nodes, Holds(g[k], m)  PROVE Holds(fs[K(k)], m) /\ m # n
  <2>1. CASE K(k) > 1 /\ g[k] = fs[K(k)]
    <3>1. m = n => K(k) = 1
      BY <1>1, <1>2, <1>3, <1>7, <1>11, <1>16, <2>1 DEF Shape
    <3> QED  BY <1>16, <2>1, <3>1
  <2>2. CASE K(k) = 1 /\ g[k] = Tail(f)
    BY <1>2, <1>4, <1>16, <2>2
  <2> QED  BY <1>11, <2>1, <2>2
<1>17. ASSUME NEW k \in 1 .. Len(fs), NEW m \in Nodes, Holds(fs[k], m)
       PROVE  m = n \/ \E l \in 1 .. Len(g) : Holds(g[l], m)
  BY <1>2, <1>4, <1>12, <1>14, <1>17
<1>18. Typed(g, e, bs, q)
  BY <1>1, <1>5, <1>10 DEF Typed
<1>19. Shape(p, g, e)
  <2>1. e => g # <<>>
    <3>1. e => 1 \in 1 .. Len(g)
      BY <1>3, <1>12 DEF e
    <3>2. Len(<<>>) = 0
      OBVIOUS
    <3> QED  BY <3>1, <3>2
  <2>2. ASSUME NEW k \in 1 .. Len(g)  PROVE Len(g[k]) > 0 /\ Inj(g[k])
    <3>1. CASE K(k) > 1 /\ g[k] = fs[K(k)]
      BY <1>1, <1>11, <3>1 DEF Shape
    <3>2. CASE e /\ g[k] = Tail(f)
      BY <1>4, <1>15, <3>2
    <3> QED  BY <1>11, <3>1, <3>2
  <2>3. ASSUME NEW k \in 1 .. Len(g), NEW l \in 1 .. Len(g), NEW u \in Nodes, NEW m \in Nodes,
               Holds(g[k], u), Holds(g[l], m)
        PROVE  TopOf(p)[u] = TopOf(p)[m] <=> k = l
    <3>1. Holds(fs[K(k)], u) /\ Holds(fs[K(l)], m) /\ K(k) \in 1 .. Len(fs) /\ K(l) \in 1 .. Len(fs)
      BY <1>11, <1>16, <2>3
    <3>2. TopOf(p)[u] = TopOf(p)[m] <=> K(k) = K(l)
      BY <1>1, <3>1 DEF Shape
    <3> QED  BY <1>13, <3>2
  <2>4. ASSUME NEW k \in 1 .. Len(g), k > 1 \/ ~e, NEW m \in Nodes, Holds(g[k], m)
        PROVE  g[k] = FamilyOf(p)[TopOf(p)[m]]
    <3>1. K(k) > 1 /\ g[k] = fs[K(k)] /\ K(k) \in 1 .. Len(fs)
      BY <1>11, <2>4
    <3> QED  BY <1>1, <2>4, <3>1 DEF Shape
  <2> HIDE DEF Holds, Inj
  <2> QED  BY <2>1, <2>2, <2>3, <2>4 DEF Shape
<1>20. Once(g, bs, q)
  <2>1. \A i \in 1 .. Len(bs) : \A m \in Nodes : Holds(bs[i], m) => ~Holds(q, m)
    BY <1>1, <1>6, <1>8 DEF Once
  <2>2. ASSUME NEW k \in 1 .. Len(g), NEW m \in Nodes, Holds(g[k], m)
        PROVE  ~Holds(q, m) /\ \A i \in 1 .. Len(bs) : ~Holds(bs[i], m)
    BY <1>1, <1>6, <1>11, <1>16, <2>2 DEF Once
  <2>3. ASSUME NEW m \in Nodes
        PROVE  Holds(q, m) \/ (\E i \in 1 .. Len(bs) : Holds(bs[i], m)) \/ (\E k \in 1 .. Len(g) : Holds(g[k], m))
    <3>1. CASE \E k \in 1 .. Len(fs) : Holds(fs[k], m)
      BY <1>6, <1>17, <3>1
    <3>2. CASE ~\E k \in 1 .. Len(fs) : Holds(fs[k], m)
      BY <1>1, <1>6, <3>2 DEF Once
    <3> QED  BY <3>1, <3>2
  <2> HIDE DEF Holds, Inj
  <2> QED  BY <1>1, <1>9, <2>1, <2>2, <2>3 DEF Once
<1>21. Fits(p, w, c, bs, q)
  <2>1. Len(q) <= MaxSymbols
    BY <1>5, PlanAssumption
  <2>2. Len(q) > 1 => TokensOf(p, w, c, q) <= MaxTokens
    <3>1. Len(q) > 1 => cur # <<>>
      BY <1>5
    <3> QED  BY <3>1 DEF q, n, f
  <2> QED  BY <1>1, <2>1, <2>2 DEF Fits, Caps
<1>22. Whole(p, w, c, g, e, bs, q)
  <2> SUFFICES ASSUME NEW h \in Nodes, p[h] = 0 /\ FitsOneOf(p, w, c, FamilyOf(p)[h])
               PROVE  \/ \E i \in 1 .. Len(bs) : AllIn(p, h, bs[i])
                      \/ AllIn(p, h, q)
                      \/ \E k \in 1 .. Len(g) : (k > 1 \/ ~e) /\ AllIn(p, h, g[k])
    BY DEF Whole
  <2>1. \/ \E i \in 1 .. Len(bs) : AllIn(p, h, bs[i])
        \/ AllIn(p, h, cur)
        \/ \E k \in 1 .. Len(fs) : (k > 1 \/ ~hf) /\ AllIn(p, h, fs[k])
    BY <1>1 DEF Whole
  <2>2. CASE AllIn(p, h, cur)
    BY <1>6, <2>2 DEF AllIn
  <2>3. ASSUME NEW k \in 1 .. Len(fs), k > 1 \/ ~hf, AllIn(p, h, fs[k])
        PROVE  \E l \in 1 .. Len(g) : (l > 1 \/ ~e) /\ AllIn(p, h, g[l])
    <3>1. CASE k > 1
      BY <1>12, <2>3, <3>1
    <3>2. CASE k = 1 /\ ~hf
      <4>1. TopOf(p)[h] = h
        BY TopIs
      <4>2. Holds(fs[k], h)
        BY <2>3, <4>1 DEF AllIn
      <4>3. f = FamilyOf(p)[h]
        BY <1>1, <1>2, <3>2, <4>1, <4>2 DEF Shape
      <4> QED  BY <3>2, <4>3 DEF f
    <3>3. k > 1 \/ k = 1
      BY <1>2
    <3> QED  BY <2>3, <3>1, <3>2, <3>3
  <2> QED  BY <2>1, <2>2, <2>3
<1> QED  BY <1>18, <1>19, <1>20, <1>21, <1>22 DEF Good, f, g, e, q, n


PlanInv ==
    /\ PlanTypeOK
    /\ Roots(parent)
    /\ Good(parent, inWindow, cost, families, half, batches, current)
    /\ EstimateExact

LEMMA FamiliesAre == Top = TopOf(parent) /\ Family = FamilyOf(parent)
BY DEF Top, Up, TopOf, UpOf, Family, FamilyOf

\* The families, in the order of their first symbols, hold every symbol.
LEMMA HeadsAre ==
  ASSUME NEW p, p \in [Nodes -> 0 .. N], Roots(p), parent = p
  PROVE  /\ HeadsInOrder \in Seq(Seq(Nodes))
         /\ Shape(p, HeadsInOrder, FALSE)
         /\ \A n \in Nodes : \E k \in 1 .. Len(HeadsInOrder) :
              Holds(HeadsInOrder[k], n) /\ AllIn(p, TopOf(p)[n], HeadsInOrder[k])
<1> DEFINE F == {n \in Nodes : \A m \in 1 .. n - 1 : TopOf(p)[m] # TopOf(p)[n]}
           s == Sorted[F]
           hs == [i \in 1 .. Cardinality(F) |-> FamilyOf(p)[TopOf(p)[s[i]]]]
<1>1. HeadsInOrder = hs
  BY FamiliesAre DEF HeadsInOrder, Firsts
<1>2. F \in SUBSET Nodes
  OBVIOUS
<1>3. /\ s \in Seq(Nodes) /\ Len(s) = Cardinality(F) /\ Len(s) \in Nat
      /\ \A i \in 1 .. Len(s) : s[i] \in F
      /\ \A i, j \in 1 .. Len(s) : s[i] = s[j] => i = j
      /\ \A x \in F : \E i \in 1 .. Len(s) : s[i] = x
  <2> HIDE DEF F
  <2> QED  BY <1>2, SortedIs
<1> HIDE DEF s
<1>4. \A k \in 1 .. Len(s) : hs[k] = FamilyOf(p)[TopOf(p)[s[k]]]
  BY <1>3
<1>5. ASSUME NEW k \in 1 .. Len(s)  PROVE s[k] \in Nodes /\ TopOf(p)[s[k]] \in Nodes
  BY <1>2, <1>3, TopIs
<1>6. hs \in Seq(Seq(Nodes)) /\ Len(hs) = Len(s)
  <2>1. \A k \in 1 .. Len(s) : FamilyOf(p)[TopOf(p)[s[k]]] \in Seq(Nodes)
    BY <1>5, FamilyIs
  <2>2. hs \in [1 .. Len(s) -> Seq(Nodes)]
    <3> HIDE DEF F
    <3> QED  BY <1>3, <2>1
  <2> HIDE DEF hs
  <2>3. Len(s) \in Nat
    BY <1>3
  <2> QED  BY <2>2, <2>3, FunctionIsSeq
<1>7. ASSUME NEW k \in 1 .. Len(s), NEW n \in Nodes  PROVE Holds(hs[k], n) <=> TopOf(p)[n] = TopOf(p)[s[k]]
  BY <1>4, <1>5, FamilyIs, ZenonT(40)
<1> HIDE DEF hs
<1>8. ASSUME NEW n \in Nodes  PROVE \E x \in F : TopOf(p)[x] = TopOf(p)[n]
  <2> DEFINE T == {x \in Nodes : TopOf(p)[x] = TopOf(p)[n]}
  <2>1. T \subseteq Nat /\ n \in T
    BY PlanAssumption DEF Nodes
  <2>2. PICK x \in T : \A y \in T : x <= y
    <3> HIDE DEF T
    <3> QED  BY <2>1, LeastNumber
  <2>3. x \in Nodes /\ TopOf(p)[x] = TopOf(p)[n]
    OBVIOUS
  <2>4. ASSUME NEW m \in 1 .. x - 1, TopOf(p)[m] = TopOf(p)[x]  PROVE FALSE
    <3>1. m \in Nodes /\ ~(x <= m)
      BY <2>3, PlanAssumption DEF Nodes
    <3>2. m \in T
      BY <2>3, <2>4, <3>1
    <3> QED  BY <2>2, <3>1, <3>2
  <2>5. x \in F
    BY <2>3, <2>4
  <2> QED  BY <2>3, <2>5
<1>9. ASSUME NEW x \in F, NEW y \in F, TopOf(p)[x] = TopOf(p)[y]  PROVE x = y
  <2>1. x \in Nat /\ y \in Nat /\ x >= 1 /\ y >= 1
    BY PlanAssumption DEF Nodes
  <2>2. ~(x < y)
    <3>1. x < y => x \in 1 .. y - 1
      BY <2>1
    <3> QED  BY <1>9, <3>1
  <2>3. ~(y < x)
    <3>1. y < x => y \in 1 .. x - 1
      BY <2>1
    <3> QED  BY <1>9, <3>1
  <2> QED  BY <2>1, <2>2, <2>3
<1> HIDE DEF F
<1>10. Shape(p, hs, FALSE)
  <2>1. ASSUME NEW k \in 1 .. Len(hs)  PROVE Len(hs[k]) > 0 /\ Inj(hs[k])
    <3>1. hs[k] = FamilyOf(p)[TopOf(p)[s[k]]] /\ k \in 1 .. Len(s)
      BY <1>4, <1>6
    <3>2. hs[k] \in Seq(Nodes) /\ Inj(hs[k])
      BY <1>5, <3>1, FamilyIs
    <3>3. Holds(hs[k], s[k])
      BY <1>5, <1>7, <3>1
    <3>4. Len(hs[k]) > 0
      BY <3>2, <3>3 DEF Holds
    <3> QED  BY <3>2, <3>4
  <2>2. ASSUME NEW k \in 1 .. Len(hs), NEW l \in 1 .. Len(hs), NEW n \in Nodes, NEW m \in Nodes,
               Holds(hs[k], n), Holds(hs[l], m)
        PROVE  TopOf(p)[n] = TopOf(p)[m] <=> k = l
    <3>1. k \in 1 .. Len(s) /\ l \in 1 .. Len(s)
      BY <1>6
    <3>2. TopOf(p)[n] = TopOf(p)[s[k]] /\ TopOf(p)[m] = TopOf(p)[s[l]] /\ s[k] \in F /\ s[l] \in F
      BY <1>3, <1>7, <2>2, <3>1
    <3>3. TopOf(p)[s[k]] = TopOf(p)[s[l]] => s[k] = s[l]
      BY <1>9, <3>2
    <3>4. s[k] = s[l] => k = l
      BY <1>3, <3>1
    <3> QED  BY <3>2, <3>3, <3>4
  <2>3. \A k \in 1 .. Len(hs) : \A n \in Nodes : Holds(hs[k], n) => hs[k] = FamilyOf(p)[TopOf(p)[n]]
    BY <1>4, <1>6, <1>7
  <2> HIDE DEF Holds, Inj
  <2> QED  BY <2>1, <2>2, <2>3 DEF Shape
<1>11. ASSUME NEW n \in Nodes
       PROVE  \E k \in 1 .. Len(hs) : Holds(hs[k], n) /\ AllIn(p, TopOf(p)[n], hs[k])
  <2>1. PICK x \in F : TopOf(p)[x] = TopOf(p)[n]
    BY <1>8
  <2>2. PICK k \in 1 .. Len(s) : s[k] = x
    BY <1>3
  <2>3. \A m \in Nodes : Holds(hs[k], m) <=> TopOf(p)[m] = TopOf(p)[n]
    BY <1>7, <2>1, <2>2
  <2>4. k \in 1 .. Len(hs)
    BY <1>6
  <2> QED  BY <2>3, <2>4 DEF AllIn
<1> QED  BY <1>1, <1>6, <1>10, <1>11

LEMMA PlanStart == PlanInit => PlanInv
<1> SUFFICES ASSUME PlanInit  PROVE PlanInv
  OBVIOUS
<1>1. /\ parent \in [Nodes -> 0 .. N] /\ Nested(parent)
      /\ inWindow \in [Nodes -> BOOLEAN] /\ cost \in [Nodes -> Costs]
      /\ families = HeadsInOrder /\ half = FALSE
      /\ batches = <<>> /\ current = <<>> /\ currentTokens = Overhead
  BY DEF PlanInit
<1>2. Roots(parent)
  BY <1>1 DEF Roots, Nested, Nodes
<1>3. /\ HeadsInOrder \in Seq(Seq(Nodes))
      /\ Shape(parent, HeadsInOrder, FALSE)
      /\ \A n \in Nodes : \E k \in 1 .. Len(HeadsInOrder) :
           Holds(HeadsInOrder[k], n) /\ AllIn(parent, TopOf(parent)[n], HeadsInOrder[k])
  BY <1>1, <1>2, HeadsAre
<1>4. <<>> \in Seq(Nodes) /\ <<>> \in Seq(Seq(Nodes)) /\ Len(<<>>) = 0 /\ \A n : ~Holds(<<>>, n)
  BY DEF Holds
<1>5. Typed(families, half, batches, current)
  BY <1>1, <1>3, <1>4 DEF Typed
<1>6. Once(families, batches, current)
  <2>1. Inj(<<>>)
    BY DEF Inj
  <2>2. \A n \in Nodes : \E k \in 1 .. Len(families) : Holds(families[k], n)
    BY <1>1, <1>3
  <2>3. \A i \in 1 .. Len(batches) : FALSE
    BY <1>1, <1>4
  <2> HIDE DEF Holds, Inj
  <2> QED  BY <1>1, <1>4, <2>1, <2>2, <2>3 DEF Once
<1>7. Inputs(parent, inWindow, cost)
  BY <1>1 DEF Inputs
<1>8. Fits(parent, inWindow, cost, batches, current)
  BY <1>1, <1>4, PlanAssumption DEF Fits, Caps
<1>9. Whole(parent, inWindow, cost, families, half, batches, current)
  <2> SUFFICES ASSUME NEW h \in Nodes, parent[h] = 0
               PROVE  \E k \in 1 .. Len(families) : ~half /\ AllIn(parent, h, families[k])
    BY DEF Whole
  <2>1. TopOf(parent)[h] = h
    BY <1>2, TopIs
  <2> QED  BY <1>1, <1>3, <2>1
<1>10. EstimateExact
  BY <1>1, <1>4, <1>7, TokensAre, TokensFacts DEF EstimateExact
<1>11. PlanTypeOK
  BY <1>1, <1>3, <1>4, PlanAssumption DEF PlanTypeOK
<1> QED  BY <1>1, <1>2, <1>3, <1>5, <1>6, <1>8, <1>9, <1>10, <1>11 DEF PlanInv, Good


\* Asked to or not, a flush leaves a good plan and the estimate of the call open.
LEMMA Flushing ==
  ASSUME PlanInv, NEW yes \in BOOLEAN
  PROVE  /\ Good(parent, inWindow, cost, families, half, Flushed(yes).batches, Flushed(yes).current)
         /\ Flushed(yes).tokens = TokensOf(parent, inWindow, cost, Flushed(yes).current)
         /\ Flushed(yes).current = <<>> \/ (~yes /\ Flushed(yes).current = current)
<1> DEFINE f == Flushed(yes)
<1>1. /\ Good(parent, inWindow, cost, families, half, batches, current)
      /\ Inputs(parent, inWindow, cost)
      /\ currentTokens = TokensOf(parent, inWindow, cost, current)
  BY TokensAre DEF PlanInv, PlanTypeOK, Inputs, EstimateExact
<1>2. CASE yes /\ current # <<>>
  <2>1. f.batches = Append(batches, current) /\ f.current = <<>> /\ f.tokens = Overhead
    BY <1>2 DEF Flushed
  <2>2. Good(parent, inWindow, cost, families, half, Append(batches, current), <<>>)
    BY <1>1, FlushGood
  <2>3. TokensOf(parent, inWindow, cost, <<>>) = Overhead
    <3>1. <<>> \in Seq(Nodes) /\ Len(<<>>) = 0
      OBVIOUS
    <3> QED  BY <1>1, <3>1, TokensFacts
  <2> HIDE DEF f
  <2> QED  BY <2>1, <2>2, <2>3 DEF f
<1>3. CASE ~(yes /\ current # <<>>)
  <2>1. f.batches = batches /\ f.current = current /\ f.tokens = currentTokens
    BY <1>3 DEF Flushed
  <2> HIDE DEF f
  <2> QED  BY <1>1, <1>3, <2>1 DEF f
<1> QED  BY <1>2, <1>3

LEMMA PlanStep ==
  ASSUME PlanInv, [PlanNext]_planVars
  PROVE  PlanInv'
<1>1. /\ parent \in [Nodes -> 0 .. N] /\ inWindow \in [Nodes -> BOOLEAN] /\ cost \in [Nodes -> Costs]
      /\ Inputs(parent, inWindow, cost) /\ Roots(parent)
      /\ Good(parent, inWindow, cost, families, half, batches, current)
  BY DEF PlanInv, PlanTypeOK, Inputs
<1>2. Typed(families, half, batches, current)
  BY <1>1 DEF Good
<1>3. SUFFICES
        /\ UNCHANGED <<parent, inWindow, cost>>
        /\ Good(parent, inWindow, cost, families', half', batches', current')
        /\ currentTokens' = TokensOf(parent, inWindow, cost, current')
  <2> SUFFICES ASSUME /\ UNCHANGED <<parent, inWindow, cost>>
                      /\ Good(parent, inWindow, cost, families', half', batches', current')
                      /\ currentTokens' = TokensOf(parent, inWindow, cost, current')
               PROVE  PlanInv'
    OBVIOUS
  <2>1. Typed(families', half', batches', current')
    BY DEF Good
  <2>2. currentTokens' \in Nat
    BY <1>1, <2>1, TokensFacts DEF Typed
  <2>3. PlanTypeOK'
    BY <1>1, <2>1, <2>2 DEF PlanTypeOK, Typed
  <2>4. EstimateExact'
    <3>1. Tokens(current)' = TokensOf(parent, inWindow, cost, current')
      BY TokensOfCurrent
    <3> QED  BY <3>1 DEF EstimateExact
  <2>5. Roots(parent')
    BY <1>1
  <2> QED  BY <2>3, <2>4, <2>5 DEF PlanInv
<1>4. CASE PlaceFamily
  <2> DEFINE family == Head(families)
             more == Tokens(family) - Overhead
             yes == \/ Len(current) + Len(family) > MaxSymbols
                    \/ current # <<>> /\ currentTokens + more > MaxTokens
             f == Flushed(yes)
  <2>1. /\ families # <<>> /\ half = FALSE /\ FitsOne(family)
        /\ batches' = f.batches /\ current' = f.current \o family
        /\ currentTokens' = f.tokens + more
        /\ families' = Tail(families)
        /\ UNCHANGED <<parent, inWindow, cost, half>>
    BY <1>2, <1>4 DEF PlaceFamily, Typed
  <2> HIDE DEF f, yes, family, more
  <2>2. /\ Good(parent, inWindow, cost, families, half, f.batches, f.current)
        /\ f.tokens = TokensOf(parent, inWindow, cost, f.current)
        /\ f.current = <<>> \/ (~yes /\ f.current = current)
    <3>1. yes \in BOOLEAN
      BY DEF yes
    <3> QED  BY <3>1, Flushing DEF f
  <2>3. FitsOneOf(parent, inWindow, cost, family) /\ more = TokensOf(parent, inWindow, cost, family) - Overhead
    BY <2>1, TokensAre DEF FitsOne, FitsOneOf, more
  <2>4. family \in Seq(Nodes)
    BY <1>2, <2>1, TailIs DEF Typed, family
  <2>5. /\ Len(f.current) + Len(family) <= MaxSymbols
        /\ f.current # <<>> => TokensOf(parent, inWindow, cost, f.current) + (TokensOf(parent, inWindow, cost, family) - Overhead) <= MaxTokens
    <3>1. CASE f.current = <<>>
      <4>1. Len(<<>>) = 0
        OBVIOUS
      <4>2. Len(family) <= MaxSymbols /\ Len(family) \in Nat
        BY <2>3, <2>4 DEF FitsOneOf
      <4> QED  BY <3>1, <4>1, <4>2
    <3>2. CASE ~yes /\ f.current = current
      <4>1. /\ Len(current) \in Nat /\ Len(family) \in Nat /\ MaxSymbols \in Nat /\ MaxTokens \in Nat /\ Overhead \in Nat
            /\ currentTokens \in Nat /\ TokensOf(parent, inWindow, cost, family) \in Nat
        BY <1>1, <1>2, <2>4, TokensFacts, PlanAssumption DEF Typed, PlanInv, PlanTypeOK
      <4>2. currentTokens = TokensOf(parent, inWindow, cost, current)
        BY TokensAre DEF PlanInv, EstimateExact
      <4> QED  BY <2>3, <3>2, <4>1, <4>2 DEF yes
    <3> QED  BY <2>2, <3>1, <3>2
  <2>6. /\ Good(parent, inWindow, cost, Tail(families), FALSE, f.batches, f.current \o family)
        /\ TokensOf(parent, inWindow, cost, f.current \o family)
             = TokensOf(parent, inWindow, cost, f.current) + (TokensOf(parent, inWindow, cost, family) - Overhead)
    <3>1. Good(parent, inWindow, cost, families, FALSE, f.batches, f.current)
      BY <2>1, <2>2
    <3> QED  BY <1>1, <2>1, <2>3, <2>5, <3>1, PlaceWhole DEF family
  <2> QED  BY <2>1, <2>2, <2>3, <2>6
<1>5. CASE PlaceMember
  <2> DEFINE family == Head(families)
             n == Head(family)
             yes == \/ Len(current) >= MaxSymbols
                    \/ current # <<>> /\ Tokens(Append(current, n)) > MaxTokens
             f == Flushed(yes)
  <2>1. /\ families # <<>> /\ (half \/ ~FitsOne(family))
        /\ batches' = f.batches /\ current' = Append(f.current, n)
        /\ currentTokens' = Tokens(Append(f.current, n))
        /\ families' = IF Len(family) = 1 THEN Tail(families) ELSE <<Tail(family)>> \o Tail(families)
        /\ half' = (Len(family) > 1)
        /\ UNCHANGED <<parent, inWindow, cost>>
    BY <1>5 DEF PlaceMember
  <2> HIDE DEF f, yes, family, n
  <2>2. /\ Good(parent, inWindow, cost, families, half, f.batches, f.current)
        /\ f.current = <<>> \/ (~yes /\ f.current = current)
    <3>1. yes \in BOOLEAN
      BY DEF yes
    <3> QED  BY <3>1, Flushing DEF f
  <2>3. half \/ ~FitsOneOf(parent, inWindow, cost, family)
    BY <2>1, TokensAre DEF FitsOne, FitsOneOf
  <2>4. family \in Seq(Nodes) /\ family # <<>>
    <3>1. 1 \in 1 .. Len(families) /\ family = families[1] /\ family \in Seq(Nodes)
      BY <1>2, <2>1, TailIs DEF Typed, family
    <3>2. Len(family) > 0
      BY <1>1, <3>1 DEF Good, Shape
    <3> QED  BY <3>1, <3>2
  <2>5. n \in Nodes
    BY <2>4, TailIs DEF n
  <2>6. /\ Len(f.current) < MaxSymbols
        /\ f.current # <<>> => TokensOf(parent, inWindow, cost, Append(f.current, n)) <= MaxTokens
    <3>1. CASE f.current = <<>>
      <4>1. Len(<<>>) = 0 /\ MaxSymbols \in Nat /\ MaxSymbols # 0
        BY PlanAssumption
      <4> QED  BY <3>1, <4>1
    <3>2. CASE ~yes /\ f.current = current
      <4>1. Append(current, n) \in Seq(Nodes) /\ Len(current) \in Nat
        BY <1>2, <2>5, AppendIs DEF Typed
      <4>2. MaxSymbols \in Nat /\ MaxTokens \in Nat /\ TokensOf(parent, inWindow, cost, Append(current, n)) \in Nat
        BY <1>1, <4>1, TokensFacts, PlanAssumption
      <4>3. Tokens(Append(current, n)) = TokensOf(parent, inWindow, cost, Append(current, n))
        BY TokensAre
      <4> HIDE DEF n
      <4> QED  BY <3>2, <4>1, <4>2, <4>3 DEF yes
    <3> QED  BY <2>2, <3>1, <3>2
  <2>7. Good(parent, inWindow, cost, IF Len(family) = 1 THEN Tail(families) ELSE <<Tail(family)>> \o Tail(families),
             Len(family) > 1, f.batches, Append(f.current, n))
    BY <1>1, <2>1, <2>2, <2>3, <2>6, PlaceOne DEF family, n
  <2> QED  BY <2>1, <2>7, TokensAre
<1>6. CASE Flush
  <2>1. /\ batches' = Append(batches, current) /\ current' = <<>> /\ currentTokens' = Overhead
        /\ UNCHANGED <<parent, inWindow, cost, families, half>>
    BY <1>6 DEF Flush
  <2>2. Good(parent, inWindow, cost, families, half, Append(batches, current), <<>>)
    BY <1>1, FlushGood
  <2>3. <<>> \in Seq(Nodes) /\ Len(<<>>) = 0
    OBVIOUS
  <2>4. TokensOf(parent, inWindow, cost, <<>>) = Overhead
    BY <1>1, <2>3, TokensFacts
  <2> QED  BY <2>1, <2>2, <2>4
<1>7. CASE UNCHANGED planVars
  <2>1. currentTokens = TokensOf(parent, inWindow, cost, current)
    BY TokensAre DEF PlanInv, EstimateExact
  <2> QED  BY <1>1, <1>7, <2>1 DEF planVars
<1> QED  BY <1>4, <1>5, <1>6, <1>7 DEF PlanNext

PlanKept == EachOnce /\ WithinCaps /\ EstimateExact /\ FamiliesWhole

LEMMA PlanInvKept ==
  ASSUME PlanInv
  PROVE  PlanKept
<1>1. /\ Typed(families, half, batches, current) /\ Once(families, batches, current)
      /\ Fits(parent, inWindow, cost, batches, current)
      /\ Whole(parent, inWindow, cost, families, half, batches, current)
  BY DEF PlanInv, Good
<1>2. Len(<<>>) = 0
  OBVIOUS
<1>3. /\ \A i \in 1 .. Len(batches) : Inj(batches[i])
      /\ \A i, j \in 1 .. Len(batches) : \A n \in Nodes :
           Holds(batches[i], n) /\ Holds(batches[j], n) => i = j
  BY <1>1 DEF Once
<1>4. EachOnce
  <2> SUFFICES ASSUME Planned, NEW n \in Nodes
               PROVE  \E s \in Slots : \A q \in Slots : batches[q[1]][q[2]] = n <=> q = s
    BY DEF EachOnce
  <2>1. PICK i \in 1 .. Len(batches) : Holds(batches[i], n)
    <3>1. Len(families) = 0 /\ ~Holds(current, n)
      BY <1>2 DEF Planned, Holds
    <3> QED  BY <1>1, <3>1 DEF Once
  <2>2. PICK j \in 1 .. Len(batches[i]) : batches[i][j] = n
    BY <2>1 DEF Holds
  <2>3. <<i, j>> \in Slots
    BY DEF Slots
  <2>4. ASSUME NEW q \in Slots, batches[q[1]][q[2]] = n  PROVE q = <<i, j>>
    <3>1. PICK k \in 1 .. Len(batches) : q \in {<<k, l>> : l \in 1 .. Len(batches[k])}
      BY DEF Slots
    <3>2. PICK l \in 1 .. Len(batches[k]) : q = <<k, l>>
      BY <3>1
    <3>3. batches[k][l] = n
      BY <2>4, <3>2
    <3>4. k = i
      <4>1. Holds(batches[k], n)
        BY <3>3 DEF Holds
      <4> QED  BY <1>3, <2>1, <4>1
    <3>5. l = j
      BY <1>3, <2>2, <3>3, <3>4 DEF Inj
    <3> QED  BY <3>2, <3>4, <3>5
  <2> QED  BY <2>2, <2>3, <2>4
<1>5. WithinCaps
  BY <1>1, TokensAre DEF WithinCaps, Fits, Caps
<1>6. FamiliesWhole
  <2> SUFFICES ASSUME Planned, NEW h \in Nodes, parent[h] = 0, FitsOne(Family[h])
               PROVE  \E i \in 1 .. Len(batches) : \A n \in Nodes : Top[n] = h =>
                        \E j \in 1 .. Len(batches[i]) : batches[i][j] = n
    BY DEF FamiliesWhole
  <2>1. FitsOneOf(parent, inWindow, cost, FamilyOf(parent)[h])
    BY TokensAre, FamiliesAre DEF FitsOne, FitsOneOf
  <2>2. Len(families) = 0 /\ ~Holds(current, h)
    BY <1>2 DEF Planned, Holds
  <2>3. ~AllIn(parent, h, current)
    BY <2>2, TopIs DEF AllIn, PlanInv
  <2>4. PICK i \in 1 .. Len(batches) : AllIn(parent, h, batches[i])
    BY <1>1, <2>1, <2>2, <2>3 DEF Whole
  <2> QED  BY <2>4, FamiliesAre DEF AllIn, Holds
<1> QED  BY <1>4, <1>5, <1>6 DEF PlanInv, PlanKept

\* Whatever the symbols, their nesting and their costs, a plan that is made has
\* every symbol in one call, once; no call breaks a cap but for one symbol that
\* does; the running estimate is the price of what will be rendered; and a
\* family that fits one call is in one.
THEOREM PlanKeepsSymbols == PlanSpec => [](PlanTypeOK /\ PlanKept)
<1>1. PlanInit => PlanInv
  BY PlanStart
<1>2. PlanInv /\ [PlanNext]_planVars => PlanInv'
  BY PlanStep
<1>3. PlanInv => PlanTypeOK /\ PlanKept
  BY PlanInvKept DEF PlanInv
<1> QED  BY <1>1, <1>2, <1>3, PTL DEF PlanSpec

\* No call is empty: only a call with symbols in it is closed.
NoneEmpty == \A i \in 1 .. Len(batches) : batches[i] # <<>>

LEMMA NoneEmptyStep ==
  ASSUME PlanTypeOK, NoneEmpty, [PlanNext]_planVars
  PROVE  NoneEmpty'
<1>1. batches \in Seq(Seq(Nodes)) /\ current \in Seq(Nodes) /\ Len(batches) \in Nat
  BY DEF PlanTypeOK
<1>2. batches' = batches \/ (current # <<>> /\ batches' = Append(batches, current))
  <2>1. ASSUME NEW yes  PROVE Flushed(yes).batches = batches \/ (current # <<>> /\ Flushed(yes).batches = Append(batches, current))
    BY DEF Flushed
  <2>2. ASSUME NEW yes, batches' = Flushed(yes).batches
        PROVE  batches' = batches \/ (current # <<>> /\ batches' = Append(batches, current))
    BY <2>1, <2>2
  <2>3. CASE PlaceFamily
    BY <2>3, <2>2 DEF PlaceFamily
  <2>4. CASE PlaceMember
    BY <2>4, <2>2 DEF PlaceMember
  <2>5. CASE Flush \/ UNCHANGED planVars
    BY <2>5 DEF Flush, planVars
  <2> QED  BY <2>3, <2>4, <2>5 DEF PlanNext
<1>3. CASE batches' = batches
  BY <1>3 DEF NoneEmpty
<1>4. CASE current # <<>> /\ batches' = Append(batches, current)
  <2> DEFINE b == Append(batches, current)
  <2>1. /\ Len(b) = Len(batches) + 1
        /\ \A i \in 1 .. Len(batches) : b[i] = batches[i]
        /\ b[Len(batches) + 1] = current
    BY <1>1, AppendIs
  <2> HIDE DEF b
  <2>2. \A i \in 1 .. Len(b) : i \in 1 .. Len(batches) \/ i = Len(batches) + 1
    BY <1>1, <2>1
  <2>3. \A i \in 1 .. Len(b) : b[i] # <<>>
    BY <1>4, <2>1, <2>2 DEF NoneEmpty
  <2> QED  BY <1>4, <2>3 DEF NoneEmpty, b
<1> QED  BY <1>2, <1>3, <1>4

\* The calls of a plan, each as the set of the symbols it asks about.
Calls == [i \in 1 .. Len(batches) |-> {batches[i][j] : j \in 1 .. Len(batches[i])}]

\* What planBatches makes is what the symbol pass is modelled to start from:
\* calls that are finite, not empty and have no symbol in common.
THEOREM PlansAreForThePass == PlanSpec => [](Planned => IsPlan(Calls) /\ UNION {Calls[i] : i \in 1 .. Len(Calls)} = Nodes)
<1>1. PlanInit => PlanInv /\ NoneEmpty
  <2>1. PlanInit => NoneEmpty
    BY DEF PlanInit, NoneEmpty
  <2> QED  BY <2>1, PlanStart
<1>2. PlanInv /\ NoneEmpty /\ [PlanNext]_planVars => (PlanInv /\ NoneEmpty)'
  BY PlanStep, NoneEmptyStep DEF PlanInv
<1>3. PlanInv /\ NoneEmpty => (Planned => IsPlan(Calls) /\ UNION {Calls[i] : i \in 1 .. Len(Calls)} = Nodes)
  <2> SUFFICES ASSUME PlanInv, NoneEmpty, Planned
               PROVE  IsPlan(Calls) /\ UNION {Calls[i] : i \in 1 .. Len(Calls)} = Nodes
    OBVIOUS
  <2> DEFINE n == Len(batches)
  <2>1. n \in Nat /\ batches \in Seq(Seq(Nodes)) /\ Once(families, batches, current)
    BY DEF PlanInv, PlanTypeOK, Good
  <2>2. ASSUME NEW i \in 1 .. n
        PROVE  /\ batches[i] \in Seq(Nodes) /\ Len(batches[i]) \in Nat
               /\ Calls[i] = {batches[i][j] : j \in 1 .. Len(batches[i])}
               /\ \A x : x \in Calls[i] <=> x \in Nodes /\ Holds(batches[i], x)
    <3>1. batches[i] \in Seq(Nodes)
      BY <2>1
    <3>2. Len(batches[i]) \in Nat /\ \A j \in 1 .. Len(batches[i]) : batches[i][j] \in Nodes
      BY <3>1
    <3>3. Calls[i] = {batches[i][j] : j \in 1 .. Len(batches[i])}
      BY DEF Calls
    <3> QED  BY <3>1, <3>2, <3>3 DEF Holds
  <2>3. Calls \in Seq(SUBSET Nat) /\ Len(Calls) = n
    <3>1. Nodes \subseteq Nat
      BY PlanAssumption DEF Nodes
    <3>2. \A i \in 1 .. n : Calls[i] \in SUBSET Nat
      BY <2>2, <3>1
    <3>3. Calls = [i \in 1 .. n |-> Calls[i]]
      BY DEF Calls
    <3>4. Calls \in [1 .. n -> SUBSET Nat]
      BY <3>2, <3>3
    <3> QED  BY <2>1, <3>4, FunctionIsSeq
  <2> HIDE DEF n
  <2>4. ASSUME NEW i \in 1 .. n  PROVE IsFiniteSet(Calls[i]) /\ Calls[i] # {}
    <3>1. Calls[i] \subseteq 1 .. N /\ N \in Nat
      BY <2>2, PlanAssumption DEF Nodes
    <3>2. IsFiniteSet(1 .. N)
      BY <3>1, FS_Interval
    <3>3. IsFiniteSet(Calls[i])
      BY <3>1, <3>2, FS_Subset
    <3>4. batches[i] # <<>>
      BY DEF NoneEmpty, n
    <3>5. 1 \in 1 .. Len(batches[i])
      BY <2>2, <3>4
    <3>6. batches[i][1] \in Calls[i]
      BY <2>2, <3>5
    <3> QED  BY <3>3, <3>6
  <2>5. ASSUME NEW i \in 1 .. n, NEW k \in 1 .. n, i # k  PROVE Calls[i] \cap Calls[k] = {}
    <3>1. \A x \in Nodes : ~(Holds(batches[i], x) /\ Holds(batches[k], x))
      BY <2>1, <2>5 DEF Once, n
    <3> QED  BY <2>2, <3>1
  <2>6. ASSUME NEW x \in Nodes  PROVE \E i \in 1 .. n : x \in Calls[i]
    <3>1. families = <<>> /\ ~Holds(current, x)
      BY DEF Planned, Holds
    <3>2. \A k \in 1 .. Len(families) : FALSE
      BY <3>1
    <3>3. \E i \in 1 .. n : Holds(batches[i], x)
      BY <2>1, <3>1, <3>2 DEF Once, n
    <3> QED  BY <2>2, <3>3
  <2>7. UNION {Calls[i] : i \in 1 .. Len(Calls)} = Nodes
    BY <2>2, <2>3, <2>6
  <2>8. IsPlan(Calls)
    BY <2>3, <2>4, <2>5 DEF IsPlan
  <2> QED  BY <2>7, <2>8
<1> QED  BY <1>1, <1>2, <1>3, PTL DEF PlanSpec

------------------------------------------------------------------------------
(* The symbol pass. *)

\* The halves of a part that is halved are two, and make it up.
LEMMA HalvesOf ==
  ASSUME NEW T, T \subseteq Nat, IsFiniteSet(T), Cardinality(T) > 1
  PROVE  FirstHalf(T) \subseteq T /\ FirstHalf(T) # {} /\ T \ FirstHalf(T) # {}
<1> DEFINE c == Cardinality(T)
           k == (c + 1) \div 2
<1>1. c \in Nat /\ c > 1
  BY FS_CardinalityType
<1>2. k \in Nat /\ k <= c /\ k # 0 /\ k # c
  BY <1>1
<1>3. \E h \in SUBSET T : Cardinality(h) = k /\ \A x \in h, y \in T \ h : x < y
  <2> HIDE DEF k
  <2> QED  BY <1>2, FirstPart
<1>4. FirstHalf(T) \in SUBSET T /\ Cardinality(FirstHalf(T)) = k
  BY <1>3 DEF FirstHalf
<1>5. Cardinality({}) = 0
  BY FS_EmptySet
<1> HIDE DEF k
<1> QED  BY <1>2, <1>4, <1>5

\* What a call or a fallback of a batch is; batch 0 stands for the records of
\* facts a budget that degrades writes one after the other.
Items == [b : 0 .. NB, ts : SUBSET Symbols, kind : Kinds, st : Steps, got : SUBSET Symbols, lost : BOOLEAN]
Shaped(i) ==
  /\ i \in Items /\ i.got \subseteq i.ts /\ i.ts # {}
  /\ i.st # "ask" => i.got # {}
  /\ i.kind = "facts" => i.st \in {"unmap", "map"}
  /\ i.lost => i.kind \in {"whole", "hedge"}
  /\ i.b # 0 => i.ts \subseteq Plan[i.b]
  /\ i.b # 0 /\ i.kind \in {"whole", "hedge"} => i.ts = Plan[i.b]
  /\ i.b = 0 => i.kind = "facts" /\ i.ts = i.got /\ ~i.lost

LEMMA PlanFacts ==
  /\ NB \in Nat /\ Batches = 1 .. NB /\ 0 \notin Batches
  /\ \A b \in Batches : Plan[b] \subseteq Nat /\ Plan[b] \subseteq Symbols /\ IsFiniteSet(Plan[b]) /\ Plan[b] # {}
  /\ Symbols \subseteq Nat
  /\ \A s \in Symbols : \E b \in Batches : s \in Plan[b]
<1>1. NB \in Nat /\ \A b \in Batches : Plan[b] \in SUBSET Nat
  BY PassAssumption DEF NB, Batches, IsPlan
<1> QED  BY <1>1, PassAssumption DEF Batches, Symbols, IsPlan, NB

\* The fields of a copy that lost, and of one that went a step further.
LEMMA CopyOf ==
  ASSUME NEW i \in Items, NEW got \in SUBSET Symbols, NEW st \in Steps
  PROVE  /\ [i EXCEPT !.lost = TRUE] \in Items
         /\ [i EXCEPT !.lost = TRUE].b = i.b /\ [i EXCEPT !.lost = TRUE].ts = i.ts
         /\ [i EXCEPT !.lost = TRUE].kind = i.kind /\ [i EXCEPT !.lost = TRUE].st = i.st
         /\ [i EXCEPT !.lost = TRUE].got = i.got /\ [i EXCEPT !.lost = TRUE].lost = TRUE
         /\ [i EXCEPT !.st = st] \in Items
         /\ [i EXCEPT !.st = st].b = i.b /\ [i EXCEPT !.st = st].ts = i.ts
         /\ [i EXCEPT !.st = st].kind = i.kind /\ [i EXCEPT !.st = st].st = st
         /\ [i EXCEPT !.st = st].got = i.got /\ [i EXCEPT !.st = st].lost = i.lost
         /\ [i EXCEPT !.st = st, !.got = got] \in Items
         /\ [i EXCEPT !.st = st, !.got = got].b = i.b /\ [i EXCEPT !.st = st, !.got = got].ts = i.ts
         /\ [i EXCEPT !.st = st, !.got = got].kind = i.kind /\ [i EXCEPT !.st = st, !.got = got].st = st
         /\ [i EXCEPT !.st = st, !.got = got].got = got /\ [i EXCEPT !.st = st, !.got = got].lost = i.lost
<1>1. /\ [i EXCEPT !.lost = TRUE].b = i.b /\ [i EXCEPT !.lost = TRUE].ts = i.ts
      /\ [i EXCEPT !.lost = TRUE].kind = i.kind /\ [i EXCEPT !.lost = TRUE].st = i.st
      /\ [i EXCEPT !.lost = TRUE].got = i.got /\ [i EXCEPT !.lost = TRUE].lost = TRUE
      /\ [i EXCEPT !.lost = TRUE] \in Items
  BY DEF Items
<1>2. /\ [i EXCEPT !.st = st].b = i.b /\ [i EXCEPT !.st = st].ts = i.ts
      /\ [i EXCEPT !.st = st].kind = i.kind /\ [i EXCEPT !.st = st].st = st
      /\ [i EXCEPT !.st = st].got = i.got /\ [i EXCEPT !.st = st].lost = i.lost
      /\ [i EXCEPT !.st = st] \in Items
  BY DEF Items
<1>3. /\ [i EXCEPT !.st = st, !.got = got].b = i.b /\ [i EXCEPT !.st = st, !.got = got].ts = i.ts
      /\ [i EXCEPT !.st = st, !.got = got].kind = i.kind /\ [i EXCEPT !.st = st, !.got = got].st = st
      /\ [i EXCEPT !.st = st, !.got = got].got = got /\ [i EXCEPT !.st = st, !.got = got].lost = i.lost
      /\ [i EXCEPT !.st = st, !.got = got] \in Items
  BY DEF Items
<1> QED  BY <1>1, <1>2, <1>3

\* The parts a batch is divided into hold these symbols, each of them once.
Divides(P, i, rest) ==
  /\ \A p \in P : Shaped(p) /\ p.b = i.b /\ ~p.lost /\ p.ts \subseteq rest /\ p.kind \in {"half", "leaf", "facts"}
  /\ \A p, q \in P : p # q => p.ts \cap q.ts = {}
  /\ \A s \in rest : \E p \in P : s \in p.ts

LEMMA NewItem ==
  ASSUME NEW b \in 0 .. NB, NEW ts \in SUBSET Symbols, NEW k \in Kinds, NEW st \in Steps
  PROVE  /\ Item(b, ts, k, st) \in Items /\ Item(b, ts, k, st).b = b /\ Item(b, ts, k, st).ts = ts
         /\ Item(b, ts, k, st).kind = k /\ Item(b, ts, k, st).st = st /\ Item(b, ts, k, st).got = {}
         /\ Item(b, ts, k, st).lost = FALSE
BY DEF Item, Items

\* What is asked again is divided over the parts that ask.
LEMMA AgainDivides ==
  ASSUME NEW i, Shaped(i), i.b # 0, NEW rest \in SUBSET i.ts
  PROVE  /\ Divides(Again(i.b, rest), i, rest)
         /\ \A p \in Again(i.b, rest) : p.st = "ask" /\ p.got = {}
<1>1. /\ i.b \in Batches /\ rest \subseteq Plan[i.b] /\ rest \subseteq Symbols /\ rest \subseteq Nat /\ i.b \in 0 .. NB
  BY PlanFacts DEF Shaped, Items, Batches
<1>2. IsFiniteSet(rest) /\ Cardinality(rest) \in Nat
  BY <1>1, PlanFacts, FS_Subset, FS_CardinalityType
<1>3. ASSUME NEW ts \in SUBSET rest, ts # {}, NEW k \in {"half", "leaf"}
      PROVE  /\ Shaped(Item(i.b, ts, k, "ask")) /\ Item(i.b, ts, k, "ask").b = i.b /\ ~Item(i.b, ts, k, "ask").lost
             /\ Item(i.b, ts, k, "ask").ts = ts /\ Item(i.b, ts, k, "ask").kind = k
             /\ Item(i.b, ts, k, "ask").st = "ask" /\ Item(i.b, ts, k, "ask").got = {}
  <2>1. ts \in SUBSET Symbols /\ k \in Kinds /\ "ask" \in Steps
    BY <1>1, <1>3 DEF Kinds, Steps
  <2> DEFINE p == Item(i.b, ts, k, "ask")
  <2>2. /\ p \in Items /\ p.b = i.b /\ p.ts = ts /\ p.kind = k /\ p.st = "ask" /\ p.got = {} /\ p.lost = FALSE
    BY <1>1, <2>1 DEF Item, Items
  <2> HIDE DEF p
  <2>3. Shaped(p)
    BY <1>1, <1>3, <2>2, i.b # 0 DEF Shaped
  <2> QED  BY <2>2, <2>3 DEF p
<1>4. CASE rest = {}
  BY <1>4 DEF Again, Divides
<1>5. CASE rest # {} /\ Cardinality(rest) > Leaf
  <2> DEFINE h == FirstHalf(rest)
             p == Item(i.b, h, "half", "ask")
             q == Item(i.b, rest \ h, "half", "ask")
  <2>1. Cardinality(rest) > 1
    BY <1>2, <1>5, PassAssumption
  <2>2. h \subseteq rest /\ h # {} /\ rest \ h # {}
    BY <1>1, <1>2, <2>1, HalvesOf
  <2>3. Again(i.b, rest) = {p, q}
    BY <1>5 DEF Again
  <2> HIDE DEF h
  <2>4. /\ Shaped(p) /\ p.b = i.b /\ ~p.lost /\ p.ts = h /\ p.kind = "half" /\ p.st = "ask" /\ p.got = {}
        /\ Shaped(q) /\ q.b = i.b /\ ~q.lost /\ q.ts = rest \ h /\ q.kind = "half" /\ q.st = "ask" /\ q.got = {}
    BY <1>3, <2>2
  <2> HIDE DEF p, q
  <2> QED  BY <2>2, <2>3, <2>4 DEF Divides
<1>6. CASE rest # {} /\ ~(Cardinality(rest) > Leaf)
  <2> DEFINE p == Item(i.b, rest, "leaf", "ask")
  <2>1. Again(i.b, rest) = {p}
    BY <1>6 DEF Again
  <2>2. /\ Shaped(p) /\ p.b = i.b /\ ~p.lost /\ p.ts = rest /\ p.kind = "leaf" /\ p.st = "ask" /\ p.got = {}
    BY <1>3, <1>6
  <2> HIDE DEF p
  <2> QED  BY <2>1, <2>2 DEF Divides
<1> QED  BY <1>4, <1>5, <1>6

Apart == \A i, j \in work :
  i # j /\ ~i.lost /\ ~j.lost /\ i.b = j.b /\ i.b # 0 /\ i.ts \cap j.ts # {} => {i.kind, j.kind} = {"whole", "hedge"}
WorkInv == (\A i \in work : Shaped(i)) /\ Apart

\* Call or fallback i is over, and these parts follow it.
Ends(i, P) == work' = IF i.lost THEN work \ {i} ELSE Without(i) \union P

\* What is under way then: what was, with the copy that lost the race marked,
\* and the parts that follow.
LEMMA AfterAnEnd ==
  ASSUME WorkInv, NEW i \in work, NEW P, Ends(i, P), NEW j \in work'
  PROVE  \/ j \in work /\ j # i /\ j \notin Rivals(i)
         \/ \E k \in Rivals(i) : j = [k EXCEPT !.lost = TRUE]
         \/ ~i.lost /\ j \in P
BY DEF Ends, Without, Rivals

LEMMA LostCopy ==
  ASSUME NEW k, Shaped(k), k.kind \in {"whole", "hedge"}
  PROVE  LET j == [k EXCEPT !.lost = TRUE] IN
         Shaped(j) /\ j.b = k.b /\ j.ts = k.ts /\ j.kind = k.kind /\ j.st = k.st /\ j.got = k.got /\ j.lost
<1> DEFINE j == [k EXCEPT !.lost = TRUE]
<1>1. k \in Items
  BY DEF Shaped
<1>2. j \in Items /\ j.b = k.b /\ j.ts = k.ts /\ j.kind = k.kind /\ j.st = k.st /\ j.got = k.got /\ j.lost = TRUE
  BY <1>1 DEF Items
<1> HIDE DEF j
<1>3. Shaped(j)
  BY <1>2 DEF Shaped
<1> QED  BY <1>2, <1>3 DEF j

LEMMA RivalKinds ==
  ASSUME NEW i, NEW k \in Rivals(i)
  PROVE  /\ k \in work /\ k # i /\ k.b = i.b /\ ~k.lost /\ ~i.lost
         /\ k.kind \in {"whole", "hedge"} /\ i.kind \in {"whole", "hedge"}
BY DEF Rivals

LEMMA EndKeepsWork ==
  ASSUME WorkInv, NEW i \in work, NEW P, Ends(i, P), NEW rest \in SUBSET i.ts, Divides(P, i, rest)
  PROVE  WorkInv'
<1>1. ASSUME NEW j \in work'  PROVE Shaped(j)
  <2>1. CASE j \in work
    BY <2>1 DEF WorkInv
  <2>2. ASSUME NEW k \in Rivals(i), j = [k EXCEPT !.lost = TRUE]  PROVE Shaped(j)
    <3>1. Shaped(k) /\ k.kind \in {"whole", "hedge"}
      BY RivalKinds DEF WorkInv
    <3> QED  BY <2>2, <3>1, LostCopy
  <2>3. CASE j \in P
    BY <2>3 DEF Divides
  <2> QED  BY <2>1, <2>2, <2>3, AfterAnEnd
<1>2. ASSUME NEW j \in work', ~j.lost
      PROVE  \/ j \in work /\ j # i /\ j \notin Rivals(i)
             \/ ~i.lost /\ j \in P
  <2>1. ASSUME NEW k \in Rivals(i), j = [k EXCEPT !.lost = TRUE]  PROVE FALSE
    <3>1. Shaped(k) /\ k.kind \in {"whole", "hedge"}
      BY RivalKinds DEF WorkInv
    <3> QED  BY <1>2, <2>1, <3>1, LostCopy
  <2> QED  BY <2>1, AfterAnEnd
<1>3. ASSUME NEW j \in work, j # i, j \notin Rivals(i), ~j.lost, ~i.lost, NEW p \in P, p.b # 0, j.b = p.b
      PROVE  j.ts \cap p.ts = {}
  <2>1. p.b = i.b /\ p.ts \subseteq i.ts
    BY DEF Divides
  <2>2. SUFFICES ASSUME j.ts \cap p.ts # {}  PROVE FALSE
    OBVIOUS
  <2>3. i.ts \cap j.ts # {}
    BY <2>1, <2>2
  <2>4. {i.kind, j.kind} = {"whole", "hedge"}
    BY <1>3, <2>1, <2>3 DEF WorkInv, Apart
  <2> QED  BY <1>3, <2>1, <2>4 DEF Rivals
<1>4. ASSUME NEW j \in work', NEW k \in work', j # k, ~j.lost, ~k.lost, j.b = k.b, j.b # 0, j.ts \cap k.ts # {}
      PROVE  {j.kind, k.kind} = {"whole", "hedge"}
  <2>1. CASE j \in work /\ k \in work
    BY <1>4, <2>1 DEF WorkInv, Apart
  <2>2. CASE j \in P /\ k \in P
    BY <1>4, <2>2 DEF Divides
  <2>3. CASE (j \in work /\ j # i /\ j \notin Rivals(i)) /\ (~i.lost /\ k \in P)
    BY <1>3, <1>4, <2>3
  <2>4. CASE (k \in work /\ k # i /\ k \notin Rivals(i)) /\ (~i.lost /\ j \in P)
    BY <1>3, <1>4, <2>4
  <2> QED  BY <1>2, <1>4, <2>1, <2>2, <2>3, <2>4
<1> QED  BY <1>1, <1>4 DEF WorkInv, Apart

\* Nothing else under way is lost sight of: it is still there, at the statement
\* where it was, if perhaps unheard.
LEMMA EndKeepsOthers ==
  ASSUME WorkInv, NEW i \in work, NEW P, Ends(i, P), NEW k \in work, k # i
  PROVE  \E j \in work' : /\ j.b = k.b /\ j.ts = k.ts /\ j.kind = k.kind /\ j.st = k.st /\ j.got = k.got
                          /\ k \notin Rivals(i) => j = k
<1>1. CASE k \in Rivals(i)
  <2>1. ~i.lost /\ Shaped(k) /\ k.kind \in {"whole", "hedge"}
    BY <1>1, RivalKinds DEF WorkInv
  <2>2. [k EXCEPT !.lost = TRUE] \in work'
    BY <1>1, <2>1 DEF Ends, Without
  <2> DEFINE j == [k EXCEPT !.lost = TRUE]
  <2>3. j.b = k.b /\ j.ts = k.ts /\ j.kind = k.kind /\ j.st = k.st /\ j.got = k.got
    BY <2>1, LostCopy
  <2> HIDE DEF j
  <2>4. j \in work'
    BY <2>2 DEF j
  <2> QED  BY <1>1, <2>3, <2>4
<1>2. CASE k \notin Rivals(i)
  <2>1. k \in work'
    BY <1>2 DEF Ends, Without
  <2> QED  BY <2>1
<1> QED  BY <1>1, <1>2

\* A symbol stays with a live part of its batch until it is produced.
LEMMA EndCovers ==
  ASSUME WorkInv, NEW i \in work, NEW P, Ends(i, P), NEW rest \in SUBSET i.ts, Divides(P, i, rest),
         NEW k \in work, k.b # 0, ~k.lost, NEW s \in k.ts
  PROVE  \/ i.b = k.b /\ ~i.lost /\ s \in i.ts \ rest
         \/ \E j \in work' : j.b = k.b /\ ~j.lost /\ s \in j.ts
<1>1. ASSUME i.b = k.b, ~i.lost, s \in i.ts
      PROVE  s \in rest => \E j \in work' : j.b = k.b /\ ~j.lost /\ s \in j.ts
  <2>1. P \subseteq work'
    BY <1>1 DEF Ends
  <2> QED  BY <1>1, <2>1 DEF Divides
<1>2. CASE k = i
  BY <1>1, <1>2
<1>3. CASE k # i /\ k \in Rivals(i)
  <2>1. /\ i.b = k.b /\ ~i.lost /\ Shaped(i) /\ Shaped(k)
        /\ i.kind \in {"whole", "hedge"} /\ k.kind \in {"whole", "hedge"}
    BY <1>3, RivalKinds DEF WorkInv
  <2>2. i.ts = k.ts
    BY <2>1 DEF Shaped
  <2> QED  BY <1>1, <2>1, <2>2
<1>4. CASE k # i /\ k \notin Rivals(i)
  BY <1>4, EndKeepsOthers
<1> QED  BY <1>2, <1>3, <1>4

PassTyped == PassTypeOK /\ settled \subseteq 1 .. next

\* What is under way is of a batch that was started, and while it is heard, of
\* one that has not settled; a record of facts at a time once that is over.
Placed ==
  /\ \A i \in work : i.b <= next /\ (i.b = 0 => phase = "degrading") /\ (i.b # 0 /\ ~i.lost => i.b \notin settled)
  /\ \A i, j \in work : i.b = 0 /\ j.b = 0 => i = j

Phases ==
  /\ phase # "batches" => settled = 1 .. next
  /\ stop = "none" => \A b \in settled : threw[b] = "none"
  /\ phase = "complete" => \A s \in Symbols : results[s] # "none"

\* A symbol of a batch that did not throw is produced or still worked on.
Covered == \A b \in 1 .. next : threw[b] = "none" =>
  \A s \in Plan[b] : produced[s] # "none" \/ \E i \in work : i.b = b /\ ~i.lost /\ s \in i.ts

Recorded == \A b \in settled : threw[b] = "none" => \A s \in Plan[b] : results[s] # "none"

\* What was produced is mapped, or a copy that deleted the row is about to
\* insert it again.
Mapped == \A s \in Symbols : produced[s] # "none" \/ results[s] # "none" =>
  mapping[s] # {} \/ \E i \in work : i.st = "map" /\ s \in i.got

\* While no hedge was sent, what is still to be asked or to be receipted has no
\* receipts.
Paid == fired = 0 =>
  /\ \A i \in work : i.kind # "hedge" /\ ~i.lost
  /\ \A s \in Symbols : receipts[s] <= 1
  /\ \A i \in work : i.b # 0 => \A s \in i.ts : i.st \in {"ask", "receipts"} \/ s \notin i.got => receipts[s] = 0
  /\ \A b \in Batches : b > next => \A s \in Plan[b] : receipts[s] = 0

PassInv == PassTyped /\ WorkInv /\ Placed /\ Phases /\ Covered /\ Recorded /\ Mapped /\ Paid

\* Call or fallback i goes a statement further.
Moves(i, j) ==
  /\ work' = (work \ {i}) \union {j}
  /\ Shaped(j) /\ j.b = i.b /\ j.ts = i.ts /\ j.kind = i.kind /\ j.lost = i.lost

LEMMA MoveKeepsWork ==
  ASSUME WorkInv, Placed, NEW i \in work, NEW m, Moves(i, m), UNCHANGED <<phase, next, settled>>
  PROVE  WorkInv' /\ Placed'
<1>1. ASSUME NEW j \in work'
      PROVE  \E k \in work : /\ k.b = j.b /\ k.ts = j.ts /\ k.kind = j.kind /\ k.lost = j.lost
                             /\ ((j = m /\ k = i) \/ (j # m /\ j = k /\ k # i))
  <2>1. CASE j = m
    BY <2>1 DEF Moves
  <2>2. CASE j # m
    BY <2>2 DEF Moves
  <2> QED  BY <2>1, <2>2
<1>2. ASSUME NEW j \in work'  PROVE Shaped(j)
  BY DEF Moves, WorkInv
<1>3. ASSUME NEW j \in work', NEW k \in work', j # k, ~j.lost, ~k.lost, j.b = k.b, j.b # 0, j.ts \cap k.ts # {}
      PROVE  {j.kind, k.kind} = {"whole", "hedge"}
  <2>1. PICK x \in work : /\ x.b = j.b /\ x.ts = j.ts /\ x.kind = j.kind /\ x.lost = j.lost
                          /\ ((j = m /\ x = i) \/ (j # m /\ j = x /\ x # i))
    BY <1>1
  <2>2. PICK y \in work : /\ y.b = k.b /\ y.ts = k.ts /\ y.kind = k.kind /\ y.lost = k.lost
                          /\ ((k = m /\ y = i) \/ (k # m /\ k = y /\ y # i))
    BY <1>1
  <2>3. x # y
    BY <1>3, <2>1, <2>2
  <2>4. x.b = y.b /\ x.b # 0 /\ x.ts \cap y.ts # {} /\ ~x.lost /\ ~y.lost
    BY <1>3, <2>1, <2>2, Zenon
  <2>5. {x.kind, y.kind} = {"whole", "hedge"}
    BY <2>3, <2>4 DEF WorkInv, Apart
  <2> QED  BY <2>1, <2>2, <2>5
<1>4. ASSUME NEW j \in work'
      PROVE  j.b <= next /\ (j.b = 0 => phase = "degrading") /\ (j.b # 0 /\ ~j.lost => j.b \notin settled)
  <2>1. PICK x \in work : x.b = j.b /\ x.lost = j.lost
    BY <1>1
  <2> QED  BY <2>1 DEF Placed
<1>5. ASSUME NEW j \in work', NEW k \in work', j.b = 0, k.b = 0  PROVE j = k
  <2>1. PICK x \in work : x.b = j.b /\ ((j = m /\ x = i) \/ (j # m /\ j = x /\ x # i))
    BY <1>1
  <2>2. PICK y \in work : y.b = k.b /\ ((k = m /\ y = i) \/ (k # m /\ k = y /\ y # i))
    BY <1>1
  <2>3. x = y
    BY <1>5, <2>1, <2>2 DEF Placed
  <2> QED  BY <2>1, <2>2, <2>3
<1> QED  BY <1>2, <1>3, <1>4, <1>5 DEF WorkInv, Apart, Placed

LEMMA MoveKeepsCover ==
  ASSUME WorkInv, Covered, NEW i \in work, NEW m, Moves(i, m), UNCHANGED <<next, threw, produced>>
  PROVE  Covered'
<1>1. ASSUME NEW b, NEW s, NEW k \in work, k.b = b, ~k.lost, s \in k.ts
      PROVE  \E j \in work' : j.b = b /\ ~j.lost /\ s \in j.ts
  <2>1. CASE k = i
    BY <1>1, <2>1 DEF Moves
  <2>2. CASE k # i
    BY <1>1, <2>2 DEF Moves
  <2> QED  BY <2>1, <2>2
<1>2. ASSUME NEW b \in 1 .. next, threw[b] = "none", NEW s \in Plan[b], produced[s] = "none"
      PROVE  \E j \in work' : j.b = b /\ ~j.lost /\ s \in j.ts
  <2>1. PICK k \in work : k.b = b /\ ~k.lost /\ s \in k.ts
    BY <1>2 DEF Covered
  <2> QED  BY <2>1, <1>1
<1> QED  BY <1>2 DEF Covered

LEMMA EndKeepsPlaced ==
  ASSUME WorkInv, Placed, NEW i \in work, NEW P, Ends(i, P), NEW rest \in SUBSET i.ts, Divides(P, i, rest),
         i.b = 0 => P = {}, UNCHANGED <<phase, next, settled>>
  PROVE  Placed'
<1>1. ASSUME NEW j \in work'
      PROVE  \E k \in work : k.b = j.b /\ (k.lost => j.lost) /\ (j.b = 0 => j = k)
  <2>1. CASE j \in work
    BY <2>1
  <2>2. ASSUME NEW k \in Rivals(i), j = [k EXCEPT !.lost = TRUE]
        PROVE  \E x \in work : x.b = j.b /\ (x.lost => j.lost) /\ (j.b = 0 => j = x)
    <3>1. /\ Shaped(k) /\ k.kind \in {"whole", "hedge"} /\ k \in work
      BY RivalKinds DEF WorkInv
    <3>2. k.b # 0 /\ j.b = k.b /\ j.lost
      <4>1. k.b # 0
        BY <3>1 DEF Shaped
      <4> QED  BY <2>2, <3>1, <4>1, LostCopy
    <3> QED  BY <3>1, <3>2
  <2>3. CASE ~i.lost /\ j \in P
    BY <2>3 DEF Divides
  <2> QED  BY <2>1, <2>2, <2>3, AfterAnEnd
<1>2. ASSUME NEW j \in work'
      PROVE  j.b <= next /\ (j.b = 0 => phase = "degrading") /\ (j.b # 0 /\ ~j.lost => j.b \notin settled)
  <2>1. PICK k \in work : k.b = j.b /\ (k.lost => j.lost)
    BY <1>1
  <2> QED  BY <2>1 DEF Placed
<1>3. ASSUME NEW j \in work', NEW k \in work', j.b = 0, k.b = 0  PROVE j = k
  <2>1. j \in work /\ k \in work
    BY <1>1, <1>3
  <2> QED  BY <1>3, <2>1 DEF Placed
<1> QED  BY <1>2, <1>3 DEF Placed

\* Where no hedge was sent an end leaves no more to be paid than before.
LEMMA EndKeepsPaid ==
  ASSUME WorkInv, Paid, NEW i \in work, NEW P, Ends(i, P), NEW rest \in SUBSET i.ts, Divides(P, i, rest),
         i.st = "ask" \/ (i.b # 0 => rest \subseteq i.ts \ i.got) \/ P = {},
         UNCHANGED <<next, fired, receipts>>
  PROVE  Paid'
<1> SUFFICES ASSUME fired = 0  PROVE Paid'
  BY DEF Paid
<1>1. ASSUME NEW k \in Rivals(i)  PROVE FALSE
  BY <1>1 DEF Rivals, Paid
<1>2. ASSUME NEW j \in work'  PROVE j \in work \/ j \in P
  BY <1>1, AfterAnEnd
<1>3. \A j \in work' : j.kind # "hedge" /\ ~j.lost
  BY <1>2 DEF Paid, Divides
<1>4. ASSUME NEW j \in work', j.b # 0, NEW s \in j.ts, j.st \in {"ask", "receipts"} \/ s \notin j.got
      PROVE  receipts[s] = 0
  <2>1. CASE j \in work
    BY <1>4, <2>1 DEF Paid
  <2>2. CASE j \in P
    <3>1. i.b # 0 /\ s \in rest /\ s \in i.ts
      BY <1>4, <2>2 DEF Divides
    <3>2. i.st = "ask" \/ s \notin i.got
      BY <2>2, <3>1
    <3> QED  BY <3>1, <3>2 DEF Paid
  <2> QED  BY <1>2, <2>1, <2>2
<1> QED  BY <1>3, <1>4 DEF Paid

LEMMA PassStart == PassInit => PassInv
<1> SUFFICES ASSUME PassInit  PROVE PassInv
  OBVIOUS
<1>1. PassTyped
  BY PlanFacts, PassAssumption DEF PassInit, PassTyped, PassTypeOK
<1>2. WorkInv /\ Placed /\ Covered /\ Recorded
  BY DEF PassInit, WorkInv, Apart, Placed, Covered, Recorded
<1>3. Phases
  BY DEF PassInit, Phases
<1>4. Mapped
  BY DEF PassInit, Mapped
<1>5. Paid
  <2>1. \A s \in Symbols : receipts[s] = 0
    BY DEF PassInit
  <2> QED  BY <2>1, PlanFacts DEF PassInit, Paid
<1> QED  BY <1>1, <1>2, <1>3, <1>4, <1>5 DEF PassInv

\* The items as the type invariant has them.
LEMMA ShapedItems ==
  ASSUME WorkInv
  PROVE  \A i \in work : /\ i.b \in 0 .. NB /\ i.ts \subseteq Symbols /\ i.got \subseteq i.ts
                         /\ i.kind \in Kinds /\ i.st \in Steps /\ i.lost \in BOOLEAN
BY DEF WorkInv, Shaped, Items

LEMMA JoinKeepsWork ==
  ASSUME WorkInv, NEW w, Shaped(w), work' = work \union {w},
         \A j \in work : j.b = w.b /\ ~j.lost /\ w.b # 0 => {j.kind, w.kind} = {"whole", "hedge"}
  PROVE  WorkInv'
<1>1. \A j \in work' : Shaped(j)
  BY DEF WorkInv
<1>2. ASSUME NEW j \in work', NEW k \in work', j # k, ~j.lost, ~k.lost, j.b = k.b, j.b # 0, j.ts \cap k.ts # {}
      PROVE  {j.kind, k.kind} = {"whole", "hedge"}
  <2>1. CASE j \in work /\ k \in work
    BY <1>2, <2>1 DEF WorkInv, Apart
  <2>2. CASE j = w /\ k \in work
    BY <1>2, <2>2
  <2>3. CASE k = w /\ j \in work
    BY <1>2, <2>3
  <2> QED  BY <1>2, <2>1, <2>2, <2>3
<1> QED  BY <1>1, <1>2 DEF WorkInv, Apart

LEMMA LaunchKeeps == PassInv /\ Launch => PassInv'
<1> SUFFICES ASSUME PassInv, Launch  PROVE PassInv'
  OBVIOUS
<1> DEFINE w == Item(next + 1, Plan[next + 1], "whole", "ask")
<1>1. /\ next \in 0 .. NB /\ next < NB /\ next' = next + 1 /\ next + 1 \in Batches /\ next + 1 # 0 /\ next + 1 \in 0 .. NB
      /\ work' = work \union {w} /\ phase = "batches"
      /\ UNCHANGED <<phase, settled, threw, stop, fired, produced, results, receipts, mapping>>
  BY PlanFacts DEF PassInv, PassTyped, PassTypeOK, Launch
<1>2. /\ Shaped(w) /\ w.b = next + 1 /\ w.ts = Plan[next + 1] /\ w.kind = "whole" /\ w.st = "ask" /\ w.got = {}
      /\ ~w.lost
  <2>1. /\ w \in Items /\ w.b = next + 1 /\ w.ts = Plan[next + 1] /\ w.kind = "whole" /\ w.st = "ask"
        /\ w.got = {} /\ w.lost = FALSE
    BY <1>1, PlanFacts DEF Item, Items, Kinds, Steps
  <2> HIDE DEF w
  <2>2. Shaped(w)
    BY <1>1, <2>1, PlanFacts DEF Shaped
  <2> QED  BY <2>1, <2>2
<1> HIDE DEF w
<1>3. \A j \in work : j.b # next + 1 /\ j.b <= next /\ j.b \in 0 .. NB
  <2> SUFFICES ASSUME NEW j \in work  PROVE j.b # next + 1 /\ j.b <= next /\ j.b \in 0 .. NB
    OBVIOUS
  <2>1. j.b <= next /\ j.b \in 0 .. NB
    BY ShapedItems DEF PassInv, Placed
  <2> QED  BY <1>1, <2>1
<1>4. PassTyped'
  <2>1. WorkInv' => PassTypeOK'
    BY <1>1, ShapedItems, PlanFacts DEF PassInv, PassTyped, PassTypeOK, WorkInv, Shaped, Items
  <2>2. settled' \subseteq 1 .. next'
    BY <1>1 DEF PassInv, PassTyped
  <2>3. WorkInv'
    BY <1>1, <1>2, <1>3, JoinKeepsWork DEF PassInv
  <2> QED  BY <2>1, <2>2, <2>3 DEF PassTyped
<1>5. WorkInv'
  BY <1>1, <1>2, <1>3, JoinKeepsWork DEF PassInv
<1>6. Placed'
  <2>1. ASSUME NEW j \in work'
        PROVE  j.b <= next' /\ (j.b = 0 => phase = "degrading") /\ (j.b # 0 /\ ~j.lost => j.b \notin settled)
    <3>1. CASE j \in work
      BY <1>1, <1>3, <3>1 DEF PassInv, Placed
    <3>2. CASE j = w
      BY <1>1, <1>2, <3>2 DEF PassInv, PassTyped
    <3> QED  BY <1>1, <3>1, <3>2
  <2>2. \A i, j \in work' : i.b = 0 /\ j.b = 0 => i = j
    BY <1>1, <1>2 DEF PassInv, Placed
  <2> QED  BY <1>1, <2>1, <2>2 DEF Placed
<1>7. Phases' /\ Recorded'
  BY <1>1 DEF PassInv, Phases, Recorded
<1>8. Covered'
  <2> SUFFICES ASSUME NEW b \in 1 .. next', threw[b] = "none", NEW s \in Plan[b], produced[s] = "none"
               PROVE  \E i \in work' : i.b = b /\ ~i.lost /\ s \in i.ts
    BY <1>1 DEF Covered
  <2>1. CASE b = next + 1
    BY <1>1, <1>2, <2>1
  <2>2. CASE b # next + 1
    <3>1. b \in 1 .. next
      BY <1>1, <2>2
    <3> QED  BY <1>1, <3>1 DEF PassInv, Covered
  <2> QED  BY <2>1, <2>2
<1>9. Mapped'
  BY <1>1 DEF PassInv, Mapped
<1>10. Paid'
  <2> SUFFICES ASSUME fired = 0  PROVE Paid'
    BY <1>1 DEF Paid
  <2>1. \A s \in Plan[next + 1] : receipts[s] = 0
    BY <1>1 DEF PassInv, Paid
  <2>2. \A b \in Batches : b > next + 1 => \A s \in Plan[b] : receipts[s] = 0
    BY <1>1, PlanFacts DEF PassInv, Paid
  <2> QED  BY <1>1, <1>2, <2>1, <2>2 DEF PassInv, Paid
<1> QED  BY <1>4, <1>5, <1>6, <1>7, <1>8, <1>9, <1>10 DEF PassInv

LEMMA HedgeKeeps == ASSUME NEW b \in Batches  PROVE PassInv /\ Hedge(b) => PassInv'
<1> SUFFICES ASSUME PassInv, Hedge(b)  PROVE PassInv'
  OBVIOUS
<1> DEFINE w == Item(b, Plan[b], "hedge", "ask")
<1>1. PICK i \in work : i.b = b /\ i.kind = "whole" /\ ~i.lost /\ Rivals(i) = {}
  BY DEF Hedge
<1>2. /\ b \in 1 .. NB /\ b # 0 /\ b \in 0 .. NB /\ work' = work \union {w} /\ fired' \in 0 .. HedgeMax /\ fired' # 0
      /\ UNCHANGED <<phase, next, settled, threw, stop, produced, results, receipts, mapping>>
  BY PlanFacts, PassAssumption DEF PassInv, PassTyped, PassTypeOK, Hedge
<1>3. Shaped(w) /\ w.b = b /\ w.ts = Plan[b] /\ w.kind = "hedge" /\ ~w.lost
  <2>1. /\ w \in Items /\ w.b = b /\ w.ts = Plan[b] /\ w.kind = "hedge" /\ w.st = "ask"
        /\ w.got = {} /\ w.lost = FALSE
    BY <1>2, PlanFacts DEF Item, Items, Kinds, Steps
  <2> HIDE DEF w
  <2>2. Shaped(w)
    BY <1>2, <2>1, PlanFacts DEF Shaped
  <2> QED  BY <2>1, <2>2
<1> HIDE DEF w
<1>4. Shaped(i) /\ i.ts = Plan[b]
  BY <1>1, <1>2 DEF PassInv, WorkInv, Shaped
<1>5. ASSUME NEW j \in work, j.b = b, ~j.lost  PROVE j = i
  <2> SUFFICES ASSUME j # i  PROVE FALSE
    OBVIOUS
  <2>1. Shaped(j) /\ j.ts # {} /\ j.ts \subseteq Plan[b]
    BY <1>2, <1>5 DEF PassInv, WorkInv, Shaped
  <2>2. i.ts \cap j.ts # {}
    BY <1>4, <2>1
  <2>3. {i.kind, j.kind} = {"whole", "hedge"}
    BY <1>1, <1>2, <1>5, <2>2 DEF PassInv, WorkInv, Apart
  <2> QED  BY <1>1, <1>5, <2>3 DEF Rivals
<1>6. WorkInv'
  BY <1>1, <1>2, <1>3, <1>5, JoinKeepsWork DEF PassInv
<1>7. PassTyped'
  BY <1>2, <1>6, ShapedItems DEF PassInv, PassTyped, PassTypeOK, WorkInv, Shaped, Items
<1>8. Placed'
  <2>1. b <= next /\ b \notin settled
    BY <1>1, <1>2 DEF PassInv, Placed
  <2> QED  BY <1>2, <1>3, <2>1 DEF PassInv, Placed
<1>9. Phases' /\ Recorded' /\ Covered' /\ Mapped'
  BY <1>2 DEF PassInv, Phases, Recorded, Covered, Mapped
<1>10. Paid'
  BY <1>2 DEF Paid
<1> QED  BY <1>6, <1>7, <1>8, <1>9, <1>10 DEF PassInv

LEMMA SettleBatchKeeps == ASSUME NEW b \in Batches  PROVE PassInv /\ SettleBatch(b) => PassInv'
<1> SUFFICES ASSUME PassInv, SettleBatch(b)  PROVE PassInv'
  OBVIOUS
<1>1. /\ b \in 1 .. next /\ b \notin settled /\ b # 0
      /\ \A i \in work : i.b = b => i.lost
      /\ settled' = settled \union {b}
      /\ stop' = IF stop = "none" THEN threw[b] ELSE stop
      /\ results' = IF threw[b] # "none" THEN results
                    ELSE [s \in Symbols |-> IF s \in Plan[b] THEN produced[s] ELSE results[s]]
      /\ UNCHANGED <<phase, next, work, threw, fired, produced, receipts, mapping>>
  BY PlanFacts DEF SettleBatch
<1>2. PassTyped'
  BY <1>1, PlanFacts DEF PassInv, PassTyped, PassTypeOK
<1>3. WorkInv'
  BY <1>1 DEF PassInv, WorkInv, Apart
<1>4. Placed'
  BY <1>1 DEF PassInv, Placed
<1>5. phase = "batches"
  BY <1>1 DEF PassInv, Phases
<1>6. Phases'
  <2>1. stop' = "none" => \A c \in settled' : threw[c] = "none"
    BY <1>1 DEF PassInv, Phases
  <2> QED  BY <1>1, <1>5, <2>1 DEF Phases
<1>7. Covered'
  BY <1>1 DEF PassInv, Covered
<1>8. threw[b] = "none" => \A s \in Plan[b] : produced[s] # "none"
  BY <1>1 DEF PassInv, Covered
<1>9. Recorded'
  <2> SUFFICES ASSUME NEW c \in settled', threw[c] = "none", NEW s \in Plan[c]  PROVE results'[s] # "none"
    BY <1>1 DEF Recorded
  <2>0. c \in Batches /\ s \in Symbols
    BY <1>1, PlanFacts DEF PassInv, PassTyped, PassTypeOK
  <2>1. CASE c = b
    BY <1>1, <1>8, <2>0, <2>1
  <2>2. CASE c # b
    <3>1. results[s] # "none"
      BY <1>1, <2>2 DEF PassInv, Recorded
    <3>2. s \notin Plan[b]
      BY <1>1, <2>0, <2>2, PassAssumption DEF IsPlan, Batches, NB
    <3> QED  BY <1>1, <2>0, <3>1, <3>2
  <2> QED  BY <2>1, <2>2
<1>10. Mapped'
  <2>1. \A s \in Symbols : results'[s] # "none" => results[s] # "none" \/ produced[s] # "none"
    BY <1>1
  <2> QED  BY <1>1, <2>1 DEF PassInv, Mapped
<1>11. Paid'
  BY <1>1 DEF PassInv, Paid
<1> QED  BY <1>2, <1>3, <1>4, <1>6, <1>7, <1>9, <1>10, <1>11 DEF PassInv

LEMMA StandsStill ==
  ASSUME PassInv, UNCHANGED <<next, work, settled, threw, fired, produced, results, receipts, mapping>>
  PROVE  WorkInv' /\ Covered' /\ Recorded' /\ Mapped' /\ Paid'
<1>1. WorkInv'
  BY DEF PassInv, WorkInv, Apart
<1>2. Covered'
  BY DEF PassInv, Covered
<1>3. Recorded'
  BY DEF PassInv, Recorded
<1>4. Mapped'
  BY DEF PassInv, Mapped
<1>5. Paid'
  BY DEF PassInv, Paid
<1> QED  BY <1>1, <1>2, <1>3, <1>4, <1>5

LEMMA BatchesEndKeeps == PassInv /\ BatchesEnd => PassInv'
<1> SUFFICES ASSUME PassInv, BatchesEnd  PROVE PassInv'
  OBVIOUS
<1>1. /\ phase = "batches" /\ settled = 1 .. next /\ (next = NB \/ stop # "none")
      /\ stop \in {"none", "degrade", "pause"}
      /\ UNCHANGED <<next, work, settled, threw, stop, fired, produced, results, receipts, mapping>>
  BY DEF PassInv, PassTyped, PassTypeOK, BatchesEnd
<1>2. /\ phase' \in {"complete", "threw", "degrading"}
      /\ phase' = "complete" => stop = "none"
  BY <1>1 DEF BatchesEnd
<1>3. PassTyped'
  BY <1>1, <1>2 DEF PassInv, PassTyped, PassTypeOK
<1>4. WorkInv' /\ Covered' /\ Recorded' /\ Mapped' /\ Paid'
  BY <1>1, StandsStill
<1>5. Placed'
  BY <1>1 DEF PassInv, Placed
<1>6. ASSUME phase' = "complete", NEW s \in Symbols  PROVE results[s] # "none"
  <2>1. PICK b \in Batches : s \in Plan[b]
    BY PlanFacts
  <2>2. b \in settled /\ threw[b] = "none"
    BY <1>1, <1>2, <1>6, PlanFacts DEF PassInv, Phases
  <2> QED  BY <2>1, <2>2 DEF PassInv, Recorded
<1>7. Phases'
  BY <1>1, <1>6 DEF PassInv, Phases
<1> QED  BY <1>3, <1>4, <1>5, <1>7 DEF PassInv

LEMMA DegradeStepKeeps == PassInv /\ Degrade => PassInv'
<1> SUFFICES ASSUME PassInv, Degrade  PROVE PassInv'
  OBVIOUS
<1> DEFINE rest == {s \in Symbols : results[s] = "none"}
           m == Min(rest)
           w == [Item(0, {m}, "facts", "unmap") EXCEPT !.got = {m}]
<1>1. /\ phase = "degrading" /\ \A i \in work : i.b # 0
      /\ UNCHANGED <<next, settled, threw, stop, fired, produced, results, receipts, mapping>>
  BY DEF Degrade
<1>2. CASE rest = {} /\ phase' = "complete" /\ UNCHANGED work
  <2>1. PassTyped'
    BY <1>1, <1>2 DEF PassInv, PassTyped, PassTypeOK
  <2>2. WorkInv' /\ Covered' /\ Recorded' /\ Mapped' /\ Paid'
    BY <1>1, <1>2, StandsStill
  <2>3. Placed'
    BY <1>1, <1>2 DEF PassInv, Placed
  <2>4. \A s \in Symbols : results[s] # "none"
    BY <1>2
  <2>5. Phases'
    BY <1>1, <1>2, <2>4 DEF PassInv, Phases
  <2> QED  BY <2>1, <2>2, <2>3, <2>5 DEF PassInv
<1>3. CASE rest # {} /\ work' = work \union {w} /\ UNCHANGED phase
  <2>1. m \in Symbols
    <3>1. rest \subseteq Nat
      BY PlanFacts
    <3> HIDE DEF rest
    <3>2. m \in rest
      BY <1>3, <3>1, MinIsOne
    <3> QED  BY <3>2 DEF rest
  <2> HIDE DEF m
  <2>2. Shaped(w) /\ w.b = 0 /\ w.st = "unmap" /\ ~w.lost /\ w.kind = "facts" /\ w.ts = {m} /\ w.got = {m}
    <3>1. /\ w \in Items /\ w.b = 0 /\ w.st = "unmap" /\ w.lost = FALSE /\ w.kind = "facts"
          /\ w.ts = {m} /\ w.got = {m}
      <4> DEFINE v == Item(0, {m}, "facts", "unmap")
      <4>1. /\ v \in Items /\ v.b = 0 /\ v.st = "unmap" /\ v.lost = FALSE /\ v.kind = "facts" /\ v.ts = {m}
        BY <2>1, PlanFacts DEF Item, Items, Kinds, Steps
      <4> HIDE DEF v
      <4>2. /\ [v EXCEPT !.got = {m}] \in Items /\ [v EXCEPT !.got = {m}].b = v.b
            /\ [v EXCEPT !.got = {m}].st = v.st /\ [v EXCEPT !.got = {m}].lost = v.lost
            /\ [v EXCEPT !.got = {m}].kind = v.kind /\ [v EXCEPT !.got = {m}].ts = v.ts
            /\ [v EXCEPT !.got = {m}].got = {m}
        BY <2>1, <4>1 DEF Items
      <4> QED  BY <4>1, <4>2 DEF v
    <3> HIDE DEF w
    <3>2. Shaped(w)
      BY <3>1 DEF Shaped
    <3> QED  BY <3>1, <3>2
  <2> HIDE DEF w, rest
  <2>3. WorkInv'
    BY <1>3, <2>2, JoinKeepsWork DEF PassInv
  <2>4. PassTyped'
    BY <1>1, <1>3, <2>3, ShapedItems DEF PassInv, PassTyped, PassTypeOK, WorkInv, Shaped, Items
  <2>5. Placed'
    BY <1>1, <1>3, <2>2 DEF PassInv, Placed, PassTyped, PassTypeOK
  <2>6. Phases' /\ Covered' /\ Recorded' /\ Mapped'
    BY <1>1, <1>3 DEF PassInv, Phases, Covered, Recorded, Mapped
  <2>7. Paid'
    BY <1>1, <1>3, <2>2 DEF PassInv, Paid
  <2> QED  BY <2>3, <2>4, <2>5, <2>6, <2>7 DEF PassInv
<1> QED  BY <1>2, <1>3 DEF Degrade

\* What follows a call that produced this.
Followers(i, got) ==
  IF i.kind = "leaf" /\ got = {} THEN {[i EXCEPT !.kind = "facts", !.st = "unmap", !.got = {Min(i.ts)}]}
  ELSE Again(i.b, i.ts \ got)

LEMMA OverIsAnEnd ==
  ASSUME WorkInv, NEW i \in work, i.kind # "facts", NEW got \in SUBSET i.ts
  PROVE  /\ Over(i, got) = IF i.lost THEN work \ {i} ELSE Without(i) \union Followers(i, got)
         /\ Divides(Followers(i, got), i, i.ts \ got) /\ i.b # 0
<1>1. Shaped(i) /\ i.b # 0 /\ i.ts \in SUBSET Symbols /\ i.ts # {}
  BY DEF WorkInv, Shaped, Items
<1>2. i.kind = "leaf" => ~i.lost /\ Without(i) = work \ {i}
  <2> SUFFICES ASSUME i.kind = "leaf"  PROVE ~i.lost /\ Without(i) = work \ {i}
    OBVIOUS
  <2>1. Rivals(i) = {}
    BY DEF Rivals
  <2>2. ~i.lost
    BY <1>1 DEF Shaped
  <2> QED  BY <2>1, <2>2 DEF Without
<1>3. Over(i, got) = IF i.lost THEN work \ {i} ELSE Without(i) \union Followers(i, got)
  <2>1. CASE i.lost
    BY <1>2, <2>1 DEF Over
  <2>2. CASE ~i.lost /\ i.kind = "leaf" /\ got = {}
    BY <1>2, <2>2 DEF Over, Followers
  <2>3. CASE ~i.lost /\ i.kind = "leaf" /\ got # {}
    BY <1>2, <2>3 DEF Over, Followers
  <2>4. CASE ~i.lost /\ i.kind # "leaf"
    BY <1>2, <2>4 DEF Over, Followers
  <2> QED  BY <2>1, <2>2, <2>3, <2>4
<1>4. Divides(Followers(i, got), i, i.ts \ got)
  <2>1. CASE i.kind = "leaf" /\ got = {}
    <3> DEFINE m == Min(i.ts)
               p == [i EXCEPT !.kind = "facts", !.st = "unmap", !.got = {m}]
    <3>1. m \in i.ts /\ m \in Symbols
      <4>1. i.ts \subseteq Nat
        BY <1>1, PlanFacts
      <4> QED  BY <1>1, <4>1, MinIsOne
    <3> HIDE DEF m
    <3>2. i \in Items
      BY <1>1 DEF Shaped
    <3>3. /\ p \in Items /\ p.b = i.b /\ p.ts = i.ts /\ p.kind = "facts" /\ p.st = "unmap" /\ p.got = {m}
          /\ p.lost = i.lost
      BY <3>1, <3>2 DEF Items, Kinds, Steps
    <3>4. Followers(i, got) = {p}
      BY <2>1 DEF Followers, m
    <3> HIDE DEF p
    <3>5. Shaped(p)
      BY <1>1, <3>1, <3>3, <1>2, <2>1 DEF Shaped
    <3>6. ~p.lost
      BY <1>2, <2>1, <3>3
    <3> QED  BY <2>1, <3>3, <3>4, <3>5, <3>6 DEF Divides
  <2>2. CASE ~(i.kind = "leaf" /\ got = {})
    <3>1. Followers(i, got) = Again(i.b, i.ts \ got)
      BY <2>2 DEF Followers
    <3> DEFINE rest == i.ts \ got
    <3>2. rest \in SUBSET i.ts
      OBVIOUS
    <3> HIDE DEF rest
    <3>3. Divides(Again(i.b, rest), i, rest)
      BY <1>1, <3>2, AgainDivides
    <3> QED  BY <3>1, <3>3 DEF rest
  <2> QED  BY <2>1, <2>2
<1> QED  BY <1>1, <1>3, <1>4

\* What is mapped stays, or is about to be.
LEMMA EndKeepsMapped ==
  ASSUME WorkInv, Mapped, NEW i \in work, NEW P, Ends(i, P),
         NEW s \in Symbols, produced[s] # "none" \/ results[s] # "none", i.st # "map" \/ s \notin i.got
  PROVE  mapping[s] # {} \/ \E j \in work' : j.st = "map" /\ s \in j.got
<1>1. CASE mapping[s] = {}
  <2>1. PICK k \in work : k.st = "map" /\ s \in k.got
    BY <1>1 DEF Mapped
  <2>2. k # i
    BY <2>1
  <2> QED  BY <2>1, <2>2, EndKeepsOthers
<1> QED  BY <1>1

LEMMA TypedAfter ==
  ASSUME PassInv, WorkInv', UNCHANGED <<phase, next, settled, stop, fired>>,
         threw' \in [Batches -> {"none", "degrade", "pause"}],
         produced' \in [Symbols -> {"none", "llm", "facts"}], results' \in [Symbols -> {"none", "llm", "facts"}],
         receipts' \in [Symbols -> Nat], mapping' \in [Symbols -> SUBSET {"llm", "facts"}]
  PROVE  PassTyped'
<1>1. \A i \in work' : /\ i.b \in 0 .. NB /\ i.ts \subseteq Symbols /\ i.got \subseteq i.ts
                       /\ i.kind \in Kinds /\ i.st \in Steps /\ i.lost \in BOOLEAN
  BY DEF WorkInv, Shaped, Items
<1> QED  BY <1>1 DEF PassInv, PassTyped, PassTypeOK

LEMMA TypesOf ==
  ASSUME PassInv
  PROVE  /\ threw \in [Batches -> {"none", "degrade", "pause"}]
         /\ produced \in [Symbols -> {"none", "llm", "facts"}] /\ results \in [Symbols -> {"none", "llm", "facts"}]
         /\ receipts \in [Symbols -> Nat] /\ mapping \in [Symbols -> SUBSET {"llm", "facts"}]
BY DEF PassInv, PassTyped, PassTypeOK

LEMMA PhasesAfter ==
  ASSUME PassInv, UNCHANGED <<phase, next, settled, stop, threw, results>>
  PROVE  Phases' /\ Recorded'
BY DEF PassInv, Phases, Recorded

LEMMA AnswerKeeps == ASSUME NEW i \in work  PROVE PassInv /\ Answer(i) => PassInv'
<1> SUFFICES ASSUME PassInv, Answer(i)  PROVE PassInv'
  OBVIOUS
<1>1. /\ i.kind # "facts" /\ i.st = "ask"
      /\ UNCHANGED <<phase, next, settled, threw, stop, fired, produced, results, receipts, mapping>>
  BY DEF Answer
<1>2. Shaped(i) /\ i.b # 0 /\ i.ts \subseteq Symbols /\ i.ts # {} /\ WorkInv /\ Placed /\ Covered /\ Mapped /\ Paid
  BY <1>1 DEF PassInv, WorkInv, Shaped, Items
<1>3. Phases' /\ Recorded'
  BY <1>1, PhasesAfter
<1>4. CASE work' = Over(i, {})
  <2> DEFINE P == Followers(i, {})
  <2>1. Ends(i, P) /\ Divides(P, i, i.ts)
    <3>1. {} \in SUBSET i.ts /\ i.ts \ {} = i.ts
      OBVIOUS
    <3>2. /\ Over(i, {}) = IF i.lost THEN work \ {i} ELSE Without(i) \union P
          /\ Divides(P, i, i.ts \ {})
      BY <1>1, <1>2, <3>1, OverIsAnEnd
    <3> QED  BY <1>4, <3>1, <3>2 DEF Ends
  <2> HIDE DEF P
  <2>2. WorkInv' /\ Placed' /\ Paid'
    BY <1>1, <1>2, <2>1, EndKeepsWork, EndKeepsPlaced, EndKeepsPaid
  <2>3. PassTyped'
    BY <1>1, <2>2, TypesOf, TypedAfter
  <2>4. Covered'
    <3> SUFFICES ASSUME NEW b \in 1 .. next, threw[b] = "none", NEW s \in Plan[b], produced[s] = "none"
                 PROVE  \E j \in work' : j.b = b /\ ~j.lost /\ s \in j.ts
      BY <1>1 DEF Covered
    <3>1. PICK k \in work : k.b = b /\ ~k.lost /\ s \in k.ts
      BY <1>2 DEF Covered
    <3> QED  BY <1>2, <2>1, <3>1, EndCovers
  <2>5. Mapped'
    BY <1>1, <1>2, <2>1, EndKeepsMapped DEF Mapped
  <2> QED  BY <1>3, <2>2, <2>3, <2>4, <2>5 DEF PassInv
<1>5. ASSUME NEW got \in SUBSET Asks(i), got # {}, work' = (work \ {i}) \union {[i EXCEPT !.st = "receipts", !.got = got]}
      PROVE  PassInv'
  <2> DEFINE m == [i EXCEPT !.st = "receipts", !.got = got]
  <2>1. got \subseteq i.ts
    <3>1. i.ts \subseteq Nat
      BY <1>2, PlanFacts
    <3>2. Min(i.ts) \in i.ts
      BY <1>2, <3>1, MinIsOne
    <3> QED  BY <3>2 DEF Asks
  <2>2. /\ m \in Items /\ m.b = i.b /\ m.ts = i.ts /\ m.kind = i.kind /\ m.st = "receipts" /\ m.got = got
        /\ m.lost = i.lost
    <3>1. i \in Items /\ got \in SUBSET Symbols /\ "receipts" \in Steps
      BY <1>2, <2>1 DEF Shaped, Steps
    <3> QED  BY <3>1 DEF Items
  <2> HIDE DEF m
  <2>3. Shaped(m)
    BY <1>1, <1>2, <1>5, <2>1, <2>2 DEF Shaped
  <2>4. Moves(i, m)
    BY <1>5, <2>2, <2>3 DEF Moves, m
  <2>5. WorkInv' /\ Placed' /\ Covered'
    BY <1>1, <1>2, <2>4, MoveKeepsWork, MoveKeepsCover
  <2>6. PassTyped'
    BY <1>1, <2>5, TypesOf, TypedAfter
  <2>7. Mapped'
    BY <1>1, <1>2, <2>4 DEF Mapped, Moves
  <2>8. Paid'
    BY <1>1, <1>2, <2>2, <2>4 DEF Paid, Moves
  <2> QED  BY <1>3, <2>5, <2>6, <2>7, <2>8 DEF PassInv
<1>6. \E got \in SUBSET Asks(i) : IF i.lost \/ got = {} THEN work' = Over(i, {})
        ELSE work' = (work \ {i}) \union {[i EXCEPT !.st = "receipts", !.got = got]}
  BY DEF Answer
<1> QED  BY <1>4, <1>5, <1>6

LEMMA ControlKeeps ==
  ASSUME NEW i \in work, NEW why \in {"degrade", "pause"}
  PROVE  PassInv /\ Control(i, why) => PassInv'
<1> SUFFICES ASSUME PassInv, Control(i, why)  PROVE PassInv'
  OBVIOUS
<1>1. /\ i.kind # "facts" /\ i.st = "ask"
      /\ work' = IF i.lost THEN work \ {i} ELSE Without(i)
      /\ threw' = IF i.lost \/ threw[i.b] # "none" THEN threw ELSE [threw EXCEPT ![i.b] = why]
      /\ UNCHANGED <<phase, next, settled, stop, fired, produced, results, receipts, mapping>>
  BY DEF Control
<1>2. /\ Shaped(i) /\ i.b \in Batches /\ i.b # 0 /\ i.ts \subseteq Symbols
      /\ WorkInv /\ Placed /\ Covered /\ Mapped /\ Paid /\ Phases /\ Recorded
  BY <1>1, PlanFacts DEF PassInv, WorkInv, Shaped, Items
<1>3. Ends(i, {}) /\ {} \in SUBSET i.ts /\ Divides({}, i, {})
  BY <1>1 DEF Ends, Divides
<1>4. WorkInv' /\ Placed' /\ Paid'
  BY <1>1, <1>2, <1>3, EndKeepsWork, EndKeepsPlaced, EndKeepsPaid
<1>5. threw' \in [Batches -> {"none", "degrade", "pause"}]
  BY <1>1, <1>2, TypesOf
<1>6. PassTyped'
  BY <1>1, <1>4, <1>5, TypesOf, TypedAfter
<1>7. \A b \in Batches : /\ threw'[b] = "none" => threw[b] = "none" /\ (i.lost \/ b # i.b)
                         /\ threw'[b] # threw[b] => b = i.b /\ ~i.lost
  BY <1>1, <1>2, TypesOf
<1>8. \A b \in 1 .. next : b \in Batches
  BY PlanFacts DEF PassInv, PassTyped, PassTypeOK
<1>9. Phases'
  <2>1. ASSUME NEW b \in settled, threw[b] = "none"  PROVE threw'[b] = "none"
    <3>1. b \in Batches
      BY <1>8 DEF PassInv, PassTyped
    <3>2. b = i.b => i.lost
      BY <1>2, <2>1 DEF Placed
    <3> QED  BY <1>7, <2>1, <3>1, <3>2
  <2> QED  BY <1>1, <1>2, <2>1 DEF Phases
<1>10. Recorded'
  <2>1. settled \subseteq Batches
    BY <1>8 DEF PassInv, PassTyped
  <2> QED  BY <1>1, <1>2, <1>7, <2>1 DEF Recorded
<1>11. Covered'
  <2> SUFFICES ASSUME NEW b \in 1 .. next, threw'[b] = "none", NEW s \in Plan[b], produced[s] = "none"
               PROVE  \E j \in work' : j.b = b /\ ~j.lost /\ s \in j.ts
    BY <1>1 DEF Covered
  <2>1. threw[b] = "none" /\ (i.lost \/ b # i.b)
    BY <1>7, <1>8
  <2>2. PICK k \in work : k.b = b /\ ~k.lost /\ s \in k.ts
    BY <1>2, <2>1 DEF Covered
  <2> QED  BY <1>2, <1>3, <2>1, <2>2, EndCovers
<1>12. Mapped'
  BY <1>1, <1>2, <1>3, EndKeepsMapped DEF Mapped
<1> QED  BY <1>4, <1>6, <1>9, <1>10, <1>11, <1>12 DEF PassInv

LEMMA ReceiptsKeeps == ASSUME NEW i \in work  PROVE PassInv /\ Receipts(i) => PassInv'
<1> SUFFICES ASSUME PassInv, Receipts(i)  PROVE PassInv'
  OBVIOUS
<1> DEFINE m == [i EXCEPT !.st = "unmap"]
<1>1. /\ i.st = "receipts" /\ work' = (work \ {i}) \union {m}
      /\ receipts' = [s \in Symbols |-> IF s \in i.got THEN receipts[s] + 1 ELSE receipts[s]]
      /\ UNCHANGED <<phase, next, settled, threw, stop, fired, produced, results, mapping>>
  BY DEF Receipts
<1>2. /\ Shaped(i) /\ i.b \in Batches /\ i.b # 0 /\ i.got \subseteq i.ts /\ i.got # {} /\ i.ts \subseteq Symbols
      /\ WorkInv /\ Placed /\ Covered /\ Mapped /\ Paid
  <2>1. Shaped(i) /\ WorkInv /\ Placed /\ Covered /\ Mapped /\ Paid
    BY DEF PassInv, WorkInv
  <2>2. i.b # 0 /\ i.b \in 0 .. NB
    BY <1>1, <2>1 DEF Shaped, Items
  <2> QED  BY <1>1, <2>1, <2>2, PlanFacts DEF Shaped, Items
<1>3. /\ m \in Items /\ m.b = i.b /\ m.ts = i.ts /\ m.kind = i.kind /\ m.st = "unmap" /\ m.got = i.got
      /\ m.lost = i.lost
  BY <1>2 DEF Shaped, Items, Steps
<1>4. Moves(i, m)
  <2> HIDE DEF m
  <2>1. Shaped(m)
    BY <1>1, <1>2, <1>3 DEF Shaped
  <2> QED  BY <1>1, <1>3, <2>1 DEF Moves
<1> HIDE DEF m
<1>5. WorkInv' /\ Placed' /\ Covered' /\ Phases' /\ Recorded'
  BY <1>1, <1>2, <1>4, MoveKeepsWork, MoveKeepsCover, PhasesAfter
<1>6. PassTyped'
  <2>1. receipts' \in [Symbols -> Nat]
    BY <1>1, TypesOf
  <2> QED  BY <1>1, <1>5, <2>1, TypesOf, TypedAfter
<1>7. Mapped'
  BY <1>1, <1>2, <1>4 DEF Mapped, Moves
<1>8. Paid'
  <2> SUFFICES ASSUME fired = 0  PROVE Paid'
    BY <1>1 DEF Paid
  <2>1. \A s \in i.got : receipts[s] = 0
    BY <1>1, <1>2 DEF Paid
  <2>2. \A j \in work' : j.kind # "hedge" /\ ~j.lost
    BY <1>1, <1>2, <1>3 DEF Paid
  <2>3. \A s \in Symbols : receipts'[s] <= 1
    BY <1>1, <1>2, <2>1, TypesOf DEF Paid
  <2>4. ASSUME NEW j \in work', j.b # 0, NEW s \in j.ts, j.st \in {"ask", "receipts"} \/ s \notin j.got
        PROVE  receipts'[s] = 0
    <3>1. CASE j = m
      <4>1. s \in i.ts /\ s \notin i.got /\ s \in Symbols
        BY <1>2, <1>3, <2>4, <3>1
      <4>2. receipts[s] = 0
        BY <1>2, <4>1 DEF Paid
      <4> QED  BY <1>1, <4>1, <4>2
    <3>2. CASE j \in work /\ j # i
      <4>1. receipts[s] = 0 /\ Shaped(j)
        BY <1>2, <2>4, <3>2 DEF Paid, WorkInv
      <4>2. s \notin i.got
        <5> SUFFICES ASSUME s \in i.got  PROVE FALSE
          OBVIOUS
        <5>1. j.b = i.b
          <6>1. j.b \in Batches /\ s \in Plan[j.b] /\ s \in Plan[i.b]
            BY <1>2, <2>4, <4>1, PlanFacts DEF Shaped, Items
          <6> QED  BY <1>2, <6>1, PassAssumption DEF IsPlan, Batches, NB
        <5>2. {i.kind, j.kind} = {"whole", "hedge"}
          BY <1>2, <2>2, <2>4, <3>2, <5>1 DEF WorkInv, Apart, Paid
        <5>3. i.kind # "hedge" /\ j.kind # "hedge"
          BY <1>2, <3>2 DEF Paid
        <5> QED  BY <5>2, <5>3
      <4>3. s \in Symbols
        BY <4>1 DEF Shaped, Items
      <4> QED  BY <1>1, <4>1, <4>2, <4>3
    <3> QED  BY <1>1, <2>4, <3>1, <3>2
  <2>5. ASSUME NEW b \in Batches, b > next, NEW s \in Plan[b]  PROVE receipts'[s] = 0
    <3>1. i.b # b
      <4>1. i.b <= next /\ next \in Nat /\ b \in Nat
        BY <1>2, PlanFacts DEF Placed, PassInv, PassTyped, PassTypeOK
      <4> QED  BY <4>1, <2>5, <1>2, PlanFacts
    <3>2. s \notin i.got
      BY <1>2, <3>1, PassAssumption DEF Shaped, IsPlan, Batches, NB
    <3>3. s \in Symbols /\ receipts[s] = 0
      BY <1>2, <2>5, PlanFacts DEF Paid
    <3> QED  BY <1>1, <3>2, <3>3
  <2> QED  BY <1>1, <2>2, <2>3, <2>4, <2>5 DEF Paid
<1> QED  BY <1>5, <1>6, <1>7, <1>8 DEF PassInv

LEMMA UnmapKeeps == ASSUME NEW i \in work  PROVE PassInv /\ Unmap(i) => PassInv'
<1> SUFFICES ASSUME PassInv, Unmap(i)  PROVE PassInv'
  OBVIOUS
<1> DEFINE m == [i EXCEPT !.st = "map"]
<1>1. /\ i.st = "unmap" /\ work' = (work \ {i}) \union {m}
      /\ mapping' = [s \in Symbols |-> IF s \in i.got THEN {} ELSE mapping[s]]
      /\ UNCHANGED <<phase, next, settled, threw, stop, fired, produced, results, receipts>>
  BY DEF Unmap
<1>2. Shaped(i) /\ WorkInv /\ Placed /\ Covered /\ Mapped /\ Paid
  BY DEF PassInv, WorkInv
<1>3. /\ m \in Items /\ m.b = i.b /\ m.ts = i.ts /\ m.kind = i.kind /\ m.st = "map" /\ m.got = i.got
      /\ m.lost = i.lost
  BY <1>2 DEF Shaped, Items, Steps
<1>4. Moves(i, m)
  <2> HIDE DEF m
  <2>1. Shaped(m)
    BY <1>1, <1>2, <1>3 DEF Shaped
  <2> QED  BY <1>1, <1>3, <2>1 DEF Moves
<1> HIDE DEF m
<1>5. WorkInv' /\ Placed' /\ Covered' /\ Phases' /\ Recorded'
  BY <1>1, <1>2, <1>4, MoveKeepsWork, MoveKeepsCover, PhasesAfter
<1>6. PassTyped'
  <2>1. mapping' \in [Symbols -> SUBSET {"llm", "facts"}]
    BY <1>1, TypesOf
  <2> QED  BY <1>1, <1>5, <2>1, TypesOf, TypedAfter
<1>7. Mapped'
  <2> SUFFICES ASSUME NEW s \in Symbols, produced[s] # "none" \/ results[s] # "none", mapping'[s] = {}
               PROVE  \E j \in work' : j.st = "map" /\ s \in j.got
    BY <1>1 DEF Mapped
  <2>1. CASE s \in i.got
    BY <1>1, <1>3, <2>1
  <2>2. CASE s \notin i.got
    <3>1. mapping[s] = {}
      BY <1>1, <2>2
    <3>2. PICK k \in work : k.st = "map" /\ s \in k.got
      BY <1>2, <3>1 DEF Mapped
    <3> QED  BY <1>1, <3>2
  <2> QED  BY <2>1, <2>2
<1>8. Paid'
  BY <1>1, <1>2, <1>3, <1>4 DEF Paid, Moves
<1> QED  BY <1>5, <1>6, <1>7, <1>8 DEF PassInv

LEMMA MapKeeps == ASSUME NEW i \in work  PROVE PassInv /\ Map(i) => PassInv'
<1> SUFFICES ASSUME PassInv, Map(i)  PROVE PassInv'
  OBVIOUS
<1> DEFINE what == IF i.kind = "facts" THEN "facts" ELSE "llm"
           rest == i.ts \ i.got
<1>1. /\ i.st = "map"
      /\ mapping' = [s \in Symbols |-> IF s \in i.got THEN mapping[s] \union {what} ELSE mapping[s]]
      /\ UNCHANGED <<phase, next, settled, threw, stop, fired, receipts>>
  BY DEF Map
<1>2. what \in {"facts", "llm"} /\ what # "none"
  OBVIOUS
<1>3. /\ Shaped(i) /\ i.got \subseteq i.ts /\ i.got # {} /\ i.got \subseteq Symbols
      /\ WorkInv /\ Placed /\ Covered /\ Mapped /\ Paid /\ Phases /\ Recorded
  <2>1. Shaped(i) /\ WorkInv /\ Placed /\ Covered /\ Mapped /\ Paid /\ Phases /\ Recorded
    BY DEF PassInv, WorkInv
  <2> QED  BY <1>1, <2>1 DEF Shaped, Items
<1>4. rest \in SUBSET i.ts
  OBVIOUS
<1>5. i.kind = "facts" => i.lost = FALSE /\ Without(i) = work \ {i}
  <2> SUFFICES ASSUME i.kind = "facts"  PROVE i.lost = FALSE /\ Without(i) = work \ {i}
    OBVIOUS
  <2>1. Rivals(i) = {}
    BY DEF Rivals
  <2>2. i.lost = FALSE
    BY <1>3 DEF Shaped, Items
  <2> QED  BY <2>1, <2>2 DEF Without
<1>6. \E P : Ends(i, P) /\ Divides(P, i, rest) /\ (i.b = 0 => P = {})
  <2>1. CASE i.kind = "facts" /\ i.b = 0
    <3>1. rest = {}
      BY <1>3, <2>1 DEF Shaped
    <3>2. work' = work \ {i}
      <4>1. work' = (work \ {i}) \union Again(i.b, rest)
        BY <2>1 DEF Map
      <4>2. Again(i.b, {}) = {}
        BY DEF Again
      <4> QED  BY <3>1, <4>1, <4>2
    <3>3. Ends(i, {}) /\ Divides({}, i, {})
      BY <1>5, <2>1, <3>2 DEF Ends, Divides
    <3> QED  BY <3>1, <3>3
  <2>2. CASE i.kind = "facts" /\ i.b # 0
    <3>1. work' = (work \ {i}) \union Again(i.b, rest)
      BY <2>2 DEF Map
    <3> HIDE DEF rest
    <3>2. Divides(Again(i.b, rest), i, rest)
      BY <1>3, <1>4, <2>2, AgainDivides
    <3>3. Ends(i, Again(i.b, rest))
      BY <1>5, <2>2, <3>1 DEF Ends
    <3> QED  BY <2>2, <3>2, <3>3
  <2>3. CASE i.kind # "facts"
    <3>1. work' = Over(i, i.got)
      BY <2>3 DEF Map
    <3>2. /\ Over(i, i.got) = IF i.lost THEN work \ {i} ELSE Without(i) \union Followers(i, i.got)
          /\ Divides(Followers(i, i.got), i, rest) /\ i.b # 0
      BY <1>3, <2>3, OverIsAnEnd
    <3>3. Ends(i, Followers(i, i.got))
      BY <3>1, <3>2 DEF Ends
    <3> QED  BY <3>2, <3>3
  <2> QED  BY <2>1, <2>2, <2>3
<1>7. PICK P : Ends(i, P) /\ Divides(P, i, rest) /\ (i.b = 0 => P = {})
  BY <1>6
<1>8. /\ i.b = 0 => /\ results' = [s \in Symbols |-> IF s \in i.got THEN what ELSE results[s]]
                    /\ produced' = produced
      /\ i.b # 0 => produced' = Yields(i, i.got, what) /\ results' = results
  <2>1. i.b = 0 => i.kind = "facts"
    BY <1>3 DEF Shaped
  <2>2. CASE i.kind = "facts"
    BY <2>2 DEF Map
  <2>3. CASE i.kind # "facts"
    BY <2>1, <2>3 DEF Map
  <2> QED  BY <2>2, <2>3
<1> HIDE DEF what, rest
<1>9. \A s \in Symbols : /\ produced[s] # "none" => produced'[s] # "none"
                         /\ results[s] # "none" => results'[s] # "none"
                         /\ s \notin i.got => produced'[s] = produced[s] /\ results'[s] = results[s]
                         /\ s \in i.got /\ i.b # 0 /\ ~i.lost => produced'[s] # "none"
  BY <1>2, <1>8 DEF Yields
<1>10. /\ produced' \in [Symbols -> {"none", "llm", "facts"}] /\ results' \in [Symbols -> {"none", "llm", "facts"}]
       /\ mapping' \in [Symbols -> SUBSET {"llm", "facts"}]
  <2>1. produced' \in [Symbols -> {"none", "llm", "facts"}]
    BY <1>2, <1>8, TypesOf DEF Yields
  <2>2. results' \in [Symbols -> {"none", "llm", "facts"}]
    BY <1>2, <1>8, TypesOf
  <2>3. mapping' \in [Symbols -> SUBSET {"llm", "facts"}]
    BY <1>1, <1>2, TypesOf
  <2> QED  BY <2>1, <2>2, <2>3
<1>11. WorkInv' /\ Placed' /\ Paid'
  <2>1. i.b # 0 => rest \subseteq i.ts \ i.got
    BY DEF rest
  <2>2. WorkInv'
    BY <1>3, <1>4, <1>7, EndKeepsWork
  <2>3. Placed'
    BY <1>1, <1>3, <1>4, <1>7, EndKeepsPlaced
  <2>4. Paid'
    BY <1>1, <1>3, <1>4, <1>7, <2>1, EndKeepsPaid
  <2> QED  BY <2>2, <2>3, <2>4
<1>12. PassTyped'
  BY <1>1, <1>10, <1>11, TypesOf, TypedAfter
<1>13. Phases'
  BY <1>1, <1>3, <1>9 DEF Phases
<1>14. \A b \in 1 .. next : b \in Batches /\ Plan[b] \subseteq Symbols /\ b # 0
  BY PlanFacts DEF PassInv, PassTyped, PassTypeOK
<1>15. Recorded'
  <2>1. \A b \in settled : Plan[b] \subseteq Symbols
    BY <1>14 DEF PassInv, PassTyped
  <2> QED  BY <1>1, <1>3, <1>9, <2>1 DEF Recorded
<1>16. Covered'
  <2> SUFFICES ASSUME NEW b \in 1 .. next, threw[b] = "none", NEW s \in Plan[b], produced'[s] = "none"
               PROVE  \E j \in work' : j.b = b /\ ~j.lost /\ s \in j.ts
    BY <1>1 DEF Covered
  <2>1. produced[s] = "none" /\ s \in Symbols /\ b # 0
    BY <1>9, <1>14
  <2>2. PICK k \in work : k.b = b /\ ~k.lost /\ s \in k.ts
    BY <1>3, <2>1 DEF Covered
  <2>3. ~(i.b = k.b /\ ~i.lost /\ s \in i.ts \ rest)
    BY <1>9, <2>1, <2>2 DEF rest
  <2>4. \/ i.b = k.b /\ ~i.lost /\ s \in i.ts \ rest
        \/ \E j \in work' : j.b = k.b /\ ~j.lost /\ s \in j.ts
    BY <1>3, <1>4, <1>7, <2>1, <2>2, EndCovers
  <2> QED  BY <2>2, <2>3, <2>4
<1>17. Mapped'
  <2> SUFFICES ASSUME NEW s \in Symbols, produced'[s] # "none" \/ results'[s] # "none", mapping'[s] = {}
               PROVE  \E j \in work' : j.st = "map" /\ s \in j.got
    BY DEF Mapped
  <2>1. s \notin i.got
    BY <1>1
  <2>2. mapping[s] = {} /\ (produced[s] # "none" \/ results[s] # "none")
    BY <1>1, <1>9, <2>1
  <2> QED  BY <1>3, <1>7, <2>1, <2>2, EndKeepsMapped
<1> QED  BY <1>11, <1>12, <1>13, <1>15, <1>16, <1>17 DEF PassInv

LEMMA PassStep == PassInv /\ [PassNext]_passVars => PassInv'
<1> SUFFICES ASSUME PassInv, [PassNext]_passVars  PROVE PassInv'
  OBVIOUS
<1>1. CASE Launch
  BY <1>1, LaunchKeeps
<1>2. CASE BatchesEnd
  BY <1>2, BatchesEndKeeps
<1>3. CASE Degrade
  BY <1>3, DegradeStepKeeps
<1>4. ASSUME NEW b \in Batches, Hedge(b) \/ SettleBatch(b)  PROVE PassInv'
  BY <1>4, HedgeKeeps, SettleBatchKeeps
<1>5. ASSUME NEW i \in work,
             \/ Answer(i) \/ Receipts(i) \/ Unmap(i) \/ Map(i)
             \/ \E why \in {"degrade", "pause"} : Control(i, why)
      PROVE  PassInv'
  BY <1>5, AnswerKeeps, ReceiptsKeeps, UnmapKeeps, MapKeeps, ControlKeeps
<1>6. CASE UNCHANGED passVars
  <2>1. UNCHANGED <<phase, next, work, settled, threw, stop, fired, produced, results, receipts, mapping>>
    BY <1>6 DEF passVars
  <2>2. WorkInv' /\ Covered' /\ Recorded' /\ Mapped' /\ Paid'
    BY <2>1, StandsStill
  <2>3. PassTyped' /\ Placed' /\ Phases'
    BY <2>1 DEF PassInv, PassTyped, PassTypeOK, Placed, Phases
  <2> QED  BY <2>2, <2>3 DEF PassInv
<1> QED  BY <1>1, <1>2, <1>3, <1>4, <1>5, <1>6 DEF PassNext

PassKept == EverySymbolRecorded /\ PartsDisjoint /\ TwiceOnlyWhenHedged

LEMMA PassInvKept == PassInv => PassKept
<1> SUFFICES ASSUME PassInv  PROVE PassKept
  OBVIOUS
<1>1. EverySymbolRecorded
  BY DEF PassInv, Phases, Mapped, EverySymbolRecorded, Quiet
<1>2. PartsDisjoint
  <2> SUFFICES ASSUME NEW i \in work, NEW j \in work, i # j, ~i.lost, ~j.lost, i.ts \cap j.ts # {}
               PROVE  {i.kind, j.kind} = {"whole", "hedge"}
    BY DEF PartsDisjoint
  <2>1. Shaped(i) /\ Shaped(j) /\ Placed /\ Apart /\ Phases
    BY DEF PassInv, WorkInv
  <2>2. CASE i.b # 0 /\ j.b # 0
    <3>1. i.b = j.b
      <4>1. i.b \in Batches /\ j.b \in Batches /\ i.ts \subseteq Plan[i.b] /\ j.ts \subseteq Plan[j.b]
        BY <2>1, <2>2, PlanFacts DEF Shaped, Items
      <4> QED  BY <4>1, PassAssumption DEF IsPlan, Batches, NB
    <3> QED  BY <2>1, <2>2, <3>1 DEF Apart
  <2>3. ASSUME NEW k \in work, k.b = 0, NEW l \in work, l # k, ~l.lost  PROVE FALSE
    <3>1. l.b # 0 /\ phase = "degrading" /\ l.b <= next /\ l.b \notin settled
      BY <2>1, <2>3 DEF Placed
    <3>2. settled = 1 .. next /\ next \in 0 .. NB
      BY <2>1, <3>1 DEF Phases, PassInv, PassTyped, PassTypeOK
    <3>3. l.b \in 0 .. NB
      BY ShapedItems DEF PassInv
    <3> QED  BY <3>1, <3>2, <3>3, PlanFacts
  <2> QED  BY <2>2, <2>3
<1>3. TwiceOnlyWhenHedged
  <2>1. fired \in Nat /\ \A s \in Symbols : receipts[s] \in Nat
    BY PlanFacts DEF PassInv, PassTyped, PassTypeOK
  <2> QED  BY <2>1 DEF PassInv, Paid, TwiceOnlyWhenHedged
<1> QED  BY <1>1, <1>2, <1>3 DEF PassKept

\* Whatever fails, is halved, hedged, stopped or degraded, a pass that completes
\* has a result for every symbol and, once quiet, a row of the snapshot for it; no
\* symbol is asked about by two live parts but the two copies of a hedge, and
\* only a hedge makes the receipts of a record double.
THEOREM PassKeepsSymbols == PassSpec => [](PassTypeOK /\ PassKept)
<1>1. PassInv => PassTypeOK /\ PassKept
  BY PassInvKept DEF PassInv, PassTyped
<1> QED  BY PassStart, PassStep, <1>1, PTL DEF PassSpec

------------------------------------------------------------------------------
(* A behaviour of PartSpec is one of one part; here, the plan or the pass. *)

PartInv ==
    /\ part = "plan" => PlanInv
    /\ part = "symbols" => PassInv

\* Whatever is planned and whatever a pass meets: every symbol is in one call
\* within the caps, at the price estimated, with its family where that fits;
\* and a pass that completed recorded every symbol, asked about by no two live
\* parts but the copies of a hedge, with its receipts twice only after a hedge.
THEOREM SymbolsAreKept == PartSpec => []SymbolsKept
<1>1. PartInit => PartInv
  BY PlanStart, PassStart DEF PartInit, PartInv
<1>2. PartInv /\ [PartNext]_allVars => PartInv'
  <2> SUFFICES ASSUME PartInv, [PartNext]_allVars  PROVE PartInv'
    OBVIOUS
  <2>1. CASE StepBudget
    BY <2>1 DEF StepBudget, PartInv
  <2>2. CASE StepPlan
    <3>1. PlanInv'
      BY <2>2, PlanStep DEF StepPlan, PartInv
    <3> QED  BY <2>2, <3>1 DEF StepPlan, PartInv
  <2>3. CASE StepSymbols
    <3>1. PassInv'
      BY <2>3, PassStep DEF StepSymbols, PartInv
    <3> QED  BY <2>3, <3>1 DEF StepSymbols, PartInv
  <2>4. CASE UNCHANGED allVars
    <3>1. part' = part /\ UNCHANGED planVars /\ UNCHANGED passVars
      BY <2>4 DEF allVars
    <3>2. PartInv /\ UNCHANGED planVars => (part = "plan" => PlanInv')
      BY PlanStep DEF PartInv
    <3>3. PartInv /\ UNCHANGED passVars => (part = "symbols" => PassInv')
      BY PassStep DEF PartInv
    <3> QED  BY <3>1, <3>2, <3>3 DEF PartInv
  <2> QED  BY <2>1, <2>2, <2>3, <2>4 DEF PartNext
<1>3. PartInv => SymbolsKept
  BY PlanInvKept, PassInvKept DEF PartInv, SymbolsKept, PlanKept, PassKept
<1> QED  BY <1>1, <1>2, <1>3, PTL DEF PartSpec

------------------------------------------------------------------------------
(* The budget of a job. *)

USE BudgetAssumption, BoundsAssumption, JobsAssumption

\* The writes of an executor can be counted, which is what HasLane does.
WritesFinite == \A x \in Executors : IsFiniteSet(enf[x].writes)

TypeInv == TypeOK /\ WritesFinite

\* An executor that is not off carries a run.
LEMMA RunningEnf ==
  ASSUME TypeInv, NEW x \in Executors, enf[x].at # "off"
  PROVE  enf[x] \in Running
BY DEF TypeInv, TypeOK, Enforcer, FreeEnf

\* One that is off is free.
LEMMA OffEnf ==
  ASSUME TypeInv, NEW x \in Executors, enf[x].at = "off"
  PROVE  enf[x] = FreeEnf
BY DEF TypeInv, TypeOK, Enforcer, Running

\* Replacing one enforcer by a well-typed one keeps them well-typed.
LEMMA EnfUpdate ==
  ASSUME TypeInv, NEW x \in Executors, NEW e \in Enforcer, IsFiniteSet(e.writes),
         enf' = [enf EXCEPT ![x] = e]
  PROVE  /\ enf' \in [Executors -> Enforcer]
         /\ \A y \in Executors : IsFiniteSet(enf'[y].writes)
<1>1. enf \in [Executors -> Enforcer]
  BY DEF TypeInv, TypeOK
<1>2. enf'[x] = e /\ \A y \in Executors \ {x} : enf'[y] = enf[y]
  BY <1>1
<1>3. \A y \in Executors : IsFiniteSet(enf[y].writes)
  BY DEF TypeInv, WritesFinite
<1> QED BY <1>1, <1>2, <1>3

LEMMA FreeIsEnf == FreeEnf \in Enforcer /\ IsFiniteSet(FreeEnf.writes)
BY FS_EmptySet DEF FreeEnf, Enforcer

LEMMA TypeInit == Init => TypeInv
<1> SUFFICES ASSUME Init PROVE TypeInv
  OBVIOUS
<1>1. job \in [Jobs -> JobRow]
  BY DEF Init, JobRow, Status
<1>2. enf \in [Executors -> Enforcer] /\ WritesFinite
  BY FreeIsEnf DEF Init, WritesFinite
<1>3. stored \in Nat /\ made \in [Jobs -> Nat] /\ lost \in Nat
  BY DEF Init
<1>4. spent \in [clicks : 0..MaxClicks, crashes : 0..MaxCrashes, faults : 0..MaxFaults]
  BY DEF Init
<1> QED BY <1>1, <1>2, <1>3, <1>4 DEF TypeInv, TypeOK

LEMMA UsedIsNat ==
  ASSUME TypeInv, NEW x \in Executors, enf[x] \in Running
  PROVE  usedThisRun(x) \in Nat
BY DEF usedThisRun, Running

\* A lane is free only while fewer than Fanout calls are unanswered.
LEMMA LaneFree ==
  ASSUME TypeInv, NEW x \in Executors, enf[x] \in Running, HasLane(x)
  PROVE  enf[x].flights < Fanout
<1>1. IsFiniteSet(enf[x].writes)
  BY DEF TypeInv, WritesFinite
<1>2. Cardinality(enf[x].writes) \in Nat
  BY <1>1, FS_CardinalityType
<1>3. enf[x].flights \in Nat
  BY DEF Running
<1> QED BY <1>2, <1>3 DEF HasLane

LEMMA TypeStep == TypeInv /\ [Next]_vars => TypeInv'
<1> SUFFICES ASSUME TypeInv, [Next]_vars PROVE TypeInv'
  OBVIOUS
<1> USE DEF TypeInv
<1>0. /\ job \in [Jobs -> JobRow] /\ stored \in Nat /\ enf \in [Executors -> Enforcer]
      /\ made \in [Jobs -> Nat] /\ lost \in Nat
      /\ spent \in [clicks : 0..MaxClicks, crashes : 0..MaxCrashes, faults : 0..MaxFaults]
      /\ \A y \in Executors : IsFiniteSet(enf[y].writes)
  BY DEF TypeOK, WritesFinite
<1>a. ASSUME NEW x \in Executors, NEW j \in Jobs, Deliver(x, j) PROVE TypeInv'
  <2> DEFINE e == [at |-> "loading", job |-> j, usage |-> 0, base |-> 0, dirty |-> 0,
                   flights |-> 0, writes |-> {}, why |-> "none"]
  <2>1. 0 \in 0..(FlushEvery - 1) /\ 0 \in 0..Fanout /\ {} \in SUBSET Nat
    OBVIOUS
  <2>2. e \in Enforcer /\ IsFiniteSet(e.writes)
    BY <2>1, FS_EmptySet DEF Enforcer, Running
  <2>3. enf' = [enf EXCEPT ![x] = e]
    BY <1>a DEF Deliver
  <2>4. job' \in [Jobs -> JobRow]
    BY <1>0, <1>a DEF Deliver, JobRow, Status
  <2>5. UNCHANGED <<stored, made, lost, spent>>
    BY <1>a DEF Deliver
  <2> HIDE DEF e
  <2>6. enf' \in [Executors -> Enforcer] /\ \A y \in Executors : IsFiniteSet(enf'[y].writes)
    BY <2>2, <2>3, EnfUpdate
  <2> QED BY <1>0, <2>4, <2>5, <2>6 DEF TypeOK, WritesFinite
<1>b. ASSUME NEW x \in Executors, Load(x) PROVE TypeInv'
  <2>1. enf[x] \in Running
    BY <1>b, RunningEnf DEF Load, In
  <2> DEFINE e == [enf[x] EXCEPT !.at = "claiming", !.usage = stored]
  <2>2. e \in Enforcer /\ e.writes = enf[x].writes
    BY <1>0, <2>1 DEF Enforcer, Running
  <2>3. enf' = [enf EXCEPT ![x] = e] /\ UNCHANGED <<job, stored, made, lost, spent>>
    BY <1>b DEF Load
  <2> HIDE DEF e
  <2>4. enf' \in [Executors -> Enforcer] /\ \A y \in Executors : IsFiniteSet(enf'[y].writes)
    BY <1>0, <2>2, <2>3, EnfUpdate
  <2> QED BY <1>0, <2>3, <2>4 DEF TypeOK, WritesFinite
<1>c. ASSUME NEW x \in Executors, claimBaseline(x) PROVE TypeInv'
  <2>1. enf[x] \in Running
    BY <1>c, RunningEnf DEF claimBaseline, In
  <2>2. job[enf[x].job] \in JobRow /\ enf[x].usage \in Nat
    BY <1>0, <2>1 DEF Running
  <2>3. Baseline(x) \in Nat
    BY <2>2 DEF Baseline, JobRow
  <2> DEFINE e == [enf[x] EXCEPT !.at = "phase", !.base = Baseline(x)]
  <2>4. e \in Enforcer /\ e.writes = enf[x].writes
    BY <2>1, <2>3 DEF Enforcer, Running
  <2>5. enf' = [enf EXCEPT ![x] = e] /\ UNCHANGED <<stored, made, lost, spent>>
    BY <1>c DEF claimBaseline
  <2>6. [job[enf[x].job] EXCEPT !.baseline = Baseline(x)] \in JobRow
    BY <2>2, <2>3 DEF JobRow
  <2>7. job' \in [Jobs -> JobRow]
    BY <1>0, <1>c, <2>6 DEF claimBaseline
  <2> HIDE DEF e
  <2>8. enf' \in [Executors -> Enforcer] /\ \A y \in Executors : IsFiniteSet(enf'[y].writes)
    BY <1>0, <2>4, <2>5, EnfUpdate
  <2> QED BY <1>0, <2>5, <2>7, <2>8 DEF TypeOK, WritesFinite
<1>d. ASSUME NEW x \in Executors, ClaimFails(x) PROVE TypeInv'
  <2>1. enf[x] \in Running
    BY <1>d, RunningEnf DEF ClaimFails, In
  <2> DEFINE e == [enf[x] EXCEPT !.at = "phase", !.base = enf[x].usage]
  <2>2. e \in Enforcer /\ e.writes = enf[x].writes
    BY <2>1 DEF Enforcer, Running
  <2>3. enf' = [enf EXCEPT ![x] = e] /\ UNCHANGED <<job, stored, made, lost>>
    BY <1>d DEF ClaimFails
  <2>4. spent'.faults \in 0..MaxFaults /\ spent' \in [clicks : 0..MaxClicks, crashes : 0..MaxCrashes, faults : 0..MaxFaults]
    BY <1>0, <1>d DEF ClaimFails
  <2> HIDE DEF e
  <2>5. enf' \in [Executors -> Enforcer] /\ \A y \in Executors : IsFiniteSet(enf'[y].writes)
    BY <1>0, <2>2, <2>3, EnfUpdate
  <2> QED BY <1>0, <2>3, <2>4, <2>5 DEF TypeOK, WritesFinite
<1>e. ASSUME NEW x \in Executors, Dispatch(x) PROVE TypeInv'
  <2>1. enf[x] \in Running
    BY <1>e, RunningEnf DEF Dispatch, In
  <2>2. enf[x].flights + 1 \in 0..Fanout
    BY <1>e, <2>1, LaneFree DEF Dispatch, Running
  <2> DEFINE e == [enf[x] EXCEPT !.flights = enf[x].flights + 1]
  <2>3. e \in Enforcer /\ e.writes = enf[x].writes
    BY <2>1, <2>2 DEF Enforcer, Running
  <2>4. enf' = [enf EXCEPT ![x] = e] /\ UNCHANGED <<job, stored, made, lost, spent>>
    BY <1>e DEF Dispatch
  <2> HIDE DEF e
  <2>5. enf' \in [Executors -> Enforcer] /\ \A y \in Executors : IsFiniteSet(enf'[y].writes)
    BY <1>0, <2>3, <2>4, EnfUpdate
  <2> QED BY <1>0, <2>4, <2>5 DEF TypeOK, WritesFinite
<1>f. ASSUME NEW x \in Executors, Trip(x) PROVE TypeInv'
  <2>1. enf[x] \in Running
    BY <1>f, RunningEnf DEF Trip, In
  <2>2. 0 \in 0..(FlushEvery - 1)
    OBVIOUS
  <2> DEFINE e == [enf[x] EXCEPT !.at = "settling", !.why = "tripped", !.dirty = 0]
  <2>3. e \in Enforcer /\ e.writes = enf[x].writes
    BY <2>1, <2>2 DEF Enforcer, Running
  <2>4. enf' = [enf EXCEPT ![x] = e] /\ stored' \in Nat /\ UNCHANGED <<job, made, lost, spent>>
    BY <1>f, <2>1 DEF Trip, Running
  <2> HIDE DEF e
  <2>5. enf' \in [Executors -> Enforcer] /\ \A y \in Executors : IsFiniteSet(enf'[y].writes)
    BY <1>0, <2>3, <2>4, EnfUpdate
  <2> QED BY <1>0, <2>4, <2>5 DEF TypeOK, WritesFinite
<1>g. ASSUME NEW x \in Executors, Killed(x) PROVE TypeInv'
  <2>1. enf[x] \in Running
    BY <1>g, RunningEnf DEF Killed, In
  <2> DEFINE e == [enf[x] EXCEPT !.at = "settling", !.why = "killed"]
  <2>2. e \in Enforcer /\ e.writes = enf[x].writes
    BY <2>1 DEF Enforcer, Running
  <2>3. enf' = [enf EXCEPT ![x] = e] /\ UNCHANGED <<job, stored, made, lost, spent>>
    BY <1>g DEF Killed
  <2> HIDE DEF e
  <2>4. enf' \in [Executors -> Enforcer] /\ \A y \in Executors : IsFiniteSet(enf'[y].writes)
    BY <1>0, <2>2, <2>3, EnfUpdate
  <2> QED BY <1>0, <2>3, <2>4 DEF TypeOK, WritesFinite
<1>h. ASSUME NEW x \in Executors, AnswerOk(x) PROVE TypeInv'
  <2>1. enf[x] \in Running
    BY <1>0, <1>h DEF AnswerOk, Enforcer, FreeEnf
  <2>2. made' \in [Jobs -> Nat]
    <3>1. made[enf[x].job] + 1 \in Nat
      BY <1>0, <2>1 DEF Running
    <3> QED BY <1>0, <1>h, <3>1 DEF AnswerOk
  <2>3. PICK due \in BOOLEAN :
          /\ MustFlush(enf[x].dirty + 1) => due
          /\ enf' = [enf EXCEPT ![x].flights = enf[x].flights - 1,
                                ![x].usage   = enf[x].usage + 1,
                                ![x].dirty   = IF due THEN 0 ELSE enf[x].dirty + 1,
                                ![x].writes  = IF due THEN enf[x].writes \union {enf[x].usage + 1}
                                               ELSE enf[x].writes]
    BY <1>h DEF AnswerOk
  <2> DEFINE dirty  == IF due THEN 0 ELSE enf[x].dirty + 1
             writes == IF due THEN enf[x].writes \union {enf[x].usage + 1} ELSE enf[x].writes
             e == [enf[x] EXCEPT !.flights = enf[x].flights - 1, !.usage = enf[x].usage + 1,
                                 !.dirty = dirty, !.writes = writes]
  <2>4. dirty \in 0..(FlushEvery - 1)
    BY <2>1, <2>3 DEF Running, MustFlush
  <2>5. writes \in SUBSET Nat
    BY <2>1 DEF Running
  <2>6. IsFiniteSet(writes)
    BY <1>0, FS_AddElement
  <2>7. enf[x].flights - 1 \in 0..Fanout /\ enf[x].usage + 1 \in Nat
    BY <1>h, <2>1 DEF AnswerOk, Running
  <2>8. enf' = [enf EXCEPT ![x] = e]
    BY <2>3
  <2> HIDE DEF dirty, writes
  <2>9. e \in Enforcer /\ e.writes = writes
    BY <2>1, <2>4, <2>5, <2>7 DEF Enforcer, Running
  <2> HIDE DEF e
  <2>10. enf' \in [Executors -> Enforcer] /\ \A y \in Executors : IsFiniteSet(enf'[y].writes)
    BY <2>6, <2>8, <2>9, EnfUpdate
  <2>11. UNCHANGED <<job, stored, lost, spent>>
    BY <1>h DEF AnswerOk
  <2> QED BY <1>0, <2>2, <2>10, <2>11 DEF TypeOK, WritesFinite
<1>i. ASSUME NEW x \in Executors, NEW total \in enf[x].writes, Landed(x, total) PROVE TypeInv'
  <2>1. enf[x] \in Running
    BY <1>0, <1>i DEF Enforcer, FreeEnf
  <2> DEFINE e == [enf[x] EXCEPT !.writes = enf[x].writes \ {total}]
  <2>2. e \in Enforcer /\ e.writes = enf[x].writes \ {total}
    BY <2>1 DEF Enforcer, Running
  <2>3. IsFiniteSet(e.writes)
    BY <1>0, <2>2, FS_RemoveElement
  <2>4. enf' = [enf EXCEPT ![x] = e] /\ stored' \in Nat /\ UNCHANGED <<job, made, lost, spent>>
    BY <1>i, <2>1 DEF Landed, Running
  <2> HIDE DEF e
  <2>5. enf' \in [Executors -> Enforcer] /\ \A y \in Executors : IsFiniteSet(enf'[y].writes)
    BY <2>2, <2>3, <2>4, EnfUpdate
  <2> QED BY <1>0, <2>4, <2>5 DEF TypeOK, WritesFinite
<1>j. ASSUME NEW x \in Executors, AnswerError(x) PROVE TypeInv'
  <2>1. enf[x] \in Running
    BY <1>0, <1>j DEF AnswerError, Enforcer, FreeEnf
  <2>2. enf[x].flights - 1 \in 0..Fanout
    BY <1>j, <2>1 DEF AnswerError, Running
  <2> DEFINE e == [enf[x] EXCEPT !.flights = enf[x].flights - 1]
  <2>3. e \in Enforcer /\ e.writes = enf[x].writes
    BY <2>1, <2>2 DEF Enforcer, Running
  <2>4. enf' = [enf EXCEPT ![x] = e] /\ UNCHANGED <<job, stored, made, lost, spent>>
    BY <1>j DEF AnswerError
  <2> HIDE DEF e
  <2>5. enf' \in [Executors -> Enforcer] /\ \A y \in Executors : IsFiniteSet(enf'[y].writes)
    BY <1>0, <2>3, <2>4, EnfUpdate
  <2> QED BY <1>0, <2>4, <2>5 DEF TypeOK, WritesFinite
<1>k. ASSUME NEW x \in Executors, Boundary(x) PROVE TypeInv'
  <2>1. enf[x] \in Running
    BY <1>k, RunningEnf DEF Boundary, In
  <2>2. 0 \in 0..(FlushEvery - 1)
    OBVIOUS
  <2> DEFINE e == [enf[x] EXCEPT !.dirty = 0]
  <2>3. e \in Enforcer /\ e.writes = enf[x].writes
    BY <2>1, <2>2 DEF Enforcer, Running
  <2>4. enf' = [enf EXCEPT ![x] = e] /\ stored' \in Nat /\ UNCHANGED <<job, made, lost, spent>>
    BY <1>k, <2>1 DEF Boundary, Running
  <2> HIDE DEF e
  <2>5. enf' \in [Executors -> Enforcer] /\ \A y \in Executors : IsFiniteSet(enf'[y].writes)
    BY <1>0, <2>3, <2>4, EnfUpdate
  <2> QED BY <1>0, <2>4, <2>5 DEF TypeOK, WritesFinite
<1>l. ASSUME NEW x \in Executors, Finish(x) PROVE TypeInv'
  <2>1. enf[x] \in Running
    BY <1>l, RunningEnf DEF Finish, In
  <2>3. job' \in [Jobs -> JobRow]
    BY <1>0, <1>l, <2>1 DEF Finish, JobRow, Status, Running
  <2>4. enf' \in [Executors -> Enforcer] /\ \A y \in Executors : IsFiniteSet(enf'[y].writes)
    BY <1>l, FreeIsEnf, EnfUpdate DEF Finish
  <2>5. stored' \in Nat /\ UNCHANGED <<made, lost, spent>>
    BY <1>l, <2>1 DEF Finish, Left, Running
  <2> QED BY <1>0, <2>3, <2>4, <2>5 DEF TypeOK, WritesFinite
<1>m. ASSUME NEW x \in Executors, Settle(x) PROVE TypeInv'
  <2>1. enf[x] \in Running
    BY <1>m, RunningEnf DEF Settle, In
  <2>2. job[enf[x].job].status \in Status
    BY <1>0, <2>1 DEF JobRow, Running
  <2>3. AfterTrip(enf[x].job) \subseteq Status
    BY <2>2 DEF AfterTrip, Status
  <2>4. PICK status \in Status : job' = [job EXCEPT ![enf[x].job].status = status]
    BY <1>m, <2>2, <2>3 DEF Settle
  <2>5. job' \in [Jobs -> JobRow]
    BY <1>0, <2>1, <2>4 DEF JobRow, Running
  <2>6. enf' \in [Executors -> Enforcer] /\ \A y \in Executors : IsFiniteSet(enf'[y].writes)
    BY <1>m, FreeIsEnf, EnfUpdate DEF Settle
  <2>7. stored' \in Nat /\ UNCHANGED <<made, lost, spent>>
    BY <1>m, <2>1 DEF Settle, Left, Running
  <2> QED BY <1>0, <2>5, <2>6, <2>7 DEF TypeOK, WritesFinite
<1>n. ASSUME NEW x \in Executors, Crash(x) PROVE TypeInv'
  <2>1. enf[x] \in Running
    BY <1>n, RunningEnf DEF Crash, In
  <2>2. stored' \in Nat
    BY <1>0, <1>n, <2>1 DEF Crash, Running
  <2>3. lost' \in Nat
    BY <1>0, <1>n, <2>1, <2>2 DEF Crash, Running
  <2>4. spent' \in [clicks : 0..MaxClicks, crashes : 0..MaxCrashes, faults : 0..MaxFaults]
    BY <1>0, <1>n DEF Crash
  <2>5. enf' \in [Executors -> Enforcer] /\ \A y \in Executors : IsFiniteSet(enf'[y].writes)
    BY <1>n, FreeIsEnf, EnfUpdate DEF Crash
  <2>6. UNCHANGED <<job, made>>
    BY <1>n DEF Crash
  <2> QED BY <1>0, <2>2, <2>3, <2>4, <2>5, <2>6 DEF TypeOK, WritesFinite
<1>o. ASSUME NEW j \in Jobs, Recover(j) PROVE TypeInv'
  <2>1. job' \in [Jobs -> JobRow]
    BY <1>0, <1>o DEF Recover, JobRow, Status
  <2>2. UNCHANGED <<stored, enf, made, lost, spent>>
    BY <1>o DEF Recover
  <2> QED BY <1>0, <2>1, <2>2 DEF TypeOK, WritesFinite
<1>p. ASSUME NEW j \in Jobs, NEW from, NEW to \in Status, Click(j, from, to) PROVE TypeInv'
  <2>1. job' \in [Jobs -> JobRow]
    BY <1>0, <1>p DEF Click, JobRow
  <2>2. spent' \in [clicks : 0..MaxClicks, crashes : 0..MaxCrashes, faults : 0..MaxFaults]
    BY <1>0, <1>p DEF Click
  <2>3. UNCHANGED <<stored, enf, made, lost>>
    BY <1>p DEF Click
  <2> QED BY <1>0, <2>1, <2>2, <2>3 DEF TypeOK, WritesFinite
<1>q. ASSUME NEW j \in Jobs, Pause(j) \/ Stop(j) \/ Resume(j) PROVE TypeInv'
  BY <1>p, <1>q DEF Pause, Stop, Resume, Status
<1>r. CASE UNCHANGED vars
  BY <1>0, <1>r DEF vars, TypeOK, WritesFinite
<1> QED
  BY <1>a, <1>b, <1>c, <1>d, <1>e, <1>f, <1>g, <1>h, <1>i, <1>j, <1>k, <1>l, <1>m, <1>n,
     <1>o, <1>q, <1>r DEF Next, Work

LEMMA TypeHolds == Spec => []TypeInv
BY TypeInit, TypeStep, PTL DEF Spec

\* Every counter, row and enforcer keeps its type, whatever the constants are:
\* in particular no executor has FlushEvery calls uncounted, nor more than Fanout
\* unanswered.
THEOREM BudgetTypes == Spec => []TypeOK
BY TypeHolds, PTL DEF TypeInv

-----------------------------------------------------------------------------
(* A job that has its snapshot to itself *)

\* One job and one executor.
Alone == (\E j : Jobs = {j}) /\ (\E x : Executors = {x})

\* The books of the only job and the only executor, whose baseline the database
\* took: until the baseline is claimed
\* nothing was spent; from then on the counter, plus what crashes forgot, is the
\* baseline plus the calls made, on the row while nobody counts and in the
\* executor's memory while it does; and the row, like every write on its way to
\* it, stays between the baseline and that memory.
Books(j, x) ==
  /\ job[j].baseline = Unset =>
       made[j] = 0 /\ lost = 0 /\ enf[x].at \in {"off", "loading", "claiming"}
  /\ job[j].baseline # Unset =>
       job[j].baseline <= stored /\ stored - job[j].baseline <= Cap + Fanout - 1
  /\ enf[x].at \in {"off", "loading", "claiming"} =>
       /\ enf[x].flights = 0 /\ enf[x].writes = {}
       /\ job[j].baseline # Unset => stored + lost = job[j].baseline + made[j]
  /\ enf[x].at = "loading"  => enf[x].usage = 0
  /\ enf[x].at = "claiming" => enf[x].usage = stored
  /\ enf[x].at \in {"phase", "settling"} =>
       /\ enf[x].base = job[j].baseline
       /\ enf[x].usage + lost = enf[x].base + made[j]
       /\ stored <= enf[x].usage
       /\ \A total \in enf[x].writes : enf[x].base <= total /\ total <= enf[x].usage
       /\ enf[x].usage - enf[x].base + enf[x].flights <= Cap + Fanout - 1

LEMMA BooksInit == ASSUME NEW j \in Jobs, NEW x \in Executors, Init PROVE Books(j, x)
BY DEF Init, Books, FreeEnf

LEMMA BooksStep ==
  ASSUME NEW j, NEW x, Jobs = {j}, Executors = {x},
         TypeInv, TypeInv', Books(j, x), [Next]_vars, spent'.faults = 0
  PROVE  Books(j, x)'
<1> USE DEF Books
<1>0. /\ job \in [Jobs -> JobRow] /\ stored \in Nat /\ enf \in [Executors -> Enforcer]
      /\ made \in [Jobs -> Nat] /\ lost \in Nat
  BY DEF TypeInv, TypeOK
<1>n. made[j] \in Nat /\ job[j] \in JobRow /\ job[j].baseline \in Nat \union {Unset}
  BY <1>0 DEF JobRow
<1>a. ASSUME Deliver(x, j) PROVE Books(j, x)'
  <2>1. /\ enf'[x].at = "loading" /\ enf'[x].usage = 0
        /\ enf'[x].flights = 0 /\ enf'[x].writes = {}
    BY <1>0, <1>a DEF Deliver
  <2>2. job'[j].baseline = job[j].baseline
    BY <1>0, <1>a DEF Deliver, JobRow
  <2>3. enf[x].at = "off" /\ UNCHANGED <<stored, made, lost>>
    BY <1>a DEF Deliver, In
  <2> QED BY <2>1, <2>2, <2>3
<1>b. ASSUME Load(x) PROVE Books(j, x)'
  <2>1. enf[x] \in Running /\ enf[x].at = "loading"
    BY <1>b, RunningEnf DEF Load, In
  <2>2. /\ enf'[x].at = "claiming" /\ enf'[x].usage = stored
        /\ enf'[x].flights = enf[x].flights /\ enf'[x].writes = enf[x].writes
    BY <1>0, <1>b, <2>1 DEF Load, Running
  <2>3. UNCHANGED <<job, stored, made, lost>>
    BY <1>b DEF Load
  <2> QED BY <2>1, <2>2, <2>3
<1>c. ASSUME claimBaseline(x) PROVE Books(j, x)'
  <2>1. enf[x] \in Running /\ enf[x].at = "claiming" /\ enf[x].job = j
    BY <1>c, RunningEnf DEF claimBaseline, In, Running
  <2>2. /\ enf'[x].at = "phase" /\ enf'[x].usage = enf[x].usage
        /\ enf'[x].base = Baseline(x)
        /\ enf'[x].flights = enf[x].flights /\ enf'[x].writes = enf[x].writes
    BY <1>0, <1>c, <2>1 DEF claimBaseline, Running
  <2>3. job'[j].baseline = Baseline(x) /\ UNCHANGED <<stored, made, lost>>
    BY <1>0, <1>c, <2>1 DEF claimBaseline, JobRow
  <2>4. CASE job[j].baseline = Unset
    <3>1. Baseline(x) = stored /\ stored # Unset
      BY <1>0, <2>1, <2>4 DEF Baseline, Unset
    <3> QED BY <1>0, <2>1, <2>2, <2>3, <2>4, <3>1
  <2>5. CASE job[j].baseline # Unset
    <3>1. Baseline(x) = job[j].baseline
      BY <2>1, <2>5 DEF Baseline
    <3> QED BY <1>0, <1>n, <2>1, <2>2, <2>3, <2>5, <3>1
  <2> QED BY <2>4, <2>5
<1>d. ~ClaimFails(x)
  BY DEF ClaimFails, TypeInv, TypeOK
<1>e. ASSUME Dispatch(x) PROVE Books(j, x)'
  <2>1. enf[x] \in Running /\ enf[x].at = "phase"
    BY <1>e, RunningEnf DEF Dispatch, In
  <2>2. /\ enf'[x].at = "phase" /\ enf'[x].usage = enf[x].usage /\ enf'[x].base = enf[x].base
        /\ enf'[x].flights = enf[x].flights + 1 /\ enf'[x].writes = enf[x].writes
    BY <1>0, <1>e, <2>1 DEF Dispatch, Running
  <2>3. UNCHANGED <<job, stored, made, lost>>
    BY <1>e DEF Dispatch
  <2>4. enf[x].flights < Fanout
    BY <1>e, <2>1, LaneFree DEF Dispatch
  <2>5. enf[x].usage - enf[x].base + 1 <= Cap
    BY <1>e, <2>1 DEF Dispatch, Trips, usedThisRun, Running
  <2> QED BY <1>0, <2>1, <2>2, <2>3, <2>4, <2>5 DEF Running
<1>f. ASSUME Trip(x) PROVE Books(j, x)'
  <2>1. enf[x] \in Running /\ enf[x].at = "phase"
    BY <1>f, RunningEnf DEF Trip, In
  <2>2. /\ enf'[x].at = "settling" /\ enf'[x].usage = enf[x].usage
        /\ enf'[x].base = enf[x].base
        /\ enf'[x].flights = enf[x].flights /\ enf'[x].writes = enf[x].writes
    BY <1>0, <1>f, <2>1 DEF Trip, Running
  <2>3. stored' = enf[x].usage /\ UNCHANGED <<job, made, lost>>
    BY <1>f DEF Trip
  <2> QED BY <1>0, <1>n, <2>1, <2>2, <2>3 DEF Running
<1>g. ASSUME Killed(x) PROVE Books(j, x)'
  <2>1. enf[x] \in Running /\ enf[x].at = "phase"
    BY <1>g, RunningEnf DEF Killed, In
  <2>2. /\ enf'[x].at = "settling" /\ enf'[x].usage = enf[x].usage
        /\ enf'[x].base = enf[x].base
        /\ enf'[x].flights = enf[x].flights /\ enf'[x].writes = enf[x].writes
    BY <1>0, <1>g, <2>1 DEF Killed, Running
  <2>3. UNCHANGED <<job, stored, made, lost>>
    BY <1>g DEF Killed
  <2> QED BY <2>1, <2>2, <2>3
<1>h. ASSUME AnswerOk(x) PROVE Books(j, x)'
  <2>1. enf[x] \in Running /\ enf[x].at \in {"phase", "settling"} /\ enf[x].job = j
    BY <1>0, <1>h DEF AnswerOk, Enforcer, FreeEnf, Running
  <2>2. PICK due \in BOOLEAN :
          enf' = [enf EXCEPT ![x].flights = enf[x].flights - 1,
                             ![x].usage   = enf[x].usage + 1,
                             ![x].dirty   = IF due THEN 0 ELSE enf[x].dirty + 1,
                             ![x].writes  = IF due THEN enf[x].writes \union {enf[x].usage + 1}
                                            ELSE enf[x].writes]
    BY <1>h DEF AnswerOk
  <2>3. /\ enf'[x].at = enf[x].at /\ enf'[x].usage = enf[x].usage + 1
        /\ enf'[x].base = enf[x].base /\ enf'[x].flights = enf[x].flights - 1
        /\ enf'[x].writes \subseteq enf[x].writes \union {enf[x].usage + 1}
    BY <1>0, <2>1, <2>2 DEF Running
  <2>4. made'[j] = made[j] + 1 /\ UNCHANGED <<job, stored, lost>>
    BY <1>0, <1>h, <2>1 DEF AnswerOk
  <2>5. /\ enf[x].usage \in Nat /\ enf[x].base \in Nat /\ enf[x].flights \in Nat
        /\ enf[x].writes \subseteq Nat
    BY <2>1 DEF Running
  <2>6. job[j].baseline # Unset /\ enf[x].base <= enf[x].usage
    BY <1>0, <1>n, <2>1, <2>5
  <2>7. ASSUME NEW total \in enf'[x].writes
        PROVE  enf'[x].base <= total /\ total <= enf'[x].usage
    <3>1. total \in Nat /\ (total \in enf[x].writes \/ total = enf[x].usage + 1)
      BY <2>3, <2>5, <2>7
    <3>2. enf[x].base <= total /\ total <= enf[x].usage + 1
      BY <2>1, <2>5, <2>6, <3>1
    <3> QED BY <2>3, <3>2
  <2>8. /\ stored' <= enf'[x].usage
        /\ enf'[x].usage + lost' = enf'[x].base + made'[j]
        /\ enf'[x].usage - enf'[x].base + enf'[x].flights <= Cap + Fanout - 1
    BY <1>0, <1>n, <2>1, <2>3, <2>4, <2>5
  <2> QED BY <2>1, <2>3, <2>4, <2>6, <2>7, <2>8
<1>i. ASSUME NEW total \in enf[x].writes, Landed(x, total) PROVE Books(j, x)'
  <2>1. enf[x] \in Running /\ enf[x].at \in {"phase", "settling"}
    BY <1>0, <1>i DEF Enforcer, FreeEnf, Running
  <2>2. /\ enf'[x].at = enf[x].at /\ enf'[x].usage = enf[x].usage
        /\ enf'[x].base = enf[x].base /\ enf'[x].flights = enf[x].flights
        /\ enf'[x].writes \subseteq enf[x].writes
    BY <1>0, <1>i, <2>1 DEF Landed, Running
  <2>3. stored' = total /\ UNCHANGED <<job, made, lost>>
    BY <1>i DEF Landed
  <2>4. total \in Nat
    BY <1>i, <2>1 DEF Running
  <2> QED BY <1>0, <1>n, <2>1, <2>2, <2>3, <2>4 DEF Running
<1>j. ASSUME AnswerError(x) PROVE Books(j, x)'
  <2>1. enf[x] \in Running /\ enf[x].at \in {"phase", "settling"}
    BY <1>0, <1>j DEF AnswerError, Enforcer, FreeEnf, Running
  <2>2. /\ enf'[x].at = enf[x].at /\ enf'[x].usage = enf[x].usage
        /\ enf'[x].base = enf[x].base /\ enf'[x].flights = enf[x].flights - 1
        /\ enf'[x].writes = enf[x].writes
    BY <1>0, <1>j, <2>1 DEF AnswerError, Running
  <2>3. UNCHANGED <<job, stored, made, lost>>
    BY <1>j DEF AnswerError
  <2> QED BY <1>0, <2>1, <2>2, <2>3 DEF Running
<1>k. ASSUME Boundary(x) PROVE Books(j, x)'
  <2>1. enf[x] \in Running /\ enf[x].at = "phase"
    BY <1>k, RunningEnf DEF Boundary, In
  <2>2. /\ enf'[x].at = "phase" /\ enf'[x].usage = enf[x].usage
        /\ enf'[x].base = enf[x].base
        /\ enf'[x].flights = enf[x].flights /\ enf'[x].writes = enf[x].writes
    BY <1>0, <1>k, <2>1 DEF Boundary, Running
  <2>3. stored' = enf[x].usage /\ UNCHANGED <<job, made, lost>>
    BY <1>k DEF Boundary
  <2> QED BY <1>0, <1>n, <2>1, <2>2, <2>3 DEF Running
<1>l. ASSUME Finish(x) \/ Settle(x) PROVE Books(j, x)'
  <2>1. enf[x] \in Running /\ enf[x].at \in {"phase", "settling"}
    BY <1>l, RunningEnf DEF Finish, Settle, In
  <2>2. enf'[x] = FreeEnf /\ stored' = enf[x].usage /\ UNCHANGED <<made, lost>>
    BY <1>0, <1>l DEF Finish, Settle, Left
  <2>3. job'[j].baseline = job[j].baseline
    <3>1. CASE Finish(x)
      BY <1>0, <1>n, <3>1 DEF Finish, JobRow
    <3>2. CASE Settle(x)
      <4>1. PICK status : job' = [job EXCEPT ![enf[x].job].status = status]
        BY <3>2 DEF Settle
      <4> QED BY <1>0, <1>n, <4>1 DEF JobRow
    <3> QED BY <1>l, <3>1, <3>2
  <2>4. enf[x].usage \in Nat /\ enf[x].base \in Nat /\ enf[x].flights \in Nat
    BY <2>1 DEF Running
  <2> QED BY <1>0, <1>n, <2>1, <2>2, <2>3, <2>4 DEF FreeEnf
<1>m. ASSUME Crash(x) PROVE Books(j, x)'
  <2>1. enf[x] \in Running
    BY <1>m, RunningEnf DEF Crash, In
  <2>2. enf'[x] = FreeEnf /\ UNCHANGED <<job, made>>
    BY <1>0, <1>m DEF Crash
  <2>3. /\ stored' \in {stored} \union enf[x].writes
        /\ lost' = lost + IF enf[x].usage > stored' THEN enf[x].usage - stored' ELSE 0
    BY <1>m DEF Crash
  <2>4. /\ enf[x].usage \in Nat /\ enf[x].base \in Nat /\ enf[x].flights \in Nat
        /\ stored' \in Nat
    BY <1>0, <2>1, <2>3 DEF Running
  <2>5. CASE enf[x].at \in {"loading", "claiming"}
    BY <1>0, <2>2, <2>3, <2>4, <2>5 DEF FreeEnf
  <2>6. CASE enf[x].at \in {"phase", "settling"}
    <3>1. enf[x].base <= stored' /\ stored' <= enf[x].usage /\ job[j].baseline # Unset
      BY <1>0, <1>n, <2>3, <2>6
    <3>2. stored' + lost' = enf[x].usage + lost
      BY <1>0, <2>3, <2>4, <3>1
    <3> QED BY <1>0, <1>n, <2>2, <2>4, <2>6, <3>1, <3>2 DEF FreeEnf
  <2> QED BY <2>1, <2>5, <2>6 DEF Running
<1>o. ASSUME Recover(j) \/ Pause(j) \/ Stop(j) \/ Resume(j) PROVE Books(j, x)'
  <2>1. job'[j].baseline = job[j].baseline
    BY <1>0, <1>o DEF Recover, Pause, Stop, Resume, Click, JobRow
  <2>2. UNCHANGED <<stored, enf, made, lost>>
    BY <1>o DEF Recover, Pause, Stop, Resume, Click
  <2> QED BY <2>1, <2>2
<1>p. CASE UNCHANGED vars
  BY <1>p DEF vars
<1> QED
  BY <1>a, <1>b, <1>c, <1>d, <1>e, <1>f, <1>g, <1>h, <1>i, <1>j, <1>k, <1>l, <1>m, <1>o, <1>p
  DEF Next, Work

\* What the books say of the rows and the counter.
LEMMA BooksKeep ==
  ASSUME NEW j, NEW x, Jobs = {j}, Executors = {x}, TypeInv, Books(j, x)
  PROVE  AllowanceKept /\ LifetimeKept
<1>1. /\ made[j] \in Nat /\ lost \in Nat /\ stored \in Nat
      /\ job[j].baseline \in Nat \union {Unset}
  BY DEF TypeInv, TypeOK, JobRow
<1>2. CASE enf[x].at = "off"
  BY <1>1, <1>2 DEF Books, AllowanceKept, LifetimeKept, In
<1>3. CASE enf[x].at # "off"
  <2>1. enf[x] \in Running
    BY <1>3, RunningEnf
  <2>2. made[j] <= Cap + (Fanout - 1) + lost
    BY <1>1, <2>1 DEF Books, Running
  <2> QED BY <1>3, <2>2 DEF AllowanceKept, LifetimeKept, In
<1> QED BY <1>2, <1>3

\* A claim that failed is never forgotten.
LEMMA FaultsStay == ASSUME TypeInv, [Next]_vars PROVE spent'.faults = 0 => spent.faults = 0
<1> /\ spent.faults \in Nat
    /\ spent \in [clicks : 0..MaxClicks, crashes : 0..MaxCrashes, faults : 0..MaxFaults]
  BY DEF TypeInv, TypeOK
<1>1. ASSUME NEW x \in Executors, Work(x) PROVE spent' = spent \/ spent'.faults = spent.faults + 1
  BY <1>1 DEF Work, Load, claimBaseline, ClaimFails, Dispatch, Trip, Killed, AnswerOk, AnswerError,
              Landed, Boundary, Finish, Settle
<1>2. ASSUME NEW x \in Executors, Crash(x) \/ \E j \in Jobs : Deliver(x, j)
      PROVE  spent'.faults = spent.faults
  BY <1>2 DEF Crash, Deliver
<1>3. ASSUME NEW j \in Jobs, Recover(j) \/ Pause(j) \/ Stop(j) \/ Resume(j)
      PROVE  spent'.faults = spent.faults
  BY <1>3 DEF Recover, Pause, Stop, Resume, Click
<1> QED BY <1>1, <1>2, <1>3 DEF Next, vars

LEMMA BooksHold ==
  ASSUME NEW j, NEW x, Jobs = {j}, Executors = {x}
  PROVE  Spec => [](TypeInv /\ (spent.faults = 0 => Books(j, x)))
<1>1. Init => Books(j, x)
  BY BooksInit
<1>2. TypeInv /\ TypeInv' /\ (spent.faults = 0 => Books(j, x)) /\ [Next]_vars
        => (spent.faults = 0 => Books(j, x))'
  BY BooksStep, FaultsStay
<1> QED BY <1>1, <1>2, TypeHolds, PTL DEF Spec

\* However often it is paused, resumed, killed and recovered, a run that has its
\* snapshot to itself completes no more calls than its cap, the others that were
\* in flight, and those whose count a crash took.
THEOREM RunsStayWithinBudget ==
  ASSUME Alone
  PROVE  Spec => []AllowanceKept
<1>1. PICK j, x : Jobs = {j} /\ Executors = {x}
  BY DEF Alone
<1>2. TypeInv /\ (spent.faults = 0 => Books(j, x)) => AllowanceKept
  BY <1>1, BooksKeep DEF AllowanceKept
<1> QED BY <1>1, <1>2, BooksHold, PTL

\* Whenever the one run of a snapshot is not running, the snapshot's counter is
\* what the run completed on top of its baseline, less what crashes forgot: no
\* write that lands late survives the run, and no flush is missed. (With more
\* jobs or executors LifetimeKept says nothing.)
THEOREM CounterIsTrue ==
  ASSUME IsFiniteSet(Executors)
  PROVE  Spec => []LifetimeKept
<1>1. CASE Alone
  <2>1. PICK j, x : Jobs = {j} /\ Executors = {x}
    BY <1>1 DEF Alone
  <2>2. TypeInv /\ (spent.faults = 0 => Books(j, x)) => LifetimeKept
    BY <2>1, BooksKeep DEF LifetimeKept
  <2> QED BY <2>1, <2>2, BooksHold, PTL
<1>2. CASE ~Alone
  <2>1. LifetimeKept
    BY <1>2, FS_Singleton DEF LifetimeKept, Alone
  <2> QED BY <2>1, PTL
<1> QED BY <1>1, <1>2

\* No step but Trip makes a run tripped.
LEMMA OnlyTripTrips ==
  ASSUME TypeInv, [Next]_vars, NEW x \in Executors,
         enf[x].why # "tripped", enf'[x].why = "tripped"
  PROVE  Trip(x)
<1>0. enf \in [Executors -> Enforcer]
  BY DEF TypeInv, TypeOK
<1>1. SUFFICES ASSUME NEW y \in Executors, Work(y) \/ Crash(y) \/ \E j \in Jobs : Deliver(y, j)
      PROVE  Trip(x)
  <2>1. ASSUME NEW j \in Jobs, Recover(j) \/ Pause(j) \/ Stop(j) \/ Resume(j) PROVE FALSE
    BY <2>1 DEF Recover, Pause, Stop, Resume, Click
  <2>2. CASE UNCHANGED vars
    BY <2>2 DEF vars
  <2> QED BY <1>1, <2>1, <2>2 DEF Next
<1>2. ASSUME y # x PROVE FALSE
  <2>1. enf'[x] = enf[x]
    <3>1. CASE Crash(y) \/ \E j \in Jobs : Deliver(y, j)
      BY <1>0, <1>2, <3>1 DEF Crash, Deliver
    <3>2. CASE Load(y) \/ claimBaseline(y) \/ ClaimFails(y) \/ Dispatch(y) \/ Trip(y) \/ Killed(y)
      BY <1>0, <1>2, <3>2 DEF Load, claimBaseline, ClaimFails, Dispatch, Trip, Killed
    <3>3. CASE AnswerError(y) \/ Boundary(y) \/ Finish(y) \/ Settle(y)
      BY <1>0, <1>2, <3>3 DEF AnswerError, Boundary, Finish, Settle
    <3>4. CASE AnswerOk(y) \/ \E total \in enf[y].writes : Landed(y, total)
      BY <1>0, <1>2, <3>4 DEF AnswerOk, Landed
    <3> QED BY <1>1, <3>1, <3>2, <3>3, <3>4 DEF Work
  <2> QED BY <2>1
<1>3. CASE Crash(x) \/ \E j \in Jobs : Deliver(x, j)
  <2>1. enf'[x].why = "none"
    BY <1>0, <1>3 DEF Crash, Deliver, FreeEnf
  <2> QED BY <2>1
<1>4. CASE Finish(x) \/ Settle(x)
  <2>1. enf'[x].why = "none"
    BY <1>0, <1>4 DEF Finish, Settle, FreeEnf
  <2> QED BY <2>1
<1>5. CASE Killed(x)
  <2>1. enf[x] \in Running
    BY <1>5, RunningEnf DEF Killed, In
  <2>2. enf'[x].why = "killed"
    BY <1>0, <1>5, <2>1 DEF Killed, Running
  <2> QED BY <2>2
<1>6. ASSUME enf[x] \in Running, enf'[x].why = enf[x].why PROVE Trip(x)
  BY <1>6
<1>7. CASE Load(x) \/ claimBaseline(x) \/ ClaimFails(x)
  <2>1. enf[x] \in Running
    BY <1>7, RunningEnf DEF Load, claimBaseline, ClaimFails, In
  <2>2. enf'[x].why = enf[x].why
    BY <1>0, <1>7, <2>1 DEF Load, claimBaseline, ClaimFails, Running
  <2> QED BY <1>6, <2>1, <2>2
<1>8. CASE Dispatch(x) \/ Boundary(x)
  <2>1. enf[x] \in Running
    BY <1>8, RunningEnf DEF Dispatch, Boundary, In
  <2>2. enf'[x].why = enf[x].why
    BY <1>0, <1>8, <2>1 DEF Dispatch, Boundary, Running
  <2> QED BY <1>6, <2>1, <2>2
<1>9. CASE AnswerOk(x) \/ AnswerError(x) \/ \E total \in enf[x].writes : Landed(x, total)
  <2>1. enf[x] # FreeEnf
    <3>1. FreeEnf.flights = 0 /\ FreeEnf.writes = {}
      BY DEF FreeEnf
    <3>2. enf[x].flights > 0 \/ enf[x].writes # {}
      BY <1>9 DEF AnswerOk, AnswerError
    <3> QED BY <3>1, <3>2
  <2>2. enf[x] \in Running
    BY <1>0, <2>1 DEF TypeInv, TypeOK, Enforcer
  <2>3. enf'[x].why = enf[x].why
    <3>1. CASE AnswerOk(x)
      BY <1>0, <2>2, <3>1 DEF AnswerOk, Running
    <3>2. CASE AnswerError(x) \/ \E total \in enf[x].writes : Landed(x, total)
      BY <1>0, <2>2, <3>2 DEF AnswerError, Landed, Running
    <3> QED BY <1>9, <3>1, <3>2
  <2> QED BY <1>6, <2>2, <2>3
<1> QED
  BY <1>1, <1>2, <1>3, <1>4, <1>5, <1>7, <1>8, <1>9 DEF Work

\* What has been earned, whether or not the database takes the baseline: the
\* counter and the executor's copy of it are above the zero point by no more than
\* the calls made, and nothing on its way to the row is above the copy.
Earned(j, x) ==
  /\ job[j].baseline # Unset => stored <= job[j].baseline + made[j]
  /\ enf[x].at \in {"off", "loading", "claiming"} => enf[x].flights = 0 /\ enf[x].writes = {}
  /\ enf[x].at = "claiming" => enf[x].usage = stored
  /\ enf[x].at \in {"phase", "settling"} =>
       /\ enf[x].usage <= enf[x].base + made[j]
       /\ job[j].baseline # Unset => enf[x].usage <= job[j].baseline + made[j]
       /\ \A total \in enf[x].writes : total <= enf[x].usage

LEMMA EarnedStep ==
  ASSUME NEW j, NEW x, Jobs = {j}, Executors = {x}, TypeInv, TypeInv', Earned(j, x), [Next]_vars
  PROVE  Earned(j, x)'
<1> USE DEF Earned
<1>0. /\ job \in [Jobs -> JobRow] /\ stored \in Nat /\ enf \in [Executors -> Enforcer]
      /\ made \in [Jobs -> Nat]
  BY DEF TypeInv, TypeOK
<1>n. made[j] \in Nat /\ job[j] \in JobRow /\ job[j].baseline \in Nat \union {Unset}
  BY <1>0 DEF JobRow
<1>1. ASSUME Deliver(x, j) PROVE Earned(j, x)'
  <2>1. enf'[x].at = "loading" /\ enf'[x].flights = 0 /\ enf'[x].writes = {}
    BY <1>0, <1>1 DEF Deliver
  <2>2. job'[j].baseline = job[j].baseline /\ UNCHANGED <<stored, made>>
    BY <1>0, <1>1 DEF Deliver, JobRow
  <2> QED BY <2>1, <2>2
<1>2. ASSUME Load(x) PROVE Earned(j, x)'
  <2>1. enf[x] \in Running /\ enf[x].at = "loading"
    BY <1>2, RunningEnf DEF Load, In
  <2>2. /\ enf'[x].at = "claiming" /\ enf'[x].usage = stored
        /\ enf'[x].flights = enf[x].flights /\ enf'[x].writes = enf[x].writes
        /\ UNCHANGED <<job, stored, made>>
    BY <1>0, <1>2, <2>1 DEF Load, Running
  <2> QED BY <2>1, <2>2
<1>3. ASSUME claimBaseline(x) \/ ClaimFails(x) PROVE Earned(j, x)'
  <2>1. enf[x] \in Running /\ enf[x].at = "claiming" /\ enf[x].job = j /\ enf[x].usage \in Nat
    BY <1>3, RunningEnf DEF claimBaseline, ClaimFails, In, Running
  <2>2. /\ enf'[x].at = "phase" /\ enf'[x].usage = enf[x].usage /\ enf'[x].writes = {}
        /\ UNCHANGED <<stored, made>>
    BY <1>0, <1>3, <2>1 DEF claimBaseline, ClaimFails, Running
  <2>3. CASE claimBaseline(x)
    <3>1. enf'[x].base = Baseline(x) /\ job'[j].baseline = Baseline(x)
      BY <1>0, <2>1, <2>3 DEF claimBaseline, Running, JobRow
    <3>2. enf[x].usage <= Baseline(x) + made[j]
      BY <1>n, <2>1 DEF Baseline
    <3> QED BY <1>0, <2>1, <2>2, <3>1, <3>2
  <2>4. CASE ClaimFails(x)
    <3>1. enf'[x].base = enf[x].usage /\ job' = job
      BY <1>0, <2>1, <2>4 DEF ClaimFails, Running
    <3> QED BY <1>n, <2>1, <2>2, <3>1
  <2> QED BY <1>3, <2>3, <2>4
<1>4. ASSUME Dispatch(x) \/ Killed(x) \/ AnswerError(x) PROVE Earned(j, x)'
  <2>1. enf[x] \in Running /\ enf[x].at \in {"phase", "settling"}
    BY <1>0, <1>4 DEF Dispatch, Killed, AnswerError, In, Enforcer, FreeEnf, Running
  <2>2. /\ enf'[x].at \in {"phase", "settling"} /\ enf'[x].usage = enf[x].usage
        /\ enf'[x].base = enf[x].base /\ enf'[x].writes = enf[x].writes
    BY <1>0, <1>4, <2>1 DEF Dispatch, Killed, AnswerError, Running
  <2>3. UNCHANGED <<job, stored, made>>
    BY <1>4 DEF Dispatch, Killed, AnswerError
  <2> QED BY <2>1, <2>2, <2>3
<1>5. ASSUME Trip(x) \/ Boundary(x) PROVE Earned(j, x)'
  <2>1. enf[x] \in Running /\ enf[x].at = "phase"
    BY <1>5, RunningEnf DEF Trip, Boundary, In
  <2>2. /\ enf'[x].at \in {"phase", "settling"} /\ enf'[x].usage = enf[x].usage
        /\ enf'[x].base = enf[x].base /\ enf'[x].writes = enf[x].writes
    BY <1>0, <1>5, <2>1 DEF Trip, Boundary, Running
  <2>3. stored' = enf[x].usage /\ UNCHANGED <<job, made>>
    BY <1>5 DEF Trip, Boundary
  <2> QED BY <2>1, <2>2, <2>3
<1>6. ASSUME AnswerOk(x) PROVE Earned(j, x)'
  <2>1. /\ enf[x] \in Running /\ enf[x].at \in {"phase", "settling"} /\ enf[x].job = j
        /\ enf[x].usage \in Nat /\ enf[x].base \in Nat /\ enf[x].writes \subseteq Nat
    BY <1>0, <1>6 DEF AnswerOk, Enforcer, FreeEnf, Running
  <2>2. PICK due \in BOOLEAN :
          enf' = [enf EXCEPT ![x].flights = enf[x].flights - 1,
                             ![x].usage   = enf[x].usage + 1,
                             ![x].dirty   = IF due THEN 0 ELSE enf[x].dirty + 1,
                             ![x].writes  = IF due THEN enf[x].writes \union {enf[x].usage + 1}
                                            ELSE enf[x].writes]
    BY <1>6 DEF AnswerOk
  <2>3. /\ enf'[x].at = enf[x].at /\ enf'[x].usage = enf[x].usage + 1
        /\ enf'[x].base = enf[x].base
        /\ enf'[x].writes \subseteq enf[x].writes \union {enf[x].usage + 1}
    BY <1>0, <2>1, <2>2 DEF Running
  <2>4. made'[j] = made[j] + 1 /\ UNCHANGED <<job, stored>>
    BY <1>0, <1>6, <2>1 DEF AnswerOk
  <2>5. \A total \in enf'[x].writes : total <= enf'[x].usage
    BY <2>1, <2>3
  <2>6. /\ enf'[x].usage <= enf'[x].base + made'[j]
        /\ job'[j].baseline # Unset => /\ stored' <= job'[j].baseline + made'[j]
                                       /\ enf'[x].usage <= job'[j].baseline + made'[j]
    BY <1>0, <1>n, <2>1, <2>3, <2>4
  <2> QED BY <2>1, <2>3, <2>5, <2>6
<1>7. ASSUME NEW total \in enf[x].writes, Landed(x, total) PROVE Earned(j, x)'
  <2>1. /\ enf[x] \in Running /\ enf[x].at \in {"phase", "settling"}
        /\ enf[x].usage \in Nat /\ total \in Nat
    BY <1>0, <1>7 DEF Enforcer, FreeEnf, Running
  <2>2. /\ enf'[x].at = enf[x].at /\ enf'[x].usage = enf[x].usage
        /\ enf'[x].base = enf[x].base /\ enf'[x].writes \subseteq enf[x].writes
    BY <1>0, <1>7, <2>1 DEF Landed, Running
  <2>3. stored' = total /\ UNCHANGED <<job, made>>
    BY <1>7 DEF Landed
  <2> QED BY <1>n, <2>1, <2>2, <2>3
<1>8. ASSUME Finish(x) \/ Settle(x) \/ Crash(x) PROVE Earned(j, x)'
  <2>1. enf[x] \in Running
    BY <1>8, RunningEnf DEF Finish, Settle, Crash, In
  <2>2. enf'[x] = FreeEnf /\ made' = made
    BY <1>0, <1>8 DEF Finish, Settle, Crash
  <2>3. job'[j].baseline = job[j].baseline
    <3>1. CASE Finish(x)
      BY <1>0, <1>n, <3>1 DEF Finish, JobRow
    <3>2. CASE Settle(x)
      <4>1. PICK status : job' = [job EXCEPT ![enf[x].job].status = status]
        BY <3>2 DEF Settle
      <4> QED BY <1>0, <1>n, <4>1 DEF JobRow
    <3>3. CASE Crash(x)
      BY <3>3 DEF Crash
    <3> QED BY <1>8, <3>1, <3>2, <3>3
  <2>4. \/ enf[x].at \in {"phase", "settling"} /\ stored' \in {stored, enf[x].usage} \union enf[x].writes
        \/ stored' = stored
    BY <1>8, <2>1 DEF Finish, Settle, Crash, Left, In, Running
  <2>5. job[j].baseline # Unset => stored' <= job[j].baseline + made[j]
    BY <1>0, <1>n, <2>1, <2>4 DEF Running
  <2> QED BY <2>2, <2>3, <2>5 DEF FreeEnf
<1>9. ASSUME Recover(j) \/ Pause(j) \/ Stop(j) \/ Resume(j) PROVE Earned(j, x)'
  <2>1. job'[j].baseline = job[j].baseline
    BY <1>0, <1>9 DEF Recover, Pause, Stop, Resume, Click, JobRow
  <2>2. UNCHANGED <<stored, enf, made>>
    BY <1>9 DEF Recover, Pause, Stop, Resume, Click
  <2> QED BY <2>1, <2>2
<1>10. CASE UNCHANGED vars
  BY <1>10 DEF vars
<1> QED
  BY <1>1, <1>2, <1>3, <1>4, <1>5, <1>6, <1>7, <1>8, <1>9, <1>10 DEF Next, Work

LEMMA EarnedHolds ==
  ASSUME NEW j, NEW x, Jobs = {j}, Executors = {x}
  PROVE  Spec => [](TypeInv /\ Earned(j, x))
<1>1. Init => Earned(j, x)
  BY DEF Init, Earned, FreeEnf
<1>2. TypeInv /\ TypeInv' /\ Earned(j, x) /\ [Next]_vars => Earned(j, x)'
  BY EarnedStep
<1> QED BY <1>1, <1>2, TypeHolds, PTL DEF Spec

\* Alone on its snapshot, a run only trips once it made as many calls as its cap,
\* whatever earlier runs left on the counter, however often it was restarted and
\* even when the database refuses its baseline.
THEOREM OnlyASpentCapTrips ==
  ASSUME Alone
  PROVE  Spec => TripsOnlyWhenSpent
<1>1. PICK j, x : Jobs = {j} /\ Executors = {x}
  BY DEF Alone
<1>2. TypeInv /\ Earned(j, x) /\ [Next]_vars => [EarnedTrip]_vars
  <2>1. SUFFICES ASSUME TypeInv, Earned(j, x), [Next]_vars,
                        enf[x].why # "tripped", enf'[x].why = "tripped"
        PROVE  made[enf[x].job] >= Cap
    BY <1>1 DEF EarnedTrip
  <2>2. Trip(x)
    BY <1>1, <2>1, OnlyTripTrips
  <2>3. enf[x] \in Running /\ enf[x].at = "phase"
    BY <1>1, <2>1, <2>2, RunningEnf DEF Trip, In
  <2>4. enf[x].usage \in Nat /\ enf[x].base \in Nat /\ enf[x].job = j /\ made[j] \in Nat
    BY <1>1, <2>1, <2>3 DEF Running, TypeInv, TypeOK
  <2>5. Cap - 1 < usedThisRun(x) /\ enf[x].usage <= enf[x].base + made[j]
    BY <2>1, <2>2, <2>3, <2>4, UsedIsNat, <1>1 DEF Trip, Trips, Earned
  <2> QED BY <2>4, <2>5 DEF usedThisRun
<1>3. Spec => [](TypeInv /\ Earned(j, x))
  BY <1>1, EarnedHolds
<1> QED
  BY <1>2, <1>3, PTL DEF Spec, TripsOnlyWhenSpent
=============================================================================
