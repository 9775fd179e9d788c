----------------------------- MODULE SumLemmas -----------------------------
(***************************************************************************)
(* What a sum over a finite set is, for the proofs about counters that     *)
(* must balance.                                                           *)
(***************************************************************************)
EXTENDS Integers, FiniteSets, FiniteSetsExt, FiniteSetTheorems, WellFoundedInduction, TLAPS

SumOn(f, S) == MapThenSumSet(LAMBDA x : f[x], S)

Pick(s) == CHOOSE x \in s : TRUE

\* g adds up f over every subset of S, as the definition of a sum does.
SumsUp(g, f, S) ==
  g = [s \in SUBSET S |-> IF s = {} THEN 0 ELSE f[Pick(s)] + g[s \ {Pick(s)}]]

-----------------------------------------------------------------------------
\* A set of naturals has a least member.
LEMMA LeastNumber ==
  ASSUME NEW T, T \subseteq Nat, T # {}
  PROVE  \E x \in T : \A y \in T : x <= y
<1> DEFINE R == {ss \in Nat \X Nat : ss[1] < ss[2]}
<1>1. IsWellFoundedOn(R, Nat)
  BY NatLessThanWellFounded DEF OpToRel
<1>2. \E x \in T : \A y \in T : ~(<<y, x>> \in R)
  <2> HIDE DEF R
  <2> QED BY <1>1, WFMin
<1>3. PICK x \in T : \A y \in T : ~(<<y, x>> \in R)
  BY <1>2
<1>4. ASSUME NEW y \in T PROVE x <= y
  <2>1. <<y, x>> \in Nat \X Nat /\ <<y, x>>[1] = y /\ <<y, x>>[2] = x
    OBVIOUS
  <2>2. ~(y < x)
    BY <1>3, <2>1
  <2>3. x \in Nat /\ y \in Nat
    OBVIOUS
  <2> QED BY <2>2, <2>3
<1> QED BY <1>4

\* Of the subsets of a finite set with a property, one has no smaller one.
LEMMA LeastSubset ==
  ASSUME NEW S, IsFiniteSet(S), NEW B, B \subseteq SUBSET S, B # {}
  PROVE  \E s \in B : \A u \in B : u \subseteq s => u = s
<1> DEFINE R == StrictSubsetOrdering(S)
<1>1. IsWellFoundedOn(R, FiniteSubsetsOf(S))
  BY FS_StrictSubsetOrderingWellFounded
<1>2. B \subseteq FiniteSubsetsOf(S)
  BY FS_FiniteSubsetsOfFinite
<1>3. \E s \in B : \A u \in B : ~(<<u, s>> \in R)
  <2> HIDE DEF R
  <2> QED BY <1>1, <1>2, WFMin
<1>4. PICK s \in B : \A u \in B : ~(<<u, s>> \in R)
  BY <1>3
<1>5. ASSUME NEW u \in B, u \subseteq s PROVE u = s
  <2>1. <<u, s>> \in (SUBSET S) \X (SUBSET S) /\ <<u, s>>[1] = u /\ <<u, s>>[2] = s
    OBVIOUS
  <2> QED BY <1>4, <1>5, <2>1 DEF StrictSubsetOrdering
<1> QED BY <1>5

LEMMA PickIsIn ==
  ASSUME NEW s, s # {}
  PROVE  Pick(s) \in s
BY DEF Pick

\* Two that add up f agree where both do.
LEMMA SumsUpAgree ==
  ASSUME NEW f, NEW S, NEW T, NEW g, NEW h, SumsUp(g, f, S), SumsUp(h, f, T),
         IsFiniteSet(S), NEW s \in SUBSET S, s \in SUBSET T
  PROVE  g[s] = h[s]
<1> DEFINE B == {u \in SUBSET S : u \subseteq T /\ g[u] # h[u]}
<1> SUFFICES ASSUME B # {} PROVE FALSE
  OBVIOUS
<1>1. PICK u \in B : \A v \in B : v \subseteq u => v = u
  <2>1. B \subseteq SUBSET S
    OBVIOUS
  <2> HIDE DEF B
  <2> QED BY <2>1, LeastSubset
<1>2. u \in SUBSET S /\ u \in SUBSET T /\ g[u] # h[u]
  OBVIOUS
<1>3. /\ g[u] = IF u = {} THEN 0 ELSE f[Pick(u)] + g[u \ {Pick(u)}]
      /\ h[u] = IF u = {} THEN 0 ELSE f[Pick(u)] + h[u \ {Pick(u)}]
  BY <1>2 DEF SumsUp
<1>4. u # {}
  BY <1>2, <1>3
<1>5. Pick(u) \in u
  BY <1>4, PickIsIn
<1>6. u \ {Pick(u)} \notin B
  BY <1>1, <1>5
<1>7. g[u \ {Pick(u)}] = h[u \ {Pick(u)}]
  BY <1>2, <1>6
<1> QED BY <1>2, <1>3, <1>7

\* Over a finite set there is one.
LEMMA SumsUpExists ==
  ASSUME NEW f, NEW S, IsFiniteSet(S)
  PROVE  \E g : SumsUp(g, f, S)
<1> DEFINE B == {u \in SUBSET S : ~\E g : SumsUp(g, f, u)}
<1> SUFFICES ASSUME B # {} PROVE FALSE
  <2> SUFFICES ASSUME B = {} PROVE \E g : SumsUp(g, f, S)
    OBVIOUS
  <2> QED OBVIOUS
<1>1. PICK u \in B : \A v \in B : v \subseteq u => v = u
  <2>1. B \subseteq SUBSET S
    OBVIOUS
  <2> HIDE DEF B
  <2> QED BY <2>1, LeastSubset
<1>2. u \in SUBSET S /\ ~\E g : SumsUp(g, f, u)
  OBVIOUS
<1>3. ASSUME NEW s \in SUBSET u, s # u PROVE \E g : SumsUp(g, f, s)
  <2>1. s \in SUBSET S
    BY <1>2
  <2> QED BY <1>1, <1>3, <2>1
<1> DEFINE G(s) == CHOOSE g : SumsUp(g, f, s)
<1>4. ASSUME NEW s \in SUBSET u, s # u PROVE SumsUp(G(s), f, s)
  BY <1>3, <1>4
<1> HIDE DEF G
<1> DEFINE Of(s) == IF s = u THEN IF u = {} THEN 0 ELSE f[Pick(u)] + G(u \ {Pick(u)})[u \ {Pick(u)}]
                    ELSE G(s)[s]
           g == [s \in SUBSET u |-> Of(s)]
<1>5. ASSUME NEW s \in SUBSET u
      PROVE  Of(s) = IF s = {} THEN 0 ELSE f[Pick(s)] + g[s \ {Pick(s)}]
  <2>1. CASE s = {}
    <3>1. CASE s = u
      BY <2>1, <3>1
    <3>2. CASE s # u
      <4>1. SumsUp(G(s), f, s)
        BY <1>4, <3>2
      <4>2. G(s)[s] = 0
        BY <2>1, <4>1 DEF SumsUp
      <4> QED BY <2>1, <3>2, <4>2
    <3> QED BY <3>1, <3>2
  <2>2. CASE s # {}
    <3>1. Pick(s) \in s
      BY <2>2, PickIsIn
    <3>2. s \ {Pick(s)} \in SUBSET u /\ s \ {Pick(s)} # u
      BY <3>1
    <3>3. g[s \ {Pick(s)}] = G(s \ {Pick(s)})[s \ {Pick(s)}]
      BY <3>2
    <3>4. CASE s = u
      BY <2>2, <3>3, <3>4
    <3>5. CASE s # u
      <4>1. SumsUp(G(s), f, s) /\ SumsUp(G(s \ {Pick(s)}), f, s \ {Pick(s)})
        BY <1>4, <3>2, <3>5
      <4>2. G(s)[s] = f[Pick(s)] + G(s)[s \ {Pick(s)}]
        BY <2>2, <4>1 DEF SumsUp
      <4>3. IsFiniteSet(s)
        BY <1>2, FS_Subset
      <4>4. G(s)[s \ {Pick(s)}] = G(s \ {Pick(s)})[s \ {Pick(s)}]
        <5> DEFINE r == s \ {Pick(s)}
        <5>1. r \in SUBSET s /\ r \in SUBSET r
          OBVIOUS
        <5>2. SumsUp(G(s), f, s) /\ SumsUp(G(r), f, r)
          BY <4>1
        <5> HIDE DEF r
        <5>3. G(s)[r] = G(r)[r]
          BY <4>3, <5>1, <5>2, SumsUpAgree
        <5> QED BY <5>3 DEF r
      <4> QED BY <2>2, <3>3, <3>5, <4>2, <4>4
    <3> QED BY <3>4, <3>5
  <2> QED BY <2>1, <2>2
<1>6. SumsUp(g, f, u)
  <2> HIDE DEF Of
  <2>1. g = [s \in SUBSET u |-> Of(s)]
    OBVIOUS
  <2> HIDE DEF g
  <2>2. [s \in SUBSET u |-> Of(s)]
          = [s \in SUBSET u |-> IF s = {} THEN 0 ELSE f[Pick(s)] + g[s \ {Pick(s)}]]
    BY <1>5
  <2> QED BY <2>1, <2>2 DEF SumsUp
<1> QED BY <1>2, <1>6

\* A sum is what such a function says of the whole set.
LEMMA SumIsAdded ==
  ASSUME NEW f, NEW S, IsFiniteSet(S)
  PROVE  \E g : SumsUp(g, f, S) /\ g[S] = SumOn(f, S)
<1> DEFINE it == CHOOSE g : g = [s \in SUBSET S |->
                   IF s = {} THEN 0 ELSE LET x == Pick(s) IN f[x] + g[s \ {x}]]
<1>1. SumOn(f, S) = it[S]
  BY DEF SumOn, MapThenSumSet, MapThenFoldSet, Pick
<1>2. it = CHOOSE g : SumsUp(g, f, S)
  BY DEF SumsUp
<1> HIDE DEF it
<1>3. SumsUp(it, f, S)
  <2>1. PICK g : SumsUp(g, f, S)
    BY SumsUpExists
  <2> QED BY <1>2, <2>1
<1> QED BY <1>1, <1>3

\* The sum over nothing, and over one more.
LEMMA SumOfNone ==
  ASSUME NEW f
  PROVE  SumOn(f, {}) = 0
<1>1. IsFiniteSet({})
  BY FS_EmptySet
<1>2. PICK g : SumsUp(g, f, {}) /\ g[{}] = SumOn(f, {})
  BY <1>1, SumIsAdded
<1> QED BY <1>2 DEF SumsUp

LEMMA SumPicks ==
  ASSUME NEW f, NEW S, IsFiniteSet(S), S # {}
  PROVE  SumOn(f, S) = f[Pick(S)] + SumOn(f, S \ {Pick(S)})
<1> DEFINE T == S \ {Pick(S)}
<1>1. PICK g : SumsUp(g, f, S) /\ g[S] = SumOn(f, S)
  BY SumIsAdded
<1>2. T \in SUBSET S /\ T \in SUBSET T
  OBVIOUS
<1>3. g[S] = f[Pick(S)] + g[T]
  BY <1>1 DEF SumsUp
<1> HIDE DEF T
<1>4. IsFiniteSet(T)
  BY <1>2, FS_Subset
<1>5. PICK h : SumsUp(h, f, T) /\ h[T] = SumOn(f, T)
  BY <1>4, SumIsAdded
<1>6. g[T] = h[T]
  BY <1>1, <1>2, <1>5, SumsUpAgree
<1> QED BY <1>1, <1>3, <1>5, <1>6 DEF T

\* A sum of integers is one.
LEMMA SumIsInt ==
  ASSUME NEW S, IsFiniteSet(S), NEW f, \A x \in S : f[x] \in Int
  PROVE  SumOn(f, S) \in Int
<1> DEFINE B == {u \in SUBSET S : SumOn(f, u) \notin Int}
<1> SUFFICES ASSUME B # {} PROVE FALSE
  <2> SUFFICES ASSUME B = {} PROVE SumOn(f, S) \in Int
    OBVIOUS
  <2> QED OBVIOUS
<1>1. PICK u \in B : \A v \in B : v \subseteq u => v = u
  <2>1. B \subseteq SUBSET S
    OBVIOUS
  <2> HIDE DEF B
  <2> QED BY <2>1, LeastSubset
<1>2. u \in SUBSET S /\ SumOn(f, u) \notin Int /\ IsFiniteSet(u)
  BY FS_Subset
<1>3. u # {}
  BY <1>2, SumOfNone
<1>4. Pick(u) \in u
  BY <1>3, PickIsIn
<1>5. SumOn(f, u) = f[Pick(u)] + SumOn(f, u \ {Pick(u)})
  BY <1>2, <1>3, SumPicks
<1>6. u \ {Pick(u)} \notin B
  BY <1>1, <1>4
<1>7. SumOn(f, u \ {Pick(u)}) \in Int
  BY <1>2, <1>6
<1> QED BY <1>2, <1>4, <1>5, <1>7

\* The order does not matter: any member may be taken out first.
LEMMA SumTakesOut ==
  ASSUME NEW S, IsFiniteSet(S), NEW f, \A x \in S : f[x] \in Int, NEW y \in S
  PROVE  SumOn(f, S) = f[y] + SumOn(f, S \ {y})
<1> DEFINE B == {u \in SUBSET S : \E z \in u : SumOn(f, u) # f[z] + SumOn(f, u \ {z})}
<1> SUFFICES ASSUME B # {} PROVE FALSE
  <2> SUFFICES ASSUME B = {} PROVE SumOn(f, S) = f[y] + SumOn(f, S \ {y})
    OBVIOUS
  <2> QED OBVIOUS
<1>1. PICK u \in B : \A v \in B : v \subseteq u => v = u
  <2>1. B \subseteq SUBSET S
    OBVIOUS
  <2> HIDE DEF B
  <2> QED BY <2>1, LeastSubset
<1>2. PICK z \in u : SumOn(f, u) # f[z] + SumOn(f, u \ {z})
  OBVIOUS
<1>3. u \in SUBSET S /\ IsFiniteSet(u)
  BY FS_Subset
<1> DEFINE p == Pick(u)
<1>4. p \in u
  BY PickIsIn
<1>5. SumOn(f, u) = f[p] + SumOn(f, u \ {p})
  BY <1>3, SumPicks
<1> HIDE DEF p
<1>6. p # z
  BY <1>2, <1>5
<1>7. u \ {p} \notin B /\ u \ {z} \notin B
  BY <1>1, <1>2, <1>4
<1>8. SumOn(f, u \ {p}) = f[z] + SumOn(f, (u \ {p}) \ {z})
  BY <1>2, <1>3, <1>6, <1>7
<1>9. SumOn(f, u \ {z}) = f[p] + SumOn(f, (u \ {z}) \ {p})
  BY <1>3, <1>4, <1>6, <1>7
<1>10. (u \ {p}) \ {z} = (u \ {z}) \ {p}
  OBVIOUS
<1>11. f[p] \in Int /\ f[z] \in Int /\ SumOn(f, (u \ {p}) \ {z}) \in Int
  <2>1. IsFiniteSet((u \ {p}) \ {z})
    BY <1>3, FS_Subset
  <2>2. SumOn(f, (u \ {p}) \ {z}) \in Int
    BY <1>3, <2>1, SumIsInt
  <2> QED BY <1>2, <1>3, <1>4, <2>2
<1>12. PICK k \in Int : k = SumOn(f, (u \ {p}) \ {z})
  BY <1>11
<1>13. SumOn(f, u) = f[p] + (f[z] + k) /\ SumOn(f, u \ {z}) = f[p] + k
  BY <1>5, <1>8, <1>9, <1>10, <1>12
<1>14. SumOn(f, u) = f[z] + (f[p] + k)
  BY <1>11, <1>13
<1> QED BY <1>2, <1>13, <1>14

\* Only the summands count.
LEMMA SameSum ==
  ASSUME NEW S, IsFiniteSet(S), NEW f, NEW g, \A x \in S : f[x] = g[x]
  PROVE  SumOn(f, S) = SumOn(g, S)
<1> DEFINE B == {u \in SUBSET S : SumOn(f, u) # SumOn(g, u)}
<1> SUFFICES ASSUME B # {} PROVE FALSE
  <2> SUFFICES ASSUME B = {} PROVE SumOn(f, S) = SumOn(g, S)
    OBVIOUS
  <2> QED OBVIOUS
<1>1. PICK u \in B : \A v \in B : v \subseteq u => v = u
  <2>1. B \subseteq SUBSET S
    OBVIOUS
  <2> HIDE DEF B
  <2> QED BY <2>1, LeastSubset
<1>2. u \in SUBSET S /\ SumOn(f, u) # SumOn(g, u) /\ IsFiniteSet(u)
  BY FS_Subset
<1>3. u # {}
  BY <1>2, SumOfNone
<1>4. Pick(u) \in u
  BY <1>3, PickIsIn
<1>5. /\ SumOn(f, u) = f[Pick(u)] + SumOn(f, u \ {Pick(u)})
      /\ SumOn(g, u) = g[Pick(u)] + SumOn(g, u \ {Pick(u)})
  BY <1>2, <1>3, SumPicks
<1>6. u \ {Pick(u)} \notin B
  BY <1>1, <1>4
<1> QED BY <1>2, <1>4, <1>5, <1>6

\* Integers on S that are the same everywhere but at y.
ApartAt(y, f, g, S) ==
  /\ IsFiniteSet(S) /\ y \in S
  /\ \A x \in S : f[x] \in Int /\ g[x] \in Int
  /\ \A x \in S : x # y => f[x] = g[x]

\* One summand changes, and with it the sum.
LEMMA SumWithOneChanged ==
  ASSUME NEW S, NEW f, NEW g, NEW y, ApartAt(y, f, g, S)
  PROVE  SumOn(g, S) = SumOn(f, S) + g[y] - f[y]
<1> USE DEF ApartAt
<1>1. IsFiniteSet(S \ {y})
  BY FS_Subset
<1>2. SumOn(f, S \ {y}) = SumOn(g, S \ {y})
  BY <1>1, SameSum
<1>3. SumOn(f, S) = f[y] + SumOn(f, S \ {y}) /\ SumOn(g, S) = g[y] + SumOn(g, S \ {y})
  BY SumTakesOut
<1>4. SumOn(f, S \ {y}) \in Int /\ f[y] \in Int /\ g[y] \in Int
  BY <1>1, SumIsInt
<1> QED BY <1>2, <1>3, <1>4

LEMMA SumOfZeros ==
  ASSUME NEW S, IsFiniteSet(S), NEW f, \A x \in S : f[x] = 0
  PROVE  SumOn(f, S) = 0
<1> DEFINE B == {u \in SUBSET S : SumOn(f, u) # 0}
<1> SUFFICES ASSUME B # {} PROVE FALSE
  <2> SUFFICES ASSUME B = {} PROVE SumOn(f, S) = 0
    OBVIOUS
  <2> QED OBVIOUS
<1>1. PICK u \in B : \A v \in B : v \subseteq u => v = u
  <2>1. B \subseteq SUBSET S
    OBVIOUS
  <2> HIDE DEF B
  <2> QED BY <2>1, LeastSubset
<1>2. u \in SUBSET S /\ SumOn(f, u) # 0 /\ IsFiniteSet(u)
  BY FS_Subset
<1>3. u # {}
  BY <1>2, SumOfNone
<1>4. Pick(u) \in u
  BY <1>3, PickIsIn
<1>5. SumOn(f, u) = f[Pick(u)] + SumOn(f, u \ {Pick(u)})
  BY <1>2, <1>3, SumPicks
<1>6. u \ {Pick(u)} \notin B
  BY <1>1, <1>4
<1> QED BY <1>2, <1>4, <1>5, <1>6

LEMMA SumOfDifference ==
  ASSUME NEW S, IsFiniteSet(S), NEW f, NEW g, NEW h,
         \A x \in S : f[x] \in Int /\ g[x] \in Int /\ h[x] = f[x] - g[x]
  PROVE  SumOn(h, S) = SumOn(f, S) - SumOn(g, S)
<1> DEFINE B == {u \in SUBSET S : SumOn(h, u) # SumOn(f, u) - SumOn(g, u)}
<1> SUFFICES ASSUME B # {} PROVE FALSE
  <2> SUFFICES ASSUME B = {} PROVE SumOn(h, S) = SumOn(f, S) - SumOn(g, S)
    OBVIOUS
  <2> QED OBVIOUS
<1>1. PICK u \in B : \A v \in B : v \subseteq u => v = u
  <2>1. B \subseteq SUBSET S
    OBVIOUS
  <2> HIDE DEF B
  <2> QED BY <2>1, LeastSubset
<1>2. u \in SUBSET S /\ SumOn(h, u) # SumOn(f, u) - SumOn(g, u) /\ IsFiniteSet(u)
  BY FS_Subset
<1>3. u # {}
  <2>1. SumOn(f, {}) = 0 /\ SumOn(g, {}) = 0 /\ SumOn(h, {}) = 0
    BY SumOfNone
  <2> QED BY <1>2, <2>1
<1> DEFINE p == Pick(u)
           v == u \ {p}
<1>4. p \in u
  BY <1>3, PickIsIn
<1>5. /\ SumOn(f, u) = f[p] + SumOn(f, v)
      /\ SumOn(g, u) = g[p] + SumOn(g, v)
      /\ SumOn(h, u) = h[p] + SumOn(h, v)
  BY <1>2, <1>3, SumPicks
<1>6. v \notin B /\ v \in SUBSET S
  BY <1>1, <1>4
<1>7. SumOn(h, v) = SumOn(f, v) - SumOn(g, v)
  BY <1>6
<1>8. IsFiniteSet(v)
  BY <1>2, FS_Subset
<1> HIDE DEF p, v
<1>9. SumOn(f, v) \in Int /\ SumOn(g, v) \in Int
  BY <1>6, <1>8, SumIsInt
<1>10. f[p] \in Int /\ g[p] \in Int /\ h[p] = f[p] - g[p]
  BY <1>2, <1>4
<1>11. PICK a \in Int, b \in Int : a = SumOn(f, v) /\ b = SumOn(g, v)
  BY <1>9
<1>12. SumOn(f, u) - SumOn(g, u) = h[p] + (a - b)
  BY <1>5, <1>10, <1>11
<1> QED BY <1>2, <1>5, <1>7, <1>11, <1>12

\* A sum over numbers may start one later.
LEMMA SumShifts ==
  ASSUME NEW f, NEW g, NEW m \in Nat,
         \A i \in 1..m : f[i + 1] \in Int /\ g[i] = f[i + 1]
  PROVE  SumOn(g, 1..m) = SumOn(f, 2..(m + 1))
<1> DEFINE B == {k \in 0..m : SumOn(g, 1..k) # SumOn(f, 2..(k + 1))}
<1> SUFFICES ASSUME B # {} PROVE FALSE
  <2> SUFFICES ASSUME B = {} PROVE SumOn(g, 1..m) = SumOn(f, 2..(m + 1))
    OBVIOUS
  <2>1. m \in 0..m
    OBVIOUS
  <2> QED BY <2>1
<1>1. PICK k \in B : \A j \in B : k <= j
  <2>1. B \subseteq Nat
    OBVIOUS
  <2> HIDE DEF B
  <2> QED BY <2>1, LeastNumber
<1>2. k \in 0..m /\ SumOn(g, 1..k) # SumOn(f, 2..(k + 1))
  OBVIOUS
<1>3. k # 0
  <2> SUFFICES ASSUME k = 0 PROVE FALSE
    OBVIOUS
  <2>1. 1..k = {} /\ 2..(k + 1) = {}
    OBVIOUS
  <2>2. SumOn(g, {}) = 0 /\ SumOn(f, {}) = 0
    BY SumOfNone
  <2> QED BY <1>2, <2>1, <2>2
<1>4. k - 1 \in 0..m /\ k - 1 \notin B
  BY <1>1, <1>2, <1>3
<1>5. SumOn(g, 1..(k - 1)) = SumOn(f, 2..((k - 1) + 1))
  BY <1>4
<1>6. /\ k \in 1..k /\ (1..k) \ {k} = 1..(k - 1)
      /\ k + 1 \in 2..(k + 1) /\ (2..(k + 1)) \ {k + 1} = 2..((k - 1) + 1)
  BY <1>2, <1>3
<1>7. IsFiniteSet(1..k) /\ IsFiniteSet(2..(k + 1))
  BY <1>2, FS_Interval
<1> HIDE DEF B
<1>8. \A i \in 1..k : g[i] \in Int
  <2> TAKE i \in 1..k
  <2>1. i \in 1..m
    BY <1>2
  <2> QED BY <2>1
<1>9. \A i \in 2..(k + 1) : f[i] \in Int
  <2> TAKE i \in 2..(k + 1)
  <2>1. i - 1 \in 1..m /\ (i - 1) + 1 = i
    BY <1>2
  <2> QED BY <2>1
<1>10. SumOn(g, 1..k) = g[k] + SumOn(g, 1..(k - 1))
  <2>1. SumOn(g, 1..k) = g[k] + SumOn(g, (1..k) \ {k})
    BY <1>6, <1>7, <1>8, SumTakesOut
  <2> QED BY <1>6, <2>1
<1>11. SumOn(f, 2..(k + 1)) = f[k + 1] + SumOn(f, 2..((k - 1) + 1))
  <2> DEFINE r == 2..(k + 1)
             last == k + 1
  <2>1. last \in r /\ IsFiniteSet(r) /\ \A i \in r : f[i] \in Int
    BY <1>6, <1>7, <1>9
  <2> HIDE DEF r, last
  <2>2. SumOn(f, r) = f[last] + SumOn(f, r \ {last})
    BY <2>1, SumTakesOut
  <2> QED BY <1>6, <2>2 DEF r, last
<1>12. g[k] = f[k + 1]
  <2>1. k \in 1..m
    BY <1>2, <1>3
  <2> QED BY <2>1
<1> QED BY <1>2, <1>5, <1>10, <1>11, <1>12

\* The sum of two functions is the sum of their sums.
LEMMA SumOfBoth ==
  ASSUME NEW S, IsFiniteSet(S), NEW f, NEW g, NEW h,
         \A x \in S : f[x] \in Int /\ g[x] \in Int /\ h[x] = f[x] + g[x]
  PROVE  SumOn(h, S) = SumOn(f, S) + SumOn(g, S)
<1>1. \A x \in S : h[x] \in Int /\ g[x] \in Int /\ f[x] = h[x] - g[x]
  OBVIOUS
<1>2. SumOn(f, S) = SumOn(h, S) - SumOn(g, S)
  BY <1>1, SumOfDifference
<1>3. SumOn(f, S) \in Int /\ SumOn(g, S) \in Int /\ SumOn(h, S) \in Int
  BY <1>1, SumIsInt
<1> QED BY <1>2, <1>3

\* f has numbers on two finite sets with nothing in common.
TwoHeaps(f, A, B) ==
  /\ IsFiniteSet(A) /\ IsFiniteSet(B) /\ A \cap B = {}
  /\ \A x \in A \cup B : f[x] \in Int

\* A sum over both is the sum of the sums.
LEMMA SumOfUnion ==
  ASSUME NEW f, NEW A, NEW B, TwoHeaps(f, A, B)
  PROVE  SumOn(f, A \cup B) = SumOn(f, A) + SumOn(f, B)
<1> USE DEF TwoHeaps
<1> DEFINE Wrong == {u \in SUBSET B : SumOn(f, A \cup u) # SumOn(f, A) + SumOn(f, u)}
<1> SUFFICES ASSUME Wrong # {} PROVE FALSE
  <2> SUFFICES ASSUME Wrong = {} PROVE SumOn(f, A \cup B) = SumOn(f, A) + SumOn(f, B)
    OBVIOUS
  <2>1. B \in SUBSET B
    OBVIOUS
  <2> QED BY <2>1
<1>1. PICK u \in Wrong : \A s \in Wrong : s \subseteq u => s = u
  <2>1. Wrong \subseteq SUBSET B
    OBVIOUS
  <2> HIDE DEF Wrong
  <2> QED BY <2>1, LeastSubset
<1>2. u \subseteq B /\ SumOn(f, A \cup u) # SumOn(f, A) + SumOn(f, u)
  OBVIOUS
<1>3. IsFiniteSet(u) /\ IsFiniteSet(A \cup u)
  BY <1>2, FS_Subset, FS_Union
<1>4. SumOn(f, A) \in Int
  BY SumIsInt
<1>5. u # {}
  <2> SUFFICES ASSUME u = {} PROVE FALSE
    OBVIOUS
  <2>1. A \cup u = A /\ SumOn(f, u) = 0
    BY SumOfNone
  <2> QED BY <1>2, <1>4, <2>1
<1>6. PICK y \in u : TRUE
  BY <1>5
<1> DEFINE rest == u \ {y}
<1>7. rest \notin Wrong /\ rest \in SUBSET B
  BY <1>1, <1>2, <1>6
<1>8. SumOn(f, A \cup rest) = SumOn(f, A) + SumOn(f, rest)
  BY <1>7
<1>9. (A \cup u) \ {y} = A \cup rest /\ y \in A \cup u /\ IsFiniteSet(rest)
  BY <1>2, <1>3, <1>6, FS_Subset
<1> HIDE DEF Wrong
<1>10. SumOn(f, A \cup u) = f[y] + SumOn(f, A \cup rest)
  <2> DEFINE all == A \cup u
  <2>1. IsFiniteSet(all) /\ (\A x \in all : f[x] \in Int) /\ y \in all /\ all \ {y} = A \cup rest
    BY <1>2, <1>3, <1>9
  <2> HIDE DEF all, rest
  <2>2. SumOn(f, all) = f[y] + SumOn(f, all \ {y})
    BY <2>1, SumTakesOut
  <2> QED BY <2>1, <2>2 DEF all
<1>11. SumOn(f, u) = f[y] + SumOn(f, rest)
  <2>1. \A x \in u : f[x] \in Int
    BY <1>2
  <2> QED BY <1>3, <1>6, <2>1, SumTakesOut
<1>12. f[y] \in Int /\ SumOn(f, rest) \in Int
  <2>1. \A x \in rest : f[x] \in Int
    BY <1>2
  <2> QED BY <1>2, <1>6, <1>9, <2>1, SumIsInt
<1> HIDE DEF rest
<1> QED BY <1>2, <1>4, <1>8, <1>10, <1>11, <1>12

\* g is f on S and nothing on the rest of T.
Widens(f, S, g, T) ==
  /\ IsFiniteSet(T) /\ S \subseteq T
  /\ \A x \in S : f[x] \in Int /\ g[x] = f[x]
  /\ \A x \in T \ S : g[x] = 0

\* Zeros add nothing.
LEMMA SumWidens ==
  ASSUME NEW f, NEW S, NEW g, NEW T, Widens(f, S, g, T)
  PROVE  SumOn(g, T) = SumOn(f, S)
<1> USE DEF Widens
<1> DEFINE more == T \ S
<1>1. IsFiniteSet(S) /\ IsFiniteSet(more) /\ S \cup more = T /\ S \cap more = {}
  BY FS_Subset
<1>2. TwoHeaps(g, S, more)
  <2>1. \A x \in S : g[x] \in Int
    OBVIOUS
  <2>2. \A x \in more : g[x] \in Int
    OBVIOUS
  <2> HIDE DEF more
  <2> QED BY <1>1, <2>1, <2>2 DEF TwoHeaps
<1>3. SumOn(g, S) = SumOn(f, S)
  BY <1>1, SameSum
<1>4. SumOn(g, more) = 0
  BY <1>1, SumOfZeros
<1>5. SumOn(f, S) \in Int
  BY <1>1, SumIsInt
<1> HIDE DEF more
<1>6. SumOn(g, S \cup more) = SumOn(g, S) + SumOn(g, more)
  BY <1>2, SumOfUnion
<1>7. SumOn(g, T) = SumOn(f, S) + 0
  BY <1>1, <1>3, <1>4, <1>6
<1> QED BY <1>5, <1>7

\* A sum of equal terms.
LEMMA SumOfSame ==
  ASSUME NEW S, IsFiniteSet(S), NEW f, NEW c \in Int, \A x \in S : f[x] = c
  PROVE  Cardinality(S) \in Nat /\ SumOn(f, S) = Cardinality(S) * c
<1> DEFINE Wrong == {u \in SUBSET S : SumOn(f, u) # Cardinality(u) * c}
<1> SUFFICES ASSUME Wrong # {} PROVE FALSE
  <2> SUFFICES ASSUME Wrong = {} PROVE SumOn(f, S) = Cardinality(S) * c
    BY FS_CardinalityType
  <2>1. S \in SUBSET S
    OBVIOUS
  <2> QED BY <2>1
<1>1. PICK u \in Wrong : \A s \in Wrong : s \subseteq u => s = u
  <2>1. Wrong \subseteq SUBSET S
    OBVIOUS
  <2> HIDE DEF Wrong
  <2> QED BY <2>1, LeastSubset
<1>2. u \subseteq S /\ SumOn(f, u) # Cardinality(u) * c
  OBVIOUS
<1>3. IsFiniteSet(u)
  BY <1>2, FS_Subset
<1>4. u # {}
  <2> SUFFICES ASSUME u = {} PROVE FALSE
    OBVIOUS
  <2>1. Cardinality(u) = 0 /\ SumOn(f, u) = 0
    BY SumOfNone, FS_EmptySet
  <2>2. Cardinality(u) * c = 0
    BY <2>1
  <2> QED BY <1>2, <2>1, <2>2
<1>5. PICK y \in u : TRUE
  BY <1>4
<1> DEFINE rest == u \ {y}
<1>6. rest \notin Wrong /\ rest \in SUBSET S
  BY <1>1, <1>2, <1>5
<1>7. SumOn(f, rest) = Cardinality(rest) * c
  BY <1>6
<1> HIDE DEF Wrong
<1>8. SumOn(f, u) = c + SumOn(f, rest)
  <2>1. (\A x \in u : f[x] \in Int) /\ f[y] = c
    BY <1>2, <1>5
  <2> QED BY <1>3, <1>5, <2>1, SumTakesOut
<1>9. Cardinality(u) \in Nat /\ Cardinality(rest) \in Nat /\ Cardinality(rest) = Cardinality(u) - 1
  BY <1>3, <1>5, FS_RemoveElement, FS_CardinalityType
<1>10. \A k \in Nat, l \in Nat : l = k - 1 => c + l * c = k * c
  <2> TAKE k \in Nat, l \in Nat
  <2> HAVE l = k - 1
  <2>1. k = l + 1
    OBVIOUS
  <2>2. (l + 1) * c = l * c + c
    BY Z3
  <2> QED BY <2>1, <2>2
<1> HIDE DEF rest
<1> QED BY <1>2, <1>7, <1>8, <1>9, <1>10

\* Counting is adding ones.
LEMMA SumOfOnes ==
  ASSUME NEW S, IsFiniteSet(S), NEW f, \A x \in S : f[x] = 1
  PROVE  Cardinality(S) \in Nat /\ SumOn(f, S) = Cardinality(S)
<1>1. Cardinality(S) \in Nat /\ SumOn(f, S) = Cardinality(S) * 1
  <2> DEFINE c == 1
  <2>1. c \in Int /\ \A x \in S : f[x] = c
    OBVIOUS
  <2> HIDE DEF c
  <2>2. Cardinality(S) \in Nat /\ SumOn(f, S) = Cardinality(S) * c
    BY <2>1, SumOfSame
  <2> QED BY <2>2 DEF c
<1> QED BY <1>1

\* Parts of a finite set that have nothing in common.
Parts(part, E, D) ==
  /\ IsFiniteSet(E) /\ IsFiniteSet(D)
  /\ \A e \in E : part[e] \subseteq D
  /\ \A e, u \in E : e # u => part[e] \cap part[u] = {}

AllOf(part, E) == UNION {part[e] : e \in E}

\* Adding up part by part is adding up.
LEMMA SumOfParts ==
  ASSUME NEW part, NEW E, NEW D, Parts(part, E, D),
         NEW v, \A d \in D : v[d] \in Int,
         NEW h, \A e \in E : h[e] = SumOn(v, part[e])
  PROVE  SumOn(h, E) = SumOn(v, AllOf(part, E))
<1> USE DEF Parts
<1> DEFINE Wrong == {u \in SUBSET E : SumOn(h, u) # SumOn(v, AllOf(part, u))}
<1> SUFFICES ASSUME Wrong # {} PROVE FALSE
  <2> SUFFICES ASSUME Wrong = {} PROVE SumOn(h, E) = SumOn(v, AllOf(part, E))
    OBVIOUS
  <2>1. E \in SUBSET E
    OBVIOUS
  <2> QED BY <2>1
<1>1. PICK u \in Wrong : \A s \in Wrong : s \subseteq u => s = u
  <2>1. Wrong \subseteq SUBSET E
    OBVIOUS
  <2> HIDE DEF Wrong
  <2> QED BY <2>1, LeastSubset
<1>2. u \subseteq E /\ SumOn(h, u) # SumOn(v, AllOf(part, u))
  OBVIOUS
<1>3. IsFiniteSet(u)
  BY <1>2, FS_Subset
<1>4. u # {}
  <2> SUFFICES ASSUME u = {} PROVE FALSE
    OBVIOUS
  <2>1. AllOf(part, u) = {}
    BY DEF AllOf
  <2>2. SumOn(h, u) = 0 /\ SumOn(v, AllOf(part, u)) = 0
    BY <2>1, SumOfNone
  <2> QED BY <1>2, <2>2
<1>5. PICK y \in u : TRUE
  BY <1>4
<1> DEFINE rest == u \ {y}
           others == AllOf(part, rest)
<1>6. rest \notin Wrong /\ rest \in SUBSET E
  BY <1>1, <1>2, <1>5
<1>7. SumOn(h, rest) = SumOn(v, others)
  BY <1>6
<1> HIDE DEF Wrong
<1>8. \A e \in u : h[e] \in Int
  <2> TAKE e \in u
  <2>1. IsFiniteSet(part[e]) /\ \A d \in part[e] : v[d] \in Int
    BY <1>2, FS_Subset
  <2>2. SumOn(v, part[e]) \in Int
    BY <2>1, SumIsInt
  <2> QED BY <1>2, <2>2
<1>9. SumOn(h, u) = h[y] + SumOn(h, rest)
  BY <1>3, <1>5, <1>8, SumTakesOut
<1>10. h[y] = SumOn(v, part[y])
  BY <1>2, <1>5
<1>11. AllOf(part, u) = part[y] \cup others
  BY <1>5 DEF AllOf
<1>12. TwoHeaps(v, part[y], others)
  <2>1. part[y] \subseteq D /\ others \subseteq D
    BY <1>2, <1>5 DEF AllOf
  <2>2. part[y] \cap others = {}
    BY <1>2, <1>5 DEF AllOf
  <2> QED BY <2>1, <2>2, FS_Subset DEF TwoHeaps
<1>13. SumOn(v, part[y] \cup others) = SumOn(v, part[y]) + SumOn(v, others)
  <2> HIDE DEF others
  <2> QED BY <1>12, SumOfUnion
<1> HIDE DEF rest, others
<1> QED BY <1>2, <1>7, <1>9, <1>10, <1>11, <1>13

\* g has what f had and the sum of v over a part.
Credit(f, g, E, part, v, D) ==
  /\ Parts(part, E, D) /\ \A d \in D : v[d] \in Int
  /\ \A e \in E : f[e] \in Int /\ g[e] = f[e] + SumOn(v, part[e])

\* What is credited part by part is credited once in all.
LEMMA SumIsCredited ==
  ASSUME NEW f, NEW g, NEW E, NEW part, NEW v, NEW D, Credit(f, g, E, part, v, D)
  PROVE  /\ SumOn(g, E) = SumOn(f, E) + SumOn(v, AllOf(part, E))
         /\ SumOn(f, E) \in Int /\ SumOn(v, AllOf(part, E)) \in Int
<1> DEFINE h == [e \in E |-> SumOn(v, part[e])]
<1>1. /\ Parts(part, E, D) /\ IsFiniteSet(E) /\ \A d \in D : v[d] \in Int
      /\ \A e \in E : f[e] \in Int /\ g[e] = f[e] + SumOn(v, part[e])
  BY DEF Credit, Parts
<1>2. ASSUME NEW e \in E PROVE SumOn(v, part[e]) \in Int
  <2>1. IsFiniteSet(part[e]) /\ \A d \in part[e] : v[d] \in Int
    BY <1>1, FS_Subset DEF Parts
  <2> QED BY <2>1, SumIsInt
<1>3. \A e \in E : h[e] = SumOn(v, part[e]) /\ f[e] \in Int /\ h[e] \in Int /\ g[e] = f[e] + h[e]
  BY <1>1, <1>2
<1> HIDE DEF h
<1>4. SumOn(h, E) = SumOn(v, AllOf(part, E))
  BY <1>1, <1>3, SumOfParts
<1>5. SumOn(g, E) = SumOn(f, E) + SumOn(h, E)
  BY <1>1, <1>3, SumOfBoth
<1>6. SumOn(f, E) \in Int /\ SumOn(h, E) \in Int
  BY <1>1, <1>3, SumIsInt
<1> QED BY <1>4, <1>5, <1>6

\* A sum of multiples.
LEMMA SumOfMultiples ==
  ASSUME NEW S, IsFiniteSet(S), NEW f, NEW h, NEW c \in Int,
         \A x \in S : f[x] \in Int /\ h[x] = f[x] * c
  PROVE  SumOn(h, S) = SumOn(f, S) * c
<1> DEFINE Wrong == {u \in SUBSET S : SumOn(h, u) # SumOn(f, u) * c}
<1> SUFFICES ASSUME Wrong # {} PROVE FALSE
  <2> SUFFICES ASSUME Wrong = {} PROVE SumOn(h, S) = SumOn(f, S) * c
    OBVIOUS
  <2>1. S \in SUBSET S
    OBVIOUS
  <2> QED BY <2>1
<1>1. PICK u \in Wrong : \A s \in Wrong : s \subseteq u => s = u
  <2>1. Wrong \subseteq SUBSET S
    OBVIOUS
  <2> HIDE DEF Wrong
  <2> QED BY <2>1, LeastSubset
<1>2. u \subseteq S /\ SumOn(h, u) # SumOn(f, u) * c
  OBVIOUS
<1>3. IsFiniteSet(u)
  BY <1>2, FS_Subset
<1>4. u # {}
  <2> SUFFICES ASSUME u = {} PROVE FALSE
    OBVIOUS
  <2>1. SumOn(f, u) = 0 /\ SumOn(h, u) = 0
    BY SumOfNone
  <2>2. SumOn(f, u) * c = 0
    BY <2>1
  <2> QED BY <1>2, <2>1, <2>2
<1>5. PICK y \in u : TRUE
  BY <1>4
<1> DEFINE rest == u \ {y}
<1>6. rest \notin Wrong /\ rest \in SUBSET S
  BY <1>1, <1>2, <1>5
<1>7. SumOn(h, rest) = SumOn(f, rest) * c
  BY <1>6
<1> HIDE DEF Wrong
<1>8. \A x \in u : f[x] \in Int /\ h[x] \in Int /\ h[x] = f[x] * c
  <2>1. \A a \in Int : a * c \in Int
    BY Z3
  <2> QED BY <1>2, <2>1
<1>9. SumOn(h, u) = h[y] + SumOn(h, rest) /\ SumOn(f, u) = f[y] + SumOn(f, rest)
  BY <1>3, <1>5, <1>8, SumTakesOut
<1>10. SumOn(f, rest) \in Int
  <2>1. IsFiniteSet(rest) /\ \A x \in rest : f[x] \in Int
    BY <1>3, <1>8, FS_Subset
  <2> QED BY <2>1, SumIsInt
<1>11. \A a \in Int, b \in Int : (a + b) * c = a * c + b * c
  BY Z3
<1> HIDE DEF rest
<1> QED BY <1>2, <1>5, <1>7, <1>8, <1>9, <1>10, <1>11

\* A sum of naturals is one.
LEMMA SumIsNat ==
  ASSUME NEW S, IsFiniteSet(S), NEW f, \A x \in S : f[x] \in Nat
  PROVE  SumOn(f, S) \in Nat
<1> DEFINE Wrong == {u \in SUBSET S : SumOn(f, u) \notin Nat}
<1> SUFFICES ASSUME Wrong # {} PROVE FALSE
  <2> SUFFICES ASSUME Wrong = {} PROVE SumOn(f, S) \in Nat
    OBVIOUS
  <2>1. S \in SUBSET S
    OBVIOUS
  <2> QED BY <2>1
<1>1. PICK u \in Wrong : \A s \in Wrong : s \subseteq u => s = u
  <2>1. Wrong \subseteq SUBSET S
    OBVIOUS
  <2> HIDE DEF Wrong
  <2> QED BY <2>1, LeastSubset
<1>2. u \subseteq S /\ SumOn(f, u) \notin Nat
  OBVIOUS
<1>3. IsFiniteSet(u) /\ \A x \in u : f[x] \in Int
  BY <1>2, FS_Subset
<1>4. u # {}
  BY <1>2, SumOfNone
<1>5. PICK y \in u : TRUE
  BY <1>4
<1> DEFINE rest == u \ {y}
<1>6. rest \notin Wrong /\ rest \in SUBSET S
  BY <1>1, <1>2, <1>5
<1>7. SumOn(f, rest) \in Nat
  BY <1>6
<1>8. SumOn(f, u) = f[y] + SumOn(f, rest)
  BY <1>3, <1>5, SumTakesOut
<1> HIDE DEF rest, Wrong
<1> QED BY <1>2, <1>5, <1>7, <1>8

\* f is one on T and nothing on the rest of S.
Marks(f, T, S) == IsFiniteSet(S) /\ T \subseteq S /\ \A x \in S : f[x] = IF x \in T THEN 1 ELSE 0

\* Adding up marks is counting them.
LEMMA SumOfMarks ==
  ASSUME NEW f, NEW S, NEW T, Marks(f, T, S)
  PROVE  Cardinality(T) \in Nat /\ SumOn(f, S) = Cardinality(T)
<1>1. IsFiniteSet(T) /\ \A x \in T : f[x] = 1
  BY FS_Subset DEF Marks
<1>2. Cardinality(T) \in Nat /\ SumOn(f, T) = Cardinality(T)
  BY <1>1, SumOfOnes
<1>3. Widens(f, T, f, S)
  BY DEF Marks, Widens
<1> QED BY <1>2, <1>3, SumWidens

-----------------------------------------------------------------------------
\* The first n places.
Upto(n) == 1..n

\* The last of some places is one of them.
LEMMA MaxIsIn ==
  ASSUME NEW n \in Nat, NEW s \in SUBSET Upto(n), s # {}
  PROVE  Max(s) \in s
<1> USE DEF Upto
<1> DEFINE T == {k \in 0..n : n - k \in s}
<1>1. PICK e \in s : TRUE
  OBVIOUS
<1>2. e \in 1..n /\ n - e \in T
  <2>1. e \in 1..n
    OBVIOUS
  <2>2. n - e \in 0..n /\ n - (n - e) = e
    BY <2>1
  <2> QED BY <2>1, <2>2
<1>3. T \subseteq Nat /\ T # {}
  <2>1. T \subseteq Nat
    OBVIOUS
  <2> HIDE DEF T
  <2> QED BY <1>2, <2>1
<1>4. PICK k \in T : \A l \in T : k <= l
  BY <1>3, LeastNumber
<1>5. n - k \in s /\ k \in 0..n
  OBVIOUS
<1>6. \A x \in s : n - k >= x
  <2> TAKE x \in s
  <2>1. x \in 1..n
    OBVIOUS
  <2>2. n - x \in 0..n /\ n - (n - x) = x
    BY <2>1
  <2>3. k <= n - x
    BY <1>4, <2>2
  <2> QED BY <1>5, <2>1, <2>3
<1> QED BY <1>5, <1>6 DEF Max

\* Some subsets of S, which are places up to n.
PlaceSets(B, S, n) == n \in Nat /\ S \subseteq Upto(n) /\ B \subseteq SUBSET S /\ B # {}

\* Sets of places can be taken smallest first.
LEMMA LeastPlaces ==
  ASSUME NEW n, NEW S, NEW B, PlaceSets(B, S, n)
  PROVE  \E s \in B : \A u \in B : u \subseteq s => u = s
<1>1. IsFiniteSet(Upto(n))
  BY FS_Interval DEF Upto, PlaceSets
<1>2. IsFiniteSet(S)
  BY <1>1, FS_Subset DEF PlaceSets
<1> QED BY <1>2, LeastSubset DEF PlaceSets

\* What holds at 0 and passes from each place to the next holds at every place.
LEMMA Climb ==
  ASSUME NEW n \in Nat, NEW G, 0 \in G, \A k \in 1..n : k - 1 \in G => k \in G
  PROVE  \A k \in 0..n : k \in G
<1> DEFINE T == {k \in 0..n : k \notin G}
<1> SUFFICES ASSUME T # {} PROVE FALSE
  OBVIOUS
<1>1. T \subseteq Nat
  OBVIOUS
<1>2. PICK k \in T : \A l \in T : k <= l
  <2> HIDE DEF T
  <2> QED BY <1>1, LeastNumber
<1>3. k \in 1..n /\ k - 1 \in 0..n /\ ~(k <= k - 1)
  OBVIOUS
<1> QED BY <1>2, <1>3
=============================================================================
