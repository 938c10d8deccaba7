-------------------------- MODULE BackOfficeProofs --------------------------
(***************************************************************************)
(* What the parts of the back office guarantee for any number of requests, *)
(* workers, people and subscriptions.  The parts share no state, but for   *)
(* the screens of Statement, which read the tables of OrdersRepository;    *)
(* each has an inductive invariant of its own.  The first section is about *)
(* the sums that Catalogue and Statement are written with.                 *)
(***************************************************************************)
EXTENDS Billing, StoreTeam, Campaigns, Interests, Onboarding, Categories, Agenda, Pages,
        Catalogue, Statement, OrdersRepositoryProofs, FiniteSetTheorems, WellFoundedInduction, TLAPS

-----------------------------------------------------------------------------
(* Numbers and sums.                                                       *)

\* A set of natural numbers that is not empty has a least one.
LEMMA LeastNat ==
  ASSUME NEW W \in SUBSET Nat, W # {}
  PROVE  \E n \in W : \A m \in W : n <= m
<1>. DEFINE LT == OpToRel(<, Nat)
<1>1. IsWellFoundedOn(LT, Nat)
  BY NatLessThanWellFounded
<1>2. \A n, m \in Nat : n < m => <<n, m>> \in LT
  BY DEF OpToRel
<1>. HIDE DEF LT
<1>3. \E n \in W : \A m \in W : ~ (<<m, n>> \in LT)
  <2>1. W \subseteq Nat
    OBVIOUS
  <2>. QED BY <1>1, <2>1, WFMin, Zenon
<1>4. PICK n \in W : \A m \in W : ~ (<<m, n>> \in LT)
  BY <1>3
<1>5. ASSUME NEW m \in W
      PROVE  n <= m
  <2>1. n \in Nat /\ m \in Nat /\ ~ (m < n)
    BY <1>2, <1>4
  <2>. QED BY <2>1
<1>. QED BY <1>5

\* What holds of no element, and of one more whenever it holds of some, holds of all of them.
LEMMA AddingReachesAll ==
  ASSUME NEW S, IsFiniteSet(S), NEW P \in SUBSET (SUBSET S),
         {} \in P, \A T \in P, x \in S : x \notin T => T \union {x} \in P
  PROVE  S \in P
<1>1. \A T \in SUBSET S : IsFiniteSet(S \ T) /\ Cardinality(S \ T) \in Nat
  <2>. SUFFICES ASSUME NEW T \in SUBSET S
                PROVE  IsFiniteSet(S \ T) /\ Cardinality(S \ T) \in Nat
    OBVIOUS
  <2>1. S \ T \in SUBSET S
    OBVIOUS
  <2>. QED BY <2>1, FS_Subset, FS_CardinalityType
<1>. DEFINE W == {Cardinality(S \ T) : T \in P}
<1>2. W \in SUBSET Nat /\ W # {}
  BY <1>1
<1>3. PICK n \in W : \A m \in W : n <= m
  <2>. HIDE DEF W
  <2>. QED BY <1>2, LeastNat
<1>4. PICK T \in P : n = Cardinality(S \ T)
  BY <1>3
<1>5. ASSUME S # T
      PROVE  FALSE
  <2>1. PICK x \in S : x \notin T
    BY <1>5
  <2>2. T \union {x} \in P /\ S \ (T \union {x}) = (S \ T) \ {x} /\ x \in S \ T
    BY <2>1
  <2>3. Cardinality((S \ T) \ {x}) = n - 1
    BY <1>1, <1>4, <2>2, FS_RemoveElement
  <2>4. n - 1 \in W
    BY <2>2, <2>3
  <2>5. n <= n - 1 /\ n \in Nat
    BY <1>2, <1>3, <2>4
  <2>. QED BY <2>5
<1>. QED BY <1>4, <1>5

One(s)           == CHOOSE x \in s : TRUE
Added(f, g, s)   == IF s = {} THEN 0 ELSE f[One(s)] + g[s \ {One(s)}]
Adds(f, g, S)    == g = [s \in SUBSET S |-> Added(f, g, s)]
Partial(f, S)    == CHOOSE g : Adds(f, g, S)

LEMMA SumIsPartial ==
  ASSUME NEW f, NEW S
  PROVE  SumFunctionOnSet(f, S) = Partial(f, S)[S]
BY DEF SumFunctionOnSet, FoldFunctionOnSet, MapThenFoldSet, Partial, Adds, Added, One

LEMMA OneIsIn ==
  ASSUME NEW s, s # {}
  PROVE  One(s) \in s
BY DEF One

\* The recursion has a solution...
LEMMA PartialAdds ==
  ASSUME NEW f, NEW S, IsFiniteSet(S)
  PROVE  Adds(f, Partial(f, S), S)
<1>0. ASSUME NEW s \in SUBSET S
      PROVE  IsFiniteSet(s) /\ Cardinality(s) \in Nat /\ Cardinality(s) <= Cardinality(S)
  BY FS_Subset, FS_CardinalityType
<1>. DEFINE n == Cardinality(S)
            Solved(g, k) == \A s \in SUBSET S : Cardinality(s) < k => g[s] = Added(f, g, s)
            Level(k) == \E g : DOMAIN g = SUBSET S /\ g = [s \in SUBSET S |-> g[s]] /\ Solved(g, k)
            W == {n + 1 - k : k \in {j \in 0..(n + 1) : Level(j)}}
<1>1. n \in Nat
  BY <1>0
<1>2. Level(0)
  <2>. DEFINE g == [s \in SUBSET S |-> 0]
  <2>1. DOMAIN g = SUBSET S /\ g = [s \in SUBSET S |-> g[s]]
    OBVIOUS
  <2>2. Solved(g, 0)
    BY <1>0
  <2>. HIDE DEF g
  <2>. QED BY <2>1, <2>2
<1>3. ASSUME NEW k \in 0..n, Level(k)
      PROVE  Level(k + 1)
  <2>1. PICK g : DOMAIN g = SUBSET S /\ g = [s \in SUBSET S |-> g[s]] /\ Solved(g, k)
    BY <1>3
  <2>. DEFINE h == [s \in SUBSET S |-> IF Cardinality(s) < k THEN g[s] ELSE Added(f, g, s)]
  <2>2. DOMAIN h = SUBSET S /\ h = [s \in SUBSET S |-> h[s]]
    OBVIOUS
  <2>3. \A s \in SUBSET S : h[s] = Added(f, g, s)
    BY <2>1
  <2>4. \A s \in SUBSET S : Cardinality(s) < k => h[s] = g[s]
    OBVIOUS
  <2>. HIDE DEF h
  <2>5. ASSUME NEW s \in SUBSET S, Cardinality(s) < k + 1
        PROVE  h[s] = Added(f, h, s)
    <3>1. CASE s = {}
      BY <2>3, <3>1 DEF Added
    <3>2. CASE s # {}
      <4>. DEFINE t == s \ {One(s)}
      <4>1. One(s) \in s /\ t \in SUBSET S
        BY <3>2, OneIsIn
      <4>2. Cardinality(t) = Cardinality(s) - 1
        BY <1>0, <4>1, FS_RemoveElement
      <4>3. Cardinality(t) < k
        BY <1>0, <1>1, <2>5, <4>2
      <4>4. h[t] = g[t]
        BY <2>4, <4>1, <4>3
      <4>. QED BY <2>3, <4>4 DEF Added
    <3>. QED BY <3>1, <3>2
  <2>. QED BY <2>2, <2>5
<1>. HIDE DEF Level
<1>4. W \in SUBSET Nat /\ W # {}
  BY <1>1, <1>2
<1>5. PICK m \in W : \A j \in W : m <= j
  <2>. HIDE DEF W
  <2>. QED BY <1>4, LeastNat
<1>6. PICK k \in 0..(n + 1) : Level(k) /\ m = n + 1 - k
  BY <1>5
<1>7. k = n + 1
  <2>1. ASSUME k # n + 1
        PROVE  FALSE
    <3>1. k \in 0..n /\ k + 1 \in 0..(n + 1)
      BY <1>1, <2>1
    <3>2. Level(k + 1)
      BY <1>3, <1>6, <3>1
    <3>3. n + 1 - (k + 1) \in W
      BY <3>1, <3>2
    <3>4. m <= n + 1 - (k + 1)
      BY <1>5, <3>3
    <3>. QED BY <1>1, <1>6, <3>1, <3>4
  <2>. QED BY <2>1
<1>8. PICK g : DOMAIN g = SUBSET S /\ g = [s \in SUBSET S |-> g[s]] /\ Solved(g, n + 1)
  BY <1>6, <1>7 DEF Level
<1>9. ASSUME NEW s \in SUBSET S
      PROVE  g[s] = Added(f, g, s)
  <2>1. Cardinality(s) < n + 1
    BY <1>0, <1>1
  <2>. QED BY <1>8, <2>1
<1>10. Adds(f, g, S)
  BY <1>8, <1>9 DEF Adds
<1>. QED BY <1>10 DEF Partial

\* ...and one only, the same for a smaller set.
LEMMA PartialIsOne ==
  ASSUME NEW f, NEW S, IsFiniteSet(S), NEW T \in SUBSET S, NEW g, NEW h, Adds(f, g, S), Adds(f, h, T)
  PROVE  g[T] = h[T]
<1>1. IsFiniteSet(T)
  BY FS_Subset
<1>. DEFINE W == {Cardinality(s) : s \in {t \in SUBSET T : g[t] # h[t]}}
<1>2. \A s \in SUBSET T : IsFiniteSet(s) /\ Cardinality(s) \in Nat
  BY <1>1, FS_Subset, FS_CardinalityType
<1>3. \A s \in SUBSET T : g[s] = Added(f, g, s) /\ h[s] = Added(f, h, s)
  BY DEF Adds
<1>4. CASE W = {}
  BY <1>4
<1>5. CASE W # {}
  <2>1. W \in SUBSET Nat
    BY <1>2
  <2>2. PICK n \in W : \A m \in W : n <= m
    <3>. HIDE DEF W
    <3>. QED BY <1>5, <2>1, LeastNat
  <2>3. PICK s \in SUBSET T : g[s] # h[s] /\ n = Cardinality(s)
    BY <2>2
  <2>4. s # {}
    BY <1>3, <2>3 DEF Added
  <2>. DEFINE t == s \ {One(s)}
  <2>5. One(s) \in s /\ t \in SUBSET T
    BY <2>4, OneIsIn
  <2>6. Cardinality(t) = n - 1
    BY <1>2, <2>3, <2>5, FS_RemoveElement
  <2>7. g[t] # h[t]
    BY <1>3, <2>3 DEF Added
  <2>8. n - 1 \in W
    BY <2>5, <2>6, <2>7
  <2>9. n \in Nat /\ n <= n - 1
    BY <2>1, <2>2, <2>8
  <2>. QED BY <2>9
<1>. QED BY <1>4, <1>5

\* A sum is one of its terms and the sum of the rest.
LEMMA SumRule ==
  ASSUME NEW f, NEW S, IsFiniteSet(S)
  PROVE  /\ SumFunctionOnSet(f, {}) = 0
         /\ S # {} => SumFunctionOnSet(f, S) = f[One(S)] + SumFunctionOnSet(f, S \ {One(S)})
<1>1. SumFunctionOnSet(f, {}) = 0
  <2>1. Adds(f, Partial(f, {}), {})
    BY FS_EmptySet, PartialAdds
  <2>. QED BY <2>1, SumIsPartial DEF Adds, Added
<1>2. ASSUME S # {}
      PROVE  SumFunctionOnSet(f, S) = f[One(S)] + SumFunctionOnSet(f, S \ {One(S)})
  <2>. DEFINE T == S \ {One(S)}
  <2>1. IsFiniteSet(T) /\ T \in SUBSET S
    BY FS_Subset
  <2>2. Adds(f, Partial(f, S), S) /\ Adds(f, Partial(f, T), T)
    BY <2>1, PartialAdds
  <2>3. Partial(f, S)[T] = Partial(f, T)[T]
    BY <2>1, <2>2, PartialIsOne
  <2>4. Partial(f, S)[S] = Added(f, Partial(f, S), S)
    BY <2>2 DEF Adds
  <2>. QED BY <1>2, <2>3, <2>4, SumIsPartial DEF Added
<1>. QED BY <1>1, <1>2

LEMMA SumIsNumber ==
  ASSUME NEW f, NEW S, IsFiniteSet(S), \A x \in S : f[x] \in Int
  PROVE  SumFunctionOnSet(f, S) \in Int
<1>1. \A T \in SUBSET S : IsFiniteSet(T)
  BY FS_Subset
<1>. DEFINE W == {Cardinality(T) : T \in {U \in SUBSET S : SumFunctionOnSet(f, U) \notin Int}}
<1>2. W \in SUBSET Nat
  BY <1>1, FS_CardinalityType
<1>3. CASE W = {}
  BY <1>3
<1>4. CASE W # {}
  <2>1. PICK n \in W : \A m \in W : n <= m
    <3>. HIDE DEF W
    <3>. QED BY <1>2, <1>4, LeastNat
  <2>2. PICK T \in SUBSET S : SumFunctionOnSet(f, T) \notin Int /\ n = Cardinality(T)
    BY <2>1
  <2>3. T # {}
    <3>1. SumFunctionOnSet(f, {}) = 0
      BY FS_EmptySet, SumRule
    <3>. QED BY <2>2, <3>1
  <2>. DEFINE U == T \ {One(T)}
  <2>4. One(T) \in T /\ U \in SUBSET S
    BY <2>3, OneIsIn
  <2>5. Cardinality(U) = n - 1
    BY <1>1, <2>2, <2>4, FS_RemoveElement
  <2>6. SumFunctionOnSet(f, U) \notin Int
    BY <1>1, <2>2, <2>3, <2>4, SumRule
  <2>7. n - 1 \in W
    BY <2>4, <2>5, <2>6
  <2>8. n \in Nat /\ n <= n - 1
    BY <1>2, <2>1, <2>7
  <2>. QED BY <2>8
<1>. QED BY <1>3, <1>4

\* Whichever term is taken.
LEMMA SumWithout ==
  ASSUME NEW f, NEW S, IsFiniteSet(S), \A x \in S : f[x] \in Int, NEW x \in S
  PROVE  SumFunctionOnSet(f, S) = f[x] + SumFunctionOnSet(f, S \ {x})
<1>0. \A T \in SUBSET S : /\ IsFiniteSet(T) /\ Cardinality(T) \in Nat
                          /\ SumFunctionOnSet(f, T) \in Int
                          /\ \A y \in T : Cardinality(T \ {y}) = Cardinality(T) - 1
  <2>. SUFFICES ASSUME NEW T \in SUBSET S
                PROVE  /\ IsFiniteSet(T) /\ Cardinality(T) \in Nat
                       /\ SumFunctionOnSet(f, T) \in Int
                       /\ \A y \in T : Cardinality(T \ {y}) = Cardinality(T) - 1
    OBVIOUS
  <2>1. IsFiniteSet(T)
    BY FS_Subset
  <2>. QED BY <2>1, SumIsNumber, FS_CardinalityType, FS_RemoveElement
<1>. DEFINE Splits(T) == \A y \in T : SumFunctionOnSet(f, T) = f[y] + SumFunctionOnSet(f, T \ {y})
            W == {Cardinality(T) : T \in {U \in SUBSET S : ~Splits(U)}}
<1>1. W \in SUBSET Nat
  BY <1>0
<1>2. CASE W = {}
  BY <1>2
<1>3. CASE W # {}
  <2>1. PICK n \in W : \A m \in W : n <= m
    <3>. HIDE DEF W
    <3>. QED BY <1>1, <1>3, LeastNat
  <2>2. PICK T \in SUBSET S : ~Splits(T) /\ n = Cardinality(T)
    BY <2>1
  <2>3. PICK y \in T : SumFunctionOnSet(f, T) # f[y] + SumFunctionOnSet(f, T \ {y})
    BY <2>2
  <2>. DEFINE p == One(T)
  <2>4. p \in T
    BY <2>3, OneIsIn
  <2>5. SumFunctionOnSet(f, T) = f[p] + SumFunctionOnSet(f, T \ {p})
    BY <1>0, <2>3, SumRule
  <2>6. y # p
    BY <2>3, <2>5
  <2>7. ASSUME NEW U \in SUBSET S, Cardinality(U) = n - 1
        PROVE  Splits(U)
    <3>1. ~ (n - 1 \in W)
      BY <1>1, <2>1
    <3>. QED BY <2>7, <3>1
  <2>8. /\ T \ {p} \in SUBSET S /\ T \ {y} \in SUBSET S
        /\ Cardinality(T \ {p}) = n - 1 /\ Cardinality(T \ {y}) = n - 1
        /\ y \in T \ {p} /\ p \in T \ {y} /\ (T \ {p}) \ {y} = (T \ {y}) \ {p}
    BY <1>0, <2>2, <2>4, <2>6
  <2>. DEFINE rest == SumFunctionOnSet(f, (T \ {y}) \ {p})
  <2>9. /\ SumFunctionOnSet(f, T \ {p}) = f[y] + rest
        /\ SumFunctionOnSet(f, T \ {y}) = f[p] + rest
    BY <2>7, <2>8
  <2>10. rest \in Int /\ f[y] \in Int /\ f[p] \in Int
    BY <1>0, <2>4
  <2>. HIDE DEF rest, p
  <2>11. f[p] + (f[y] + rest) = f[y] + (f[p] + rest)
    BY <2>10
  <2>. QED BY <2>3, <2>5, <2>9, <2>11
<1>. QED BY <1>2, <1>3

\* The sum of one element more.
LEMMA SumWith ==
  ASSUME NEW f, NEW S, IsFiniteSet(S), NEW x, x \notin S, \A y \in S \union {x} : f[y] \in Int
  PROVE  SumFunctionOnSet(f, S \union {x}) = f[x] + SumFunctionOnSet(f, S)
<1>1. IsFiniteSet(S \union {x}) /\ (S \union {x}) \ {x} = S
  BY FS_AddElement
<1>2. SumFunctionOnSet(f, S \union {x}) = f[x] + SumFunctionOnSet(f, (S \union {x}) \ {x})
  BY <1>1, SumWithout
<1>. QED BY <1>1, <1>2

\* A sum of smaller terms is smaller.
LEMMA SumGrows ==
  ASSUME NEW S, IsFiniteSet(S), NEW f, NEW g,
         \A x \in S : f[x] \in Int /\ g[x] \in Int /\ f[x] <= g[x]
  PROVE  SumFunctionOnSet(f, S) <= SumFunctionOnSet(g, S)
<1>. DEFINE P == {T \in SUBSET S : SumFunctionOnSet(f, T) <= SumFunctionOnSet(g, T)}
<1>0. \A T \in SUBSET S : IsFiniteSet(T) /\ SumFunctionOnSet(f, T) \in Int /\ SumFunctionOnSet(g, T) \in Int
  BY FS_Subset, SumIsNumber
<1>1. {} \in P
  <2>1. SumFunctionOnSet(f, {}) = 0 /\ SumFunctionOnSet(g, {}) = 0
    BY FS_EmptySet, SumRule
  <2>. QED BY <2>1
<1>2. ASSUME NEW T \in P, NEW x \in S, x \notin T
      PROVE  T \union {x} \in P
  <2>1. /\ SumFunctionOnSet(f, T \union {x}) = f[x] + SumFunctionOnSet(f, T)
        /\ SumFunctionOnSet(g, T \union {x}) = g[x] + SumFunctionOnSet(g, T)
    BY <1>0, <1>2, SumWith
  <2>2. SumFunctionOnSet(f, T) <= SumFunctionOnSet(g, T) /\ T \in SUBSET S
    BY <1>2
  <2>. QED BY <1>0, <2>1, <2>2
<1>3. S \in P
  <2>. HIDE DEF P
  <2>1. P \in SUBSET (SUBSET S)
    BY DEF P
  <2>. QED BY <1>1, <1>2, <2>1, AddingReachesAll
<1>. QED BY <1>3

LEMMA SumIsSame ==
  ASSUME NEW S, IsFiniteSet(S), NEW f, NEW g, \A x \in S : f[x] \in Int /\ g[x] = f[x]
  PROVE  SumFunctionOnSet(g, S) = SumFunctionOnSet(f, S)
<1>1. SumFunctionOnSet(f, S) \in Int /\ SumFunctionOnSet(g, S) \in Int
  BY SumIsNumber
<1>2. \A x \in S : /\ f[x] \in Int /\ g[x] \in Int
                  /\ f[x] <= g[x] /\ g[x] <= f[x]
  OBVIOUS
<1>3. SumFunctionOnSet(f, S) <= SumFunctionOnSet(g, S)
  BY <1>2, SumGrows
<1>4. SumFunctionOnSet(g, S) <= SumFunctionOnSet(f, S)
  BY <1>2, SumGrows
<1>. QED BY <1>1, <1>3, <1>4

\* Two sums over the same elements, term by term.
LEMMA SumAdds ==
  ASSUME NEW S, IsFiniteSet(S), NEW f, NEW g, NEW h,
         \A x \in S : f[x] \in Int /\ g[x] \in Int /\ h[x] = f[x] + g[x]
  PROVE  SumFunctionOnSet(h, S) = SumFunctionOnSet(f, S) + SumFunctionOnSet(g, S)
<1>. DEFINE P == {T \in SUBSET S :
                    SumFunctionOnSet(h, T) = SumFunctionOnSet(f, T) + SumFunctionOnSet(g, T)}
<1>0. ASSUME NEW T \in SUBSET S
      PROVE  /\ IsFiniteSet(T) /\ SumFunctionOnSet(f, T) \in Int /\ SumFunctionOnSet(g, T) \in Int
             /\ SumFunctionOnSet(h, T) \in Int
  <2>1. IsFiniteSet(T) /\ \A x \in T : f[x] \in Int /\ g[x] \in Int /\ h[x] \in Int
    BY FS_Subset
  <2>. QED BY <2>1, SumIsNumber
<1>1. {} \in P
  <2>1. SumFunctionOnSet(f, {}) = 0 /\ SumFunctionOnSet(g, {}) = 0 /\ SumFunctionOnSet(h, {}) = 0
    BY FS_EmptySet, SumRule
  <2>. QED BY <2>1
<1>2. ASSUME NEW T \in P, NEW x \in S, x \notin T
      PROVE  T \union {x} \in P
  <2>0. T \in SUBSET S /\ \A y \in S : f[y] \in Int /\ g[y] \in Int /\ h[y] \in Int
    OBVIOUS
  <2>1. /\ SumFunctionOnSet(f, T \union {x}) = f[x] + SumFunctionOnSet(f, T)
        /\ SumFunctionOnSet(g, T \union {x}) = g[x] + SumFunctionOnSet(g, T)
        /\ SumFunctionOnSet(h, T \union {x}) = h[x] + SumFunctionOnSet(h, T)
    BY <1>0, <1>2, <2>0, SumWith
  <2>2. SumFunctionOnSet(h, T) = SumFunctionOnSet(f, T) + SumFunctionOnSet(g, T) /\ h[x] = f[x] + g[x]
    BY <1>2
  <2>. QED BY <1>0, <2>0, <2>1, <2>2
<1>3. S \in P
  <2>. HIDE DEF P
  <2>1. P \in SUBSET (SUBSET S)
    BY DEF P
  <2>. QED BY <1>1, <1>2, <2>1, AddingReachesAll
<1>. QED BY <1>3

\* A factor of every term is a factor of the sum.
LEMMA SumScales ==
  ASSUME NEW S, IsFiniteSet(S), NEW f, NEW g, NEW k \in Int,
         \A x \in S : f[x] \in Int /\ g[x] = k * f[x]
  PROVE  SumFunctionOnSet(g, S) = k * SumFunctionOnSet(f, S)
<1>. DEFINE P == {T \in SUBSET S : SumFunctionOnSet(g, T) = k * SumFunctionOnSet(f, T)}
<1>0. ASSUME NEW T \in SUBSET S
      PROVE  IsFiniteSet(T) /\ SumFunctionOnSet(f, T) \in Int /\ SumFunctionOnSet(g, T) \in Int
  <2>1. IsFiniteSet(T) /\ \A x \in T : f[x] \in Int /\ g[x] \in Int
    BY FS_Subset
  <2>. QED BY <2>1, SumIsNumber
<1>1. {} \in P
  <2>1. SumFunctionOnSet(f, {}) = 0 /\ SumFunctionOnSet(g, {}) = 0
    BY FS_EmptySet, SumRule
  <2>. QED BY <2>1
<1>2. ASSUME NEW T \in P, NEW x \in S, x \notin T
      PROVE  T \union {x} \in P
  <2>0. T \in SUBSET S /\ \A y \in S : f[y] \in Int /\ g[y] \in Int
    OBVIOUS
  <2>1. /\ SumFunctionOnSet(f, T \union {x}) = f[x] + SumFunctionOnSet(f, T)
        /\ SumFunctionOnSet(g, T \union {x}) = g[x] + SumFunctionOnSet(g, T)
    BY <1>0, <1>2, <2>0, SumWith
  <2>2. SumFunctionOnSet(g, T) = k * SumFunctionOnSet(f, T) /\ g[x] = k * f[x]
    BY <1>2
  <2>3. \A a, b \in Int : k * (a + b) = k * a + k * b
    OBVIOUS
  <2>. QED BY <1>0, <2>0, <2>1, <2>2, <2>3
<1>3. S \in P
  <2>. HIDE DEF P
  <2>1. P \in SUBSET (SUBSET S)
    BY DEF P
  <2>. QED BY <1>1, <1>2, <2>1, AddingReachesAll
<1>. QED BY <1>3

\* Terms that are nothing may be left out.
LEMMA SumWithin ==
  ASSUME NEW S, IsFiniteSet(S), NEW f, NEW T \in SUBSET S, \A x \in T : f[x] \in Int,
         \A x \in S \ T : f[x] = 0
  PROVE  SumFunctionOnSet(f, S) = SumFunctionOnSet(f, T)
<1>. DEFINE R == S \ T
            P == {U \in SUBSET R : SumFunctionOnSet(f, T \union U) = SumFunctionOnSet(f, T)}
<1>0. /\ IsFiniteSet(T) /\ IsFiniteSet(R) /\ R \in SUBSET S
      /\ \A x \in S : f[x] \in Int
      /\ SumFunctionOnSet(f, T) \in Int
  BY FS_Subset, SumIsNumber
<1>1. {} \in P
  <2>1. T \union {} = T
    OBVIOUS
  <2>. QED BY <2>1
<1>2. ASSUME NEW U \in P, NEW x \in R, x \notin U
      PROVE  U \union {x} \in P
  <2>1. /\ T \union U \in SUBSET S /\ x \notin T \union U /\ x \in S /\ f[x] = 0
    BY <1>2
  <2>2. IsFiniteSet(T \union U)
    BY <2>1, FS_Subset
  <2>3. SumFunctionOnSet(f, (T \union U) \union {x}) = f[x] + SumFunctionOnSet(f, T \union U)
    BY <1>0, <2>1, <2>2, SumWith
  <2>4. SumFunctionOnSet(f, T \union U) = SumFunctionOnSet(f, T) /\ U \union {x} \in SUBSET R
    BY <1>2
  <2>5. SumFunctionOnSet(f, (T \union U) \union {x}) = SumFunctionOnSet(f, T)
    BY <1>0, <2>1, <2>3, <2>4
  <2>6. T \union (U \union {x}) = (T \union U) \union {x}
    OBVIOUS
  <2>7. SumFunctionOnSet(f, T \union (U \union {x})) = SumFunctionOnSet(f, T)
    BY <2>5, <2>6, Zenon
  <2>. QED BY <2>4, <2>7
<1>3. R \in P
  <2>. HIDE DEF P, R
  <2>1. P \in SUBSET (SUBSET R)
    BY DEF P
  <2>. QED BY <1>0, <1>1, <1>2, <2>1, AddingReachesAll
<1>4. T \union R = S
  OBVIOUS
<1>. QED BY <1>3, <1>4

\* A table, by rows and by columns, and the sums of its rows.
TableOf(F, G, A, B) == \A a \in A, b \in B : F[a][b] \in Int /\ G[b][a] = F[a][b]
SumsOf(r, F, A, B)  == \A a \in A : r[a] = SumFunctionOnSet(F[a], B)

\* The sum of the rows of a table is the sum of its columns.
LEMMA SumsExchange ==
  ASSUME NEW A, NEW B, IsFiniteSet(A), IsFiniteSet(B), NEW F, NEW G, NEW r, NEW c,
         TableOf(F, G, A, B), SumsOf(r, F, A, B), SumsOf(c, G, B, A)
  PROVE  SumFunctionOnSet(r, A) = SumFunctionOnSet(c, B)
<1>. USE DEF TableOf, SumsOf
<1>. DEFINE upto(T) == [b \in B |-> SumFunctionOnSet(G[b], T)]
            P == {T \in SUBSET A : SumFunctionOnSet(r, T) = SumFunctionOnSet(upto(T), B)}
<1>0. ASSUME NEW T \in SUBSET A
      PROVE  /\ IsFiniteSet(T) /\ \A b \in B : upto(T)[b] \in Int
             /\ upto(T) = [b \in B |-> SumFunctionOnSet(G[b], T)]
             /\ \A b \in B : upto(T)[b] = SumFunctionOnSet(G[b], T)
  <2>1. IsFiniteSet(T)
    BY FS_Subset
  <2>2. \A b \in B : SumFunctionOnSet(G[b], T) \in Int
    <3>. SUFFICES ASSUME NEW b \in B PROVE SumFunctionOnSet(G[b], T) \in Int
      OBVIOUS
    <3>1. \A a \in T : G[b][a] \in Int
      OBVIOUS
    <3>. QED BY <2>1, <3>1, SumIsNumber
  <2>. QED BY <2>1, <2>2
<1>1. \A a \in A : r[a] \in Int
  BY SumIsNumber
<1>2. {} \in P
  <2>1. SumFunctionOnSet(r, {}) = 0
    BY FS_EmptySet, SumRule
  <2>2. \A b \in B : upto({})[b] = 0
    BY FS_EmptySet, SumRule
  <2>3. SumFunctionOnSet(upto({}), B) = SumFunctionOnSet(upto({}), {})
    <3>. HIDE DEF upto
    <3>. QED BY <2>2, SumWithin
  <2>4. SumFunctionOnSet(upto({}), {}) = 0
    BY FS_EmptySet, SumRule
  <2>. QED BY <2>1, <2>3, <2>4
<1>3. ASSUME NEW T \in P, NEW x \in A, x \notin T
      PROVE  T \union {x} \in P
  <2>0. T \in SUBSET A /\ T \union {x} \in SUBSET A /\ IsFiniteSet(T)
    BY <1>0
  <2>1. \A b \in B : upto(T \union {x})[b] = F[x][b] + upto(T)[b]
    <3>. SUFFICES ASSUME NEW b \in B PROVE upto(T \union {x})[b] = F[x][b] + upto(T)[b]
      OBVIOUS
    <3>1. \A a \in T \union {x} : G[b][a] \in Int
      BY <2>0
    <3>2. SumFunctionOnSet(G[b], T \union {x}) = G[b][x] + SumFunctionOnSet(G[b], T)
      BY <1>3, <2>0, <3>1, SumWith
    <3>. QED BY <3>2
  <2>2. SumFunctionOnSet(r, T \union {x}) = r[x] + SumFunctionOnSet(r, T)
    BY <1>1, <1>3, <2>0, SumWith
  <2>3. SumFunctionOnSet(upto(T \union {x}), B) = SumFunctionOnSet(F[x], B) + SumFunctionOnSet(upto(T), B)
    <3>1. \A b \in B : F[x][b] \in Int /\ upto(T)[b] \in Int
      BY <1>0, <2>0
    <3>. DEFINE h == upto(T \union {x})
                f == F[x]
                g == upto(T)
    <3>2. \A b \in B : f[b] \in Int /\ g[b] \in Int /\ h[b] = f[b] + g[b]
      BY <2>1, <3>1
    <3>. HIDE DEF f, g, h
    <3>3. SumFunctionOnSet(h, B) = SumFunctionOnSet(f, B) + SumFunctionOnSet(g, B)
      BY <3>2, SumAdds
    <3>. QED BY <3>3, Zenon DEF f, g, h
  <2>4. SumFunctionOnSet(r, T) = SumFunctionOnSet(upto(T), B)
    BY <1>3, Zenon
  <2>5. SumFunctionOnSet(r, T \union {x}) = SumFunctionOnSet(upto(T \union {x}), B)
    <3>. HIDE DEF upto
    <3>1. r[x] = SumFunctionOnSet(F[x], B)
      OBVIOUS
    <3>. QED BY <2>2, <2>3, <2>4, <3>1
  <2>. QED BY <2>0, <2>5
<1>4. A \in P
  <2>. HIDE DEF P
  <2>1. P \in SUBSET (SUBSET A)
    BY DEF P
  <2>. QED BY <1>2, <1>3, <2>1, AddingReachesAll
<1>5. SumFunctionOnSet(r, A) = SumFunctionOnSet(upto(A), B)
  BY <1>4
<1>6. \A b \in B : upto(A)[b] \in Int /\ c[b] = upto(A)[b]
  BY <1>0
<1>. HIDE DEF upto
<1>7. SumFunctionOnSet(c, B) = SumFunctionOnSet(upto(A), B)
  BY <1>6, SumIsSame
<1>. QED BY <1>5, <1>7

\* A sum over a set that falls into two.
LEMMA SumOfBoth ==
  ASSUME NEW A, NEW B, IsFiniteSet(A), IsFiniteSet(B), A \intersect B = {},
         NEW f, \A x \in A \union B : f[x] \in Int
  PROVE  SumFunctionOnSet(f, A \union B) = SumFunctionOnSet(f, A) + SumFunctionOnSet(f, B)
<1>. DEFINE S == A \union B
            g == [x \in S |-> IF x \in A THEN f[x] ELSE 0]
            h == [x \in S |-> IF x \in B THEN f[x] ELSE 0]
<1>1. /\ IsFiniteSet(S) /\ A \in SUBSET S /\ B \in SUBSET S
  BY FS_Union
<1>2. /\ \A x \in S : f[x] \in Int /\ g[x] \in Int /\ h[x] \in Int /\ f[x] = g[x] + h[x]
      /\ \A x \in A : g[x] = f[x]
      /\ \A x \in B : h[x] = f[x]
      /\ \A x \in S \ A : g[x] = 0
      /\ \A x \in S \ B : h[x] = 0
  OBVIOUS
<1>. HIDE DEF S, g, h
<1>3. SumFunctionOnSet(f, S) = SumFunctionOnSet(g, S) + SumFunctionOnSet(h, S)
  BY <1>1, <1>2, SumAdds
<1>4. SumFunctionOnSet(g, S) = SumFunctionOnSet(g, A) /\ SumFunctionOnSet(h, S) = SumFunctionOnSet(h, B)
  <2>1. \A x \in A : g[x] \in Int
    BY <1>1, <1>2
  <2>2. \A x \in B : h[x] \in Int
    BY <1>1, <1>2
  <2>3. SumFunctionOnSet(g, S) = SumFunctionOnSet(g, A)
    BY <1>1, <1>2, <2>1, SumWithin
  <2>4. SumFunctionOnSet(h, S) = SumFunctionOnSet(h, B)
    BY <1>1, <1>2, <2>2, SumWithin
  <2>. QED BY <2>3, <2>4
<1>5. SumFunctionOnSet(g, A) = SumFunctionOnSet(f, A) /\ SumFunctionOnSet(h, B) = SumFunctionOnSet(f, B)
  <2>1. \A x \in A : f[x] \in Int /\ g[x] = f[x]
    BY <1>1, <1>2
  <2>2. \A x \in B : f[x] \in Int /\ h[x] = f[x]
    BY <1>1, <1>2
  <2>3. SumFunctionOnSet(g, A) = SumFunctionOnSet(f, A)
    BY <2>1, SumIsSame
  <2>4. SumFunctionOnSet(h, B) = SumFunctionOnSet(f, B)
    BY <2>2, SumIsSame
  <2>. QED BY <2>3, <2>4
<1>6. SumFunctionOnSet(f, S) = SumFunctionOnSet(f, A) + SumFunctionOnSet(f, B)
  BY <1>3, <1>4, <1>5
<1>. QED BY <1>6 DEF S

\* The sum of as many ones as there are elements is their number.
LEMMA SumOfOnes ==
  ASSUME NEW S, IsFiniteSet(S), NEW f, \A x \in S : f[x] = 1
  PROVE  SumFunctionOnSet(f, S) = Cardinality(S)
<1>. DEFINE P == {T \in SUBSET S : SumFunctionOnSet(f, T) = Cardinality(T)}
<1>0. \A T \in SUBSET S : IsFiniteSet(T)
  BY FS_Subset
<1>1. {} \in P
  BY FS_EmptySet, SumRule
<1>2. ASSUME NEW T \in P, NEW x \in S, x \notin T
      PROVE  T \union {x} \in P
  <2>1. T \in SUBSET S /\ \A y \in S : f[y] \in Int
    OBVIOUS
  <2>2. IsFiniteSet(T)
    BY <1>0
  <2>3. SumFunctionOnSet(f, T \union {x}) = f[x] + SumFunctionOnSet(f, T)
    BY <1>2, <2>1, <2>2, SumWith
  <2>4. Cardinality(T \union {x}) = Cardinality(T) + 1 /\ Cardinality(T) \in Nat
    BY <1>2, <2>2, FS_AddElement, FS_CardinalityType
  <2>5. SumFunctionOnSet(f, T) = Cardinality(T) /\ f[x] = 1
    BY <1>2
  <2>. QED BY <2>1, <2>3, <2>4, <2>5
<1>3. S \in P
  <2>. HIDE DEF P
  <2>1. P \in SUBSET (SUBSET S)
    BY DEF P
  <2>. QED BY <1>1, <1>2, <2>1, AddingReachesAll
<1>. QED BY <1>3

\* The greater and the smaller of two numbers.
LEMMA GreaterOfTwo ==
  ASSUME NEW a \in Int, NEW b \in Int
  PROVE  Max({a, b}) = IF a >= b THEN a ELSE b
BY DEF Max

LEMMA SmallerOfTwo ==
  ASSUME NEW a \in Int, NEW b \in Int
  PROVE  Min({a, b}) = IF a <= b THEN a ELSE b
BY DEF Min

\* The sum of a part, when the other terms are nothing.
LEMMA SumOfPart ==
  ASSUME NEW S, IsFiniteSet(S), NEW f, \A x \in S : f[x] \in Int,
         NEW T \in SUBSET S, \A x \in S \ T : f[x] = 0,
         NEW h, DOMAIN h = T, \A x \in T : h[x] = f[x]
  PROVE  SumFunction(h) = SumFunctionOnSet(f, S)
<1>1. IsFiniteSet(T)
  BY FS_Subset
<1>2. SumFunctionOnSet(f, S) = SumFunctionOnSet(f, T)
  BY SumWithin
<1>3. SumFunctionOnSet(h, T) = SumFunctionOnSet(f, T)
  BY <1>1, SumIsSame
<1>. QED BY <1>2, <1>3 DEF SumFunction

LEMMA SumOfOne ==
  ASSUME NEW S, IsFiniteSet(S), NEW f, NEW a \in S, f[a] \in Int, \A x \in S \ {a} : f[x] = 0
  PROVE  SumFunctionOnSet(f, S) = f[a]
<1>1. SumFunctionOnSet(f, S) = f[a] + SumFunctionOnSet(f, S \ {a})
  BY SumWithout
<1>2. SumFunctionOnSet(f, S \ {a}) = 0
  <2>1. IsFiniteSet(S \ {a})
    BY FS_Subset
  <2>2. SumFunctionOnSet(f, S \ {a}) = SumFunctionOnSet(f, {})
    BY <2>1, SumWithin
  <2>3. SumFunctionOnSet(f, {}) = 0
    BY FS_EmptySet, SumRule
  <2>. QED BY <2>2, <2>3
<1>. QED BY <1>1, <1>2

LEMMA NothingSums ==
  ASSUME NEW S, IsFiniteSet(S), NEW f, \A x \in S : f[x] = 0
  PROVE  SumFunctionOnSet(f, S) = 0
<1>1. SumFunctionOnSet(f, S) = SumFunctionOnSet(f, {})
  BY SumWithin
<1>2. SumFunctionOnSet(f, {}) = 0
  BY FS_EmptySet, SumRule
<1>. QED BY <1>1, <1>2

LEMMA SumIsNatural ==
  ASSUME NEW S, IsFiniteSet(S), NEW f, \A x \in S : f[x] \in Nat
  PROVE  SumFunctionOnSet(f, S) \in Nat
<1>. DEFINE z == [x \in S |-> 0]
<1>1. \A x \in S : z[x] \in Int /\ z[x] = 0 /\ f[x] \in Int /\ z[x] <= f[x]
  OBVIOUS
<1>. HIDE DEF z
<1>2. SumFunctionOnSet(z, S) = 0
  BY <1>1, NothingSums
<1>3. SumFunctionOnSet(z, S) <= SumFunctionOnSet(f, S)
  BY <1>1, SumGrows
<1>4. SumFunctionOnSet(f, S) \in Int
  BY <1>1, SumIsNumber
<1>. QED BY <1>2, <1>3, <1>4

-----------------------------------------------------------------------------
(* Billing.                                                                *)

\* Only a suspension has a reason.
Reasoned == store.status = "suspended" \/ store.reason = "none"

StoreRecord == store \in [status : {"pending", "active", "suspended"},
                          reason : {"none", "billing", "platform"}]

BillingInv == StoreRecord /\ Reasoned /\ ModerationStands

\* A change at Stripe, or a read, does not touch the store.
LEMMA StripeSparesStore ==
  ASSUME NEW s \in Subs,
         createSaasCheckoutSession(s) \/ Subscribe(s) \/ Renew(s) \/ Lapse(s) \/ Cancel(s)
  PROVE  UNCHANGED <<row, store, moderated>>
BY DEF createSaasCheckoutSession, Subscribe, Renew, Lapse, Cancel

\* What an applied event makes of a store, in whatever order it comes.
LEMMA FollowKeepsReasons ==
  ASSUME StoreRecord, Reasoned, NEW status, store' = Follow(status)
  PROVE  /\ StoreRecord' /\ Reasoned'
         /\ store = [status |-> "suspended", reason |-> "platform"] => store' = store
         /\ store.status = "active" /\ store'.reason = "billing" => ~InForce(status)
BY DEF StoreRecord, Reasoned, Follow, InForce

\* The invariant of the store's status.
THEOREM BillingInductive == BillingSpec => []BillingInv
<1>1. BillingInit => BillingInv
  BY DEF BillingInit, BillingInv, StoreRecord, Reasoned, ModerationStands
<1>2. BillingInv /\ [BillingNext]_billingVars => BillingInv'
  <2>. SUFFICES ASSUME BillingInv, [BillingNext]_billingVars
                PROVE  BillingInv'
    OBVIOUS
  <2>1. ASSUME UNCHANGED <<store, moderated>>
        PROVE  BillingInv'
    BY <2>1 DEF BillingInv, StoreRecord, Reasoned, ModerationStands
  <2>2. ASSUME NEW s \in Subs,
               createSaasCheckoutSession(s) \/ Subscribe(s) \/ Renew(s) \/ Lapse(s) \/ Cancel(s)
        PROVE  BillingInv'
    BY <2>1, <2>2, StripeSparesStore
  <2>3. ASSUME NEW w \in Workers, NEW e \in undelivered, applySubscriptionEvent(w, e)
        PROVE  BillingInv'
    BY <2>1, <2>3 DEF applySubscriptionEvent
  <2>4. ASSUME NEW w \in Workers, applySubscriptionState(w)
        PROVE  BillingInv'
    <3>1. moderated' = moderated
      BY <2>4 DEF applySubscriptionState
    <3>2. CASE store' = store
      BY <2>1, <3>1, <3>2
    <3>3. CASE store' = Follow(StatusMap[apply[w].event.status])
      BY <3>1, <3>3, FollowKeepsReasons DEF BillingInv, ModerationStands
    <3>. QED  BY <2>4, <3>2, <3>3 DEF applySubscriptionState
  <2>5. CASE attachCustomer
    BY <2>1, <2>5 DEF attachCustomer
  <2>6. CASE setStoreStatus
    <3>1. PICK status \in {"pending", "active", "suspended"} :
            /\ store' = [status |-> status, reason |-> IF status = "suspended" THEN "platform" ELSE "none"]
            /\ moderated' <=> status = "suspended"
      BY <2>6 DEF setStoreStatus
    <3>. QED  BY <3>1 DEF BillingInv, StoreRecord, Reasoned, ModerationStands
  <2>7. CASE UNCHANGED billingVars
    BY <2>1, <2>7 DEF billingVars
  <2>. QED  BY <2>2, <2>3, <2>4, <2>5, <2>6, <2>7 DEF BillingNext
<1>. QED  BY <1>1, <1>2, PTL DEF BillingSpec

\* No event of Stripe lifts a suspension the platform decided, nor makes it
\* one that a payment could lift.
THEOREM SuspensionByPlatformStands == BillingSpec => []ModerationStands
<1>1. BillingInv => ModerationStands
  BY DEF BillingInv
<1>. QED  BY <1>1, BillingInductive, PTL

\* The end of a duplicate subscription never takes the store down, whatever the
\* order of the events, unless two were applied at once.
THEOREM DuplicatesNeverSuspend == BillingSpec => OnlyItsOwnSuspends
<1>. DEFINE Spared == store.status = "active" /\ store'.reason = "billing"
                        => row.sub \in {NoSub, row'.sub} \/ overran'
<1>1. BillingInv /\ [BillingNext]_billingVars => [Spared]_billingVars
  <2>. SUFFICES ASSUME BillingInv, BillingNext, store.status = "active", store'.reason = "billing"
                PROVE  row.sub \in {NoSub, row'.sub} \/ overran'
    OBVIOUS
  <2>1. store' # store
    BY DEF BillingInv, StoreRecord, Reasoned
  <2>2. ~setStoreStatus
    BY DEF setStoreStatus
  <2>3. PICK w \in Workers : applySubscriptionState(w)
    BY <2>1, <2>2, StripeSparesStore DEF BillingNext, applySubscriptionEvent, attachCustomer
  <2>. DEFINE e == apply[w].event
              saw == apply[w].saw
  <2>4. /\ ~Ignored(saw, e.sub, StatusMap[e.status], e.period)
        /\ row'.sub = e.sub
        /\ store' = Follow(StatusMap[e.status])
        /\ overran' = (overran \/ row # saw)
    BY <2>1, <2>3 DEF applySubscriptionState
  <2>5. ~InForce(StatusMap[e.status])
    BY <2>4, FollowKeepsReasons DEF BillingInv
  <2>6. saw.sub \in {NoSub, e.sub}
    BY <2>4, <2>5 DEF Ignored
  <2>7. CASE row = saw
    BY <2>4, <2>6, <2>7
  <2>8. CASE row # saw
    BY <2>4, <2>8
  <2>. QED  BY <2>7, <2>8
<1>. QED  BY <1>1, BillingInductive, PTL DEF BillingSpec, OnlyItsOwnSuspends

-----------------------------------------------------------------------------
(* StoreTeam.                                                              *)

\* Nobody invites the owner, and nobody is let in as an owner.
OwnerNotInvited ==
  /\ \A c \in Clicks : inviting[c] # NoClick => inviting[c].to # Owner
  /\ \A i \in Invites : invite[i].state = "open" => invite[i].to # Owner
  /\ accepting[Owner] = NoAccept

TeamInv == TeamTypeOK /\ OwnerStands /\ OwnerNotInvited

\* What OwnerStands says of each person.
LEMMA OneOwner ==
  OwnerStands <=> Owner \in Persons /\ \A p \in Persons : role[p] = "owner" <=> p = Owner
BY StoreTeamAssumption DEF OwnerStands

\* An invitation that is read or saved is for somebody who has no role yet.
LEMMA InvitingKeepsOwnerOut ==
  ASSUME TeamInv, NEW c \in Clicks, InviteRead(c) \/ Save(c)
  PROVE  TeamInv'
<1>. USE DEF TeamInv
<1>1. OwnerStands'
  BY DEF OwnerStands, InviteRead, Save
<1>2. CASE InviteRead(c)
  <2>1. PICK p \in Persons, r \in Roles, i \in -1..MaxInvites :
          /\ Invitable(p)
          /\ inviting' = [inviting EXCEPT ![c] = [to |-> p, role |-> r, pending |-> i]]
    <3>1. PICK p \in Persons, r \in Roles :
            /\ Invitable(p)
            /\ \E i \in IF Pending(p) = {} THEN {0} ELSE Pending(p) :
                 inviting' = [inviting EXCEPT ![c] = [to |-> p, role |-> r, pending |-> i]]
      BY <1>2 DEF InviteRead
    <3>2. PICK i \in IF Pending(p) = {} THEN {0} ELSE Pending(p) :
            inviting' = [inviting EXCEPT ![c] = [to |-> p, role |-> r, pending |-> i]]
      BY <3>1
    <3>3. i = 0 \/ i \in Invites
      BY <3>2 DEF Pending
    <3>4. i \in -1..MaxInvites
      BY <3>3, StoreTeamAssumption DEF Invites
    <3>. QED  BY <3>1, <3>2, <3>4
  <2>2. p # Owner
    BY <2>1, OneOwner DEF Invitable
  <2>3. UNCHANGED <<role, invite, tokens, accepting>>
    BY <1>2 DEF InviteRead
  <2>4. TeamTypeOK'
    BY <2>1, <2>3 DEF TeamTypeOK
  <2>5. OwnerNotInvited'
    BY <2>1, <2>2, <2>3 DEF OwnerNotInvited, TeamTypeOK
  <2>. QED  BY <1>1, <2>4, <2>5
<1>3. CASE Save(c)
  <2>. DEFINE q == inviting[c]
              new == [state |-> "open", to |-> q.to, role |-> q.role, token |-> tokens + 1, expired |-> FALSE]
  <2>1. /\ q # NoClick /\ tokens < MaxTokens /\ tokens' = tokens + 1
        /\ inviting' = [inviting EXCEPT ![c] = NoClick]
        /\ UNCHANGED <<role, accepting>>
    BY <1>3 DEF Save
  <2>2. q \in [to : Persons, role : Roles, pending : -1..MaxInvites] /\ q.to # Owner
    BY <2>1 DEF TeamTypeOK, OwnerNotInvited
  <2>3. NoClick \in [to : Persons, role : Roles, pending : -1..MaxInvites]
    BY StoreTeamAssumption DEF NoClick, Roles
  <2>4. tokens' \in 0..MaxTokens
    BY <2>1, StoreTeamAssumption DEF TeamTypeOK
  <2>5. new \in Row /\ new.to # Owner
    BY <2>1, <2>2, <2>4 DEF Row
  <2>6. PICK i : \/ invite' = [invite EXCEPT ![i] = new]
                 \/ invite' = [invite EXCEPT ![i] = [new EXCEPT !.state = invite[i].state]]
    BY <1>3 DEF Save
  <2>7. ASSUME NEW j \in Invites
        PROVE  invite'[j] \in Row /\ (invite'[j].state = "open" => invite'[j].to # Owner)
    <3>1. invite[j] \in Row /\ (invite[j].state = "open" => invite[j].to # Owner)
      BY DEF TeamTypeOK, OwnerNotInvited
    <3>2. [new EXCEPT !.state = invite[j].state] \in Row
      BY <2>5, <3>1 DEF Row
    <3>3. [new EXCEPT !.state = invite[j].state].to # Owner
      BY <2>5
    <3>4. invite'[j] \in {invite[j], new, [new EXCEPT !.state = invite[j].state]}
      BY <2>6 DEF TeamTypeOK
    <3>. HIDE DEF new
    <3>. QED  BY <2>5, <3>1, <3>2, <3>3, <3>4
  <2>8. TeamTypeOK'
    <3>1. invite' \in [Invites -> Row]
      BY <2>6, <2>7 DEF TeamTypeOK
    <3>. QED  BY <2>1, <2>3, <2>4, <3>1 DEF TeamTypeOK
  <2>9. OwnerNotInvited'
    BY <2>1, <2>7 DEF OwnerNotInvited, TeamTypeOK
  <2>. QED  BY <1>1, <2>8, <2>9
<1>. QED  BY <1>2, <1>3

\* Nothing that happens to an invitation afterwards gives it to the owner.
LEMMA AcceptingKeepsOwnerOut ==
  ASSUME TeamInv, NEW p \in Persons, NEW i \in Invites,
         revokeInvite(i) \/ Expires(i) \/ findLive(p, i) \/ acceptInvite(p)
  PROVE  TeamInv'
<1>. USE DEF TeamInv
<1>1. CASE revokeInvite(i) \/ Expires(i)
  <2>1. UNCHANGED <<role, tokens, inviting, accepting>>
    BY <1>1 DEF revokeInvite, Expires
  <2>2. ASSUME NEW j \in Invites
        PROVE  invite'[j] \in Row /\ (invite'[j].state = "open" => invite'[j].to # Owner)
    <3>1. invite[j] \in Row /\ (invite[j].state = "open" => invite[j].to # Owner)
      BY DEF TeamTypeOK, OwnerNotInvited
    <3>2. /\ [invite[j] EXCEPT !.state = "revoked"] \in Row
          /\ [invite[j] EXCEPT !.state = "revoked"].state # "open"
      BY <3>1 DEF Row
    <3>3. /\ [invite[j] EXCEPT !.expired = TRUE] \in Row
          /\ [invite[j] EXCEPT !.expired = TRUE].state = invite[j].state
          /\ [invite[j] EXCEPT !.expired = TRUE].to = invite[j].to
      BY <3>1 DEF Row
    <3>4. \/ invite' = [invite EXCEPT ![i] = [invite[i] EXCEPT !.state = "revoked"]]
          \/ invite' = [invite EXCEPT ![i] = [invite[i] EXCEPT !.expired = TRUE]]
      BY <1>1 DEF revokeInvite, Expires
    <3>5. \/ invite'[j] = invite[j]
          \/ invite'[j] = [invite[j] EXCEPT !.state = "revoked"]
          \/ invite'[j] = [invite[j] EXCEPT !.expired = TRUE]
      BY <3>4 DEF TeamTypeOK
    <3>. QED  BY <3>1, <3>2, <3>3, <3>5
  <2>3. invite' \in [Invites -> Row]
    BY <1>1, <2>2 DEF revokeInvite, Expires, TeamTypeOK
  <2>. QED  BY <2>1, <2>2, <2>3 DEF TeamTypeOK, OwnerStands, OwnerNotInvited
<1>2. CASE findLive(p, i)
  <2>1. p # Owner /\ invite[i].role \in Roles /\ i \in 0..MaxInvites
    BY <1>2, StoreTeamAssumption DEF findLive, OwnerNotInvited, TeamTypeOK, Row, Invites
  <2>. QED  BY <1>2, <2>1 DEF findLive, TeamTypeOK, OwnerStands, OwnerNotInvited
<1>3. CASE acceptInvite(p)
  <2>1. p # Owner /\ accepting[p].role \in Roles
    BY <1>3 DEF acceptInvite, OwnerNotInvited, TeamTypeOK
  <2>2. role' = [role EXCEPT ![p] = accepting[p].role] /\ UNCHANGED <<tokens, inviting>>
        /\ accepting' = [accepting EXCEPT ![p] = NoAccept]
    BY <1>3 DEF acceptInvite
  <2>3. ASSUME NEW j \in Invites
        PROVE  invite'[j] \in Row /\ (invite'[j].state = "open" => invite'[j].to # Owner)
    <3>1. \/ invite'[j] = invite[j]
          \/ invite'[j] = [invite[j] EXCEPT !.state = "revoked"]
          \/ invite'[j] = [invite[j] EXCEPT !.state = "accepted"]
      BY <1>3 DEF acceptInvite, TeamTypeOK
    <3>2. invite[j] \in Row /\ (invite[j].state = "open" => invite[j].to # Owner)
      BY DEF TeamTypeOK, OwnerNotInvited, Row
    <3>. QED BY <3>1, <3>2 DEF Row
  <2>4. invite' \in [Invites -> Row]
    BY <1>3, <2>3 DEF acceptInvite, TeamTypeOK
  <2>5. NoAccept \in [id : 0..MaxInvites, role : Roles]
    BY StoreTeamAssumption DEF NoAccept, Roles
  <2>6. TeamTypeOK'
    BY <2>1, <2>2, <2>4, <2>5 DEF TeamTypeOK
  <2>7. OwnerStands'
    BY <2>1, <2>2, OneOwner, StoreTeamAssumption DEF OwnerStands, TeamTypeOK, Roles
  <2>8. OwnerNotInvited'
    BY <2>1, <2>2, <2>3, StoreTeamAssumption DEF OwnerNotInvited, TeamTypeOK
  <2>. QED  BY <2>6, <2>7, <2>8
<1>. QED  BY <1>1, <1>2, <1>3

\* The invariant of the team.
THEOREM TeamInductive == TeamSpec => []TeamInv
<1>1. TeamInit => TeamInv
  BY StoreTeamAssumption
     DEF TeamInit, TeamInv, TeamTypeOK, OwnerStands, OwnerNotInvited, NoInvite, NoClick, NoAccept,
         Row, Roles, Invites
<1>2. TeamInv /\ [TeamNext]_teamVars => TeamInv'
  <2>. SUFFICES ASSUME TeamInv, [TeamNext]_teamVars
                PROVE  TeamInv'
    OBVIOUS
  <2>1. ASSUME NEW p \in Persons, setMemberRole(p) \/ removeMember(p)
        PROVE  TeamInv'
    <3>1. p # Owner
      BY <2>1, OneOwner DEF setMemberRole, removeMember, Target, TeamInv
    <3>2. PICK r \in {"none"} \union Roles : role' = [role EXCEPT ![p] = r]
      BY <2>1 DEF setMemberRole, removeMember
    <3>3. UNCHANGED <<invite, tokens, inviting, accepting>>
      BY <2>1 DEF setMemberRole, removeMember
    <3>. QED  BY <3>1, <3>2, <3>3, StoreTeamAssumption
              DEF TeamInv, TeamTypeOK, OwnerStands, OwnerNotInvited, Roles
  <2>2. ASSUME NEW p \in Persons, acceptInvite(p)
        PROVE  TeamInv'
    <3>1. CASE Invites = {}
      BY <2>2, <3>1, StoreTeamAssumption
         DEF acceptInvite, TeamInv, TeamTypeOK, OwnerStands, OwnerNotInvited, Roles
    <3>. QED  BY <2>2, <3>1, AcceptingKeepsOwnerOut
  <2>3. CASE UNCHANGED teamVars
    BY <2>3 DEF teamVars, TeamInv, TeamTypeOK, OwnerStands, OwnerNotInvited
  <2>. QED  BY <2>1, <2>2, <2>3, InvitingKeepsOwnerOut, AcceptingKeepsOwnerOut, StoreTeamAssumption
            DEF TeamNext
<1>. QED  BY <1>1, <1>2, PTL DEF TeamSpec

\* The store keeps its one owner, whatever requests are made at once.
THEOREM OwnerIsKept == TeamSpec => []OwnerStands
<1>1. TeamInv => OwnerStands
  BY DEF TeamInv
<1>. QED  BY <1>1, TeamInductive, PTL
-----------------------------------------------------------------------------
(* Campaigns.                                                              *)

\* What each request is about to write was allowed by what it read.
ReadWell ==
  \A a \in Admins :
    LET e == editing[a]
        gallery == IF e.images = Same THEN e.saw ELSE e.images
    IN
    /\ e.op = "status" => e.saw # "finished"
    /\ e.op = "archive" /\ e.to => campaign.status \in {"finished", "gone"} \/ "status" \in stale
    /\ e.op = "photos" => e.cover \in {"same", NoCover} \union gallery \/ gallery = {}

CampaignsInv == CampaignsTypeOK /\ ArchivedIsClosed /\ CoverIsShown /\ ReadWell

\* The columns each kind of write carries.
LEMMA EditShapes ==
  ASSUME NEW e \in Edits
  PROVE  /\ e.op = "status" => e.saw \in Statuses /\ e.to \in Statuses
         /\ e.op = "archive" => e.to \in BOOLEAN
         /\ e.op = "photos" => /\ e.saw \in SUBSET Photos
                               /\ e.images \in (SUBSET Photos) \union {Same}
                               /\ e.cover \in Photos \union {NoCover, "same"}
BY DEF Edits, Unbusy

\* A request that only reads leaves the row alone, and reads well.
LEMMA ReadingKeepsCampaign ==
  ASSUME CampaignsInv, NEW a \in Admins, NEW e \in Edits, Will(a, e),
         e.op = "status" => e.saw # "finished",
         e.op = "archive" /\ e.to => campaign.status \in {"finished", "gone"},
         e.op = "photos" => LET gallery == IF e.images = Same THEN e.saw ELSE e.images
                            IN e.cover \in {"same", NoCover} \union gallery \/ gallery = {}
  PROVE  CampaignsInv'
<1>1. /\ editing' = [editing EXCEPT ![a] = e]
      /\ UNCHANGED <<campaign, donations, stale>>
  BY DEF Will
<1>2. CampaignsTypeOK'
  BY <1>1 DEF CampaignsInv, CampaignsTypeOK
<1>3. ArchivedIsClosed' /\ CoverIsShown'
  BY <1>1 DEF CampaignsInv, ArchivedIsClosed, CoverIsShown
<1>4. ASSUME NEW b \in Admins
      PROVE  editing'[b] = IF b = a THEN e ELSE editing[b]
  BY <1>1 DEF CampaignsInv, CampaignsTypeOK
<1>5. ReadWell'
  BY <1>1, <1>4 DEF CampaignsInv, ReadWell
<1>. QED  BY <1>2, <1>3, <1>5 DEF CampaignsInv

\* Every write empties the request; the others still carry what they read.
LEMMA WritingLeavesOthers ==
  ASSUME CampaignsInv, NEW a \in Admins, NEW op, Writes(a, op)
  PROVE  /\ editing' \in [Admins -> Edits]
         /\ \A b \in Admins : editing'[b] = IF b = a THEN Unbusy ELSE editing[b]
BY DEF CampaignsInv, CampaignsTypeOK, Writes, Edits

\* A write that finds the row deleted changes nothing.
LEMMA LosingKeepsCampaign ==
  ASSUME CampaignsInv, NEW a \in Admins, NEW op, Writes(a, op), Lost
  PROVE  CampaignsInv'
<1>1. UNCHANGED <<campaign, donations, stale>>
  BY DEF Lost
<1>2. CampaignsTypeOK' /\ ArchivedIsClosed' /\ CoverIsShown'
  BY <1>1, WritingLeavesOthers DEF CampaignsInv, CampaignsTypeOK, ArchivedIsClosed, CoverIsShown
<1>3. ReadWell'
  BY <1>1, WritingLeavesOthers DEF CampaignsInv, ReadWell, Unbusy
<1>. QED  BY <1>2, <1>3 DEF CampaignsInv

\* A change of status that raced no other never leaves "finished".
LEMMA StatusKeepsCampaign ==
  ASSUME CampaignsInv, NEW a \in Admins, setCampaignStatus(a)
  PROVE  CampaignsInv'
<1>1. CASE Lost
  BY <1>1, LosingKeepsCampaign DEF setCampaignStatus
<1>2. CASE campaign.status # "gone"
  <2>. DEFINE e == editing[a]
  <2>1. /\ Writes(a, "status") /\ e.op = "status"
        /\ campaign' = [campaign EXCEPT !.status = e.to]
        /\ stale' = stale \union (IF campaign.status = e.saw THEN {} ELSE {"status"})
        /\ donations' = donations
    BY <1>2 DEF setCampaignStatus, Lost, Writes
  <2>2. e \in Edits /\ e.saw # "finished"
    BY <2>1 DEF CampaignsInv, CampaignsTypeOK, ReadWell
  <2>3. e.to \in Statuses
    BY <2>1, <2>2, EditShapes
  <2>4. /\ campaign' \in CampaignState /\ campaign'.status = e.to
        /\ campaign'.archived = campaign.archived
        /\ campaign'.images = campaign.images /\ campaign'.cover = campaign.cover
    BY <2>1, <2>3 DEF CampaignsInv, CampaignsTypeOK, CampaignState
  <2>5. stale \subseteq stale' /\ stale' \subseteq {"status", "photos"}
    BY <2>1 DEF CampaignsInv, CampaignsTypeOK
  <2>6. campaign.status = "finished" => "status" \in stale'
    BY <2>1, <2>2
  <2>7. CampaignsTypeOK'
    BY <2>1, <2>4, <2>5, WritingLeavesOthers DEF CampaignsInv, CampaignsTypeOK
  <2>8. ArchivedIsClosed'
    BY <1>2, <2>4, <2>5, <2>6 DEF CampaignsInv, ArchivedIsClosed
  <2>9. CoverIsShown'
    BY <2>4, <2>5 DEF CampaignsInv, CoverIsShown
  <2>10. ReadWell'
    BY <1>2, <2>1, <2>4, <2>5, <2>6, WritingLeavesOthers DEF CampaignsInv, ReadWell, Unbusy
  <2>. QED  BY <2>7, <2>8, <2>9, <2>10 DEF CampaignsInv
<1>. QED  BY <1>1, <1>2 DEF setCampaignStatus

\* Whoever archives has seen the campaign finished.
LEMMA ArchivingKeepsCampaign ==
  ASSUME CampaignsInv, NEW a \in Admins, setArchived(a)
  PROVE  CampaignsInv'
<1>1. CASE Lost
  BY <1>1, LosingKeepsCampaign DEF setArchived
<1>2. CASE campaign.status # "gone"
  <2>. DEFINE e == editing[a]
  <2>1. /\ Writes(a, "archive") /\ e.op = "archive"
        /\ campaign' = [campaign EXCEPT !.archived = e.to]
        /\ UNCHANGED <<donations, stale>>
    BY <1>2 DEF setArchived, Lost, Writes
  <2>2. e \in Edits
    BY DEF CampaignsInv, CampaignsTypeOK
  <2>3. e.to \in BOOLEAN
    BY <2>1, <2>2, EditShapes
  <2>4. /\ campaign' \in CampaignState /\ campaign'.status = campaign.status
        /\ campaign'.archived = e.to
        /\ campaign'.images = campaign.images /\ campaign'.cover = campaign.cover
    BY <2>1, <2>3 DEF CampaignsInv, CampaignsTypeOK, CampaignState
  <2>5. CampaignsTypeOK'
    BY <2>1, <2>4, WritingLeavesOthers DEF CampaignsInv, CampaignsTypeOK
  <2>6. e.to => campaign.status \in {"finished", "gone"} \/ "status" \in stale
    BY <2>1 DEF CampaignsInv, ReadWell
  <2>7. ArchivedIsClosed'
    BY <2>1, <2>4, <2>6 DEF ArchivedIsClosed
  <2>8. CoverIsShown'
    BY <2>1, <2>4 DEF CampaignsInv, CoverIsShown
  <2>9. ReadWell'
    BY <2>1, <2>4, WritingLeavesOthers DEF CampaignsInv, ReadWell, Unbusy
  <2>. QED  BY <2>5, <2>7, <2>8, <2>9 DEF CampaignsInv
<1>. QED  BY <1>1, <1>2 DEF setArchived

\* An edit of the gallery leaves a cover of it, unless another edit came between.
LEMMA EditingKeepsCampaign ==
  ASSUME CampaignsInv, NEW a \in Admins, update(a)
  PROVE  CampaignsInv'
<1>1. CASE Lost
  BY <1>1, LosingKeepsCampaign DEF update
<1>2. CASE campaign.status # "gone"
  <2>. DEFINE e == editing[a]
              FirstOf(images) == IF images = {} THEN {NoCover} ELSE images
              gallery == IF e.images = Same THEN e.saw ELSE e.images
              images == IF e.images = Same THEN campaign.images ELSE e.images
  <2>1. PICK cover \in IF e.cover # "same" THEN {e.cover}
                       ELSE IF e.images # Same THEN FirstOf(e.images) ELSE {campaign.cover} :
          /\ campaign' = [campaign EXCEPT !.cover = cover, !.images = IF e.images = Same THEN @ ELSE e.images]
    BY <1>2 DEF update, Lost
  <2>2. /\ Writes(a, "photos") /\ e.op = "photos" /\ donations' = donations
        /\ stale' = stale \union (IF campaign.images = e.saw THEN {} ELSE {"photos"})
    BY <1>2 DEF update, Lost, Writes
  <2>3. e \in Edits
    BY DEF CampaignsInv, CampaignsTypeOK
  <2>4. /\ e.images \in (SUBSET Photos) \union {Same}
        /\ e.cover \in Photos \union {NoCover, "same"}
    BY <2>2, <2>3, EditShapes
  <2>5. campaign \in CampaignState
    BY DEF CampaignsInv, CampaignsTypeOK
  <2>6. cover \in Photos \union {NoCover} /\ images \in SUBSET Photos
    BY <2>1, <2>4, <2>5 DEF CampaignState
  <2>7. campaign' = [campaign EXCEPT !.cover = cover, !.images = images]
    BY <2>1, <2>5 DEF CampaignState
  <2>. HIDE DEF images
  <2>8. /\ campaign' \in CampaignState /\ campaign'.status = campaign.status
        /\ campaign'.archived = campaign.archived
        /\ campaign'.images = images /\ campaign'.cover = cover
    BY <2>5, <2>6, <2>7 DEF CampaignState
  <2>9. stale \subseteq stale' /\ stale' \subseteq {"status", "photos"}
    BY <2>2 DEF CampaignsInv, CampaignsTypeOK
  <2>10. CampaignsTypeOK'
    BY <2>2, <2>8, <2>9, WritingLeavesOthers DEF CampaignsInv, CampaignsTypeOK
  <2>11. ArchivedIsClosed'
    BY <2>8, <2>9 DEF CampaignsInv, ArchivedIsClosed
  <2>12. cover \in {NoCover} \union images \/ images = {} \/ "photos" \in stale'
    <3>1. e.cover \in {"same", NoCover} \union gallery \/ gallery = {}
      BY <2>2 DEF CampaignsInv, ReadWell
    <3>2. CASE e.cover # "same"
      BY <2>1, <2>2, <3>1, <3>2 DEF images
    <3>3. CASE e.cover = "same" /\ e.images # Same
      BY <2>1, <3>3 DEF images
    <3>4. CASE e.cover = "same" /\ e.images = Same
      BY <2>1, <2>9, <3>4 DEF CampaignsInv, CoverIsShown, images
    <3>. QED  BY <3>2, <3>3, <3>4
  <2>13. CoverIsShown'
    BY <2>8, <2>12 DEF CoverIsShown
  <2>14. ReadWell'
    BY <2>8, <2>9, <2>2, WritingLeavesOthers DEF CampaignsInv, ReadWell, Unbusy
  <2>. QED  BY <2>10, <2>11, <2>13, <2>14 DEF CampaignsInv
<1>. QED  BY <1>1, <1>2 DEF update

\* A deletion, or a donation, touches neither the photos nor an archived campaign.
LEMMA DeletingKeepsCampaign ==
  ASSUME CampaignsInv, NEW a \in Admins, deleteById(a) \/ createDonation(a)
  PROVE  CampaignsInv'
<1>1. CASE deleteById(a)
  <2>1. /\ Writes(a, "delete") /\ UNCHANGED <<donations, stale>>
        /\ campaign' \in {campaign, [campaign EXCEPT !.status = "gone"]}
    BY <1>1 DEF deleteById
  <2>2. /\ campaign' \in CampaignState /\ campaign'.status \in {campaign.status, "gone"}
        /\ campaign'.archived = campaign.archived
        /\ campaign'.images = campaign.images /\ campaign'.cover = campaign.cover
    BY <2>1 DEF CampaignsInv, CampaignsTypeOK, CampaignState
  <2>3. CampaignsTypeOK'
    BY <2>1, <2>2, WritingLeavesOthers DEF CampaignsInv, CampaignsTypeOK
  <2>4. ArchivedIsClosed' /\ CoverIsShown'
    BY <2>1, <2>2 DEF CampaignsInv, ArchivedIsClosed, CoverIsShown
  <2>5. ReadWell'
    BY <2>1, <2>2, WritingLeavesOthers DEF CampaignsInv, ReadWell, Unbusy
  <2>. QED  BY <2>3, <2>4, <2>5 DEF CampaignsInv
<1>2. CASE createDonation(a)
  <2>1. CASE Lost
    BY <1>2, <2>1, LosingKeepsCampaign DEF createDonation
  <2>2. CASE ~Lost
    <3>1. /\ Writes(a, "donate") /\ UNCHANGED <<campaign, stale>>
          /\ donations < MaxDonations /\ donations' = donations + 1
      BY <1>2, <2>2 DEF createDonation
    <3>2. donations' \in 0..MaxDonations
      BY <3>1, CampaignsAssumption DEF CampaignsInv, CampaignsTypeOK
    <3>3. CampaignsTypeOK'
      BY <3>1, <3>2, WritingLeavesOthers DEF CampaignsInv, CampaignsTypeOK
    <3>4. ArchivedIsClosed' /\ CoverIsShown'
      BY <3>1 DEF CampaignsInv, ArchivedIsClosed, CoverIsShown
    <3>5. ReadWell'
      BY <3>1, WritingLeavesOthers DEF CampaignsInv, ReadWell, Unbusy
    <3>. QED  BY <3>3, <3>4, <3>5 DEF CampaignsInv
  <2>. QED  BY <2>1, <2>2
<1>. QED  BY <1>1, <1>2

\* The row of a campaign is read well, and stays of its type, in every reachable state.
THEOREM CampaignsInductive == CampaignsSpec => []CampaignsInv
<1>1. CampaignsInit => CampaignsInv
  <2>. SUFFICES ASSUME CampaignsInit PROVE CampaignsInv
    OBVIOUS
  <2>1. PICK images \in SUBSET Photos, cover \in Photos \union {NoCover} :
          /\ images = {} \/ cover \in images
          /\ campaign = [status |-> "draft", archived |-> FALSE, images |-> images, cover |-> cover]
    BY DEF CampaignsInit
  <2>2. campaign \in CampaignState
    BY <2>1 DEF CampaignState, Statuses
  <2>3. editing \in [Admins -> Edits] /\ \A a \in Admins : editing[a].op = "none"
    BY DEF CampaignsInit, Edits, Unbusy
  <2>4. CampaignsTypeOK
    BY <2>2, <2>3, CampaignsAssumption DEF CampaignsInit, CampaignsTypeOK
  <2>. QED  BY <2>1, <2>3, <2>4 DEF CampaignsInv, ArchivedIsClosed, CoverIsShown, ReadWell
<1>2. CampaignsInv /\ [CampaignsNext]_campaignVars => CampaignsInv'
  <2>. SUFFICES ASSUME CampaignsInv, [CampaignsNext]_campaignVars PROVE CampaignsInv'
    OBVIOUS
  <2>1. CASE UNCHANGED campaignVars
    BY <2>1 DEF campaignVars, CampaignsInv, CampaignsTypeOK, ArchivedIsClosed, CoverIsShown, ReadWell
  <2>2. ASSUME NEW a \in Admins, updateCampaignStatus(a) PROVE CampaignsInv'
    <3>1. PICK to \in ALLOWED(campaign.status) :
            Will(a, [op |-> "status", saw |-> campaign.status, to |-> to])
      BY <2>2 DEF updateCampaignStatus
    <3>2. campaign.status \in Statuses
      BY <2>2 DEF updateCampaignStatus, Starts, CampaignsInv, CampaignsTypeOK, CampaignState
    <3>3. to \in Statuses /\ campaign.status # "finished"
      BY <3>2 DEF ALLOWED, Statuses
    <3>4. [op |-> "status", saw |-> campaign.status, to |-> to] \in Edits
      BY <3>2, <3>3 DEF Edits
    <3>. QED  BY <3>1, <3>3, <3>4, ReadingKeepsCampaign
  <2>3. ASSUME NEW a \in Admins, archiveCampaign(a) PROVE CampaignsInv'
    <3>1. PICK to \in BOOLEAN : /\ to => campaign.status = "finished"
                                /\ Will(a, [op |-> "archive", to |-> to])
      BY <2>3 DEF archiveCampaign
    <3>2. [op |-> "archive", to |-> to] \in Edits
      BY DEF Edits
    <3>. QED  BY <3>1, <3>2, ReadingKeepsCampaign
  <2>4. ASSUME NEW a \in Admins, updateCampaign(a) PROVE CampaignsInv'
    <3>1. PICK images \in (SUBSET Photos) \union {Same}, cover \in Photos \union {NoCover, "same"} :
            /\ CoverInGallery(cover, images)
            /\ Will(a, [op |-> "photos", saw |-> campaign.images, images |-> images, cover |-> cover])
      BY <2>4 DEF updateCampaign
    <3>2. campaign.images \in SUBSET Photos
      BY DEF CampaignsInv, CampaignsTypeOK, CampaignState
    <3>3. [op |-> "photos", saw |-> campaign.images, images |-> images, cover |-> cover] \in Edits
      BY <3>2 DEF Edits
    <3>4. LET gallery == IF images = Same THEN campaign.images ELSE images
          IN cover \in {"same", NoCover} \union gallery \/ gallery = {}
      BY <3>1 DEF CoverInGallery
    <3>. QED  BY <3>1, <3>3, <3>4, ReadingKeepsCampaign
  <2>5. ASSUME NEW a \in Admins, deleteCampaign(a) \/ isCampaignOpenForDonation(a)
        PROVE  CampaignsInv'
    <3>1. Will(a, [op |-> "delete"]) \/ Will(a, [op |-> "donate"])
      BY <2>5 DEF deleteCampaign, isCampaignOpenForDonation
    <3>2. [op |-> "delete"] \in Edits /\ [op |-> "donate"] \in Edits
      BY DEF Edits
    <3>. QED  BY <3>1, <3>2, ReadingKeepsCampaign
  <2>. QED  BY <2>1, <2>2, <2>3, <2>4, <2>5, StatusKeepsCampaign, ArchivingKeepsCampaign,
               EditingKeepsCampaign, DeletingKeepsCampaign DEF CampaignsNext
<1>. QED  BY <1>1, <1>2, PTL DEF CampaignsSpec

\* A campaign that was archived takes no donations: nothing but two changes of status that
\* raced could have opened it again (archive-campaign and set-campaign-status).
THEOREM ArchivedStaysClosed == CampaignsSpec => []ArchivedIsClosed
BY CampaignsInductive, PTL DEF CampaignsInv

\* The cover is a photo of the gallery unless two edits of the gallery raced
\* (assertCoverInGallery and the update that follows it).
THEOREM CoverStaysShown == CampaignsSpec => []CoverIsShown
BY CampaignsInductive, PTL DEF CampaignsInv
-----------------------------------------------------------------------------
(* Interests.                                                              *)

\* An interest that is notified became so at the stamp it carries.
StampedWhenNoticed ==
  \A p \in People : wish[p].status = "notified" => wish[p].stamp \in noticed[p]

InterestsInv == InterestsTypeOK /\ StampedWhenNoticed /\ NewsIsNotice

WishRow == [status : {"none", "open", "notified", "converted", "cancelled"}, stamp : Stamps]

\* A customer's own steps notify nobody.
LEMMA AskingKeepsNews ==
  ASSUME InterestsInv, NEW p \in People,
         createInterest(p) \/ upsertOpen(p) \/ cancelMine(p) \/ convertForOrder(p)
  PROVE  InterestsInv'
<1>1. UNCHANGED <<onSale, ms, call, calls, told, sending, mailed, noticed>>
  BY DEF createInterest, upsertOpen, cancelMine, convertForOrder
<1>2. PICK mine \in WishRow : /\ wish' = [wish EXCEPT ![p] = mine]
                              /\ mine.status = "notified" => mine = wish[p]
  <2>1. wish[p] \in WishRow /\ wish = [wish EXCEPT ![p] = wish[p]]
    BY DEF InterestsInv, InterestsTypeOK, WishRow
  <2>2. 0 \in Stamps
    BY InterestsAssumption DEF Stamps
  <2>3. [status |-> "open", stamp |-> 0] \in WishRow
    BY <2>2 DEF WishRow
  <2>4. /\ [wish[p] EXCEPT !.status = "cancelled"] \in WishRow
        /\ [wish[p] EXCEPT !.status = "cancelled"].status # "notified"
        /\ [wish[p] EXCEPT !.status = "converted"] \in WishRow
        /\ [wish[p] EXCEPT !.status = "converted"].status # "notified"
    BY <2>1 DEF WishRow
  <2>5. CASE createInterest(p)
    BY <2>1, <2>5 DEF createInterest
  <2>6. CASE upsertOpen(p)
    BY <2>3, <2>6 DEF upsertOpen
  <2>7. CASE cancelMine(p)
    BY <2>4, <2>7 DEF cancelMine
  <2>8. CASE convertForOrder(p)
    BY <2>4, <2>8 DEF convertForOrder
  <2>. QED  BY <2>5, <2>6, <2>7, <2>8
<1>3. wish' \in [People -> WishRow]
  BY <1>2 DEF InterestsInv, InterestsTypeOK, WishRow
<1>4. wanting' \subseteq People /\ asks' \in [People -> 0..MaxAsks]
  <2>1. wanting \subseteq People /\ asks \in [People -> 0..MaxAsks]
    BY DEF InterestsInv, InterestsTypeOK
  <2>2. \/ asks' = asks
        \/ asks[p] < MaxAsks /\ asks' = [asks EXCEPT ![p] = @ + 1]
    BY DEF createInterest, upsertOpen, cancelMine, convertForOrder
  <2>3. wanting' \subseteq wanting \union {p}
    BY DEF createInterest, upsertOpen, cancelMine, convertForOrder
  <2>. QED  BY <2>1, <2>2, <2>3, InterestsAssumption
<1>5. InterestsTypeOK'
  BY <1>1, <1>3, <1>4 DEF InterestsInv, InterestsTypeOK, WishRow
<1>6. \A q \in People : wish'[q].status = "notified" => wish'[q] = wish[q]
  BY <1>2 DEF InterestsInv, InterestsTypeOK
<1>7. StampedWhenNoticed' /\ NewsIsNotice'
  BY <1>1, <1>6 DEF InterestsInv, StampedWhenNoticed, NewsIsNotice
<1>. QED  BY <1>5, <1>7 DEF InterestsInv

\* A call tells exactly the people whose interest it has just notified.
LEMMA NotifyingKeepsNews ==
  ASSUME InterestsInv, NEW a \in Notifiers, notifyArrival(a)
  PROVE  InterestsInv'
<1>. DEFINE c == call[a]
            open == {p \in c.ids : wish[p].status = "open"}
            new == [p \in People |-> IF p \in open THEN [status |-> "notified", stamp |-> c.stamp]
                                                   ELSE wish[p]]
<1>1. /\ c.step = "read" /\ wish' = new
      /\ noticed' = [p \in People |-> IF p \in open THEN noticed[p] \union {c.stamp} ELSE noticed[p]]
      /\ told' = told \union [to : Found(a, new), stamp : {c.stamp}, by : {a}]
      /\ call' = [call EXCEPT ![a] = NoCall]
      /\ UNCHANGED <<onSale, wanting, asks, ms, calls, sending, mailed>>
  BY DEF notifyArrival
<1>2. /\ c \in [step : {"idle", "read"}, ids : SUBSET People, stamp : Stamps]
      /\ c.ids \subseteq People /\ c.stamp \in Stamps
  BY DEF InterestsInv, InterestsTypeOK
<1>3. new \in [People -> WishRow]
  BY <1>2 DEF InterestsInv, InterestsTypeOK, WishRow
<1>4. /\ noticed' \in [People -> SUBSET Stamps]
      /\ \A p \in People : noticed[p] \subseteq noticed'[p]
      /\ \A p \in open : c.stamp \in noticed'[p]
  BY <1>1, <1>2 DEF InterestsInv, InterestsTypeOK
<1>. HIDE DEF open
<1>5. ASSUME NEW p \in People, new[p].status = "notified"
      PROVE  new[p].stamp \in noticed'[p]
  <2>1. CASE p \in open
    BY <1>4, <2>1
  <2>2. CASE p \notin open
    BY <1>4, <1>5, <2>2 DEF InterestsInv, StampedWhenNoticed
  <2>. QED  BY <2>1, <2>2
<1>6. Found(a, new) \subseteq People
  BY <1>2 DEF Found
<1>7. \A p \in Found(a, new) : new[p].status = "notified" /\ new[p].stamp = c.stamp
  BY DEF Found
<1>. HIDE DEF new
<1>8. NoCall \in [step : {"idle", "read"}, ids : SUBSET People, stamp : Stamps]
  BY InterestsAssumption DEF NoCall, Stamps
<1>9. told' \subseteq NewsRows
  BY <1>1, <1>2, <1>6 DEF InterestsInv, InterestsTypeOK, NewsRows
<1>10. InterestsTypeOK'
  BY <1>1, <1>3, <1>4, <1>8, <1>9 DEF InterestsInv, InterestsTypeOK, WishRow
<1>11. StampedWhenNoticed'
  BY <1>1, <1>5 DEF StampedWhenNoticed
<1>12. ASSUME NEW r \in told'
       PROVE  r.stamp \in noticed'[r.to]
  <2>1. CASE r \in told
    BY <1>4, <2>1 DEF InterestsInv, InterestsTypeOK, NewsIsNotice, NewsRows
  <2>2. CASE r \in [to : Found(a, new), stamp : {c.stamp}, by : {a}]
    <3>1. r.to \in Found(a, new) /\ r.stamp = c.stamp
      BY <2>2
    <3>. QED  BY <1>5, <1>6, <1>7, <3>1
  <2>. QED  BY <1>1, <1>12, <2>1, <2>2
<1>. QED  BY <1>10, <1>11, <1>12 DEF InterestsInv, NewsIsNotice

\* The relay, the clock and the shelf tell nobody anything new.
LEMMA DeliveringKeepsNews ==
  ASSUME InterestsInv,
         \/ StockChanges \/ MsPasses
         \/ \E a \in Notifiers : readOpen(a)
         \/ \E r \in told : sendRead(r) \/ sendEmail(r) \/ closeUnsent(r)
  PROVE  InterestsInv'
<1>1. UNCHANGED <<wish, wanting, asks, noticed>> /\ told' \subseteq told
  BY DEF StockChanges, MsPasses, readOpen, sendRead, sendEmail, closeUnsent
<1>2. StampedWhenNoticed' /\ NewsIsNotice'
  BY <1>1 DEF InterestsInv, StampedWhenNoticed, NewsIsNotice
<1>3. ASSUME StockChanges
      PROVE  InterestsTypeOK'
  BY <1>3 DEF StockChanges, InterestsInv, InterestsTypeOK
<1>4. ASSUME MsPasses
      PROVE  InterestsTypeOK'
  BY <1>4, InterestsAssumption DEF MsPasses, InterestsInv, InterestsTypeOK, Stamps
<1>5. ASSUME NEW a \in Notifiers, readOpen(a)
      PROVE  InterestsTypeOK'
  <2>. DEFINE ids == {p \in People : wish[p].status = "open"}
              Calls == [step : {"idle", "read"}, ids : SUBSET People, stamp : Stamps]
  <2>1. PICK c : /\ c \in {NoCall, [step |-> "read", ids |-> ids, stamp |-> ms]}
                 /\ call' = [call EXCEPT ![a] = c]
                 /\ calls < MaxCalls /\ calls' = calls + 1
                 /\ UNCHANGED <<onSale, wish, wanting, asks, ms, told, sending, mailed, noticed>>
    BY <1>5 DEF readOpen
  <2>2. ids \in SUBSET People /\ ms \in Stamps
    BY DEF InterestsInv, InterestsTypeOK
  <2>. HIDE DEF ids
  <2>3. NoCall \in Calls
    BY InterestsAssumption DEF NoCall, Stamps
  <2>4. c \in Calls
    BY <2>1, <2>2, <2>3
  <2>5. call' \in [Notifiers -> Calls]
    BY <2>1, <2>4 DEF InterestsInv, InterestsTypeOK
  <2>6. calls' \in 0..MaxCalls
    BY <2>1, InterestsAssumption DEF InterestsInv, InterestsTypeOK
  <2>. QED  BY <2>1, <2>5, <2>6 DEF InterestsInv, InterestsTypeOK
<1>6. ASSUME NEW r \in told, sendRead(r) \/ sendEmail(r) \/ closeUnsent(r)
      PROVE  InterestsTypeOK'
  <2>1. UNCHANGED <<onSale, wish, wanting, asks, ms, call, calls, noticed>>
    BY <1>6 DEF sendRead, sendEmail, closeUnsent
  <2>2. told' \subseteq NewsRows /\ sending' \subseteq told' /\ mailed' \subseteq told'
    <3>. USE DEF InterestsInv, InterestsTypeOK
    <3>1. CASE sendRead(r)
      BY <3>1 DEF sendRead
    <3>2. CASE sendEmail(r)
      BY <3>2 DEF sendEmail
    <3>3. CASE closeUnsent(r)
      BY <3>3 DEF closeUnsent
    <3>. QED  BY <1>6, <3>1, <3>2, <3>3
  <2>. QED  BY <2>1, <2>2 DEF InterestsInv, InterestsTypeOK
<1>. QED  BY <1>2, <1>3, <1>4, <1>5, <1>6 DEF InterestsInv

\* The types of the interests, and the stamps, hold in every reachable state.
THEOREM InterestsInductive == InterestsSpec => []InterestsInv
<1>1. InterestsInit => InterestsInv
  <2>. SUFFICES ASSUME InterestsInit PROVE InterestsInv
    OBVIOUS
  <2>1. 0 \in Stamps /\ 1 \in Stamps /\ 0 \in 0..MaxAsks /\ 0 \in 0..MaxCalls
    BY InterestsAssumption DEF Stamps
  <2>2. wish \in [People -> WishRow] /\ \A p \in People : wish[p].status = "none"
    BY <2>1 DEF InterestsInit, WishRow, NoWish
  <2>3. call \in [Notifiers -> [step : {"idle", "read"}, ids : SUBSET People, stamp : Stamps]]
    BY <2>1 DEF InterestsInit, NoCall
  <2>4. InterestsTypeOK
    BY <2>1, <2>2, <2>3 DEF InterestsInit, InterestsTypeOK, WishRow
  <2>. QED  BY <2>2, <2>4 DEF InterestsInv, InterestsInit, StampedWhenNoticed, NewsIsNotice
<1>2. InterestsInv /\ [InterestsNext]_interestsVars => InterestsInv'
  <2>. SUFFICES ASSUME InterestsInv, [InterestsNext]_interestsVars PROVE InterestsInv'
    OBVIOUS
  <2>1. CASE UNCHANGED interestsVars
    BY <2>1 DEF interestsVars, InterestsInv, InterestsTypeOK, StampedWhenNoticed, NewsIsNotice
  <2>2. CASE InterestsNext
    BY <2>2, AskingKeepsNews, NotifyingKeepsNews, DeliveringKeepsNews DEF InterestsNext
  <2>. QED  BY <2>1, <2>2
<1>. QED  BY <1>1, <1>2, PTL DEF InterestsSpec

\* Nobody is told of something that did not happen to their interest, however many people
\* cancel, reopen and buy while the store notifies (notifyArrival).
THEOREM NewsIsAlwaysNotice == InterestsSpec => []NewsIsNotice
BY InterestsInductive, PTL DEF InterestsInv

-----------------------------------------------------------------------------
(* Onboarding.                                                             *)

\* No account was entered, changed or made the store's before it was attached.
Untouched(x) == /\ account[x] = [caps |-> NoCaps, no |-> 0]
                /\ x \notin reachable /\ profile.account # x

\* A request that opened an account is the only one that knows of it until the
\* account is attached, and what was not opened yet nobody knows of.
OpenedOnce ==
  /\ \A x \in Accounts : x > opened => Untouched(x)
  /\ \A r \in Openers :
       /\ opening[r].step = "attach"
            => /\ opening[r].account \in 1..opened
               /\ Untouched(opening[r].account)
               /\ \A q \in Openers \ {r} : opening[q].account # opening[r].account
       /\ opening[r].step = "go" => opening[r].account \in 1..opened
       /\ opening[r].step \in {"idle", "create"} => opening[r].account = 0
  /\ profile.account <= opened

\* A state of an account that travels, in an event or in an answer, is not newer
\* than the account, and is its state now if it is as new.
Faithful(a, caps, no) ==
  no <= account[a].no /\ (no = account[a].no => caps = account[a].caps)

TravelsFaithfully ==
  /\ \A a \in Accounts : account[a].no <= updates
  /\ \A e \in mailbox : Faithful(e.account, e.caps, e.no)
  /\ \A w \in Watchers : watching[w] # NotWatching
       => /\ watching[w].account # 0
          /\ Faithful(watching[w].account, watching[w].caps, watching[w].no)

\* The newest state of the store's account was stored, or its event is still in
\* the mailbox.
NewestArrives ==
  profile.account # 0 =>
    LET now == account[profile.account] IN
    /\ seen <= now.no
    /\ seen = now.no \/ [account |-> profile.account, caps |-> now.caps, no |-> now.no] \in mailbox
    /\ seen = now.no /\ ~skewed => profile.caps = now.caps

CapabilitiesInv == OnboardingTypeOK /\ OpenedOnce /\ TravelsFaithfully /\ NewestArrives

LEMMA CapabilitiesInit == OnboardingInit => CapabilitiesInv
<1>. SUFFICES ASSUME OnboardingInit PROVE CapabilitiesInv
  OBVIOUS
<1>. USE OnboardingAssumption DEF OnboardingInit, NoCaps, Accounts, NotOpening, NotWatching
<1>1. OnboardingTypeOK
  <2>1. NoCaps \in Caps
    BY DEF Caps
  <2>2. account \in [Accounts -> [caps : Caps, no : 0..MaxUpdates]]
    BY <2>1
  <2>3. profile \in [account : 0..MaxAccounts, caps : Caps]
    BY <2>1
  <2>4. watching \in [Watchers -> [account : 0..MaxAccounts, caps : Caps, no : 0..MaxUpdates]]
    BY <2>1
  <2>5. opening \in [Openers -> [step : {"idle", "create", "attach", "go"}, account : 0..MaxAccounts]]
    OBVIOUS
  <2>6. opened \in 0..MaxAccounts /\ updates \in 0..MaxUpdates /\ seen \in 0..MaxUpdates
    OBVIOUS
  <2>7. reachable \subseteq Accounts /\ mailbox \subseteq Updates /\ skewed \in BOOLEAN
    OBVIOUS
  <2>. HIDE DEF OnboardingInit, NoCaps, Accounts, NotOpening, NotWatching
  <2>. QED BY <2>2, <2>3, <2>4, <2>5, <2>6, <2>7 DEF OnboardingTypeOK
<1>2. OpenedOnce
  BY DEF OpenedOnce, Untouched
<1>3. TravelsFaithfully
  BY DEF TravelsFaithfully, Faithful
<1>4. NewestArrives
  BY DEF NewestArrives
<1>. QED BY <1>1, <1>2, <1>3, <1>4 DEF CapabilitiesInv

\* A request of the owner takes its next step.
LEMMA OpeningKeepsInv ==
  ASSUME CapabilitiesInv, NEW r \in Openers,
         openRead(r) \/ createConnectedAccount(r) \/ attachStripeAccount(r) \/ enterAccount(r)
  PROVE  CapabilitiesInv'
<1>. USE OnboardingAssumption DEF CapabilitiesInv, Accounts
<1>1. CASE openRead(r)
  <2>1. OnboardingTypeOK'
    BY <1>1 DEF openRead, OnboardingTypeOK
  <2>2. OpenedOnce'
    BY <1>1 DEF openRead, OnboardingTypeOK, OpenedOnce, Untouched
  <2>3. TravelsFaithfully' /\ NewestArrives'
    BY <1>1 DEF openRead, TravelsFaithfully, Faithful, NewestArrives
  <2>. QED BY <2>1, <2>2, <2>3
<1>2. CASE createConnectedAccount(r)
  <2>0. PICK next \in {[step |-> "attach", account |-> opened + 1], NotOpening} :
          opening' = [opening EXCEPT ![r] = next]
    BY <1>2 DEF createConnectedAccount
  <2>1. OnboardingTypeOK'
    <3>1. next \in [step : {"idle", "create", "attach", "go"}, account : 0..MaxAccounts]
      BY <1>2 DEF createConnectedAccount, OnboardingTypeOK, NotOpening
    <3>. QED BY <1>2, <2>0, <3>1 DEF createConnectedAccount, OnboardingTypeOK
  <2>2. OpenedOnce'
    <3>1. \A x \in Accounts : Untouched(x)' <=> Untouched(x)
      BY <1>2 DEF createConnectedAccount, Untouched
    <3>2. opened' = opened + 1 /\ opened \in 0..(MaxAccounts - 1) /\ profile' = profile
      BY <1>2 DEF createConnectedAccount, OnboardingTypeOK
    <3>3. \A q \in Openers \ {r} : opening'[q] = opening[q]
      BY <2>0
    <3>4. opening'[r] = next
      BY <2>0 DEF OnboardingTypeOK
    <3>5. \A q \in Openers : opening[q].account \in 0..opened
      BY DEF OnboardingTypeOK, OpenedOnce
    <3>6. profile.account \in 0..opened
      BY DEF OnboardingTypeOK, OpenedOnce
    <3>. HIDE DEF Untouched
    <3>7. CASE next = NotOpening
      BY <3>1, <3>2, <3>3, <3>4, <3>5, <3>6, <3>7 DEF OpenedOnce, NotOpening
    <3>8. CASE next = [step |-> "attach", account |-> opened + 1]
      BY <3>1, <3>2, <3>3, <3>4, <3>5, <3>6, <3>8 DEF OpenedOnce
    <3>. QED BY <3>7, <3>8
  <2>3. TravelsFaithfully' /\ NewestArrives'
    BY <1>2 DEF createConnectedAccount, TravelsFaithfully, Faithful, NewestArrives
  <2>. QED BY <2>1, <2>2, <2>3
<1>3. CASE attachStripeAccount(r)
  <2>1. OnboardingTypeOK'
    <3>1. /\ profile' \in [account : 0..MaxAccounts, caps : Caps]
          /\ opening' \in [Openers -> [step : {"idle", "create", "attach", "go"},
                                      account : 0..MaxAccounts]]
      BY <1>3 DEF attachStripeAccount, OnboardingTypeOK
    <3>. QED BY <1>3, <3>1 DEF attachStripeAccount, OnboardingTypeOK
  <2>2. OpenedOnce'
    BY <1>3 DEF attachStripeAccount, OnboardingTypeOK, OpenedOnce, Untouched
  <2>3. TravelsFaithfully'
    BY <1>3 DEF attachStripeAccount, TravelsFaithfully, Faithful
  <2>4. NewestArrives'
    <3>1. /\ account'[profile'.account] = [caps |-> NoCaps, no |-> 0]
          /\ seen' = 0 /\ (~skewed' => profile'.caps = NoCaps)
      BY <1>3 DEF attachStripeAccount, OnboardingTypeOK, OpenedOnce, Untouched
    <3>2. /\ account'[profile'.account].no = 0
          /\ account'[profile'.account].caps = NoCaps
      BY <3>1
    <3>. HIDE DEF NoCaps
    <3>. QED BY <3>1, <3>2 DEF NewestArrives
  <2>. QED BY <2>1, <2>2, <2>3, <2>4
<1>4. CASE enterAccount(r)
  <2>1. OnboardingTypeOK'
    BY <1>4 DEF enterAccount, OnboardingTypeOK, OpenedOnce, NotOpening
  <2>2. OpenedOnce'
    BY <1>4 DEF enterAccount, OnboardingTypeOK, OpenedOnce, Untouched, NotOpening
  <2>3. TravelsFaithfully' /\ NewestArrives'
    BY <1>4 DEF enterAccount, TravelsFaithfully, Faithful, NewestArrives
  <2>. QED BY <2>1, <2>2, <2>3
<1>. QED BY <1>1, <1>2, <1>3, <1>4

\* Stripe changes an account: every state on its way is older from then on.
LEMMA ChangingKeepsInv ==
  ASSUME CapabilitiesInv, NEW a \in Accounts, AccountChanges(a)
  PROVE  CapabilitiesInv'
<1>. USE OnboardingAssumption DEF CapabilitiesInv, Accounts
<1>1. PICK caps \in Caps \ {account[a].caps} :
        /\ account' = [account EXCEPT ![a] = [caps |-> caps, no |-> updates + 1]]
        /\ mailbox' = mailbox \union {[account |-> a, caps |-> caps, no |-> updates + 1]}
  BY DEF AccountChanges
<1>2. /\ a \in reachable /\ updates < MaxUpdates /\ updates' = updates + 1
      /\ UNCHANGED <<opened, reachable, profile, opening, watching, seen, skewed>>
  BY DEF AccountChanges
<1>3. OnboardingTypeOK'
  <2>1. updates + 1 \in 0..MaxUpdates /\ caps \in Caps
    BY <1>1, <1>2 DEF OnboardingTypeOK
  <2>2. account' \in [Accounts -> [caps : Caps, no : 0..MaxUpdates]]
    BY <1>1, <2>1 DEF OnboardingTypeOK
  <2>3. mailbox' \subseteq Updates
    BY <1>1, <2>1 DEF OnboardingTypeOK, Updates
  <2>. QED BY <1>2, <2>1, <2>2, <2>3 DEF OnboardingTypeOK
<1>4. OpenedOnce'
  <2>1. \A x \in Accounts : Untouched(x) => Untouched(x)'
    BY <1>1, <1>2 DEF OnboardingTypeOK, Untouched
  <2>2. opening' = opening /\ opened' = opened /\ profile' = profile /\ opened \in 0..MaxAccounts
    BY <1>2 DEF OnboardingTypeOK
  <2>. HIDE DEF Untouched
  <2>. QED BY <2>1, <2>2 DEF OpenedOnce
<1>5. TravelsFaithfully'
  BY <1>1, <1>2 DEF OnboardingTypeOK, TravelsFaithfully, Faithful, Updates
<1>6. NewestArrives'
  BY <1>1, <1>2 DEF OnboardingTypeOK, TravelsFaithfully, NewestArrives
<1>. QED BY <1>3, <1>4, <1>5, <1>6

\* A state that travelled is stored, and its event may leave the mailbox.
LEMMA StoringKeepsInv ==
  ASSUME CapabilitiesInv, NEW a \in Accounts, NEW caps \in Caps, NEW no \in 0..MaxUpdates,
         Faithful(a, caps, no), setStripeCapabilities(a, caps, no),
         UNCHANGED <<account, opened, reachable, updates, opening>>,
         mailbox' \in {mailbox, mailbox \ {[account |-> a, caps |-> caps, no |-> no]}},
         watching' = watching \/ \E w \in Watchers : watching' = [watching EXCEPT ![w] = NotWatching]
  PROVE  CapabilitiesInv'
<1>. USE OnboardingAssumption DEF CapabilitiesInv, Accounts
<1>1. /\ profile' \in [account : 0..MaxAccounts, caps : Caps] /\ profile'.account = profile.account
      /\ seen' \in 0..MaxUpdates /\ skewed' \in BOOLEAN
  <2>1. profile \in [account : 0..MaxAccounts, caps : Caps] /\ seen \in 0..MaxUpdates /\ skewed \in BOOLEAN
    BY DEF OnboardingTypeOK
  <2>2. CASE profile.account = a
    BY <2>1, <2>2 DEF setStripeCapabilities
  <2>3. CASE profile.account # a
    BY <2>1, <2>3 DEF setStripeCapabilities
  <2>. QED BY <2>2, <2>3
<1>2. OnboardingTypeOK'
  <2>1. NotWatching \in [account : 0..MaxAccounts, caps : Caps, no : 0..MaxUpdates]
    BY DEF NotWatching, NoCaps, Caps
  <2>2. watching' \in [Watchers -> [account : 0..MaxAccounts, caps : Caps, no : 0..MaxUpdates]]
    BY <2>1 DEF OnboardingTypeOK
  <2>. QED BY <1>1, <2>2 DEF OnboardingTypeOK
<1>3. OpenedOnce'
  BY <1>1 DEF OpenedOnce, Untouched
<1>4. TravelsFaithfully'
  BY DEF OnboardingTypeOK, TravelsFaithfully, Faithful, NotWatching
<1>5. NewestArrives'
  BY <1>1 DEF OnboardingTypeOK, NewestArrives, Faithful, setStripeCapabilities
<1>. QED BY <1>2, <1>3, <1>4, <1>5

LEMMA CapabilitiesNext == CapabilitiesInv /\ [OnboardingNext]_onboardingVars => CapabilitiesInv'
<1>. SUFFICES ASSUME CapabilitiesInv, [OnboardingNext]_onboardingVars
              PROVE  CapabilitiesInv'
  OBVIOUS
<1>. USE DEF CapabilitiesInv
<1>1. ASSUME NEW r \in Openers,
             openRead(r) \/ createConnectedAccount(r) \/ attachStripeAccount(r) \/ enterAccount(r)
      PROVE  CapabilitiesInv'
  BY <1>1, OpeningKeepsInv
<1>2. ASSUME NEW a \in Accounts, AccountChanges(a)
      PROVE  CapabilitiesInv'
  BY <1>2, ChangingKeepsInv
<1>3. ASSUME NEW e \in mailbox, applyAccountUpdated(e)
      PROVE  CapabilitiesInv'
  <2>1. e \in Updates /\ Faithful(e.account, e.caps, e.no)
    BY DEF OnboardingTypeOK, TravelsFaithfully
  <2>2. e = [account |-> e.account, caps |-> e.caps, no |-> e.no]
    BY <2>1 DEF Updates
  <2>3. e.account \in Accounts /\ e.caps \in Caps /\ e.no \in 0..MaxUpdates
    BY <2>1, OnboardingAssumption DEF Updates
  <2>. QED BY <1>3, <2>1, <2>2, <2>3, StoringKeepsInv DEF applyAccountUpdated
<1>4. ASSUME NEW w \in Watchers, retrieveAccountStatus(w)
      PROVE  CapabilitiesInv'
  <2>. USE <1>4, OnboardingAssumption DEF retrieveAccountStatus, Accounts
  <2>1. OnboardingTypeOK'
    BY DEF OnboardingTypeOK
  <2>2. OpenedOnce' /\ NewestArrives'
    BY DEF OpenedOnce, Untouched, NewestArrives
  <2>3. TravelsFaithfully'
    BY DEF OnboardingTypeOK, TravelsFaithfully, Faithful
  <2>. QED BY <2>1, <2>2, <2>3
<1>5. ASSUME NEW w \in Watchers, storeStatus(w)
      PROVE  CapabilitiesInv'
  <2>. DEFINE n == watching[w]
  <2>1. n.account # 0 /\ Faithful(n.account, n.caps, n.no)
    BY <1>5 DEF storeStatus, TravelsFaithfully
  <2>2. n.account \in Accounts /\ n.caps \in Caps /\ n.no \in 0..MaxUpdates
    BY <2>1, OnboardingAssumption DEF OnboardingTypeOK, Accounts
  <2>3. /\ setStripeCapabilities(n.account, n.caps, n.no)
        /\ UNCHANGED <<account, opened, reachable, updates, mailbox, opening>>
        /\ watching' = [watching EXCEPT ![w] = NotWatching]
    BY <1>5 DEF storeStatus
  <2>. HIDE DEF n
  <2>. QED BY <2>1, <2>2, <2>3, StoringKeepsInv
<1>6. CASE createDashboardLink
  <2>. USE <1>6, OnboardingAssumption DEF createDashboardLink, Accounts
  <2>1. OnboardingTypeOK'
    <3>1. profile.account \in 1..MaxAccounts
      BY DEF OnboardingTypeOK
    <3>. QED BY <3>1 DEF OnboardingTypeOK
  <2>2. OpenedOnce'
    BY DEF OnboardingTypeOK, OpenedOnce, Untouched
  <2>3. TravelsFaithfully' /\ NewestArrives'
    BY DEF TravelsFaithfully, Faithful, NewestArrives
  <2>. QED BY <2>1, <2>2, <2>3
<1>7. CASE UNCHANGED onboardingVars
  BY <1>7 DEF onboardingVars, OnboardingTypeOK, OpenedOnce, Untouched, TravelsFaithfully,
              Faithful, NewestArrives
<1>. QED BY <1>1, <1>2, <1>3, <1>4, <1>5, <1>6, <1>7 DEF OnboardingNext

\* Once its events are in, the store knows what its own account may do, whatever
\* accounts overlapping requests opened for it: an account nobody attached yet
\* has not changed, and the newest state of the attached one is never dropped.
THEOREM CapabilitiesSettle == OnboardingSpec => []SettledCapabilities
<1>1. CapabilitiesInv => SettledCapabilities
  BY DEF CapabilitiesInv, NewestArrives, SettledCapabilities
<1>. QED
  BY <1>1, CapabilitiesInit, CapabilitiesNext, PTL DEF OnboardingSpec

-----------------------------------------------------------------------------
(* Categories.                                                             *)

\* An order somebody asked for, or the last that was stored, may name drawers
\* that are gone, but none that does not exist yet.
OrderOfDrawers(ids) == ids \in Seq(spent) /\ IsInjective(ids)

CategoriesInv ==
  /\ DOMAIN drawer \subseteq spent /\ spent \subseteq Drawers
  /\ \A d \in DOMAIN drawer : DOMAIN drawer[d] = {"pos", "slug"}
  /\ DOMAIN desk = Desks
  /\ \A a \in Desks : desk[a].op = "reorder" => OrderOfDrawers(desk[a].ids)
  /\ OrderOfDrawers(arranged)
  /\ WholeOrder

\* Whatever else a request writes, the drawers that were arranged keep their
\* places or go.
LEMMA PlacesKept ==
  ASSUME CategoriesInv, spent \subseteq spent', spent' \subseteq Drawers,
         DOMAIN drawer' \subseteq spent', DOMAIN desk' = Desks, arranged' = arranged,
         \A d \in DOMAIN drawer' : DOMAIN drawer'[d] = {"pos", "slug"},
         \A a \in Desks : desk'[a].op = "reorder" => desk'[a] = desk[a],
         \A d \in spent \cap DOMAIN drawer' : d \in DOMAIN drawer /\ drawer'[d].pos = drawer[d].pos
  PROVE  CategoriesInv'
<1>1. \A ids : OrderOfDrawers(ids) => ids \in Seq(spent') /\ IsInjective(ids)
  BY DEF OrderOfDrawers
<1>2. \A i \in 1..Len(arranged) : arranged[i] \in spent
  BY DEF CategoriesInv, OrderOfDrawers
<1>3. WholeOrder'
  BY <1>2 DEF CategoriesInv, WholeOrder
<1>. QED BY <1>1, <1>3 DEF CategoriesInv, OrderOfDrawers

\* A request that reads changes nothing but its own desk.
LEMMA AskingKeepsPlaces ==
  ASSUME CategoriesInv, NEW a \in Desks, NEW what, Asks(a, what),
         what.op = "reorder" => OrderOfDrawers(what.ids)
  PROVE  CategoriesInv'
<1>. USE DEF CategoriesInv, Asks
<1>1. DOMAIN desk' = Desks /\ \A b \in Desks : desk'[b] = IF b = a THEN what ELSE desk[b]
  OBVIOUS
<1>2. \A b \in Desks : desk'[b].op = "reorder" => OrderOfDrawers(desk'[b].ids)
  BY <1>1
<1>3. WholeOrder'
  BY DEF WholeOrder
<1>. QED BY <1>1, <1>2, <1>3 DEF OrderOfDrawers

\* A reordering is written as a whole or not at all.
LEMMA ReorderingKeepsPlaces ==
  ASSUME CategoriesInv, NEW a \in Desks, reorder(a)
  PROVE  CategoriesInv'
<1>. DEFINE ids == desk[a].ids
<1>. USE DEF CategoriesInv
<1>1. /\ OrderOfDrawers(ids) /\ spent' = spent
      /\ drawer' = Reordered(ids)
      /\ arranged' = IF Range(ids) \subseteq DOMAIN drawer THEN ids ELSE arranged
      /\ desk' = [desk EXCEPT ![a] = NoDesk]
  BY DEF reorder, Closes
<1>. HIDE DEF ids
<1>2. /\ DOMAIN desk' = Desks
      /\ \A b \in Desks : desk'[b].op = "reorder" => desk'[b] = desk[b]
  BY <1>1 DEF NoDesk
<1>3. CASE ~(Range(ids) \subseteq DOMAIN drawer)
  <2>1. drawer' = drawer /\ arranged' = arranged
    BY <1>1, <1>3 DEF Reordered
  <2>. QED BY <1>1, <1>2, <2>1, PlacesKept
<1>4. CASE Range(ids) \subseteq DOMAIN drawer
  <2>. DEFINE place(d) == CHOOSE i \in 1..Len(ids) : ids[i] = d
  <2>1. /\ DOMAIN drawer' = DOMAIN drawer /\ arranged' = ids
        /\ \A d \in Range(ids) : drawer'[d] = [drawer[d] EXCEPT !.pos = place(d) - 1]
    BY <1>1, <1>4 DEF Reordered
  <2>2. ids \in Seq(spent) /\ Range(ids) = {ids[i] : i \in 1..Len(ids)}
    BY <1>1 DEF OrderOfDrawers, Range
  <2>3. ASSUME NEW i \in 1..Len(ids)
        PROVE  drawer'[ids[i]].pos = i - 1
    <3>1. \A j \in 1..Len(ids) : ids[j] = ids[i] => j = i
      BY <1>1, <2>2 DEF OrderOfDrawers, IsInjective
    <3>2. place(ids[i]) = i
      BY <3>1
    <3>3. "pos" \in DOMAIN drawer[ids[i]]
      BY <1>4, <2>2
    <3>. HIDE DEF place
    <3>4. ids[i] \in Range(ids)
      BY <2>2
    <3>5. drawer'[ids[i]] = [drawer[ids[i]] EXCEPT !.pos = i - 1]
      BY <2>1, <3>2, <3>4
    <3>. QED BY <3>3, <3>5
  <2>4. WholeOrder'
    BY <2>1, <2>2, <2>3 DEF WholeOrder
  <2>5. \A d \in DOMAIN drawer' : DOMAIN drawer'[d] = {"pos", "slug"}
    BY <1>1, <1>4 DEF Reordered
  <2>. QED BY <1>1, <1>2, <2>1, <2>4, <2>5 DEF OrderOfDrawers
<1>. QED BY <1>3, <1>4

LEMMA CategoriesInvInit == CategoriesInit => CategoriesInv
BY DEF CategoriesInit, CategoriesInv, OrderOfDrawers, IsInjective, WholeOrder, NoDesk

LEMMA CategoriesInvNext == CategoriesInv /\ [CategoriesNext]_categoryVars => CategoriesInv'
<1>. SUFFICES ASSUME CategoriesInv, [CategoriesNext]_categoryVars
              PROVE  CategoriesInv'
  OBVIOUS
<1>1. ASSUME NEW a \in Desks, createRead(a) \/ renameRead(a) \/ assertCategoryForStore(a)
      PROVE  CategoriesInv'
  BY <1>1, AskingKeepsPlaces DEF createRead, renameRead, assertCategoryForStore
<1>2. ASSUME NEW a \in Desks, reorderCheck(a)
      PROVE  CategoriesInv'
  <2>1. PICK ids \in UNION {[1..n -> DOMAIN drawer] : n \in 1..Cardinality(DOMAIN drawer)} :
          IsInjective(ids) /\ Asks(a, [op |-> "reorder", ids |-> ids])
    BY <1>2 DEF reorderCheck
  <2>2. Cardinality(DOMAIN drawer) \in Nat
    BY CategoriesAssumption, FS_Subset, FS_CardinalityType DEF CategoriesInv
  <2>3. OrderOfDrawers(ids)
    BY <2>1, <2>2 DEF CategoriesInv, OrderOfDrawers
  <2>. QED BY <2>1, <2>3, AskingKeepsPlaces
<1>3. ASSUME NEW a \in Desks, Closes(a, desk[a].op)
      PROVE  /\ DOMAIN desk' = Desks
             /\ \A b \in Desks : desk'[b].op = "reorder" => desk'[b] = desk[b]
  BY <1>3 DEF Closes, CategoriesInv, NoDesk
<1>4. ASSUME NEW a \in Desks, create(a)
      PROVE  CategoriesInv'
  <2>1. CASE UNCHANGED <<drawer, spent>>
    BY <1>3, <1>4, <2>1, PlacesKept DEF create, Closes, CategoriesInv
  <2>2. ASSUME NEW d \in Drawers \ spent,
               drawer' = [c \in DOMAIN drawer \union {d} |->
                            IF c = d THEN [pos |-> desk[a].pos, slug |-> desk[a].slug] ELSE drawer[c]],
               spent' = spent \union {d}
        PROVE  CategoriesInv'
    <3>1. /\ DOMAIN drawer' = DOMAIN drawer \union {d}
          /\ DOMAIN drawer'[d] = {"pos", "slug"}
          /\ \A c \in DOMAIN drawer : drawer'[c] = drawer[c]
      BY <2>2 DEF CategoriesInv
    <3>2. spent \subseteq spent' /\ d \notin spent /\ arranged' = arranged
      BY <1>4, <2>2 DEF create
    <3>3. desk[a].op = "create"
      BY <1>4 DEF create, Closes
    <3>4. /\ DOMAIN desk' = Desks
          /\ \A b \in Desks : desk'[b].op = "reorder" => desk'[b] = desk[b]
      BY <1>3, <1>4, <3>3 DEF create
    <3>5. spent' \subseteq Drawers /\ DOMAIN drawer' \subseteq spent'
      BY <2>2, <3>1 DEF CategoriesInv
    <3>6. \A c \in DOMAIN drawer' : DOMAIN drawer'[c] = {"pos", "slug"}
      BY <3>1 DEF CategoriesInv
    <3>7. \A c \in spent \cap DOMAIN drawer' : c \in DOMAIN drawer /\ drawer'[c].pos = drawer[c].pos
      BY <3>1, <3>2
    <3>. QED BY <3>2, <3>4, <3>5, <3>6, <3>7, PlacesKept
  <2>. QED BY <1>4, <2>1, <2>2 DEF create
<1>5. ASSUME NEW a \in Desks, rename(a)
      PROVE  CategoriesInv'
  <2>1. \/ drawer' = drawer
        \/ drawer' = [drawer EXCEPT ![desk[a].id].slug = desk[a].slug]
    BY <1>5 DEF rename
  <2>2. /\ DOMAIN drawer' = DOMAIN drawer
        /\ \A d \in DOMAIN drawer : DOMAIN drawer'[d] = DOMAIN drawer[d] /\ drawer'[d].pos = drawer[d].pos
    BY <2>1 DEF CategoriesInv
  <2>. QED BY <1>3, <1>5, <2>2, PlacesKept DEF rename, Closes, CategoriesInv
<1>6. ASSUME NEW a \in Desks, reorder(a)
      PROVE  CategoriesInv'
  BY <1>6, ReorderingKeepsPlaces
<1>7. ASSUME NEW a \in Desks, fileProduct(a)
      PROVE  CategoriesInv'
  BY <1>3, <1>7, PlacesKept DEF fileProduct, Closes, CategoriesInv
<1>8. ASSUME NEW d \in DOMAIN drawer, remove(d)
      PROVE  CategoriesInv'
  BY <1>8, PlacesKept DEF remove, CategoriesInv
<1>9. CASE UNCHANGED categoryVars
  BY <1>9, PlacesKept DEF categoryVars, CategoriesInv
<1>. QED BY <1>1, <1>2, <1>4, <1>5, <1>6, <1>7, <1>8, <1>9 DEF CategoriesNext

\* The page shows the drawers that are left in the last order that was stored,
\* whatever was created, renamed, removed or reordered at the same moment.
THEOREM OrderStaysWhole == CategoriesSpec => []WholeOrder
<1>1. CategoriesInv => WholeOrder
  BY DEF CategoriesInv
<1>. QED BY <1>1, CategoriesInvInit, CategoriesInvNext, PTL DEF CategoriesSpec

-----------------------------------------------------------------------------
(* Agenda.                                                                 *)

\* Rows numbered from 0 without a gap, no number twice.
Numbered(rows) ==
  \E n \in Nat : /\ {rows[b].pos : b \in DOMAIN rows} = 0..(n - 1)
                 /\ \A b, c \in DOMAIN rows : rows[b].pos = rows[c].pos => b = c

FormRow == [id : BatchIds \union {NewBatch}, seats : Nat, window : Windows]

FormRecord == [step : {"idle", "open", "checked", "replaced"}, rows : Seq(FormRow),
               before : SUBSET BatchIds, seats : Nat]

SeatRecord == [step : {"none", "offered", "held", "returned", "refused"},
               from : BatchIds \union {Own}, present : BOOLEAN]

AgendaInv ==
  /\ DOMAIN batches \subseteq usedIds /\ usedIds \subseteq BatchIds
  /\ \A b \in DOMAIN batches : batches[b] \in [pos : Int, seats : Int, window : Windows]
  /\ event.made \in BOOLEAN /\ DOMAIN event = {"made", "active", "seats", "ends"}
  /\ form \in [Organisers -> FormRecord]
  /\ seat \in [Buyers -> SeatRecord]
  /\ ~event.made => \A o \in Buyers : seat[o].step = "none"
  /\ SoldBatchStays
  /\ Numbered(batches)

LEMMA NumberedIsOrderOfSale ==
  ASSUME IsFiniteSet(DOMAIN batches), Numbered(batches)
  PROVE  OrderOfSale
<1>1. PICK n \in Nat : /\ {batches[b].pos : b \in DOMAIN batches} = 0..(n - 1)
                       /\ \A b, c \in DOMAIN batches : batches[b].pos = batches[c].pos => b = c
  BY DEF Numbered
<1>. DEFINE place == [b \in DOMAIN batches |-> batches[b].pos]
<1>2. place \in Injection(DOMAIN batches, 0..(n - 1)) /\ place \in Surjection(DOMAIN batches, 0..(n - 1))
  BY <1>1 DEF Injection, Surjection, IsInjective
<1>3. IsFiniteSet(0..(n - 1)) /\ Cardinality(0..(n - 1)) = n
  BY FS_Interval
<1>. HIDE DEF place
<1>4. Cardinality(DOMAIN batches) = n
  BY <1>2, <1>3, FS_Injection
<1>. QED BY <1>1, <1>4 DEF OrderOfSale

\* Rows that are given the numbers of an order of theirs.
LEMMA OrderedIsNumbered ==
  ASSUME NEW S, NEW list \in Seq(S), IsInjective(list), NEW rows, DOMAIN rows = Range(list),
         \A i \in 1..Len(list) : rows[list[i]].pos = i - 1
  PROVE  Numbered(rows)
<1>1. Len(list) \in Nat /\ DOMAIN rows = {list[i] : i \in 1..Len(list)}
  BY DEF Range
<1>2. {rows[b].pos : b \in DOMAIN rows} = 0..(Len(list) - 1)
  <2>1. ASSUME NEW b \in DOMAIN rows
        PROVE  rows[b].pos \in 0..(Len(list) - 1)
    <3>1. PICK i \in 1..Len(list) : b = list[i]
      BY <1>1
    <3>. QED BY <1>1, <3>1
  <2>2. ASSUME NEW k \in 0..(Len(list) - 1)
        PROVE  \E b \in DOMAIN rows : rows[b].pos = k
    <3>1. k + 1 \in 1..Len(list) /\ (k + 1) - 1 = k
      BY <1>1
    <3>2. rows[list[k + 1]].pos = k
      BY <3>1
    <3>. QED BY <1>1, <3>1, <3>2
  <2>. QED BY <2>1, <2>2
<1>3. \A b, c \in DOMAIN rows : rows[b].pos = rows[c].pos => b = c
  BY <1>1
<1>. QED BY <1>1, <1>2, <1>3 DEF Numbered

\* A step that moves no row, and sells none that is gone.
LEMMA AgendaFrame ==
  ASSUME AgendaInv,
         DOMAIN batches' = DOMAIN batches, usedIds' = usedIds,
         event'.made \in BOOLEAN, DOMAIN event' = {"made", "active", "seats", "ends"},
         event.made => event'.made,
         \A b \in DOMAIN batches : /\ batches'[b] \in [pos : Int, seats : Int, window : Windows]
                                   /\ batches'[b].pos = batches[b].pos,
         form' \in [Organisers -> FormRecord],
         seat' \in [Buyers -> SeatRecord],
         ~event'.made => seat' = seat,
         \A o \in Buyers : seat'[o].step \in {"held", "returned"} =>
            \/ seat[o].step \in {"held", "returned"} /\ seat'[o].from = seat[o].from
            \/ seat'[o].from \in DOMAIN batches \union {Own}
  PROVE  AgendaInv'
<1>1. Numbered(batches')
  <2>1. {batches'[b].pos : b \in DOMAIN batches'} = {batches[b].pos : b \in DOMAIN batches}
    OBVIOUS
  <2>. QED BY <2>1 DEF AgendaInv, Numbered
<1>2. SoldBatchStays'
  BY DEF AgendaInv, SoldBatchStays
<1>. QED BY <1>1, <1>2 DEF AgendaInv

LEMMA AgendaInvInit == AgendaInit => AgendaInv
<1>. SUFFICES ASSUME AgendaInit PROVE AgendaInv
  OBVIOUS
<1>1. /\ DOMAIN batches = {} /\ usedIds = {} /\ event.made = FALSE
      /\ DOMAIN event = {"made", "active", "seats", "ends"}
  BY DEF AgendaInit
<1>2. Numbered(batches)
  <2>1. {batches[b].pos : b \in DOMAIN batches} = 0..(0 - 1)
    BY <1>1
  <2>. QED BY <1>1, <2>1 DEF Numbered
<1>3. form \in [Organisers -> FormRecord]
  BY DEF AgendaInit, NoForm, FormRecord
<1>4. seat \in [Buyers -> SeatRecord]
  BY DEF AgendaInit, NoSeat, SeatRecord
<1>5. \A o \in Buyers : seat[o].step = "none"
  BY DEF AgendaInit, NoSeat, SeatRecord
<1>. QED BY <1>1, <1>2, <1>3, <1>4, <1>5 DEF AgendaInv, SoldBatchStays

\* The first rows of an event are numbered as the form lists them.
LEMMA CreatingNumbers ==
  ASSUME AgendaInv, createEvent
  PROVE  AgendaInv'
<1>0. PICK rows \in BoundedSeq([id : {NewBatch}, seats : FormSeats, window : Windows], 2),
           seats \in FormSeats, ends \in 0..LastHour :
        \E ids \in [1..Len(rows) -> BatchIds] :
          /\ IsInjective(ids)
          /\ event' = [made |-> TRUE, active |-> TRUE, seats |-> seats, ends |-> ends]
          /\ batches' = [b \in Range(ids) |->
                           LET i == CHOOSE k \in 1..Len(rows) : ids[k] = b
                           IN  [pos |-> i - 1, seats |-> rows[i].seats, window |-> rows[i].window]]
          /\ usedIds' = Range(ids)
  BY DEF createEvent
<1>1. PICK ids \in [1..Len(rows) -> BatchIds] :
        /\ IsInjective(ids)
        /\ event' = [made |-> TRUE, active |-> TRUE, seats |-> seats, ends |-> ends]
        /\ batches' = [b \in Range(ids) |->
                         LET i == CHOOSE k \in 1..Len(rows) : ids[k] = b
                         IN  [pos |-> i - 1, seats |-> rows[i].seats, window |-> rows[i].window]]
        /\ usedIds' = Range(ids)
  BY <1>0
<1>2. PICK n \in 0..2 :
        rows \in [1..n -> [id : {NewBatch}, seats : FormSeats, window : Windows]]
  BY DEF BoundedSeq, SeqOf
<1>3. Len(rows) = n /\ n \in Nat
  BY <1>2
<1>4. ids \in Seq(BatchIds) /\ Len(ids) = n
  BY <1>1, <1>3
<1>. DEFINE place(b) == CHOOSE k \in 1..Len(rows) : ids[k] = b
<1>5. \A b \in Range(ids) :
        batches'[b] = [pos |-> place(b) - 1, seats |-> rows[place(b)].seats,
                       window |-> rows[place(b)].window]
  BY <1>1
<1>6. ASSUME NEW i \in 1..Len(ids)
      PROVE  ids[i] \in Range(ids) /\ place(ids[i]) = i
  <2>1. \A k \in 1..Len(rows) : ids[k] = ids[i] => k = i
    BY <1>1, <1>3, <1>4 DEF IsInjective
  <2>. QED BY <1>3, <1>4, <2>1 DEF Range
<1>. HIDE DEF place
<1>7. \A i \in 1..Len(ids) : batches'[ids[i]].pos = i - 1
  <2>. SUFFICES ASSUME NEW i \in 1..Len(ids)
                PROVE  batches'[ids[i]].pos = i - 1
    OBVIOUS
  <2>1. batches'[ids[i]] = [pos |-> i - 1, seats |-> rows[i].seats, window |-> rows[i].window]
    BY <1>5, <1>6
  <2>. QED BY <2>1
<1>8. DOMAIN batches' = Range(ids)
  BY <1>1
<1>9. Numbered(batches')
  BY <1>1, <1>4, <1>7, <1>8, OrderedIsNumbered
<1>10. \A b \in DOMAIN batches' : batches'[b] \in [pos : Int, seats : Int, window : Windows]
  <2>. SUFFICES ASSUME NEW b \in DOMAIN batches'
                PROVE  batches'[b] \in [pos : Int, seats : Int, window : Windows]
    OBVIOUS
  <2>1. PICK i \in 1..Len(ids) : b = ids[i]
    BY <1>4, <1>8 DEF Range
  <2>2. batches'[b] = [pos |-> i - 1, seats |-> rows[i].seats, window |-> rows[i].window]
    BY <1>5, <1>6, <2>1
  <2>3. rows[i].seats \in Nat /\ rows[i].window \in Windows
    BY <1>2, <1>3, <1>4, AgendaAssumption
  <2>. QED BY <1>4, <2>2, <2>3
<1>11. \A o \in Buyers : seat[o].step = "none"
  BY DEF AgendaInv, createEvent
<1>12. Range(ids) \subseteq BatchIds
  BY <1>4 DEF Range
<1>13. /\ form' = form /\ seat' = seat /\ event'.made = TRUE
       /\ DOMAIN event' = {"made", "active", "seats", "ends"}
  BY <1>1 DEF createEvent
<1>. QED
  BY <1>1, <1>8, <1>9, <1>10, <1>11, <1>12, <1>13 DEF AgendaInv, SoldBatchStays

\* Two lists without a common element, one after the other.
LEMMA Joined ==
  ASSUME NEW S, NEW s \in Seq(S), NEW t \in Seq(S), IsInjective(s), IsInjective(t),
         Range(s) \cap Range(t) = {}
  PROVE  s \o t \in Seq(S) /\ IsInjective(s \o t) /\ Range(s \o t) = Range(s) \union Range(t)
<1>. DEFINE all == s \o t
<1>1. /\ all \in Seq(S) /\ Len(all) = Len(s) + Len(t) /\ Len(s) \in Nat /\ Len(t) \in Nat
      /\ DOMAIN all = 1..Len(all) /\ DOMAIN s = 1..Len(s) /\ DOMAIN t = 1..Len(t)
  OBVIOUS
<1>2. \A i \in 1..Len(s) : all[i] = s[i] /\ s[i] \in Range(s) /\ i \in 1..Len(all)
  BY DEF Range
<1>3. \A i \in 1..Len(t) : all[Len(s) + i] = t[i] /\ t[i] \in Range(t) /\ Len(s) + i \in 1..Len(all)
  BY DEF Range
<1>. HIDE DEF all
<1>4. ASSUME NEW k \in 1..Len(all)
      PROVE  \/ k \in 1..Len(s)
             \/ k - Len(s) \in 1..Len(t) /\ Len(s) + (k - Len(s)) = k
  BY <1>1
<1>5. ASSUME NEW k \in 1..Len(all), k \notin 1..Len(s)
      PROVE  all[k] = t[k - Len(s)] /\ all[k] \in Range(t)
  <2>1. k - Len(s) \in 1..Len(t) /\ Len(s) + (k - Len(s)) = k
    BY <1>4, <1>5
  <2>. QED BY <1>3, <2>1
<1>6. ASSUME NEW i \in 1..Len(all), NEW j \in 1..Len(all), all[i] = all[j]
      PROVE  i = j
  <2>1. CASE i \in 1..Len(s) /\ j \in 1..Len(s)
    BY <1>1, <1>2, <1>6, <2>1 DEF IsInjective
  <2>2. CASE i \notin 1..Len(s) /\ j \notin 1..Len(s)
    <3>1. /\ i - Len(s) \in 1..Len(t) /\ j - Len(s) \in 1..Len(t)
          /\ t[i - Len(s)] = t[j - Len(s)]
      BY <1>4, <1>5, <1>6, <2>2
    <3>2. i - Len(s) = j - Len(s)
      BY <1>1, <3>1 DEF IsInjective
    <3>. QED BY <1>1, <3>2
  <2>3. CASE i \in 1..Len(s) <=> j \notin 1..Len(s)
    BY <1>2, <1>5, <1>6, <2>3
  <2>. QED BY <2>1, <2>2, <2>3
<1>7. Range(all) = Range(s) \union Range(t)
  <2>1. ASSUME NEW x \in Range(all)
        PROVE  x \in Range(s) \union Range(t)
    BY <1>1, <1>2, <1>5, <2>1 DEF Range
  <2>2. ASSUME NEW x \in Range(s) \union Range(t)
        PROVE  x \in Range(all)
    <3>1. PICK k \in 1..Len(all) : all[k] = x
      <4>1. CASE x \in Range(s)
        BY <1>1, <1>2, <4>1 DEF Range
      <4>2. CASE x \in Range(t)
        <5>1. PICK i \in 1..Len(t) : t[i] = x
          BY <1>1, <4>2 DEF Range
        <5>. QED BY <1>3, <5>1
      <4>. QED BY <2>2, <4>1, <4>2
    <3>. QED BY <1>1, <3>1 DEF Range
  <2>. QED BY <2>1, <2>2
<1>. QED BY <1>1, <1>6, <1>7 DEF all, IsInjective

\* The rows the form did not know, in some order.
LEMMA LeftoversListed ==
  ASSUME AgendaInv, NEW a \in Organisers, NEW left \in LeftoverOrders(a)
  PROVE  left \in Seq(BatchIds) /\ IsInjective(left) /\ Range(left) = Leftovers(a)
<1>. DEFINE S == Leftovers(a)
<1>1. S \subseteq BatchIds /\ IsFiniteSet(S) /\ Cardinality(S) \in Nat
  BY AgendaAssumption, FS_Subset, FS_CardinalityType DEF AgendaInv, Leftovers
<1>. DEFINE n == Cardinality(S)
<1>2. /\ left \in [1..n -> S]
      /\ \A i, j \in 1..n : i # j => left[i] # left[j]
  BY DEF LeftoverOrders, SetToSeqs
<1>3. IsFiniteSet(1..n) /\ Cardinality(1..n) = n
  BY <1>1, FS_Interval
<1>4. n \in Nat /\ n = Cardinality(S)
  BY <1>1
<1>. HIDE DEF n, S
<1>5. left \in Injection(1..n, S)
  BY <1>2 DEF Injection, IsInjective
<1>6. left \in Surjection(1..n, S)
  BY <1>1, <1>3, <1>4, <1>5, FS_Injection
<1>7. Range(left) = S
  BY <1>2, <1>6 DEF Surjection, Range
<1>. QED BY <1>1, <1>2, <1>4, <1>5, <1>7 DEF S, Injection, IsInjective

\* A form that is written numbers the rows it did not know and then its own, and
\* keeps every row a seat was sold from.
LEMMA ReplacingNumbers ==
  ASSUME AgendaInv, NEW a \in Organisers, replaceBatches(a)
  PROVE  AgendaInv'
<1>. DEFINE rows == form[a].rows
            news == {i \in 1..Len(rows) : rows[i].id = NewBatch}
<1>0. PICK left \in LeftoverOrders(a) :
        \/ form' = [form EXCEPT ![a] = NoForm] /\ UNCHANGED <<batches, usedIds>>
        \/ /\ ~Refused(a)
           /\ \E ids \in [1..Len(rows) -> BatchIds] :
                /\ IsInjective(ids)
                /\ \A i \in 1..Len(rows) : IF i \in news THEN ids[i] \notin usedIds
                                                         ELSE ids[i] = rows[i].id
                /\ batches' = Renumbered(left \o ids, Rewritten(ids, rows))
                /\ usedIds' = usedIds \union Range(ids)
                /\ form' = [form EXCEPT ![a].step = "replaced"]
  BY DEF replaceBatches
<1>1. event' = event /\ seat' = seat
  BY DEF replaceBatches
<1>2. rows \in Seq(FormRow) /\ Len(rows) \in Nat
  BY DEF AgendaInv, FormRecord
<1>3. CASE form' = [form EXCEPT ![a] = NoForm] /\ UNCHANGED <<batches, usedIds>>
  <2>1. form' \in [Organisers -> FormRecord]
    BY <1>3 DEF AgendaInv, NoForm, FormRecord
  <2>. QED BY <1>1, <1>3, <2>1, AgendaFrame DEF AgendaInv
<1>4. ASSUME ~Refused(a),
             NEW ids \in [1..Len(rows) -> BatchIds], IsInjective(ids),
             \A i \in 1..Len(rows) : IF i \in news THEN ids[i] \notin usedIds
                                                    ELSE ids[i] = rows[i].id,
             batches' = Renumbered(left \o ids, Rewritten(ids, rows)),
             usedIds' = usedIds \union Range(ids),
             form' = [form EXCEPT ![a].step = "replaced"]
      PROVE  AgendaInv'
  <2>. DEFINE all == left \o ids
              place(b) == CHOOSE k \in 1..Len(all) : all[k] = b
  <2>1. /\ left \in Seq(BatchIds) /\ IsInjective(left) /\ Range(left) = Leftovers(a)
        /\ ids \in Seq(BatchIds) /\ Len(ids) = Len(rows)
    BY <1>2, <1>4, LeftoversListed
  <2>2. ASSUME NEW i \in 1..Len(ids)
        PROVE  ids[i] \notin Leftovers(a)
    <3>1. CASE i \in news
      BY <1>4, <2>1, <3>1 DEF AgendaInv, Leftovers
    <3>2. CASE i \notin news
      BY <1>4, <2>1, <3>2 DEF Leftovers, Kept
    <3>. QED BY <3>1, <3>2
  <2>3. Range(left) \cap Range(ids) = {}
    BY <2>1, <2>2 DEF Range
  <2>4. all \in Seq(BatchIds) /\ IsInjective(all) /\ Range(all) = Range(left) \union Range(ids)
    BY <1>4, <2>1, <2>3, Joined
  <2>5. DOMAIN all = 1..Len(all) /\ Len(all) \in Nat
    BY <2>4
  <2>. DEFINE text == Rewritten(ids, rows)
  <2>6. /\ DOMAIN batches' = Range(all)
        /\ \A b \in Range(all) : batches'[b] = [text[b] EXCEPT !.pos = place(b) - 1]
    BY <1>4 DEF Renumbered
  <2>7. ASSUME NEW b \in Range(all)
        PROVE  text[b] \in [pos : Int, seats : Int, window : Windows]
    <3>1. CASE b \in Range(ids)
      <4>. DEFINE k == CHOOSE k \in 1..Len(rows) : ids[k] = b
      <4>1. k \in 1..Len(rows)
        BY <2>1, <3>1 DEF Range
      <4>2. text[b] = [pos |-> 0, seats |-> rows[k].seats, window |-> rows[k].window]
        BY <3>1 DEF Rewritten
      <4>. HIDE DEF k
      <4>3. rows[k] \in FormRow
        BY <1>2, <4>1
      <4>4. rows[k].seats \in Nat /\ rows[k].window \in Windows
        BY <4>3 DEF FormRow
      <4>. QED BY <4>2, <4>4
    <3>2. CASE b \notin Range(ids)
      <4>1. b \in DOMAIN batches
        BY <2>1, <2>4, <3>2 DEF Leftovers
      <4>2. text[b] = batches[b]
        BY <3>2, <4>1 DEF Rewritten
      <4>. QED BY <4>1, <4>2 DEF AgendaInv
    <3>. QED BY <3>1, <3>2
  <2>8. ASSUME NEW i \in 1..Len(all)
        PROVE  all[i] \in Range(all) /\ place(all[i]) = i
    <3>. HIDE DEF all
    <3>1. \A k \in 1..Len(all) : all[k] = all[i] => k = i
      BY <2>4, <2>5 DEF IsInjective
    <3>. QED BY <2>5, <3>1 DEF Range
  <2>. HIDE DEF text, place, all
  <2>9. ASSUME NEW i \in 1..Len(all)
        PROVE  /\ batches'[all[i]] \in [pos : Int, seats : Int, window : Windows]
               /\ batches'[all[i]].pos = i - 1
    <3>1. /\ batches'[all[i]] = [text[all[i]] EXCEPT !.pos = i - 1]
          /\ text[all[i]] \in [pos : Int, seats : Int, window : Windows]
      BY <2>6, <2>7, <2>8
    <3>. QED BY <3>1
  <2>10. Range(all) = {all[i] : i \in 1..Len(all)}
    BY <2>5 DEF Range
  <2>11. Numbered(batches')
    BY <2>4, <2>6, <2>9, <2>10, OrderedIsNumbered
  <2>12. \A b \in DOMAIN batches' : batches'[b] \in [pos : Int, seats : Int, window : Windows]
    BY <2>6, <2>9, <2>10
  <2>13. DOMAIN batches' \subseteq usedIds' /\ usedIds' \subseteq BatchIds
    <3>1. Range(ids) \subseteq BatchIds
      BY <2>1 DEF Range
    <3>2. Leftovers(a) \subseteq usedIds
      BY DEF AgendaInv, Leftovers
    <3>. QED BY <1>4, <2>1, <2>4, <2>6, <3>1, <3>2 DEF AgendaInv
  <2>14. SoldBatchStays'
    <3>. SUFFICES ASSUME NEW o \in Buyers, seat[o].step \in {"held", "returned"}, seat[o].from # Own
                  PROVE  seat[o].from \in Range(all)
      BY <1>1, <2>6 DEF SoldBatchStays
    <3>1. seat[o].from \in DOMAIN batches \cap SoldFrom
      BY DEF AgendaInv, SoldBatchStays, SoldFrom
    <3>2. seat[o].from \notin Removed(a)
      BY <1>4, <3>1 DEF Refused
    <3>3. CASE seat[o].from \in Kept(a)
      <4>1. PICK i \in 1..Len(rows) : rows[i].id = seat[o].from /\ i \notin news
        BY <3>3 DEF Kept
      <4>. QED BY <1>4, <2>1, <2>4, <4>1 DEF Range
    <3>. QED BY <2>1, <2>4, <3>1, <3>2, <3>3 DEF Leftovers
  <2>15. form' \in [Organisers -> FormRecord]
    <3>1. form[a] \in FormRecord
      BY DEF AgendaInv
    <3>2. [form[a] EXCEPT !.step = "replaced"] \in FormRecord
      BY <3>1 DEF FormRecord
    <3>. QED BY <1>4, <3>2 DEF AgendaInv
  <2>. HIDE DEF rows, news
  <2>. QED BY <1>1, <2>11, <2>12, <2>13, <2>14, <2>15 DEF AgendaInv
<1>. QED
  <2>. HIDE DEF rows, news
  <2>. QED BY <1>0, <1>3, <1>4

\* The other requests of an organiser.
LEMMA OrganisingKeepsBatches ==
  ASSUME AgendaInv, NEW a \in Organisers, OpenForm(a) \/ replaceCheck(a) \/ updateEvent(a)
  PROVE  AgendaInv'
<1>. USE DEF AgendaInv
<1>1. form[a] \in FormRecord /\ NoForm \in FormRecord
  BY DEF NoForm, FormRecord
<1>2. CASE OpenForm(a)
  <2>1. PICK rows \in BatchForms, seats \in FormSeats :
          form' = [form EXCEPT ![a] = [step |-> "open", rows |-> rows, before |-> {}, seats |-> seats]]
    BY <1>2 DEF OpenForm
  <2>2. PICK n \in 0..2 : rows \in [1..n -> Entry]
    BY DEF BatchForms, BoundedSeq, SeqOf
  <2>3. Entry \subseteq FormRow
    BY AgendaAssumption DEF Entry, FormRow
  <2>4. rows \in Seq(FormRow) /\ seats \in Nat
    BY <2>2, <2>3, AgendaAssumption
  <2>5. [step |-> "open", rows |-> rows, before |-> {}, seats |-> seats] \in FormRecord
    BY <2>4 DEF FormRecord
  <2>6. form' \in [Organisers -> FormRecord]
    BY <2>1, <2>5
  <2>. QED BY <1>2, <2>6, AgendaFrame DEF OpenForm
<1>3. CASE replaceCheck(a)
  <2>1. [form[a] EXCEPT !.step = "checked", !.before = DOMAIN batches] \in FormRecord
    BY <1>1 DEF FormRecord
  <2>2. form' \in [Organisers -> FormRecord]
    BY <1>1, <1>3, <2>1 DEF replaceCheck
  <2>. QED BY <1>3, <2>2, AgendaFrame DEF replaceCheck
<1>4. CASE updateEvent(a)
  <2>1. /\ form' \in [Organisers -> FormRecord]
        /\ event'.made = event.made /\ DOMAIN event' = DOMAIN event
    BY <1>1, <1>4 DEF updateEvent
  <2>. QED BY <1>4, <2>1, AgendaFrame DEF updateEvent
<1>. QED BY <1>2, <1>3, <1>4

\* A row whose seats change stays where it is.
LEMMA SeatsMoveNoRow ==
  ASSUME AgendaInv, NEW b \in DOMAIN batches,
         \/ batches' = [batches EXCEPT ![b].seats = @ - 1]
         \/ batches' = [batches EXCEPT ![b].seats = @ + 1]
  PROVE  /\ DOMAIN batches' = DOMAIN batches
         /\ \A c \in DOMAIN batches : /\ batches'[c] \in [pos : Int, seats : Int, window : Windows]
                                      /\ batches'[c].pos = batches[c].pos
<1>1. batches[b] \in [pos : Int, seats : Int, window : Windows]
  BY DEF AgendaInv
<1>2. PICK v \in Int : batches' = [batches EXCEPT ![b] = [batches[b] EXCEPT !.seats = v]]
  <2>1. batches[b].seats - 1 \in Int /\ batches[b].seats + 1 \in Int
    BY <1>1
  <2>2. CASE batches' = [batches EXCEPT ![b].seats = @ - 1]
    BY <2>1, <2>2
  <2>3. CASE batches' = [batches EXCEPT ![b].seats = @ + 1]
    BY <2>1, <2>3
  <2>. QED BY <2>2, <2>3
<1>3. /\ [batches[b] EXCEPT !.seats = v] \in [pos : Int, seats : Int, window : Windows]
      /\ [batches[b] EXCEPT !.seats = v].pos = batches[b].pos
  BY <1>1
<1>. QED BY <1>2, <1>3 DEF AgendaInv

\* What a buyer does moves no row, and takes a seat only from a row that is there.
LEMMA BuyingKeepsBatches ==
  ASSUME AgendaInv, NEW o \in Buyers,
         ChooseOffer(o) \/ TakeSeat(o) \/ restockItems(o) \/ checkIn(o)
  PROVE  AgendaInv'
<1>. DEFINE b == seat[o].from
<1>1. /\ usedIds' = usedIds /\ form' = form
      /\ event'.made = event.made /\ event.made \in BOOLEAN
      /\ DOMAIN event' = {"made", "active", "seats", "ends"}
  <2>1. /\ usedIds' = usedIds /\ form' = form
        /\ \/ event' = event
           \/ event' = [event EXCEPT !.seats = @ - 1]
           \/ event' = [event EXCEPT !.seats = @ + 1]
    BY DEF ChooseOffer, TakeSeat, restockItems, checkIn
  <2>. QED BY <2>1 DEF AgendaInv
<1>2. \A p \in Buyers : seat[p] \in SeatRecord
  BY DEF AgendaInv
<1>3. seat[o].step # "none" => event.made
  BY <1>1 DEF AgendaInv
<1>4. CASE ChooseOffer(o)
  <2>1. PICK c \in activeOffer : seat' = [seat EXCEPT ![o].step = "offered", ![o].from = c]
    BY <1>4 DEF ChooseOffer
  <2>2. c \in BatchIds \union {Own}
    BY <2>1 DEF activeOffer, AgendaInv
  <2>3. [seat[o] EXCEPT !.step = "offered", !.from = c] \in SeatRecord
    BY <1>2, <2>2 DEF SeatRecord
  <2>4. seat' = [seat EXCEPT ![o] = [seat[o] EXCEPT !.step = "offered", !.from = c]]
    BY <2>1
  <2>5. seat'[o].step = "offered"
    BY <1>2, <2>4 DEF AgendaInv, SeatRecord
  <2>6. batches' = batches /\ event.made
    BY <1>4 DEF ChooseOffer
  <2>. QED BY <1>1, <2>3, <2>4, <2>5, <2>6, AgendaFrame DEF AgendaInv
<1>5. ASSUME NEW s \in {"held", "refused", "returned"}, seat[o].step # "none",
             seat' = [seat EXCEPT ![o].step = s],
             DOMAIN batches' = DOMAIN batches,
             \A c \in DOMAIN batches : /\ batches'[c] \in [pos : Int, seats : Int, window : Windows]
                                       /\ batches'[c].pos = batches[c].pos,
             \/ s = "refused" \/ b \in DOMAIN batches \union {Own}
             \/ seat[o].step \in {"held", "returned"}
      PROVE  AgendaInv'
  <2>1. [seat[o] EXCEPT !.step = s] \in SeatRecord
    BY <1>2 DEF SeatRecord
  <2>2. seat' = [seat EXCEPT ![o] = [seat[o] EXCEPT !.step = s]]
    BY <1>5
  <2>3. seat'[o].step = s /\ seat'[o].from = b
    BY <1>2, <2>2 DEF AgendaInv, SeatRecord
  <2>. QED BY <1>1, <1>3, <1>5, <2>1, <2>2, <2>3, AgendaFrame DEF AgendaInv
<1>6. CASE TakeSeat(o)
  <2>1. CASE SeatsIn(b) > 0 /\ seat' = [seat EXCEPT ![o].step = "held"]
    <3>1. CASE b = Own
      BY <1>5, <1>6, <2>1, <3>1 DEF TakeSeat, AgendaInv
    <3>2. CASE b # Own
      <4>1. b \in DOMAIN batches
        BY <2>1, <3>2 DEF SeatsIn
      <4>2. batches' = [batches EXCEPT ![b].seats = @ - 1] /\ seat[o].step # "none"
        BY <1>6, <2>1, <3>2 DEF TakeSeat
      <4>. HIDE DEF b
      <4>3. /\ DOMAIN batches' = DOMAIN batches
            /\ \A c \in DOMAIN batches : /\ batches'[c] \in [pos : Int, seats : Int, window : Windows]
                                         /\ batches'[c].pos = batches[c].pos
        BY <4>1, <4>2, SeatsMoveNoRow
      <4>. QED BY <1>5, <2>1, <4>1, <4>2, <4>3
    <3>. QED BY <3>1, <3>2
  <2>2. CASE seat' = [seat EXCEPT ![o].step = "refused"] /\ UNCHANGED <<event, batches>>
    BY <1>5, <1>6, <2>2 DEF TakeSeat, AgendaInv
  <2>. QED BY <1>6, <2>1, <2>2 DEF TakeSeat
<1>7. CASE restockItems(o)
  <2>1. CASE b = Own
    BY <1>5, <1>7, <2>1 DEF restockItems, AgendaInv
  <2>2. CASE b # Own
    <3>1. b \in DOMAIN batches
      BY <1>7, <2>2 DEF restockItems, AgendaInv, SoldBatchStays
    <3>2. /\ batches' = [batches EXCEPT ![b].seats = @ + 1] /\ seat[o].step # "none"
          /\ seat' = [seat EXCEPT ![o].step = "returned"]
      BY <1>7, <2>2 DEF restockItems
    <3>. HIDE DEF b
    <3>3. /\ DOMAIN batches' = DOMAIN batches
          /\ \A c \in DOMAIN batches : /\ batches'[c] \in [pos : Int, seats : Int, window : Windows]
                                       /\ batches'[c].pos = batches[c].pos
      BY <3>1, <3>2, SeatsMoveNoRow
    <3>. QED BY <1>5, <3>1, <3>2, <3>3
  <2>. QED BY <2>1, <2>2
<1>8. CASE checkIn(o)
  <2>1. [seat[o] EXCEPT !.present = ~@] \in SeatRecord
    BY <1>2 DEF SeatRecord
  <2>2. seat' = [seat EXCEPT ![o] = [seat[o] EXCEPT !.present = ~@]]
    BY <1>8 DEF checkIn
  <2>3. seat'[o].step = seat[o].step /\ seat'[o].from = b
    BY <1>2, <2>2 DEF AgendaInv, SeatRecord
  <2>4. seat[o].step # "none" /\ batches' = batches
    BY <1>8 DEF checkIn
  <2>. QED BY <1>1, <1>3, <2>1, <2>2, <2>3, <2>4, AgendaFrame DEF AgendaInv
<1>. QED BY <1>4, <1>6, <1>7, <1>8

LEMMA AgendaInvNext == AgendaInv /\ [AgendaNext]_agendaVars => AgendaInv'
<1>. SUFFICES ASSUME AgendaInv, [AgendaNext]_agendaVars
              PROVE  AgendaInv'
  OBVIOUS
<1>1. CASE createEvent
  BY <1>1, CreatingNumbers
<1>2. CASE archiveEvent \/ restoreEvent \/ HourPasses
  <2>1. /\ \/ event' = event
           \/ event' = [event EXCEPT !.active = FALSE]
           \/ event' = [event EXCEPT !.active = TRUE]
        /\ UNCHANGED <<batches, usedIds, form, seat>>
    BY <1>2 DEF archiveEvent, restoreEvent, HourPasses
  <2>2. event'.made = event.made /\ DOMAIN event' = DOMAIN event
    BY <2>1 DEF AgendaInv
  <2>. QED BY <2>1, <2>2, AgendaFrame DEF AgendaInv
<1>3. ASSUME NEW a \in Organisers,
             OpenForm(a) \/ replaceCheck(a) \/ replaceBatches(a) \/ updateEvent(a)
      PROVE  AgendaInv'
  BY <1>3, OrganisingKeepsBatches, ReplacingNumbers
<1>4. ASSUME NEW o \in Buyers, ChooseOffer(o) \/ TakeSeat(o) \/ restockItems(o) \/ checkIn(o)
      PROVE  AgendaInv'
  BY <1>4, BuyingKeepsBatches
<1>5. CASE UNCHANGED agendaVars
  BY <1>5, AgendaFrame DEF agendaVars, AgendaInv
<1>. QED BY <1>1, <1>2, <1>3, <1>4, <1>5 DEF AgendaNext

\* No form takes away the batch a seat was sold from, whatever was sold between
\* its check and its writes and whatever another form wrote meanwhile.
THEOREM SoldBatchesStay == AgendaSpec => []SoldBatchStays
<1>1. AgendaInv => SoldBatchStays
  BY DEF AgendaInv
<1>. QED BY <1>1, AgendaInvInit, AgendaInvNext, PTL DEF AgendaSpec

\* Whatever forms are written over each other, the batches are numbered from 0
\* without a gap: the rows a form did not know come first, then its own.
THEOREM BatchesSellInOrder == AgendaSpec => []OrderOfSale
<1>1. AgendaInv => OrderOfSale
  <2>. SUFFICES ASSUME AgendaInv PROVE OrderOfSale
    OBVIOUS
  <2>1. IsFiniteSet(DOMAIN batches)
    BY AgendaAssumption, FS_Subset DEF AgendaInv
  <2>. QED BY <2>1, NumberedIsOrderOfSale DEF AgendaInv
<1>. QED BY <1>1, AgendaInvInit, AgendaInvNext, PTL DEF AgendaSpec

-----------------------------------------------------------------------------
(* Pages.                                                                  *)

RowsTyped ==
  item \in [Ids -> [made : BOOLEAN, stamp : Nat, price : Nat, active : BOOLEAN, matches : BOOLEAN]]

\* The order of a list is one: of two rows one precedes the other, and none itself.
LEMMA ListOrder ==
  ASSUME RowsTyped, NEW sort \in Sorts
  PROVE  /\ \A q \in Ids : SortKey(q, sort) \in Nat /\ q \in Nat /\ ~Precedes(q, q, sort)
         /\ \A q, r \in Ids : q = r \/ Precedes(q, r, sort) \/ Precedes(r, q, sort)
         /\ \A q, r, s \in Ids : Precedes(q, r, sort) /\ Precedes(r, s, sort) => Precedes(q, s, sort)
<1>1. \A q \in Ids : SortKey(q, sort) \in Nat /\ q \in Nat
  BY PagesAssumption DEF RowsTyped, SortKey, Ids
<1>2. CASE sort = "price_asc"
  BY <1>1, <1>2 DEF Precedes
<1>3. CASE sort # "price_asc"
  BY <1>1, <1>3 DEF Precedes
<1>. QED BY <1>1, <1>2, <1>3

\* The condition of the cursor says what the order of the list says of the row the cursor is
\* made of, and it holds of whatever follows a row it holds of.
LEMMA CursorFollowsOrder ==
  ASSUME RowsTyped, NEW sort \in Sorts
  PROVE  /\ \A q, r \in Ids : After(r, Cursor(q, sort), sort) <=> Precedes(q, r, sort)
         /\ \A q, r \in Ids, key \in Nat, id \in Ids :
              /\ After(q, [at |-> "after", id |-> id, key |-> key], sort)
              /\ Precedes(q, r, sort)
              => After(r, [at |-> "after", id |-> id, key |-> key], sort)
<1>1. \A q \in Ids : SortKey(q, sort) \in Nat /\ q \in Nat
  BY ListOrder
<1>2. ASSUME NEW r \in Ids, NEW id \in Ids, NEW key \in Nat
      PROVE  After(r, [at |-> "after", id |-> id, key |-> key], sort)
               <=> IF sort = "price_asc"
                   THEN SortKey(r, sort) > key \/ (SortKey(r, sort) = key /\ r > id)
                   ELSE SortKey(r, sort) < key \/ (SortKey(r, sort) = key /\ r < id)
  BY DEF After, afterCursorWhere, afterPriceCursorWhere, SortKey, Sorts
<1>3. CASE sort = "price_asc"
  BY <1>1, <1>2, <1>3 DEF Precedes, Cursor
<1>4. CASE sort # "price_asc"
  BY <1>1, <1>2, <1>4 DEF Precedes, Cursor
<1>. QED BY <1>3, <1>4

RowsAhead(r, rows, sort) == Cardinality({q \in rows : Precedes(q, r, sort)})

\* A row has more rows before it than any of these.
LEMMA RankGrows ==
  ASSUME RowsTyped, NEW sort \in Sorts, NEW rows \in SUBSET Ids
  PROVE  /\ IsFiniteSet(rows) /\ Cardinality(rows) \in Nat
         /\ \A r \in rows : RowsAhead(r, rows, sort) \in Nat /\ RowsAhead(r, rows, sort) < Cardinality(rows)
         /\ \A q, r \in rows : Precedes(q, r, sort) => RowsAhead(q, rows, sort) < RowsAhead(r, rows, sort)
<1>1. IsFiniteSet(rows)
  <2>1. 1 \in Int /\ MaxRows \in Int
    BY PagesAssumption
  <2>2. IsFiniteSet(Ids)
    BY <2>1, FS_Interval DEF Ids
  <2>. QED BY <2>2, FS_Subset
<1>. DEFINE Ahead(r) == {q \in rows : Precedes(q, r, sort)}
<1>2. ASSUME NEW T \in SUBSET rows
      PROVE  /\ Cardinality(T) \in Nat /\ IsFiniteSet(T)
             /\ \A U \in SUBSET T : U # T => Cardinality(U) \in Nat /\ Cardinality(U) < Cardinality(T)
  <2>1. IsFiniteSet(T) /\ Cardinality(T) \in Nat
    BY <1>1, FS_Subset, FS_CardinalityType
  <2>2. ASSUME NEW U \in SUBSET T, U # T
        PROVE  Cardinality(U) \in Nat /\ Cardinality(U) < Cardinality(T)
    BY <2>1, <2>2, FS_Subset, FS_CardinalityType
  <2>. QED BY <2>1, <2>2
<1>3. ASSUME NEW r \in rows
      PROVE  Ahead(r) \in SUBSET rows /\ Ahead(r) # rows
  <2>1. r \notin Ahead(r)
    BY ListOrder
  <2>. QED BY <2>1
<1>4. ASSUME NEW q \in rows, NEW r \in rows, Precedes(q, r, sort)
      PROVE  Ahead(q) \in SUBSET Ahead(r) /\ Ahead(q) # Ahead(r)
  <2>1. q \in Ahead(r) /\ q \notin Ahead(q)
    BY <1>4, ListOrder
  <2>2. Ahead(q) \subseteq Ahead(r)
    BY <1>4, ListOrder
  <2>. QED BY <2>1, <2>2
<1>5. \A r : RowsAhead(r, rows, sort) = Cardinality(Ahead(r))
  BY DEF RowsAhead
<1>. HIDE DEF Ahead
<1>6. Cardinality(rows) \in Nat
  BY <1>2
<1>7. ASSUME NEW r \in rows
      PROVE  RowsAhead(r, rows, sort) \in Nat /\ RowsAhead(r, rows, sort) < Cardinality(rows)
  BY <1>2, <1>3, <1>5
<1>8. ASSUME NEW q \in rows, NEW r \in rows, Precedes(q, r, sort)
      PROVE  RowsAhead(q, rows, sort) < RowsAhead(r, rows, sort)
  BY <1>2, <1>3, <1>4, <1>5, <1>8
<1>. QED BY <1>1, <1>6, <1>7, <1>8

\* There is a last row in a list that has rows, and a first one.
LEMMA ListHasEnds ==
  ASSUME RowsTyped, NEW sort \in Sorts, NEW rows \in SUBSET Ids, rows # {}
  PROVE  /\ LastRow(rows, sort) \in rows
         /\ \A q \in rows : q = LastRow(rows, sort) \/ Precedes(q, LastRow(rows, sort), sort)
         /\ \E r \in rows : \A q \in rows : ~Precedes(q, r, sort)
<1>. DEFINE n == Cardinality(rows)
            rank(r) == RowsAhead(r, rows, sort)
<1>1. /\ n \in Nat
      /\ \A r \in rows : rank(r) \in Nat /\ rank(r) < n
      /\ \A q, r \in rows : Precedes(q, r, sort) => rank(q) < rank(r)
  BY RankGrows
<1>2. \A q, r \in rows : q = r \/ Precedes(q, r, sort) \/ Precedes(r, q, sort)
  BY ListOrder
<1>. HIDE DEF n, rank
<1>3. \E r \in rows : \A q \in rows : q = r \/ Precedes(q, r, sort)
  <2>. DEFINE W == {n - rank(r) : r \in rows}
  <2>1. W \in SUBSET Nat /\ W # {}
    BY <1>1
  <2>2. PICK k \in W : \A m \in W : k <= m
    <3>. HIDE DEF W
    <3>. QED BY <2>1, LeastNat
  <2>3. PICK r \in rows : k = n - rank(r)
    BY <2>2
  <2>4. \A q \in rows : n - rank(r) <= n - rank(q)
    BY <2>2, <2>3
  <2>5. \A q \in rows : ~ (rank(r) < rank(q))
    BY <1>1, <2>4
  <2>. QED BY <1>1, <1>2, <2>5
<1>4. \E r \in rows : \A q \in rows : ~Precedes(q, r, sort)
  <2>. DEFINE W == {rank(r) : r \in rows}
  <2>1. W \in SUBSET Nat /\ W # {}
    BY <1>1
  <2>2. PICK k \in W : \A m \in W : k <= m
    <3>. HIDE DEF W
    <3>. QED BY <2>1, LeastNat
  <2>3. PICK r \in rows : k = rank(r)
    BY <2>2
  <2>4. \A q \in rows : rank(r) <= rank(q)
    BY <2>2, <2>3
  <2>. QED BY <1>1, <2>4
<1>. QED BY <1>3, <1>4 DEF LastRow

\* The page is the beginning of what was found: the whole of it if it is not longer.
LEMMA PageIsABeginning ==
  ASSUME RowsTyped, NEW sort \in Sorts, NEW rows \in SUBSET Ids, NEW n \in Nat \ {0}
  PROVE  /\ FirstRows(rows, n, sort) \subseteq rows
         /\ \A q \in rows, r \in FirstRows(rows, n, sort) :
              Precedes(q, r, sort) => q \in FirstRows(rows, n, sort)
         /\ ~ (Cardinality(rows) > n) => FirstRows(rows, n, sort) = rows
         /\ rows # {} => FirstRows(rows, n, sort) # {}
<1>1. /\ Cardinality(rows) \in Nat
      /\ \A r \in rows : RowsAhead(r, rows, sort) \in Nat /\ RowsAhead(r, rows, sort) < Cardinality(rows)
      /\ \A q, r \in rows : Precedes(q, r, sort) => RowsAhead(q, rows, sort) < RowsAhead(r, rows, sort)
  BY RankGrows
<1>2. FirstRows(rows, n, sort) = {r \in rows : RowsAhead(r, rows, sort) < n}
  BY DEF FirstRows, RowsAhead
<1>3. ASSUME rows # {}
      PROVE  FirstRows(rows, n, sort) # {}
  <2>1. PICK r \in rows : \A q \in rows : ~Precedes(q, r, sort)
    BY <1>3, ListHasEnds
  <2>2. {q \in rows : Precedes(q, r, sort)} = {}
    BY <2>1
  <2>3. RowsAhead(r, rows, sort) = 0
    BY <2>2, FS_EmptySet DEF RowsAhead
  <2>. QED BY <1>2, <2>3
<1>. QED BY <1>1, <1>2, <1>3

\* Where a walk stands.
AfterRow(next) == \E key \in Nat, id \in Ids : next = [at |-> "after", id |-> id, key |-> key]
Place(next)    == next = AtStart \/ next = AtEnd \/ AfterRow(next)

WalkTyped ==
  /\ DOMAIN walk = {"on", "sort", "search", "size", "seen", "again", "next"}
  /\ walk.search \in Searches
  /\ walk.sort \in Sorts /\ walk.size \in Nat \ {0} /\ walk.seen \subseteq Ids /\ Place(walk.next)

\* The rows that changed their price under a list that is sorted by it.
Excused == IF walk.sort = "recent" THEN {} ELSE repriced

\* What was shown lies before the cursor, and what is owed was shown or lies after it.
ShownUpTo ==
  /\ walk.again \subseteq Excused
  /\ walk.next = AtStart => walk.seen = {}
  /\ \A r \in walk.seen \ Excused :
       item[r].made /\ (AfterRow(walk.next) => ~After(r, walk.next, walk.sort))
  /\ \A r \in owed \ Excused :
       \/ r \in walk.seen
       \/ walk.next = AtStart
       \/ AfterRow(walk.next) /\ After(r, walk.next, walk.sort)

PagesInv ==
  /\ RowsTyped
  /\ \A r \in owed : r \in Ids /\ item[r].made /\ item[r].active
  /\ walk # NoWalk => WalkTyped /\ ShownUpTo /\ owed \subseteq Matching(walk.search)

LEMMA PlacesDiffer ==
  ASSUME NEW next, Place(next)
  PROVE  /\ AtStart # AtEnd
         /\ AfterRow(next) => next # AtStart /\ next # AtEnd
<1>1. AtStart.at = "first" /\ AtEnd.at = "end"
  BY DEF AtStart, AtEnd
<1>2. ASSUME AfterRow(next)
      PROVE  next.at = "after"
  BY <1>2 DEF AfterRow
<1>. QED BY <1>1, <1>2

LEMMA PagesInvInit == PagesInit => PagesInv
<1>. SUFFICES ASSUME PagesInit PROVE PagesInv
  OBVIOUS
<1>1. RowsTyped
  <2>. DEFINE R == [made : BOOLEAN, stamp : Nat, price : Nat, active : BOOLEAN, matches : BOOLEAN]
  <2>1. Unmade \in R
    BY DEF Unmade
  <2>2. Shown \subseteq R
    BY PagesAssumption DEF Shown, Product
  <2>3. item \in [Ids -> Shown \union {Unmade}]
    BY DEF PagesInit
  <2>. QED
    <3>. HIDE DEF R
    <3>1. item \in [Ids -> R]
      BY <2>1, <2>2, <2>3
    <3>. QED BY <3>1 DEF R, RowsTyped
<1>2. walk = NoWalk /\ owed = {}
  BY DEF PagesInit
<1>. QED BY <1>1, <1>2 DEF PagesInv

\* The first page is still to come.
LEMMA BeginningOwes ==
  ASSUME PagesInv, Begin
  PROVE  PagesInv'
<1>1. PICK sort \in Sorts, search \in Searches, size \in PageSizes :
        /\ walk' = [on |-> TRUE, sort |-> sort, search |-> search, size |-> size, next |-> AtStart,
                    seen |-> {}, again |-> {}]
        /\ owed' = filters \intersect Matching(search)
  BY DEF Begin
<1>2. item' = item
  BY DEF Begin
<1>3. size \in Nat \ {0}
  BY PagesAssumption
<1>4. /\ DOMAIN walk' = {"on", "sort", "search", "size", "seen", "again", "next"}
      /\ walk'.sort = sort /\ walk'.search = search /\ walk'.size = size /\ walk'.seen = {} /\ walk'.again = {}
      /\ walk'.next = AtStart
  BY <1>1
<1>5. WalkTyped'
  BY <1>3, <1>4 DEF WalkTyped, Place
<1>6. AtStart' = AtStart
  BY DEF AtStart
<1>7. ShownUpTo'
  <2>1. ~AfterRow(walk'.next)
    BY <1>4, PlacesDiffer DEF Place
  <2>. QED BY <1>4, <1>6 DEF ShownUpTo
<1>8. /\ RowsTyped'
      /\ \A r \in owed' : r \in Ids /\ item'[r].made /\ item'[r].active
      /\ owed' \subseteq Matching(walk.search)'
  BY <1>1, <1>2, <1>4 DEF PagesInv, RowsTyped, filters, Matching
<1>. QED BY <1>5, <1>7, <1>8 DEF PagesInv

\* A page shows what comes next, and its cursor is the last row of it.
LEMMA PageMovesOn ==
  ASSUME PagesInv, listByStoreCursor
  PROVE  PagesInv'
<1>. DEFINE sort  == walk.sort
            found == IF walk.search = "blank" THEN {} ELSE filters \intersect OrKey(walk)
            slice == FirstRows(found, walk.size, sort)
            page  == toPageBy(found, walk.size, sort)
            last  == LastRow(slice, sort)
<1>1. /\ WalkTyped /\ ShownUpTo /\ RowsTyped /\ walk.next # AtEnd /\ owed \subseteq Matching(walk.search)
      /\ \A r \in owed : r \in Ids /\ item[r].made /\ item[r].active
      /\ UNCHANGED <<item, owed, repriced>>
  BY DEF PagesInv, listByStoreCursor
<1>2. walk' = [walk EXCEPT !.seen  = @ \union page.items,
                           !.again = @ \union (page.items \intersect walk.seen),
                           !.next  = page.next]
  BY DEF listByStoreCursor
<1>3. /\ page.items = slice
      /\ page.next = IF Cardinality(found) > walk.size THEN Cursor(last, sort) ELSE AtEnd
  BY DEF toPageBy
<1>4. /\ DOMAIN walk' = {"on", "sort", "search", "size", "seen", "again", "next"}
      /\ walk'.sort = sort /\ walk'.search = walk.search /\ walk'.size = walk.size
      /\ walk'.seen = walk.seen \union slice
      /\ walk'.again = walk.again \union (slice \cap walk.seen)
      /\ walk'.next = page.next
  BY <1>1, <1>2, <1>3 DEF WalkTyped
<1>5. found \in SUBSET Ids /\ sort \in Sorts /\ walk.size \in Nat \ {0}
  BY <1>1 DEF filters, WalkTyped
<1>6. /\ slice \subseteq found
      /\ \A q \in found, r \in slice : Precedes(q, r, sort) => q \in slice
      /\ ~ (Cardinality(found) > walk.size) => slice = found
      /\ found # {} => slice # {}
  BY <1>1, <1>5, PageIsABeginning
<1>7. \A r \in found : /\ r \in Ids /\ item[r].made
                       /\ walk.next = AtStart \/ After(r, walk.next, sort)
  BY DEF filters, OrKey
<1>8. \A r \in owed \ Excused : r \in walk.seen \/ r \in found
  <2>. SUFFICES ASSUME NEW r \in owed \ Excused, r \notin walk.seen
                PROVE  r \in found
    OBVIOUS
  <2>1. walk.next = AtStart \/ After(r, walk.next, sort)
    BY <1>1 DEF ShownUpTo
  <2>2. r \in Matching(walk.search) /\ r \in Ids /\ r \in filters
    BY <1>1 DEF filters
  <2>3. walk.search # "blank" /\ r \in OrKey(walk)
    BY <2>1, <2>2 DEF Matching, OrKey
  <2>. QED BY <2>2, <2>3
<1>9. \A r \in slice \cap walk.seen : r \in Excused
  <2>. SUFFICES ASSUME NEW r \in slice \cap walk.seen, r \notin Excused
                PROVE  FALSE
    OBVIOUS
  <2>1. walk.next # AtStart
    BY <1>1 DEF ShownUpTo
  <2>2. AfterRow(walk.next)
    BY <1>1, <2>1 DEF WalkTyped, Place
  <2>. QED BY <1>1, <1>6, <1>7, <2>1, <2>2 DEF ShownUpTo
<1>. HIDE DEF found, slice, page, last
<1>10. CASE Cardinality(found) > walk.size
  <2>1. found # {}
    BY <1>5, <1>10, FS_EmptySet
  <2>2. /\ last \in slice /\ last \in Ids
        /\ \A q \in slice : q = last \/ Precedes(q, last, sort)
    BY <1>1, <1>5, <1>6, <2>1, ListHasEnds DEF last
  <2>3. walk'.next = Cursor(last, sort)
    BY <1>3, <1>4, <1>10
  <2>4. AfterRow(walk'.next) /\ Place(walk'.next)
    BY <1>1, <1>5, <2>2, <2>3, ListOrder DEF AfterRow, Place, Cursor
  <2>5. \A r \in Ids : After(r, walk'.next, sort) <=> Precedes(last, r, sort)
    BY <1>1, <1>5, <2>2, <2>3, CursorFollowsOrder
  <2>6. ASSUME NEW r \in walk.seen \union slice, r \notin Excused
        PROVE  /\ item[r].made
               /\ ~Precedes(last, r, sort)
    <3>1. CASE r \in slice
      <4>1. r = last \/ Precedes(r, last, sort)
        BY <2>2, <3>1
      <4>. QED BY <1>1, <1>5, <1>6, <1>7, <2>2, <3>1, <4>1, ListOrder
    <3>2. CASE r \in walk.seen
      <4>1. r \in Ids /\ item[r].made /\ walk.next # AtStart
        BY <1>1, <2>6, <3>2 DEF WalkTyped, ShownUpTo
      <4>2. AfterRow(walk.next)
        BY <1>1, <4>1 DEF WalkTyped, Place
      <4>3. ~After(r, walk.next, sort)
        BY <1>1, <2>6, <3>2, <4>2 DEF ShownUpTo
      <4>4. After(last, walk.next, sort)
        BY <1>6, <1>7, <2>2, <4>1
      <4>5. ~Precedes(last, r, sort)
        BY <1>1, <1>5, <2>2, <4>1, <4>2, <4>3, <4>4, CursorFollowsOrder DEF AfterRow
      <4>. QED BY <4>1, <4>5
    <3>. QED BY <2>6, <3>1, <3>2
  <2>7. ASSUME NEW r \in owed \ Excused, r \notin walk.seen, r \notin slice
        PROVE  Precedes(last, r, sort)
    <3>1. r \in found
      BY <1>8, <2>7
    <3>2. r # last /\ ~Precedes(r, last, sort)
      BY <1>6, <2>2, <2>7, <3>1
    <3>. QED BY <1>1, <1>5, <1>7, <2>2, <3>1, <3>2, ListOrder
  <2>8. walk'.next # AtStart
    BY <2>4, PlacesDiffer
  <2>9. Excused' = Excused
    BY <1>1, <1>4 DEF Excused
  <2>10. ASSUME NEW r
         PROVE  After(r, walk.next, walk.sort)' <=> After(r, walk'.next, sort)
    BY <1>1, <1>4 DEF After, afterCursorWhere, afterPriceCursorWhere
  <2>11. walk'.again \subseteq Excused
    BY <1>1, <1>4, <1>9 DEF ShownUpTo
  <2>12. ShownUpTo'
    <3>1. /\ walk'.again \subseteq Excused'
          /\ walk'.next = AtStart' => walk'.seen = {}
      BY <2>8, <2>9, <2>11 DEF AtStart
    <3>2. \A r \in walk'.seen \ Excused' : item'[r].made /\ ~After(r, walk.next, walk.sort)'
      <4>. SUFFICES ASSUME NEW r \in walk'.seen \ Excused'
                    PROVE  item'[r].made /\ ~After(r, walk.next, walk.sort)'
        OBVIOUS
      <4>1. r \in walk.seen \union slice /\ r \notin Excused /\ r \in Ids
        BY <1>1, <1>4, <1>5, <1>6, <2>9 DEF WalkTyped
      <4>. QED BY <1>1, <2>5, <2>6, <2>10, <4>1
    <3>3. \A r \in owed' \ Excused' : r \in walk'.seen \/ After(r, walk.next, walk.sort)'
      <4>. SUFFICES ASSUME NEW r \in owed' \ Excused', r \notin walk'.seen
                    PROVE  After(r, walk.next, walk.sort)'
        OBVIOUS
      <4>. QED BY <1>1, <1>4, <2>5, <2>7, <2>9, <2>10
    <3>. QED BY <2>4, <3>1, <3>2, <3>3 DEF ShownUpTo, AfterRow
  <2>13. WalkTyped'
    BY <1>1, <1>4, <1>5, <1>6, <2>4 DEF WalkTyped, Place, AfterRow, AtStart, AtEnd
  <2>. QED BY <1>1, <1>4, <2>12, <2>13 DEF PagesInv, RowsTyped, Matching
<1>11. CASE ~ (Cardinality(found) > walk.size)
  <2>1. walk'.next = AtEnd /\ slice = found
    BY <1>3, <1>4, <1>6, <1>11
  <2>2. Excused' = Excused /\ AtStart' = AtStart /\ AtEnd' = AtEnd
    BY <1>1, <1>4 DEF Excused, AtStart, AtEnd
  <2>3. walk'.next # AtStart /\ ~AfterRow(walk'.next) /\ Place(walk'.next)
    BY <2>1, PlacesDiffer DEF Place
  <2>4. \A r \in walk'.seen : r \in Ids /\ (r \notin Excused => item[r].made)
    BY <1>1, <1>4, <1>5, <1>6, <1>7 DEF WalkTyped, ShownUpTo
  <2>5. \A r \in owed \ Excused : r \in walk'.seen
    BY <1>4, <1>8, <2>1
  <2>6. walk'.again \subseteq Excused
    BY <1>1, <1>4, <1>9 DEF ShownUpTo
  <2>7. ShownUpTo'
    <3>1. ~AfterRow(walk.next)'
      BY <2>3 DEF AfterRow
    <3>. QED BY <1>1, <2>2, <2>3, <2>4, <2>5, <2>6, <3>1 DEF ShownUpTo
  <2>8. WalkTyped'
    BY <1>1, <1>4, <1>5, <2>1, <2>2, <2>4 DEF WalkTyped, Place
  <2>. QED BY <1>1, <1>4, <2>7, <2>8 DEF PagesInv, RowsTyped, Matching
<1>. QED BY <1>10, <1>11

\* A change of the table between two pages: what it leaves of the rows that were shown and of the
\* rows that are owed.
LEMMA TouchKeepsPlaces ==
  ASSUME PagesInv, walk # NoWalk, walk' = walk, RowsTyped',
         owed' \subseteq owed, repriced \subseteq repriced',
         \A r \in owed' : item'[r].made /\ item'[r].active,
         owed' \subseteq Matching(walk.search)',
         \A r \in Ids : item[r].made =>
            /\ item'[r].made /\ item'[r].stamp = item[r].stamp
            /\ r \notin repriced' => item'[r].price = item[r].price
  PROVE  PagesInv'
<1>1. /\ WalkTyped /\ ShownUpTo /\ RowsTyped
      /\ \A r \in owed : r \in Ids /\ item[r].made /\ item[r].active
  BY DEF PagesInv
<1>2. Excused \subseteq Excused' /\ AtStart' = AtStart /\ AtEnd' = AtEnd
  BY DEF Excused, AtStart, AtEnd
<1>3. ASSUME NEW r \in Ids, item[r].made, r \notin Excused'
      PROVE  After(r, walk.next, walk.sort)' <=> After(r, walk.next, walk.sort)
  BY <1>3 DEF Excused, After, afterCursorWhere, afterPriceCursorWhere
<1>4. AfterRow(walk.next)' <=> AfterRow(walk.next)
  BY DEF AfterRow
<1>5. \A r \in walk.seen : r \in Ids
  BY <1>1 DEF WalkTyped
<1>6. ShownUpTo'
  <2>1. /\ walk'.again \subseteq Excused'
        /\ walk'.next = AtStart' => walk'.seen = {}
    BY <1>1, <1>2 DEF ShownUpTo
  <2>2. ASSUME NEW r \in walk'.seen \ Excused'
        PROVE  /\ item'[r].made
               /\ AfterRow(walk.next)' => ~After(r, walk.next, walk.sort)'
    <3>1. r \in Ids /\ r \in walk.seen \ Excused
      BY <1>2, <1>5
    <3>2. item[r].made /\ (AfterRow(walk.next) => ~After(r, walk.next, walk.sort))
      BY <1>1, <3>1 DEF ShownUpTo
    <3>. QED BY <1>3, <1>4, <3>1, <3>2
  <2>3. ASSUME NEW r \in owed' \ Excused', r \notin walk'.seen, walk'.next # AtStart'
        PROVE  AfterRow(walk.next)' /\ After(r, walk.next, walk.sort)'
    <3>1. r \in owed \ Excused /\ r \notin walk.seen /\ walk.next # AtStart
      BY <1>2, <2>3
    <3>2. /\ r \in Ids /\ item[r].made
          /\ AfterRow(walk.next) /\ After(r, walk.next, walk.sort)
      BY <1>1, <3>1 DEF ShownUpTo
    <3>. QED BY <1>3, <1>4, <3>2
  <2>. QED BY <2>1, <2>2, <2>3 DEF ShownUpTo
<1>7. WalkTyped'
  BY <1>1, <1>2, <1>4 DEF WalkTyped, Place
<1>. QED BY <1>1, <1>6, <1>7 DEF PagesInv

\* Creating, hiding, showing, naming and pricing a row.
LEMMA TouchingKeepsPlaces ==
  ASSUME PagesInv, NEW r \in Ids, CreateRow(r) \/ ToggleRow(r) \/ Reprice(r) \/ RenameRow(r)
  PROVE  PagesInv'
<1>. DEFINE Shape == [made : BOOLEAN, stamp : Nat, price : Nat, active : BOOLEAN, matches : BOOLEAN]
<1>1. walk # NoWalk /\ walk' = walk
  BY DEF CreateRow, ToggleRow, Reprice, RenameRow, Touched
<1>2. item \in [Ids -> Shape] /\ \A q \in owed : q \in Ids /\ item[q].made /\ item[q].active
  BY DEF PagesInv, RowsTyped
<1>0. ASSUME owed' \subseteq owed, \A q \in owed' : item'[q].matches = item[q].matches
      PROVE  owed' \subseteq Matching(walk.search)'
  BY <1>0, <1>1 DEF PagesInv, Matching
<1>3. CASE CreateRow(r)
  <2>1. PICK fresh \in Product : fresh.active /\ item' = [item EXCEPT ![r] = fresh]
    BY <1>3 DEF CreateRow, Shown
  <2>2. fresh \in Shape /\ ~item[r].made /\ UNCHANGED <<owed, repriced>>
    BY <1>3, PagesAssumption DEF CreateRow, Product
  <2>. HIDE DEF Shape
  <2>3. item' \in [Ids -> Shape] /\ \A q \in Ids : item[q].made => item'[q] = item[q]
    BY <1>2, <2>1, <2>2
  <2>4. RowsTyped'
    BY <2>3 DEF RowsTyped, Shape
  <2>5. owed' \subseteq Matching(walk.search)'
    BY <1>0, <1>2, <2>2, <2>3
  <2>. QED BY <1>1, <1>2, <2>2, <2>3, <2>4, <2>5, TouchKeepsPlaces
<1>4. CASE ToggleRow(r)
  <2>1. [item[r] EXCEPT !.active = ~@] \in Shape
    BY <1>2
  <2>2. item' = [item EXCEPT ![r] = [item[r] EXCEPT !.active = ~@]]
    BY <1>4 DEF ToggleRow
  <2>3. \A q \in Ids : item'[q] = IF q = r THEN [item[r] EXCEPT !.active = ~@] ELSE item[q]
    BY <1>2, <2>2
  <2>4. \A q \in Ids : item[q].made =>
          /\ item'[q].made
          /\ item'[q].stamp = item[q].stamp
          /\ q \notin repriced' => item'[q].price = item[q].price
    BY <1>2, <2>3
  <2>5. owed' = owed \ {r} /\ repriced' = repriced
    BY <1>4 DEF ToggleRow
  <2>6. \A q \in owed' : item'[q].made /\ item'[q].active
    BY <1>2, <2>3, <2>5
  <2>. HIDE DEF Shape
  <2>7. item' \in [Ids -> Shape]
    BY <1>2, <2>1, <2>2
  <2>8. RowsTyped'
    BY <2>7 DEF RowsTyped, Shape
  <2>9. owed' \subseteq Matching(walk.search)'
    <3>1. \A q \in owed' : q # r /\ q \in Ids /\ item'[q] = item[q]
      BY <1>2, <2>3, <2>5
    <3>. QED BY <1>0, <2>5, <3>1
  <2>. QED BY <1>1, <2>4, <2>5, <2>6, <2>8, <2>9, TouchKeepsPlaces
<1>5. CASE Reprice(r)
  <2>1. PICK price \in Amounts : item' = [item EXCEPT ![r].price = price]
    BY <1>5 DEF Reprice
  <2>2. [item[r] EXCEPT !.price = price] \in Shape
    BY <1>2, PagesAssumption
  <2>3. item' = [item EXCEPT ![r] = [item[r] EXCEPT !.price = price]]
    BY <2>1
  <2>4. \A q \in Ids : item'[q] = IF q = r THEN [item[r] EXCEPT !.price = price] ELSE item[q]
    BY <1>2, <2>3
  <2>5. owed' = owed /\ repriced' = repriced \union {r}
    BY <1>5 DEF Reprice
  <2>6. /\ \A q \in Ids : item[q].made =>
             /\ item'[q].made
             /\ item'[q].stamp = item[q].stamp
             /\ q \notin repriced' => item'[q].price = item[q].price
        /\ \A q \in owed' : item'[q].made /\ item'[q].active
    <3>1. /\ [item[r] EXCEPT !.price = price].made = item[r].made
          /\ [item[r] EXCEPT !.price = price].active = item[r].active
          /\ [item[r] EXCEPT !.price = price].stamp = item[r].stamp
      BY <1>2
    <3>2. \A q \in Ids \ {r} : item'[q] = item[q]
      BY <2>4
    <3>3. /\ item'[r].made = item[r].made /\ item'[r].active = item[r].active
          /\ item'[r].stamp = item[r].stamp
      BY <2>4, <3>1
    <3>. QED BY <1>2, <2>5, <3>2, <3>3
  <2>. HIDE DEF Shape
  <2>7. item' \in [Ids -> Shape]
    BY <1>2, <2>2, <2>3
  <2>8. RowsTyped'
    BY <2>7 DEF RowsTyped, Shape
  <2>9. owed' \subseteq Matching(walk.search)'
    <3>1. [item[r] EXCEPT !.price = price].matches = item[r].matches
      BY <1>2
    <3>2. \A q \in owed' : q \in Ids /\ item'[q].matches = item[q].matches
      BY <1>2, <2>4, <2>5, <3>1
    <3>. QED BY <1>0, <2>5, <3>2
  <2>. QED BY <1>1, <2>5, <2>6, <2>8, <2>9, TouchKeepsPlaces
<1>6. CASE RenameRow(r)
  <2>. DEFINE new == [item[r] EXCEPT !.matches = ~@]
  <2>1. /\ new \in Shape
        /\ new.made = item[r].made /\ new.stamp = item[r].stamp /\ new.price = item[r].price
        /\ new.active = item[r].active
    BY <1>2
  <2>2. item' = [item EXCEPT ![r] = new]
    BY <1>6 DEF RenameRow
  <2>3. owed' = owed \ {r} /\ repriced' = repriced
    BY <1>6 DEF RenameRow
  <2>. HIDE DEF new, Shape
  <2>4. \A q \in Ids : item'[q] = IF q = r THEN new ELSE item[q]
    BY <1>2, <2>2
  <2>5. \A q \in Ids : item[q].made =>
          /\ item'[q].made
          /\ item'[q].stamp = item[q].stamp
          /\ q \notin repriced' => item'[q].price = item[q].price
    BY <2>1, <2>4
  <2>6. \A q \in owed' : q \in Ids /\ item'[q] = item[q]
    BY <1>2, <2>3, <2>4
  <2>7. item' \in [Ids -> Shape]
    BY <1>2, <2>1, <2>2
  <2>8. RowsTyped'
    BY <2>7 DEF RowsTyped, Shape
  <2>9. owed' \subseteq Matching(walk.search)' /\ \A q \in owed' : item'[q].made /\ item'[q].active
    BY <1>0, <1>2, <2>3, <2>6
  <2>. QED BY <1>1, <2>3, <2>5, <2>8, <2>9, TouchKeepsPlaces
<1>. QED BY <1>3, <1>4, <1>5, <1>6

LEMMA PagesInvNext == PagesInv /\ [PagesNext]_pagesVars => PagesInv'
<1>. SUFFICES ASSUME PagesInv, [PagesNext]_pagesVars
              PROVE  PagesInv'
  OBVIOUS
<1>1. CASE UNCHANGED pagesVars
  <2>1. CASE walk = NoWalk
    <3>1. walk' = NoWalk'
      BY <1>1, <2>1 DEF pagesVars, NoWalk
    <3>. QED BY <1>1, <3>1 DEF pagesVars, PagesInv, RowsTyped
  <2>2. CASE walk # NoWalk
    BY <1>1, <2>2, TouchKeepsPlaces DEF pagesVars, PagesInv, RowsTyped, Matching
  <2>. QED BY <2>1, <2>2
<1>. QED BY <1>1, BeginningOwes, PageMovesOn, TouchingKeepsPlaces DEF PagesNext

\* A reader who goes through a list page by page, searched or not, is shown every row that stays
\* in it, once, whatever is created, hidden, renamed or repriced meanwhile and however many rows
\* share an instant or a price; in a list by price only a row whose own price changed may be
\* missed or repeated.  It says nothing of the rows that are shown though they do not match the
\* search, which the second page already shows (SearchHolds).
THEOREM PagesLoseNothing == PagesSpec => []ListedOnce
<1>1. PagesInv => ListedOnce
  <2>. SUFFICES ASSUME PagesInv, walk # NoWalk
                PROVE  walk.again \subseteq Excused /\ (walk.next = AtEnd => owed \ Excused \subseteq walk.seen)
    BY DEF ListedOnce, Excused
  <2>1. WalkTyped /\ ShownUpTo
    BY DEF PagesInv
  <2>2. walk.next = AtEnd => walk.next # AtStart /\ ~AfterRow(walk.next)
    BY <2>1, PlacesDiffer DEF WalkTyped
  <2>. QED BY <2>1, <2>2 DEF ShownUpTo
<1>. QED BY <1>1, PagesInvInit, PagesInvNext, PTL DEF PagesSpec

-----------------------------------------------------------------------------
(* Catalogue.                                                              *)

\* What the partner gets for a unit leaves the store its price without the fee.
Fits(price, payout) == unitPayoutCents(price, payout) <= price - FeeCents(price)

ProductTyped == product \in [made : BOOLEAN, active : BOOLEAN, price : Nat, payout : Agreements]

DraftFits(d) ==
  /\ d.price \in Nat \union {KeptPrice} /\ d.payout \in Agreements \union {Unsent}
  /\ d.saw.price \in Nat /\ d.saw.payout \in Agreements
  /\ Fits(IF d.price = KeptPrice THEN d.saw.price ELSE d.price,
          IF d.payout = Unsent THEN d.saw.payout ELSE d.payout)

SaleFits(i) ==
  /\ sale[i].price \in Nat /\ sale[i].qty \in Nat \ {0} /\ sale[i].payout \in Nat
  /\ sale[i].step \in {"offered", "pending_payment", "cancelled", "refunded"} \union PaidStatuses
  /\ ~sale[i].unmatched =>
       sale[i].payout <= sale[i].price * sale[i].qty - FeeCents(sale[i].price * sale[i].qty)
                           + sale[i].qty - 1

CatalogueInv ==
  /\ ProductTyped
  /\ ~unmatched => Fits(product.price, product.payout)
  /\ DOMAIN draft = Editors /\ DOMAIN sale = Sales
  /\ \A a \in Editors : draft[a] # NoDraft => DraftFits(draft[a])
  /\ \A i \in Sales : sale[i] # NoSale => SaleFits(i)

\* A share of a price is at most the price.
LEMMA FeesAreParts ==
  ASSUME NEW price \in Nat
  PROVE  FeeCents(price) \in Nat /\ FeeCents(price) <= price
<1>1. FeeBps \in Nat /\ FeeBps <= 10000
  BY CatalogueAssumption
<1>2. price * FeeBps \in Nat /\ price * FeeBps <= price * 10000
  BY <1>1
<1>3. \A n \in Nat : n <= price * 10000 => n \div 10000 \in Nat /\ n \div 10000 <= price
  OBVIOUS
<1>. QED BY <1>2, <1>3 DEF FeeCents

\* The fee of several units is less than a cent per further unit above the fees of each.
LEMMA FeeOfUnits ==
  ASSUME NEW price \in Nat, NEW qty \in Nat \ {0}
  PROVE  /\ price * qty \in Nat
         /\ FeeCents(price * qty) \in Nat
         /\ FeeCents(price * qty) <= FeeCents(price) * qty + qty - 1
<1>. DEFINE n == price * FeeBps
            k == n \div 10000
            r == n % 10000
<1>1. n \in Nat
  BY CatalogueAssumption
<1>2. k \in Nat /\ r \in 0..9999 /\ n = 10000 * k + r
  <2>. HIDE DEF n
  <2>. QED BY <1>1
<1>3. (price * qty) * FeeBps = n * qty
  BY CatalogueAssumption
<1>4. n * qty = 10000 * (k * qty) + r * qty /\ r * qty \in Nat /\ k * qty \in Nat
  <2>. HIDE DEF n, k, r
  <2>. QED BY <1>1, <1>2
<1>5. r * qty <= 9999 * qty
  <2>. HIDE DEF n, k, r
  <2>. QED BY <1>2
<1>6. r * qty < 10000 * qty
  <2>. DEFINE x == r * qty
  <2>. HIDE DEF x
  <2>. QED BY <1>4, <1>5
<1>7. \A x, y \in Nat : y < 10000 * qty => (10000 * x + y) \div 10000 \in Nat
                                      /\ (10000 * x + y) \div 10000 <= x + qty - 1
  OBVIOUS
<1>8. FeeCents(price * qty) = (n * qty) \div 10000 /\ FeeCents(price) = k
  BY <1>3 DEF FeeCents
<1>9. price * qty \in Nat
  OBVIOUS
<1>. HIDE DEF n, k, r
<1>. QED BY <1>4, <1>6, <1>7, <1>8, <1>9

LEMMA PartsOfUnits ==
  ASSUME NEW price \in Nat, NEW payout \in Agreements
  PROVE  unitPayoutCents(price, payout) \in Nat
<1>1. CASE payout = NoAgreement
  BY <1>1 DEF unitPayoutCents, NoAgreement
<1>2. CASE payout.kind = "fixed_cents" /\ payout.value \in Nat
  BY <1>2 DEF unitPayoutCents
<1>3. CASE payout.kind = "percent_bps" /\ payout.value \in Nat
  <2>1. price * payout.value \in Nat
    BY <1>3
  <2>2. \A n \in Nat : n \div 10000 \in Nat
    OBVIOUS
  <2>. QED BY <1>3, <2>1, <2>2 DEF unitPayoutCents
<1>4. \/ payout = NoAgreement
      \/ payout.kind = "fixed_cents" /\ payout.value \in Values
      \/ payout.kind = "percent_bps" /\ payout.value \in Values
  BY DEF Agreements
<1>5. \A v \in Values : v \in Nat
  BY CatalogueAssumption
<1>. QED BY <1>1, <1>2, <1>3, <1>4, <1>5

\* What the request checks is that what would be in force fits.
LEMMA CheckFits ==
  ASSUME NEW price \in Nat \union {KeptPrice}, NEW payout \in Agreements \union {Unsent}, NEW now,
         now.price \in Nat, now.payout \in Agreements, assertPayoutForStore(price, payout, now)
  PROVE  Fits(IF price = KeptPrice THEN now.price ELSE price,
              IF payout = Unsent THEN now.payout ELSE payout)
<1>. DEFINE p    == IF price = KeptPrice THEN now.price ELSE price
            rule == IF payout = Unsent THEN now.payout ELSE payout
            unit == unitPayoutCents(p, rule)
<1>1. p \in Nat
  OBVIOUS
<1>2. FeeCents(p) \in Nat /\ FeeCents(p) <= p
  BY <1>1, FeesAreParts
<1>3. rule = NoAgreement \/ unit = 0 \/ unit <= p - FeeCents(p)
  BY DEF assertPayoutForStore
<1>4. rule = NoAgreement => unit = 0
  BY DEF unitPayoutCents, NoAgreement
<1>5. unit = 0 => unit <= p - FeeCents(p)
  <2>. HIDE DEF p, unit
  <2>. QED BY <1>1, <1>2
<1>. QED BY <1>3, <1>4, <1>5 DEF Fits

LEMMA CatalogueInvInit == CatalogueInit => CatalogueInv
<1>. SUFFICES ASSUME CatalogueInit PROVE CatalogueInv
  OBVIOUS
<1>1. ProductTyped /\ product.price = 0 /\ product.payout = NoAgreement
  BY DEF CatalogueInit, NoProduct, ProductTyped, Agreements
<1>2. Fits(0, NoAgreement)
  BY FeesAreParts DEF Fits, unitPayoutCents, NoAgreement
<1>3. /\ DOMAIN draft = Editors /\ DOMAIN sale = Sales
      /\ \A a \in Editors : draft[a] = NoDraft
      /\ \A i \in Sales : sale[i] = NoSale
  BY DEF CatalogueInit
<1>. QED BY <1>1, <1>2, <1>3 DEF CatalogueInv

\* What is written is what was checked, unless the rest has changed since.
LEMMA WritingFits ==
  ASSUME CatalogueInv, NEW a \in Editors, writeProduct(a)
  PROVE  CatalogueInv'
<1>. DEFINE d == draft[a]
            kept == [price |-> product.price, payout |-> product.payout]
<1>1. DraftFits(d) /\ ProductTyped
  BY DEF CatalogueInv, writeProduct
<1>2. product' = [product EXCEPT !.price = IF d.price = KeptPrice THEN @ ELSE d.price,
                                 !.payout = IF d.payout = Unsent THEN @ ELSE d.payout]
  BY DEF writeProduct
<1>3. /\ product'.made = product.made /\ product'.active = product.active
      /\ product'.price = IF d.price = KeptPrice THEN product.price ELSE d.price
      /\ product'.payout = IF d.payout = Unsent THEN product.payout ELSE d.payout
  BY <1>1, <1>2 DEF ProductTyped
<1>4. ProductTyped'
  <2>1. product'.price \in Nat /\ product'.payout \in Agreements
    BY <1>1, <1>3 DEF ProductTyped, DraftFits
  <2>. QED BY <1>1, <1>2, <1>3, <2>1 DEF ProductTyped
<1>5. ASSUME ~unmatched'
      PROVE  Fits(product'.price, product'.payout)
  <2>1. kept = d.saw
    BY <1>5 DEF writeProduct
  <2>2. product.price = d.saw.price /\ product.payout = d.saw.payout
    BY <2>1
  <2>. QED BY <1>1, <1>3, <2>2 DEF DraftFits
<1>6. /\ draft' = [draft EXCEPT ![a] = NoDraft] /\ sale' = sale
  BY DEF writeProduct
<1>. HIDE DEF d, kept
<1>7. \A b \in Editors : draft'[b] # NoDraft' => DraftFits(draft'[b])
  BY <1>6 DEF CatalogueInv, NoDraft
<1>8. \A i \in Sales : sale'[i] # NoSale' => SaleFits(i)'
  BY <1>6 DEF CatalogueInv, SaleFits, NoSale
<1>. QED BY <1>4, <1>5, <1>6, <1>7, <1>8 DEF CatalogueInv, Fits, DraftFits

\* A step that leaves product, agreement and drafts alone, or gives one that fits.
LEMMA CatalogueFrame ==
  ASSUME CatalogueInv, ProductTyped', UNCHANGED unmatched,
         ~unmatched => Fits(product'.price, product'.payout),
         DOMAIN draft' = Editors, DOMAIN sale' = Sales,
         \A a \in Editors : draft'[a] = draft[a] \/ DraftFits(draft'[a]),
         \A i \in Sales : sale'[i] = sale[i] \/ SaleFits(i)'
  PROVE  CatalogueInv'
<1>1. \A a \in Editors : draft'[a] # NoDraft' => DraftFits(draft'[a])
  BY DEF CatalogueInv, NoDraft
<1>2. \A i \in Sales : sale'[i] # NoSale' => SaleFits(i)'
  BY DEF CatalogueInv, SaleFits, NoSale
<1>. QED BY <1>1, <1>2 DEF CatalogueInv, NoDraft, DraftFits, Fits

\* A sale freezes what fits.
LEMMA SellingFits ==
  ASSUME CatalogueInv, NEW i \in Sales, priceItem(i)
  PROVE  CatalogueInv'
<1>1. PICK qty \in Quantities :
        sale' = [sale EXCEPT ![i] =
          [step |-> "offered", price |-> product.price, qty |-> qty,
           payout |-> unitPayoutCents(product.price, product.payout) * qty,
           partner |-> product.payout # NoAgreement, unmatched |-> unmatched]]
  BY DEF priceItem
<1>2. qty \in Nat \ {0} /\ ProductTyped /\ DOMAIN sale = Sales
  BY CatalogueAssumption DEF CatalogueInv
<1>. DEFINE p == product.price
            unit == unitPayoutCents(p, product.payout)
<1>3. p \in Nat /\ unit \in Nat
  BY <1>2, PartsOfUnits DEF ProductTyped
<1>4. /\ FeeCents(p) \in Nat /\ p * qty \in Nat /\ FeeCents(p * qty) \in Nat
      /\ FeeCents(p * qty) <= FeeCents(p) * qty + qty - 1
  BY <1>2, <1>3, FeesAreParts, FeeOfUnits
<1>5. /\ sale'[i].price = p /\ sale'[i].qty = qty /\ sale'[i].payout = unit * qty
      /\ sale'[i].unmatched = unmatched /\ sale'[i].step = "offered"
  BY <1>1, <1>2
<1>6. unit * qty \in Nat
  <2>. HIDE DEF unit, p
  <2>. QED BY <1>2, <1>3
<1>7. ASSUME ~unmatched
      PROVE  unit * qty <= p * qty - FeeCents(p * qty) + qty - 1
  <2>1. unit <= p - FeeCents(p)
    BY <1>7 DEF CatalogueInv, Fits
  <2>. DEFINE part == FeeCents(p)
              all == FeeCents(p * qty)
  <2>2. part \in Nat /\ all \in Nat /\ unit + part <= p /\ all <= part * qty + qty - 1
    <3>1. unit <= p - part
      BY <2>1
    <3>. HIDE DEF unit, p, part, all
    <3>. QED BY <1>3, <1>4, <3>1 DEF part, all
  <2>. HIDE DEF unit, p, part, all
  <2>3. (unit + part) * qty <= p * qty
    BY <1>2, <1>3, <2>2
  <2>4. (unit + part) * qty = unit * qty + part * qty
    BY <1>2, <1>3, <2>2
  <2>5. part * qty \in Nat
    BY <1>2, <2>2
  <2>. QED BY <1>2, <1>4, <1>6, <2>2, <2>3, <2>4, <2>5 DEF all
<1>8. SaleFits(i)'
  <2>1. FeeCents(sale[i].price * sale[i].qty)' = FeeCents(p * qty)
    BY <1>5 DEF FeeCents
  <2>. HIDE DEF unit, p
  <2>. QED BY <1>2, <1>3, <1>5, <1>6, <1>7, <2>1 DEF SaleFits
<1>9. /\ DOMAIN sale' = Sales /\ \A j \in Sales : j # i => sale'[j] = sale[j]
  BY <1>1, <1>2
<1>10. UNCHANGED <<product, draft, unmatched>>
  BY DEF priceItem
<1>. HIDE DEF unit, p
<1>. QED BY <1>2, <1>8, <1>9, <1>10, CatalogueFrame DEF CatalogueInv, ProductTyped

LEMMA CatalogueInvNext == CatalogueInv /\ [CatalogueNext]_catalogueVars => CatalogueInv'
<1>. SUFFICES ASSUME CatalogueInv, [CatalogueNext]_catalogueVars
              PROVE  CatalogueInv'
  OBVIOUS
<1>0. ProductTyped
  BY DEF CatalogueInv
<1>1. CASE createProduct
  <2>1. PICK price \in Prices, payout \in Agreements :
          /\ assertPayoutForStore(price, payout, [price |-> price, payout |-> payout])
          /\ product' = [made |-> TRUE, active |-> TRUE, price |-> price, payout |-> payout]
    BY <1>1 DEF createProduct
  <2>2. price \in Nat
    BY CatalogueAssumption
  <2>3. Fits(price, payout)
    <3>1. Fits(IF price = KeptPrice THEN price ELSE price, IF payout = Unsent THEN payout ELSE payout)
      BY <2>1, <2>2, CheckFits
    <3>. QED BY <3>1
  <2>4. ProductTyped'
    BY <2>1, <2>2 DEF ProductTyped, Agreements
  <2>. QED BY <1>1, <2>1, <2>3, <2>4, CatalogueFrame DEF createProduct, CatalogueInv
<1>2. CASE archiveProduct \/ restoreProduct \/ updateSupplier
  <2>1. /\ product' \in {product, [product EXCEPT !.active = FALSE], [product EXCEPT !.active = TRUE]}
        /\ UNCHANGED <<draft, sale, unmatched>>
    BY <1>2 DEF archiveProduct, restoreProduct, updateSupplier
  <2>2. ProductTyped' /\ product'.price = product.price /\ product'.payout = product.payout
    <3>1. CASE product' = product
      BY <1>0, <3>1 DEF ProductTyped
    <3>2. CASE product' = [product EXCEPT !.active = FALSE]
      BY <1>0, <3>2 DEF ProductTyped
    <3>3. CASE product' = [product EXCEPT !.active = TRUE]
      BY <1>0, <3>3 DEF ProductTyped
    <3>. QED BY <2>1, <3>1, <3>2, <3>3
  <2>. QED BY <2>1, <2>2, CatalogueFrame DEF CatalogueInv
<1>3. ASSUME NEW a \in Editors, updateProduct(a)
      PROVE  CatalogueInv'
  <2>. DEFINE now == [price |-> product.price, payout |-> product.payout]
  <2>1. PICK price \in Prices \union {KeptPrice}, payout \in Agreements \union {Unsent} :
          /\ assertPayoutForStore(price, payout, now)
          /\ draft' = [draft EXCEPT ![a] =
               [step |-> "checked", price |-> price, payout |-> payout, saw |-> now]]
    BY <1>3 DEF updateProduct
  <2>2. price \in Nat \union {KeptPrice} /\ now.price \in Nat /\ now.payout \in Agreements
    BY <1>0, CatalogueAssumption DEF ProductTyped
  <2>3. Fits(IF price = KeptPrice THEN now.price ELSE price,
             IF payout = Unsent THEN now.payout ELSE payout)
    BY <2>1, <2>2, CheckFits
  <2>4. DraftFits([step |-> "checked", price |-> price, payout |-> payout, saw |-> now])
    <3>. HIDE DEF now
    <3>. QED BY <2>2, <2>3 DEF DraftFits
  <2>5. DOMAIN draft' = Editors /\ \A b \in Editors : draft'[b] = draft[b] \/ DraftFits(draft'[b])
    <3>. HIDE DEF now
    <3>. QED BY <2>1, <2>4 DEF CatalogueInv
  <2>. QED BY <1>0, <1>3, <2>5, CatalogueFrame DEF updateProduct, CatalogueInv, ProductTyped
<1>4. ASSUME NEW a \in Editors, writeProduct(a)
      PROVE  CatalogueInv'
  BY <1>4, WritingFits
<1>5. ASSUME NEW i \in Sales, priceItem(i)
      PROVE  CatalogueInv'
  BY <1>5, SellingFits
<1>6. ASSUME NEW i \in Sales, orderChanges(i)
      PROVE  CatalogueInv'
  <2>1. PICK to \in {"pending_payment", "cancelled", "refunded"} \union PaidStatuses :
          sale' = [sale EXCEPT ![i].step = to]
    BY <1>6 DEF orderChanges, PaidStatuses
  <2>2. SaleFits(i)
    BY <1>6 DEF orderChanges, CatalogueInv
  <2>3. /\ sale'[i].step = to /\ sale'[i].price = sale[i].price /\ sale'[i].qty = sale[i].qty
        /\ sale'[i].payout = sale[i].payout /\ sale'[i].unmatched = sale[i].unmatched
    BY <2>1, <2>2 DEF CatalogueInv, SaleFits
  <2>4. SaleFits(i)'
    BY <2>2, <2>3 DEF SaleFits, FeeCents, PaidStatuses
  <2>5. DOMAIN sale' = Sales /\ \A j \in Sales : j # i => sale'[j] = sale[j]
    BY <2>1 DEF CatalogueInv
  <2>. QED BY <1>0, <1>6, <2>4, <2>5, CatalogueFrame DEF orderChanges, CatalogueInv, ProductTyped
<1>7. CASE UNCHANGED catalogueVars
  BY <1>0, <1>7, CatalogueFrame DEF catalogueVars, CatalogueInv, ProductTyped
<1>. QED BY <1>1, <1>2, <1>3, <1>4, <1>5, <1>6, <1>7 DEF CatalogueNext

\* The store never owes its partner more than what its sales left after the
\* platform's fee, but for a cent of rounding per further unit, unless an item was
\* sold while two edits had missed each other.
THEOREM PartnersAreAffordable == CatalogueSpec => []SoldAtNoLoss
<1>1. CatalogueInv => SoldAtNoLoss
  <2>. DEFINE taken == {i \in Sales : /\ sale[i] # NoSale /\ sale[i].partner
                                      /\ sale[i].step \notin {"offered", "pending_payment", "cancelled", "refunded"}}
              earned == {i \in Sales : sale[i] # NoSale /\ sale[i].partner /\ sale[i].step \in PaidStatuses}
              left(i) == sale[i].price * sale[i].qty - FeeCents(sale[i].price * sale[i].qty)
              f == [i \in earned |-> sale[i].payout]
              g == [i \in taken |-> left(i) + sale[i].qty - 1]
  <2>. SUFFICES ASSUME CatalogueInv, \A i \in taken : ~sale[i].unmatched
                PROVE  SumFunction(f) <= SumFunction(g)
    BY DEF SoldAtNoLoss, earnedCents
  <2>1. earned = taken
    BY DEF CatalogueInv, SaleFits, PaidStatuses
  <2>2. IsFiniteSet(taken)
    BY CatalogueAssumption, FS_Subset
  <2>3. \A i \in taken : f[i] \in Int /\ g[i] \in Int /\ f[i] <= g[i]
    <3>. SUFFICES ASSUME NEW i \in taken
                  PROVE  f[i] \in Int /\ g[i] \in Int /\ f[i] <= g[i]
      OBVIOUS
    <3>1. SaleFits(i) /\ ~sale[i].unmatched
      BY DEF CatalogueInv
    <3>2. f[i] = sale[i].payout /\ g[i] = left(i) + sale[i].qty - 1
      BY <2>1
    <3>3. left(i) \in Int
      BY <3>1, FeeOfUnits DEF SaleFits
    <3>. QED BY <3>1, <3>2, <3>3 DEF SaleFits
  <2>4. DOMAIN f = taken /\ DOMAIN g = taken
    BY <2>1
  <2>. HIDE DEF f, g, taken, earned
  <2>5. SumFunctionOnSet(f, taken) <= SumFunctionOnSet(g, taken)
    BY <2>2, <2>3, SumGrows
  <2>. QED BY <2>4, <2>5 DEF SumFunction
<1>. QED BY <1>1, CatalogueInvInit, CatalogueInvNext, PTL DEF CatalogueSpec

-----------------------------------------------------------------------------
(* The statement.                                                          *)

LEMMA RoundsToNearest ==
  ASSUME NEW n \in Nat, NEW d \in Nat \ {0}
  PROVE  /\ Round(n, d) \in Int
         /\ 2 * d * Round(n, d) <= 2 * n + d
         /\ 2 * n + d < 2 * d * Round(n, d) + 2 * d
         /\ n = 0 => Round(n, d) = 0
<1>1. \A a \in Nat, b \in Nat \ {0} :
        a \div b \in Int /\ b * (a \div b) <= a /\ a < b * (a \div b) + b
  OBVIOUS
<1>2. 2 * n + d \in Nat /\ 2 * d \in Nat \ {0}
  OBVIOUS
<1>3. n = 0 => Round(n, d) = 0
  <2>1. \A b \in Nat \ {0} : b \div (2 * b) = 0
    OBVIOUS
  <2>. QED BY <2>1 DEF Round
<1>. QED BY <1>1, <1>2, <1>3 DEF Round

StatementInv ==
  /\ StatementTypeOK
  /\ OrderMatchesPayment
  /\ \A o \in Orders : order[o] # "none" => cart[o] # EmptyCart

LEMMA TotalIsNumber ==
  ASSUME NEW c \in Cart
  PROVE  CartTotal(c) \in Nat /\ (c # EmptyCart => CartTotal(c) > 0)
<1>. DEFINE f == [i \in Items |-> Price[i] * c[i]]
            z == [i \in Items |-> 0]
<1>1. \A i \in Items : f[i] \in Nat /\ z[i] = 0 /\ (c[i] # 0 => f[i] > 0)
  <2>. SUFFICES ASSUME NEW i \in Items PROVE f[i] \in Nat /\ (c[i] # 0 => f[i] > 0)
    OBVIOUS
  <2>1. Price[i] \in Nat \ {0} /\ c[i] \in Nat
    BY StatementAssumption, QtyAssumption DEF Cart
  <2>2. \A a \in Nat \ {0}, b \in Nat : a * b \in Nat /\ (b # 0 => a * b > 0)
    OBVIOUS
  <2>. QED BY <2>1, <2>2
<1>2. CartTotal(c) = SumFunctionOnSet(f, Items)
  BY Zenon DEF CartTotal, SumFunction
<1>. HIDE DEF f, z
<1>3. SumFunctionOnSet(f, Items) \in Int
  BY <1>1, StatementAssumption, SumIsNumber
<1>4. SumFunctionOnSet(f, Items) >= 0
  <2>1. SumFunctionOnSet(z, Items) = 0
    BY <1>1, StatementAssumption, NothingSums
  <2>2. SumFunctionOnSet(z, Items) <= SumFunctionOnSet(f, Items)
    BY <1>1, StatementAssumption, SumGrows
  <2>. QED BY <1>3, <2>1, <2>2
<1>5. ASSUME c # EmptyCart
      PROVE  SumFunctionOnSet(f, Items) > 0
  <2>1. PICK i \in Items : c[i] # 0
    BY <1>5 DEF Cart, EmptyCart
  <2>. DEFINE g == [j \in Items |-> IF j = i THEN f[i] ELSE 0]
  <2>2. \A j \in Items : f[j] \in Int /\ g[j] \in Int /\ g[j] <= f[j]
    BY <1>1
  <2>3. g[i] = f[i] /\ f[i] > 0 /\ f[i] \in Nat /\ \A j \in Items \ {i} : g[j] = 0
    BY <1>1, <2>1
  <2>. HIDE DEF g
  <2>4. g[i] \in Int /\ IsFiniteSet(Items)
    BY <2>2, StatementAssumption
  <2>5. SumFunctionOnSet(g, Items) = g[i]
    BY <2>3, <2>4, SumOfOne
  <2>6. SumFunctionOnSet(g, Items) <= SumFunctionOnSet(f, Items)
    BY <2>2, StatementAssumption, SumGrows
  <2>. QED BY <1>3, <2>3, <2>5, <2>6
<1>. QED BY <1>2, <1>3, <1>4, <1>5

LEMMA RetainedFee ==
  ASSUME NEW amount \in Nat \ {0}, NEW cents \in Nat
  PROVE  wooviRetainedFeeCents(amount, cents) \in Nat
<1>. DEFINE m == Max({cents, 1})
<1>1. m \in Nat
  BY GreaterOfTwo
<1>. HIDE DEF m
<1>2. amount - 1 \in Nat
  OBVIOUS
<1>3. Min({m, amount - 1}) \in Nat
  BY <1>1, <1>2, SmallerOfTwo
<1>. QED BY <1>3 DEF wooviRetainedFeeCents, m

\* Only a reservation creates an order, and it reserves something.
LEMMA ReservationsTakeUnits ==
  ASSUME RepoTypeOK, \A q \in Orders : order[q] # "none" => cart[q] # EmptyCart,
         NEW o \in Orders, RepoStep(o)
  PROVE  \A q \in Orders : order'[q] # "none" => cart'[q] # EmptyCart
<1>1. ASSUME NEW c \in Cart, NEW p \in Provider, CreatePendingOrder(o, c, p)
      PROVE  \A q \in Orders : order'[q] # "none" => cart'[q] # EmptyCart
  BY <1>1 DEF CreatePendingOrder, RepoTypeOK
<1>2. ASSUME cart' = cart, \A q \in Orders : order[q] = "none" => order'[q] = "none"
      PROVE  \A q \in Orders : order'[q] # "none" => cart'[q] # EmptyCart
  BY <1>2
<1>3. CASE AttachProviderId(o) \/ RecordProviderFee(o) \/ ClaimRefund(o)
           \/ ReleaseRefundClaim(o) \/ ClaimAges(o)
  BY <1>2, <1>3 DEF AttachProviderId, RecordProviderFee, ClaimRefund, ReleaseRefundClaim, ClaimAges
<1>4. ASSUME NEW reason \in {"expired", "failed", "cancelled"}, CancelPendingOrder(o, reason)
      PROVE  \A q \in Orders : order'[q] # "none" => cart'[q] # EmptyCart
  <2>1. cart' = cart /\ \A q \in Orders : order[q] = "none" => order'[q] = "none"
    BY <1>4 DEF CancelPendingOrder, CancelPending, RepoTypeOK
  <2>. QED BY <1>2, <2>1
<1>5. CASE CompensateFailedCheckout(o)
  BY <1>4, <1>5 DEF CompensateFailedCheckout
<1>6. CASE MarkPaid(o)
  <2>1. cart' = cart /\ \A q \in Orders : order[q] = "none" => order'[q] = "none"
    BY <1>6 DEF MarkPaid, RepoTypeOK
  <2>. QED BY <1>2, <2>1
<1>7. CASE Refund(o)
  <2>1. cart' = cart /\ \A q \in Orders : order[q] = "none" => order'[q] = "none"
    BY <1>7 DEF Refund, Refundable, RepoTypeOK
  <2>. QED BY <1>2, <2>1
<1>8. ASSUME NEW to \in {"delivery_arranged", "delivered"}, UpdateOrderStatus(o, to)
      PROVE  \A q \in Orders : order'[q] # "none" => cart'[q] # EmptyCart
  <2>1. cart' = cart /\ \A q \in Orders : order[q] = "none" => order'[q] = "none"
    BY <1>8 DEF UpdateOrderStatus, ValidFrom, RepoTypeOK
  <2>. QED BY <1>2, <2>1
<1>. QED BY <1>1, <1>3, <1>4, <1>5, <1>6, <1>7, <1>8 DEF RepoStep

\* The invariant the screens stand on.
LEMMA StatementHolds == StatementSpec => []StatementInv
<1>1. StatementInit => StatementInv
  <2>. SUFFICES ASSUME StatementInit PROVE StatementInv
    OBVIOUS
  <2>1. RepoTypeOK /\ OrderMatchesPayment
    BY RepoTypeInit, OrderMatchesPaymentInit DEF StatementInit
  <2>2. \A o \in Orders : order[o] = "none"
    BY DEF StatementInit, RepoInit
  <2>3. fee \in [Orders -> Nat] /\ settled \in [Suppliers -> 0..MaxSettled] /\ present \in [Orders -> SUBSET Items]
    BY StatementAssumption DEF StatementInit
  <2>. QED BY <2>1, <2>2, <2>3 DEF StatementInv, StatementTypeOK
<1>2. ASSUME StatementInv, NEW o \in Orders, RepoStep(o)
      PROVE  /\ RepoTypeOK' /\ OrderMatchesPayment'
             /\ \A q \in Orders : order'[q] # "none" => cart'[q] # EmptyCart
  BY <1>2, RepoTypeStep, OrderMatchesPaymentStep, ReservationsTakeUnits DEF StatementInv, StatementTypeOK
<1>3. StatementInv /\ [StatementNext]_statementVars => StatementInv'
  <2>. SUFFICES ASSUME StatementInv, [StatementNext]_statementVars
                PROVE  StatementInv'
    OBVIOUS
  <2>0. StatementTypeOK
    BY DEF StatementInv
  <2>1. CASE Trade
    <3>1. PICK o \in Orders : RepoStep(o)
      BY <2>1 DEF Trade, RepoNext
    <3>2. /\ RepoTypeOK' /\ OrderMatchesPayment'
          /\ \A q \in Orders : order'[q] # "none" => cart'[q] # EmptyCart
      BY <1>2, <3>1
    <3>3. ASSUME NEW q \in Orders, order'[q] # "none"
          PROVE  wooviRetainedFeeCents(CartTotal(cart'[q]), WooviFee) \in Nat
      <4>1. cart'[q] \in Cart /\ cart'[q] # EmptyCart
        BY <3>2, <3>3 DEF RepoTypeOK
      <4>2. CartTotal(cart'[q]) \in Nat \ {0}
        <5>. HIDE DEF EmptyCart
        <5>. QED BY <4>1, TotalIsNumber
      <4>. QED BY <4>2, StatementAssumption, RetainedFee
    <3>4. fee' \in [Orders -> Nat]
      BY <2>0, <2>1, <3>3 DEF Trade, StatementTypeOK
    <3>. QED BY <2>0, <2>1, <3>2, <3>4 DEF Trade, StatementInv, StatementTypeOK
  <2>2. ASSUME NEW o \in Orders, recordProviderFee(o)
        PROVE  StatementInv'
    <3>1. RepoStep(o)
      BY <2>2 DEF recordProviderFee, RepoStep
    <3>2. fee' \in [Orders -> Nat]
      BY <2>0, <2>2, StatementAssumption DEF recordProviderFee, StatementTypeOK
    <3>3. /\ RepoTypeOK' /\ OrderMatchesPayment'
          /\ \A q \in Orders : order'[q] # "none" => cart'[q] # EmptyCart
      BY <1>2, <3>1
    <3>. QED BY <2>0, <2>2, <3>2, <3>3 DEF recordProviderFee, StatementInv, StatementTypeOK
  <2>3. ASSUME UNCHANGED repoVars
        PROVE  /\ RepoTypeOK' /\ OrderMatchesPayment'
               /\ \A q \in Orders : order'[q] # "none" => cart'[q] # EmptyCart
    BY <2>3 DEF repoVars, StatementInv, StatementTypeOK, RepoTypeOK, OrderMatchesPayment
  <2>4. ASSUME NEW s \in Suppliers, createSettlement(s)
        PROVE  StatementInv'
    <3>1. PICK cents \in Settlements : /\ settled[s] + cents <= MaxSettled
                                       /\ settled' = [settled EXCEPT ![s] = @ + cents]
      BY <2>4 DEF createSettlement
    <3>2. settled[s] \in Nat /\ cents \in Nat
      BY <2>0, StatementAssumption DEF StatementTypeOK
    <3>3. settled[s] + cents \in 0..MaxSettled
      BY <3>1, <3>2, StatementAssumption
    <3>4. settled' \in [Suppliers -> 0..MaxSettled]
      BY <2>0, <3>1, <3>3 DEF StatementTypeOK
    <3>. QED BY <2>0, <2>3, <2>4, <3>4 DEF createSettlement, StatementInv, StatementTypeOK
  <2>5. ASSUME NEW o \in Orders, NEW i \in Items, markPresent(o, i)
        PROVE  StatementInv'
    <3>1. present' \in [Orders -> SUBSET Items]
      BY <2>0, <2>5 DEF markPresent, StatementTypeOK
    <3>. QED BY <2>0, <2>3, <2>5, <3>1 DEF markPresent, StatementInv, StatementTypeOK
  <2>6. CASE UNCHANGED statementVars
    BY <2>0, <2>3, <2>6 DEF statementVars, StatementInv, StatementTypeOK
  <2>. QED BY <2>1, <2>2, <2>4, <2>5, <2>6 DEF StatementNext
<1>. QED BY <1>1, <1>3, PTL DEF StatementSpec

\* What an order is worth, and what is kept of it.
LEMMA OrderNumbers ==
  ASSUME StatementInv, NEW o \in Orders
  PROVE  /\ Total(o) \in Nat /\ applicationFeeCents(o) \in Nat /\ fee[o] \in Nat
         /\ \A i \in Items : cart[o][i] \in Nat /\ (i \notin Lines(o) => cart[o][i] = 0)
         /\ Lines(o) \in SUBSET Items
         /\ order[o] # "none" => Total(o) > 0
<1>1. cart[o] \in Cart /\ fee[o] \in Nat
  BY DEF StatementInv, StatementTypeOK, RepoTypeOK
<1>2. /\ \A i \in Items : cart[o][i] \in Nat /\ (i \notin Lines(o) => cart[o][i] = 0)
      /\ Lines(o) \in SUBSET Items
  BY <1>1, QtyAssumption DEF Cart, Lines
<1>3. Total(o) \in Nat /\ (order[o] # "none" => Total(o) > 0)
  <2>. HIDE DEF EmptyCart
  <2>. QED BY <1>1, TotalIsNumber DEF Total, StatementInv
<1>4. applicationFeeCents(o) \in Nat
  <2>1. \A a, b \in Nat : (a * b) \div 10000 \in Nat
    <3>1. \A a, b \in Nat : a * b \in Nat
      OBVIOUS
    <3>2. \A a \in Nat : a \div 10000 \in Nat
      OBVIOUS
    <3>. QED BY <3>1, <3>2
  <2>2. ApplicationBps \in Nat
    BY StatementAssumption
  <2>. QED BY <1>3, <2>1, <2>2 DEF applicationFeeCents
<1>. QED BY <1>1, <1>2, <1>3, <1>4

Asked  == {o \in Earning : payment[o] = "refund_pending"}
Orphan == {o \in Captured : order[o] = "cancelled"}

\* The orders sold, seen by the payments and seen by the orders.
LEMMA SoldIsCaptured ==
  ASSUME StatementInv
  PROVE  /\ (Captured \union Asked) \ Orphan = Earning
         /\ Captured \union Asked = Earning \union Orphan
         /\ Captured \intersect Asked = {} /\ Earning \intersect Orphan = {}
         /\ Captured \in SUBSET Orders /\ Asked \in SUBSET Orders
         /\ Earning \in SUBSET Orders /\ Orphan \in SUBSET Orders
         /\ \A o \in Earning : order[o] # "none"
<1>1. \A o \in Orders :
        /\ order[o] \in OrderStatus
        /\ order[o] \in PAYOUT_ORDER_STATUSES => payment[o] \in {"succeeded", "refund_pending"} /\ order[o] # "cancelled"
                                                  /\ order[o] # "none"
        /\ payment[o] = "succeeded" => order[o] \in PAYOUT_ORDER_STATUSES \union {"cancelled"}
  BY DEF StatementInv, StatementTypeOK, RepoTypeOK, OrderMatchesPayment, OrderStatus, PAYOUT_ORDER_STATUSES
<1>2. \A o : o \in Earning <=> o \in Orders /\ order[o] \in PAYOUT_ORDER_STATUSES
  BY DEF Earning
<1>3. \A o : o \in Captured <=> o \in Orders /\ payment[o] = "succeeded"
  BY DEF Captured
<1>4. \A o : o \in Asked <=> o \in Earning /\ payment[o] = "refund_pending"
  BY DEF Asked
<1>5. \A o : o \in Orphan <=> o \in Captured /\ order[o] = "cancelled"
  BY DEF Orphan
<1>. QED BY <1>1, <1>2, <1>3, <1>4, <1>5

LEMMA FiniteSales ==
  /\ IsFiniteSet(Items) /\ IsFiniteSet(Suppliers)
  /\ \A T \in SUBSET Orders : IsFiniteSet(T)
BY StatementAssumption, OrdersAssumption, FS_Subset

\* A seat of an event belongs to an order that was paid: the sum over the lines
\* of the event is the sum over all paid orders.
LEMMA PaidLines ==
  ASSUME StatementInv, NEW i \in Items
  PROVE  /\ Attending(i) \intersect Earning \in SUBSET Earning
         /\ \A o \in Earning : o \notin Attending(i) \intersect Earning => i \notin Lines(o)
BY DEF Attending, Earning, EVENT_ATTENDING_STATUSES, PAYOUT_ORDER_STATUSES

LEMMA SeatsOfPaid ==
  ASSUME StatementInv, NEW i \in Items, NEW k, \A o \in Earning : k[o] = cart[o][i]
  PROVE  /\ SeatsOf(i, Attending(i) \intersect Earning) = SumFunctionOnSet(k, Earning)
         /\ SumFunctionOnSet(k, Earning) \in Int
<1>. DEFINE T == Attending(i) \intersect Earning
            h == [o \in T |-> cart[o][i]]
<1>1. IsFiniteSet(Earning) /\ Earning \in SUBSET Orders
  BY FiniteSales, SoldIsCaptured
<1>2. T \in SUBSET Earning /\ \A o \in Earning \ T : k[o] = 0
  <2>1. \A o \in Earning : i \notin Lines(o) => cart[o][i] = 0
    BY <1>1, OrderNumbers
  <2>. QED BY <2>1, PaidLines
<1>3. \A o \in Earning : k[o] \in Int
  <2>1. \A o \in Earning : cart[o][i] \in Nat
    BY <1>1, OrderNumbers
  <2>. QED BY <2>1
<1>4. DOMAIN h = T /\ \A o \in T : h[o] = k[o]
  BY <1>2
<1>5. SeatsOf(i, T) = SumFunction(h)
  BY Zenon DEF SeatsOf
<1>. HIDE DEF T, h
<1>6. SumFunction(h) = SumFunctionOnSet(k, Earning)
  BY <1>1, <1>2, <1>3, <1>4, SumOfPart
<1>7. SumFunctionOnSet(k, Earning) \in Int
  BY <1>1, <1>3, SumIsNumber
<1>. QED BY <1>5, <1>6, <1>7 DEF T

\* The same units, counted by event and counted by order.
LEMMA UnitsByEvent ==
  ASSUME StatementInv, NEW w \in [Items -> Nat],
         NEW f, \A i \in Items : f[i] = w[i] * SeatsOf(i, Attending(i) \intersect Earning),
         NEW g, \A o \in Earning : g[o] = SumFunction([i \in Items |-> w[i] * cart[o][i]])
  PROVE  /\ SumFunctionOnSet(f, Items) = SumFunctionOnSet(g, Earning)
         /\ \A i \in Items : f[i] \in Int
         /\ \A o \in Earning : g[o] \in Int
<1>. DEFINE F == [o \in Earning |-> [i \in Items |-> w[i] * cart[o][i]]]
            G == [i \in Items |-> [o \in Earning |-> w[i] * cart[o][i]]]
<1>1. IsFiniteSet(Earning) /\ IsFiniteSet(Items) /\ Earning \in SUBSET Orders
  BY FiniteSales, SoldIsCaptured
<1>2. \A o \in Earning, i \in Items : cart[o][i] \in Nat /\ w[i] \in Nat /\ w[i] * cart[o][i] \in Int
  <2>1. \A o \in Earning, i \in Items : cart[o][i] \in Nat /\ w[i] \in Nat
    BY <1>1, OrderNumbers
  <2>2. \A a, b \in Nat : a * b \in Int
    OBVIOUS
  <2>. QED BY <2>1, <2>2
<1>3. \A o \in Earning, i \in Items : F[o][i] \in Int /\ G[i][o] = F[o][i]
  BY <1>2
<1>4. \A o \in Earning : g[o] = SumFunctionOnSet(F[o], Items)
  <2>. SUFFICES ASSUME NEW o \in Earning PROVE g[o] = SumFunctionOnSet(F[o], Items)
    OBVIOUS
  <2>1. F[o] = [i \in Items |-> w[i] * cart[o][i]]
    OBVIOUS
  <2>2. g[o] = SumFunction([i \in Items |-> w[i] * cart[o][i]])
    OBVIOUS
  <2>3. SumFunction([i \in Items |-> w[i] * cart[o][i]]) = SumFunctionOnSet([i \in Items |-> w[i] * cart[o][i]], Items)
    BY Zenon DEF SumFunction
  <2>. HIDE DEF F
  <2>. QED BY <2>1, <2>2, <2>3, Zenon
<1>5. \A i \in Items : f[i] = SumFunctionOnSet(G[i], Earning)
  <2>. SUFFICES ASSUME NEW i \in Items PROVE f[i] = SumFunctionOnSet(G[i], Earning)
    OBVIOUS
  <2>. DEFINE k == [o \in Earning |-> cart[o][i]]
              m == G[i]
  <2>1. \A o \in Earning : k[o] \in Int /\ m[o] = w[i] * k[o] /\ k[o] = cart[o][i]
    BY <1>2
  <2>2. w[i] \in Int
    OBVIOUS
  <2>. HIDE DEF k, m
  <2>3. SumFunctionOnSet(m, Earning) = w[i] * SumFunctionOnSet(k, Earning)
    BY <1>1, <2>1, <2>2, SumScales
  <2>4. SeatsOf(i, Attending(i) \intersect Earning) = SumFunctionOnSet(k, Earning)
    BY <2>1, SeatsOfPaid
  <2>5. f[i] = SumFunctionOnSet(m, Earning)
    BY <2>3, <2>4
  <2>. QED BY <2>5 DEF m
<1>. HIDE DEF F, G
<1>6. SumFunctionOnSet(g, Earning) = SumFunctionOnSet(f, Items)
  <2>1. TableOf(F, G, Earning, Items) /\ SumsOf(g, F, Earning, Items) /\ SumsOf(f, G, Items, Earning)
    BY <1>3, <1>4, <1>5 DEF TableOf, SumsOf
  <2>. QED BY <1>1, <2>1, SumsExchange
<1>7. \A i \in Items : f[i] \in Int
  <2>. SUFFICES ASSUME NEW i \in Items PROVE f[i] \in Int
    OBVIOUS
  <2>1. \A o \in Earning : G[i][o] \in Int
    BY <1>3
  <2>2. SumFunctionOnSet(G[i], Earning) \in Int
    BY <1>1, <2>1, SumIsNumber
  <2>. QED BY <1>5, <2>2
<1>8. \A o \in Earning : g[o] \in Int
  <2>. SUFFICES ASSUME NEW o \in Earning PROVE g[o] \in Int
    OBVIOUS
  <2>1. \A i \in Items : F[o][i] \in Int
    BY <1>3
  <2>2. SumFunctionOnSet(F[o], Items) \in Int
    BY <1>1, <2>1, SumIsNumber
  <2>. QED BY <1>4, <2>2
<1>. QED BY <1>6, <1>7, <1>8

\* What the lines of one order bring, over suppliers, is what all its lines bring.
LEMMA PayoutNumbers ==
  ASSUME StatementInv, NEW o \in Orders, NEW T \in SUBSET Items, NEW f,
         \A i \in Items : f[i] = IF i \in T THEN UnitPayout[i] * cart[o][i] ELSE 0
  PROVE  /\ \A i \in Items : f[i] \in Int
         /\ PayoutOf(o, T) = SumFunctionOnSet(f, Items)
         /\ PayoutOf(o, T) \in Int /\ PayoutOf(o, T) \in Nat
         /\ T = {} => PayoutOf(o, T) = 0
<1>. DEFINE h == [i \in T |-> UnitPayout[i] * cart[o][i]]
<1>1. \A i \in Items : f[i] \in Int
  <2>1. \A i \in Items : UnitPayout[i] \in Nat /\ cart[o][i] \in Nat
    BY OrderNumbers, StatementAssumption
  <2>2. \A a, b \in Nat : a * b \in Int
    OBVIOUS
  <2>. QED BY <2>1, <2>2
<1>2. DOMAIN h = T /\ (\A i \in T : h[i] = f[i]) /\ \A i \in Items \ T : f[i] = 0
  OBVIOUS
<1>3. PayoutOf(o, T) = SumFunction(h)
  BY Zenon DEF PayoutOf
<1>. HIDE DEF h
<1>4. SumFunction(h) = SumFunctionOnSet(f, Items)
  BY <1>1, <1>2, FiniteSales, SumOfPart
<1>5. SumFunctionOnSet(f, Items) \in Int /\ SumFunctionOnSet(f, Items) \in Nat
  <2>1. \A i \in Items : UnitPayout[i] \in Nat /\ cart[o][i] \in Nat
    BY OrderNumbers, StatementAssumption
  <2>2. \A a, b \in Nat : a * b \in Nat
    OBVIOUS
  <2>3. \A i \in Items : f[i] \in Nat
    BY <2>1, <2>2
  <2>4. SumFunctionOnSet(f, Items) \in Nat
    BY <2>3, FiniteSales, SumIsNatural
  <2>. QED BY <2>4
<1>6. T = {} => SumFunctionOnSet(f, Items) = 0
  BY FiniteSales, NothingSums
<1>. QED BY <1>1, <1>3, <1>4, <1>5, <1>6

LEMMA PayoutBySupplier ==
  ASSUME StatementInv, NEW o \in Orders, NEW k, \A s \in Suppliers : k[s] = PayoutOf(o, LinesOf(o, s))
  PROVE  SumFunctionOnSet(k, Suppliers) = PayoutOf(o, Items)
<1>. DEFINE p == [i \in Items |-> UnitPayout[i] * cart[o][i]]
            F == [s \in Suppliers |-> [i \in Items |-> IF i \in LinesOf(o, s) THEN p[i] ELSE 0]]
            G == [i \in Items |-> [s \in Suppliers |-> IF i \in LinesOf(o, s) THEN p[i] ELSE 0]]
<1>1. \A i \in Items : p[i] = IF i \in Items THEN UnitPayout[i] * cart[o][i] ELSE 0
  OBVIOUS
<1>2. (\A i \in Items : p[i] \in Int) /\ PayoutOf(o, Items) = SumFunctionOnSet(p, Items)
  <2>. HIDE DEF p
  <2>1. Items \in SUBSET Items
    OBVIOUS
  <2>. QED BY <1>1, <2>1, PayoutNumbers
<1>3. TableOf(F, G, Suppliers, Items)
  BY <1>2 DEF TableOf
<1>4. SumsOf(k, F, Suppliers, Items)
  <2>. SUFFICES ASSUME NEW s \in Suppliers PROVE k[s] = SumFunctionOnSet(F[s], Items)
    BY DEF SumsOf
  <2>. DEFINE f == F[s]
  <2>1. \A i \in Items : f[i] = IF i \in LinesOf(o, s) THEN UnitPayout[i] * cart[o][i] ELSE 0
    OBVIOUS
  <2>2. LinesOf(o, s) \in SUBSET Items
    BY DEF LinesOf, Lines
  <2>. HIDE DEF f
  <2>3. PayoutOf(o, LinesOf(o, s)) = SumFunctionOnSet(f, Items)
    BY <2>1, <2>2, PayoutNumbers
  <2>. QED BY <2>3 DEF f
<1>5. SumsOf(p, G, Items, Suppliers)
  <2>. SUFFICES ASSUME NEW i \in Items PROVE p[i] = SumFunctionOnSet(G[i], Suppliers)
    BY DEF SumsOf
  <2>. DEFINE g == G[i]
  <2>1. \A s \in Suppliers : g[s] = IF i \in LinesOf(o, s) THEN p[i] ELSE 0
    OBVIOUS
  <2>2. p[i] \in Int
    BY <1>2
  <2>3. p[i] = UnitPayout[i] * cart[o][i]
    OBVIOUS
  <2>4. UnitPayout[i] \in Nat /\ cart[o][i] \in Nat /\ (i \notin Lines(o) => cart[o][i] = 0)
    BY OrderNumbers, StatementAssumption
  <2>5. \A s : i \in LinesOf(o, s) <=> i \in Lines(o) /\ SupplierOf[i] = s
    BY DEF LinesOf, Lines
  <2>. HIDE DEF g, p, G
  <2>6. CASE i \notin Lines(o) \/ SupplierOf[i] \notin Suppliers
    <3>1. p[i] = 0
      <4>1. UnitPayout[i] = 0 \/ cart[o][i] = 0
        BY <2>4, <2>6, StatementAssumption
      <4>2. \A a \in Nat : 0 * a = 0 /\ a * 0 = 0
        OBVIOUS
      <4>. QED BY <2>3, <2>4, <4>1, <4>2
    <3>2. \A s \in Suppliers : g[s] = 0
      BY <2>1, <3>1
    <3>3. SumFunctionOnSet(g, Suppliers) = 0
      BY <3>2, FiniteSales, NothingSums
    <3>. QED BY <3>1, <3>3 DEF g
  <2>7. CASE i \in Lines(o) /\ SupplierOf[i] \in Suppliers
    <3>1. g[SupplierOf[i]] = p[i] /\ \A s \in Suppliers \ {SupplierOf[i]} : g[s] = 0
      BY <2>1, <2>5, <2>7
    <3>2. SumFunctionOnSet(g, Suppliers) = g[SupplierOf[i]]
      BY <2>2, <2>7, <3>1, FiniteSales, SumOfOne
    <3>. QED BY <3>1, <3>2 DEF g
  <2>. QED BY <2>6, <2>7
<1>. HIDE DEF F, G, p
<1>6. SumFunctionOnSet(k, Suppliers) = SumFunctionOnSet(p, Items)
  BY <1>3, <1>4, <1>5, FiniteSales, SumsExchange
<1>. QED BY <1>2, <1>6

\* What a supplier earned, over all paid orders.
LEMMA EarnedOverOrders ==
  ASSUME StatementInv, NEW s \in Suppliers, NEW f, \A o \in Earning : f[o] = PayoutOf(o, LinesOf(o, s))
  PROVE  /\ \A o \in Earning : f[o] \in Int
         /\ Earned(s) = SumFunctionOnSet(f, Earning)
         /\ Earned(s) \in Int /\ Earned(s) \in Nat
         /\ Sold(s) = {} => Earned(s) = 0
<1>1. IsFiniteSet(Earning) /\ Earning \in SUBSET Orders
  BY FiniteSales, SoldIsCaptured
<1>2. \A o \in Earning : /\ PayoutOf(o, LinesOf(o, s)) \in Nat
                         /\ LinesOf(o, s) = {} => PayoutOf(o, LinesOf(o, s)) = 0
  <2>. SUFFICES ASSUME NEW o \in Earning
                PROVE  /\ PayoutOf(o, LinesOf(o, s)) \in Nat
                       /\ LinesOf(o, s) = {} => PayoutOf(o, LinesOf(o, s)) = 0
    OBVIOUS
  <2>. DEFINE g == [i \in Items |-> IF i \in LinesOf(o, s) THEN UnitPayout[i] * cart[o][i] ELSE 0]
              T == LinesOf(o, s)
  <2>1. \A i \in Items : g[i] = IF i \in T THEN UnitPayout[i] * cart[o][i] ELSE 0
    OBVIOUS
  <2>2. T \in SUBSET Items /\ o \in Orders
    BY <1>1 DEF LinesOf, Lines
  <2>. HIDE DEF g, T
  <2>3. PayoutOf(o, T) \in Nat /\ (T = {} => PayoutOf(o, T) = 0)
    BY <2>1, <2>2, PayoutNumbers
  <2>. QED BY <2>3, Zenon DEF T
<1>. DEFINE T == Sold(s)
            h == [o \in T |-> PayoutOf(o, LinesOf(o, s))]
<1>3. T \in SUBSET Earning /\ \A o \in Earning \ T : f[o] = 0
  BY <1>2 DEF Sold
<1>4. \A o \in Earning : f[o] \in Int /\ f[o] \in Nat
  BY <1>2
<1>5. DOMAIN h = T /\ \A o \in T : h[o] = f[o]
  BY <1>3
<1>6. Earned(s) = SumFunction(h)
  BY Zenon DEF Earned
<1>. HIDE DEF T, h
<1>7. SumFunction(h) = SumFunctionOnSet(f, Earning)
  BY <1>1, <1>3, <1>4, <1>5, SumOfPart
<1>8. SumFunctionOnSet(f, Earning) \in Int /\ SumFunctionOnSet(f, Earning) \in Nat
  <2>1. SumFunctionOnSet(f, Earning) \in Nat
    BY <1>1, <1>4, SumIsNatural
  <2>. QED BY <2>1
<1>9. T = {} => SumFunctionOnSet(f, Earning) = 0
  BY <1>1, <1>3, NothingSums
<1>. QED BY <1>4, <1>6, <1>7, <1>8, <1>9, Zenon DEF T

\* The balances and the orders agree on what the suppliers earned.
LEMMA EarnedAltogether ==
  ASSUME StatementInv, NEW f, \A s \in Suppliers : f[s] = Earned(s),
         NEW g, \A o \in Earning : g[o] = PayoutOf(o, Items)
  PROVE  SumFunctionOnSet(f, Suppliers) = SumFunctionOnSet(g, Earning)
<1>. DEFINE F == [o \in Earning |-> [s \in Suppliers |-> PayoutOf(o, LinesOf(o, s))]]
            G == [s \in Suppliers |-> [o \in Earning |-> PayoutOf(o, LinesOf(o, s))]]
<1>1. IsFiniteSet(Earning) /\ Earning \in SUBSET Orders
  BY FiniteSales, SoldIsCaptured
<1>2. ASSUME NEW s \in Suppliers
      PROVE  (\A o \in Earning : G[s][o] \in Int) /\ f[s] = SumFunctionOnSet(G[s], Earning)
  <2>. DEFINE c == G[s]
  <2>1. \A o \in Earning : c[o] = PayoutOf(o, LinesOf(o, s))
    OBVIOUS
  <2>. HIDE DEF c
  <2>2. (\A o \in Earning : c[o] \in Int) /\ Earned(s) = SumFunctionOnSet(c, Earning)
    BY <2>1, EarnedOverOrders
  <2>. QED BY <2>2 DEF c
<1>3. \A o \in Earning, s \in Suppliers : F[o][s] = G[s][o]
  OBVIOUS
<1>4. ASSUME NEW o \in Earning
      PROVE  g[o] = SumFunctionOnSet(F[o], Suppliers)
  <2>. DEFINE k == F[o]
  <2>1. \A s \in Suppliers : k[s] = PayoutOf(o, LinesOf(o, s))
    OBVIOUS
  <2>. HIDE DEF k
  <2>2. SumFunctionOnSet(k, Suppliers) = PayoutOf(o, Items)
    BY <1>1, <2>1, PayoutBySupplier
  <2>. QED BY <2>2 DEF k
<1>. HIDE DEF F, G
<1>5. TableOf(F, G, Earning, Suppliers) /\ SumsOf(g, F, Earning, Suppliers) /\ SumsOf(f, G, Suppliers, Earning)
  BY <1>2, <1>3, <1>4 DEF TableOf, SumsOf
<1>. QED BY <1>1, <1>5, FiniteSales, SumsExchange

\* What a supplier is owed less what it owes is its balance.
LEMMA BalanceNumbers ==
  ASSUME StatementInv, NEW s \in Suppliers
  PROVE  /\ Balance(s) \in Int /\ Debt(s) \in Int /\ Credit(s) \in Int
         /\ Debt(s) = Balance(s) + Credit(s)
         /\ Sold(s) = {} => Debt(s) = 0
         /\ ~(Earned(s) > 0) /\ ~(settled[s] > 0) => Balance(s) = 0
<1>. DEFINE f == [o \in Earning |-> PayoutOf(o, LinesOf(o, s))]
<1>1. \A o \in Earning : f[o] = PayoutOf(o, LinesOf(o, s))
  OBVIOUS
<1>. HIDE DEF f
<1>2. Earned(s) \in Nat /\ (Sold(s) = {} => Earned(s) = 0)
  BY <1>1, EarnedOverOrders
<1>3. settled[s] \in Nat
  BY StatementAssumption DEF StatementInv, StatementTypeOK
<1>4. /\ Balance(s) \in Int /\ -Balance(s) \in Int /\ (Sold(s) = {} => Balance(s) <= 0)
      /\ ~(Earned(s) > 0) /\ ~(settled[s] > 0) => Balance(s) = 0
  BY <1>2, <1>3 DEF Balance
<1>5. Max({0, Balance(s)}) = IF 0 >= Balance(s) THEN 0 ELSE Balance(s)
  BY <1>4, GreaterOfTwo
<1>6. Max({0, -Balance(s)}) = IF 0 >= -Balance(s) THEN 0 ELSE -Balance(s)
  BY <1>4, GreaterOfTwo
<1>. QED BY <1>4, <1>5, <1>6 DEF Debt, Credit

\* The suppliers who sold nothing add nothing to the debt, so it is the debt to all of them.
LEMMA DebtsOfAll ==
  ASSUME StatementInv, NEW f, \A s \in Suppliers : f[s] = Debt(s)
  PROVE  payoutsOpenCents = SumFunctionOnSet(f, Suppliers)
<1>. DEFINE T == {t \in Suppliers : Sold(t) # {}}
            h == [s \in T |-> Debt(s)]
<1>1. payoutsOpenCents = SumFunction(h)
  BY Zenon DEF payoutsOpenCents
<1>2. /\ \A s \in Suppliers : f[s] \in Int
      /\ T \in SUBSET Suppliers /\ \A s \in Suppliers \ T : f[s] = 0
      /\ DOMAIN h = T /\ \A s \in T : h[s] = f[s]
  BY BalanceNumbers
<1>. HIDE DEF T, h
<1>. QED BY <1>1, <1>2, FiniteSales, SumOfPart

\* The total of the payouts tab, row by row.
LEMMA TabOfPayouts ==
  ASSUME StatementInv, NEW active \in SUBSET Suppliers
  PROVE  listPayouts(active).balance = payoutsOpenCents
                                         - SumFunction([s \in Suppliers \ Listed |-> Debt(s)])
                                         - SumFunction([s \in Listed |-> Credit(s)])
<1>. DEFINE rows == {s \in Listed : s \in active \/ Earned(s) > 0 \/ settled[s] > 0}
            rest == Suppliers \ Listed
            b == [s \in Suppliers |-> Balance(s)]
            c == [s \in Suppliers |-> Credit(s)]
            d == [s \in Suppliers |-> Debt(s)]
            shown == [s \in rows |-> Balance(s)]
            credit == [s \in Listed |-> Credit(s)]
            cut == [s \in rest |-> Debt(s)]
<1>1. /\ Listed \in SUBSET Suppliers /\ rest \in SUBSET Suppliers /\ rows \in SUBSET Listed
      /\ Listed \intersect rest = {} /\ Listed \union rest = Suppliers
  BY StatementAssumption
<1>2. \A s \in Suppliers : /\ b[s] \in Int /\ c[s] \in Int /\ d[s] \in Int
                           /\ d[s] = b[s] + c[s] /\ d[s] = Debt(s)
  BY BalanceNumbers
<1>3. \A s \in Listed \ rows : b[s] = 0
  BY <1>1, BalanceNumbers
<1>4. /\ DOMAIN shown = rows /\ \A s \in rows : shown[s] = b[s]
      /\ DOMAIN credit = Listed /\ \A s \in Listed : credit[s] = c[s]
      /\ DOMAIN cut = rest /\ \A s \in rest : cut[s] = d[s]
  BY <1>1
<1>5. listPayouts(active).balance = SumFunction(shown)
  BY DEF listPayouts
<1>6. /\ SumFunction(credit) = SumFunction([s \in Listed |-> Credit(s)])
      /\ SumFunction(cut) = SumFunction([s \in Suppliers \ Listed |-> Debt(s)])
  OBVIOUS
<1>. HIDE DEF rows, rest, b, c, d, shown, credit, cut
<1>7. IsFiniteSet(Listed) /\ IsFiniteSet(rest)
  BY <1>1, FiniteSales, FS_Subset
<1>8. SumFunction(shown) = SumFunctionOnSet(b, Listed)
  BY <1>1, <1>2, <1>3, <1>4, <1>7, SumOfPart
<1>9. SumFunction(credit) = SumFunctionOnSet(c, Listed)
  BY <1>1, <1>2, <1>4, <1>7, SumOfPart
<1>10. SumFunction(cut) = SumFunctionOnSet(d, rest)
  BY <1>1, <1>2, <1>4, <1>7, SumOfPart
<1>11. SumFunctionOnSet(d, Listed) = SumFunctionOnSet(b, Listed) + SumFunctionOnSet(c, Listed)
  BY <1>1, <1>2, <1>7, SumAdds
<1>12. SumFunctionOnSet(d, Suppliers) = SumFunctionOnSet(d, Listed) + SumFunctionOnSet(d, rest)
  BY <1>1, <1>2, <1>7, SumOfBoth
<1>13. payoutsOpenCents = SumFunctionOnSet(d, Suppliers)
  BY <1>2, DebtsOfAll
<1>14. /\ SumFunctionOnSet(b, Listed) \in Int /\ SumFunctionOnSet(c, Listed) \in Int
       /\ SumFunctionOnSet(d, rest) \in Int
  BY <1>1, <1>2, <1>7, SumIsNumber
<1>. QED BY <1>5, <1>6, <1>8, <1>9, <1>10, <1>11, <1>12, <1>13, <1>14

\* One share is the part of the line, to half a cent.
LEMMA ShareIsClose ==
  ASSUME NEW n \in Nat, NEW t \in Nat \ {0}, NEW a \in Nat
  PROVE  /\ Round(a * n, t) \in Int
         /\ (2 * t) * Round(a * n, t) <= (2 * n) * a + t
         /\ (2 * n) * a <= (2 * t) * Round(a * n, t) + t
         /\ a = 0 => Round(a * n, t) = 0
<1>. DEFINE m == a * n
            r == Round(m, t)
<1>1. m \in Nat /\ 2 * m = (2 * n) * a /\ (a = 0 => m = 0)
  OBVIOUS
<1>. HIDE DEF m
<1>2. r \in Int /\ 2 * t * r <= 2 * m + t /\ 2 * m + t < 2 * t * r + 2 * t /\ (m = 0 => r = 0)
  BY <1>1, RoundsToNearest
<1>. HIDE DEF r
<1>3. (2 * t) * r \in Int /\ 2 * t * r = (2 * t) * r
  BY <1>2
<1>4. (2 * t) * r <= 2 * m + t /\ 2 * m <= (2 * t) * r + t
  BY <1>1, <1>2, <1>3
<1>. QED BY <1>1, <1>2, <1>4 DEF r, m

\* The shares of the lines of one order add up to its fees, to half a cent a line.
LEMMA SharesAddUp ==
  ASSUME StatementInv, NEW o \in Earning, NEW k, \A i \in Items : k[i] = Share(o, i)
  PROVE  /\ \A i \in Items : k[i] \in Int /\ (i \notin Lines(o) => k[i] = 0)
         /\ SumFunctionOnSet(k, Items) \in Int
         /\ Cardinality(Lines(o)) \in Nat
         /\ 2 * SumFunctionOnSet(k, Items) <= 2 * (applicationFeeCents(o) + fee[o]) + Cardinality(Lines(o))
         /\ 2 * (applicationFeeCents(o) + fee[o]) <= 2 * SumFunctionOnSet(k, Items) + Cardinality(Lines(o))
<1>. DEFINE t == Total(o)
            n == applicationFeeCents(o) + fee[o]
            a == [i \in Items |-> Price[i] * cart[o][i]]
            e == [i \in Items |-> IF i \in Lines(o) THEN 1 ELSE 0]
            tk == [i \in Items |-> (2 * t) * k[i]]
            na == [i \in Items |-> (2 * n) * a[i]]
            te == [i \in Items |-> t * e[i]]
            nate == [i \in Items |-> na[i] + te[i]]
            tkte == [i \in Items |-> tk[i] + te[i]]
<1>1. o \in Orders /\ t \in Nat \ {0} /\ n \in Nat /\ 2 * t \in Int /\ 2 * n \in Int /\ IsFiniteSet(Items)
  <2>1. o \in Orders /\ order[o] # "none"
    BY SoldIsCaptured
  <2>2. Total(o) \in Nat /\ Total(o) > 0 /\ applicationFeeCents(o) \in Nat /\ fee[o] \in Nat
    BY <2>1, OrderNumbers
  <2>. QED BY <2>1, <2>2, FiniteSales
<1>2. ASSUME NEW i \in Items
      PROVE  /\ a[i] \in Nat /\ k[i] \in Int /\ k[i] = Round(a[i] * n, t)
             /\ i \notin Lines(o) => a[i] = 0
             /\ a[i] = 0 => k[i] = 0
             /\ (2 * t) * k[i] <= (2 * n) * a[i] + t
             /\ (2 * n) * a[i] <= (2 * t) * k[i] + t
  <2>1. Price[i] \in Nat /\ cart[o][i] \in Nat /\ (i \notin Lines(o) => cart[o][i] = 0)
    BY <1>1, OrderNumbers, StatementAssumption
  <2>2. \A x, y \in Nat : x * y \in Nat /\ (y = 0 => x * y = 0)
    OBVIOUS
  <2>3. a[i] \in Nat /\ (i \notin Lines(o) => a[i] = 0)
    BY <2>1, <2>2
  <2>4. k[i] = Round(a[i] * n, t)
    BY DEF Share
  <2>. HIDE DEF a, n, t
  <2>. QED BY <1>1, <2>3, <2>4, ShareIsClose
<1>3. t = SumFunctionOnSet(a, Items)
  BY Zenon DEF Total, CartTotal, SumFunction
<1>4. SumFunctionOnSet(e, Items) = Cardinality(Lines(o)) /\ Cardinality(Lines(o)) \in Nat
  <2>1. Lines(o) \in SUBSET Items /\ IsFiniteSet(Lines(o))
    BY <1>1, OrderNumbers, FS_Subset
  <2>2. (\A i \in Items : e[i] \in Int) /\ (\A i \in Lines(o) : e[i] = 1 /\ e[i] \in Int)
        /\ \A i \in Items \ Lines(o) : e[i] = 0
    BY <2>1
  <2>. HIDE DEF e
  <2>3. SumFunctionOnSet(e, Items) = SumFunctionOnSet(e, Lines(o))
    BY <1>1, <2>1, <2>2, SumWithin
  <2>4. SumFunctionOnSet(e, Lines(o)) = Cardinality(Lines(o))
    BY <2>1, <2>2, SumOfOnes
  <2>. QED BY <2>1, <2>3, <2>4, FS_CardinalityType
<1>5. \A i \in Items : e[i] \in Int /\ tk[i] = (2 * t) * k[i] /\ na[i] = (2 * n) * a[i] /\ te[i] = t * e[i]
                       /\ nate[i] = na[i] + te[i] /\ tkte[i] = tk[i] + te[i]
                       /\ e[i] = IF i \in Lines(o) THEN 1 ELSE 0
  OBVIOUS
<1>. HIDE DEF t, n, a, e, tk, na, te, nate, tkte
<1>6. ASSUME NEW i \in Items
      PROVE  /\ tk[i] \in Int /\ na[i] \in Int /\ te[i] \in Int /\ nate[i] \in Int /\ tkte[i] \in Int
             /\ tk[i] <= nate[i] /\ na[i] <= tkte[i]
  <2>1. tk[i] \in Int /\ na[i] \in Int
    <3>1. \A x, y \in Int : x * y \in Int
      OBVIOUS
    <3>2. a[i] \in Int /\ k[i] \in Int
      BY <1>2
    <3>. QED BY <1>1, <1>5, <3>1, <3>2
  <2>2. CASE i \in Lines(o)
    <3>1. te[i] = t
      BY <1>1, <1>5, <2>2
    <3>2. tk[i] <= na[i] + t /\ na[i] <= tk[i] + t
      BY <1>2, <1>5
    <3>. QED BY <1>1, <1>5, <2>1, <3>1, <3>2
  <2>3. CASE i \notin Lines(o)
    <3>1. te[i] = 0 /\ tk[i] = 0 /\ na[i] = 0
      <4>1. a[i] = 0 /\ k[i] = 0 /\ e[i] = 0
        BY <1>2, <1>5, <2>3
      <4>2. \A x, y \in Int : y = 0 => x * y = 0
        OBVIOUS
      <4>3. t \in Int /\ a[i] \in Int /\ k[i] \in Int /\ e[i] \in Int
        BY <1>1, <1>2, <1>5
      <4>4. (2 * t) * k[i] = 0 /\ (2 * n) * a[i] = 0 /\ t * e[i] = 0
        BY <1>1, <4>1, <4>2, <4>3
      <4>. QED BY <1>5, <4>4
    <3>. QED BY <1>5, <3>1
  <2>. QED BY <2>2, <2>3
<1>7. SumFunctionOnSet(tk, Items) = (2 * t) * SumFunctionOnSet(k, Items)
  <2>1. \A i \in Items : k[i] \in Int /\ tk[i] = (2 * t) * k[i]
    BY <1>2, <1>5
  <2>. DEFINE f == 2 * t
  <2>. HIDE DEF f
  <2>2. \A i \in Items : k[i] \in Int /\ tk[i] = f * k[i]
    BY <2>1 DEF f
  <2>3. f \in Int
    BY <1>1 DEF f
  <2>4. SumFunctionOnSet(tk, Items) = f * SumFunctionOnSet(k, Items)
    BY <1>1, <2>2, <2>3, SumScales
  <2>. QED BY <2>4 DEF f
<1>8. SumFunctionOnSet(na, Items) = (2 * n) * t
  <2>. DEFINE f == 2 * n
  <2>. HIDE DEF f
  <2>1. \A i \in Items : a[i] \in Int /\ na[i] = f * a[i]
    BY <1>2, <1>5 DEF f
  <2>2. f \in Int
    BY <1>1 DEF f
  <2>3. SumFunctionOnSet(na, Items) = f * SumFunctionOnSet(a, Items)
    BY <1>1, <2>1, <2>2, SumScales
  <2>4. SumFunctionOnSet(na, Items) = f * t
    BY <1>3, <2>3
  <2>. QED BY <2>4 DEF f
<1>9. SumFunctionOnSet(te, Items) = t * Cardinality(Lines(o))
  <2>1. t \in Int
    BY <1>1
  <2>2. SumFunctionOnSet(te, Items) = t * SumFunctionOnSet(e, Items)
    BY <1>1, <1>5, <2>1, SumScales
  <2>. QED BY <1>4, <2>2
<1>10. /\ SumFunctionOnSet(nate, Items) = SumFunctionOnSet(na, Items) + SumFunctionOnSet(te, Items)
       /\ SumFunctionOnSet(tkte, Items) = SumFunctionOnSet(tk, Items) + SumFunctionOnSet(te, Items)
  <2>1. SumFunctionOnSet(nate, Items) = SumFunctionOnSet(na, Items) + SumFunctionOnSet(te, Items)
    BY <1>1, <1>5, <1>6, SumAdds
  <2>2. SumFunctionOnSet(tkte, Items) = SumFunctionOnSet(tk, Items) + SumFunctionOnSet(te, Items)
    BY <1>1, <1>5, <1>6, SumAdds
  <2>. QED BY <2>1, <2>2
<1>11. /\ SumFunctionOnSet(tk, Items) <= SumFunctionOnSet(nate, Items)
       /\ SumFunctionOnSet(na, Items) <= SumFunctionOnSet(tkte, Items)
  <2>1. SumFunctionOnSet(tk, Items) <= SumFunctionOnSet(nate, Items)
    BY <1>1, <1>6, SumGrows
  <2>2. SumFunctionOnSet(na, Items) <= SumFunctionOnSet(tkte, Items)
    BY <1>1, <1>6, SumGrows
  <2>. QED BY <2>1, <2>2
<1>12. SumFunctionOnSet(k, Items) \in Int
  BY <1>1, <1>2, SumIsNumber
<1>13. ASSUME NEW x \in Int, NEW y \in Int, NEW c \in Nat
       PROVE  /\ (2 * t) * x <= (2 * y) * t + t * c => 2 * x <= 2 * y + c
              /\ (2 * y) * t <= (2 * t) * x + t * c => 2 * y <= 2 * x + c
  <2>1. \A u, v \in Int : t * u <= t * v => u <= v
    BY <1>1
  <2>2. (2 * t) * x = t * (2 * x) /\ (2 * y) * t + t * c = t * (2 * y + c)
        /\ (2 * y) * t = t * (2 * y) /\ (2 * t) * x + t * c = t * (2 * x + c)
    BY <1>1
  <2>3. 2 * x \in Int /\ 2 * y \in Int /\ 2 * y + c \in Int /\ 2 * x + c \in Int
    OBVIOUS
  <2>. QED BY <2>1, <2>2, <2>3
<1>14. /\ 2 * SumFunctionOnSet(k, Items) <= 2 * n + Cardinality(Lines(o))
       /\ 2 * n <= 2 * SumFunctionOnSet(k, Items) + Cardinality(Lines(o))
  BY <1>1, <1>4, <1>7, <1>8, <1>9, <1>10, <1>11, <1>12, <1>13
<1>. QED BY <1>2, <1>4, <1>12, <1>14 DEF n

\* The statement's totals as sums over its orders.
SalesFee(o) == applicationFeeCents(o) + fee[o]

MoneyTerms(f, g, h) ==
  \A o \in Orders : f[o] = Total(o) /\ g[o] = SalesFee(o) /\ h[o] = PayoutOf(o, Items)

LEMMA MoneyNumbers ==
  ASSUME StatementInv, NEW T \in SUBSET Orders, NEW f, NEW g, NEW h, MoneyTerms(f, g, h)
  PROVE  /\ \A o \in Orders : f[o] \in Int /\ g[o] \in Int /\ h[o] \in Int
         /\ MoneyOf(T).sales = SumFunctionOnSet(f, T)
         /\ MoneyOf(T).fees = SumFunctionOnSet(g, T)
         /\ MoneyOf(T).payout = SumFunctionOnSet(h, T)
         /\ SumFunctionOnSet(f, T) \in Int
         /\ SumFunctionOnSet(g, T) \in Int
         /\ SumFunctionOnSet(h, T) \in Int
<1>. USE DEF MoneyTerms
<1>1. ASSUME NEW o \in Orders
      PROVE  f[o] \in Int /\ g[o] \in Int /\ h[o] \in Int
  <2>1. PayoutOf(o, Items) \in Int
    <3>. DEFINE p == [i \in Items |-> UnitPayout[i] * cart[o][i]]
    <3>1. \A i \in Items : p[i] = IF i \in Items THEN UnitPayout[i] * cart[o][i] ELSE 0
      OBVIOUS
    <3>2. Items \in SUBSET Items
      OBVIOUS
    <3>. HIDE DEF p
    <3>. QED BY <3>1, <3>2, PayoutNumbers
  <2>. QED BY <2>1, OrderNumbers DEF SalesFee
<1>. DEFINE ft == [o \in T |-> Total(o)]
            gt == [o \in T |-> applicationFeeCents(o) + fee[o]]
            ht == [o \in T |-> PayoutOf(o, Items)]
<1>2. /\ DOMAIN ft = T /\ DOMAIN gt = T /\ DOMAIN ht = T
      /\ \A o \in T : /\ ft[o] = f[o] /\ gt[o] = g[o] /\ ht[o] = h[o]
                      /\ f[o] \in Int /\ g[o] \in Int /\ h[o] \in Int
  BY <1>1 DEF SalesFee
<1>3. MoneyOf(T).sales = SumFunction(ft) /\ MoneyOf(T).fees = SumFunction(gt) /\ MoneyOf(T).payout = SumFunction(ht)
  BY Zenon DEF MoneyOf
<1>4. IsFiniteSet(T)
  BY FiniteSales
<1>. HIDE DEF ft, gt, ht
<1>5. SumFunction(ft) = SumFunctionOnSet(f, T)
  <2>1. SumFunctionOnSet(ft, T) = SumFunctionOnSet(f, T)
    BY <1>2, <1>4, SumIsSame
  <2>. QED BY <1>2, <2>1 DEF SumFunction
<1>6. SumFunction(gt) = SumFunctionOnSet(g, T)
  <2>1. SumFunctionOnSet(gt, T) = SumFunctionOnSet(g, T)
    BY <1>2, <1>4, SumIsSame
  <2>. QED BY <1>2, <2>1 DEF SumFunction
<1>7. SumFunction(ht) = SumFunctionOnSet(h, T)
  <2>1. SumFunctionOnSet(ht, T) = SumFunctionOnSet(h, T)
    BY <1>2, <1>4, SumIsSame
  <2>. QED BY <1>2, <2>1 DEF SumFunction
<1>8. /\ SumFunctionOnSet(f, T) \in Int
      /\ SumFunctionOnSet(g, T) \in Int
      /\ SumFunctionOnSet(h, T) \in Int
  BY <1>2, <1>4, SumIsNumber
<1>. QED BY <1>1, <1>3, <1>5, <1>6, <1>7, <1>8

\* What the payments count and the orders do not, and the other way round.
LEMMA SplitsOfSales ==
  ASSUME StatementInv, NEW f, \A o \in Orders : f[o] \in Int
  PROVE  SumFunctionOnSet(f, Captured) + SumFunctionOnSet(f, Asked)
           = SumFunctionOnSet(f, Earning) + SumFunctionOnSet(f, Orphan)
<1>1. /\ Captured \intersect Asked = {} /\ Earning \intersect Orphan = {}
      /\ \A o \in Captured \union Asked : f[o] \in Int
      /\ \A o \in Earning \union Orphan : f[o] \in Int
      /\ IsFiniteSet(Captured) /\ IsFiniteSet(Asked) /\ IsFiniteSet(Earning) /\ IsFiniteSet(Orphan)
  BY SoldIsCaptured, FiniteSales
<1>2. SumFunctionOnSet(f, Captured \union Asked) = SumFunctionOnSet(f, Captured) + SumFunctionOnSet(f, Asked)
  BY <1>1, SumOfBoth
<1>3. SumFunctionOnSet(f, Earning \union Orphan) = SumFunctionOnSet(f, Earning) + SumFunctionOnSet(f, Orphan)
  BY <1>1, SumOfBoth
<1>4. Captured \union Asked = Earning \union Orphan
  BY SoldIsCaptured
<1>5. SumFunctionOnSet(f, Captured \union Asked) = SumFunctionOnSet(f, Earning \union Orphan)
  BY <1>4, Zenon
<1>. QED BY <1>2, <1>3, <1>5

\* The fees of the events, over all paid orders.
LEMMA FeesByEvent ==
  ASSUME StatementInv, NEW f, \A i \in Items : f[i] = listResults(i).fees,
         NEW g, \A o \in Earning : g[o] = SumFunction([i \in Items |-> Share(o, i)])
  PROVE  /\ SumFunctionOnSet(f, Items) = SumFunctionOnSet(g, Earning)
         /\ \A i \in Items : f[i] \in Int
         /\ \A o \in Earning :
              /\ g[o] \in Int /\ Cardinality(Lines(o)) \in Nat
              /\ 2 * g[o] <= 2 * SalesFee(o) + Cardinality(Lines(o))
              /\ 2 * SalesFee(o) <= 2 * g[o] + Cardinality(Lines(o))
<1>. DEFINE F == [o \in Earning |-> [i \in Items |-> Share(o, i)]]
            G == [i \in Items |-> [o \in Earning |-> Share(o, i)]]
<1>1. IsFiniteSet(Earning) /\ IsFiniteSet(Items)
  BY FiniteSales, SoldIsCaptured
<1>2. ASSUME NEW o \in Earning
      PROVE  /\ g[o] = SumFunctionOnSet(F[o], Items)
             /\ \A i \in Items : F[o][i] \in Int /\ (i \notin Lines(o) => Share(o, i) = 0)
             /\ g[o] \in Int /\ Cardinality(Lines(o)) \in Nat
             /\ 2 * g[o] <= 2 * SalesFee(o) + Cardinality(Lines(o))
             /\ 2 * SalesFee(o) <= 2 * g[o] + Cardinality(Lines(o))
  <2>. DEFINE k == [i \in Items |-> Share(o, i)]
  <2>1. F[o] = k /\ DOMAIN k = Items /\ \A i \in Items : k[i] = Share(o, i)
    OBVIOUS
  <2>2. g[o] = SumFunction(k)
    OBVIOUS
  <2>. HIDE DEF k, F
  <2>3. SumFunction(k) = SumFunctionOnSet(k, Items)
    BY <2>1 DEF SumFunction
  <2>4. /\ \A i \in Items : k[i] \in Int /\ (i \notin Lines(o) => k[i] = 0)
        /\ SumFunctionOnSet(k, Items) \in Int
        /\ Cardinality(Lines(o)) \in Nat
        /\ 2 * SumFunctionOnSet(k, Items) <= 2 * (applicationFeeCents(o) + fee[o]) + Cardinality(Lines(o))
        /\ 2 * (applicationFeeCents(o) + fee[o]) <= 2 * SumFunctionOnSet(k, Items) + Cardinality(Lines(o))
    BY <2>1, SharesAddUp
  <2>. QED BY <2>1, <2>2, <2>3, <2>4 DEF SalesFee
<1>3. ASSUME NEW i \in Items
      PROVE  f[i] = SumFunctionOnSet(G[i], Earning) /\ f[i] \in Int /\ \A o \in Earning : G[i][o] \in Int
  <2>. DEFINE k == G[i]
              T == Attending(i) \intersect Earning
              h == [o \in T |-> Share(o, i)]
  <2>1. \A o \in Earning : k[o] \in Int /\ k[o] = Share(o, i)
    BY <1>2
  <2>2. T \in SUBSET Earning /\ \A o \in Earning \ T : k[o] = 0
    BY <1>2, <2>1, PaidLines
  <2>3. DOMAIN h = T /\ \A o \in T : h[o] = k[o]
    BY <2>1, <2>2
  <2>4. f[i] = SumFunction(h)
    <3>1. f[i] = listResults(i).fees
      OBVIOUS
    <3>2. listResults(i).fees = SumFunction(h)
      BY Zenon DEF listResults
    <3>. QED BY <3>1, <3>2, Zenon
  <2>. HIDE DEF k, T, h
  <2>5. SumFunction(h) = SumFunctionOnSet(k, Earning)
    BY <1>1, <2>1, <2>2, <2>3, SumOfPart
  <2>6. SumFunctionOnSet(k, Earning) \in Int
    BY <1>1, <2>1, SumIsNumber
  <2>. QED BY <2>1, <2>4, <2>5, <2>6 DEF k
<1>4. \A o \in Earning, i \in Items : F[o][i] = G[i][o]
  OBVIOUS
<1>. HIDE DEF F, G
<1>5. TableOf(F, G, Earning, Items) /\ SumsOf(g, F, Earning, Items) /\ SumsOf(f, G, Items, Earning)
  BY <1>2, <1>3, <1>4 DEF TableOf, SumsOf
<1>6. SumFunctionOnSet(g, Earning) = SumFunctionOnSet(f, Items)
  BY <1>1, <1>5, SumsExchange
<1>. QED BY <1>2, <1>3, <1>6

\* The results of the events against the orders they were sold in.
EventGross(i)  == Price[i] * SeatsOf(i, Attending(i) \intersect Earning)
EventPayout(i) == UnitPayout[i] * SeatsOf(i, Attending(i) \intersect Earning)

LEMMA ResultsOfEvents ==
  ASSUME StatementInv, NEW i \in Items
  PROVE  /\ listResults(i).gross = EventGross(i)
         /\ listResults(i).payout = EventPayout(i)
         /\ listAttendees(i) = [sold |-> listResults(i).sold, checkedIn |-> listResults(i).checkedIn]
BY Zenon DEF listResults, listAttendees, EventGross, EventPayout

LEMMA GrossByEvent ==
  ASSUME StatementInv, NEW f, \A i \in Items : f[i] = EventGross(i),
         NEW g, \A o \in Earning : g[o] = Total(o)
  PROVE  SumFunctionOnSet(f, Items) = SumFunctionOnSet(g, Earning) /\ \A i \in Items : f[i] \in Int
<1>1. Price \in [Items -> Nat]
  BY StatementAssumption
<1>2. \A o \in Earning : g[o] = SumFunction([i \in Items |-> Price[i] * cart[o][i]])
  BY DEF Total, CartTotal
<1>3. \A i \in Items : f[i] = Price[i] * SeatsOf(i, Attending(i) \intersect Earning)
  BY DEF EventGross
<1>. QED BY <1>1, <1>2, <1>3, UnitsByEvent

LEMMA PayoutByEvent ==
  ASSUME StatementInv, NEW f, \A i \in Items : f[i] = EventPayout(i),
         NEW g, \A o \in Earning : g[o] = PayoutOf(o, Items)
  PROVE  SumFunctionOnSet(f, Items) = SumFunctionOnSet(g, Earning) /\ \A i \in Items : f[i] \in Int
<1>1. UnitPayout \in [Items -> Nat]
  BY StatementAssumption
<1>2. \A o \in Earning : g[o] = SumFunction([i \in Items |-> UnitPayout[i] * cart[o][i]])
  BY DEF PayoutOf
<1>3. \A i \in Items : f[i] = UnitPayout[i] * SeatsOf(i, Attending(i) \intersect Earning)
  BY DEF EventPayout
<1>. QED BY <1>1, <1>2, <1>3, UnitsByEvent

\* The net of the events is the net of the paid orders, to half a cent per line.
EventNet(i) == listResults(i).gross - listResults(i).fees - listResults(i).payout
LinesSold   == SumFunction([o \in Earning |-> Cardinality(Lines(o))])

LEMMA NetByEvent ==
  ASSUME StatementInv
  PROVE  LET net == SumFunction([i \in Items |-> EventNet(i)])
         IN /\ net \in Int /\ netCents(MoneyOf(Earning)) \in Int /\ LinesSold \in Int
            /\ 2 * (net - netCents(MoneyOf(Earning))) <= LinesSold
            /\ -2 * (net - netCents(MoneyOf(Earning))) <= LinesSold
<1>. DEFINE sales == [o \in Orders |-> Total(o)]
            fees == [o \in Orders |-> SalesFee(o)]
            payout == [o \in Orders |-> PayoutOf(o, Items)]
            lines == [o \in Earning |-> Cardinality(Lines(o))]
            shares == [o \in Earning |-> SumFunction([i \in Items |-> Share(o, i)])]
            gr == [i \in Items |-> EventGross(i)]
            fe == [i \in Items |-> listResults(i).fees]
            pa == [i \in Items |-> EventPayout(i)]
            net == [i \in Items |-> EventNet(i)]
            cost == [i \in Items |-> fe[i] + pa[i]]
<1>1. IsFiniteSet(Earning) /\ IsFiniteSet(Items) /\ Earning \in SUBSET Orders
  BY FiniteSales, SoldIsCaptured
<1>2. \A o \in Orders : sales[o] = Total(o) /\ fees[o] = SalesFee(o) /\ payout[o] = PayoutOf(o, Items)
  OBVIOUS
<1>3. \A i \in Items : gr[i] = EventGross(i) /\ fe[i] = listResults(i).fees /\ pa[i] = EventPayout(i)
                       /\ net[i] = gr[i] - fe[i] - pa[i] /\ cost[i] = fe[i] + pa[i]
  BY ResultsOfEvents DEF EventNet
<1>4. \A o \in Earning : /\ shares[o] = SumFunction([i \in Items |-> Share(o, i)])
                         /\ lines[o] = Cardinality(Lines(o))
  OBVIOUS
<1>5. SumFunction([i \in Items |-> EventNet(i)]) = SumFunctionOnSet(net, Items)
  BY Zenon DEF SumFunction
<1>6. LinesSold = SumFunctionOnSet(lines, Earning)
  BY Zenon DEF LinesSold, SumFunction
<1>. HIDE DEF sales, fees, payout, lines, shares, gr, fe, pa, net, cost
<1>7. /\ \A o \in Orders : sales[o] \in Int /\ fees[o] \in Int /\ payout[o] \in Int
      /\ MoneyOf(Earning).sales = SumFunctionOnSet(sales, Earning)
      /\ MoneyOf(Earning).fees = SumFunctionOnSet(fees, Earning)
      /\ MoneyOf(Earning).payout = SumFunctionOnSet(payout, Earning)
      /\ SumFunctionOnSet(sales, Earning) \in Int
      /\ SumFunctionOnSet(fees, Earning) \in Int
      /\ SumFunctionOnSet(payout, Earning) \in Int
  <2>1. MoneyTerms(sales, fees, payout)
    BY <1>2 DEF MoneyTerms
  <2>. QED BY <1>1, <2>1, MoneyNumbers
<1>8. SumFunctionOnSet(gr, Items) = SumFunctionOnSet(sales, Earning) /\ \A i \in Items : gr[i] \in Int
  BY <1>1, <1>2, <1>3, GrossByEvent
<1>9. SumFunctionOnSet(pa, Items) = SumFunctionOnSet(payout, Earning) /\ \A i \in Items : pa[i] \in Int
  BY <1>1, <1>2, <1>3, PayoutByEvent
<1>10. /\ SumFunctionOnSet(fe, Items) = SumFunctionOnSet(shares, Earning)
       /\ \A i \in Items : fe[i] \in Int
       /\ \A o \in Earning :
            /\ shares[o] \in Int /\ Cardinality(Lines(o)) \in Nat
            /\ 2 * shares[o] <= 2 * SalesFee(o) + Cardinality(Lines(o))
            /\ 2 * SalesFee(o) <= 2 * shares[o] + Cardinality(Lines(o))
  BY <1>3, <1>4, FeesByEvent
<1>11. SumFunctionOnSet(net, Items) = SumFunctionOnSet(gr, Items) - SumFunctionOnSet(fe, Items) - SumFunctionOnSet(pa, Items)
       /\ SumFunctionOnSet(net, Items) \in Int
  <2>1. \A i \in Items : /\ gr[i] \in Int /\ fe[i] \in Int /\ pa[i] \in Int /\ net[i] \in Int /\ cost[i] \in Int
                         /\ cost[i] = fe[i] + pa[i] /\ gr[i] = net[i] + cost[i]
    BY <1>3, <1>8, <1>9, <1>10
  <2>2. SumFunctionOnSet(cost, Items) = SumFunctionOnSet(fe, Items) + SumFunctionOnSet(pa, Items)
    BY <1>1, <2>1, SumAdds
  <2>3. SumFunctionOnSet(gr, Items) = SumFunctionOnSet(net, Items) + SumFunctionOnSet(cost, Items)
    BY <1>1, <2>1, SumAdds
  <2>4. SumFunctionOnSet(fe, Items) \in Int /\ SumFunctionOnSet(pa, Items) \in Int /\ SumFunctionOnSet(net, Items) \in Int
    BY <1>1, <2>1, SumIsNumber
  <2>. QED BY <2>2, <2>3, <2>4
<1>12. /\ SumFunctionOnSet(shares, Earning) \in Int /\ SumFunctionOnSet(lines, Earning) \in Int
       /\ 2 * SumFunctionOnSet(shares, Earning) <= 2 * SumFunctionOnSet(fees, Earning) + SumFunctionOnSet(lines, Earning)
       /\ 2 * SumFunctionOnSet(fees, Earning) <= 2 * SumFunctionOnSet(shares, Earning) + SumFunctionOnSet(lines, Earning)
  <2>. DEFINE s2 == [o \in Earning |-> 2 * shares[o]]
              f2 == [o \in Earning |-> 2 * fees[o]]
              s2l == [o \in Earning |-> s2[o] + lines[o]]
              f2l == [o \in Earning |-> f2[o] + lines[o]]
  <2>1. \A o \in Earning : shares[o] \in Int /\ fees[o] \in Int /\ lines[o] \in Int
                           /\ 2 * shares[o] <= 2 * fees[o] + lines[o] /\ 2 * fees[o] <= 2 * shares[o] + lines[o]
    <3>. SUFFICES ASSUME NEW o \in Earning
                  PROVE  /\ shares[o] \in Int /\ fees[o] \in Int /\ lines[o] \in Int
                         /\ 2 * shares[o] <= 2 * fees[o] + lines[o] /\ 2 * fees[o] <= 2 * shares[o] + lines[o]
      OBVIOUS
    <3>1. o \in Orders /\ fees[o] = SalesFee(o) /\ fees[o] \in Int
      BY <1>1, <1>2, <1>7
    <3>2. /\ lines[o] = Cardinality(Lines(o)) /\ shares[o] \in Int /\ Cardinality(Lines(o)) \in Nat
          /\ 2 * shares[o] <= 2 * SalesFee(o) + Cardinality(Lines(o))
          /\ 2 * SalesFee(o) <= 2 * shares[o] + Cardinality(Lines(o))
      BY <1>4, <1>10
    <3>. QED BY <3>1, <3>2
  <2>2. \A o \in Earning : /\ s2[o] \in Int /\ f2[o] \in Int /\ s2l[o] \in Int /\ f2l[o] \in Int
                           /\ s2[o] = 2 * shares[o] /\ f2[o] = 2 * fees[o]
                           /\ s2l[o] = s2[o] + lines[o] /\ f2l[o] = f2[o] + lines[o]
                           /\ s2[o] <= f2l[o] /\ f2[o] <= s2l[o]
    BY <2>1
  <2>. HIDE DEF s2, f2, s2l, f2l
  <2>3. SumFunctionOnSet(s2, Earning) = 2 * SumFunctionOnSet(shares, Earning)
    BY <1>1, <2>1, <2>2, SumScales
  <2>4. SumFunctionOnSet(f2, Earning) = 2 * SumFunctionOnSet(fees, Earning)
    BY <1>1, <2>1, <2>2, SumScales
  <2>5. SumFunctionOnSet(s2l, Earning) = SumFunctionOnSet(s2, Earning) + SumFunctionOnSet(lines, Earning)
    BY <1>1, <2>1, <2>2, SumAdds
  <2>6. SumFunctionOnSet(f2l, Earning) = SumFunctionOnSet(f2, Earning) + SumFunctionOnSet(lines, Earning)
    BY <1>1, <2>1, <2>2, SumAdds
  <2>7. SumFunctionOnSet(s2, Earning) <= SumFunctionOnSet(f2l, Earning)
    BY <1>1, <2>2, SumGrows
  <2>8. SumFunctionOnSet(f2, Earning) <= SumFunctionOnSet(s2l, Earning)
    BY <1>1, <2>2, SumGrows
  <2>9. SumFunctionOnSet(shares, Earning) \in Int /\ SumFunctionOnSet(lines, Earning) \in Int
    BY <1>1, <2>1, SumIsNumber
  <2>. QED BY <2>3, <2>4, <2>5, <2>6, <2>7, <2>8, <2>9
<1>13. netCents(MoneyOf(Earning)) = SumFunctionOnSet(sales, Earning) - SumFunctionOnSet(fees, Earning)
                                      - SumFunctionOnSet(payout, Earning)
  BY <1>7 DEF netCents
<1>. QED BY <1>5, <1>6, <1>7, <1>8, <1>9, <1>10, <1>11, <1>12, <1>13

\* The nets of the two kinds of orders the screens see differently.
LEMMA NetOfSales ==
  ASSUME StatementInv
  PROVE  netCents(moneyByMonth) + netCents(MoneyOf(Asked)) - netCents(MoneyOf(Orphan)) = netCents(MoneyOf(Earning))
<1>. DEFINE sales == [o \in Orders |-> Total(o)]
            fees == [o \in Orders |-> SalesFee(o)]
            payout == [o \in Orders |-> PayoutOf(o, Items)]
<1>1. \A o \in Orders : sales[o] = Total(o) /\ fees[o] = SalesFee(o) /\ payout[o] = PayoutOf(o, Items)
  OBVIOUS
<1>. HIDE DEF sales, fees, payout
<1>2. ASSUME NEW T \in SUBSET Orders
      PROVE  /\ \A o \in Orders : sales[o] \in Int /\ fees[o] \in Int /\ payout[o] \in Int
             /\ SumFunctionOnSet(sales, T) \in Int
             /\ SumFunctionOnSet(fees, T) \in Int
             /\ SumFunctionOnSet(payout, T) \in Int
             /\ netCents(MoneyOf(T)) = SumFunctionOnSet(sales, T) - SumFunctionOnSet(fees, T) - SumFunctionOnSet(payout, T)
  <2>1. /\ \A o \in Orders : sales[o] \in Int /\ fees[o] \in Int /\ payout[o] \in Int
        /\ MoneyOf(T).sales = SumFunctionOnSet(sales, T)
        /\ MoneyOf(T).fees = SumFunctionOnSet(fees, T)
        /\ MoneyOf(T).payout = SumFunctionOnSet(payout, T)
        /\ SumFunctionOnSet(sales, T) \in Int
        /\ SumFunctionOnSet(fees, T) \in Int
        /\ SumFunctionOnSet(payout, T) \in Int
    <3>1. MoneyTerms(sales, fees, payout)
      BY <1>1 DEF MoneyTerms
    <3>. QED BY <3>1, MoneyNumbers
  <2>. QED BY <2>1 DEF netCents
<1>3. Captured \in SUBSET Orders /\ Asked \in SUBSET Orders /\ Earning \in SUBSET Orders /\ Orphan \in SUBSET Orders
  BY SoldIsCaptured
<1>4. \A o \in Orders : sales[o] \in Int /\ fees[o] \in Int /\ payout[o] \in Int
  BY <1>2, <1>3
<1>5. SumFunctionOnSet(sales, Captured) + SumFunctionOnSet(sales, Asked)
        = SumFunctionOnSet(sales, Earning) + SumFunctionOnSet(sales, Orphan)
  BY <1>4, SplitsOfSales
<1>6. SumFunctionOnSet(fees, Captured) + SumFunctionOnSet(fees, Asked)
        = SumFunctionOnSet(fees, Earning) + SumFunctionOnSet(fees, Orphan)
  BY <1>4, SplitsOfSales
<1>7. SumFunctionOnSet(payout, Captured) + SumFunctionOnSet(payout, Asked)
        = SumFunctionOnSet(payout, Earning) + SumFunctionOnSet(payout, Orphan)
  BY <1>4, SplitsOfSales
<1>8. netCents(moneyByMonth) = netCents(MoneyOf(Captured))
  BY DEF moneyByMonth
<1>. QED BY <1>2, <1>3, <1>5, <1>6, <1>7, <1>8

\* The monthly statement, the balances of the suppliers, the results of the
\* events and the list at the door agree, for any number of orders, lines and
\* suppliers, in every order of payments, refunds, cancellations and fees: to
\* the cent on sales and payouts, to half a cent per line on the net, but for
\* the refunds being asked for and the orphaned captures.  The total of the
\* payouts tab is the debt of the statement less the credits it nets and less
\* the debt to the suppliers it does not reach.
THEOREM ScreensTellOneStory == StatementSpec => []ScreensAgree
<1>1. StatementInv => ScreensAgree
  <2>. SUFFICES ASSUME StatementInv PROVE ScreensAgree
    OBVIOUS
  <2>. DEFINE Net == SumFunction([i \in Items |-> EventNet(i)])
              Off == Net - (netCents(moneyByMonth) + netCents(MoneyOf(Asked)) - netCents(MoneyOf(Orphan)))
  <2>1. \A i \in Items : listAttendees(i) = [sold |-> listResults(i).sold, checkedIn |-> listResults(i).checkedIn]
    BY ResultsOfEvents
  <2>2. \A active \in SUBSET Suppliers :
          listPayouts(active).balance = payoutsOpenCents
                                          - SumFunction([s \in Suppliers \ Listed |-> Debt(s)])
                                          - SumFunction([s \in Listed |-> Credit(s)])
    BY TabOfPayouts
  <2>3. /\ SumFunction([i \in Items |-> listResults(i).gross]) = MoneyOf(Earning).sales
        /\ SumFunction([s \in Suppliers |-> Earned(s)]) = MoneyOf(Earning).payout
    <3>. DEFINE sales == [o \in Orders |-> Total(o)]
                fees == [o \in Orders |-> SalesFee(o)]
                payout == [o \in Orders |-> PayoutOf(o, Items)]
                gr == [i \in Items |-> listResults(i).gross]
                ea == [s \in Suppliers |-> Earned(s)]
    <3>1. Earning \in SUBSET Orders
      BY SoldIsCaptured
    <3>2. /\ \A o \in Orders : sales[o] = Total(o) /\ fees[o] = SalesFee(o) /\ payout[o] = PayoutOf(o, Items)
          /\ \A o \in Earning : sales[o] = Total(o) /\ payout[o] = PayoutOf(o, Items)
          /\ \A i \in Items : gr[i] = EventGross(i)
          /\ \A s \in Suppliers : ea[s] = Earned(s)
          /\ DOMAIN gr = Items /\ DOMAIN ea = Suppliers
      BY <3>1, ResultsOfEvents
    <3>. HIDE DEF sales, fees, payout, gr, ea
    <3>3. /\ MoneyOf(Earning).sales = SumFunctionOnSet(sales, Earning)
          /\ MoneyOf(Earning).payout = SumFunctionOnSet(payout, Earning)
      <4>1. MoneyTerms(sales, fees, payout)
        BY <3>2 DEF MoneyTerms
      <4>. QED BY <3>1, <4>1, MoneyNumbers
    <3>4. SumFunctionOnSet(gr, Items) = SumFunctionOnSet(sales, Earning)
      BY <3>2, GrossByEvent
    <3>5. SumFunctionOnSet(ea, Suppliers) = SumFunctionOnSet(payout, Earning)
      BY <3>2, EarnedAltogether
    <3>6. SumFunction(gr) = MoneyOf(Earning).sales /\ SumFunction(ea) = MoneyOf(Earning).payout
      BY <3>2, <3>3, <3>4, <3>5 DEF SumFunction
    <3>. QED BY <3>6 DEF gr, ea
  <2>4. MoneyOf((Captured \union Asked) \ Orphan) = MoneyOf(Earning)
    BY SoldIsCaptured
  <2>5. 2 * Off <= LinesSold /\ -2 * Off <= LinesSold
    <3>1. Off = Net - netCents(MoneyOf(Earning))
      BY NetOfSales
    <3>. QED BY <3>1, NetByEvent
  <2>. QED BY <2>1, <2>2, <2>3, <2>4, <2>5, Zenon DEF ScreensAgree, Asked, Orphan, EventNet, LinesSold
<1>. QED BY <1>1, StatementHolds, PTL
=============================================================================
