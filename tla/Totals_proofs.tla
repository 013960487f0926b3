---------------------------- MODULE Totals_proofs ----------------------------
(***************************************************************************)
(* Facts about sums, orderings and rounded divisions, proved once and cited *)
(* by the proofs about the components.                                      *)
(***************************************************************************)
EXTENDS Totals, FiniteSetTheorems, TLAPS

(* The units counted at one point are as many as the function says. *)
LEMMA UnitsAtCount ==
  ASSUME NEW S, NEW f \in [S -> Nat], NEW x \in S
  PROVE  IsFiniteSet(UnitsAt(f, x)) /\ Cardinality(UnitsAt(f, x)) = f[x]
<1>1. IsFiniteSet({x}) /\ Cardinality({x}) = 1
  BY FS_Singleton
<1>2. f[x] \in Nat
  OBVIOUS
<1>3. IsFiniteSet(1 .. f[x]) /\ Cardinality(1 .. f[x]) = f[x]
  BY <1>2, FS_Interval
<1>4. IsFiniteSet({x} \X (1 .. f[x]))
      /\ Cardinality({x} \X (1 .. f[x])) = 1 * f[x]
  BY <1>1, <1>3, FS_Product
<1> QED
  BY <1>2, <1>4 DEF UnitsAt

(* The units counted on a finite part of the domain are finitely many. *)
LEMMA UnitsFinite ==
  ASSUME NEW S, NEW f \in [S -> Nat], NEW P \in SUBSET S, IsFiniteSet(P)
  PROVE  IsFiniteSet(UNION {UnitsAt(f, x) : x \in P})
<1> DEFINE g == [x \in P |-> UnitsAt(f, x)]
           T == {UnitsAt(f, x) : x \in P}
<1>1. g \in Surjection(P, T)
  BY DEF Surjection
<1>2. IsFiniteSet(T)
  BY <1>1, FS_Surjection
<1>3. \A U \in T : IsFiniteSet(U)
  BY UnitsAtCount
<1> QED
  BY <1>2, <1>3, FS_UNION

(* A sum is a natural number. *)
LEMMA TotalType ==
  ASSUME NEW S, IsFiniteSet(S), NEW f \in [S -> Nat]
  PROVE  Total(f) \in Nat
<1>1. DOMAIN f = S
  OBVIOUS
<1> QED
  BY <1>1, UnitsFinite, FS_CardinalityType DEF Total

(* A sum splits into one summand and the sum of the others. *)
LEMMA TotalSplit ==
  ASSUME NEW S, IsFiniteSet(S), NEW f \in [S -> Nat], NEW x \in S
  PROVE  /\ Total(f) = Cardinality(UNION {UnitsAt(f, y) : y \in S \ {x}}) + f[x]
         /\ Cardinality(UNION {UnitsAt(f, y) : y \in S \ {x}}) \in Nat
<1> DEFINE R == UNION {UnitsAt(f, y) : y \in S \ {x}}
<1>1. IsFiniteSet(S \ {x})
  BY FS_Difference
<1>2. IsFiniteSet(R)
  BY <1>1, UnitsFinite
<1>3. IsFiniteSet(UnitsAt(f, x)) /\ Cardinality(UnitsAt(f, x)) = f[x]
  BY UnitsAtCount
<1>4. R \cap UnitsAt(f, x) = {}
  BY DEF UnitsAt
<1>5. UNION {UnitsAt(f, y) : y \in DOMAIN f} = R \cup UnitsAt(f, x)
  OBVIOUS
<1>6. Cardinality(R \cup UnitsAt(f, x)) = Cardinality(R) + f[x] - Cardinality({})
  BY <1>2, <1>3, <1>4, FS_Union
<1>7. Cardinality({}) = 0
  BY FS_EmptySet
<1>8. Cardinality(R) \in Nat
  BY <1>2, FS_CardinalityType
<1>9. f[x] \in Nat
  OBVIOUS
<1>10. Total(f) = Cardinality(R \cup UnitsAt(f, x))
  BY <1>5 DEF Total
<1> HIDE DEF R
<1>11. Total(f) = Cardinality(R) + f[x]
  BY <1>6, <1>7, <1>8, <1>9, <1>10
<1> QED
  BY <1>8, <1>11 DEF R

(* Changing a function at one point changes its sum by as much. *)
LEMMA TotalChange ==
  ASSUME NEW S, IsFiniteSet(S), NEW f \in [S -> Nat], NEW g \in [S -> Nat],
         NEW x \in S, \A y \in S \ {x} : g[y] = f[y]
  PROVE  Total(g) = Total(f) - f[x] + g[x]
<1>1. \A y \in S \ {x} : UnitsAt(g, y) = UnitsAt(f, y)
  BY DEF UnitsAt
<1>2. {UnitsAt(g, y) : y \in S \ {x}} = {UnitsAt(f, y) : y \in S \ {x}}
  BY <1>1
<1> DEFINE c == Cardinality(UNION {UnitsAt(f, y) : y \in S \ {x}})
<1>3. Total(f) = c + f[x] /\ c \in Nat
  BY TotalSplit
<1>4. Total(g) = Cardinality(UNION {UnitsAt(g, y) : y \in S \ {x}}) + g[x]
  BY TotalSplit
<1>6. Total(g) = c + g[x]
  BY <1>2, <1>4
<1>5. f[x] \in Nat /\ g[x] \in Nat
  OBVIOUS
<1> HIDE DEF c
<1> QED
  BY <1>3, <1>5, <1>6

(* No summand exceeds its sum. *)
LEMMA TotalBoundsEach ==
  ASSUME NEW S, IsFiniteSet(S), NEW f \in [S -> Nat], NEW x \in S
  PROVE  f[x] <= Total(f)
<1>1. f[x] \in Nat
  OBVIOUS
<1> DEFINE c == Cardinality(UNION {UnitsAt(f, y) : y \in S \ {x}})
<1>2. Total(f) = c + f[x] /\ c \in Nat
  BY TotalSplit
<1> HIDE DEF c
<1> QED
  BY <1>1, <1>2

(* The sum of zeros is zero. *)
LEMMA TotalZero ==
  ASSUME NEW S, NEW f \in [S -> Nat], \A x \in S : f[x] = 0
  PROVE  Total(f) = 0
<1>1. \A x \in S : UnitsAt(f, x) = {}
  BY DEF UnitsAt
<1>2. UNION {UnitsAt(f, x) : x \in DOMAIN f} = {}
  BY <1>1
<1> QED
  BY <1>2, FS_EmptySet DEF Total

(* Moving v from one point to another leaves the sum as it was. *)
LEMMA TotalMove ==
  ASSUME NEW S, IsFiniteSet(S), NEW f \in [S -> Nat], NEW g \in [S -> Nat],
         NEW x \in S, NEW y \in S, NEW v \in Nat, x # y,
         g[x] = f[x] - v, g[y] = f[y] + v,
         \A z \in S \ {x, y} : g[z] = f[z]
  PROVE  Total(g) = Total(f)
<1> DEFINE h == [z \in S |-> IF z = x THEN g[x] ELSE f[z]]
<1>1. h \in [S -> Nat]
  OBVIOUS
<1>2. Total(h) = Total(f) - f[x] + g[x]
  BY <1>1, TotalChange, h[x] = g[x], \A z \in S \ {x} : h[z] = f[z]
<1>3. Total(g) = Total(h) - f[y] + g[y]
  BY <1>1, TotalChange, h[y] = f[y], \A z \in S \ {y} : g[z] = h[z]
<1>4. Total(f) \in Nat /\ Total(h) \in Nat
  BY <1>1, TotalType
<1>5. f[x] \in Nat /\ f[y] \in Nat
  OBVIOUS
<1> QED
  BY <1>2, <1>3, <1>4, <1>5

-----------------------------------------------------------------------------
(* A strict total order numbers a finite set: the place of an element is how
   many come before it. *)
LEMMA Ranks ==
  ASSUME NEW S, IsFiniteSet(S), NEW R,
         \A x, y \in S : x # y => <<x, y>> \in R \/ <<y, x>> \in R,
         \A x \in S : <<x, x>> \notin R,
         \A x, y, z \in S : <<x, y>> \in R /\ <<y, z>> \in R => <<x, z>> \in R
  PROVE  \E s \in [1 .. Cardinality(S) -> S] :
           \A i, j \in 1 .. Cardinality(S) : i < j => <<s[i], s[j]>> \in R
<1> DEFINE Below(x) == {y \in S : <<y, x>> \in R}
           n == Cardinality(S)
           rank == [x \in S |-> Cardinality(Below(x)) + 1]
<1>1. n \in Nat
  BY FS_CardinalityType
<1>2. ASSUME NEW x \in S
      PROVE  Cardinality(Below(x)) \in Nat /\ Cardinality(Below(x)) < n /\ IsFiniteSet(Below(x))
  <2>1. Below(x) \in SUBSET S /\ Below(x) # S
    OBVIOUS
  <2>2. IsFiniteSet(Below(x)) /\ Cardinality(Below(x)) <= n /\ (n = Cardinality(Below(x)) => S = Below(x))
    BY <2>1, FS_Subset
  <2>3. Cardinality(Below(x)) \in Nat
    BY <2>2, FS_CardinalityType
  <2> HIDE DEF Below, n
  <2> QED
    BY <1>1, <2>1, <2>2, <2>3
<1>3. ASSUME NEW x \in S, NEW y \in S, <<x, y>> \in R
      PROVE  rank[x] < rank[y]
  <2>1. Below(x) \in SUBSET Below(y) /\ Below(x) # Below(y)
    BY <1>3
  <2>2. Cardinality(Below(x)) <= Cardinality(Below(y))
        /\ (Cardinality(Below(y)) = Cardinality(Below(x)) => Below(y) = Below(x))
    BY <1>2, <2>1, FS_Subset
  <2>3. rank[x] = Cardinality(Below(x)) + 1 /\ rank[y] = Cardinality(Below(y)) + 1
    OBVIOUS
  <2>4. Cardinality(Below(x)) \in Nat /\ Cardinality(Below(y)) \in Nat
    BY <1>2
  <2> HIDE DEF Below, n, rank
  <2> QED
    BY <2>1, <2>2, <2>3, <2>4
<1>4. rank \in [S -> 1 .. n]
  <2>1. \A x \in S : Cardinality(Below(x)) + 1 \in 1 .. n
    <3> TAKE x \in S
    <3>1. Cardinality(Below(x)) \in Nat /\ Cardinality(Below(x)) < n
      BY <1>2
    <3> HIDE DEF Below, n
    <3> QED
      BY <1>1, <3>1
  <2> QED
    BY <2>1
<1>5. \A x, y \in S : rank[x] = rank[y] => x = y
  <2> HIDE DEF rank
  <2> SUFFICES ASSUME NEW x \in S, NEW y \in S, x # y PROVE rank[x] # rank[y]
    OBVIOUS
  <2>1. rank[x] < rank[y] \/ rank[y] < rank[x]
    BY <1>3
  <2>2. rank[x] \in Int /\ rank[y] \in Int
    BY <1>4
  <2> QED
    BY <2>1, <2>2
<1>6. rank \in Injection(S, 1 .. n)
  <2> HIDE DEF rank
  <2> QED
    BY <1>4, <1>5 DEF Injection, IsInjective
<1>7. IsFiniteSet(1 .. n) /\ Cardinality(1 .. n) = n
  BY <1>1, FS_Interval
<1>8. rank \in Surjection(S, 1 .. n)
  <2> HIDE DEF rank
  <2> QED
    BY <1>6, <1>7, FS_Injection
<1>9. \A i \in 1 .. n : \E x \in S : rank[x] = i
  <2> HIDE DEF rank
  <2> QED
    BY <1>8 DEF Surjection
<1> DEFINE s == [i \in 1 .. n |-> CHOOSE x \in S : rank[x] = i]
<1>10. \A i \in 1 .. n : s[i] \in S /\ rank[s[i]] = i
  <2> HIDE DEF rank
  <2> QED
    BY <1>9
<1>11. s \in [1 .. n -> S]
  <2>1. \A i \in 1 .. n : (CHOOSE x \in S : rank[x] = i) \in S
    <3> HIDE DEF rank
    <3> QED BY <1>9
  <2> HIDE DEF rank
  <2> QED BY <2>1
<1>12. \A i, j \in 1 .. n : i < j => <<s[i], s[j]>> \in R
  <2> SUFFICES ASSUME NEW i \in 1 .. n, NEW j \in 1 .. n, i < j, <<s[i], s[j]>> \notin R
               PROVE  FALSE
    OBVIOUS
  <2>1. s[i] \in S /\ s[j] \in S /\ rank[s[i]] = i /\ rank[s[j]] = j
    BY <1>10
  <2> HIDE DEF rank, s, n
  <2>2. s[i] # s[j]
    BY <1>1, <2>1
  <2>3. <<s[j], s[i]>> \in R
    BY <2>1, <2>2
  <2>4. rank[s[j]] < rank[s[i]]
    BY <2>1, <2>3, <1>3
  <2> QED
    BY <2>1, <2>4, <1>1
<1> HIDE DEF s
<1> QED
  BY <1>11, <1>12

(* A sequence that follows a strict order names every element of a set of its
   length, once. *)
NoneTwice(s, S) ==
  s \in [1 .. Cardinality(S) -> S] /\ \A i, j \in 1 .. Cardinality(S) : i < j => s[i] # s[j]
Lists(s, S) ==
  /\ \A i, j \in 1 .. Cardinality(S) : s[i] = s[j] => i = j
  /\ \A x \in S : \E i \in 1 .. Cardinality(S) : s[i] = x

LEMMA OrderedAreAll ==
  ASSUME NEW S, IsFiniteSet(S), NEW s, NoneTwice(s, S)
  PROVE  Lists(s, S)
<1> DEFINE n == Cardinality(S)
<1> USE DEF NoneTwice
<1>1. n \in Nat
  BY FS_CardinalityType
<1>2. \A i, j \in 1 .. n : s[i] = s[j] => i = j
  <2> HIDE DEF n
  <2> SUFFICES ASSUME NEW i \in 1 .. n, NEW j \in 1 .. n, i # j PROVE s[i] # s[j]
    OBVIOUS
  <2>1. i < j \/ j < i
    BY <1>1
  <2> QED
    BY <2>1 DEF n
<1>3. s \in Injection(1 .. n, S)
  BY <1>2 DEF Injection, IsInjective
<1>4. Cardinality(1 .. n) = n
  BY <1>1, FS_Interval
<1>5. s \in Surjection(1 .. n, S)
  BY <1>3, <1>4, FS_Injection
<1>6. \A x \in S : \E i \in 1 .. n : s[i] = x
  BY <1>5 DEF Surjection
<1> QED
  BY <1>2, <1>6 DEF Lists

(* Numbers are listed smallest first, each once. *)
LEMMA AscendingLists ==
  ASSUME NEW S \in SUBSET Int, IsFiniteSet(S)
  PROVE  /\ Cardinality(S) \in Nat
         /\ Ascending(S) \in [1 .. Cardinality(S) -> S]
         /\ \A i, j \in 1 .. Cardinality(S) : i < j => Ascending(S)[i] < Ascending(S)[j]
         /\ \A i, j \in 1 .. Cardinality(S) : Ascending(S)[i] = Ascending(S)[j] => i = j
         /\ \A x \in S : \E i \in 1 .. Cardinality(S) : Ascending(S)[i] = x
<1> DEFINE R == {p \in S \X S : p[1] < p[2]}
           n == Cardinality(S)
           s == Ascending(S)
<1>1. n \in Nat
  BY FS_CardinalityType
<1>2. \A x, y \in S : <<x, y>> \in R <=> x < y
  OBVIOUS
<1>3. \E t \in [1 .. n -> S] : \A i, j \in 1 .. n : i < j => <<t[i], t[j]>> \in R
  <2>1. \A x, y \in S : x # y => <<x, y>> \in R \/ <<y, x>> \in R
    BY <1>2
  <2>2. \A x \in S : <<x, x>> \notin R
    BY <1>2
  <2>3. \A x, y, z \in S : <<x, y>> \in R /\ <<y, z>> \in R => <<x, z>> \in R
    BY <1>2
  <2> HIDE DEF R
  <2> QED
    BY <2>1, <2>2, <2>3, Ranks
<1>4. \E t \in [1 .. n -> S] : \A i, j \in 1 .. n : i < j => t[i] < t[j]
  <2>1. PICK t \in [1 .. n -> S] : \A i, j \in 1 .. n : i < j => <<t[i], t[j]>> \in R
    BY <1>3
  <2>2. \A i, j \in 1 .. n : i < j => t[i] < t[j]
    BY <2>1, <1>2
  <2> QED
    BY <2>2
<1>5. s = CHOOSE t \in [1 .. n -> S] : \A i, j \in 1 .. n : i < j => t[i] < t[j]
  BY DEF Ascending, Ordered
<1>6. s \in [1 .. n -> S] /\ \A i, j \in 1 .. n : i < j => s[i] < s[j]
  <2> HIDE DEF s, n
  <2> QED
    BY <1>4, <1>5
<1>7. \A i, j \in 1 .. n : i < j => s[i] # s[j]
  <2> HIDE DEF s, n
  <2> TAKE i, j \in 1 .. n
  <2>1. s[i] \in S /\ s[j] \in S
    BY <1>6
  <2>2. s[i] \in Int /\ s[j] \in Int
    BY <2>1
  <2> QED
    BY <1>6, <2>2
<1>8. /\ \A i, j \in 1 .. n : s[i] = s[j] => i = j
      /\ \A x \in S : \E i \in 1 .. n : s[i] = x
  <2> HIDE DEF s
  <2>1. NoneTwice(s, S)
    BY ONLY <1>6, <1>7 DEF NoneTwice
  <2>2. Lists(s, S)
    BY ONLY <2>1, IsFiniteSet(S), OrderedAreAll
  <2> QED
    BY ONLY <2>2 DEF Lists
<1> QED
  BY <1>1, <1>6, <1>8

-----------------------------------------------------------------------------
(* A product of naturals divided down is the largest natural below the exact
   quotient. *)
LEMMA FloorBounds ==
  ASSUME NEW a \in Nat, NEW b \in Nat, NEW d \in Nat \ {0}
  PROVE  /\ MulDivFloor(a, b, d) \in Nat
         /\ MulDivFloor(a, b, d) * d <= a * b
         /\ a * b < MulDivFloor(a, b, d) * d + d
<1>1. a * b \in Nat
  OBVIOUS
<1>2. \A n \in Nat : /\ n \div d \in Nat
                      /\ (n \div d) * d <= n
                      /\ n < (n \div d) * d + d
  OBVIOUS
<1> QED
  BY <1>1, <1>2 DEF MulDivFloor

(* A product divided up is the smallest natural above the exact quotient. *)
LEMMA CeilBounds ==
  ASSUME NEW a \in Nat, NEW b \in Nat, NEW d \in Nat \ {0}
  PROVE  /\ MulDivCeil(a, b, d) \in Nat
         /\ a * b <= MulDivCeil(a, b, d) * d
         /\ MulDivCeil(a, b, d) * d < a * b + d
<1>1. a * b \in Nat
  OBVIOUS
<1>2. \A n \in Nat : LET c == (n + d - 1) \div d
                     IN  c \in Nat /\ n <= c * d /\ c * d < n + d
  <2> TAKE n \in Nat
  <2>1. n + d - 1 \in Nat
    OBVIOUS
  <2>2. \A m \in Nat : /\ m \div d \in Nat
                        /\ (m \div d) * d <= m
                        /\ m < (m \div d) * d + d
    OBVIOUS
  <2> QED
    BY <2>1, <2>2
<1> QED
  BY <1>1, <1>2 DEF MulDivCeil

(* Paying k units at the rate a / n, rounded down, leaves the pot covering the
   units that remain: the arithmetic behind claim. *)
LEMMA RedeemKeepsCover ==
  ASSUME NEW a \in Nat, NEW n \in Nat \ {0}, NEW p \in Nat,
         NEW u \in Nat, NEW v \in Nat, v <= u,
         a * u <= p * n
  PROVE  /\ p - MulDivFloor(a, u - v, n) \in Nat
         /\ a * v <= (p - MulDivFloor(a, u - v, n)) * n
<1> DEFINE k == u - v
           f == MulDivFloor(a, k, n)
<1>1. k \in Nat
  OBVIOUS
<1>2. f \in Nat /\ f * n <= a * k
  BY <1>1, FloorBounds
<1>3. a * k = a * u - a * v
  OBVIOUS
<1> HIDE DEF f, k
<1>4. (p - f) * n = p * n - f * n
  BY <1>2
<1>5. a * v \in Nat /\ a * u \in Nat /\ p * n \in Nat /\ f * n \in Nat
  BY <1>2
<1>6. a * v <= (p - f) * n
  BY <1>2, <1>3, <1>4, <1>5
<1>7. 0 <= (p - f) * n
  BY <1>5, <1>6, <1>2
<1>8. p - f \in Nat
  BY <1>2, <1>7
<1> QED
  BY <1>6, <1>8 DEF f, k
=============================================================================
