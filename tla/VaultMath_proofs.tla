-------------------------- MODULE VaultMath_proofs --------------------------
(***************************************************************************)
(* The arithmetic that the contracts' invariants rest on: what an update   *)
(* of one entry does to the sum of all entries, and that both conversions  *)
(* between USDC and shares round against the caller, whatever the amounts; *)
(* and induction over the naturals, in the only form that the provers can  *)
(* use, about sets.                                                        *)
(***************************************************************************)
EXTENDS Storage, ShareMath, FiniteSetTheorems, WellFoundedInduction, TLAPS

\* The least element of a nonempty set of naturals.
LEMMA LeastElement ==
  ASSUME NEW S, S \subseteq Nat, S # {}
  PROVE  \E n \in S : \A m \in S : n <= m
<1> DEFINE T == {1 .. n : n \in S}
<1>1. T \subseteq FiniteSubsetsOf(Nat) /\ T # {}
  <2>1. \A n \in S : IsFiniteSet(1 .. n) /\ 1 .. n \in SUBSET Nat
    BY FS_Interval
  <2>2. \A n \in S : 1 .. n \in FiniteSubsetsOf(Nat)
    BY <2>1 DEF FiniteSubsetsOf
  <2> QED
    BY <2>2
<1>2. IsWellFoundedOn(StrictSubsetOrdering(Nat), FiniteSubsetsOf(Nat))
  BY FS_StrictSubsetOrderingWellFounded
<1>3. PICK x \in T : \A y \in T : ~ (<<y, x>> \in StrictSubsetOrdering(Nat))
  <2> HIDE DEF T
  <2> QED
    BY <1>1, <1>2, WFMin
<1>4. PICK n \in S : x = 1 .. n
  OBVIOUS
<1>5. ASSUME NEW m \in S, m < n PROVE FALSE
  <2>1. 1 .. m \in T /\ 1 .. m \in SUBSET Nat /\ 1 .. n \in SUBSET Nat
    BY <1>5
  <2>2. 1 .. m \subseteq 1 .. n /\ 1 .. m # 1 .. n
    <3>1. n \in 1 .. n /\ n \notin 1 .. m
      BY <1>5
    <3> QED
      BY <1>5, <3>1
  <2>3. <<1 .. m, 1 .. n>> \in StrictSubsetOrdering(Nat)
    BY <2>1, <2>2 DEF StrictSubsetOrdering
  <2> QED
    BY <1>3, <1>4, <2>1, <2>3
<1> QED
  BY <1>5

\* Induction: a set of naturals that holds 0 and the successor of each of its
\* elements holds every natural.
LEMMA SetOfAllNaturals ==
  ASSUME NEW S, 0 \in S, \A n \in Nat : n \in S => n + 1 \in S
  PROVE  Nat \subseteq S
<1> DEFINE Out == Nat \ S
<1>1. SUFFICES ASSUME Out # {} PROVE FALSE
  OBVIOUS
<1>2. PICK n \in Out : \A m \in Out : n <= m
  <2> HIDE DEF Out
  <2>1. Out \subseteq Nat
    BY DEF Out
  <2> QED
    BY <1>1, <2>1, LeastElement
<1>3. n \in Nat /\ n # 0 /\ n - 1 \notin Out /\ n - 1 \in Nat
  BY <1>2
<1> QED
  BY <1>3, n = (n - 1) + 1

\* The greatest element of a nonempty, bounded set of naturals.
LEMMA GreatestElement ==
  ASSUME NEW S, S \subseteq Nat, S # {}, NEW b \in Nat, \A m \in S : m <= b
  PROVE  \E n \in S : \A m \in S : m <= n
<1> DEFINE Bounds == {n \in Nat : \A m \in S : m <= n}
<1>1. PICK n \in Bounds : \A m \in Bounds : n <= m
  <2>1. b \in Bounds
    OBVIOUS
  <2>2. Bounds \subseteq Nat /\ Bounds # {}
    BY <2>1
  <2> HIDE DEF Bounds
  <2> QED
    BY <2>2, LeastElement
<1>2. CASE n \in S
  BY <1>2
<1>3. CASE n \notin S
  <2>1. PICK e \in S : e <= n /\ e # n
    BY <1>3
  <2>2. n - 1 \in Bounds
    BY <1>3, <2>1
  <2> QED
    BY <1>1, <2>2
<1> QED
  BY <1>2, <1>3

-----------------------------------------------------------------------------
\* One entry counts as many units as it holds.
LEMMA UnitsOfOne ==
  ASSUME NEW f, NEW x, f[x] \in Nat
  PROVE  /\ IsFiniteSet(UnitsOf(f, x))
         /\ Cardinality(UnitsOf(f, x)) = f[x]
<1> DEFINE n == f[x]
<1>1. IsFiniteSet({x}) /\ Cardinality({x}) = 1
  BY FS_Singleton
<1>2. IsFiniteSet(1 .. n) /\ Cardinality(1 .. n) = n
  <2>1. n \in Int /\ 1 \in Int
    OBVIOUS
  <2> HIDE DEF n
  <2>2. IsFiniteSet(1 .. n) /\ Cardinality(1 .. n) = IF 1 > n THEN 0 ELSE n - 1 + 1
    BY <2>1, FS_Interval
  <2> QED
    BY <2>2 DEF n
<1>3. IsFiniteSet({x} \X (1 .. n)) /\ Cardinality({x} \X (1 .. n)) = 1 * n
  <2> HIDE DEF n
  <2>1. Cardinality({x} \X (1 .. n)) = Cardinality({x}) * Cardinality(1 .. n)
    BY <1>1, <1>2, FS_Product
  <2>2. IsFiniteSet({x} \X (1 .. n))
    BY <1>1, <1>2, FS_Product
  <2> QED
    BY <1>1, <1>2, <2>1, <2>2
<1>4. QED
  BY <1>3 DEF UnitsOf

\* A finite number of entries counts a finite number of units.
LEMMA UnitsFinite ==
  ASSUME NEW D, IsFiniteSet(D), NEW f \in [D -> Nat]
  PROVE  IsFiniteSet(Units(f)) /\ Total(f) \in Nat
<1> DEFINE Cols == {UnitsOf(f, x) : x \in D}
           col == [x \in D |-> UnitsOf(f, x)]
<1>1. col \in Surjection(D, Cols)
  BY DEF Surjection
<1>2. IsFiniteSet(Cols)
  <2> HIDE DEF col, Cols
  <2> QED
    BY <1>1, FS_Surjection
<1>3. \A c \in Cols : IsFiniteSet(c)
  BY UnitsOfOne
<1>4. Units(f) = UNION Cols
  BY DEF Units
<1>5. IsFiniteSet(Units(f))
  <2> HIDE DEF Cols
  <2> QED
    BY <1>2, <1>3, <1>4, FS_UNION
<1>6. QED
  BY <1>5, FS_CardinalityType DEF Total

\* The units of one entry and those of all the others make up the total.
LEMMA TotalSplits ==
  ASSUME NEW D, IsFiniteSet(D), NEW f \in [D -> Nat], NEW x \in D
  PROVE  LET rest == UNION {UnitsOf(f, y) : y \in D \ {x}}
         IN  /\ IsFiniteSet(rest)
             /\ Total(f) = Cardinality(rest) + f[x]
<1> DEFINE rest == UNION {UnitsOf(f, y) : y \in D \ {x}}
<1>1. Units(f) = rest \cup UnitsOf(f, x)
  BY DEF Units
<1>2. rest \cap UnitsOf(f, x) = {}
  BY DEF UnitsOf
<1>3. IsFiniteSet(rest)
  <2>1. IsFiniteSet(Units(f))
    BY UnitsFinite
  <2>2. rest \in SUBSET Units(f)
    BY <1>1
  <2> QED
    BY <2>1, <2>2, FS_Subset
<1>4. IsFiniteSet(UnitsOf(f, x)) /\ Cardinality(UnitsOf(f, x)) = f[x]
  BY UnitsOfOne
<1>5. Cardinality(rest) \in Nat
  BY <1>3, FS_CardinalityType
<1>6. Total(f) = Cardinality(rest) + f[x] - Cardinality({})
  <2> HIDE DEF rest
  <2> QED
    BY <1>1, <1>2, <1>3, <1>4, FS_Union DEF Total
<1>7. QED
  BY <1>3, <1>5, <1>6, FS_EmptySet

\* Writing one entry changes the sum by the change of that entry.
LEMMA TotalChange ==
  ASSUME NEW D, IsFiniteSet(D), NEW f \in [D -> Nat], NEW g \in [D -> Nat],
         NEW x \in D, \A y \in D \ {x} : g[y] = f[y]
  PROVE  Total(g) = Total(f) - f[x] + g[x]
<1> DEFINE restOf(h) == UNION {UnitsOf(h, y) : y \in D \ {x}}
<1>1. restOf(g) = restOf(f)
  <2>1. \A y \in D \ {x} : UnitsOf(g, y) = UnitsOf(f, y)
    BY DEF UnitsOf
  <2> QED
    BY <2>1
<1>2. Total(f) = Cardinality(restOf(f)) + f[x] /\ IsFiniteSet(restOf(f))
  BY TotalSplits
<1>3. Total(g) = Cardinality(restOf(g)) + g[x]
  BY TotalSplits
<1>4. Cardinality(restOf(f)) \in Nat
  <2> HIDE DEF restOf
  <2> QED
    BY <1>2, FS_CardinalityType
<1>5. f[x] \in Nat /\ g[x] \in Nat
  OBVIOUS
<1> HIDE DEF restOf
<1>6. QED
  BY <1>1, <1>2, <1>3, <1>4, <1>5

\* No entry is larger than the sum.
LEMMA TotalBounds ==
  ASSUME NEW D, IsFiniteSet(D), NEW f \in [D -> Nat], NEW x \in D
  PROVE  f[x] <= Total(f)
<1> DEFINE rest == UNION {UnitsOf(f, y) : y \in D \ {x}}
<1>1. IsFiniteSet(rest) /\ Total(f) = Cardinality(rest) + f[x]
  BY TotalSplits
<1>2. Cardinality(rest) \in Nat
  <2> HIDE DEF rest
  <2> QED
    BY <1>1, FS_CardinalityType
<1>3. QED
  BY <1>1, <1>2

\* When nobody holds anything the sum is zero.
LEMMA TotalOfNothing ==
  ASSUME NEW D, NEW f \in [D -> Nat], \A x \in D : f[x] = 0
  PROVE  Total(f) = 0
<1>1. \A x \in D : UnitsOf(f, x) = {}
  BY DEF UnitsOf
<1>2. Units(f) = {}
  BY <1>1 DEF Units
<1>3. QED
  BY <1>2, FS_EmptySet DEF Total

\* Those in S hold n each, and nobody else in D holds anything.
HoldTheSame(D, S, n, f) ==
  /\ S \subseteq D /\ IsFiniteSet(S) /\ n \in Nat /\ f \in [D -> Nat]
  /\ \A x \in S : f[x] = n
  /\ \A x \in D \ S : f[x] = 0

\* The sum is then a product.
LEMMA TotalOfEqual ==
  ASSUME NEW D, NEW S, NEW n, NEW f, HoldTheSame(D, S, n, f)
  PROVE  Total(f) = Cardinality(S) * n
<1> USE DEF HoldTheSame
<1>1. \A x \in S : UnitsOf(f, x) = {x} \X (1 .. n)
  BY DEF UnitsOf
<1>2. \A x \in D \ S : UnitsOf(f, x) = {}
  BY DEF UnitsOf
<1>3. Units(f) = UNION {UnitsOf(f, x) : x \in S}
  BY <1>2 DEF Units
<1>4. UNION {UnitsOf(f, x) : x \in S} = S \X (1 .. n)
  BY <1>1
<1>5. IsFiniteSet(1 .. n) /\ Cardinality(1 .. n) = n
  <2>1. IsFiniteSet(1 .. n) /\ Cardinality(1 .. n) = IF 1 > n THEN 0 ELSE n - 1 + 1
    BY FS_Interval
  <2> QED
    BY <2>1
<1>6. Cardinality(S \X (1 .. n)) = Cardinality(S) * Cardinality(1 .. n)
  BY <1>5, FS_Product
<1> QED
  BY <1>3, <1>4, <1>5, <1>6 DEF Total

-----------------------------------------------------------------------------
\* A quotient of naturals is the largest whole number of times that the
\* divisor fits.
LEMMA QuotOfNat ==
  ASSUME NEW a \in Nat, NEW b \in Nat \ {0}
  PROVE  /\ Quot(a, b) \in Nat
         /\ Quot(a, b) * b <= a
         /\ a < Quot(a, b) * b + b
<1>1. Quot(a, b) = a \div b
  BY DEF Quot
<1>2. /\ a \div b \in Int
      /\ (a \div b) * b <= a
      /\ a < (a \div b) * b + b
  OBVIOUS
<1>3. a \div b >= 0
  BY <1>2
<1>4. QED
  BY <1>1, <1>2, <1>3

\* A product of naturals is a natural, and products are monotone.
LEMMA ProductOfNat ==
  ASSUME NEW a \in Nat, NEW b \in Nat
  PROVE  a * b \in Nat
OBVIOUS

LEMMA ProductMonotone ==
  ASSUME NEW a \in Int, NEW b \in Int, NEW c \in Nat, a <= b
  PROVE  a * c <= b * c
OBVIOUS

\* deposit: the shares bought are a natural number, worth no more than the
\* deposit, and no more shares than units deposited when a share is worth at
\* least one unit.
LEMMA DepositFair ==
  ASSUME NEW T \in Nat, NEW S \in Nat, NEW a \in Nat, S <= T
  PROVE  LET s == SharesFor(a, T, S)
         IN  /\ s \in Nat
             /\ s <= a
             /\ S # 0 => s * T <= a * S /\ (T + a) * S >= T * (S + s)
<1> DEFINE s == SharesFor(a, T, S)
<1>1. CASE S = 0
  <2>1. s = a
    BY <1>1 DEF SharesFor
  <2> HIDE DEF s
  <2> QED
    BY <1>1, <2>1 DEF s
<1>2. CASE S # 0
  <2>1. T \in Nat \ {0} /\ a * S \in Nat
    BY <1>2, ProductOfNat
  <2>2. s = Quot(a * S, T)
    BY <1>2 DEF SharesFor
  <2>3. s \in Nat /\ s * T <= a * S
    BY <2>1, <2>2, QuotOfNat
  <2>4. a * S <= a * T
    BY ProductMonotone
  <2>5. s <= a
    <3>1. s * T <= a * T
      BY <2>1, <2>3, <2>4
    <3> HIDE DEF s
    <3>2. SUFFICES ASSUME s >= a + 1 PROVE FALSE
      BY <2>3
    <3>3. (a + 1) * T <= s * T
      BY <2>3, <3>2, ProductMonotone
    <3>4. (a + 1) * T = a * T + T
      BY <2>1
    <3>5. a * T \in Nat /\ s * T \in Nat
      BY <2>3, ProductOfNat
    <3> QED
      BY <2>1, <3>1, <3>3, <3>4, <3>5
  <2> HIDE DEF s
  <2>6. (T + a) * S = T * S + a * S /\ T * (S + s) = T * S + s * T
    BY <2>3
  <2>7. s * T \in Int /\ a * S \in Int /\ T * S \in Int
    BY <2>3
  <2> QED
    BY <1>2, <2>3, <2>5, <2>6, <2>7 DEF s
<1>3. QED
  BY <1>1, <1>2

\* withdraw: what a natural number of shares is worth is a natural amount, at
\* most all the assets, and paying it lowers neither the price of the other
\* shares nor their backing.
LEMMA WithdrawFair ==
  ASSUME NEW T \in Nat, NEW S \in Nat \ {0}, NEW s \in Nat, s <= S, S <= T
  PROVE  LET out == UsdcFor(s, T, S)
         IN  /\ out \in Nat
             /\ out <= T
             /\ out * S <= s * T
             /\ (T - out) * S >= T * (S - s)
             /\ T - out >= S - s
<1> DEFINE out == UsdcFor(s, T, S)
<1>1. out \in Nat /\ out * S <= s * T
  BY QuotOfNat, ProductOfNat DEF UsdcFor
<1> HIDE DEF out
<1>2. (T - out) * S = T * S - out * S /\ T * (S - s) = T * S - s * T
  BY <1>1
<1>3. (T - out) * S >= T * (S - s)
  BY <1>1, <1>2
<1>4. T * (S - s) >= S * (S - s)
  BY ProductMonotone, S - s \in Nat
<1>5. T - out >= S - s
  <2> DEFINE x == T - out
             y == S - s
  <2>1. x \in Int /\ y \in Int /\ x * S >= y * S
    BY <1>1, <1>3, <1>4
  <2> HIDE DEF x, y
  <2>2. SUFFICES ASSUME x + 1 <= y PROVE FALSE
    BY <2>1 DEF x, y
  <2>3. (x + 1) * S <= y * S /\ (x + 1) * S = x * S + S
    BY <2>1, <2>2, ProductMonotone
  <2> QED
    BY <2>1, <2>3
<1>6. QED
  BY <1>1, <1>3, <1>5 DEF out

\* withdraw: a negative number of shares is worth a negative amount, never a
\* zero that the token would transfer.
LEMMA NegativeWithdrawRefused ==
  ASSUME NEW T \in Nat, NEW S \in Nat \ {0}, NEW s \in Int, s < 0, S <= T
  PROVE  UsdcFor(s, T, S) < 0
<1> DEFINE n == -s
<1>1. n \in Nat /\ n >= 1
  OBVIOUS
<1>2. n * S <= n * T /\ n * T \in Nat
  BY <1>1, ProductMonotone, ProductOfNat
<1>3. s * T = -(n * T) /\ S <= n * S
  BY <1>1
<1>4. S <= n * T
  BY <1>2, <1>3, <1>1
<1>5. UsdcFor(s, T, S) = -((n * T) \div S)
  BY <1>3, <1>4, <1>2 DEF UsdcFor, Quot
<1>6. (n * T) \div S >= 1
  <2> DEFINE m == n * T
  <2>1. m \in Nat /\ m >= S
    BY <1>2, <1>4
  <2> HIDE DEF m
  <2> QED
    BY <2>1 DEF m
<1>7. QED
  BY <1>5, <1>6, <1>2
=============================================================================
