-------------------------- MODULE KeyMaterialProofs --------------------------
(***************************************************************************)
(* For every prime order, vault, genesis and history of dealings and        *)
(* installations: a key epoch names its material, the sharings that a       *)
(* device has installed from different blocks lead to the stable keys, the  *)
(* shares lie on them, level devices deal the keys and accept one another's *)
(* offers, and devices that have accepted a round sign.                     *)
(*                                                                          *)
(* The first half is the algebra behind it: arithmetic modulo a prime, sums *)
(* and products over finite sets, Horner's rule, Lagrange interpolation at  *)
(* zero and the signing equations. Induction over numbers and over the      *)
(* subsets of a finite set comes from the least number principle, with a    *)
(* set in place of a predicate.                                             *)
(***************************************************************************)
EXTENDS KeyMaterial, WellFoundedInduction, FiniteSetTheorems, TLAPS

-----------------------------------------------------------------------------
(* Induction *)

\* Every nonempty set of numbers has a least one.
LEMMA LeastNatural ==
    ASSUME NEW T \in SUBSET Nat, T # {}
    PROVE  \E n \in T : \A m \in T : n <= m
PROOF
  <1> DEFINE Less == {ss \in Nat \X Nat : ss[1] < ss[2]}
  <1>1. IsWellFoundedOn(Less, Nat)
    BY NatLessThanWellFounded DEF OpToRel
  <1>2. PICK n \in T : \A m \in T : ~ (<<m, n>> \in Less)
    <2> HIDE DEF Less
    <2> QED BY <1>1, WFMin
  <1>3. \A m \in T : ~ (m < n)
    BY <1>2
  <1> QED
    BY <1>3

\* A number is a multiple of the order and a scalar remainder.
LEMMA Remainder ==
    ASSUME NEW x \in Int
    PROVE  /\ x % Q \in Scalar
           /\ \E k \in Int : x = k * Q + (x % Q)
PROOF
  <1>1. x % Q \in 0..(Q-1)
    BY PrimeOrder
  <1>2. x = (x \div Q) * Q + (x % Q) /\ x \div Q \in Int
    BY PrimeOrder
  <1> QED BY <1>1, <1>2 DEF Scalar

\* The remainder is the only scalar to say that of.
LEMMA RemainderUnique ==
    ASSUME NEW r \in Scalar, NEW s \in Scalar, NEW k \in Int, NEW m \in Int,
           k * Q + r = m * Q + s
    PROVE  r = s
PROOF
  <1>0. Q \in Nat /\ Q > 2 /\ r \in Int /\ s \in Int /\ 0 <= r /\ r < Q /\ 0 <= s /\ s < Q
    BY PrimeOrder DEF Scalar
  <1>1. (k - m) * Q = s - r
    BY <1>0
  <1>2. CASE k - m >= 1
    <2>1. (k - m) * Q >= Q
      BY <1>0, <1>2
    <2> QED BY <1>0, <1>1, <2>1
  <1>3. CASE k - m <= -1
    <2>1. (k - m) * Q <= -Q
      BY <1>0, <1>3
    <2> QED BY <1>0, <1>1, <2>1
  <1>4. CASE k = m
    BY <1>0, <1>1, <1>4
  <1> QED BY <1>2, <1>3, <1>4

\* Equal modulo the order.
Cong(x, y) == x % Q = y % Q

\* Collecting multiples.
LEMMA Multiples ==
    ASSUME NEW q \in Int, NEW a \in Int, NEW b \in Int, NEW k \in Int,
           NEW r \in Int, NEW s \in Int, a * q + r = b * q + s + k * q
    PROVE  a * q + r = (b + k) * q + s
OBVIOUS

\* Numbers that differ by a multiple of the order are congruent.
LEMMA CongMultiple ==
    ASSUME NEW x \in Int, NEW y \in Int, NEW k \in Int, x = y + k * Q
    PROVE  Cong(x, y)
PROOF
  <1>1. PICK a \in Int : x = a * Q + (x % Q)
    BY Remainder
  <1>2. PICK b \in Int : y = b * Q + (y % Q)
    BY Remainder
  <1>3. x % Q \in Scalar /\ y % Q \in Scalar
    BY Remainder
  <1>4. x % Q \in Int /\ y % Q \in Int /\ Q \in Int
    BY <1>3, PrimeOrder DEF Scalar
  <1> DEFINE r == x % Q
             s == y % Q
  <1>5. /\ r \in Int /\ s \in Int /\ r \in Scalar /\ s \in Scalar
        /\ a * Q + r = b * Q + s + k * Q
    BY <1>1, <1>2, <1>3, <1>4, Zenon
  <1> HIDE DEF r, s
  <1>6. a * Q + r = (b + k) * Q + s
    BY <1>4, <1>5, Multiples
  <1>7. b + k \in Int
    OBVIOUS
  <1>8. r = s
    BY <1>5, <1>6, <1>7, RemainderUnique, Zenon
  <1> QED
    BY <1>8 DEF r, s, Cong

\* Congruent numbers differ by a multiple of the order.
LEMMA CongDiffers ==
    ASSUME NEW x \in Int, NEW y \in Int, Cong(x, y)
    PROVE  \E k \in Int : x = y + k * Q
PROOF
  <1>1. PICK a \in Int : x = a * Q + (x % Q)
    BY Remainder
  <1>2. PICK b \in Int : y = b * Q + (y % Q)
    BY Remainder
  <1>3. x % Q \in Int /\ x % Q = y % Q /\ Q \in Int
    BY Remainder, PrimeOrder DEF Scalar, Cong
  <1> DEFINE r == x % Q
  <1>4. r \in Int /\ x = a * Q + r /\ y = b * Q + r
    BY <1>1, <1>2, <1>3, Zenon
  <1> HIDE DEF r
  <1>5. a - b \in Int /\ x = y + (a - b) * Q
    BY <1>3, <1>4
  <1> QED
    BY <1>5

\* Congruence is an equivalence.
LEMMA CongLaws ==
    /\ \A x : Cong(x, x)
    /\ \A x, y : Cong(x, y) => Cong(y, x)
    /\ \A x, y, z : Cong(x, y) /\ Cong(y, z) => Cong(x, z)
BY DEF Cong

\* Congruent scalars are equal.
LEMMA CongScalar ==
    ASSUME NEW x \in Scalar, NEW y \in Scalar, Cong(x, y)
    PROVE  x = y
PROOF
  <1>1. x \in Int /\ y \in Int /\ Q \in Int
    BY PrimeOrder DEF Scalar
  <1>2. PICK k \in Int : x = y + k * Q
    BY <1>1, CongDiffers
  <1>3. 0 * Q + x = k * Q + y
    BY <1>1, <1>2
  <1> QED
    BY <1>3, RemainderUnique

\* The remainder is one of the numbers it is congruent to.
LEMMA CongRemainder ==
    ASSUME NEW x \in Int
    PROVE  x % Q \in Scalar /\ x % Q \in Int /\ Cong(x % Q, x)
PROOF
  <1>1. PICK k \in Int : x = k * Q + (x % Q)
    BY Remainder
  <1>2. x % Q \in Scalar /\ x % Q \in Int /\ Q \in Int
    BY Remainder, PrimeOrder DEF Scalar
  <1> DEFINE r == x % Q
  <1>3. r \in Int /\ x = k * Q + r
    BY <1>1, <1>2, Zenon
  <1> HIDE DEF r
  <1>4. -k \in Int /\ r = x + (-k) * Q
    BY <1>2, <1>3
  <1>5. Cong(r, x)
    BY <1>3, <1>4, CongMultiple
  <1> QED
    BY <1>2, <1>5 DEF r

\* The product of two multiples and remainders.
LEMMA Products ==
    ASSUME NEW q \in Int, NEW a \in Int, NEW b \in Int, NEW c \in Int,
           NEW d \in Int, NEW k \in Int, NEW m \in Int,
           a = c + k * q, b = d + m * q
    PROVE  /\ a + b = (c + d) + (k + m) * q
           /\ a - b = (c - d) + (k - m) * q
           /\ a * b = c * d + (c * m + k * d + (k * m) * q) * q
PROOF
  <1>1. a + b = (c + d) + (k + m) * q /\ a - b = (c - d) + (k - m) * q
    OBVIOUS
  <1>2. (c + k * q) * (d + m * q) = c * d + (c * m + k * d + (k * m) * q) * q
    OBVIOUS
  <1> QED
    BY <1>1, <1>2

\* Congruence respects the integer operations.
LEMMA CongOps ==
    ASSUME NEW a \in Int, NEW b \in Int, NEW c \in Int, NEW d \in Int,
           Cong(a, c), Cong(b, d)
    PROVE  Cong(a + b, c + d) /\ Cong(a - b, c - d) /\ Cong(a * b, c * d)
PROOF
  <1>1. PICK k \in Int : a = c + k * Q
    BY CongDiffers
  <1>2. PICK m \in Int : b = d + m * Q
    BY CongDiffers
  <1>3. Q \in Int
    BY PrimeOrder
  <1>4. /\ a + b = (c + d) + (k + m) * Q
        /\ a - b = (c - d) + (k - m) * Q
        /\ a * b = c * d + (c * m + k * d + (k * m) * Q) * Q
    BY <1>1, <1>2, <1>3, Products
  <1> DEFINE n == c * m + k * d + (k * m) * Q
  <1>5. /\ k + m \in Int /\ k - m \in Int /\ n \in Int
        /\ a + b \in Int /\ a - b \in Int /\ a * b \in Int
        /\ c + d \in Int /\ c - d \in Int /\ c * d \in Int
    BY <1>3
  <1>6. a * b = c * d + n * Q
    BY <1>4
  <1> HIDE DEF n
  <1>7. Cong(a + b, c + d)
    BY <1>4, <1>5, CongMultiple
  <1>8. Cong(a - b, c - d)
    BY <1>4, <1>5, CongMultiple
  <1>9. Cong(a * b, c * d)
    BY <1>5, <1>6, CongMultiple
  <1> QED
    BY <1>7, <1>8, <1>9

\* The field's operations stand for those of the integers.
LEMMA FieldOps ==
    ASSUME NEW a \in Int, NEW b \in Int, NEW c \in Int, NEW d \in Int,
           Cong(a, c), Cong(b, d)
    PROVE  /\ Add(a, b) \in Scalar /\ Cong(Add(a, b), c + d)
           /\ Sub(a, b) \in Scalar /\ Cong(Sub(a, b), c - d)
           /\ Mul(a, b) \in Scalar /\ Cong(Mul(a, b), c * d)
PROOF
  <1>1. Cong(a + b, c + d) /\ Cong(a - b, c - d) /\ Cong(a * b, c * d)
    BY CongOps
  <1>2. /\ Add(a, b) \in Scalar /\ Cong(Add(a, b), a + b)
        /\ Sub(a, b) \in Scalar /\ Cong(Sub(a, b), a - b)
        /\ Mul(a, b) \in Scalar /\ Cong(Mul(a, b), a * b)
    <2>1. a + b \in Int /\ a - b \in Int /\ a * b \in Int
      OBVIOUS
    <2> QED
      BY <2>1, CongRemainder DEF Add, Sub, Mul
  <1> QED
    BY <1>1, <1>2, CongLaws, Zenon

\* Congruence respects scaling.
LEMMA CongScale ==
    ASSUME NEW a \in Int, NEW b \in Int, NEW c \in Int, Cong(a, b)
    PROVE  Cong(c * a, c * b)
PROOF
  <1>1. Cong(c, c)
    BY CongLaws
  <1> QED
    BY <1>1, CongOps, Zenon

\* The field operations are congruent to the integer ones.
LEMMA FieldIs ==
    ASSUME NEW a \in Int, NEW b \in Int
    PROVE  /\ Add(a, b) \in Scalar /\ Cong(Add(a, b), a + b)
           /\ Sub(a, b) \in Scalar /\ Cong(Sub(a, b), a - b)
           /\ Mul(a, b) \in Scalar /\ Cong(Mul(a, b), a * b)
PROOF
  <1>1. Cong(a, a) /\ Cong(b, b)
    BY CongLaws
  <1> QED
    BY <1>1, FieldOps, Zenon

\* Scalars are integers.
LEMMA Scalars ==
    /\ Scalar \subseteq Int
    /\ 0 \in Scalar /\ 1 \in Scalar
BY PrimeOrder DEF Scalar

\* Division by any positive number.
LEMMA Division ==
    ASSUME NEW n \in Nat, n > 0, NEW x \in Int
    PROVE  \E k \in Int, r \in 0..(n - 1) : x = k * n + r /\ r = x % n
PROOF
  <1>1. x % n \in 0..(n - 1)
    OBVIOUS
  <1>2. x = (x \div n) * n + (x % n) /\ x \div n \in Int
    OBVIOUS
  <1> QED
    BY <1>1, <1>2

\* Every number but the multiples of the prime order has an inverse.
LEMMA FieldInverse ==
    ASSUME NEW a \in Int, ~Cong(a, 0)
    PROVE  Invert(a) \in Scalar /\ Cong(a * Invert(a), 1)
PROOF
  <1> DEFINE T == {n \in Nat \ {0} : \E b \in Int : Cong(a * b, n)}
  <1>1. Q \in Nat /\ Q > 2 /\ Q \in Int
    BY PrimeOrder
  <1>2. a % Q \in T /\ a % Q < Q
    <2>1. a % Q \in Scalar /\ a % Q \in Int /\ Cong(a % Q, a)
      BY CongRemainder
    <2>2. a % Q # 0
      BY <2>1, CongLaws
    <2>3. Cong(a * 1, a % Q)
      <3>1. a * 1 = a
        OBVIOUS
      <3> QED
        BY <2>1, <3>1, CongLaws
    <2> QED
      BY <1>1, <2>1, <2>2, <2>3 DEF Scalar
  <1>3. PICK n \in T : \A m \in T : n <= m
    <2> HIDE DEF T
    <2>1. T \in SUBSET Nat
      BY DEF T
    <2> QED
      BY <1>2, <2>1, LeastNatural
  <1>4. n \in Nat /\ n > 0 /\ n < Q
    <2>1. n \in Nat /\ n # 0 /\ n <= a % Q /\ a % Q < Q
      BY <1>2, <1>3
    <2>2. a % Q \in Int
      BY CongRemainder
    <2> QED
      BY <1>1, <2>1, <2>2
  <1>5. PICK b \in Int : Cong(a * b, n)
    BY <1>3
  <1>6. PICK k \in Int, r \in 0..(n - 1) : Q = k * n + r /\ r = Q % n
    BY <1>1, <1>4, Division
  <1>7. r = 0
    <2> SUFFICES ASSUME r # 0 PROVE FALSE
      OBVIOUS
    <2>1. a * b \in Int /\ n \in Int /\ r \in Int
      BY <1>4
    <2>2. PICK m \in Int : a * b = n + m * Q
      BY <1>5, <2>1, CongDiffers
    <2>3. a * (-(k * b)) = r + (-1 - k * m) * Q
      <3>1. Q = k * n + r
        BY <1>6
      <3> HIDE DEF T
      <3>2. a * (-(k * b)) = -(k * (a * b))
        OBVIOUS
      <3>3. k * (a * b) = k * n + (k * m) * Q
        BY <1>1, <2>1, <2>2
      <3>4. k * n = Q - r
        BY <1>1, <2>1, <3>1
      <3>5. (-1 - k * m) * Q = -Q - (k * m) * Q
        BY <1>1
      <3> QED
        BY <1>1, <2>1, <3>2, <3>3, <3>4, <3>5
    <2>4. /\ -(k * b) \in Int /\ a * (-(k * b)) \in Int
          /\ -1 - k * m \in Int
      OBVIOUS
    <2>5. Cong(a * (-(k * b)), r)
      BY <2>1, <2>3, <2>4, CongMultiple
    <2>6. r \in T
      <3>1. r \in Nat \ {0}
        BY <1>4
      <3> QED
        BY <2>4, <2>5, <3>1, Zenon
    <2>7. n <= r /\ r < n
      BY <1>3, <1>4, <2>6
    <2> QED
      BY <1>4, <2>1, <2>7
  <1>8. n = 1
    <2>1. Q % n = 0
      BY <1>6, <1>7
    <2>2. n \notin 2..(Q - 1)
      BY <2>1, PrimeOrder
    <2> QED
      BY <1>1, <1>4, <2>2
  <1>9. \E c \in Scalar : Mul(a, c) = 1
    <2>1. b % Q \in Scalar /\ b % Q \in Int /\ Cong(b % Q, b)
      BY CongRemainder
    <2>2. Mul(a, b % Q) \in Scalar /\ Cong(Mul(a, b % Q), a * b)
      BY <2>1, CongLaws, FieldOps
    <2>3. Cong(Mul(a, b % Q), 1)
      BY <1>5, <1>8, <2>2, CongLaws
    <2>4. Mul(a, b % Q) = 1
      BY <2>2, <2>3, Scalars, CongScalar
    <2> QED
      BY <2>1, <2>4
  <1>10. Invert(a) \in Scalar /\ Mul(a, Invert(a)) = 1
    BY <1>9 DEF Invert
  <1>11. Cong(Mul(a, Invert(a)), a * Invert(a))
    BY <1>10, Scalars, CongLaws, FieldOps
  <1> QED
    BY <1>10, <1>11, CongLaws

\* Induction over the numbers of a set.
LEMMA NatSetInduction ==
    ASSUME NEW T, 0 \in T, \A n \in Nat : n \in T => n + 1 \in T
    PROVE  \A n \in Nat : n \in T
PROOF
  <1> SUFFICES ASSUME Nat \ T # {} PROVE FALSE
    OBVIOUS
  <1>1. PICK n \in Nat \ T : \A m \in Nat \ T : n <= m
    BY LeastNatural
  <1>2. n # 0
    OBVIOUS
  <1>3. n - 1 \in Nat /\ n - 1 \in T
    BY <1>1, <1>2
  <1> QED
    BY <1>3

\* Induction over the subsets of a finite set.
LEMMA SubsetInduction ==
    ASSUME NEW D, IsFiniteSet(D), NEW T,
           \A s \in SUBSET D : (\A a \in s : s \ {a} \in T) => s \in T
    PROVE  \A s \in SUBSET D : s \in T
PROOF
  <1> DEFINE N == {n \in Nat : \A s \in SUBSET D : Cardinality(s) = n => s \in T}
  <1>1. \A s \in SUBSET D : IsFiniteSet(s) /\ Cardinality(s) \in Nat
    BY FS_Subset, FS_CardinalityType
  <1>2. 0 \in N
    <2>1. ASSUME NEW s \in SUBSET D, Cardinality(s) = 0 PROVE s \in T
      <3>1. s = {}
        BY <1>1, <2>1, FS_EmptySet
      <3> QED
        BY <3>1
    <2> QED
      BY <2>1
  <1>3. ASSUME NEW n \in Nat, n \in N PROVE n + 1 \in N
    <2>1. ASSUME NEW s \in SUBSET D, Cardinality(s) = n + 1 PROVE s \in T
      <3>1. ASSUME NEW a \in s PROVE s \ {a} \in T
        <4>1. Cardinality(s \ {a}) = n
          BY <1>1, <2>1, FS_RemoveElement
        <4> QED
          BY <1>3, <4>1
      <3> QED
        BY <3>1
    <2> QED
      BY <2>1
  <1>4. \A n \in Nat : n \in N
    <2> HIDE DEF N
    <2> QED
      BY <1>2, <1>3, NatSetInduction
  <1> QED
    BY <1>1, <1>4

\* f on some of its arguments.
Part(f, s) == [i \in s |-> f[i]]

\* The index that a fold takes first.
Pick(s) == CHOOSE x \in s : TRUE

\* h is what folding the values of f with g leaves for each set of indices.
FoldStep(h, g, base, f, s) ==
    h[s] = IF s = {} THEN base ELSE g[<<f[Pick(s)], h[s \ {Pick(s)}]>>]
Folds(h, g, base, f, D) ==
    /\ h \in [SUBSET D -> Scalar]
    /\ \A s \in SUBSET D : FoldStep(h, g, base, f, s)

\* There is a function that folds.
LEMMA FoldExists ==
    ASSUME NEW D, IsFiniteSet(D), NEW f \in [D -> Scalar], NEW base \in Scalar,
           NEW g \in [Scalar \X Scalar -> Scalar]
    PROVE  \E h : Folds(h, g, base, f, D)
PROOF
  <1> DEFINE Up(h, n) == /\ h \in [SUBSET D -> Scalar]
                         /\ \A s \in SUBSET D : Cardinality(s) < n =>
                              FoldStep(h, g, base, f, s)
             N == {n \in Nat : \E h : Up(h, n)}
  <1>0. \A s \in SUBSET D : IsFiniteSet(s) /\ Cardinality(s) \in Nat
    BY FS_Subset, FS_CardinalityType
  <1>1. 0 \in N
    <2>1. Up([s \in SUBSET D |-> base], 0)
      BY <1>0
    <2> QED
      BY <2>1
  <1>2. ASSUME NEW n \in Nat, n \in N PROVE n + 1 \in N
    <2>1. PICK h : Up(h, n)
      BY <1>2
    <2> DEFINE k == [s \in SUBSET D |->
                       IF s = {} THEN base
                       ELSE g[<<f[Pick(s)], h[s \ {Pick(s)}]>>]]
    <2>2. \A s \in SUBSET D : s # {} =>
             /\ Pick(s) \in s /\ s \ {Pick(s)} \in SUBSET D
             /\ Cardinality(s \ {Pick(s)}) < Cardinality(s)
      <3>1. ASSUME NEW s \in SUBSET D, s # {}
            PROVE  /\ Pick(s) \in s /\ s \ {Pick(s)} \in SUBSET D
                   /\ Cardinality(s \ {Pick(s)}) < Cardinality(s)
        <4>1. Pick(s) \in s
          BY <3>1 DEF Pick
        <4>2. Cardinality(s \ {Pick(s)}) = Cardinality(s) - 1
          BY <1>0, <4>1, FS_RemoveElement
        <4> QED
          BY <1>0, <4>1, <4>2
      <3> QED
        BY <3>1
    <2>3. k \in [SUBSET D -> Scalar]
      BY <2>1, <2>2
    <2>4. ASSUME NEW s \in SUBSET D, Cardinality(s) < n + 1
          PROVE  FoldStep(k, g, base, f, s)
      <3>1. CASE s = {}
        BY <3>1 DEF FoldStep
      <3>2. CASE s # {}
        <4> DEFINE t == s \ {Pick(s)}
        <4>1. t \in SUBSET D /\ Cardinality(t) < n
          BY <1>0, <2>2, <2>4, <3>2
        <4>2. FoldStep(h, g, base, f, t)
          BY <2>1, <4>1
        <4>3. k[t] = h[t]
          BY <4>1, <4>2 DEF FoldStep
        <4>4. k[s] = g[<<f[Pick(s)], h[t]>>]
          BY <3>2
        <4> QED
          BY <3>2, <4>3, <4>4, Zenon DEF FoldStep
      <3> QED
        BY <3>1, <3>2
    <2>5. Up(k, n + 1)
      BY <2>3, <2>4
    <2> HIDE DEF k, Up
    <2> QED
      BY <2>5
  <1>3. \A n \in Nat : n \in N
    <2> HIDE DEF N
    <2> QED
      BY <1>1, <1>2, NatSetInduction
  <1>4. Cardinality(D) + 1 \in Nat
    BY <1>0
  <1>5. PICK h : Up(h, Cardinality(D) + 1)
    BY <1>3, <1>4
  <1>6. \A s \in SUBSET D : Cardinality(s) < Cardinality(D) + 1
    BY <1>0, FS_Subset
  <1> QED
    BY <1>5, <1>6 DEF Folds

\* An operation whose arguments may change places.
Swaps(g) ==
    /\ g \in [Scalar \X Scalar -> Scalar]
    /\ \A u, v, w \in Scalar : g[<<u, g[<<v, w>>]>>] = g[<<v, g[<<u, w>>]>>]

\* With an operation whose arguments may change places, any index may be
\* taken first.
LEMMA FoldAny ==
    ASSUME NEW D, IsFiniteSet(D), NEW f \in [D -> Scalar], NEW base \in Scalar,
           NEW g, Swaps(g), NEW h, Folds(h, g, base, f, D)
    PROVE  \A s \in SUBSET D : \A a \in s : h[s] = g[<<f[a], h[s \ {a}]>>]
PROOF
  <1> DEFINE T == {s \in SUBSET D : \A a \in s : h[s] = g[<<f[a], h[s \ {a}]>>]}
  <1>1. ASSUME NEW s \in SUBSET D, \A a \in s : s \ {a} \in T PROVE s \in T
    <2> SUFFICES ASSUME NEW a \in s PROVE h[s] = g[<<f[a], h[s \ {a}]>>]
      OBVIOUS
    <2> DEFINE x == Pick(s)
    <2>1. x \in s
      BY DEF Pick
    <2>2. h[s] = g[<<f[x], h[s \ {x}]>>]
      BY DEF Folds, FoldStep
    <2> HIDE DEF x
    <2>3. CASE x = a
      BY <2>2, <2>3
    <2>4. CASE x # a
      <3> DEFINE t == (s \ {x}) \ {a}
      <3>1. h[s \ {x}] = g[<<f[a], h[t]>>]
        <4>1. s \ {x} \in T /\ a \in s \ {x}
          BY <1>1, <2>1, <2>4
        <4> QED
          BY <4>1
      <3>2. h[s \ {a}] = g[<<f[x], h[t]>>]
        <4>1. s \ {a} \in T /\ x \in s \ {a}
          BY <1>1, <2>1, <2>4
        <4>2. (s \ {a}) \ {x} = t
          OBVIOUS
        <4>3. h[s \ {a}] = g[<<f[x], h[(s \ {a}) \ {x}]>>]
          BY <4>1
        <4> QED
          BY <4>2, <4>3
      <3>3. f[a] \in Scalar /\ f[x] \in Scalar /\ h[t] \in Scalar
        BY <2>1 DEF Folds
      <3> HIDE DEF t
      <3> QED
        BY <2>2, <3>1, <3>2, <3>3 DEF Swaps
    <2> QED
      BY <2>3, <2>4
  <1>2. \A s \in SUBSET D : s \in T
    <2> HIDE DEF T
    <2> QED
      BY <1>1, SubsetInduction
  <1> QED
    BY <1>2

\* Values outside the set of indices do not matter.
LEMMA FoldLocal ==
    ASSUME NEW D, IsFiniteSet(D), NEW E \in SUBSET D, NEW f, NEW e, NEW g,
           NEW base, NEW h, NEW k,
           Folds(h, g, base, f, D), Folds(k, g, base, e, E),
           \A i \in E : e[i] = f[i]
    PROVE  \A s \in SUBSET E : k[s] = h[s]
PROOF
  <1> DEFINE T == {s \in SUBSET E : k[s] = h[s]}
  <1>1. ASSUME NEW s \in SUBSET E, \A a \in s : s \ {a} \in T PROVE s \in T
    <2>1. CASE s = {}
      BY <2>1 DEF Folds, FoldStep
    <2>2. CASE s # {}
      <3> DEFINE x == Pick(s)
      <3>1. x \in s
        BY <2>2 DEF Pick
      <3>2. /\ h[s] = g[<<f[x], h[s \ {x}]>>]
            /\ k[s] = g[<<e[x], k[s \ {x}]>>]
        BY <2>2 DEF Folds, FoldStep
      <3> HIDE DEF x
      <3>3. k[s \ {x}] = h[s \ {x}] /\ e[x] = f[x]
        BY <1>1, <3>1
      <3> QED
        BY <3>2, <3>3
    <2> QED
      BY <2>1, <2>2
  <1>2. IsFiniteSet(E)
    BY FS_Subset
  <1>3. \A s \in SUBSET E : s \in T
    <2> HIDE DEF T
    <2> QED
      BY <1>1, <1>2, SubsetInduction
  <1> QED
    BY <1>3

\* What Sum() and Product() fold with.
Adder == [p \in Scalar \X Scalar |-> Add(p[1], p[2])]
Multiplier == [p \in Scalar \X Scalar |-> Mul(p[1], p[2])]

\* Addition and multiplication of scalars may change places.
LEMMA OpsCommute ==
    /\ Swaps(Adder) /\ Swaps(Multiplier)
    /\ \A u, v \in Scalar : /\ Adder[<<u, v>>] = Add(u, v)
                            /\ Multiplier[<<u, v>>] = Mul(u, v)
PROOF
  <1>1. ASSUME NEW u \in Scalar, NEW v \in Scalar
        PROVE  /\ Add(u, v) \in Scalar /\ Cong(Add(u, v), u + v)
               /\ Mul(u, v) \in Scalar /\ Cong(Mul(u, v), u * v)
    BY FieldOps, CongLaws, Scalars
  <1>2. ASSUME NEW u \in Scalar, NEW v \in Scalar, NEW w \in Scalar
        PROVE  /\ Add(u, Add(v, w)) = Add(v, Add(u, w))
               /\ Mul(u, Mul(v, w)) = Mul(v, Mul(u, w))
    <2>1. u \in Int /\ v \in Int /\ w \in Int
      BY Scalars
    <2>2. /\ v + w \in Int /\ u + w \in Int /\ v * w \in Int /\ u * w \in Int
      BY <2>1
    <2>3. ASSUME NEW x \in Scalar, NEW y \in Scalar, NEW z \in Scalar
          PROVE  /\ Add(x, Add(y, z)) \in Scalar
                 /\ Cong(Add(x, Add(y, z)), x + (y + z))
                 /\ Mul(x, Mul(y, z)) \in Scalar
                 /\ Cong(Mul(x, Mul(y, z)), x * (y * z))
      <3>1. x \in Int /\ y \in Int /\ z \in Int /\ y + z \in Int /\ y * z \in Int
        BY Scalars
      <3>2. /\ Add(y, z) \in Int /\ Cong(Add(y, z), y + z)
            /\ Mul(y, z) \in Int /\ Cong(Mul(y, z), y * z)
        BY <1>1, Scalars
      <3>3. Cong(x, x)
        BY CongLaws
      <3>4. Add(x, Add(y, z)) \in Scalar /\ Cong(Add(x, Add(y, z)), x + (y + z))
        BY <3>1, <3>2, <3>3, FieldOps, Zenon
      <3>5. Mul(x, Mul(y, z)) \in Scalar /\ Cong(Mul(x, Mul(y, z)), x * (y * z))
        BY <3>1, <3>2, <3>3, FieldOps, Zenon
      <3> QED
        BY <3>4, <3>5
    <2>4. u + (v + w) = v + (u + w) /\ u * (v * w) = v * (u * w)
      BY <2>1
    <2>5. /\ Cong(Add(u, Add(v, w)), Add(v, Add(u, w)))
          /\ Cong(Mul(u, Mul(v, w)), Mul(v, Mul(u, w)))
      BY <2>3, <2>4, CongLaws
    <2> QED
      BY <2>3, <2>5, CongScalar
  <1>3. /\ Adder \in [Scalar \X Scalar -> Scalar]
        /\ Multiplier \in [Scalar \X Scalar -> Scalar]
    BY <1>1 DEF Adder, Multiplier
  <1>4. \A u, v \in Scalar : /\ Adder[<<u, v>>] = Add(u, v)
                             /\ Multiplier[<<u, v>>] = Mul(u, v)
    BY DEF Adder, Multiplier
  <1>5. ASSUME NEW u \in Scalar, NEW v \in Scalar, NEW w \in Scalar
        PROVE  /\ Adder[<<u, Adder[<<v, w>>]>>] = Adder[<<v, Adder[<<u, w>>]>>]
               /\ Multiplier[<<u, Multiplier[<<v, w>>]>>]
                    = Multiplier[<<v, Multiplier[<<u, w>>]>>]
    <2>1. /\ Add(v, w) \in Scalar /\ Add(u, w) \in Scalar
          /\ Mul(v, w) \in Scalar /\ Mul(u, w) \in Scalar
      BY <1>1
    <2> QED
      BY <1>2, <1>4, <2>1
  <1> QED
    BY <1>3, <1>4, <1>5 DEF Swaps

\* The function by which Sum() and Product() are defined.
SumOf(h, f) ==
    h = [s \in SUBSET DOMAIN f |->
            IF s = {} THEN 0 ELSE Add(f[Pick(s)], h[s \ {Pick(s)}])]
ProductOf(h, f) ==
    h = [s \in SUBSET DOMAIN f |->
            IF s = {} THEN 1 ELSE Mul(f[Pick(s)], h[s \ {Pick(s)}])]

\* Sum() folds with addition.
LEMMA SumFolds ==
    ASSUME NEW D, IsFiniteSet(D), NEW f \in [D -> Scalar]
    PROVE  \E h : Folds(h, Adder, 0, f, D) /\ Sum(f) = h[D]
PROOF
  <1>1. PICK h : Folds(h, Adder, 0, f, D)
    BY OpsCommute, Scalars, FoldExists DEF Swaps
  <1>2. SumOf(h, f)
    <2>1. h \in [SUBSET D -> Scalar] /\ DOMAIN f = D
      BY <1>1 DEF Folds
    <2>2. ASSUME NEW s \in SUBSET D, s # {}
          PROVE  h[s] = Add(f[Pick(s)], h[s \ {Pick(s)}])
      <3>1. Pick(s) \in s
        BY <2>2 DEF Pick
      <3>2. h[s] = Adder[<<f[Pick(s)], h[s \ {Pick(s)}]>>]
        BY <1>1, <2>2 DEF Folds, FoldStep
      <3>3. f[Pick(s)] \in Scalar /\ h[s \ {Pick(s)}] \in Scalar
        BY <2>1, <3>1
      <3> QED
        BY <3>2, <3>3, OpsCommute
    <2>3. h[{}] = 0
      BY <1>1 DEF Folds, FoldStep
    <2> QED
      BY <2>1, <2>2, <2>3 DEF SumOf
  <1> DEFINE k == CHOOSE x : SumOf(x, f)
  <1>3. SumOf(k, f)
    BY <1>2, Zenon
  <1>4. Sum(f) = k[DOMAIN f]
    BY Zenon DEF Sum, FoldFunction, FoldFunctionOnSet, MapThenFoldSet, SumOf, Pick
  <1> HIDE DEF k
  <1> DEFINE T == {s \in SUBSET D : k[s] = h[s]}
  <1>5. ASSUME NEW s \in SUBSET D, \A a \in s : s \ {a} \in T PROVE s \in T
    <2>1. DOMAIN f = D
      OBVIOUS
    <2>2. CASE s = {}
      BY <1>2, <1>3, <2>1, <2>2 DEF SumOf
    <2>3. CASE s # {}
      <3>1. Pick(s) \in s
        BY <2>3 DEF Pick
      <3>2. /\ k[s] = Add(f[Pick(s)], k[s \ {Pick(s)}])
            /\ h[s] = Add(f[Pick(s)], h[s \ {Pick(s)}])
        BY <1>2, <1>3, <2>1, <2>3 DEF SumOf
      <3>3. k[s \ {Pick(s)}] = h[s \ {Pick(s)}]
        BY <1>5, <3>1
      <3> QED
        BY <3>2, <3>3
    <2> QED
      BY <2>2, <2>3
  <1>6. \A s \in SUBSET D : s \in T
    <2> HIDE DEF T
    <2> QED
      BY <1>5, SubsetInduction
  <1>7. k[D] = h[D] /\ DOMAIN f = D
    BY <1>6
  <1> QED
    BY <1>1, <1>4, <1>7

\* A sum may be taken apart at any index.
LEMMA SumSplit ==
    ASSUME NEW D, IsFiniteSet(D), NEW f \in [D -> Scalar]
    PROVE  /\ Sum(f) \in Scalar
           /\ D = {} => Sum(f) = 0
           /\ \A a \in D :
                Sum(f) = Add(f[a], Sum(Part(f, D \ {a})))
PROOF
  <1>1. PICK h : Folds(h, Adder, 0, f, D) /\ Sum(f) = h[D]
    BY SumFolds
  <1>2. Sum(f) \in Scalar
    BY <1>1 DEF Folds
  <1>3. D = {} => Sum(f) = 0
    BY <1>1 DEF Folds, FoldStep
  <1>4. ASSUME NEW a \in D
        PROVE  Sum(f) = Add(f[a], Sum(Part(f, D \ {a})))
    <2> DEFINE E == D \ {a}
               e == Part(f, E)
    <2>1. IsFiniteSet(E) /\ e \in [E -> Scalar] /\ E \in SUBSET D
      BY FS_Subset DEF Part
    <2>2. \A i \in E : e[i] = f[i]
      BY DEF Part
    <2> HIDE DEF e, E
    <2>3. PICK k : Folds(k, Adder, 0, e, E) /\ Sum(e) = k[E]
      BY <2>1, SumFolds
    <2>4. k[E] = h[E]
      BY <1>1, <2>1, <2>2, <2>3, FoldLocal
    <2>5. h[D] = Adder[<<f[a], h[E]>>]
      <3>1. \A s \in SUBSET D : \A x \in s :
               h[s] = Adder[<<f[x], h[s \ {x}]>>]
        <4>1. Swaps(Adder)
          BY OpsCommute, Zenon
        <4>2. Folds(h, Adder, 0, f, D) /\ 0 \in Scalar
          BY <1>1, Scalars
        <4> QED
          BY ONLY <4>1, <4>2, FoldAny, IsFiniteSet(D), f \in [D -> Scalar], SMT
      <3> QED
        BY <3>1 DEF E
    <2>6. f[a] \in Scalar /\ h[E] \in Scalar
      BY <1>1, <2>1 DEF Folds
    <2>7. Sum(f) = Add(f[a], Sum(e))
      BY <1>1, <2>3, <2>4, <2>5, <2>6, OpsCommute
    <2> QED
      BY <2>7 DEF e, E
  <1> QED
    BY <1>2, <1>3, <1>4
\* Product() folds with multiplication.
LEMMA ProductFolds ==
    ASSUME NEW D, IsFiniteSet(D), NEW f \in [D -> Scalar]
    PROVE  \E h : Folds(h, Multiplier, 1, f, D) /\ Product(f) = h[D]
PROOF
  <1>1. PICK h : Folds(h, Multiplier, 1, f, D)
    BY OpsCommute, Scalars, FoldExists DEF Swaps
  <1>2. ProductOf(h, f)
    <2>1. h \in [SUBSET D -> Scalar] /\ DOMAIN f = D
      BY <1>1 DEF Folds
    <2>2. ASSUME NEW s \in SUBSET D, s # {}
          PROVE  h[s] = Mul(f[Pick(s)], h[s \ {Pick(s)}])
      <3>1. Pick(s) \in s
        BY <2>2 DEF Pick
      <3>2. h[s] = Multiplier[<<f[Pick(s)], h[s \ {Pick(s)}]>>]
        BY <1>1, <2>2 DEF Folds, FoldStep
      <3>3. f[Pick(s)] \in Scalar /\ h[s \ {Pick(s)}] \in Scalar
        BY <2>1, <3>1
      <3> QED
        BY <3>2, <3>3, OpsCommute
    <2>3. h[{}] = 1
      BY <1>1 DEF Folds, FoldStep
    <2> QED
      BY <2>1, <2>2, <2>3 DEF ProductOf
  <1> DEFINE k == CHOOSE x : ProductOf(x, f)
  <1>3. ProductOf(k, f)
    BY <1>2, Zenon
  <1>4. Product(f) = k[DOMAIN f]
    BY Zenon DEF Product, FoldFunction, FoldFunctionOnSet, MapThenFoldSet, ProductOf, Pick
  <1> HIDE DEF k
  <1> DEFINE T == {s \in SUBSET D : k[s] = h[s]}
  <1>5. ASSUME NEW s \in SUBSET D, \A a \in s : s \ {a} \in T PROVE s \in T
    <2>1. DOMAIN f = D
      OBVIOUS
    <2>2. CASE s = {}
      BY <1>2, <1>3, <2>1, <2>2 DEF ProductOf
    <2>3. CASE s # {}
      <3>1. Pick(s) \in s
        BY <2>3 DEF Pick
      <3>2. /\ k[s] = Mul(f[Pick(s)], k[s \ {Pick(s)}])
            /\ h[s] = Mul(f[Pick(s)], h[s \ {Pick(s)}])
        BY <1>2, <1>3, <2>1, <2>3 DEF ProductOf
      <3>3. k[s \ {Pick(s)}] = h[s \ {Pick(s)}]
        BY <1>5, <3>1
      <3> QED
        BY <3>2, <3>3
    <2> QED
      BY <2>2, <2>3
  <1>6. \A s \in SUBSET D : s \in T
    <2> HIDE DEF T
    <2> QED
      BY <1>5, SubsetInduction
  <1>7. k[D] = h[D] /\ DOMAIN f = D
    BY <1>6
  <1> QED
    BY <1>1, <1>4, <1>7

\* A product may be taken apart at any index.
LEMMA ProductSplit ==
    ASSUME NEW D, IsFiniteSet(D), NEW f \in [D -> Scalar]
    PROVE  /\ Product(f) \in Scalar
           /\ D = {} => Product(f) = 1
           /\ \A a \in D :
                Product(f) = Mul(f[a], Product(Part(f, D \ {a})))
PROOF
  <1>1. PICK h : Folds(h, Multiplier, 1, f, D) /\ Product(f) = h[D]
    BY ProductFolds
  <1>2. Product(f) \in Scalar
    BY <1>1 DEF Folds
  <1>3. D = {} => Product(f) = 1
    BY <1>1 DEF Folds, FoldStep
  <1>4. ASSUME NEW a \in D
        PROVE  Product(f) = Mul(f[a], Product(Part(f, D \ {a})))
    <2> DEFINE E == D \ {a}
               e == Part(f, E)
    <2>1. IsFiniteSet(E) /\ e \in [E -> Scalar] /\ E \in SUBSET D
      BY FS_Subset DEF Part
    <2>2. \A i \in E : e[i] = f[i]
      BY DEF Part
    <2> HIDE DEF e, E
    <2>3. PICK k : Folds(k, Multiplier, 1, e, E) /\ Product(e) = k[E]
      BY <2>1, ProductFolds
    <2>4. k[E] = h[E]
      BY <1>1, <2>1, <2>2, <2>3, FoldLocal
    <2>5. h[D] = Multiplier[<<f[a], h[E]>>]
      <3>1. \A s \in SUBSET D : \A x \in s :
               h[s] = Multiplier[<<f[x], h[s \ {x}]>>]
        <4>1. Swaps(Multiplier)
          BY OpsCommute, Zenon
        <4>2. Folds(h, Multiplier, 1, f, D) /\ 1 \in Scalar
          BY <1>1, Scalars
        <4> QED
          BY <4>1, <4>2, FoldAny
      <3> QED
        BY <3>1 DEF E
    <2>6. f[a] \in Scalar /\ h[E] \in Scalar
      BY <1>1, <2>1 DEF Folds
    <2>7. Product(f) = Mul(f[a], Product(e))
      BY <1>1, <2>3, <2>4, <2>5, <2>6, OpsCommute
    <2> QED
      BY <2>7 DEF e, E
  <1> QED
    BY <1>2, <1>3, <1>4

-----------------------------------------------------------------------------
\* A sum over part of the indices, in terms of congruences.
LEMMA PartSum ==
    ASSUME NEW D, IsFiniteSet(D), NEW f \in [D -> Scalar], NEW s \in SUBSET D
    PROVE  /\ Sum(Part(f, s)) \in Scalar
           /\ s = {} => Sum(Part(f, s)) = 0
           /\ \A a \in s : Cong(Sum(Part(f, s)), f[a] + Sum(Part(f, s \ {a})))
PROOF
  <1>1. \A t \in SUBSET D : IsFiniteSet(t) /\ Part(f, t) \in [t -> Scalar]
    BY FS_Subset DEF Part
  <1>2. /\ Sum(Part(f, s)) \in Scalar
        /\ s = {} => Sum(Part(f, s)) = 0
    BY <1>1, SumSplit
  <1>3. ASSUME NEW a \in s
        PROVE  Cong(Sum(Part(f, s)), f[a] + Sum(Part(f, s \ {a})))
    <2>1. Sum(Part(f, s))
            = Add(Part(f, s)[a], Sum(Part(Part(f, s), s \ {a})))
      BY <1>1, SumSplit, Zenon
    <2>2. /\ Part(Part(f, s), s \ {a}) = Part(f, s \ {a})
          /\ Part(f, s)[a] = f[a]
      BY DEF Part
    <2>3. Sum(Part(f, s \ {a})) \in Scalar
      <3>1. s \ {a} \in SUBSET D
        OBVIOUS
      <3> QED
        BY <1>1, <3>1, SumSplit
    <2>4. /\ f[a] \in Int /\ Sum(Part(f, s \ {a})) \in Int
      BY <2>3, Scalars
    <2>5. Sum(Part(f, s)) = Add(f[a], Sum(Part(f, s \ {a})))
      BY <2>1, <2>2
    <2> QED
      BY <2>4, <2>5, FieldIs, Zenon
  <1> QED
    BY <1>2, <1>3

\* Sums are linear.
LEMMA SumLinear ==
    ASSUME NEW D, IsFiniteSet(D),
           NEW f \in [D -> Scalar], NEW g \in [D -> Scalar],
           NEW k \in [D -> Scalar], NEW b \in Int, NEW c \in Int, NEW e \in Int,
           \A i \in D : Cong(b * k[i], c * f[i] + e * g[i])
    PROVE  Cong(b * Sum(k), c * Sum(f) + e * Sum(g))
PROOF
  <1> DEFINE K(s) == Sum(Part(k, s))
             F(s) == Sum(Part(f, s))
             G(s) == Sum(Part(g, s))
             T == {s \in SUBSET D : Cong(b * K(s), c * F(s) + e * G(s))}
  <1>1. \A s \in SUBSET D : /\ K(s) \in Int /\ F(s) \in Int /\ G(s) \in Int
                            /\ s = {} => K(s) = 0 /\ F(s) = 0 /\ G(s) = 0
    BY PartSum, Scalars
  <1>2. ASSUME NEW s \in SUBSET D, NEW a \in s
        PROVE  /\ Cong(K(s), k[a] + K(s \ {a}))
               /\ Cong(F(s), f[a] + F(s \ {a}))
               /\ Cong(G(s), g[a] + G(s \ {a}))
    BY PartSum
  <1>3. \A i \in D : f[i] \in Int /\ g[i] \in Int /\ k[i] \in Int
    BY Scalars
  <1> HIDE DEF K, F, G
  <1>4. ASSUME NEW s \in SUBSET D, \A a \in s : s \ {a} \in T PROVE s \in T
    <2>1. CASE s = {}
      <3>1. b * K(s) = c * F(s) + e * G(s)
        BY <1>1, <2>1
      <3> QED
        BY <3>1, CongLaws
    <2>2. CASE s # {}
      <3>1. PICK a \in s : TRUE
        BY <2>2
      <3> DEFINE t == s \ {a}
      <3>2. t \in SUBSET D /\ Cong(b * K(t), c * F(t) + e * G(t))
        BY <1>4
      <3>3. /\ Cong(K(s), k[a] + K(t))
            /\ Cong(F(s), f[a] + F(t))
            /\ Cong(G(s), g[a] + G(t))
        BY <1>2
      <3>4. /\ K(s) \in Int /\ F(s) \in Int /\ G(s) \in Int
            /\ K(t) \in Int /\ F(t) \in Int /\ G(t) \in Int
            /\ f[a] \in Int /\ g[a] \in Int /\ k[a] \in Int
        BY <1>1, <1>3, <3>2
      <3>5. Cong(b * k[a], c * f[a] + e * g[a])
        OBVIOUS
      <3> HIDE DEF t, T
      <3>6. Cong(b * k[a] + b * K(t),
                 (c * f[a] + e * g[a]) + (c * F(t) + e * G(t)))
        <4>1. /\ b * k[a] \in Int /\ b * K(t) \in Int
              /\ c * f[a] + e * g[a] \in Int /\ c * F(t) + e * G(t) \in Int
          BY <3>4
        <4> QED
          BY <3>2, <3>5, <4>1, CongOps, Zenon
      <3>7. /\ Cong(b * K(s), b * (k[a] + K(t)))
            /\ Cong(c * F(s), c * (f[a] + F(t)))
            /\ Cong(e * G(s), e * (g[a] + G(t)))
        <4>1. /\ f[a] + F(t) \in Int /\ g[a] + G(t) \in Int
              /\ k[a] + K(t) \in Int
          BY <3>4
        <4> QED
          BY <3>3, <3>4, <4>1, CongScale
      <3>8. Cong(c * F(s) + e * G(s), c * (f[a] + F(t)) + e * (g[a] + G(t)))
        <4>1. /\ c * F(s) \in Int /\ e * G(s) \in Int
              /\ c * (f[a] + F(t)) \in Int /\ e * (g[a] + G(t)) \in Int
          BY <3>4
        <4> QED
          BY <3>7, <4>1, CongOps, Zenon
      <3>9. /\ (c * f[a] + e * g[a]) + (c * F(t) + e * G(t))
                 = c * (f[a] + F(t)) + e * (g[a] + G(t))
            /\ b * k[a] + b * K(t) = b * (k[a] + K(t))
        BY <3>4
      <3>10. Cong(b * K(s), c * F(s) + e * G(s))
        BY <3>6, <3>7, <3>8, <3>9, CongLaws
      <3> QED
        BY <3>10 DEF T
    <2> QED
      BY <2>1, <2>2
  <1>5. \A s \in SUBSET D : s \in T
    <2> HIDE DEF T
    <2> QED
      BY <1>4, SubsetInduction
  <1>6. Cong(b * K(D), c * F(D) + e * G(D))
    BY <1>5
  <1>7. Part(k, D) = k /\ Part(f, D) = f /\ Part(g, D) = g
    BY DEF Part
  <1> QED
    BY <1>6, <1>7 DEF K, F, G

-----------------------------------------------------------------------------
(* Polynomials *)

\* The function by which Evaluate() is defined.
Horner(h, poly, node) ==
    h = [i \in 0..Len(poly) |->
            IF i = 0 THEN 0
            ELSE Add(Mul(h[i - 1], node), poly[Len(poly) - i + 1])]

\* The values that Horner's rule passes through.
LEMMA HornerValues ==
    ASSUME NEW poly \in Seq(Scalar), NEW node \in Scalar
    PROVE  \E h \in [0..Len(poly) -> Scalar] :
             /\ Evaluate(poly, node) = h[Len(poly)]
             /\ h[0] = 0
             /\ \A i \in 1..Len(poly) :
                  Cong(h[i], h[i - 1] * node + poly[Len(poly) - i + 1])
PROOF
  <1> DEFINE len == Len(poly)
             Body(h, i) == IF i = 0 THEN 0
                           ELSE Add(Mul(h[i - 1], node), poly[len - i + 1])
             Up(h, n) == /\ h \in [0..len -> Scalar]
                         /\ \A i \in 0..len : i < n => h[i] = Body(h, i)
             N == {n \in Nat : \E h : Up(h, n)}
  <1>0. len \in Nat /\ \A i \in 1..len : poly[len - i + 1] \in Scalar
    OBVIOUS
  <1>1. ASSUME NEW h \in [0..len -> Scalar], NEW i \in 0..len
        PROVE  Body(h, i) \in Scalar
    <2>1. CASE i = 0
      BY <2>1, Scalars
    <2>2. CASE i # 0
      <3>1. h[i - 1] \in Int /\ node \in Int /\ poly[len - i + 1] \in Int
        BY <1>0, <2>2, Scalars
      <3>2. Mul(h[i - 1], node) \in Int
        BY <3>1, FieldIs, Scalars
      <3> QED
        BY <2>2, <3>1, <3>2, FieldIs
    <2> QED
      BY <2>1, <2>2
  <1>2. 0 \in N
    <2>1. Up([i \in 0..len |-> 0], 0)
      BY Scalars
    <2> HIDE DEF Up
    <2> QED
      BY <2>1
  <1>3. ASSUME NEW n \in Nat, n \in N PROVE n + 1 \in N
    <2>1. PICK h : Up(h, n)
      BY <1>3
    <2> DEFINE k == [i \in 0..len |-> Body(h, i)]
    <2>2. k \in [0..len -> Scalar]
      <3> HIDE DEF Body
      <3> QED
        BY <1>1, <2>1
    <2>3. ASSUME NEW i \in 0..len, i < n + 1 PROVE k[i] = Body(k, i)
      <3>1. CASE i = 0
        BY <3>1
      <3>2. CASE i # 0
        <4>1. i - 1 \in 0..len /\ i - 1 < n
          BY <1>0, <2>3, <3>2
        <4>2. h[i - 1] = Body(h, i - 1)
          BY <2>1, <4>1
        <4>3. k[i - 1] = h[i - 1]
          <5> HIDE DEF Body
          <5> QED
            BY <4>1, <4>2
        <4>4. k[i] = Body(h, i)
          <5> HIDE DEF Body
          <5> QED
            OBVIOUS
        <4> HIDE DEF k
        <4> QED
          BY <3>2, <4>3, <4>4
      <3> QED
        BY <3>1, <3>2
    <2>4. Up(k, n + 1)
      <3> HIDE DEF k, Body
      <3> QED
        BY <2>2, <2>3
    <2> HIDE DEF k, Up
    <2> QED
      BY <2>4
  <1>4. \A n \in Nat : n \in N
    <2> HIDE DEF N
    <2> QED
      BY <1>2, <1>3, NatSetInduction
  <1>5. PICK h : Up(h, len + 1)
    <2> HIDE DEF Up
    <2>1. len + 1 \in Nat
      BY <1>0
    <2> QED
      BY <1>4, <2>1
  <1>6. Horner(h, poly, node)
    <2>1. h \in [0..len -> Scalar] /\ \A i \in 0..len : h[i] = Body(h, i)
      <3> HIDE DEF Body
      <3> QED
        BY <1>0, <1>5
    <2> QED
      BY <2>1 DEF Horner
  <1> DEFINE w == CHOOSE x : Horner(x, poly, node)
  <1>7. Horner(w, poly, node)
    BY <1>6, Zenon
  <1>8. Evaluate(poly, node) = w[len]
    BY Zenon DEF Evaluate, Horner
  <1> HIDE DEF w
  <1>9. ASSUME NEW i \in 0..len
        PROVE  /\ w[i] = Body(w, i)
               /\ h[i] = Body(h, i)
    BY <1>6, <1>7, <1>9 DEF Horner
  <1>10. \A i \in 0..len : w[i] = h[i]
    <2> DEFINE M == {n \in Nat : n <= len => w[n] = h[n]}
    <2>1. 0 \in M
      <3>1. 0 \in 0..len
        BY <1>0
      <3> QED
        BY <1>9, <3>1
    <2>2. ASSUME NEW n \in Nat, n \in M PROVE n + 1 \in M
      <3> SUFFICES ASSUME n + 1 <= len PROVE w[n + 1] = h[n + 1]
        OBVIOUS
      <3>1. n + 1 \in 0..len /\ n + 1 # 0 /\ (n + 1) - 1 = n
        BY <1>0
      <3>2. w[n] = h[n]
        BY <1>0, <2>2
      <3> HIDE DEF len
      <3> QED
        BY <1>9, <3>1, <3>2
    <2>3. \A n \in Nat : n \in M
      <3> HIDE DEF M
      <3> QED
        BY <2>1, <2>2, NatSetInduction
    <2> QED
      BY <1>0, <2>3
  <1>11. h \in [0..len -> Scalar] /\ h[0] = 0
    BY <1>0, <1>5, <1>9
  <1>12. ASSUME NEW i \in 1..len
         PROVE  Cong(h[i], h[i - 1] * node + poly[len - i + 1])
    <2>1. i \in 0..len /\ i # 0 /\ i - 1 \in 0..len
      BY <1>0
    <2>2. h[i - 1] \in Int /\ node \in Int /\ poly[len - i + 1] \in Int
      BY <1>0, <1>11, <2>1, Scalars
    <2>3. h[i] = Add(Mul(h[i - 1], node), poly[len - i + 1])
      BY <1>9, <2>1
    <2>4. /\ Mul(h[i - 1], node) \in Int
          /\ Cong(Mul(h[i - 1], node), h[i - 1] * node)
          /\ h[i - 1] * node \in Int
      <3>1. h[i - 1] * node \in Int
        BY <2>2
      <3>2. /\ Mul(h[i - 1], node) \in Scalar
            /\ Cong(Mul(h[i - 1], node), h[i - 1] * node)
        BY <2>2, FieldIs, Zenon
      <3> QED
        BY <3>1, <3>2, Scalars
    <2>5. Cong(poly[len - i + 1], poly[len - i + 1])
      BY CongLaws
    <2> HIDE DEF len
    <2> QED
      BY <2>2, <2>3, <2>4, <2>5, FieldOps, Zenon
  <1>13. Evaluate(poly, node) = h[len]
    BY <1>0, <1>8, <1>10
  <1> QED
    BY <1>11, <1>12, <1>13

\* Evaluations are scalars; at zero a polynomial has its first coefficient.
LEMMA EvaluateFacts ==
    ASSUME NEW poly \in Seq(Scalar), NEW node \in Scalar
    PROVE  /\ Evaluate(poly, node) \in Scalar
           /\ Len(poly) > 0 /\ node = 0 => Evaluate(poly, node) = poly[1]
           /\ Len(poly) = 1 => Evaluate(poly, node) = poly[1]
PROOF
  <1>1. PICK h \in [0..Len(poly) -> Scalar] :
             /\ Evaluate(poly, node) = h[Len(poly)]
             /\ h[0] = 0
             /\ \A i \in 1..Len(poly) :
                  Cong(h[i], h[i - 1] * node + poly[Len(poly) - i + 1])
    BY HornerValues
  <1>2. Len(poly) \in Nat /\ Len(poly) \in 0..Len(poly)
    OBVIOUS
  <1>3. Evaluate(poly, node) \in Scalar
    BY <1>1, <1>2
  <1>4. ASSUME Len(poly) > 0, node = 0 \/ Len(poly) = 1
        PROVE  Evaluate(poly, node) = poly[1]
    <2> DEFINE n == Len(poly)
    <2>1. n \in 1..n /\ n - n + 1 = 1 /\ n - 1 \in 0..n /\ poly[1] \in Scalar
      BY <1>2, <1>4
    <2>2. Cong(h[n], h[n - 1] * node + poly[1])
      BY <1>1, <2>1
    <2>3. h[n - 1] \in Int /\ node \in Int /\ poly[1] \in Int
      BY <2>1, Scalars
    <2>4. h[n - 1] * node + poly[1] = poly[1]
      <3>1. CASE node = 0
        BY <2>3, <3>1
      <3>2. CASE n = 1
        BY <1>1, <2>3, <3>2
      <3> QED
        BY <1>4, <3>1, <3>2
    <2> QED
      BY <1>1, <1>3, <2>1, <2>2, <2>4, CongScalar
  <1> QED
    BY <1>2, <1>3, <1>4

\* Division by a linear factor: the quotient's coefficients are the values
\* that Horner's rule passes through.
LEMMA Quotient ==
    ASSUME NEW poly \in Seq(Scalar), Len(poly) > 1, NEW a \in Scalar
    PROVE  \E q \in Seq(Scalar) :
             /\ Len(q) = Len(poly) - 1
             /\ \A x \in Scalar :
                  Cong(Evaluate(poly, x),
                       Evaluate(poly, a) + (x - a) * Evaluate(q, x))
PROOF
  <1> DEFINE n == Len(poly)
  <1>1. PICK h \in [0..n -> Scalar] :
             /\ Evaluate(poly, a) = h[n]
             /\ h[0] = 0
             /\ \A i \in 1..n :
                  Cong(h[i], h[i - 1] * a + poly[n - i + 1])
    BY HornerValues
  <1> DEFINE q == [i \in 1..(n - 1) |-> h[n - i]]
  <1>2. n \in Nat /\ n > 1
    OBVIOUS
  <1>3. q \in Seq(Scalar) /\ Len(q) = n - 1
    <2>1. \A i \in 1..(n - 1) : h[n - i] \in Scalar
      BY <1>2
    <2>2. n - 1 \in Nat
      BY <1>2
    <2> QED
      BY <2>1, <2>2
  <1>4. \A i \in 1..(n - 1) : q[(n - 1) - i + 1] = h[i]
    BY <1>2
  <1> HIDE DEF q
  <1>5. ASSUME NEW x \in Scalar
        PROVE  Cong(Evaluate(poly, x),
                    Evaluate(poly, a) + (x - a) * Evaluate(q, x))
    <2>1. PICK u \in [0..n -> Scalar] :
             /\ Evaluate(poly, x) = u[n]
             /\ u[0] = 0
             /\ \A i \in 1..n : Cong(u[i], u[i - 1] * x + poly[n - i + 1])
      BY HornerValues
    <2>2. PICK v \in [0..(n - 1) -> Scalar] :
             /\ Evaluate(q, x) = v[n - 1]
             /\ v[0] = 0
             /\ \A i \in 1..(n - 1) :
                  Cong(v[i], v[i - 1] * x + q[(n - 1) - i + 1])
      BY <1>3, HornerValues
    <2>3. \A i \in 1..(n - 1) : Cong(v[i], v[i - 1] * x + h[i])
      BY <1>4, <2>2
    <2>4. x \in Int /\ a \in Int /\ n \in Int
      BY <1>2, Scalars
    <2>5. \A i \in 0..n : u[i] \in Int /\ h[i] \in Int
      BY Scalars
    <2>6. \A i \in 0..(n - 1) : v[i] \in Int
      BY Scalars
    <2>7. \A i \in 1..n : poly[n - i + 1] \in Int
      <3>1. \A j \in 1..n : poly[j] \in Scalar
        OBVIOUS
      <3>2. \A i \in 1..n : n - i + 1 \in 1..n
        BY ONLY <1>2, SMT
      <3> QED
        BY ONLY <3>1, <3>2, Scalars, Zenon
    <2> DEFINE M == {m \in Nat : m + 1 <= n =>
                       Cong(u[m + 1], h[m + 1] + (x - a) * v[m])}
    <2> HIDE DEF n
    <2>8. 0 \in M
      <3>1. 1 \in 1..n /\ 0 \in 0..n /\ 0 \in 0..(n - 1) /\ 1 - 1 = 0
        BY <1>2
      <3> DEFINE c == poly[n - 1 + 1]
      <3>2. c \in Int
        BY <2>7, <3>1
      <3>3. Cong(u[1], u[0] * x + c) /\ Cong(h[1], h[0] * a + c)
        BY <1>1, <2>1, <3>1
      <3>4. /\ u[0] * x + c = c /\ h[0] * a + c = c
        BY <1>1, <2>1, <2>4, <3>2
      <3>5. h[1] \in Int
        BY <1>2, <2>5
      <3>6. h[1] + (x - a) * v[0] = h[1]
        BY <2>2, <2>4, <3>5
      <3>7. Cong(u[1], h[1])
        BY <3>3, <3>4, CongLaws
      <3> QED
        BY <3>6, <3>7
    <2>9. ASSUME NEW m \in Nat, m \in M PROVE m + 1 \in M
      <3> SUFFICES ASSUME m + 2 <= n
                   PROVE  Cong(u[m + 2], h[m + 2] + (x - a) * v[m + 1])
        <4>1. (m + 1) + 1 = m + 2
          OBVIOUS
        <4> QED
          BY <4>1
      <3>1. /\ m + 2 \in 1..n /\ (m + 2) - 1 = m + 1 /\ m + 1 \in 0..n
            /\ m + 1 \in 1..(n - 1) /\ (m + 1) - 1 = m /\ m \in 0..(n - 1)
            /\ m + 2 \in 0..n /\ m + 1 \in 0..(n - 1) /\ m + 1 <= n
        BY <1>2
      <3>2. Cong(u[m + 1], h[m + 1] + (x - a) * v[m])
        BY <2>9, <3>1
      <3> DEFINE c == poly[n - (m + 2) + 1]
                 U == u[m + 1]
                 H == h[m + 1]
                 V == v[m]
                 UU == u[m + 2]
                 HH == h[m + 2]
                 VV == v[m + 1]
      <3>3. Cong(UU, U * x + c) /\ Cong(HH, H * a + c) /\ Cong(VV, V * x + H)
        BY <1>1, <2>1, <2>3, <3>1
      <3>4. /\ U \in Int /\ H \in Int /\ V \in Int /\ UU \in Int /\ HH \in Int
            /\ VV \in Int /\ c \in Int
        BY <2>5, <2>6, <2>7, <3>1
      <3>5. Cong(U, H + (x - a) * V)
        BY <3>2
      <3> HIDE DEF c, U, H, V, UU, HH, VV
      <3>6. Cong(U * x + c, (H + (x - a) * V) * x + c)
        <4>1. H + (x - a) * V \in Int /\ U * x \in Int
              /\ (H + (x - a) * V) * x \in Int
          BY <2>4, <3>4
        <4>2. Cong(x, x) /\ Cong(c, c)
          BY CongLaws
        <4>3. Cong(U * x, (H + (x - a) * V) * x)
          BY <2>4, <3>4, <3>5, <4>1, <4>2, CongOps, Zenon
        <4> QED
          BY <3>4, <4>1, <4>2, <4>3, CongOps, Zenon
      <3>7. Cong((x - a) * VV, (x - a) * (V * x + H))
        <4>1. x - a \in Int /\ V * x + H \in Int
          BY <2>4, <3>4
        <4> QED
          BY <3>3, <3>4, <4>1, CongScale, Zenon
      <3>8. Cong(HH + (x - a) * VV, (H * a + c) + (x - a) * (V * x + H))
        <4>1. /\ (x - a) * VV \in Int /\ (x - a) * (V * x + H) \in Int
              /\ H * a + c \in Int
          BY <2>4, <3>4
        <4> QED
          BY <3>3, <3>4, <3>7, <4>1, CongOps, Zenon
      <3>9. (H + (x - a) * V) * x + c = (H * a + c) + (x - a) * (V * x + H)
        BY <2>4, <3>4
      <3>10. Cong(UU, HH + (x - a) * VV)
        BY <3>3, <3>6, <3>8, <3>9, CongLaws
      <3> QED
        BY <3>10 DEF UU, HH, VV
    <2>10. \A m \in Nat : m \in M
      <3> HIDE DEF M
      <3> QED
        BY <2>8, <2>9, NatSetInduction
    <2>11. Cong(u[n], h[n] + (x - a) * v[n - 1])
      <3>1. n - 1 \in Nat /\ (n - 1) + 1 = n
        BY <1>2
      <3>2. n - 1 \in M
        BY <2>10, <3>1
      <3> QED
        BY <1>2, <3>1, <3>2
    <2> QED
      BY <1>1, <2>1, <2>2, <2>11
  <1> QED
    BY <1>3, <1>5

-----------------------------------------------------------------------------
(* Interpolation *)

\* No two participants have the same node.
Distinct(x, D) == \A i, j \in D : x[i] = x[j] => i = j

\* The factors and the entries of lagrange_at_zero()'s row for the nodes in s.
Factor(x, i, j) == Mul(Neg(x[j]), Invert(Sub(x[i], x[j])))
Row(x, s, i) == Product([j \in s \ {i} |-> Factor(x, i, j)])

\* A factor, multiplied by the difference of its nodes.
LEMMA FactorFacts ==
    ASSUME NEW D, NEW x \in [D -> Scalar], Distinct(x, D),
           NEW i \in D, NEW j \in D, i # j
    PROVE  /\ Factor(x, i, j) \in Scalar
           /\ Cong(Factor(x, i, j) * (x[i] - x[j]), -x[j])
PROOF
  <1> DEFINE a == x[i]
             b == x[j]
             d == Sub(a, b)
             v == Invert(d)
             m == Neg(b)
             f == Mul(m, v)
  <1>1. a \in Scalar /\ b \in Scalar /\ a \in Int /\ b \in Int /\ a # b
    BY Scalars DEF Distinct
  <1>2. d \in Int /\ Cong(d, a - b) /\ a - b \in Int
    <2>1. a - b \in Int
      BY <1>1
    <2>2. d \in Scalar /\ Cong(d, a - b)
      BY <1>1, FieldIs, Zenon
    <2> QED
      BY <2>1, <2>2, Scalars
  <1>3. ~Cong(d, 0)
    <2> SUFFICES ASSUME Cong(d, 0) PROVE FALSE
      OBVIOUS
    <2>1. Cong(a - b, 0)
      BY <1>2, CongLaws
    <2>2. Cong(b, b)
      BY CongLaws
    <2>3. Cong((a - b) + b, 0 + b)
      BY <1>1, <1>2, <2>1, <2>2, CongOps
    <2>4. (a - b) + b = a /\ 0 + b = b
      BY <1>1
    <2> QED
      BY <1>1, <2>3, <2>4, CongScalar
  <1> HIDE DEF d
  <1>4. v \in Int /\ Cong(d * v, 1)
    BY <1>2, <1>3, FieldInverse, Scalars
  <1> HIDE DEF v
  <1>5. m \in Int /\ Cong(m, -b)
    <2>0. 0 \in Int
      OBVIOUS
    <2>1. Sub(0, b) \in Scalar /\ Cong(Sub(0, b), 0 - b)
      BY <1>1, <2>0, FieldIs, Zenon
    <2>2. 0 - b = -b
      BY <1>1
    <2> QED
      BY <2>1, <2>2, Scalars DEF Neg
  <1> HIDE DEF m
  <1>6. f \in Scalar /\ f \in Int /\ Cong(f, m * v)
    <2>1. f \in Scalar /\ Cong(f, m * v)
      BY <1>4, <1>5, FieldIs
    <2> QED
      BY <2>1, Scalars
  <1> HIDE DEF f
  <1>7. Cong(f * (a - b), -b)
    <2>1. m * v \in Int /\ (m * v) * d = m * (d * v) /\ d * v \in Int
          /\ m * 1 = m /\ -b \in Int /\ 1 \in Int
      BY <1>1, <1>2, <1>4, <1>5
    <2>2. Cong(a - b, d)
      BY <1>2, CongLaws
    <2>3. Cong(f * (a - b), (m * v) * d)
      BY <1>2, <1>6, <2>1, <2>2, CongOps
    <2>4. Cong(m * (d * v), m * 1)
      BY <1>4, <1>5, <2>1, CongScale, Zenon
    <2> QED
      BY <1>5, <2>1, <2>3, <2>4, CongLaws
  <1> QED
    BY <1>6, <1>7 DEF f, m, v, d, Factor

\* A row's entry, and how it changes with one node less.
LEMMA RowFacts ==
    ASSUME NEW D, IsFiniteSet(D), NEW x \in [D -> Scalar], Distinct(x, D),
           NEW s \in SUBSET D, NEW i \in s
    PROVE  /\ Row(x, s, i) \in Scalar
           /\ s = {i} => Row(x, s, i) = 1
           /\ \A a \in s : a # i =>
                Cong(Row(x, s, i), Factor(x, i, a) * Row(x, s \ {a}, i))
PROOF
  <1> DEFINE E(t) == t \ {i}
             F(t) == [j \in t \ {i} |-> Factor(x, i, j)]
  <1>1. \A j \in D : j # i => Factor(x, i, j) \in Scalar
    BY FactorFacts
  <1>2. \A t \in SUBSET D : IsFiniteSet(E(t)) /\ F(t) \in [E(t) -> Scalar]
    BY <1>1, FS_Subset
  <1>3. \A t \in SUBSET D : /\ Product(F(t)) \in Scalar
                            /\ E(t) = {} => Product(F(t)) = 1
    <2> HIDE DEF E, F
    <2> QED
      BY <1>2, ProductSplit
  <1>4. ASSUME NEW a \in s, a # i
        PROVE  Cong(Row(x, s, i), Factor(x, i, a) * Row(x, s \ {a}, i))
    <2>1. /\ a \in E(s) /\ E(s) \ {a} = E(s \ {a})
          /\ F(s)[a] = Factor(x, i, a)
          /\ Part(F(s), E(s) \ {a}) = F(s \ {a})
      BY <1>4 DEF Part
    <2>2. s \ {a} \in SUBSET D
      OBVIOUS
    <2>3. Product(F(s)) = Mul(F(s)[a], Product(Part(F(s), E(s) \ {a})))
      <3> HIDE DEF E, F
      <3> QED
        BY <1>2, <2>1, ProductSplit
    <2>4. Product(F(s)) = Mul(Factor(x, i, a), Product(F(s \ {a})))
      BY <2>1, <2>3
    <2>5. Factor(x, i, a) \in Int /\ Product(F(s \ {a})) \in Int
      <3> HIDE DEF E, F
      <3> QED
        BY <1>1, <1>3, <1>4, <2>2, Scalars
    <2>6. Row(x, s, i) = Product(F(s)) /\ Row(x, s \ {a}, i) = Product(F(s \ {a}))
      BY DEF Row
    <2> HIDE DEF E, F
    <2>7. Cong(Mul(Factor(x, i, a), Product(F(s \ {a}))),
               Factor(x, i, a) * Product(F(s \ {a})))
      BY <2>5, FieldIs, Zenon
    <2> QED
      BY <2>4, <2>6, <2>7
  <1>5. Row(x, s, i) = Product(F(s))
    BY DEF Row
  <1>6. s = {i} => E(s) = {}
    OBVIOUS
  <1> HIDE DEF E, F
  <1> QED
    BY <1>3, <1>4, <1>5, <1>6

\* The relation between the entries of the rows with and without the nodes of
\* a and b.
LEMMA RowExchange ==
    ASSUME NEW D, IsFiniteSet(D), NEW x \in [D -> Scalar], Distinct(x, D),
           NEW s \in SUBSET D, NEW a \in s, NEW b \in s, a # b
    PROVE  /\ Cong((x[b] - x[a]) * Row(x, s, a), x[b] * Row(x, s \ {b}, a))
           /\ Cong((x[b] - x[a]) * Row(x, s, b), (-x[a]) * Row(x, s \ {a}, b))
           /\ \A i \in s \ {a, b} :
                Cong((x[b] - x[a]) * Row(x, s, i),
                     (-x[a]) * Row(x, s \ {a}, i) + x[b] * Row(x, s \ {b}, i))
PROOF
  <1>1. x[a] \in Int /\ x[b] \in Int /\ \A i \in D : x[i] \in Int
    BY Scalars
  <1>2. ASSUME NEW t \in SUBSET D, NEW i \in t
        PROVE  /\ Row(x, t, i) \in Int
               /\ \A c \in t : c # i =>
                    /\ Factor(x, i, c) \in Int
                    /\ Cong(Row(x, t, i), Factor(x, i, c) * Row(x, t \ {c}, i))
                    /\ Cong(Factor(x, i, c) * (x[i] - x[c]), -x[c])
    BY RowFacts, FactorFacts, Scalars
  \* One entry, with its node's own factor taken out.
  <1>3. ASSUME NEW i \in s, NEW c \in s, c # i
        PROVE  Cong((x[i] - x[c]) * Row(x, s, i), (-x[c]) * Row(x, s \ {c}, i))
    <2> DEFINE R == Row(x, s \ {c}, i)
               S == Row(x, s, i)
               F == Factor(x, i, c)
               u == x[i] - x[c]
    <2>1. /\ R \in Int /\ S \in Int /\ F \in Int /\ Cong(S, F * R)
          /\ Cong(F * u, -x[c])
      BY <1>2, <1>3
    <2>2. u \in Int /\ -x[c] \in Int
      BY <1>1
    <2> HIDE DEF R, S, F, u
    <2>3. /\ F * R \in Int /\ F * u \in Int
          /\ u * (F * R) = (F * u) * R /\ (-x[c]) * R = R * (-x[c])
          /\ (F * u) * R = R * (F * u)
      BY <2>1, <2>2
    <2>4. Cong(u * S, u * (F * R))
      BY <2>1, <2>2, <2>3, CongScale, Zenon
    <2>5. Cong(R * (F * u), R * (-x[c]))
      BY <2>1, <2>2, <2>3, CongScale, Zenon
    <2>6. Cong(u * S, (-x[c]) * R)
      BY <2>3, <2>4, <2>5, CongLaws
    <2> QED
      BY <2>6 DEF u, S, R
  <1>4. Cong((x[b] - x[a]) * Row(x, s, b), (-x[a]) * Row(x, s \ {a}, b))
    BY <1>3
  <1>5. Cong((x[b] - x[a]) * Row(x, s, a), x[b] * Row(x, s \ {b}, a))
    <2> DEFINE S == Row(x, s, a)
               R == Row(x, s \ {b}, a)
    <2>1. Cong((x[a] - x[b]) * S, (-x[b]) * R)
      BY <1>3
    <2>2. S \in Int /\ R \in Int
      BY <1>2
    <2> HIDE DEF S, R
    <2>3. /\ (x[b] - x[a]) * S = (-1) * ((x[a] - x[b]) * S)
          /\ x[b] * R = (-1) * ((-x[b]) * R)
          /\ (x[a] - x[b]) * S \in Int /\ (-x[b]) * R \in Int /\ -1 \in Int
      BY <1>1, <2>2
    <2>4. Cong((-1) * ((x[a] - x[b]) * S), (-1) * ((-x[b]) * R))
      BY <2>1, <2>3, CongScale, Zenon
    <2> QED
      BY <2>3, <2>4 DEF S, R
  <1>6. ASSUME NEW i \in s \ {a, b}
        PROVE  Cong((x[b] - x[a]) * Row(x, s, i),
                    (-x[a]) * Row(x, s \ {a}, i) + x[b] * Row(x, s \ {b}, i))
    <2> DEFINE S == Row(x, s, i)
               Ra == Row(x, s \ {a}, i)
               Rb == Row(x, s \ {b}, i)
               y == x[i]
    <2>1. Cong((y - x[a]) * S, (-x[a]) * Ra) /\ Cong((y - x[b]) * S, (-x[b]) * Rb)
      BY <1>3
    <2>2. S \in Int /\ Ra \in Int /\ Rb \in Int /\ y \in Int
      BY <1>1, <1>2
    <2> HIDE DEF S, Ra, Rb, y
    <2>3. /\ (y - x[a]) * S \in Int /\ (-x[a]) * Ra \in Int
          /\ (y - x[b]) * S \in Int /\ (-x[b]) * Rb \in Int
      BY <1>1, <2>2
    <2>4. Cong((y - x[a]) * S - (y - x[b]) * S, (-x[a]) * Ra - (-x[b]) * Rb)
      BY <2>1, <2>3, CongOps, Zenon
    <2>5. /\ (y - x[a]) * S - (y - x[b]) * S = (x[b] - x[a]) * S
          /\ (-x[a]) * Ra - (-x[b]) * Rb = (-x[a]) * Ra + x[b] * Rb
      BY <1>1, <2>2
    <2> QED
      BY <2>4, <2>5 DEF S, Ra, Rb
  <1> QED
    BY <1>4, <1>5, <1>6

\* Different nodes have an invertible difference.
LEMMA Apart ==
    ASSUME NEW a \in Scalar, NEW b \in Scalar, Cong(a - b, 0)
    PROVE  a = b
PROOF
  <1>1. a \in Int /\ b \in Int /\ a - b \in Int /\ 0 \in Int
    BY Scalars
  <1>2. Cong(b, b)
    BY CongLaws
  <1>3. Cong((a - b) + b, 0 + b)
    BY <1>1, <1>2, CongOps, Zenon
  <1>4. (a - b) + b = a /\ 0 + b = b
    BY <1>1
  <1> QED
    BY <1>3, <1>4, CongScalar

\* What is invertible cancels.
LEMMA Cancel ==
    ASSUME NEW u \in Int, ~Cong(u, 0), NEW p \in Int, NEW q \in Int,
           Cong(u * p, u * q)
    PROVE  Cong(p, q)
PROOF
  <1> DEFINE v == Invert(u)
  <1>1. v \in Int /\ Cong(u * v, 1)
    BY FieldInverse, Scalars
  <1> HIDE DEF v
  <1>2. /\ u * v \in Int /\ u * p \in Int /\ u * q \in Int /\ 1 \in Int
        /\ p * (u * v) = v * (u * p) /\ q * (u * v) = v * (u * q)
        /\ p * 1 = p /\ q * 1 = q
    BY <1>1
  <1>3. Cong(v * (u * p), v * (u * q))
    BY <1>1, <1>2, CongScale, Zenon
  <1>4. Cong(p * (u * v), p * 1) /\ Cong(q * (u * v), q * 1)
    BY <1>1, <1>2, CongScale, Zenon
  <1> QED
    BY <1>2, <1>3, <1>4, CongLaws

\* The whole row.
Rows(x, s) == [i \in s |-> Row(x, s, i)]

\* The entries of a row sum to one.
LEMMA RowsSumToOne ==
    ASSUME NEW D, IsFiniteSet(D), NEW x \in [D -> Scalar], Distinct(x, D)
    PROVE  \A s \in SUBSET D : s # {} => Sum(Rows(x, s)) = 1
PROOF
  <1> DEFINE T == {s \in SUBSET D : s # {} => Sum(Rows(x, s)) = 1}
  <1>1. ASSUME NEW s \in SUBSET D
        PROVE  /\ IsFiniteSet(s) /\ Rows(x, s) \in [s -> Scalar]
               /\ \A i \in s : Rows(x, s)[i] = Row(x, s, i)
               /\ \A i \in s : Row(x, s, i) \in Int
    BY FS_Subset, RowFacts, Scalars DEF Rows
  <1>2. ASSUME NEW s \in SUBSET D, NEW t \in SUBSET s
        PROVE  Sum(Part(Rows(x, s), t)) \in Int
    BY <1>1, PartSum, Scalars
  <1>3. ASSUME NEW s \in SUBSET D, NEW t \in SUBSET s, NEW a \in t
        PROVE  Cong(Sum(Part(Rows(x, s), t)),
                    Row(x, s, a) + Sum(Part(Rows(x, s), t \ {a})))
    <2>1. Cong(Sum(Part(Rows(x, s), t)),
               Rows(x, s)[a] + Sum(Part(Rows(x, s), t \ {a})))
      BY <1>1, PartSum
    <2> QED
      BY <1>1, <2>1
  <1>4. \A s \in SUBSET D : Part(Rows(x, s), s) = Rows(x, s)
    BY DEF Part, Rows
  <1>5. ASSUME NEW s \in SUBSET D, NEW a \in s, s = {a}
        PROVE  Sum(Rows(x, s)) = 1
    <2>1. Row(x, s, a) = 1
      BY <1>5, RowFacts
    <2>2. Sum(Part(Rows(x, s), s \ {a})) = 0
      <3>1. s \ {a} = {} /\ s \ {a} \in SUBSET s
        BY <1>5
      <3> QED
        BY <1>1, <3>1, PartSum
    <2>3. Cong(Sum(Rows(x, s)), 1 + 0)
      <3>1. Cong(Sum(Part(Rows(x, s), s)),
                 Row(x, s, a) + Sum(Part(Rows(x, s), s \ {a})))
        BY <1>3
      <3> QED
        BY <1>4, <2>1, <2>2, <3>1
    <2>4. Sum(Rows(x, s)) \in Scalar
      BY <1>1, SumSplit
    <2>5. 1 + 0 = 1 /\ 1 \in Scalar
      BY Scalars
    <2> QED
      BY <2>3, <2>4, <2>5, CongScalar, Zenon
  <1>6. ASSUME NEW s \in SUBSET D, NEW a \in s, NEW b \in s, a # b,
               s \ {a} \in T, s \ {b} \in T
        PROVE  Sum(Rows(x, s)) = 1
    <2> DEFINE sa == s \ {a}
               sb == s \ {b}
               t == sa \ {b}
               u == x[b] - x[a]
               U == Sum(Rows(x, s))
               W == Sum(Part(Rows(x, s), t))
               Wa == Sum(Part(Rows(x, sa), t))
               Wb == Sum(Part(Rows(x, sb), t))
    <2>1. /\ sa \in SUBSET D /\ sb \in SUBSET D /\ t \in SUBSET D
          /\ t \in SUBSET s /\ t \in SUBSET sa /\ t \in SUBSET sb
          /\ t = sb \ {a} /\ b \in sa /\ a \in sb /\ sa \in SUBSET s
          /\ t = s \ {a, b}
      BY <1>6
    <2>2. /\ x[a] \in Int /\ x[b] \in Int /\ u \in Int /\ -x[a] \in Int
          /\ ~Cong(u, 0)
      <3>1. x[a] \in Scalar /\ x[b] \in Scalar /\ x[a] # x[b]
        BY <1>6 DEF Distinct
      <3>2. x[a] \in Int /\ x[b] \in Int
        BY <3>1, Scalars
      <3>3. u \in Int /\ -x[a] \in Int
        BY <3>2
      <3>4. ~Cong(u, 0)
        BY <3>1, Apart, Zenon
      <3> QED
        BY <3>2, <3>3, <3>4
    <2>3. Sum(Rows(x, sa)) = 1 /\ Sum(Rows(x, sb)) = 1
      BY <1>6, <2>1
    <2>4. /\ U \in Int /\ W \in Int /\ Wa \in Int /\ Wb \in Int /\ U \in Scalar
      <3>1. U \in Scalar
        BY <1>1, SumSplit
      <3> QED
        BY <1>2, <2>1, <3>1, Scalars
    <2> DEFINE Ra == Row(x, s, a)
               Rb == Row(x, s, b)
               Pb == Row(x, sa, b)
               Pa == Row(x, sb, a)
    <2>5. Ra \in Int /\ Rb \in Int /\ Pa \in Int /\ Pb \in Int
      BY <1>1, <2>1
    <2>6. /\ Cong(u * Ra, x[b] * Pa)
          /\ Cong(u * Rb, (-x[a]) * Pb)
          /\ \A i \in t : Cong(u * Row(x, s, i),
                               (-x[a]) * Row(x, sa, i) + x[b] * Row(x, sb, i))
      BY <1>6, <2>1, RowExchange
    <2>7. Cong(u * W, (-x[a]) * Wa + x[b] * Wb)
      <3> DEFINE k == Part(Rows(x, s), t)
                 f == Part(Rows(x, sa), t)
                 g == Part(Rows(x, sb), t)
      <3>1. /\ k \in [t -> Scalar] /\ f \in [t -> Scalar] /\ g \in [t -> Scalar]
            /\ \A i \in t : /\ k[i] = Row(x, s, i) /\ f[i] = Row(x, sa, i)
                            /\ g[i] = Row(x, sb, i)
        BY <1>1, <2>1 DEF Part
      <3>2. \A i \in t : Cong(u * k[i], (-x[a]) * f[i] + x[b] * g[i])
        BY <2>6, <3>1
      <3>3. IsFiniteSet(t)
        BY <1>1, <2>1
      <3> HIDE DEF k, f, g, t, u
      <3>4. Cong(u * Sum(k), (-x[a]) * Sum(f) + x[b] * Sum(g))
        BY <2>2, <3>1, <3>2, <3>3, SumLinear
      <3> QED
        BY <3>4 DEF k, f, g
    <2>8. /\ Cong(U, Ra + Sum(Part(Rows(x, s), sa)))
          /\ Cong(Sum(Part(Rows(x, s), sa)), Rb + W)
          /\ Cong(1, Pb + Wa)
          /\ Cong(1, Pa + Wb)
      <3>1. Cong(Sum(Part(Rows(x, s), s)), Ra + Sum(Part(Rows(x, s), sa)))
        BY <1>3
      <3>2. Cong(Sum(Part(Rows(x, s), sa)), Rb + W)
        BY <1>3, <2>1
      <3>3. Cong(Sum(Part(Rows(x, sa), sa)), Pb + Wa)
        BY <1>3, <2>1
      <3>4. Cong(Sum(Part(Rows(x, sb), sb)), Pa + Wb)
        BY <1>3, <2>1
      <3> QED
        BY <1>4, <2>1, <2>3, <3>1, <3>2, <3>3, <3>4
    <2>9. Sum(Part(Rows(x, s), sa)) \in Int
      BY <1>2, <2>1
    <2> DEFINE V == Sum(Part(Rows(x, s), sa))
               xa == x[a]
               xb == x[b]
    <2> HIDE DEF U, W, Wa, Wb, Ra, Rb, Pa, Pb, V, u, t, sa, sb
    <2>10. Cong(U, Ra + (Rb + W))
      <3>1. Cong(Ra, Ra)
        BY CongLaws
      <3>2. V \in Int /\ Rb + W \in Int /\ Cong(V, Rb + W) /\ Cong(U, Ra + V)
        BY <2>4, <2>5, <2>8, <2>9 DEF V
      <3>3. Cong(Ra + V, Ra + (Rb + W))
        BY <2>5, <3>1, <3>2, CongOps, Zenon
      <3> QED
        BY <3>2, <3>3, CongLaws
    <2>11. Cong(u * U, u * Ra + (u * Rb + u * W))
      <3>1. Ra + (Rb + W) \in Int
        BY <2>4, <2>5
      <3>2. Cong(u * U, u * (Ra + (Rb + W)))
        BY <2>2, <2>4, <2>10, <3>1, CongScale, Zenon
      <3>3. u * (Ra + (Rb + W)) = u * Ra + (u * Rb + u * W)
        BY <2>2, <2>4, <2>5
      <3> QED
        BY <3>2, <3>3
    <2>12. Cong(u * Ra + (u * Rb + u * W),
                xb * Pa + ((-xa) * Pb + ((-xa) * Wa + xb * Wb)))
      <3>1. /\ u * Ra \in Int /\ u * Rb \in Int /\ u * W \in Int
            /\ xb * Pa \in Int /\ (-xa) * Pb \in Int
            /\ (-xa) * Wa + xb * Wb \in Int
            /\ u * Rb + u * W \in Int
            /\ (-xa) * Pb + ((-xa) * Wa + xb * Wb) \in Int
        BY <2>2, <2>4, <2>5
      <3>2. Cong(u * Rb + u * W, (-xa) * Pb + ((-xa) * Wa + xb * Wb))
        BY <2>6, <2>7, <3>1, CongOps, Zenon
      <3> QED
        BY <2>6, <3>1, <3>2, CongOps, Zenon
    <2>13. Cong(u * 1, (-xa) * (Pb + Wa) + xb * (Pa + Wb))
      <3>1. /\ Pb + Wa \in Int /\ Pa + Wb \in Int /\ 1 \in Int
            /\ (-xa) * 1 \in Int /\ xb * 1 \in Int
            /\ (-xa) * (Pb + Wa) \in Int /\ xb * (Pa + Wb) \in Int
            /\ xa \in Int /\ xb \in Int /\ -xa \in Int
        BY <2>2, <2>4, <2>5
      <3>2. Cong((-xa) * 1, (-xa) * (Pb + Wa)) /\ Cong(xb * 1, xb * (Pa + Wb))
        BY <2>8, <3>1, CongScale, Zenon
      <3>3. Cong((-xa) * 1 + xb * 1, (-xa) * (Pb + Wa) + xb * (Pa + Wb))
        BY <3>1, <3>2, CongOps, Zenon
      <3>4. (-xa) * 1 + xb * 1 = u * 1
        BY <2>2 DEF u
      <3> QED
        BY <3>3, <3>4
    <2>14. xb * Pa + ((-xa) * Pb + ((-xa) * Wa + xb * Wb))
             = (-xa) * (Pb + Wa) + xb * (Pa + Wb)
      BY <2>2, <2>4, <2>5
    <2>15. Cong(u * U, u * 1)
      BY <2>11, <2>12, <2>13, <2>14, CongLaws
    <2>16. Cong(U, 1)
      <3>1. 1 \in Int
        OBVIOUS
      <3> QED
        BY <2>2, <2>4, <2>15, <3>1, Cancel, Zenon
    <2>17. U = 1
      BY <2>4, <2>16, Scalars, CongScalar
    <2> QED
      BY <2>17 DEF U
  <1>7. ASSUME NEW s \in SUBSET D, \A a \in s : s \ {a} \in T PROVE s \in T
    <2> SUFFICES ASSUME s # {} PROVE Sum(Rows(x, s)) = 1
      OBVIOUS
    <2>1. PICK a \in s : TRUE
      OBVIOUS
    <2>2. CASE s = {a}
      BY <1>5, <2>2
    <2>3. CASE s # {a}
      <3>1. PICK b \in s : a # b
        BY <2>1, <2>3
      <3> QED
        BY <1>6, <1>7, <3>1
    <2> QED
      BY <2>2, <2>3
  <1>8. \A s \in SUBSET D : s \in T
    <2> HIDE DEF T
    <2> QED
      BY <1>7, SubsetInduction
  <1> QED
    BY <1>8

\* What interpolation sums up for a polynomial.
Terms(x, s, poly) == [i \in s |-> Mul(Row(x, s, i), Evaluate(poly, x[i]))]

\* A polynomial with no more coefficients than there are nodes is
\* interpolated at zero.
LEMMA Lagrange ==
    ASSUME NEW D, IsFiniteSet(D), NEW x \in [D -> Scalar], Distinct(x, D)
    PROVE  \A s \in SUBSET D : \A poly \in Seq(Scalar) :
             Len(poly) \in 1..Cardinality(s) =>
                Sum(Terms(x, s, poly)) = poly[1]
PROOF
  <1> DEFINE T == {s \in SUBSET D : \A poly \in Seq(Scalar) :
                     Len(poly) \in 1..Cardinality(s) =>
                        Sum(Terms(x, s, poly)) = poly[1]}
  <1>1. ASSUME NEW s \in SUBSET D
        PROVE  /\ IsFiniteSet(s) /\ Cardinality(s) \in Nat
               /\ Rows(x, s) \in [s -> Scalar]
               /\ \A i \in s : Rows(x, s)[i] = Row(x, s, i)
               /\ \A i \in s : Row(x, s, i) \in Int
    BY FS_Subset, FS_CardinalityType, RowFacts, Scalars DEF Rows
  <1>2. ASSUME NEW s \in SUBSET D, NEW poly \in Seq(Scalar)
        PROVE  /\ Terms(x, s, poly) \in [s -> Scalar]
               /\ \A i \in s :
                    /\ Evaluate(poly, x[i]) \in Int
                    /\ Cong(Terms(x, s, poly)[i],
                            Row(x, s, i) * Evaluate(poly, x[i]))
    <2>1. ASSUME NEW i \in s
          PROVE  /\ Evaluate(poly, x[i]) \in Int
                 /\ Mul(Row(x, s, i), Evaluate(poly, x[i])) \in Scalar
                 /\ Cong(Mul(Row(x, s, i), Evaluate(poly, x[i])),
                         Row(x, s, i) * Evaluate(poly, x[i]))
      <3>1. Evaluate(poly, x[i]) \in Int /\ Row(x, s, i) \in Int
        BY <1>1, EvaluateFacts, Scalars
      <3> QED
        BY <3>1, FieldIs, Zenon
    <2> QED
      BY <2>1 DEF Terms
  \* A constant: the row sums to one.
  <1>3. ASSUME NEW s \in SUBSET D, s # {}, NEW poly \in Seq(Scalar),
               Len(poly) = 1
        PROVE  Sum(Terms(x, s, poly)) = poly[1]
    <2> DEFINE c == poly[1]
               k == Terms(x, s, poly)
               f == Rows(x, s)
    <2>1. c \in Scalar /\ c \in Int
      <3>1. c \in Scalar
        BY <1>3
      <3> QED
        BY <3>1, Scalars
    <2>2. \A i \in s : Evaluate(poly, x[i]) = c
      BY <1>3, EvaluateFacts
    <2>3. /\ k \in [s -> Scalar] /\ f \in [s -> Scalar] /\ IsFiniteSet(s)
          /\ \A i \in s : f[i] \in Int /\ k[i] \in Int /\ Cong(k[i], f[i] * c)
      BY <1>1, <1>2, <2>2, Scalars
    <2>4. Sum(f) = 1
      BY <1>3, RowsSumToOne
    <2>5. Sum(k) \in Scalar
      BY <2>3, SumSplit
    <2> HIDE DEF k, f, c
    <2>6. \A i \in s : Cong(1 * k[i], c * f[i] + 0 * f[i])
      <3>1. ASSUME NEW i \in s
            PROVE  1 * k[i] = k[i] /\ c * f[i] + 0 * f[i] = f[i] * c
        BY <2>1, <2>3
      <3> QED
        BY <2>3, <3>1
    <2>7. Cong(1 * Sum(k), c * Sum(f) + 0 * Sum(f))
      <3>1. 1 \in Int /\ 0 \in Int
        OBVIOUS
      <3> QED
        BY <2>1, <2>3, <2>6, <3>1, SumLinear
    <2>8. 1 * Sum(k) = Sum(k) /\ c * Sum(f) + 0 * Sum(f) = c
      <3>1. Sum(k) \in Int
        BY <2>5, Scalars
      <3>2. 1 * Sum(k) = Sum(k)
        BY <3>1
      <3>3. c * 1 + 0 * 1 = c
        BY <2>1
      <3> QED
        BY <2>4, <3>2, <3>3
    <2>9. Sum(k) = c
      BY <2>1, <2>5, <2>7, <2>8, CongScalar
    <2> QED
      BY <2>9 DEF k, c
  \* More coefficients: a node is divided out.
  <1>4. ASSUME NEW s \in SUBSET D, NEW a \in s, s \ {a} \in T,
               NEW poly \in Seq(Scalar), Len(poly) \in 2..Cardinality(s)
        PROVE  Sum(Terms(x, s, poly)) = poly[1]
    <2> DEFINE r == s \ {a}
               A == x[a]
               p == Evaluate(poly, A)
    <2>1. Len(poly) > 1 /\ Len(poly) \in Nat
      BY <1>1, <1>4
    <2>2. A \in Scalar /\ p \in Scalar /\ A \in Int /\ p \in Int /\ -A \in Int
      <3>1. A \in Scalar
        OBVIOUS
      <3>2. p \in Scalar
        BY <3>1, EvaluateFacts
      <3>3. A \in Int /\ p \in Int
        BY <3>1, <3>2, Scalars
      <3>4. -A \in Int
        BY <3>3
      <3> QED
        BY <3>1, <3>2, <3>3, <3>4
    <2>3. PICK q \in Seq(Scalar) :
             /\ Len(q) = Len(poly) - 1
             /\ \A z \in Scalar :
                  Cong(Evaluate(poly, z), p + (z - A) * Evaluate(q, z))
      BY <2>1, <2>2, Quotient
    <2>4. r \in SUBSET D /\ Sum(Terms(x, r, q)) = q[1]
      <3>1. r \in SUBSET D
        OBVIOUS
      <3>2. Cardinality(r) = Cardinality(s) - 1
        BY <1>1, FS_RemoveElement
      <3>3. Len(q) \in 1..Cardinality(r)
        BY <1>1, <1>4, <2>1, <2>3, <3>2
      <3> QED
        BY <1>4, <3>1, <3>3
    <2> DEFINE k == Terms(x, s, poly)
               f == Rows(x, s)
               g == Terms(x, r, q)
               E == Evaluate(q, 0)
    <2>5. /\ k \in [s -> Scalar] /\ f \in [s -> Scalar] /\ g \in [r -> Scalar]
          /\ IsFiniteSet(s) /\ IsFiniteSet(r)
      BY <1>1, <1>2, <2>4
    <2>6. Sum(f) = 1
      BY RowsSumToOne
    <2>7. E = q[1] /\ E \in Int /\ Evaluate(poly, 0) = poly[1] /\ poly[1] \in Scalar
      <3>1. Len(q) > 0 /\ Len(poly) > 0
        BY <2>1, <2>3
      <3>2. /\ E \in Scalar /\ E = q[1]
            /\ Evaluate(poly, 0) \in Scalar /\ Evaluate(poly, 0) = poly[1]
        BY <3>1, EvaluateFacts, Scalars
      <3> QED
        BY <3>2, Scalars
    <2>8. /\ Sum(k) \in Scalar /\ Sum(k) \in Int
          /\ Sum(Part(k, r)) \in Int /\ Sum(Part(f, r)) \in Int
          /\ Sum(g) \in Int
          /\ Cong(Sum(k), k[a] + Sum(Part(k, r)))
          /\ Cong(1, f[a] + Sum(Part(f, r)))
      <3>1. Part(k, s) = k /\ Part(f, s) = f
        BY <2>5 DEF Part
      <3>2. r \in SUBSET s /\ s \in SUBSET s
        OBVIOUS
      <3> HIDE DEF k, f, g
      <3>3. /\ Sum(Part(k, s)) \in Scalar /\ Sum(Part(k, r)) \in Scalar
            /\ Sum(Part(f, r)) \in Scalar
            /\ Cong(Sum(Part(k, s)), k[a] + Sum(Part(k, s \ {a})))
            /\ Cong(Sum(Part(f, s)), f[a] + Sum(Part(f, s \ {a})))
        BY <2>5, <3>2, PartSum
      <3>4. Sum(g) \in Scalar
        BY <2>5, SumSplit
      <3> QED
        BY <2>6, <3>1, <3>3, <3>4, Scalars
    <2>9. ASSUME NEW i \in r
          PROVE  Cong(1 * Part(k, r)[i], p * Part(f, r)[i] + (-A) * g[i])
      <3> DEFINE R == Row(x, s, i)
                 P == Row(x, r, i)
                 y == x[i]
                 e == Evaluate(poly, y)
                 h == Evaluate(q, y)
                 K == k[i]
                 G == g[i]
      <3>1. /\ i \in s /\ i # a /\ Part(k, r)[i] = K /\ Part(f, r)[i] = R
        BY <1>1 DEF Part
      <3>2. /\ K \in Int /\ G \in Int
            /\ Cong(K, R * e) /\ Cong(G, P * h) /\ e \in Int /\ h \in Int
        BY <1>2, <2>4, <2>5, <3>1, Scalars
      <3>3. R \in Int /\ P \in Int /\ y \in Int /\ y \in Scalar
        BY <1>1, <2>4, <3>1, Scalars
      <3>4. Cong(e, p + (y - A) * h)
        BY <2>3, <3>3
      <3>5. Cong((y - A) * R, (-A) * P)
        <4>1. /\ Cong(R, Factor(x, i, a) * P)
              /\ Factor(x, i, a) \in Int
              /\ Cong(Factor(x, i, a) * (y - A), -A)
          BY <3>1, RowFacts, FactorFacts, Scalars
        <4> DEFINE F == Factor(x, i, a)
        <4> HIDE DEF R, P, y, A, F
        <4>2. /\ F * P \in Int /\ F * (y - A) \in Int /\ y - A \in Int
              /\ (y - A) * (F * P) = P * (F * (y - A))
              /\ P * (-A) = (-A) * P
          BY <2>2, <3>3, <4>1 DEF F
        <4>3. Cong((y - A) * R, (y - A) * (F * P))
          BY <3>3, <4>1, <4>2, CongScale, Zenon DEF F
        <4>4. Cong(P * (F * (y - A)), P * (-A))
          BY <2>2, <3>3, <4>1, <4>2, CongScale, Zenon DEF F
        <4> QED
          BY <4>2, <4>3, <4>4, CongLaws
      <3> HIDE DEF R, P, y, e, h, K, G, A, p, k, g, f
      <3>6. /\ p + (y - A) * h \in Int /\ (y - A) * R \in Int
            /\ (-A) * P \in Int /\ R * e \in Int /\ P * h \in Int
            /\ R * (p + (y - A) * h) = p * R + h * ((y - A) * R)
            /\ h * ((-A) * P) = (-A) * (P * h)
            /\ p * R \in Int /\ h * ((y - A) * R) \in Int
            /\ h * ((-A) * P) \in Int /\ (-A) * G \in Int
        BY <2>2, <3>2, <3>3
      <3>7. Cong(R * e, p * R + h * ((y - A) * R))
        <4>1. Cong(R * e, R * (p + (y - A) * h))
          BY <3>2, <3>3, <3>4, <3>6, CongScale, Zenon
        <4> QED
          BY <3>6, <4>1
      <3>8. Cong(h * ((y - A) * R), h * ((-A) * P))
        BY <3>2, <3>5, <3>6, CongScale, Zenon
      <3>9. Cong((-A) * G, (-A) * (P * h))
        BY <2>2, <3>2, <3>6, CongScale, Zenon
      <3>10. Cong(h * ((y - A) * R), (-A) * G)
        BY <3>6, <3>8, <3>9, CongLaws
      <3>11. Cong(p * R + h * ((y - A) * R), p * R + (-A) * G)
        <4>1. Cong(p * R, p * R)
          BY CongLaws
        <4> QED
          BY <3>6, <3>10, <4>1, CongOps, Zenon
      <3>12. Cong(K, p * R + (-A) * G)
        BY <3>2, <3>7, <3>11, CongLaws
      <3>13. 1 * K = K
        BY <3>2
      <3> QED
        BY <3>1, <3>12, <3>13 DEF G
    <2>10. Cong(Sum(Part(k, r)), p * Sum(Part(f, r)) + (-A) * Sum(g))
      <3>1. Part(k, r) \in [r -> Scalar] /\ Part(f, r) \in [r -> Scalar]
        BY <2>5 DEF Part
      <3>2. 1 \in Int
        OBVIOUS
      <3> HIDE DEF k, f, g, r, A, p
      <3>3. Cong(1 * Sum(Part(k, r)), p * Sum(Part(f, r)) + (-A) * Sum(g))
        BY <2>2, <2>5, <2>9, <3>1, <3>2, SumLinear
      <3>4. 1 * Sum(Part(k, r)) = Sum(Part(k, r))
        BY <2>8
      <3> QED
        BY <3>3, <3>4
    <2>11. Cong(k[a], f[a] * p) /\ k[a] \in Int /\ f[a] \in Int
      BY <1>1, <1>2, <2>5, Scalars
    <2>12. Cong(poly[1], p + (0 - A) * E)
      BY <2>3, <2>7, Scalars
    <2> DEFINE Sk == Sum(Part(k, r))
               Sf == Sum(Part(f, r))
               K == k[a]
               F == f[a]
    <2>13. /\ Cong(Sk, p * Sf + (-A) * E) /\ Cong(K, F * p)
           /\ Cong(Sum(k), K + Sk) /\ Cong(1, F + Sf)
           /\ Sk \in Int /\ Sf \in Int /\ K \in Int /\ F \in Int
      BY <2>4, <2>7, <2>8, <2>10, <2>11
    <2> HIDE DEF k, f, g, E, A, p, Sk, Sf, K, F
    <2>14. Cong(K + Sk, F * p + (p * Sf + (-A) * E))
      <3>1. F * p \in Int /\ p * Sf + (-A) * E \in Int
        BY <2>2, <2>7, <2>13
      <3> QED
        BY <2>13, <3>1, CongOps, Zenon
    <2>15. F * p + (p * Sf + (-A) * E) = p * (F + Sf) + (0 - A) * E
      BY <2>2, <2>7, <2>13
    <2>16. Cong(p * (F + Sf) + (0 - A) * E, p + (0 - A) * E)
      <3>1. /\ F + Sf \in Int /\ (0 - A) * E \in Int /\ p * (F + Sf) \in Int
            /\ p * 1 = p /\ 1 \in Int
        BY <2>2, <2>7, <2>13
      <3>2. Cong(F + Sf, 1) /\ Cong((0 - A) * E, (0 - A) * E)
        BY <2>13, CongLaws
      <3>3. Cong(p * (F + Sf), p * 1)
        BY <2>2, <3>1, <3>2, CongScale, Zenon
      <3>4. Cong(p * (F + Sf), p)
        BY <3>1, <3>3
      <3> QED
        BY <2>2, <3>1, <3>2, <3>4, CongOps, Zenon
    <2>17. Cong(Sum(k), poly[1])
      BY <2>12, <2>13, <2>14, <2>15, <2>16, CongLaws
    <2>18. Sum(k) = poly[1]
      BY <2>7, <2>8, <2>17, CongScalar
    <2> QED
      BY <2>18 DEF k
  <1>5. ASSUME NEW s \in SUBSET D, \A a \in s : s \ {a} \in T PROVE s \in T
    <2> SUFFICES ASSUME NEW poly \in Seq(Scalar),
                        Len(poly) \in 1..Cardinality(s)
                 PROVE  Sum(Terms(x, s, poly)) = poly[1]
      OBVIOUS
    <2>1. Cardinality(s) \in Nat /\ s # {}
      <3>1. Cardinality(s) \in Nat /\ Cardinality(s) # 0
        BY <1>1
      <3> QED
        BY <3>1, FS_EmptySet
    <2>2. PICK a \in s : TRUE
      BY <2>1
    <2>3. CASE Len(poly) = 1
      BY <1>3, <2>1, <2>3
    <2>4. CASE Len(poly) # 1
      <3>1. Len(poly) \in 2..Cardinality(s)
        <4>0. Len(poly) \in Nat
          OBVIOUS
        <4>1. Len(poly) \in 1..Cardinality(s)
          OBVIOUS
        <4>2. ASSUME NEW m \in Nat, NEW n \in Nat, m \in 1..n, m # 1
              PROVE  m \in 2..n
          BY <4>2
        <4> HIDE DEF T
        <4> QED
          BY <2>1, <2>4, <4>0, <4>1, <4>2, Zenon
      <3> HIDE DEF T
      <3> QED
        BY <1>4, <1>5, <2>2, <3>1
    <2> QED
      BY <2>3, <2>4
  <1>6. \A s \in SUBSET D : s \in T
    <2> HIDE DEF T
    <2> QED
      BY <1>5, SubsetInduction
  <1> QED
    BY <1>6

\* interpolate_constant() reads exactly this row.
LEMMA InterpolateRow ==
    ASSUME NEW D, IsFiniteSet(D), NEW nodes \in [D -> Scalar],
           Distinct(nodes, D), NEW values
    PROVE  /\ LagrangeAtZero(nodes) \in [D -> Scalar]
           /\ LagrangeAtZero(nodes) = Rows(nodes, D)
           /\ Interpolate(nodes, values)
                = Sum([i \in D |-> Mul(Row(nodes, D, i), values[i])])
           /\ values \in [D -> Scalar] => Interpolate(nodes, values) \in Scalar
PROOF
  <1>1. DOMAIN nodes = D
    OBVIOUS
  <1>2. LagrangeAtZero(nodes) = Rows(nodes, D)
    BY <1>1, Zenon DEF LagrangeAtZero, Rows, Row, Factor
  <1>3. \A i \in D : Row(nodes, D, i) \in Scalar
    <2>1. D \in SUBSET D
      OBVIOUS
    <2> QED
      BY <2>1, RowFacts
  <1>4. Rows(nodes, D) \in [D -> Scalar]
    BY <1>3 DEF Rows
  <1>5. \A i \in D : LagrangeAtZero(nodes)[i] = Row(nodes, D, i)
    BY <1>2 DEF Rows
  <1> DEFINE f == [i \in D |-> Mul(LagrangeAtZero(nodes)[i], values[i])]
             g == [i \in D |-> Mul(Row(nodes, D, i), values[i])]
  <1>6. f = g
    <2> HIDE DEF LagrangeAtZero
    <2> QED
      BY <1>5
  <1>7. Interpolate(nodes, values) = Sum(f)
    BY <1>1, Zenon DEF Interpolate
  <1>8. ASSUME values \in [D -> Scalar] PROVE Interpolate(nodes, values) \in Scalar
    <2>1. ASSUME NEW i \in D
          PROVE  Mul(Row(nodes, D, i), values[i]) \in Scalar
      <3>1. Row(nodes, D, i) \in Int /\ values[i] \in Int
        BY <1>3, <1>8, Scalars
      <3> QED
        BY <3>1, FieldIs, Zenon
    <2>2. g \in [D -> Scalar]
      BY <2>1
    <2> HIDE DEF f, g
    <2>3. Sum(g) \in Scalar
      BY <2>2, SumSplit
    <2> QED
      BY <1>6, <1>7, <2>3
  <1>9. Interpolate(nodes, values) = Sum(g)
    <2> HIDE DEF f, g
    <2> QED
      BY <1>6, <1>7
  <1> QED
    BY <1>2, <1>4, <1>8, <1>9

\* interpolate_constant() finds the constant of every sharing whose threshold
\* the participants meet.
LEMMA Interpolates ==
    ASSUME NEW D, IsFiniteSet(D), NEW nodes \in [D -> Scalar],
           Distinct(nodes, D), NEW poly \in Seq(Scalar),
           Len(poly) \in 1..Cardinality(D),
           NEW values, \A i \in D : values[i] = Evaluate(poly, nodes[i])
    PROVE  Interpolate(nodes, values) = poly[1]
PROOF
  <1>1. Interpolate(nodes, values)
          = Sum([i \in D |-> Mul(Row(nodes, D, i), values[i])])
    BY InterpolateRow
  <1>2. [i \in D |-> Mul(Row(nodes, D, i), values[i])] = Terms(nodes, D, poly)
    BY Zenon DEF Terms
  <1>3. Sum(Terms(nodes, D, poly)) = poly[1]
    <2>1. D \in SUBSET D
      OBVIOUS
    <2> QED
      BY <2>1, Lagrange
  <1> QED
    BY <1>1, <1>2, <1>3

\* A translation is undone.
LEMMA Translation ==
    ASSUME NEW m \in Scalar, NEW i \in Scalar
    PROVE  SigningShare(i, AnchorShare(m, i)) = m
PROOF
  <1>1. m \in Int /\ i \in Int
    BY Scalars
  <1> DEFINE a == Sub(m, i)
  <1>2. a \in Scalar /\ Cong(a, m - i)
    BY <1>1, FieldIs, Zenon
  <1>3. a \in Int
    BY <1>2, Scalars
  <1> HIDE DEF a
  <1>4. m - i \in Int /\ i + (m - i) = m
    BY <1>1
  <1>5. Add(i, a) \in Scalar /\ Cong(Add(i, a), i + (m - i))
    <2>1. Cong(i, i)
      BY CongLaws
    <2> QED
      BY <1>1, <1>2, <1>3, <1>4, <2>1, FieldOps, Zenon
  <1>6. Add(i, a) = m
    BY <1>4, <1>5, CongScalar
  <1> QED
    BY <1>6 DEF a, SigningShare, AnchorShare

-----------------------------------------------------------------------------
(* Signing equations *)

\* Sums are linear, with three terms.
LEMMA SumOfThree ==
    ASSUME NEW D, IsFiniteSet(D),
           NEW f \in [D -> Scalar], NEW g \in [D -> Scalar],
           NEW h \in [D -> Scalar], NEW k \in [D -> Scalar],
           NEW a \in Int, NEW b \in Int, NEW c \in Int,
           \A i \in D : Cong(k[i], a * f[i] + (b * g[i] + c * h[i]))
    PROVE  Cong(Sum(k), a * Sum(f) + (b * Sum(g) + c * Sum(h)))
PROOF
  <1> DEFINE y == [i \in D |-> (b * g[i] + c * h[i]) % Q]
  <1>1. ASSUME NEW i \in D
        PROVE  /\ f[i] \in Int /\ g[i] \in Int /\ h[i] \in Int /\ k[i] \in Int
               /\ b * g[i] + c * h[i] \in Int /\ a * f[i] \in Int
               /\ y[i] \in Scalar /\ y[i] \in Int
               /\ Cong(y[i], b * g[i] + c * h[i])
    <2>1. f[i] \in Int /\ g[i] \in Int /\ h[i] \in Int /\ k[i] \in Int
      BY Scalars
    <2>2. b * g[i] + c * h[i] \in Int /\ a * f[i] \in Int
      BY <2>1
    <2>3. y[i] = (b * g[i] + c * h[i]) % Q
      OBVIOUS
    <2> HIDE DEF y
    <2>4. /\ (b * g[i] + c * h[i]) % Q \in Scalar
          /\ (b * g[i] + c * h[i]) % Q \in Int
          /\ Cong((b * g[i] + c * h[i]) % Q, b * g[i] + c * h[i])
      BY <2>2, CongRemainder, Zenon
    <2> QED
      BY <2>1, <2>2, <2>3, <2>4, Zenon
  <1>2. y \in [D -> Scalar]
    <2>1. \A i \in D : (b * g[i] + c * h[i]) % Q \in Scalar
      BY <1>1
    <2> QED
      BY <2>1
  <1> HIDE DEF y
  <1>3. 1 \in Int
    OBVIOUS
  <1>4. ASSUME NEW i \in D PROVE Cong(1 * y[i], b * g[i] + c * h[i])
    <2>1. 1 * y[i] = y[i]
      BY <1>1
    <2> QED
      BY <1>1, <2>1
  <1>5. ASSUME NEW i \in D PROVE Cong(1 * k[i], a * f[i] + 1 * y[i])
    <2>1. 1 * y[i] = y[i] /\ 1 * k[i] = k[i]
      BY <1>1
    <2>2. Cong(a * f[i], a * f[i]) /\ Cong(b * g[i] + c * h[i], y[i])
      BY <1>1, CongLaws
    <2>3. Cong(a * f[i] + (b * g[i] + c * h[i]), a * f[i] + y[i])
      BY <1>1, <2>2, CongOps, Zenon
    <2> QED
      BY <2>1, <2>3, CongLaws
  <1>6. Cong(1 * Sum(y), b * Sum(g) + c * Sum(h))
    BY <1>2, <1>3, <1>4, SumLinear
  <1>7. Cong(1 * Sum(k), a * Sum(f) + 1 * Sum(y))
    BY <1>2, <1>3, <1>5, SumLinear
  <1>8. /\ Sum(y) \in Int /\ Sum(k) \in Int /\ Sum(f) \in Int /\ Sum(g) \in Int
        /\ Sum(h) \in Int
    <2>1. /\ Sum(y) \in Scalar /\ Sum(k) \in Scalar /\ Sum(f) \in Scalar
          /\ Sum(g) \in Scalar /\ Sum(h) \in Scalar
      BY <1>2, SumSplit
    <2> QED
      BY <2>1, Scalars
  <1>9. /\ 1 * Sum(y) = Sum(y) /\ 1 * Sum(k) = Sum(k) /\ a * Sum(f) \in Int
        /\ b * Sum(g) + c * Sum(h) \in Int
    BY <1>8
  <1>10. Cong(a * Sum(f) + Sum(y), a * Sum(f) + (b * Sum(g) + c * Sum(h)))
    <2>1. Cong(a * Sum(f), a * Sum(f)) /\ Cong(Sum(y), b * Sum(g) + c * Sum(h))
      BY <1>6, <1>9, CongLaws
    <2> QED
      BY <1>8, <1>9, <2>1, CongOps, Zenon
  <1> QED
    BY <1>7, <1>9, <1>10, CongLaws

\* What every response must equal: the bound nonce under sign s, and the
\* share under a coefficient, its challenge a and its part t of the tweak.
Partial(s, a, t, bound, coefficient, share) ==
    s * bound + coefficient * (a * share + t)

\* Responses that fit one by one fit when they are summed over a support:
\* to the sum of the nonces, the common weight and the shared value.
LEMMA PartialSum ==
    ASSUME NEW D, IsFiniteSet(D), D # {}, NEW nodes \in [D -> Scalar],
           Distinct(nodes, D), NEW shares \in [D -> Scalar],
           NEW u \in [D -> Scalar], NEW z \in [D -> Scalar],
           NEW k \in [D -> Scalar],
           NEW w \in Int, NEW s \in Int, NEW a \in Int, NEW t \in Int,
           \A i \in D : Cong(k[i], w * Row(nodes, D, i)),
           \A i \in D : Cong(z[i], Partial(s, a, t, u[i], k[i], shares[i]))
    PROVE  Cong(Sum(z), Partial(s, a, t, Sum(u), w, Interpolate(nodes, shares)))
PROOF
  <1> DEFINE R == Rows(nodes, D)
             T == [i \in D |-> Mul(Row(nodes, D, i), shares[i])]
  <1>1. /\ R \in [D -> Scalar] /\ Interpolate(nodes, shares) = Sum(T)
    BY InterpolateRow
  <1>2. \A i \in D : R[i] = Row(nodes, D, i)
    BY DEF Rows
  <1>3. Sum(R) = 1
    <2>1. D \in SUBSET D
      OBVIOUS
    <2> QED
      BY <2>1, RowsSumToOne
  <1>4. ASSUME NEW i \in D
        PROVE  /\ R[i] \in Int /\ shares[i] \in Int /\ u[i] \in Int
               /\ z[i] \in Int /\ k[i] \in Int
               /\ T[i] \in Scalar /\ T[i] \in Int /\ Cong(T[i], R[i] * shares[i])
    <2>1. R[i] \in Int /\ shares[i] \in Int /\ u[i] \in Int /\ z[i] \in Int
          /\ k[i] \in Int
      BY <1>1, Scalars
    <2>2. /\ Mul(R[i], shares[i]) \in Scalar
          /\ Cong(Mul(R[i], shares[i]), R[i] * shares[i])
      BY <2>1, FieldIs, Zenon
    <2>3. T[i] = Mul(R[i], shares[i])
      BY <1>2
    <2> HIDE DEF T
    <2> QED
      BY <2>1, <2>2, <2>3, Scalars
  <1>5. T \in [D -> Scalar]
    <2>1. \A i \in D : Mul(Row(nodes, D, i), shares[i]) \in Scalar
      BY <1>4
    <2> QED
      BY <2>1
  <1> HIDE DEF R, T
  <1>6. ASSUME NEW i \in D
        PROVE  Cong(z[i], s * u[i] + ((w * a) * T[i] + (w * t) * R[i]))
    <2> DEFINE x == shares[i]
               m == a * x + t
               r == R[i]
               v == u[i]
               p == T[i]
               q == k[i]
    <2>1. x \in Int /\ r \in Int /\ v \in Int /\ p \in Int /\ q \in Int
      BY <1>4
    <2>2. Cong(q, w * r) /\ Cong(p, r * x)
          /\ Cong(z[i], s * v + q * m)
      BY <1>2, <1>4 DEF Partial
    <2> HIDE DEF x, r, v, p, q
    <2>3. m \in Int /\ w * r \in Int /\ r * x \in Int /\ w * a \in Int
          /\ w * t \in Int
      BY <2>1
    <2>4. m * (w * r) = (w * a) * (r * x) + (w * t) * r
      BY <2>1
    <2> HIDE DEF m
    <2>5. Cong(m * q, m * (w * r)) /\ Cong((w * a) * p, (w * a) * (r * x))
      BY <2>1, <2>2, <2>3, CongScale, Zenon
    <2>6. /\ m * q = q * m /\ s * v \in Int /\ (w * a) * p \in Int
          /\ (w * a) * (r * x) \in Int /\ (w * t) * r \in Int /\ q * m \in Int
          /\ (w * a) * p + (w * t) * r \in Int
      BY <2>1, <2>3
    <2>7. Cong((w * a) * p + (w * t) * r, (w * a) * (r * x) + (w * t) * r)
      <3>1. Cong((w * t) * r, (w * t) * r)
        BY CongLaws
      <3> QED
        BY <2>5, <2>6, <3>1, CongOps, Zenon
    <2>8. Cong(q * m, (w * a) * p + (w * t) * r)
      BY <2>4, <2>5, <2>6, <2>7, CongLaws
    <2>9. Cong(s * v + q * m, s * v + ((w * a) * p + (w * t) * r))
      <3>1. Cong(s * v, s * v)
        BY CongLaws
      <3> QED
        BY <2>6, <2>8, <3>1, CongOps, Zenon
    <2> QED
      BY <2>2, <2>9, CongLaws DEF r, v, p
  <1>7. Cong(Sum(z), s * Sum(u) + ((w * a) * Sum(T) + (w * t) * Sum(R)))
    <2>1. w * a \in Int /\ w * t \in Int
      OBVIOUS
    <2> QED
      BY <1>1, <1>5, <1>6, <2>1, SumOfThree
  <1>8. Sum(T) \in Int /\ Sum(u) \in Int
    BY <1>5, SumSplit, Scalars
  <1>9. s * Sum(u) + ((w * a) * Sum(T) + (w * t) * 1)
          = s * Sum(u) + w * (a * Sum(T) + t)
    BY <1>8
  <1> QED
    BY <1>1, <1>3, <1>7, <1>9 DEF Partial

-----------------------------------------------------------------------------
(* Signs *)

\* even_normalize(): the sign is its own inverse, and normalising twice is
\* normalising once.
LEMMA Signs ==
    ASSUME NEW x \in Scalar
    PROVE  /\ SignOf(x) \in Scalar /\ Cong(SignOf(x) * SignOf(x), 1)
           /\ Even(x) \in Scalar /\ Cong(Even(x), SignOf(x) * x)
           /\ Even(Even(x)) = Even(x)
PROOF
  <1> DEFINE n == Neg(1)
             h == Q \div 2
  <1>1. x \in Int /\ Q \in Int /\ 0 \in Int /\ 1 \in Int /\ Q > 2
    BY PrimeOrder, Scalars
  <1>2. n \in Scalar /\ Cong(n, 0 - 1)
    BY <1>1, FieldIs, Zenon DEF Neg
  <1>3. n \in Int /\ 0 - 1 \in Int
    <2> HIDE DEF n
    <2>1. n \in Int
      BY <1>2, Scalars
    <2> QED
      BY <2>1
  <1>4. Q = 2 * h + 1 /\ h \in Nat
    <2>1. Q % 2 # 0
      BY PrimeOrder
    <2>2. ASSUME NEW m \in Int, NEW b \in Nat, b > 0
          PROVE  m = (m \div b) * b + (m % b) /\ m \div b \in Int
      BY <2>2
    <2>3. Q \in Int /\ 2 \in Nat /\ 2 > 0
      BY PrimeOrder
    <2>4. Q = h * 2 + (Q % 2) /\ h \in Int
      BY <2>2, <2>3, Zenon
    <2>5. Q % 2 \in 0..1
      BY <2>3
    <2>6. Q % 2 = 1
      BY <2>1, <2>5
    <2> HIDE DEF h
    <2>7. Q = h * 2 + 1
      BY <2>4, <2>6
    <2> QED
      BY <1>1, <2>4, <2>7
  <1>5. Cong(n * n, 1)
    <2>1. Cong(n * n, (0 - 1) * (0 - 1))
      BY <1>2, <1>3, CongOps, Zenon
    <2>2. (0 - 1) * (0 - 1) = 1
      OBVIOUS
    <2> QED
      BY <2>1, <2>2
  <1>6. SignOf(x) = n \/ SignOf(x) = 1
    BY DEF SignOf
  <1>7. SignOf(x) \in Scalar /\ Cong(SignOf(x) * SignOf(x), 1)
    <2>1. Cong(1 * 1, 1)
      BY CongLaws
    <2> HIDE DEF n
    <2> QED
      BY <1>2, <1>5, <1>6, <2>1, Scalars
  <1>8. SignOf(x) \in Int
    BY <1>7, Scalars
  <1>9. Even(x) \in Scalar /\ Cong(Even(x), SignOf(x) * x)
    BY <1>1, <1>8, FieldIs, Zenon DEF Even
  <1>10. \A y \in Scalar : y <= h => Even(y) = y
    <2> SUFFICES ASSUME NEW y \in Scalar, y <= h PROVE Even(y) = y
      OBVIOUS
    <2>1. y \in Int
      BY Scalars
    <2>2. ~IsOdd(y)
      BY <1>4, <2>1 DEF IsOdd
    <2>3. Even(y) = Mul(1, y)
      BY <2>2 DEF Even, SignOf
    <2>4. Mul(1, y) \in Scalar /\ Cong(Mul(1, y), 1 * y)
      BY <1>1, <2>1, FieldIs, Zenon
    <2>5. 1 * y = y
      BY <2>1
    <2> QED
      BY <2>3, <2>4, <2>5, CongScalar
  <1>11. Even(x) <= h
    <2>1. CASE x <= h
      BY <1>10, <2>1
    <2>2. CASE ~(x <= h)
      <3>1. IsOdd(x)
        BY <1>1, <1>4, <2>2 DEF IsOdd
      <3>2. SignOf(x) = n
        BY <3>1 DEF SignOf
      <3>3. x \in 0..(Q - 1)
        BY DEF Scalar
      <3>4. Q - x \in Scalar /\ Q - x <= h /\ Q - x \in Int
        <4>1. Q - x \in 0..(Q - 1)
          BY <1>1, <1>4, <2>2, <3>3
        <4>2. Q - x <= h
          BY <1>1, <1>4, <2>2, <3>3
        <4> QED
          BY <1>1, <4>1, <4>2 DEF Scalar
      <3>5. Cong(n * x, (0 - 1) * x)
        <4>1. Cong(x, x)
          BY CongLaws
        <4> QED
          BY <1>1, <1>2, <1>3, <4>1, CongOps, Zenon
      <3>6. Cong(Q - x, (0 - 1) * x)
        <4>1. (0 - 1) * x \in Int /\ Q - x = (0 - 1) * x + 1 * Q
          BY <1>1
        <4> QED
          BY <1>1, <3>4, <4>1, CongMultiple, Zenon
      <3>7. Cong(Even(x), Q - x)
        BY <1>9, <3>2, <3>5, <3>6, CongLaws
      <3>8. Even(x) = Q - x
        BY <1>9, <3>4, <3>7, CongScalar
      <3> QED
        BY <3>4, <3>8
    <2> QED
      BY <2>1, <2>2
  <1> QED
    BY <1>7, <1>9, <1>10, <1>11

-----------------------------------------------------------------------------
(* Responses *)

NoncePairs == [hiding : Scalar, binding : Scalar]

\* A bound pair is a scalar.
LEMMA BindFacts ==
    ASSUME NEW pair \in NoncePairs, NEW beta \in Scalar
    PROVE  /\ Bind(pair, beta) \in Scalar
           /\ Cong(Bind(pair, beta), pair.hiding + beta * pair.binding)
PROOF
  <1>1. pair.hiding \in Scalar /\ pair.binding \in Scalar
    BY DEF NoncePairs
  <1>2. pair.hiding \in Int /\ pair.binding \in Int /\ beta \in Int
    BY <1>1, Scalars
  <1> DEFINE m == Mul(beta, pair.binding)
  <1>3. m \in Scalar /\ Cong(m, beta * pair.binding)
    BY <1>2, FieldIs, Zenon
  <1>4. m \in Int /\ beta * pair.binding \in Int
    <2>1. m \in Int
      BY <1>3, Scalars
    <2> HIDE DEF m
    <2> QED
      BY <1>2, <2>1
  <1>5. Cong(pair.hiding, pair.hiding)
    BY CongLaws
  <1> HIDE DEF m
  <1>6. /\ Add(pair.hiding, m) \in Scalar
        /\ Cong(Add(pair.hiding, m), pair.hiding + beta * pair.binding)
    BY <1>2, <1>3, <1>4, <1>5, FieldOps, Zenon
  <1> QED
    BY <1>6 DEF Bind, m

\* sum_nonce_pairs() binds to the sum of what it summed up.
LEMMA PairSum ==
    ASSUME NEW D, IsFiniteSet(D), NEW pairs \in [D -> NoncePairs],
           NEW beta \in Scalar, SumPairs(pairs) # None
    PROVE  /\ SumPairs(pairs) \in NoncePairs
           /\ Bind(SumPairs(pairs), beta)
                = Sum([d \in D |-> Bind(pairs[d], beta)])
PROOF
  <1> DEFINE f == [d \in D |-> pairs[d].hiding]
             g == [d \in D |-> pairs[d].binding]
             k == [d \in D |-> Bind(pairs[d], beta)]
             total == [hiding |-> Sum(f), binding |-> Sum(g)]
  <1>1. SumPairs(pairs) = total
    <2>1. DOMAIN pairs = D
      OBVIOUS
    <2> QED
      BY <2>1, Zenon DEF SumPairs
  <1>2. ASSUME NEW d \in D
        PROVE  /\ f[d] \in Scalar /\ g[d] \in Scalar /\ k[d] \in Scalar
               /\ f[d] \in Int /\ g[d] \in Int /\ k[d] \in Int
               /\ Cong(k[d], f[d] + beta * g[d])
    <2>1. pairs[d] \in NoncePairs
      OBVIOUS
    <2>2. pairs[d].hiding \in Scalar /\ pairs[d].binding \in Scalar
      BY <2>1 DEF NoncePairs
    <2>3. /\ Bind(pairs[d], beta) \in Scalar
          /\ Cong(Bind(pairs[d], beta), pairs[d].hiding + beta * pairs[d].binding)
      BY <2>1, BindFacts, Zenon
    <2>4. f[d] = pairs[d].hiding /\ g[d] = pairs[d].binding
          /\ k[d] = Bind(pairs[d], beta)
      OBVIOUS
    <2> HIDE DEF f, g, k
    <2> QED
      BY <2>2, <2>3, <2>4, Scalars
  <1>3. f \in [D -> Scalar] /\ g \in [D -> Scalar] /\ k \in [D -> Scalar]
    BY <1>2
  <1> HIDE DEF f, g, k
  <1>4. beta \in Int /\ 1 \in Int
    BY Scalars
  <1>5. ASSUME NEW d \in D PROVE Cong(1 * k[d], 1 * f[d] + beta * g[d])
    <2>1. 1 * k[d] = k[d] /\ 1 * f[d] = f[d]
      BY <1>2
    <2> QED
      BY <1>2, <2>1
  <1>6. Cong(1 * Sum(k), 1 * Sum(f) + beta * Sum(g))
    BY <1>3, <1>4, <1>5, SumLinear
  <1>7. Sum(k) \in Scalar /\ Sum(f) \in Scalar /\ Sum(g) \in Scalar
    BY <1>3, SumSplit
  <1>8. Sum(k) \in Int /\ Sum(f) \in Int
    BY <1>7, Scalars
  <1>9. 1 * Sum(k) = Sum(k) /\ 1 * Sum(f) = Sum(f)
    BY <1>8
  <1>10. /\ total \in NoncePairs /\ total.hiding = Sum(f)
         /\ total.binding = Sum(g)
    BY <1>7 DEF NoncePairs
  <1> HIDE DEF total
  <1>11. /\ Bind(total, beta) \in Scalar
         /\ Cong(Bind(total, beta), Sum(f) + beta * Sum(g))
    BY <1>10, BindFacts
  <1>12. Cong(Bind(total, beta), Sum(k))
    BY <1>6, <1>9, <1>11, CongLaws
  <1>13. Bind(total, beta) = Sum(k)
    BY <1>7, <1>11, <1>12, CongScalar
  <1> QED
    BY <1>1, <1>10, <1>13 DEF k

\* respond_device() answers with exactly what verify_device() and
\* verify_member() accept.
Answers(ctx, slot, s, a, t) ==
    \A nonce \in NoncePairs, coefficient \in Scalar, share \in Scalar :
        /\ RespondDevice(ctx, slot, coefficient, nonce, share) \in Scalar
        /\ Cong(RespondDevice(ctx, slot, coefficient, nonce, share),
                Partial(s, a, t, Bind(nonce, ctx.bindings[slot]), coefficient,
                        share))
        /\ \A response \in Scalar :
             Cong(response, Partial(s, a, t, Bind(nonce, ctx.bindings[slot]),
                                    coefficient, share)) =>
                VerifyPartial(ctx, slot, response, nonce, coefficient, share)

\* The plain scheme: no sign and no tweak.
LEMMA PlainAnswers ==
    ASSUME NEW ctx, NEW slot, ctx.key.taproot = FALSE, ctx.challenge \in Scalar,
           ctx.bindings[slot] \in Scalar
    PROVE  Answers(ctx, slot, 1, ctx.challenge, 0)
PROOF
  <1> SUFFICES ASSUME NEW nonce \in NoncePairs, NEW coefficient \in Scalar,
                      NEW share \in Scalar
               PROVE  /\ RespondDevice(ctx, slot, coefficient, nonce, share)
                            \in Scalar
                      /\ Cong(RespondDevice(ctx, slot, coefficient, nonce, share),
                              Partial(1, ctx.challenge, 0,
                                  Bind(nonce, ctx.bindings[slot]), coefficient,
                                  share))
                      /\ \A response \in Scalar :
                           Cong(response, Partial(1, ctx.challenge, 0,
                                  Bind(nonce, ctx.bindings[slot]),
                                  coefficient, share)) =>
                             VerifyPartial(ctx, slot, response, nonce,
                                           coefficient, share)
    BY Zenon DEF Answers
  <1> DEFINE c == ctx.challenge
             u == Bind(nonce, ctx.bindings[slot])
             m == Mul(c, coefficient)
             l == Mul(m, share)
             r == Mul(share, m)
             z == Add(u, l)
             y == Add(u, r)
             P == Partial(1, c, 0, u, coefficient, share)
  <1>1. /\ RespondDevice(ctx, slot, coefficient, nonce, share) = z
        /\ \A response : VerifyPartial(ctx, slot, response, nonce, coefficient,
                                       share) <=> response = y
    BY DEF RespondDevice, PlainRespond, NonceRespond, VerifyPartial, PlainVerify
  <1>2. u \in Scalar
    BY BindFacts
  <1>3. c \in Int /\ u \in Int /\ coefficient \in Int /\ share \in Int
    BY <1>2, Scalars
  <1> HIDE DEF u, c
  <1>4. m \in Scalar /\ Cong(m, c * coefficient)
    BY <1>3, FieldIs, Zenon
  <1>5. m \in Int /\ c * coefficient \in Int
    <2>1. m \in Int
      BY <1>4, Scalars
    <2> QED
      BY <1>3, <2>1
  <1>6. Cong(share, share) /\ Cong(u, u)
    BY CongLaws
  <1> HIDE DEF m
  <1>7. /\ l \in Scalar /\ Cong(l, (c * coefficient) * share)
        /\ r \in Scalar /\ Cong(r, share * (c * coefficient))
    BY <1>3, <1>4, <1>5, <1>6, FieldOps, Zenon
  <1>8. l \in Int /\ r \in Int
    BY <1>7, Scalars
  <1>9. (c * coefficient) * share \in Int /\ share * (c * coefficient) \in Int
    BY <1>3
  <1> HIDE DEF l, r
  <1>10. /\ z \in Scalar /\ Cong(z, u + (c * coefficient) * share)
         /\ y \in Scalar /\ Cong(y, u + share * (c * coefficient))
    BY <1>3, <1>6, <1>7, <1>8, <1>9, FieldOps, Zenon
  <1>11. /\ u + (c * coefficient) * share = P
         /\ u + share * (c * coefficient) = P
    BY <1>3 DEF Partial
  <1> HIDE DEF z, y, P
  <1>12. Cong(z, P) /\ Cong(y, P)
    BY <1>10, <1>11
  <1>13. ASSUME NEW response \in Scalar, Cong(response, P) PROVE response = y
    <2>1. Cong(response, y)
      BY <1>12, <1>13, CongLaws
    <2> QED
      BY <1>10, <2>1, CongScalar
  <1> QED
    BY <1>1, <1>10, <1>12, <1>13, Zenon DEF P, c, u

\* The Taproot scheme: both signs of the key and the nonce's sign cancel.
LEMMA TaprootAnswers ==
    ASSUME NEW ctx, NEW slot, ctx.key.taproot = TRUE, ctx.challenge \in Scalar,
           ctx.bindings[slot] \in Scalar, ctx.sign \in Scalar,
           Cong(ctx.sign * ctx.sign, 1), ctx.key.internal \in Scalar,
           ctx.key.output \in Scalar, ctx.key.tweak \in Scalar
    PROVE  Answers(ctx, slot, ctx.sign,
                   ctx.challenge * (ctx.key.output * ctx.key.internal),
                   ctx.challenge * (ctx.key.output * ctx.key.tweak))
PROOF
  <1> DEFINE c == ctx.challenge
             s == ctx.sign
             i == ctx.key.internal
             o == ctx.key.output
             t == ctx.key.tweak
             A == c * (o * i)
             T == c * (o * t)
  <1> SUFFICES ASSUME NEW nonce \in NoncePairs, NEW coefficient \in Scalar,
                      NEW share \in Scalar
               PROVE  /\ RespondDevice(ctx, slot, coefficient, nonce, share)
                            \in Scalar
                      /\ Cong(RespondDevice(ctx, slot, coefficient, nonce, share),
                              Partial(s, A, T, Bind(nonce, ctx.bindings[slot]),
                                      coefficient, share))
                      /\ \A response \in Scalar :
                           Cong(response, Partial(s, A, T,
                                  Bind(nonce, ctx.bindings[slot]),
                                  coefficient, share)) =>
                             VerifyPartial(ctx, slot, response, nonce,
                                           coefficient, share)
    BY Zenon DEF Answers
  <1> DEFINE b == Bind(nonce, ctx.bindings[slot])
             g == coefficient
             x == share
             cs == Mul(c, s)
             io == Mul(i, o)
             fold == Mul(cs, io)
             fg == Mul(fold, g)
             fgx == Mul(fg, x)
             nr == Add(b, fgx)
             snr == Mul(s, nr)
             cg == Mul(c, g)
             ot == Mul(o, t)
             cgot == Mul(cg, ot)
             z == Add(snr, cgot)
             bs == Mul(b, s)
             xi == Mul(x, i)
             xit == Add(xi, t)
             cgo == Mul(cg, o)
             v == Mul(xit, cgo)
             y == Add(bs, v)
             P == Partial(s, A, T, b, g, x)
  <1>1. /\ RespondDevice(ctx, slot, coefficient, nonce, share) = z
        /\ \A response : VerifyPartial(ctx, slot, response, nonce, coefficient,
                                       share) <=> response = y
    BY Zenon DEF RespondDevice, TaprootRespond, NonceRespond, VerifyPartial,
       TaprootVerify
  <1>2. b \in Scalar
    BY BindFacts
  <1>3. /\ c \in Int /\ s \in Int /\ i \in Int /\ o \in Int /\ t \in Int
        /\ b \in Int /\ g \in Int /\ x \in Int
    BY <1>2, Scalars
  <1>4. Cong(s * s, 1)
    OBVIOUS
  <1> HIDE DEF c, s, i, o, t, b, g, x
  <1>5. \A n : Cong(n, n)
    BY CongLaws
  <1>6. /\ cs \in Scalar /\ Cong(cs, c * s)
        /\ io \in Scalar /\ Cong(io, i * o)
        /\ cg \in Scalar /\ Cong(cg, c * g)
        /\ ot \in Scalar /\ Cong(ot, o * t)
        /\ bs \in Scalar /\ Cong(bs, b * s)
        /\ xi \in Scalar /\ Cong(xi, x * i)
    BY <1>3, FieldIs, Zenon
  <1>7. /\ cs \in Int /\ io \in Int /\ cg \in Int /\ ot \in Int
        /\ bs \in Int /\ xi \in Int
    BY <1>6, Scalars
  <1>8. /\ c * s \in Int /\ i * o \in Int /\ c * g \in Int /\ o * t \in Int
        /\ b * s \in Int /\ x * i \in Int
    BY <1>3
  <1> HIDE DEF cs, io, cg, ot, bs, xi
  <1>9. /\ fold \in Scalar /\ Cong(fold, (c * s) * (i * o))
        /\ cgot \in Scalar /\ Cong(cgot, (c * g) * (o * t))
        /\ xit \in Scalar /\ Cong(xit, x * i + t)
        /\ cgo \in Scalar /\ Cong(cgo, (c * g) * o)
    BY <1>3, <1>5, <1>6, <1>7, <1>8, FieldOps, Zenon
  <1>10. fold \in Int /\ cgot \in Int /\ xit \in Int /\ cgo \in Int
    BY <1>9, Scalars
  <1>11. /\ (c * s) * (i * o) \in Int /\ (c * g) * (o * t) \in Int
         /\ x * i + t \in Int /\ (c * g) * o \in Int
    BY <1>3, <1>8
  <1> HIDE DEF fold, cgot, xit, cgo
  <1>12. /\ fg \in Scalar /\ Cong(fg, ((c * s) * (i * o)) * g)
         /\ v \in Scalar /\ Cong(v, (x * i + t) * ((c * g) * o))
    BY <1>3, <1>5, <1>9, <1>10, <1>11, FieldOps, Zenon
  <1>13. fg \in Int /\ v \in Int
    BY <1>12, Scalars
  <1>14. /\ ((c * s) * (i * o)) * g \in Int
         /\ (x * i + t) * ((c * g) * o) \in Int
    BY <1>3, <1>11
  <1> HIDE DEF fg, v
  <1>15. /\ fgx \in Scalar /\ Cong(fgx, (((c * s) * (i * o)) * g) * x)
         /\ y \in Scalar /\ Cong(y, b * s + (x * i + t) * ((c * g) * o))
    BY <1>3, <1>5, <1>6, <1>7, <1>8, <1>12, <1>13, <1>14, FieldOps, Zenon
  <1>16. fgx \in Int /\ (((c * s) * (i * o)) * g) * x \in Int
    <2>1. fgx \in Int
      BY <1>15, Scalars
    <2> HIDE DEF fgx
    <2> QED
      BY <1>3, <1>14, <2>1
  <1> DEFINE X == (((c * s) * (i * o)) * g) * x
  <1> HIDE DEF fgx, y
  <1>17. nr \in Scalar /\ Cong(nr, b + X)
    BY <1>3, <1>5, <1>15, <1>16, FieldOps, Zenon
  <1>18. nr \in Int /\ b + X \in Int
    <2>1. nr \in Int
      BY <1>17, Scalars
    <2> HIDE DEF nr, X
    <2> QED
      BY <1>3, <1>16, <2>1 DEF X
  <1> HIDE DEF nr
  <1>19. snr \in Scalar /\ Cong(snr, s * (b + X))
    BY <1>3, <1>5, <1>17, <1>18, FieldOps, Zenon
  <1>20. snr \in Int /\ s * (b + X) \in Int
    <2>1. snr \in Int
      BY <1>19, Scalars
    <2> HIDE DEF snr, X
    <2> QED
      BY <1>3, <1>18, <2>1
  <1> HIDE DEF snr
  <1>21. z \in Scalar /\ Cong(z, s * (b + X) + (c * g) * (o * t))
    BY <1>9, <1>10, <1>11, <1>19, <1>20, FieldOps, Zenon
  <1> HIDE DEF z
  <1> DEFINE Y == (c * (o * i)) * (g * x)
             W == (c * g) * (o * t)
  <1>22. /\ Y \in Int /\ W \in Int /\ s * s \in Int /\ s * b \in Int
         /\ 1 \in Int
    BY <1>3
  <1>23. s * X = Y * (s * s)
    <2> DEFINE e == i * o
               d == g * x
    <2>1. e \in Int /\ d \in Int /\ o * i = e
      BY <1>3
    <2>2. X = ((c * s) * e) * d
      BY <1>3, <1>8
    <2>3. Y = (c * e) * d
      BY <2>1
    <2> HIDE DEF e, d, X, Y
    <2>4. s * (((c * s) * e) * d) = ((c * e) * d) * (s * s)
      BY <1>3, <2>1
    <2> QED
      BY <2>2, <2>3, <2>4
  <1>24. s * (b + X) = s * b + s * X
    <2> HIDE DEF X
    <2> QED
      BY <1>3, <1>16 DEF X
  <1>25. P = s * b + (Y + W)
    <2>1. g * ((c * (o * i)) * x + c * (o * t)) = Y + W
      <3> DEFINE e == o * i
                 d == o * t
      <3>1. e \in Int /\ d \in Int
        BY <1>3
      <3> HIDE DEF e, d
      <3>2. g * ((c * e) * x + c * d) = (c * e) * (g * x) + (c * g) * d
        BY <1>3, <3>1
      <3> QED
        BY <3>2 DEF e, d
    <2> QED
      BY <2>1 DEF Partial
  <1>26. b * s + (x * i + t) * ((c * g) * o) = s * b + (Y + W)
    <2> DEFINE m == c * g
    <2>1. m \in Int
      BY <1>3
    <2>2. Y = m * ((o * i) * x)
      <3> DEFINE e == o * i
      <3>1. e \in Int
        BY <1>3
      <3> HIDE DEF e
      <3>2. (c * e) * (g * x) = (c * g) * (e * x)
        BY <1>3, <3>1
      <3> QED
        BY <3>2 DEF e
    <2> HIDE DEF m, Y
    <2>3. (x * i + t) * (m * o) = m * ((o * i) * x) + m * (o * t)
      BY <1>3, <2>1
    <2>4. b * s = s * b
      BY <1>3
    <2> QED
      BY <2>2, <2>3, <2>4 DEF m
  <1> HIDE DEF X, Y, W, P
  <1>27. Cong(z, P)
    <2>1. Cong(Y * (s * s), Y * 1)
      BY <1>4, <1>22, CongScale, Zenon
    <2>2. Y * 1 = Y /\ Y * (s * s) \in Int
      BY <1>22
    <2>3. Cong(Y * (s * s) + W, Y + W)
      BY <1>5, <1>22, <2>1, <2>2, CongOps, Zenon
    <2>4. Y * (s * s) + W \in Int /\ Y + W \in Int
      BY <1>22, <2>2
    <2>5. Cong(s * b + (Y * (s * s) + W), s * b + (Y + W))
      BY <1>5, <1>22, <2>3, <2>4, CongOps, Zenon
    <2>6. s * (b + X) + W = s * b + (Y * (s * s) + W)
      BY <1>22, <1>23, <1>24, <2>2
    <2> QED
      BY <1>21, <1>25, <2>5, <2>6, CongLaws DEF W
  <1>28. Cong(y, P)
    BY <1>15, <1>25, <1>26
  <1>29. ASSUME NEW response \in Scalar, Cong(response, P) PROVE response = y
    <2>1. Cong(response, y)
      BY <1>28, <1>29, CongLaws
    <2>2. y \in Scalar
      BY <1>15
    <2> QED
      BY <2>1, <2>2, CongScalar
  <1> QED
    BY <1>1, <1>21, <1>27, <1>29, Zenon DEF P, s, c, o, i, t, b, g, x

-----------------------------------------------------------------------------
(* Aggregation *)

\* What the devices of one slot answer.
Responses(ctx, slot, D, nodes, shares, w, nonces) ==
    [d \in D |-> RespondDevice(ctx, slot, Mul(LagrangeAtZero(nodes)[d], w),
                               nonces[d], shares[d])]

\* aggregate_member() accepts them, and their sum is what the slot owes.
LEMMA MemberAggregates ==
    ASSUME NEW ctx, NEW slot, NEW s \in Int, NEW a \in Int, NEW t \in Int,
           Answers(ctx, slot, s, a, t), ctx.bindings[slot] \in Scalar,
           NEW D, IsFiniteSet(D), D # {}, NEW nodes \in [D -> Scalar],
           Distinct(nodes, D), NEW shares \in [D -> Scalar], NEW w \in Scalar,
           NEW nonces \in [D -> NoncePairs], SumPairs(nonces) # None,
           NEW member, member = Interpolate(nodes, shares),
           NEW total,
           total = AggregateMember(ctx, slot, nodes, shares, member, w, nonces,
                       Responses(ctx, slot, D, nodes, shares, w, nonces))
    PROVE  /\ total \in Scalar
           /\ Cong(total, Partial(s, a, t,
                              Bind(SumPairs(nonces), ctx.bindings[slot]), w,
                              member))
PROOF
  <1> DEFINE beta == ctx.bindings[slot]
             z == Responses(ctx, slot, D, nodes, shares, w, nonces)
             row == LagrangeAtZero(nodes)
             k == [d \in D |-> Mul(row[d], w)]
             u == [d \in D |-> Bind(nonces[d], beta)]
  <1>1. row \in [D -> Scalar] /\ row = Rows(nodes, D) /\ member \in Scalar
    BY InterpolateRow
  <1>2. \A d \in D : row[d] = Row(nodes, D, d)
    BY <1>1 DEF Rows
  <1> HIDE DEF row
  <1>3. ASSUME NEW d \in D
        PROVE  /\ k[d] \in Scalar /\ Cong(k[d], w * Row(nodes, D, d))
               /\ u[d] \in Scalar
    <2>1. row[d] \in Int /\ w \in Int
      BY <1>1, Scalars
    <2>2. Mul(row[d], w) \in Scalar /\ Cong(Mul(row[d], w), row[d] * w)
      BY <2>1, FieldIs, Zenon
    <2>3. row[d] * w = w * row[d]
      BY <2>1
    <2>4. Bind(nonces[d], beta) \in Scalar
      BY BindFacts
    <2> QED
      BY <1>2, <2>2, <2>3, <2>4
  <1>4. k \in [D -> Scalar] /\ u \in [D -> Scalar]
    BY <1>3
  <1>5. ASSUME NEW d \in D
        PROVE  /\ z[d] \in Scalar
               /\ Cong(z[d], Partial(s, a, t, u[d], k[d], shares[d]))
               /\ VerifyPartial(ctx, slot, z[d], nonces[d], Mul(row[d], w),
                                shares[d])
    <2>1. /\ z[d] = RespondDevice(ctx, slot, k[d], nonces[d], shares[d])
          /\ u[d] = Bind(nonces[d], ctx.bindings[slot]) /\ k[d] = Mul(row[d], w)
      BY DEF Responses, row
    <2>2. nonces[d] \in NoncePairs /\ k[d] \in Scalar /\ shares[d] \in Scalar
      BY <1>3
    <2> HIDE DEF z, k, u, beta
    <2>3. /\ RespondDevice(ctx, slot, k[d], nonces[d], shares[d]) \in Scalar
          /\ Cong(RespondDevice(ctx, slot, k[d], nonces[d], shares[d]),
                  Partial(s, a, t, Bind(nonces[d], ctx.bindings[slot]), k[d],
                          shares[d]))
          /\ \A response \in Scalar :
               Cong(response, Partial(s, a, t,
                       Bind(nonces[d], ctx.bindings[slot]), k[d], shares[d])) =>
                 VerifyPartial(ctx, slot, response, nonces[d], k[d], shares[d])
      BY <2>2, Zenon DEF Answers
    <2> QED
      BY <2>1, <2>3, Zenon
  <1>6. z \in [D -> Scalar]
    <2>1. \A d \in D : RespondDevice(ctx, slot, Mul(LagrangeAtZero(nodes)[d], w),
                                     nonces[d], shares[d]) \in Scalar
      BY <1>5 DEF Responses
    <2> QED
      BY <2>1 DEF Responses
  <1>7. Bind(SumPairs(nonces), beta) = Sum(u) /\ SumPairs(nonces) \in NoncePairs
    BY PairSum
  <1>8. w \in Int
    BY Scalars
  <1> HIDE DEF z, k, u
  <1>9. Cong(Sum(z), Partial(s, a, t, Sum(u), w, Interpolate(nodes, shares)))
    BY <1>3, <1>4, <1>5, <1>6, <1>8, PartialSum
  <1>10. Sum(z) \in Scalar
    BY <1>6, SumSplit
  <1>11. Cong(Sum(z), Partial(s, a, t, Bind(SumPairs(nonces), ctx.bindings[slot]),
                              w, member))
    BY <1>7, <1>9
  <1>12. VerifyPartial(ctx, slot, Sum(z), SumPairs(nonces), w, member)
    BY <1>1, <1>7, <1>10, <1>11, Zenon DEF Answers
  <1>13. total = Sum(z)
    <2>1. DOMAIN z = DOMAIN nodes /\ DOMAIN nodes = D
      BY <1>6
    <2>2. \A d \in DOMAIN nodes :
            VerifyPartial(ctx, slot, z[d], nonces[d],
                          Mul(LagrangeAtZero(nodes)[d], w), shares[d])
      BY <1>5, <2>1 DEF row
    <2>3. total = AggregateMember(ctx, slot, nodes, shares, member, w, nonces, z)
      BY DEF z
    <2> QED
      BY <1>12, <2>1, <2>2, <2>3, Zenon DEF AggregateMember
  <1> QED
    BY <1>10, <1>11, <1>13

\* What all slots owe sums up to the signature's response.
LEMMA SignatureSum ==
    ASSUME NEW ctx, NEW s \in Int, NEW a \in Int, NEW t \in Int,
           NEW P, IsFiniteSet(P), P # {}, NEW nodes \in [P -> Scalar],
           Distinct(nodes, P), NEW members \in [P -> Scalar],
           NEW pairs \in [P -> NoncePairs], NEW z \in [P -> Scalar],
           \A p \in P : Answers(ctx, p, s, a, t),
           \A p \in P : ctx.bindings[p] \in Scalar,
           \A p \in P : Cong(z[p], Partial(s, a, t,
                                       Bind(pairs[p], ctx.bindings[p]),
                                       LagrangeAtZero(nodes)[p], members[p]))
    PROVE  /\ Sum(z) \in Scalar
           /\ AggregateNonce(pairs, ctx.bindings) \in Scalar
           /\ Cong(Sum(z), Partial(s, a, t, AggregateNonce(pairs, ctx.bindings),
                                   1, Interpolate(nodes, members)))
           /\ \A p \in P : VerifyPartial(ctx, p, z[p], pairs[p],
                                         LagrangeAtZero(nodes)[p], members[p])
PROOF
  <1> DEFINE k == LagrangeAtZero(nodes)
             u == [p \in P |-> Bind(pairs[p], ctx.bindings[p])]
  <1>1. k \in [P -> Scalar] /\ k = Rows(nodes, P)
    BY InterpolateRow
  <1>2. ASSUME NEW p \in P
        PROVE  /\ Cong(k[p], 1 * Row(nodes, P, p)) /\ k[p] \in Scalar
               /\ u[p] \in Scalar /\ u[p] = Bind(pairs[p], ctx.bindings[p])
    <2>1. k[p] = Row(nodes, P, p) /\ k[p] \in Scalar
      BY <1>1 DEF Rows
    <2> HIDE DEF k
    <2>2. k[p] \in Int
      BY <2>1, Scalars
    <2>3. 1 * k[p] = k[p]
      BY <2>2
    <2>4. Bind(pairs[p], ctx.bindings[p]) \in Scalar
      BY BindFacts
    <2>5. Cong(k[p], k[p])
      BY CongLaws
    <2> QED
      BY <2>1, <2>3, <2>4, <2>5
  <1>3. u \in [P -> Scalar]
    BY <1>2
  <1>4. Sum(u) = AggregateNonce(pairs, ctx.bindings)
    <2>1. DOMAIN pairs = P
      OBVIOUS
    <2> QED
      BY <2>1, Zenon DEF AggregateNonce
  <1> HIDE DEF k, u
  <1>5. Sum(z) \in Scalar /\ Sum(u) \in Scalar
    BY <1>3, SumSplit
  <1>6. \A p \in P : Cong(z[p], Partial(s, a, t, u[p], k[p], members[p]))
    BY <1>2 DEF k
  <1>7. 1 \in Int
    OBVIOUS
  <1>8. Cong(Sum(z), Partial(s, a, t, Sum(u), 1, Interpolate(nodes, members)))
    BY <1>1, <1>2, <1>3, <1>6, <1>7, PartialSum
  <1>9. ASSUME NEW p \in P
        PROVE  VerifyPartial(ctx, p, z[p], pairs[p], k[p], members[p])
    <2>1. pairs[p] \in NoncePairs /\ k[p] \in Scalar /\ members[p] \in Scalar
          /\ z[p] \in Scalar
      BY <1>2
    <2>2. Cong(z[p], Partial(s, a, t, Bind(pairs[p], ctx.bindings[p]), k[p],
                             members[p]))
      BY <1>2, <1>6
    <2>3. Answers(ctx, p, s, a, t)
      OBVIOUS
    <2> QED
      BY <2>1, <2>2, <2>3, Zenon DEF Answers
  <1> QED
    BY <1>4, <1>5, <1>8, <1>9 DEF k

\* What is owed for the vault key is the plain signature's response.
LEMMA PlainSignature ==
    ASSUME NEW raw \in Scalar, NEW vault \in Scalar, NEW c \in Scalar,
           NEW R \in Scalar, Cong(R, Partial(1, c, 0, raw, 1, vault))
    PROVE  R = Add(raw, Mul(vault, c))
PROOF
  <1>1. raw \in Int /\ vault \in Int /\ c \in Int
    BY Scalars
  <1> DEFINE m == Mul(vault, c)
  <1>2. m \in Scalar /\ Cong(m, vault * c)
    BY <1>1, FieldIs, Zenon
  <1>3. m \in Int /\ vault * c \in Int
    <2>1. m \in Int
      BY <1>2, Scalars
    <2> HIDE DEF m
    <2> QED
      BY <1>1, <2>1
  <1> HIDE DEF m
  <1>4. Add(raw, m) \in Scalar /\ Cong(Add(raw, m), raw + vault * c)
    <2>1. Cong(raw, raw)
      BY CongLaws
    <2> QED
      BY <1>1, <1>2, <1>3, <2>1, FieldOps, Zenon
  <1>5. Partial(1, c, 0, raw, 1, vault) = raw + vault * c
    BY <1>1 DEF Partial
  <1>6. Cong(R, Add(raw, m))
    BY <1>4, <1>5, CongLaws
  <1>7. R = Add(raw, m)
    BY <1>4, <1>6, CongScalar
  <1> QED
    BY <1>7 DEF m

\* What is owed for the vault key is the Taproot signature's response.
LEMMA TaprootSignature ==
    ASSUME NEW raw \in Scalar, NEW vault \in Scalar, NEW c \in Scalar,
           NEW tweak \in Scalar, NEW tweaked, tweaked = Add(Even(vault), tweak),
           NEW R \in Scalar,
           Cong(R, Partial(SignOf(raw), c * (SignOf(tweaked) * SignOf(vault)),
                           c * (SignOf(tweaked) * tweak), raw, 1, vault))
    PROVE  R = Add(Even(Even(raw)), Mul(Even(Even(tweaked)), c))
PROOF
  <1> DEFINE s == SignOf(raw)
             i == SignOf(vault)
             o == SignOf(tweaked)
             ev == Even(vault)
             er == Even(raw)
             et == Even(tweaked)
             m == Mul(et, c)
  <1>1. /\ s \in Scalar /\ er \in Scalar /\ Cong(er, s * raw) /\ Even(er) = er
    BY Signs
  <1>2. /\ i \in Scalar /\ ev \in Scalar /\ Cong(ev, i * vault)
    BY Signs
  <1>3. /\ raw \in Int /\ vault \in Int /\ c \in Int /\ tweak \in Int
        /\ s \in Int /\ er \in Int /\ i \in Int /\ ev \in Int
    BY <1>1, <1>2, Scalars
  <1> HIDE DEF s, er, i, ev
  <1>4. s * raw \in Int /\ i * vault \in Int
    BY <1>3
  <1>5. \A n : Cong(n, n)
    BY CongLaws
  <1>6. tweaked \in Scalar /\ Cong(tweaked, i * vault + tweak)
    <2>1. Add(ev, tweak) \in Scalar /\ Cong(Add(ev, tweak), i * vault + tweak)
      BY <1>2, <1>3, <1>4, <1>5, FieldOps, Zenon
    <2> QED
      BY <2>1 DEF ev
  <1>7. /\ o \in Scalar /\ et \in Scalar /\ Cong(et, o * tweaked)
        /\ Even(et) = et
    BY <1>6, Signs
  <1>8. o \in Int /\ et \in Int /\ tweaked \in Int
    BY <1>6, <1>7, Scalars
  <1> HIDE DEF o, et
  <1>9. /\ i * vault + tweak \in Int /\ o * tweaked \in Int
        /\ o * (i * vault + tweak) \in Int
    BY <1>3, <1>4, <1>8
  <1>10. Cong(et, o * (i * vault + tweak))
    <2>1. Cong(o * tweaked, o * (i * vault + tweak))
      BY <1>6, <1>8, <1>9, CongScale, Zenon
    <2> QED
      BY <1>7, <2>1, CongLaws
  <1>11. m \in Scalar /\ Cong(m, (o * (i * vault + tweak)) * c)
    BY <1>3, <1>5, <1>8, <1>9, <1>10, FieldOps, Zenon
  <1>12. m \in Int /\ (o * (i * vault + tweak)) * c \in Int
    <2>1. m \in Int
      BY <1>11, Scalars
    <2> HIDE DEF m
    <2> QED
      BY <1>3, <1>9, <2>1
  <1> HIDE DEF m
  <1>13. /\ Add(er, m) \in Scalar
         /\ Cong(Add(er, m), s * raw + (o * (i * vault + tweak)) * c)
    BY <1>1, <1>3, <1>4, <1>11, <1>12, FieldOps, Zenon
  <1>14. Partial(s, c * (o * i), c * (o * tweak), raw, 1, vault)
           = s * raw + (o * (i * vault + tweak)) * c
    <2>1. (c * (o * i)) * vault + c * (o * tweak) = (o * (i * vault + tweak)) * c
      BY <1>3, <1>8
    <2>2. (o * (i * vault + tweak)) * c \in Int
      BY <1>12
    <2> DEFINE n == (o * (i * vault + tweak)) * c
    <2>3. 1 * n = n
      BY <2>2
    <2> QED
      BY <2>1, <2>3 DEF Partial
  <1>15. Cong(R, Add(er, m))
    <2>1. Cong(R, Partial(s, c * (o * i), c * (o * tweak), raw, 1, vault))
      BY DEF s, o, i
    <2> QED
      BY <1>13, <1>14, <2>1, CongLaws
  <1>16. R = Add(er, m)
    BY <1>13, <1>15, CongScalar
  <1> QED
    BY <1>1, <1>7, <1>16 DEF m, er, et

\* There are a sign, a challenge and a tweak under which all slots answer, and
\* a response that owes them for the vault key makes a signature that verifies.
Carries(ctx, P, raw, vault) ==
    \E s \in Int : \E a \in Int : \E t \in Int :
        /\ \A p \in P : Answers(ctx, p, s, a, t)
        /\ \A R \in Scalar :
             Cong(R, Partial(s, a, t, raw, 1, vault)) =>
                SignatureVerifies([nonce |-> ctx.nonce, response |-> R], ctx)

\* SigningContext::new() of either scheme.
LEMMA ContextFits ==
    ASSUME NEW vault \in Scalar, NEW tweak \in Scalar \cup {None}, NEW key,
           key = IF tweak = None THEN PlainKey(vault) ELSE TaprootKey(vault, tweak),
           key # None, NEW P, IsFiniteSet(P), NEW pairs \in [P -> NoncePairs],
           NEW bindings \in [P -> Scalar], NEW c \in Scalar, NEW ctx,
           ctx = SigningContext(key, pairs, bindings, c), ctx # None
    PROVE  /\ ctx.bindings = bindings /\ ctx.nonce \in Scalar
           /\ Carries(ctx, P, AggregateNonce(pairs, bindings), vault)
PROOF
  <1> DEFINE raw == AggregateNonce(pairs, bindings)
             u == [p \in P |-> Bind(pairs[p], bindings[p])]
  <1>1. raw \in Scalar
    <2>1. \A p \in P : Bind(pairs[p], bindings[p]) \in Scalar
      BY BindFacts
    <2>2. u \in [P -> Scalar]
      BY <2>1
    <2>3. raw = Sum(u)
      <3>1. DOMAIN pairs = P
        OBVIOUS
      <3> QED
        BY <3>1, Zenon DEF AggregateNonce
    <2> HIDE DEF u, raw
    <2>4. Sum(u) \in Scalar
      BY <2>2, SumSplit
    <2> QED
      BY <2>3, <2>4
  <1>2. c \in Int /\ 0 \in Int /\ 1 \in Int
    BY Scalars
  <1>3. CASE tweak = None
    <2>1. key = [point |-> vault, taproot |-> FALSE]
      BY <1>3, Zenon DEF PlainKey
    <2>2. key.taproot = FALSE /\ key.point = vault
      BY <2>1
    <2>3. ctx = [key |-> key, bindings |-> bindings, challenge |-> c,
                 nonce |-> raw]
      BY <2>2, Zenon DEF SigningContext, PlainContext
    <2> HIDE DEF raw
    <2>4. /\ ctx.key = key /\ ctx.bindings = bindings /\ ctx.challenge = c
          /\ ctx.nonce = raw
      BY <2>3
    <2>5. \A p \in P : Answers(ctx, p, 1, c, 0)
      <3> SUFFICES ASSUME NEW p \in P PROVE Answers(ctx, p, 1, c, 0)
        OBVIOUS
      <3>1. /\ ctx.key.taproot = FALSE /\ ctx.challenge \in Scalar
            /\ ctx.bindings[p] \in Scalar
        BY <2>2, <2>4
      <3>2. Answers(ctx, p, 1, ctx.challenge, 0)
        BY <3>1, PlainAnswers, Zenon
      <3> QED
        BY <2>4, <3>2, Zenon
    <2>6. ASSUME NEW R \in Scalar, Cong(R, Partial(1, c, 0, raw, 1, vault))
          PROVE  SignatureVerifies([nonce |-> ctx.nonce, response |-> R], ctx)
      <3>1. R = Add(raw, Mul(vault, c))
        BY <1>1, <2>6, PlainSignature
      <3>2. /\ [nonce |-> ctx.nonce, response |-> R].nonce = raw
            /\ [nonce |-> ctx.nonce, response |-> R].response = R
        BY <2>4
      <3> QED
        BY <2>2, <2>4, <3>1, <3>2, Zenon
           DEF SignatureVerifies, PlainSignatureVerifies
    <2>7. Carries(ctx, P, raw, vault)
      BY <1>2, <2>5, <2>6, Zenon DEF Carries
    <2> QED
      BY <1>1, <2>4, <2>7 DEF raw
  <1>4. CASE tweak # None
    <2> DEFINE tweaked == Add(Even(vault), tweak)
               i == SignOf(vault)
               o == SignOf(tweaked)
               sg == SignOf(raw)
               A == c * (o * i)
               T == c * (o * tweak)
    <2>1. tweak \in Scalar
      BY <1>4
    <2>2. key = [internal |-> i, output |-> o, tweak |-> tweak,
                 point |-> Even(tweaked), taproot |-> TRUE]
      BY <1>4, Zenon DEF TaprootKey
    <2>3. /\ i \in Scalar /\ Even(vault) \in Scalar
          /\ sg \in Scalar /\ Cong(sg * sg, 1) /\ Even(raw) \in Scalar
      BY <1>1, Signs
    <2>4. tweaked \in Scalar
      <3>1. Even(vault) \in Int /\ tweak \in Int
        BY <2>1, <2>3, Scalars
      <3> QED
        BY <3>1, FieldIs, Zenon
    <2>5. o \in Scalar
      BY <2>4, Signs
    <2> HIDE DEF tweaked, i, o, sg, raw
    <2>6. /\ key.internal = i /\ key.output = o /\ key.tweak = tweak
          /\ key.point = Even(tweaked) /\ key.taproot = TRUE
      BY <2>2
    <2>7. ctx = [key |-> key, bindings |-> bindings, challenge |-> c,
                 sign |-> sg, nonce |-> Even(raw)]
      BY <2>6, Zenon DEF SigningContext, TaprootContext, raw, sg
    <2>8. /\ ctx.key = key /\ ctx.bindings = bindings /\ ctx.challenge = c
          /\ ctx.sign = sg /\ ctx.nonce = Even(raw)
      BY <2>7
    <2>9. sg \in Int /\ A \in Int /\ T \in Int
      <3>1. sg \in Int /\ o \in Int /\ i \in Int /\ tweak \in Int
        BY <2>1, <2>3, <2>5, Scalars
      <3> QED
        BY <1>2, <3>1
    <2>10. \A p \in P : Answers(ctx, p, sg, A, T)
      <3> SUFFICES ASSUME NEW p \in P PROVE Answers(ctx, p, sg, A, T)
        OBVIOUS
      <3>1. /\ ctx.key.taproot = TRUE /\ ctx.challenge \in Scalar
            /\ ctx.bindings[p] \in Scalar /\ ctx.sign \in Scalar
            /\ Cong(ctx.sign * ctx.sign, 1) /\ ctx.key.internal \in Scalar
            /\ ctx.key.output \in Scalar /\ ctx.key.tweak \in Scalar
        BY <2>1, <2>3, <2>5, <2>6, <2>8
      <3>2. Answers(ctx, p, ctx.sign,
                    ctx.challenge * (ctx.key.output * ctx.key.internal),
                    ctx.challenge * (ctx.key.output * ctx.key.tweak))
        BY <3>1, TaprootAnswers, Zenon
      <3> QED
        BY <2>6, <2>8, <3>2, Zenon
    <2>11. ASSUME NEW R \in Scalar, Cong(R, Partial(sg, A, T, raw, 1, vault))
           PROVE  SignatureVerifies([nonce |-> ctx.nonce, response |-> R], ctx)
      <3>1. R = Add(Even(Even(raw)), Mul(Even(Even(tweaked)), c))
        BY <1>1, <2>1, <2>11, TaprootSignature DEF tweaked, sg, o, i
      <3>2. /\ [nonce |-> ctx.nonce, response |-> R].nonce = Even(raw)
            /\ [nonce |-> ctx.nonce, response |-> R].response = R
        BY <2>8
      <3>3. ctx.key.point = Even(tweaked) /\ ctx.key.taproot /\ ctx.challenge = c
        BY <2>6, <2>8
      <3> QED
        BY <3>1, <3>2, <3>3, Zenon
           DEF SignatureVerifies, TaprootSignatureVerifies
    <2> HIDE DEF A, T
    <2>12. Carries(ctx, P, raw, vault)
      BY <2>9, <2>10, <2>11, Zenon DEF Carries
    <2> QED
      BY <2>3, <2>8, <2>12 DEF raw
  <1> QED
    BY <1>3, <1>4

-----------------------------------------------------------------------------
(* Key material *)

USE KeyAssumption

\* Every leaf has the fields of the source's records.
FieldNames == {"identity", "anchor", "identityMap", "memberMap", "outerMap",
               "points", "point", "inner", "identityHandle", "outer",
               "memberHandle"}
LeafFields ==
    /\ leaf = [d \in Devices |-> leaf[d]]
    /\ \A d \in Devices : DOMAIN leaf[d] = FieldNames

InnerBlock(block) ==
    /\ block.inner = TRUE
    /\ block.person \in Persons
    /\ block = [inner |-> TRUE, person |-> block.person,
                identity |-> block.identity, member |-> block.member]

\* An outer block's member constants are the outer sharing at the nodes.
OuterBlock(block) ==
    /\ block.inner = FALSE
    /\ block = [inner |-> FALSE, outer |-> block.outer,
                members |-> block.members]
    /\ \A p \in Persons :
         block.members[p][1] = Evaluate(block.outer, OuterNode[p])

BlocksKnown ==
    /\ \E S : blocks \in Seq(S)
    /\ \A h \in 1..Len(blocks) : InnerBlock(blocks[h]) \/ OuterBlock(blocks[h])

PointsOf(block) == [p \in Persons |-> block.members[p][1]]
MemberOf(block, p) == IF block.inner THEN block.member ELSE block.members[p]

\* A handle other than the genesis handle leads to the block it names.
Named(own, p, log) ==
    /\ own.outer \in 0..Len(log)
    /\ own.identityHandle \in 0..Len(log)
    /\ own.memberHandle \in 0..Len(log)
    /\ own.outer # 0 => /\ own.outerMap = log[own.outer].outer
                       /\ own.points = PointsOf(log[own.outer])
    /\ own.identityHandle # 0 =>
         own.identityMap = log[own.identityHandle].identity
    /\ own.memberHandle # 0 =>
         own.memberMap = MemberOf(log[own.memberHandle], p)
HandlesName == \A d \in Devices : Named(leaf[d], Owner[d], blocks)

\* The genesis handle leads to what all devices were given.
SameOuter(own, other) ==
    own.outer = 0 /\ other.outer = 0 =>
        own.outerMap = other.outerMap /\ own.points = other.points
SameInner(own, other) ==
    /\ own.identityHandle = 0 /\ other.identityHandle = 0 =>
         own.identityMap = other.identityMap
    /\ own.memberHandle = 0 /\ other.memberHandle = 0 =>
         own.memberMap = other.memberMap
GenesisShared ==
    \A d, e \in Devices :
        /\ SameOuter(leaf[d], leaf[e])
        /\ Owner[d] = Owner[e] => SameInner(leaf[d], leaf[e])

\* What MapsLeadToKeys says of one leaf.
Leads(own, p, stable) ==
    /\ own.identityMap[1] = stable.identity[p]
    /\ own.memberMap[1] = own.point
    /\ own.point = own.points[p]
    /\ \A q \in Persons : own.points[q] = Evaluate(own.outerMap, OuterNode[q])
    /\ own.outerMap[1] = stable.vault
KeysReached == \A d \in Devices : Leads(leaf[d], Owner[d], keys)

Inv ==
    /\ LeafFields
    /\ BlocksKnown
    /\ HandlesName
    /\ GenesisShared
    /\ KeysReached

\* Genesis gives all devices one vault's sharings.
LEMMA InitInv == Init => Inv
PROOF
  <1> SUFFICES ASSUME Init PROVE Inv
    OBVIOUS
  <1>1. PICK g \in GenesisData :
          /\ ValidGenesis(g)
          /\ keys = [vault |-> g.outer[1],
                     identity |-> [p \in Persons |-> g.people[p].identity[1]]]
          /\ leaf = [d \in Devices |-> GenesisLeaf(g, d)]
          /\ blocks = <<>>
    BY DEF Init
  <1>2. ASSUME NEW d \in Devices
        PROVE  leaf[d] = GenesisLeaf(g, d)
    BY <1>1
  <1>a. ASSUME NEW d \in Devices
        PROVE  /\ leaf[d].identityMap = g.people[Owner[d]].identity
               /\ leaf[d].memberMap = g.people[Owner[d]].member
               /\ leaf[d].outerMap = g.outer
               /\ leaf[d].points = [p \in Persons |-> g.people[p].member[1]]
    <2>1. leaf[d] = GenesisLeaf(g, d)
      BY <1>2
    <2>2. /\ GenesisLeaf(g, d).identityMap = g.people[Owner[d]].identity
          /\ GenesisLeaf(g, d).memberMap = g.people[Owner[d]].member
          /\ GenesisLeaf(g, d).outerMap = g.outer
          /\ GenesisLeaf(g, d).points =
               [p \in Persons |-> g.people[p].member[1]]
      BY Zenon DEF GenesisLeaf
    <2>3. QED
      BY <2>1, <2>2, Zenon
  <1>3. LeafFields
    BY <1>1, <1>2 DEF LeafFields, FieldNames, GenesisLeaf
  <1>4. BlocksKnown
    <2>1. blocks \in Seq({})
      BY <1>1
    <2>2. Len(blocks) = 0
      BY <1>1
    <2>3. QED
      BY <2>1, <2>2 DEF BlocksKnown
  <1>5. HandlesName
    <2> SUFFICES ASSUME NEW d \in Devices
                 PROVE  Named(leaf[d], Owner[d], blocks)
      BY DEF HandlesName
    <2>1. /\ GenesisLeaf(g, d).outer = 0
          /\ GenesisLeaf(g, d).identityHandle = 0
          /\ GenesisLeaf(g, d).memberHandle = 0
      BY Zenon DEF GenesisLeaf
    <2>2. leaf[d] = GenesisLeaf(g, d)
      BY <1>2
    <2>3. 0 \in 0..Len(blocks)
      BY <1>1
    <2>4. QED
      BY <2>1, <2>2, <2>3, Zenon DEF Named
  <1>6. GenesisShared
    <2> SUFFICES ASSUME NEW d \in Devices, NEW e \in Devices
                 PROVE  /\ leaf[d].outerMap = leaf[e].outerMap
                        /\ leaf[d].points = leaf[e].points
                        /\ Owner[d] = Owner[e] =>
                             /\ leaf[d].identityMap = leaf[e].identityMap
                             /\ leaf[d].memberMap = leaf[e].memberMap
      BY Zenon DEF GenesisShared, SameOuter, SameInner
    <2>1. /\ leaf[d].identityMap = g.people[Owner[d]].identity
          /\ leaf[d].memberMap = g.people[Owner[d]].member
          /\ leaf[d].outerMap = g.outer
          /\ leaf[d].points = [p \in Persons |-> g.people[p].member[1]]
      BY <1>a, Zenon
    <2>2. /\ leaf[e].identityMap = g.people[Owner[e]].identity
          /\ leaf[e].memberMap = g.people[Owner[e]].member
          /\ leaf[e].outerMap = g.outer
          /\ leaf[e].points = [p \in Persons |-> g.people[p].member[1]]
      BY <1>a, Zenon
    <2>3. QED
      BY <2>1, <2>2, Zenon
  <1>7. KeysReached
    BY <1>1, <1>2 DEF KeysReached, Leads, GenesisLeaf, ValidGenesis
  <1>8. QED
    BY <1>3, <1>4, <1>5, <1>6, <1>7 DEF Inv

\* Appending keeps what was there.
LEMMA AppendFacts ==
    ASSUME NEW s, \E S : s \in Seq(S), NEW e
    PROVE  /\ Len(s) \in Nat
           /\ \E S : Append(s, e) \in Seq(S)
           /\ Len(Append(s, e)) = Len(s) + 1
           /\ \A i \in 1..Len(s) : Append(s, e)[i] = s[i]
           /\ Append(s, e)[Len(s) + 1] = e
PROOF
  <1>1. PICK S : s \in Seq(S)
    OBVIOUS
  <1>2. s \in Seq(S \cup {e})
    BY <1>1
  <1>3. Append(s, e) \in Seq(S \cup {e})
    BY <1>2
  <1>4. QED
    BY <1>2, <1>3

\* Appending a block leaves what the handles name.
LEMMA AppendInv ==
    ASSUME Inv, NEW block, InnerBlock(block) \/ OuterBlock(block),
           Activate(block)
    PROVE  Inv'
PROOF
  <1>1. /\ blocks' = Append(blocks, block)
        /\ keys' = keys
        /\ leaf' = leaf
    BY DEF Activate
  <1>2. \E S : blocks \in Seq(S)
    BY DEF Inv, BlocksKnown
  <1>3. /\ Len(blocks) \in Nat
        /\ \E S : blocks' \in Seq(S)
        /\ Len(blocks') = Len(blocks) + 1
        /\ \A h \in 1..Len(blocks) : blocks'[h] = blocks[h]
        /\ blocks'[Len(blocks) + 1] = block
    <2>1. /\ Len(blocks) \in Nat
          /\ \E S : Append(blocks, block) \in Seq(S)
          /\ Len(Append(blocks, block)) = Len(blocks) + 1
          /\ \A h \in 1..Len(blocks) :
               Append(blocks, block)[h] = blocks[h]
          /\ Append(blocks, block)[Len(blocks) + 1] = block
      BY <1>2, AppendFacts, Zenon
    <2>2. QED
      BY <1>1, <2>1, Zenon
  <1>4. \A h \in 1..Len(blocks') : h \in 1..Len(blocks) \/ h = Len(blocks) + 1
    BY <1>3
  <1>5. BlocksKnown'
    <2>1. ASSUME NEW h \in 1..Len(blocks')
          PROVE  InnerBlock(blocks'[h]) \/ OuterBlock(blocks'[h])
      <3>1. \A k \in 1..Len(blocks) :
               InnerBlock(blocks[k]) \/ OuterBlock(blocks[k])
        BY DEF Inv, BlocksKnown
      <3>2. CASE h \in 1..Len(blocks)
        BY <1>3, <3>1, <3>2, Zenon
      <3>3. CASE h = Len(blocks) + 1
        BY <1>3, <3>3, Zenon
      <3>4. QED
        BY <1>4, <3>2, <3>3, Zenon
    <2>2. QED
      BY <1>3, <2>1 DEF BlocksKnown, InnerBlock, OuterBlock
  <1>6. HandlesName'
    <2>1. HandlesName
      BY DEF Inv
    <2>2. \A h \in 0..Len(blocks) :
             h \in 0..Len(blocks') /\ (h # 0 => blocks'[h] = blocks[h])
      BY <1>3
    <2>3. ASSUME NEW d \in Devices
          PROVE  Named(leaf[d], Owner[d], blocks')
      <3>1. Named(leaf[d], Owner[d], blocks)
        BY <2>1, Zenon DEF HandlesName
      <3>2. QED
        BY <2>2, <3>1, Zenon DEF Named
    <2>4. QED
      BY <1>1, <2>3, Zenon DEF HandlesName
  <1>7. LeafFields'
    BY <1>1, Zenon DEF Inv, LeafFields
  <1>8. GenesisShared'
    BY <1>1, Zenon DEF Inv, GenesisShared
  <1>9. KeysReached'
    BY <1>1, Zenon DEF Inv, KeysReached
  <1>10. QED
    BY <1>5, <1>6, <1>7, <1>8, <1>9, Zenon DEF Inv

\* An inner bundle is dealt.
LEMMA DealInnerInv ==
    ASSUME Inv, NEW p \in Persons, NEW S, NEW t, DealInner(p, S, t)
    PROVE  Inv'
PROOF
  <1>1. PICK i, m : Activate([inner |-> TRUE, person |-> p,
                              identity |-> i, member |-> m])
    BY DEF DealInner
  <1>2. InnerBlock([inner |-> TRUE, person |-> p, identity |-> i, member |-> m])
    BY DEF InnerBlock
  <1>3. QED
    BY <1>1, <1>2, AppendInv

\* An outer block is dealt.
LEMMA DealOuterInv ==
    ASSUME Inv, NEW S,
           NEW tails \in [Persons -> UNION {Tails(t) : t \in InnerThresholds}],
           DealOuter(S, tails)
    PROVE  Inv'
PROOF
  <1> DEFINE members(outer) == [p \in Persons |->
                 <<Evaluate(outer, OuterNode[p])>> \o tails[p]]
  <1>1. PICK outer : Activate([inner |-> FALSE, outer |-> outer,
                               members |-> members(outer)])
    BY DEF DealOuter
  <1>2. ASSUME NEW p \in Persons
        PROVE  members(outer)[p][1] = Evaluate(outer, OuterNode[p])
    <2>1. PICK t \in InnerThresholds : tails[p] \in Tails(t)
      OBVIOUS
    <2>2. tails[p] \in Seq(Coefficients)
      <3>1. t - 1 \in Nat
        OBVIOUS
      <3>2. QED
        BY <2>1, <3>1 DEF Tails
    <2>3. ASSUME NEW x PROVE (<<x>> \o tails[p])[1] = x
      <3>1. <<x>> \in Seq({x} \cup Coefficients)
        OBVIOUS
      <3>2. tails[p] \in Seq({x} \cup Coefficients)
        BY <2>2
      <3>3. QED
        BY <3>1, <3>2
    <2>4. QED
      BY <2>3
  <1>3. OuterBlock([inner |-> FALSE, outer |-> outer,
                    members |-> members(outer)])
    BY <1>2 DEF OuterBlock
  <1> HIDE DEF members
  <1>4. QED
    BY <1>1, <1>3, AppendInv

\* An installation replaces one device's leaf by one with the same fields.
LEMMA InstallFields ==
    ASSUME LeafFields, NEW d \in Devices, NEW h
    PROVE  /\ InnerLeaf(d, h).identityMap = blocks[h].identity
           /\ InnerLeaf(d, h).memberMap = blocks[h].member
           /\ InnerLeaf(d, h).outerMap = leaf[d].outerMap
           /\ InnerLeaf(d, h).points = leaf[d].points
           /\ InnerLeaf(d, h).point = leaf[d].point
           /\ InnerLeaf(d, h).inner = h
           /\ InnerLeaf(d, h).identityHandle = h
           /\ InnerLeaf(d, h).outer = leaf[d].outer
           /\ InnerLeaf(d, h).memberHandle = h
           /\ OuterLeaf(d, h).identityMap = leaf[d].identityMap
           /\ OuterLeaf(d, h).memberMap = blocks[h].members[Owner[d]]
           /\ OuterLeaf(d, h).outerMap = blocks[h].outer
           /\ OuterLeaf(d, h).points = PointsOf(blocks[h])
           /\ OuterLeaf(d, h).point = blocks[h].members[Owner[d]][1]
           /\ OuterLeaf(d, h).inner = leaf[d].inner
           /\ OuterLeaf(d, h).identityHandle = leaf[d].identityHandle
           /\ OuterLeaf(d, h).outer = h
           /\ OuterLeaf(d, h).memberHandle = h
PROOF
  <1>2. DOMAIN leaf[d] = FieldNames
    BY DEF LeafFields
  <1>3. /\ InnerLeaf(d, h).identityMap = blocks[h].identity
        /\ InnerLeaf(d, h).memberMap = blocks[h].member
        /\ InnerLeaf(d, h).outerMap = leaf[d].outerMap
        /\ InnerLeaf(d, h).points = leaf[d].points
        /\ InnerLeaf(d, h).point = leaf[d].point
        /\ InnerLeaf(d, h).inner = h
        /\ InnerLeaf(d, h).identityHandle = h
        /\ InnerLeaf(d, h).outer = leaf[d].outer
        /\ InnerLeaf(d, h).memberHandle = h
    BY <1>2 DEF InnerLeaf, FieldNames
  <1>4. /\ OuterLeaf(d, h).identityMap = leaf[d].identityMap
        /\ OuterLeaf(d, h).memberMap = blocks[h].members[Owner[d]]
        /\ OuterLeaf(d, h).outerMap = blocks[h].outer
        /\ OuterLeaf(d, h).points = PointsOf(blocks[h])
        /\ OuterLeaf(d, h).point = blocks[h].members[Owner[d]][1]
        /\ OuterLeaf(d, h).inner = leaf[d].inner
        /\ OuterLeaf(d, h).identityHandle = leaf[d].identityHandle
        /\ OuterLeaf(d, h).outer = h
        /\ OuterLeaf(d, h).memberHandle = h
    BY <1>2 DEF OuterLeaf, PointsOf, FieldNames
  <1>5. QED
    BY <1>3, <1>4, Zenon

\* The leaves after an installation.
LEMMA InstallLeaves ==
    ASSUME LeafFields, NEW d \in Devices, NEW new,
           leaf' = [leaf EXCEPT ![d] = new], DOMAIN new = FieldNames
    PROVE  /\ leaf'[d] = new
           /\ \A e \in Devices \ {d} : leaf'[e] = leaf[e]
           /\ LeafFields'
PROOF
  <1>1. DOMAIN leaf = Devices
    BY Zenon DEF LeafFields
  <1>2. /\ leaf' = [e \in Devices |-> IF e = d THEN new ELSE leaf[e]]
    BY <1>1
  <1>3. \A e \in Devices : leaf'[e] = IF e = d THEN new ELSE leaf[e]
    BY <1>2
  <1>4. LeafFields'
    BY <1>2, <1>3 DEF LeafFields
  <1>5. QED
    BY <1>3, <1>4

\* A device installs an inner bundle.
LEMMA InstallInnerInv ==
    ASSUME Inv, NEW d \in Devices, NEW h \in 1..Len(blocks),
           InstallInner(d, h)
    PROVE  Inv'
PROOF
  <1> DEFINE new == InnerLeaf(d, h)
  <1>1. LeafFields /\ BlocksKnown /\ HandlesName /\ GenesisShared
        /\ KeysReached
    BY DEF Inv
  <1>2. /\ new.identityMap = blocks[h].identity
        /\ new.memberMap = blocks[h].member
        /\ new.outerMap = leaf[d].outerMap
        /\ new.points = leaf[d].points
        /\ new.point = leaf[d].point
        /\ new.identityHandle = h
        /\ new.outer = leaf[d].outer
        /\ new.memberHandle = h
    BY <1>1, InstallFields
  <1>3. DOMAIN new = FieldNames
    BY <1>1 DEF LeafFields, InnerLeaf, FieldNames
  <1> HIDE DEF new
  <1>4. /\ leaf' = [leaf EXCEPT ![d] = new]
        /\ keys' = keys
        /\ blocks' = blocks
        /\ blocks[h].inner
        /\ blocks[h].identity[1] = keys.identity[Owner[d]]
        /\ blocks[h].member[1] = leaf[d].point
    BY DEF InstallInner, FitsInner, new
  <1>5. /\ leaf'[d] = new
        /\ \A e \in Devices \ {d} : leaf'[e] = leaf[e]
        /\ LeafFields'
    BY <1>1, <1>3, <1>4, InstallLeaves, Zenon
  <1>6. BlocksKnown'
    BY <1>1, <1>4, Zenon DEF BlocksKnown, InnerBlock, OuterBlock
  <1>7. Len(blocks) \in Nat /\ h # 0
    BY <1>1, AppendFacts DEF BlocksKnown
  <1>8. HandlesName'
    <2>1. Named(new, Owner[d], blocks)
      <3>1. h \in 0..Len(blocks)
        BY <1>7
      <3>2. MemberOf(blocks[h], Owner[d]) = blocks[h].member
        BY <1>4, Zenon DEF MemberOf
      <3>3. Named(leaf[d], Owner[d], blocks)
        BY <1>1, Zenon DEF HandlesName
      <3>4. QED
        BY <1>2, <3>1, <3>2, <3>3, Zenon DEF Named
    <2>2. QED
      BY <1>1, <1>4, <1>5, <2>1 DEF HandlesName
  <1>9. GenesisShared'
    <2>1. ASSUME NEW e \in Devices
          PROVE  /\ SameOuter(new, leaf[e]) /\ SameOuter(leaf[e], new)
                 /\ SameInner(new, leaf[e]) /\ SameInner(leaf[e], new)
      <3>1. SameOuter(leaf[d], leaf[e]) /\ SameOuter(leaf[e], leaf[d])
        BY <1>1, Zenon DEF GenesisShared
      <3>2. QED
        BY <1>2, <1>7, <3>1, Zenon DEF SameOuter, SameInner
    <2>2. SameOuter(new, new) /\ SameInner(new, new)
      BY Zenon DEF SameOuter, SameInner
    <2>3. QED
      BY <1>1, <1>5, <2>1, <2>2, Zenon DEF GenesisShared
  <1>10. KeysReached'
    <2>1. Leads(leaf[d], Owner[d], keys)
      BY <1>1, Zenon DEF KeysReached
    <2>2. Leads(new, Owner[d], keys)
      BY <1>2, <1>4, <2>1, Zenon DEF Leads
    <2>3. QED
      BY <1>1, <1>4, <1>5, <2>2 DEF KeysReached
  <1>11. QED
    BY <1>5, <1>6, <1>8, <1>9, <1>10, Zenon DEF Inv

\* A device installs an outer block.
LEMMA InstallOuterInv ==
    ASSUME Inv, NEW d \in Devices, NEW h \in 1..Len(blocks),
           InstallOuter(d, h)
    PROVE  Inv'
PROOF
  <1> DEFINE new == OuterLeaf(d, h)
  <1>1. LeafFields /\ BlocksKnown /\ HandlesName /\ GenesisShared
        /\ KeysReached
    BY DEF Inv
  <1>2. /\ new.identityMap = leaf[d].identityMap
        /\ new.memberMap = blocks[h].members[Owner[d]]
        /\ new.outerMap = blocks[h].outer
        /\ new.points = PointsOf(blocks[h])
        /\ new.point = blocks[h].members[Owner[d]][1]
        /\ new.identityHandle = leaf[d].identityHandle
        /\ new.outer = h
        /\ new.memberHandle = h
    BY <1>1, InstallFields
  <1>3. DOMAIN new = FieldNames
    BY <1>1 DEF LeafFields, OuterLeaf, FieldNames
  <1> HIDE DEF new
  <1>4. /\ leaf' = [leaf EXCEPT ![d] = new]
        /\ keys' = keys
        /\ blocks' = blocks
        /\ ~blocks[h].inner
        /\ blocks[h].outer[1] = keys.vault
    BY DEF InstallOuter, FitsOuter, new
  <1>5. /\ leaf'[d] = new
        /\ \A e \in Devices \ {d} : leaf'[e] = leaf[e]
        /\ LeafFields'
    BY <1>1, <1>3, <1>4, InstallLeaves, Zenon
  <1>6. BlocksKnown'
    BY <1>1, <1>4, Zenon DEF BlocksKnown, InnerBlock, OuterBlock
  <1>7. Len(blocks) \in Nat /\ h # 0
    BY <1>1, AppendFacts DEF BlocksKnown
  <1>8. HandlesName'
    <2>1. Named(new, Owner[d], blocks)
      <3>1. h \in 0..Len(blocks)
        BY <1>7
      <3>2. MemberOf(blocks[h], Owner[d]) = blocks[h].members[Owner[d]]
        BY <1>4, Zenon DEF MemberOf
      <3>3. Named(leaf[d], Owner[d], blocks)
        BY <1>1, Zenon DEF HandlesName
      <3>4. QED
        BY <1>2, <3>1, <3>2, <3>3, Zenon DEF Named
    <2>2. QED
      BY <1>1, <1>4, <1>5, <2>1, Zenon DEF HandlesName
  <1>9. GenesisShared'
    <2>1. ASSUME NEW e \in Devices
          PROVE  /\ SameOuter(new, leaf[e]) /\ SameOuter(leaf[e], new)
                 /\ Owner[d] = Owner[e] =>
                      SameInner(new, leaf[e]) /\ SameInner(leaf[e], new)
      <3>1. Owner[d] = Owner[e] =>
              SameInner(leaf[d], leaf[e]) /\ SameInner(leaf[e], leaf[d])
        BY <1>1, Zenon DEF GenesisShared
      <3>2. QED
        BY <1>2, <1>7, <3>1, Zenon DEF SameOuter, SameInner
    <2>2. SameOuter(new, new) /\ SameInner(new, new)
      BY Zenon DEF SameOuter, SameInner
    <2>3. QED
      BY <1>1, <1>5, <2>1, <2>2, Zenon DEF GenesisShared
  <1>10. KeysReached'
    <2>1. Leads(leaf[d], Owner[d], keys)
      BY <1>1, Zenon DEF KeysReached
    <2>2. OuterBlock(blocks[h])
      BY <1>1, <1>4, Zenon DEF BlocksKnown, InnerBlock
    <2>3. \A q \in Persons :
            /\ new.points[q] = blocks[h].members[q][1]
            /\ new.points[q] = Evaluate(blocks[h].outer, OuterNode[q])
      BY <1>2, <2>2 DEF PointsOf, OuterBlock
    <2>4. Owner[d] \in Persons
      OBVIOUS
    <2>5. Leads(new, Owner[d], keys)
      BY <1>2, <1>4, <2>1, <2>3, <2>4, Zenon DEF Leads
    <2>6. QED
      BY <1>1, <1>4, <1>5, <2>5, Zenon DEF KeysReached
  <1>11. QED
    BY <1>5, <1>6, <1>8, <1>9, <1>10, Zenon DEF Inv

\* The invariant holds throughout.
LEMMA InvHolds == Spec => []Inv
PROOF
  <1>1. ASSUME Inv, [Next]_vars PROVE Inv'
    <2>1. CASE \E p \in Persons, t \in InnerThresholds :
                  \E S \in InnerSupports(p) : DealInner(p, S, t)
      BY <1>1, <2>1, DealInnerInv, Zenon
    <2>2. CASE \E P \in OuterSupports,
                  tails \in [Persons -> UNION {Tails(t) : t \in InnerThresholds}] :
                  \E S \in Supports(P) : DealOuter(S, tails)
      BY <1>1, <2>2, DealOuterInv, Zenon
    <2>3. CASE \E d \in Devices, h \in 1..Len(blocks) :
                  InstallInner(d, h) \/ InstallOuter(d, h)
      BY <1>1, <2>3, InstallInnerInv, InstallOuterInv, Zenon
    <2>4. CASE UNCHANGED vars
      <3>1. leaf' = leaf /\ keys' = keys /\ blocks' = blocks
        BY <2>4 DEF vars
      <3>2. QED
        BY <1>1, <3>1, Zenon DEF Inv, LeafFields, BlocksKnown, InnerBlock,
            OuterBlock, HandlesName, GenesisShared, KeysReached
    <2>5. QED
      BY <1>1, <2>1, <2>2, <2>3, <2>4, Zenon DEF Next
  <1>2. QED
    BY <1>1, InitInv, PTL DEF Spec

\* Whatever blocks a device installs, in whatever order, its sharings lead to
\* the keys fixed at genesis (leaf.rs: activate_inner_bundle, activate_outer).
THEOREM SharingsReachKeys == Spec => []MapsLeadToKeys
PROOF
  <1>1. Inv => MapsLeadToKeys
    BY Zenon DEF Inv, KeysReached, Leads, MapsLeadToKeys
  <1>2. QED
    BY <1>1, InvHolds, PTL

\* An outer epoch names the outer sharing.
LEMMA OuterMaterial ==
    ASSUME Inv, NEW d \in Devices, NEW e \in Devices,
           leaf[d].outer = leaf[e].outer
    PROVE  /\ leaf[d].outerMap = leaf[e].outerMap
           /\ leaf[d].points = leaf[e].points
PROOF
  <1>1. /\ Named(leaf[d], Owner[d], blocks) /\ Named(leaf[e], Owner[e], blocks)
        /\ SameOuter(leaf[d], leaf[e])
    BY Zenon DEF Inv, HandlesName, GenesisShared
  <1> QED
    BY <1>1, Zenon DEF Named, SameOuter

\* A key epoch names one person's sharings.
LEMMA EpochMaterial ==
    ASSUME Inv, NEW d \in Devices, NEW e \in Devices, EpochOf(d) = EpochOf(e)
    PROVE  /\ leaf[d].identityMap = leaf[e].identityMap
           /\ leaf[d].memberMap = leaf[e].memberMap
PROOF
  <1>1. /\ Owner[d] = Owner[e]
        /\ leaf[d].identityHandle = leaf[e].identityHandle
        /\ leaf[d].memberHandle = leaf[e].memberHandle
    BY DEF EpochOf
  <1>2. /\ Named(leaf[d], Owner[d], blocks) /\ Named(leaf[e], Owner[e], blocks)
        /\ SameInner(leaf[d], leaf[e])
    BY <1>1, Zenon DEF Inv, HandlesName, GenesisShared
  <1> QED
    BY <1>1, <1>2, Zenon DEF Named, SameInner

\* Equal epochs mean equal material, for every genesis and every history
\* (leaf.rs: LeafRegistry::epoch).
THEOREM EpochsNameMaterial == Spec => []EpochNamesMaterial
PROOF
  <1>1. Inv => EpochNamesMaterial
    BY OuterMaterial, EpochMaterial, Zenon DEF EpochNamesMaterial
  <1> QED
    BY <1>1, InvHolds, PTL

-----------------------------------------------------------------------------
(* Shares *)

\* One leaf: nonempty sharings over the field, identity and member sharing of
\* one threshold, and the shares on them at the device's node.
LeafFits(own, node) ==
    /\ own.identityMap \in Seq(Scalar)
    /\ own.memberMap \in Seq(Scalar)
    /\ own.outerMap \in Seq(Scalar)
    /\ Len(own.identityMap) > 0
    /\ Len(own.identityMap) = Len(own.memberMap)
    /\ Len(own.outerMap) > 0
    /\ Len(own.outerMap) = OuterThreshold
    /\ own.identity = Evaluate(own.identityMap, node)
    /\ SigningShare(own.identity, own.anchor) = Evaluate(own.memberMap, node)

InnerFits(block) ==
    /\ block.identity \in Seq(Scalar)
    /\ block.member \in Seq(Scalar)
    /\ Len(block.identity) > 0
    /\ Len(block.identity) = Len(block.member)
OuterFits(block) ==
    /\ block.outer \in Seq(Scalar)
    /\ Len(block.outer) > 0
    /\ Len(block.outer) = OuterThreshold
    /\ \A p \in Persons : block.members[p] \in Seq(Scalar)
BlockFits(block) ==
    (block.inner => InnerFits(block)) /\ (~block.inner => OuterFits(block))

\* Genesis validated the nodes and the outer sharing.
NodesFit ==
    /\ \A p \in Persons : Distinct(Node, DevicesOf(p))
    /\ Distinct(OuterNode, Persons)
    /\ OuterThreshold > 0

ShareInv ==
    /\ NodesFit
    /\ \A d \in Devices : LeafFits(leaf[d], Node[d])
    /\ \A h \in 1..Len(blocks) : BlockFits(blocks[h])

\* validate_support() finds equal nodes.
LEMMA ValidNodes ==
    ASSUME NEW D, NEW x, ValidSupport([d \in D |-> x[d]])
    PROVE  Distinct(x, D)
PROOF
  BY DEF ValidSupport, IsInjective, Distinct

\* Genesis validates the shares.
LEMMA InitShares == Init => ShareInv
PROOF
  <1> SUFFICES ASSUME Init PROVE ShareInv
    OBVIOUS
  <1>1. PICK g \in GenesisData :
          /\ ValidGenesis(g)
          /\ \A d \in Devices : Attaches(g, d)
          /\ leaf = [d \in Devices |-> GenesisLeaf(g, d)]
          /\ blocks = <<>>
    BY Zenon DEF Init
  <1>2. NodesFit
    <2>1. ASSUME NEW p \in Persons PROVE Distinct(Node, DevicesOf(p))
      <3>1. ValidSupport(Nodes(DevicesOf(p)))
        BY <1>1, Zenon DEF ValidGenesis, ValidPerson
      <3> QED
        BY <3>1, ValidNodes, Zenon DEF Nodes
    <2>2. Distinct(OuterNode, Persons)
      <3>1. ValidSupport(OuterNodes(Persons))
        BY <1>1, Zenon DEF ValidGenesis
      <3> QED
        BY <3>1, ValidNodes, Zenon DEF OuterNodes
    <2>3. OuterThreshold > 0
      BY <1>1, GenesisAssumption, Zenon DEF ValidGenesis, ValidPolynomial
    <2> QED
      BY <2>1, <2>2, <2>3, Zenon DEF NodesFit
  <1>3. ASSUME NEW d \in Devices PROVE LeafFits(leaf[d], Node[d])
    <2> DEFINE p == Owner[d]
               own == GenesisLeaf(g, d)
               id == g.people[p].identity
               mem == g.people[p].member
               n == Node[d]
    <2>1. p \in Persons /\ d \in DevicesOf(p) /\ leaf[d] = own /\ n \in Scalar
      BY <1>1, RosterAssumption DEF DevicesOf
    <2>2. /\ own.identityMap = id /\ own.memberMap = mem
          /\ own.outerMap = g.outer
          /\ own.identity = g.secrets[d].identity
          /\ own.anchor = AnchorShare(g.secrets[d].member, g.secrets[d].identity)
      BY Zenon DEF GenesisLeaf
    <2>3. /\ id \in Seq(Scalar) /\ mem \in Seq(Scalar) /\ g.outer \in Seq(Scalar)
          /\ Len(g.outer) = OuterThreshold
      BY <2>1, GenesisAssumption, Zenon
    <2>4. /\ Len(id) > 0 /\ Len(id) = Len(mem) /\ Len(g.outer) > 0
          /\ g.shares[d].identity = Evaluate(id, n)
          /\ g.shares[d].member = Evaluate(mem, n)
      BY <1>1, <2>1, Zenon DEF ValidGenesis, ValidPerson, ValidPolynomial
    <2>5. g.secrets[d] = g.shares[d]
      BY <1>1, Zenon DEF Attaches
    <2>6. Evaluate(id, n) \in Scalar /\ Evaluate(mem, n) \in Scalar
      BY <2>1, <2>3, EvaluateFacts
    <2>7. SigningShare(own.identity, own.anchor) = Evaluate(mem, n)
      <3>1. /\ own.identity = Evaluate(id, n)
            /\ own.anchor = AnchorShare(Evaluate(mem, n), Evaluate(id, n))
        BY <2>2, <2>4, <2>5, Zenon
      <3> HIDE DEF own, id, mem, n
      <3>2. SigningShare(Evaluate(id, n), AnchorShare(Evaluate(mem, n), Evaluate(id, n)))
              = Evaluate(mem, n)
        BY <2>6, Translation, Zenon
      <3> QED
        BY <3>1, <3>2, Zenon
    <2> QED
      BY <2>1, <2>2, <2>3, <2>4, <2>5, <2>7, Zenon DEF LeafFits
  <1>4. Len(blocks) = 0
    BY <1>1
  <1> QED
    BY <1>2, <1>3, <1>4 DEF ShareInv

\* What a device holds are scalars.
LEMMA LeafScalars ==
    ASSUME ShareInv, NEW d \in Devices
    PROVE  leaf[d].identity \in Scalar /\ ShareOf(d) \in Scalar
PROOF
  <1>1. LeafFits(leaf[d], Node[d]) /\ Node[d] \in Scalar
    BY RosterAssumption, Zenon DEF ShareInv
  <1> QED
    BY <1>1, EvaluateFacts DEF LeafFits, ShareOf

\* Supports of people and of one person's devices can be interpolated over.
LEMMA SupportNodes ==
    ASSUME NodesFit
    PROVE  /\ \A p \in Persons : \A S \in SUBSET DevicesOf(p) :
                /\ IsFiniteSet(S) /\ Nodes(S) \in [S -> Scalar]
                /\ Distinct(Nodes(S), S)
                /\ \A d \in S : d \in Devices /\ Nodes(S)[d] = Node[d]
           /\ \A P \in SUBSET Persons :
                /\ IsFiniteSet(P) /\ OuterNodes(P) \in [P -> Scalar]
                /\ Distinct(OuterNodes(P), P)
                /\ \A p \in P : OuterNodes(P)[p] = OuterNode[p]
PROOF
  <1>1. ASSUME NEW p \in Persons, NEW S \in SUBSET DevicesOf(p)
        PROVE  /\ IsFiniteSet(S) /\ Nodes(S) \in [S -> Scalar]
               /\ Distinct(Nodes(S), S)
               /\ \A d \in S : d \in Devices /\ Nodes(S)[d] = Node[d]
    <2>1. S \in SUBSET Devices
      BY DEF DevicesOf
    <2>2. IsFiniteSet(S)
      BY <2>1, RosterAssumption, FS_Subset
    <2>3. \A d \in S : Nodes(S)[d] = Node[d] /\ Node[d] \in Scalar
      BY <2>1, RosterAssumption DEF Nodes
    <2>4. Nodes(S) \in [S -> Scalar]
      BY <2>1, RosterAssumption DEF Nodes
    <2>5. Distinct(Nodes(S), S)
      BY <2>3 DEF NodesFit, Distinct
    <2> QED
      BY <2>1, <2>2, <2>3, <2>4, <2>5
  <1>2. ASSUME NEW P \in SUBSET Persons
        PROVE  /\ IsFiniteSet(P) /\ OuterNodes(P) \in [P -> Scalar]
               /\ Distinct(OuterNodes(P), P)
               /\ \A p \in P : OuterNodes(P)[p] = OuterNode[p]
    <2>2. IsFiniteSet(P)
      BY RosterAssumption, FS_Subset
    <2>3. \A p \in P : OuterNodes(P)[p] = OuterNode[p]
      BY DEF OuterNodes
    <2>4. OuterNodes(P) \in [P -> Scalar]
      BY RosterAssumption DEF OuterNodes
    <2>5. Distinct(OuterNodes(P), P)
      BY <2>3 DEF NodesFit, Distinct
    <2> QED
      BY <2>2, <2>3, <2>4, <2>5
  <1> QED
    BY <1>1, <1>2, Zenon

\* What one person's sources contribute is a scalar.
LEMMA SourceScalar ==
    ASSUME ShareInv, NEW p \in Persons, NEW S \in SUBSET DevicesOf(p),
           NEW values, \A d \in S : values[d] \in Scalar
    PROVE  SourceSum(S, values) \in Scalar
PROOF
  <1>1. /\ IsFiniteSet(S) /\ Nodes(S) \in [S -> Scalar] /\ Distinct(Nodes(S), S)
    BY SupportNodes, Zenon DEF ShareInv
  <1> DEFINE v == [d \in S |-> values[d]]
  <1>2. v \in [S -> Scalar]
    OBVIOUS
  <1> HIDE DEF v
  <1>3. Interpolate(Nodes(S), v) \in Scalar
    BY <1>1, <1>2, InterpolateRow
  <1> QED
    BY <1>3 DEF SourceSum, v

\* What Polynomial::sample() returns.
LEMMA SampledFacts ==
    ASSUME NEW c \in Scalar, NEW t \in Nat \ {0}, NEW tail \in Tails(t)
    PROVE  /\ <<c>> \o tail \in Seq(Scalar)
           /\ Len(<<c>> \o tail) = t
           /\ (<<c>> \o tail)[1] = c
           /\ Len(tail) = t - 1
PROOF
  <1>1. t - 1 \in Nat
    OBVIOUS
  <1>2. tail \in Seq(Scalar) /\ Len(tail) = t - 1
    BY <1>1, RosterAssumption DEF Tails
  <1>3. <<c>> \in Seq(Scalar) /\ Len(<<c>>) = 1 /\ <<c>>[1] = c
    OBVIOUS
  <1>4. <<c>> \o tail \in Seq(Scalar)
    BY <1>2, <1>3
  <1>5. Len(<<c>> \o tail) = 1 + (t - 1)
    BY <1>2, <1>3
  <1>6. (<<c>> \o tail)[1] = c
    BY <1>2, <1>3
  <1> QED
    BY <1>2, <1>4, <1>5, <1>6

\* A block that fits is dealt.
LEMMA AppendShares ==
    ASSUME Inv, ShareInv, NEW block, BlockFits(block), Activate(block)
    PROVE  ShareInv'
PROOF
  <1>1. blocks' = Append(blocks, block) /\ leaf' = leaf
    BY DEF Activate
  <1>2. \E S : blocks \in Seq(S)
    BY DEF Inv, BlocksKnown
  <1>3. /\ Len(blocks) \in Nat
        /\ Len(Append(blocks, block)) = Len(blocks) + 1
        /\ \A h \in 1..Len(blocks) : Append(blocks, block)[h] = blocks[h]
        /\ Append(blocks, block)[Len(blocks) + 1] = block
    BY <1>2, AppendFacts, SMT
  <1>4. \A h \in 1..(Len(blocks) + 1) : h \in 1..Len(blocks) \/ h = Len(blocks) + 1
    BY <1>3
  <1>5. ASSUME NEW h \in 1..Len(blocks')
        PROVE  BlockFits(blocks'[h])
    <2>1. \A k \in 1..Len(blocks) : BlockFits(blocks[k])
      BY Zenon DEF ShareInv
    <2>2. h \in 1..Len(blocks) \/ h = Len(blocks) + 1
      BY <1>1, <1>3, <1>4, Zenon
    <2>3. CASE h \in 1..Len(blocks)
      BY <1>1, <1>3, <2>1, <2>3, Zenon
    <2>4. CASE h = Len(blocks) + 1
      BY <1>1, <1>3, <2>4, Zenon
    <2> QED
      BY <2>2, <2>3, <2>4, Zenon
  <1>6. \A d \in Devices : LeafFits(leaf'[d], Node[d])
    BY <1>1, Zenon DEF ShareInv
  <1>7. NodesFit
    BY Zenon DEF ShareInv
  <1> QED
    BY <1>5, <1>6, <1>7 DEF ShareInv, NodesFit, LeafFits, BlockFits, InnerFits,
       OuterFits, Distinct

\* A dealt inner bundle fits.
LEMMA DealInnerShares ==
    ASSUME Inv, ShareInv, NEW p \in Persons, NEW t \in InnerThresholds,
           NEW S \in InnerSupports(p), DealInner(p, S, t)
    PROVE  ShareInv'
PROOF
  <1> DEFINE identity == SourceSum(S, [d \in S |-> leaf[d].identity])
             member == SourceSum(S, [d \in S |-> ShareOf(d)])
  <1>1. S \in SUBSET DevicesOf(p)
    BY DEF InnerSupports
  <1>2. \A d \in S : d \in Devices
    BY <1>1 DEF DevicesOf
  <1>3. identity \in Scalar
    <2> DEFINE v == [d \in S |-> leaf[d].identity]
    <2>1. \A d \in S : v[d] \in Scalar
      BY <1>2, LeafScalars
    <2> HIDE DEF v
    <2>2. SourceSum(S, v) \in Scalar
      BY <1>1, <2>1, SourceScalar
    <2> QED
      BY <2>2 DEF v
  <1>4. member \in Scalar
    <2> DEFINE v == [d \in S |-> ShareOf(d)]
    <2>1. \A d \in S : v[d] \in Scalar
      BY <1>2, LeafScalars
    <2> HIDE DEF v
    <2>2. SourceSum(S, v) \in Scalar
      BY <1>1, <2>1, SourceScalar
    <2> QED
      BY <2>2 DEF v
  <1>5. PICK i \in Sampled(identity, t), m \in Sampled(member, t) :
           Activate([inner |-> TRUE, person |-> p, identity |-> i, member |-> m])
    BY Zenon DEF DealInner
  <1> HIDE DEF identity, member
  <1>6. t \in Nat \ {0} /\ t > 0
    OBVIOUS
  <1>7. i \in Seq(Scalar) /\ Len(i) = t
    <2>1. PICK tail \in Tails(t) : i = <<identity>> \o tail
      BY DEF Sampled
    <2> QED
      BY <1>3, <1>6, <2>1, SampledFacts
  <1>8. m \in Seq(Scalar) /\ Len(m) = t
    <2>1. PICK tail \in Tails(t) : m = <<member>> \o tail
      BY DEF Sampled
    <2> QED
      BY <1>4, <1>6, <2>1, SampledFacts
  <1>9. BlockFits([inner |-> TRUE, person |-> p, identity |-> i, member |-> m])
    BY <1>6, <1>7, <1>8 DEF BlockFits, InnerFits
  <1> QED
    BY <1>5, <1>9, AppendShares


\* The sources of an outer dealing: one support of devices per person.
LEMMA SupportFacts ==
    ASSUME NEW P \in OuterSupports, NEW S \in Supports(P)
    PROVE  /\ DOMAIN S = P /\ P \in SUBSET Persons
           /\ Cardinality(P) = OuterThreshold
           /\ \A p \in P :
                /\ p \in Persons /\ S[p] \in SUBSET DevicesOf(p) /\ S[p] # {}
                /\ \A d \in S[p] : /\ d \in Devices /\ Owner[d] = p
                                   /\ Cardinality(S[p]) = Len(leaf[d].memberMap)
PROOF
  <1>1. P \in SUBSET Persons /\ Cardinality(P) = OuterThreshold
    BY DEF OuterSupports
  <1>2. DOMAIN S = P
    BY DEF Supports
  <1>3. ASSUME NEW p \in P
        PROVE  /\ S[p] \in SUBSET DevicesOf(p) /\ S[p] # {}
               /\ \A d \in S[p] : Cardinality(S[p]) = Len(leaf[d].memberMap)
    <2>1. S[p] \in InnerSupports(p)
      BY Zenon DEF Supports
    <2> QED
      BY <2>1 DEF InnerSupports
  <1>4. ASSUME NEW p \in P, NEW d \in S[p]
        PROVE  d \in Devices /\ Owner[d] = p
    BY <1>3 DEF DevicesOf
  <1> QED
    BY <1>1, <1>2, <1>3, <1>4

\* What the sources of an outer dealing contribute is a scalar.
LEMMA OuterScalar ==
    ASSUME ShareInv, NEW P \in OuterSupports, NEW S \in Supports(P)
    PROVE  OuterSum(S) \in Scalar
PROOF
  <1>1. /\ DOMAIN S = P /\ P \in SUBSET Persons
        /\ \A p \in P : /\ p \in Persons /\ S[p] \in SUBSET DevicesOf(p)
                        /\ \A d \in S[p] : d \in Devices
    BY SupportFacts, Zenon
  <1> DEFINE w(p) == [d \in S[p] |-> ShareOf(d)]
             v == [p \in P |-> SourceSum(S[p], w(p))]
  <1>2. ASSUME NEW p \in P PROVE SourceSum(S[p], w(p)) \in Scalar
    <2>1. \A d \in S[p] : w(p)[d] \in Scalar
      BY <1>1, LeafScalars
    <2> HIDE DEF w
    <2> QED
      BY <1>1, <2>1, SourceScalar
  <1>3. v \in [P -> Scalar]
    BY <1>2
  <1>4. /\ IsFiniteSet(P) /\ OuterNodes(P) \in [P -> Scalar]
        /\ Distinct(OuterNodes(P), P)
    BY <1>1, SupportNodes, Zenon DEF ShareInv
  <1>5. OuterSum(S) = Interpolate(OuterNodes(P), v)
    BY <1>1, Zenon DEF OuterSum
  <1> HIDE DEF v
  <1>6. Interpolate(OuterNodes(P), v) \in Scalar
    BY <1>3, <1>4, InterpolateRow
  <1> QED
    BY <1>5, <1>6, Zenon

\* A dealt outer block fits.
LEMMA DealOuterShares ==
    ASSUME Inv, ShareInv, NEW P \in OuterSupports, NEW S \in Supports(P),
           NEW tails \in [Persons -> UNION {Tails(t) : t \in InnerThresholds}],
           DealOuter(S, tails)
    PROVE  ShareInv'
PROOF
  <1> DEFINE members(outer) == [p \in Persons |->
                 <<Evaluate(outer, OuterNode[p])>> \o tails[p]]
  <1>1. OuterSum(S) \in Scalar
    BY OuterScalar
  <1>2. PICK outer \in Sampled(OuterSum(S), OuterThreshold) :
          Activate([inner |-> FALSE, outer |-> outer,
                    members |-> members(outer)])
    BY Zenon DEF DealOuter
  <1>3. OuterThreshold \in Nat \ {0} /\ OuterThreshold > 0
    BY RosterAssumption DEF DealOuter, OuterShape
  <1>4. outer \in Seq(Scalar) /\ Len(outer) = OuterThreshold
    <2>1. PICK tail \in Tails(OuterThreshold) : outer = <<OuterSum(S)>> \o tail
      BY DEF Sampled
    <2> QED
      BY <1>1, <1>3, <2>1, SampledFacts
  <1>5. ASSUME NEW p \in Persons PROVE members(outer)[p] \in Seq(Scalar)
    <2>1. PICK t \in InnerThresholds : tails[p] \in Tails(t)
      OBVIOUS
    <2>2. t \in Nat \ {0}
      OBVIOUS
    <2>3. Evaluate(outer, OuterNode[p]) \in Scalar
      BY <1>4, RosterAssumption, EvaluateFacts
    <2> QED
      BY <2>1, <2>2, <2>3, SampledFacts
  <1> HIDE DEF members
  <1>6. BlockFits([inner |-> FALSE, outer |-> outer,
                   members |-> members(outer)])
    BY <1>3, <1>4, <1>5 DEF BlockFits, OuterFits
  <1> QED
    BY <1>2, <1>6, AppendShares

\* An installation that leaves one leaf fitting.
LEMMA InstallShares ==
    ASSUME ShareInv, LeafFields, NEW d \in Devices, NEW new,
           leaf' = [leaf EXCEPT ![d] = new], blocks' = blocks,
           LeafFits(new, Node[d])
    PROVE  ShareInv'
PROOF
  <1>1. DOMAIN leaf = Devices
    BY Zenon DEF LeafFields
  <1>2. leaf' = [e \in Devices |-> IF e = d THEN new ELSE leaf[e]]
    BY <1>1
  <1>3. \A e \in Devices : leaf'[e] = IF e = d THEN new ELSE leaf[e]
    BY <1>2
  <1>4. \A e \in Devices : LeafFits(leaf'[e], Node[e])
    BY <1>3, Zenon DEF ShareInv
  <1>5. \A h \in 1..Len(blocks') : BlockFits(blocks'[h])
    BY Zenon DEF ShareInv
  <1>6. NodesFit
    BY Zenon DEF ShareInv
  <1> QED
    BY <1>4, <1>5, <1>6 DEF ShareInv, NodesFit, LeafFits, BlockFits, InnerFits,
       OuterFits, Distinct

\* An inner bundle replaces both shares.
LEMMA InstallInnerShares ==
    ASSUME Inv, ShareInv, NEW d \in Devices, NEW h \in 1..Len(blocks),
           InstallInner(d, h)
    PROVE  ShareInv'
PROOF
  <1> DEFINE new == InnerLeaf(d, h)
             n == Node[d]
             id == blocks[h].identity
             mem == blocks[h].member
             i == Evaluate(id, n)
             m == Evaluate(mem, n)
  <1>1. LeafFields /\ n \in Scalar
    BY RosterAssumption DEF Inv
  <1>2. /\ new.identityMap = id /\ new.memberMap = mem
        /\ new.outerMap = leaf[d].outerMap
    BY <1>1, InstallFields
  <1>3. new.identity = i /\ new.anchor = AnchorShare(m, i)
    <2>1. DOMAIN leaf[d] = FieldNames
      BY <1>1 DEF LeafFields
    <2> QED
      BY <2>1 DEF InnerLeaf, FieldNames
  <1>4. leaf' = [leaf EXCEPT ![d] = new] /\ blocks' = blocks /\ blocks[h].inner
    BY DEF InstallInner, FitsInner
  <1>5. InnerFits(blocks[h]) /\ LeafFits(leaf[d], Node[d])
    BY <1>4, Zenon DEF ShareInv, BlockFits
  <1>6. i \in Scalar /\ m \in Scalar
    BY <1>1, <1>5, EvaluateFacts DEF InnerFits
  <1> HIDE DEF new, i, m
  <1>7. SigningShare(new.identity, new.anchor) = m
    <2>1. SigningShare(i, AnchorShare(m, i)) = m
      BY <1>6, Translation, Zenon
    <2> QED
      BY <1>3, <2>1, Zenon
  <1>8. LeafFits(new, Node[d])
    BY <1>2, <1>3, <1>5, <1>7, Zenon DEF LeafFits, InnerFits, i, m
  <1> QED
    BY <1>1, <1>4, <1>8, InstallShares, Zenon

\* An outer block moves the anchor so that the share fits the new sharing.
LEMMA InstallOuterShares ==
    ASSUME Inv, ShareInv, NEW d \in Devices, NEW h \in 1..Len(blocks),
           InstallOuter(d, h)
    PROVE  ShareInv'
PROOF
  <1> DEFINE new == OuterLeaf(d, h)
             n == Node[d]
             p == Owner[d]
             mem == blocks[h].members[p]
             i == leaf[d].identity
             m == Evaluate(mem, n)
  <1>1. LeafFields /\ n \in Scalar /\ p \in Persons
    BY RosterAssumption DEF Inv
  <1>2. /\ new.identityMap = leaf[d].identityMap /\ new.memberMap = mem
        /\ new.outerMap = blocks[h].outer
    BY <1>1, InstallFields
  <1>3. new.identity = i /\ new.anchor = AnchorShare(m, i)
    <2>1. DOMAIN leaf[d] = FieldNames
      BY <1>1 DEF LeafFields
    <2> QED
      BY <2>1 DEF OuterLeaf, FieldNames
  <1>4. /\ leaf' = [leaf EXCEPT ![d] = new] /\ blocks' = blocks
        /\ ~blocks[h].inner
        /\ Len(leaf[d].identityMap) = Len(mem)
    BY DEF InstallOuter, FitsOuter
  <1>5. OuterFits(blocks[h]) /\ LeafFits(leaf[d], Node[d])
    BY <1>4, Zenon DEF ShareInv, BlockFits
  <1>6. i \in Scalar /\ m \in Scalar /\ mem \in Seq(Scalar)
    <2>1. mem \in Seq(Scalar)
      BY <1>1, <1>5, Zenon DEF OuterFits
    <2>2. m \in Scalar
      BY <1>1, <2>1, EvaluateFacts
    <2> QED
      BY <2>1, <2>2, LeafScalars
  <1> HIDE DEF new, i, m, mem
  <1>7. SigningShare(new.identity, new.anchor) = m
    <2>1. SigningShare(i, AnchorShare(m, i)) = m
      BY <1>6, Translation, Zenon
    <2> QED
      BY <1>3, <2>1, Zenon
  <1>8. LeafFits(new, Node[d])
    BY <1>2, <1>3, <1>4, <1>5, <1>6, <1>7, Zenon DEF LeafFits, OuterFits, i, m
  <1> QED
    BY <1>1, <1>4, <1>8, InstallShares, Zenon

\* Both invariants hold throughout.
LEMMA SharesHold == Spec => [](Inv /\ ShareInv)
PROOF
  <1>1. ASSUME Inv, ShareInv, [Next]_vars PROVE ShareInv'
    <2>1. CASE \E p \in Persons, t \in InnerThresholds :
                  \E S \in InnerSupports(p) : DealInner(p, S, t)
      BY <1>1, <2>1, DealInnerShares, Zenon
    <2>2. CASE \E P \in OuterSupports,
                  tails \in [Persons -> UNION {Tails(t) : t \in InnerThresholds}] :
                  \E S \in Supports(P) : DealOuter(S, tails)
      BY <1>1, <2>2, DealOuterShares, Zenon
    <2>3. CASE \E d \in Devices, h \in 1..Len(blocks) :
                  InstallInner(d, h) \/ InstallOuter(d, h)
      BY <1>1, <2>3, InstallInnerShares, InstallOuterShares, Zenon
    <2>4. CASE UNCHANGED vars
      <3>1. leaf' = leaf /\ blocks' = blocks
        BY <2>4 DEF vars
      <3> QED
        BY <1>1, <3>1, Zenon DEF ShareInv, NodesFit, LeafFits, BlockFits,
           InnerFits, OuterFits, Distinct
    <2> QED
      BY <1>1, <2>1, <2>2, <2>3, <2>4, Zenon DEF Next
  <1> QED
    BY <1>1, InvHolds, InitShares, PTL DEF Spec

\* Whatever a device installs, in whatever order, the share it recomputes for
\* signing lies on its member sharing, its identity share on its identity
\* sharing, and the two sharings keep one threshold
\* (leaf.rs: activate_inner_bundle, activate_outer).
THEOREM SharesStayOnMaps == Spec => []SharesOnMaps
PROOF
  <1>1. ShareInv => SharesOnMaps
    BY Zenon DEF ShareInv, LeafFits, SharesOnMaps, ShareOf
  <1> QED
    BY <1>1, SharesHold, PTL

-----------------------------------------------------------------------------
(* Level devices *)

\* Devices at one epoch hold shares of the same sharings, and those lead to
\* the keys. own is the leaf of any one of them.
LEMMA LevelShares ==
    ASSUME Inv, ShareInv, NEW d \in Devices, NEW e \in Devices,
           EpochOf(d) = EpochOf(e)
    PROVE  /\ leaf[e].identity = Evaluate(leaf[d].identityMap, Node[e])
           /\ ShareOf(e) = Evaluate(leaf[d].memberMap, Node[e])
           /\ leaf[e].point = leaf[d].point
           /\ leaf[e].memberMap = leaf[d].memberMap
           /\ Owner[d] = Owner[e]
PROOF
  <1>1. /\ leaf[d].identityMap = leaf[e].identityMap
        /\ leaf[d].memberMap = leaf[e].memberMap
    BY EpochMaterial, Zenon
  <1>2. LeafFits(leaf[e], Node[e])
    BY Zenon DEF ShareInv
  <1>3. leaf[d].memberMap[1] = leaf[d].point /\ leaf[e].memberMap[1] = leaf[e].point
    BY Zenon DEF Inv, KeysReached, Leads
  <1>4. Owner[d] = Owner[e]
    BY DEF EpochOf
  <1> QED
    BY <1>1, <1>2, <1>3, <1>4, Zenon DEF LeafFits, ShareOf

\* One person's support interpolates the constant of any sharing its devices
\* have shares of.
LEMMA SourceConstant ==
    ASSUME NodesFit, NEW p \in Persons, NEW S \in SUBSET DevicesOf(p),
           NEW poly \in Seq(Scalar), Len(poly) > 0, Cardinality(S) = Len(poly),
           NEW values, \A e \in S : values[e] = Evaluate(poly, Node[e])
    PROVE  /\ SourceSum(S, values) = poly[1]
           /\ Interpolate(Nodes(S), values) = poly[1]
PROOF
  <1>1. /\ IsFiniteSet(S) /\ Nodes(S) \in [S -> Scalar] /\ Distinct(Nodes(S), S)
        /\ \A d \in S : Nodes(S)[d] = Node[d]
    BY SupportNodes, Zenon
  <1>2. Len(poly) \in 1..Cardinality(S)
    <2>1. Len(poly) \in Nat
      OBVIOUS
    <2> QED
      BY <2>1
  <1> DEFINE v == [d \in S |-> values[d]]
  <1>3. /\ \A d \in S : v[d] = Evaluate(poly, Nodes(S)[d])
        /\ \A d \in S : values[d] = Evaluate(poly, Nodes(S)[d])
    BY <1>1
  <1> HIDE DEF v
  <1>4. Interpolate(Nodes(S), v) = poly[1]
    BY <1>1, <1>2, <1>3, Interpolates
  <1>5. Interpolate(Nodes(S), values) = poly[1]
    BY <1>1, <1>2, <1>3, Interpolates
  <1> QED
    BY <1>4, <1>5 DEF SourceSum, v

\* The same of the people.
LEMMA OuterConstant ==
    ASSUME NodesFit, NEW P \in SUBSET Persons,
           NEW poly \in Seq(Scalar), Len(poly) > 0, Cardinality(P) = Len(poly),
           NEW values, \A p \in P : values[p] = Evaluate(poly, OuterNode[p])
    PROVE  Interpolate(OuterNodes(P), values) = poly[1]
PROOF
  <1>1. /\ IsFiniteSet(P) /\ OuterNodes(P) \in [P -> Scalar]
        /\ Distinct(OuterNodes(P), P)
        /\ \A p \in P : OuterNodes(P)[p] = OuterNode[p]
    BY SupportNodes, Zenon
  <1>2. Len(poly) \in 1..Cardinality(P)
    <2>1. Len(poly) \in Nat
      OBVIOUS
    <2> QED
      BY <2>1
  <1>3. \A p \in P : values[p] = Evaluate(poly, OuterNodes(P)[p])
    BY <1>1
  <1> QED
    BY <1>1, <1>2, <1>3, Interpolates

\* What a level support of one person reconstructs.
LEMMA LevelPerson ==
    ASSUME Inv, ShareInv, NEW P \in OuterSupports, NEW S \in Supports(P),
           Level(S), NEW p \in P, NEW d \in S[p]
    PROVE  /\ SourceSum(S[p], [e \in S[p] |-> leaf[e].identity])
                = keys.identity[p]
           /\ SourceSum(S[p], [e \in S[p] |-> ShareOf(e)]) = leaf[d].point
PROOF
  <1>1. /\ DOMAIN S = P /\ p \in Persons /\ S[p] \in SUBSET DevicesOf(p)
        /\ \A e \in S[p] : /\ e \in Devices /\ Owner[e] = p
                           /\ Cardinality(S[p]) = Len(leaf[e].memberMap)
    BY SupportFacts
  <1>2. \A e \in S[p] : EpochOf(d) = EpochOf(e)
    BY <1>1, Zenon DEF Level
  <1>3. \A e \in S[p] :
          /\ leaf[e].identity = Evaluate(leaf[d].identityMap, Node[e])
          /\ ShareOf(e) = Evaluate(leaf[d].memberMap, Node[e])
    BY <1>1, <1>2, LevelShares, Zenon
  <1>4. LeafFits(leaf[d], Node[d]) /\ NodesFit
    BY <1>1, Zenon DEF ShareInv
  <1>5. /\ leaf[d].identityMap[1] = keys.identity[p]
        /\ leaf[d].memberMap[1] = leaf[d].point
    BY <1>1, SMT DEF Inv, KeysReached, Leads
  <1> DEFINE id == leaf[d].identityMap
             mem == leaf[d].memberMap
             v == [e \in S[p] |-> leaf[e].identity]
             w == [e \in S[p] |-> ShareOf(e)]
  <1>6. /\ id \in Seq(Scalar) /\ mem \in Seq(Scalar) /\ Len(id) > 0 /\ Len(mem) > 0
        /\ Cardinality(S[p]) = Len(id) /\ Cardinality(S[p]) = Len(mem)
    BY <1>1, <1>4, Zenon DEF LeafFits
  <1>7. /\ \A e \in S[p] : v[e] = Evaluate(id, Node[e])
        /\ \A e \in S[p] : w[e] = Evaluate(mem, Node[e])
    BY <1>3
  <1> HIDE DEF id, mem, v, w
  <1>8. NodesFit /\ p \in Persons /\ S[p] \in SUBSET DevicesOf(p)
    BY <1>1, <1>4, Zenon
  <1>9. SourceSum(S[p], v) = id[1]
    <2>1. id \in Seq(Scalar) /\ Len(id) > 0 /\ Cardinality(S[p]) = Len(id)
      BY <1>6, Zenon
    <2>2. \A e \in S[p] : v[e] = Evaluate(id, Node[e])
      BY <1>7, Zenon
    <2> QED
      BY ONLY <1>8, <2>1, <2>2, SourceConstant, Zenon
  <1>10. SourceSum(S[p], w) = mem[1]
    <2>1. mem \in Seq(Scalar) /\ Len(mem) > 0 /\ Cardinality(S[p]) = Len(mem)
      BY <1>6, Zenon
    <2>2. \A e \in S[p] : w[e] = Evaluate(mem, Node[e])
      BY <1>7, Zenon
    <2> QED
      BY ONLY <1>8, <2>1, <2>2, SourceConstant, Zenon
  <1> QED
    BY <1>5, <1>9, <1>10 DEF id, mem, v, w

\* Level supports share one outer sharing, and it has the vault's threshold.
LEMMA LevelOuter ==
    ASSUME Inv, ShareInv, NEW P \in OuterSupports, NEW S \in Supports(P),
           Level(S), NEW p \in P, NEW d \in S[p]
    PROVE  /\ \A q \in P : \A e \in S[q] :
                /\ leaf[e].point = Evaluate(leaf[d].outerMap, OuterNode[q])
                /\ leaf[e].points = leaf[d].points
                /\ leaf[e].outerMap = leaf[d].outerMap
           /\ \A q \in P : leaf[d].points[q]
                               = Evaluate(leaf[d].outerMap, OuterNode[q])
           /\ leaf[d].outerMap \in Seq(Scalar) /\ Len(leaf[d].outerMap) > 0
           /\ Cardinality(P) = Len(leaf[d].outerMap)
           /\ leaf[d].outerMap[1] = keys.vault
PROOF
  <1>1. /\ DOMAIN S = P /\ P \in SUBSET Persons
        /\ Cardinality(P) = OuterThreshold
        /\ \A q \in P : \A e \in S[q] : e \in Devices /\ Owner[e] = q
    BY SupportFacts, SMT
  <1>2. d \in Devices /\ LeafFits(leaf[d], Node[d])
    BY <1>1, Zenon DEF ShareInv
  <1>3. ASSUME NEW q \in P, NEW e \in S[q]
        PROVE  leaf[d].outer = leaf[e].outer
    <2>1. e \in UNION Range(S) /\ d \in UNION Range(S)
      BY <1>1 DEF Range
    <2> QED
      BY <2>1, Zenon DEF Level
  <1>4. ASSUME NEW q \in P, NEW e \in S[q]
        PROVE  /\ leaf[d].outerMap = leaf[e].outerMap
               /\ leaf[d].points = leaf[e].points
    BY <1>1, <1>2, <1>3, OuterMaterial, Zenon
  <1>5. \A e \in Devices : Leads(leaf[e], Owner[e], keys)
    BY Zenon DEF Inv, KeysReached
  <1>6. ASSUME NEW q \in P, NEW e \in S[q]
        PROVE  leaf[e].point = Evaluate(leaf[d].outerMap, OuterNode[q])
    <2>1. e \in Devices /\ Owner[e] = q /\ q \in Persons
      BY <1>1
    <2>2. /\ leaf[e].point = leaf[e].points[q]
          /\ leaf[e].points[q] = Evaluate(leaf[e].outerMap, OuterNode[q])
      BY <1>5, <2>1, Zenon DEF Leads
    <2>3. leaf[d].outerMap = leaf[e].outerMap
      BY <1>4
    <2> QED
      BY <2>2, <2>3, Zenon
  <1>7. \A q \in P : leaf[d].points[q] = Evaluate(leaf[d].outerMap, OuterNode[q])
    BY <1>1, <1>2, <1>5 DEF Leads
  <1> QED
    BY <1>1, <1>2, <1>4, <1>5, <1>6, <1>7, Zenon DEF LeafFits, Leads

\* Whatever the history, level devices contribute exactly the keys to a
\* dealing, so what they deal passes every device's check of the constants
\* (support.rs: source_weight, shape.rs: Command::new).
THEOREM LevelSourcesDealKeys == Spec => []LevelSourcesKeepKeys
PROOF
  <1>1. ASSUME Inv, ShareInv, NEW P \in OuterSupports, NEW S \in Supports(P),
               Level(S)
        PROVE  OuterSum(S) = keys.vault
    <2>0. \A q \in P : \A d \in S[q] :
             /\ SourceSum(S[q], [e \in S[q] |-> leaf[e].identity])
                  = keys.identity[q]
             /\ SourceSum(S[q], [e \in S[q] |-> ShareOf(e)]) = leaf[d].point
      BY ONLY <1>1, LevelPerson, Zenon
    <2>1. /\ DOMAIN S = P /\ P \in SUBSET Persons
          /\ Cardinality(P) = OuterThreshold
          /\ \A p \in P : S[p] # {} /\ S[p] \in SUBSET Devices
      <3>1. /\ DOMAIN S = P /\ P \in SUBSET Persons
            /\ Cardinality(P) = OuterThreshold
            /\ \A p \in P : S[p] # {}
            /\ \A p \in P : \A d \in S[p] : d \in Devices
        BY <1>1, SupportFacts, SMT
      <3> QED
        BY <3>1
    <2>2. PICK p \in P : TRUE
      <3>1. P # {}
        <4>1. OuterThreshold > 0
          BY <1>1, Zenon DEF ShareInv, NodesFit
        <4>2. Cardinality(P) = OuterThreshold
          BY <2>1, Zenon
        <4> QED
          BY ONLY <4>1, <4>2, FS_EmptySet, SMT
      <3> QED
        BY <3>1
    <2>3. PICK d \in S[p] : TRUE
      BY <2>1
    <2>4. NodesFit
      BY <1>1, Zenon DEF ShareInv
    <2> DEFINE v == [q \in P |-> SourceSum(S[q], [e \in S[q] |-> ShareOf(e)])]
               poly == leaf[d].outerMap
    <2>5. /\ \A q \in P : \A e \in S[q] :
               leaf[e].point = Evaluate(poly, OuterNode[q])
          /\ poly \in Seq(Scalar) /\ Len(poly) > 0
          /\ Cardinality(P) = Len(poly) /\ poly[1] = keys.vault
      BY <1>1, <2>2, <2>3, LevelOuter
    <2>6. ASSUME NEW q \in P PROVE v[q] = Evaluate(poly, OuterNode[q])
      <3>1. PICK d0 \in S[q] : TRUE
        BY <2>1
      <3>2. SourceSum(S[q], [e \in S[q] |-> ShareOf(e)]) = leaf[d0].point
        BY <2>0, Zenon
      <3> QED
        BY <2>5, <3>1, <3>2
    <2>7. OuterSum(S) = Interpolate(OuterNodes(P), v)
      BY <2>1, Zenon DEF OuterSum
    <2> HIDE DEF v, poly
    <2>8. Interpolate(OuterNodes(P), v) = poly[1]
      BY <2>1, <2>4, <2>5, <2>6, OuterConstant
    <2> QED
      BY <2>5, <2>7, <2>8, Zenon
  <1>2. Inv /\ ShareInv => LevelSourcesKeepKeys
    BY <1>1, LevelPerson, Zenon DEF LevelSourcesKeepKeys
  <1> QED
    BY <1>2, SharesHold, PTL

\* Whatever the history, no check of validate_reservation refuses what a
\* device at the same epoch offers (leaf.rs: validate_reservation,
\* validate_inner_support, validate_outer_support).
THEOREM LevelDevicesAgree == Spec => []LevelDevicesAccept
PROOF
  <1>1. ASSUME Inv, ShareInv, NEW P \in OuterSupports, NEW S \in Supports(P),
               Level(S), NEW p \in P, NEW r \in S[p], NEW d \in S[p]
        PROVE  Accepts(d, Offer(r, S[p], P))
    <2> DEFINE o == Offer(r, S[p], P)
               mem == leaf[d].memberMap
               outer == leaf[d].outerMap
               shares == [e \in S[p] |-> Evaluate(leaf[r].memberMap, Node[e])]
               members == [q \in P |-> leaf[r].points[q]]
    <2>1. /\ DOMAIN S = P /\ P \in SUBSET Persons /\ p \in Persons
          /\ S[p] \in SUBSET DevicesOf(p)
          /\ \A e \in S[p] : /\ e \in Devices /\ Owner[e] = p
                             /\ Cardinality(S[p]) = Len(leaf[e].memberMap)
      BY <1>1, SupportFacts
    <2>2. /\ o.epoch = EpochOf(r) /\ o.identity = keys.identity[Owner[r]]
          /\ o.member = leaf[r].point /\ o.key = keys.vault
          /\ o.shares = shares /\ o.outer = members
      BY Zenon DEF Offer
    <2>3. EpochOf(d) = EpochOf(r)
      BY <1>1, <2>1, Zenon DEF Level
    <2>4. /\ ShareOf(d) = Evaluate(leaf[r].memberMap, Node[d])
          /\ leaf[d].point = leaf[r].point
          /\ leaf[r].memberMap = mem
      BY <1>1, <2>1, <2>3, LevelShares, Zenon
    <2>5. /\ leaf[r].points = leaf[d].points
          /\ \A q \in P : leaf[d].points[q] = Evaluate(outer, OuterNode[q])
          /\ outer \in Seq(Scalar) /\ Len(outer) > 0
          /\ Cardinality(P) = Len(outer) /\ outer[1] = keys.vault
      BY <1>1, LevelOuter
    <2>6. LeafFits(leaf[d], Node[d]) /\ NodesFit /\ Leads(leaf[d], p, keys)
      BY <1>1, <2>1, Zenon DEF ShareInv, Inv, KeysReached
    <2>7. /\ mem \in Seq(Scalar) /\ Len(mem) > 0 /\ Cardinality(S[p]) = Len(mem)
          /\ mem[1] = leaf[d].point /\ leaf[d].point = leaf[d].points[p]
      BY <2>1, <2>6, Zenon DEF LeafFits, Leads
    <2>8. /\ DOMAIN shares = S[p] /\ DOMAIN members = P
          /\ \A e \in S[p] : shares[e] = Evaluate(mem, Node[e])
          /\ \A q \in P : members[q] = leaf[d].points[q]
          /\ shares[d] = ShareOf(d)
      BY <2>4, <2>5
    <2> HIDE DEF shares, members, mem, outer
    <2>9. ValidInnerSupport(d, shares)
      <3>1. Interpolate(Nodes(S[p]), shares) = mem[1]
        BY <2>1, <2>6, <2>7, <2>8, SourceConstant
      <3> QED
        BY <2>7, <2>8, <3>1, Zenon DEF ValidInnerSupport, mem
    <2>10. ValidOuterSupport(d, members)
      <3>1. \A q \in P : members[q] = Evaluate(outer, OuterNode[q])
        BY <2>5, <2>8, Zenon
      <3>2. Interpolate(OuterNodes(P), members) = outer[1]
        BY <2>1, <2>5, <2>6, <3>1, OuterConstant
      <3> QED
        BY <2>5, <2>8, <3>1, <3>2, Zenon DEF ValidOuterSupport, outer
    <2>11. /\ o.member = o.outer[Owner[d]] /\ o.epoch = EpochOf(d)
           /\ o.identity = keys.identity[Owner[d]] /\ o.member = leaf[d].point
           /\ o.key = keys.vault /\ ShareOf(d) = o.shares[d]
      BY <2>1, <2>2, <2>3, <2>4, <2>7, <2>8, Zenon
    <2> QED
      BY <2>2, <2>9, <2>10, <2>11, Zenon DEF Accepts
  <1>2. Inv /\ ShareInv => LevelDevicesAccept
    BY <1>1, Zenon DEF LevelDevicesAccept
  <1> QED
    BY <1>2, SharesHold, PTL

-----------------------------------------------------------------------------
(* Signing *)

\* What accepted offers say, whoever they were built by: public shares are the
\* shares the devices sign with, they lead to the member points, and those
\* lead to the vault key.
LEMMA AcceptedFacts ==
    ASSUME Inv, ShareInv, NEW P \in OuterSupports, NEW S \in Supports(P),
           NEW r \in [P -> Devices], NEW offers,
           offers = [p \in P |-> Offer(r[p], S[p], P)],
           \A p, q \in P : offers[p].outer = offers[q].outer,
           \A p \in P : \A d \in S[p] : Accepts(d, offers[p]),
           NEW members, members = [p \in P |-> offers[p].member]
    PROVE  /\ \A p \in P :
                /\ offers[p].shares \in [S[p] -> Scalar]
                /\ \A d \in S[p] : ShareOf(d) = offers[p].shares[d]
                /\ members[p] = Interpolate(Nodes(S[p]), offers[p].shares)
                /\ members[p] \in Scalar
           /\ members \in [P -> Scalar]
           /\ Interpolate(OuterNodes(P), members) = keys.vault
           /\ keys.vault \in Scalar
           /\ P # {}
PROOF
  <1>1. /\ DOMAIN S = P /\ P \in SUBSET Persons
        /\ Cardinality(P) = OuterThreshold
        /\ \A p \in P :
             /\ p \in Persons /\ S[p] \in SUBSET DevicesOf(p) /\ S[p] # {}
             /\ \A d \in S[p] : d \in Devices /\ Owner[d] = p
    BY SupportFacts
  <1>2. NodesFit
    BY Zenon DEF ShareInv
  <1>3. ASSUME NEW p \in P
        PROVE  /\ offers[p].shares
                    = [d \in S[p] |-> Evaluate(leaf[r[p]].memberMap, Node[d])]
               /\ offers[p].outer = [q \in P |-> leaf[r[p]].points[q]]
               /\ members[p] = offers[p].member
    <2>1. offers[p] = Offer(r[p], S[p], P) /\ members[p] = offers[p].member
      OBVIOUS
    <2>2. /\ Offer(r[p], S[p], P).shares
               = [d \in S[p] |-> Evaluate(leaf[r[p]].memberMap, Node[d])]
          /\ Offer(r[p], S[p], P).outer = [q \in P |-> leaf[r[p]].points[q]]
      BY Zenon DEF Offer
    <2> QED
      BY <2>1, <2>2, Zenon
  <1>4. ASSUME NEW p \in P
        PROVE  offers[p].shares \in [S[p] -> Scalar]
    <2>1. r[p] \in Devices
      OBVIOUS
    <2>2. leaf[r[p]].memberMap \in Seq(Scalar)
      BY <2>1, Zenon DEF ShareInv, LeafFits
    <2> DEFINE mem == leaf[r[p]].memberMap
    <2>3. ASSUME NEW d \in S[p] PROVE Evaluate(mem, Node[d]) \in Scalar
      <3>1. d \in Devices
        BY <1>1
      <3>2. Node[d] \in Scalar
        BY <3>1, RosterAssumption
      <3> HIDE DEF mem
      <3> QED
        BY <2>2, <3>2, EvaluateFacts DEF mem
    <2>4. [d \in S[p] |-> Evaluate(mem, Node[d])] \in [S[p] -> Scalar]
      BY <2>3
    <2> QED
      BY <1>3, <2>4
  <1>5. ASSUME NEW p \in P
        PROVE  /\ \A d \in S[p] : ShareOf(d) = offers[p].shares[d]
               /\ members[p] = Interpolate(Nodes(S[p]), offers[p].shares)
               /\ members[p] = offers[p].outer[p]
    <2>1. \A d \in S[p] : ShareOf(d) = offers[p].shares[d]
      BY Zenon DEF Accepts
    <2>2. PICK d \in S[p] : TRUE
      BY <1>1
    <2>3. /\ offers[p].member = leaf[d].point
          /\ ValidInnerSupport(d, offers[p].shares)
          /\ offers[p].member = offers[p].outer[Owner[d]]
      BY <2>2, Zenon DEF Accepts
    <2>4. DOMAIN offers[p].shares = S[p] /\ Owner[d] = p
      BY <1>1, <1>4
    <2>5. Interpolate(Nodes(S[p]), offers[p].shares) = leaf[d].point
      BY <2>3, <2>4, Zenon DEF ValidInnerSupport
    <2> QED
      BY <1>3, <2>1, <2>3, <2>4, <2>5, Zenon
  <1>6. ASSUME NEW p \in P PROVE members[p] \in Scalar
    <2>1. /\ IsFiniteSet(S[p]) /\ Nodes(S[p]) \in [S[p] -> Scalar]
          /\ Distinct(Nodes(S[p]), S[p])
      BY <1>1, <1>2, SupportNodes, Zenon
    <2>2. offers[p].shares \in [S[p] -> Scalar]
      BY <1>4
    <2>3. Interpolate(Nodes(S[p]), offers[p].shares) \in Scalar
      BY <2>1, <2>2, InterpolateRow
    <2> QED
      BY <1>5, <2>3, Zenon
  <1>7. members \in [P -> Scalar]
    BY <1>6
  <1>8. P # {}
    <2>1. OuterThreshold > 0
      BY <1>2, Zenon DEF NodesFit
    <2> QED
      BY <1>1, <2>1, FS_EmptySet
  <1>9. Interpolate(OuterNodes(P), members) = keys.vault
    <2>1. PICK p \in P : TRUE
      BY <1>8
    <2>2. PICK d \in S[p] : TRUE
      BY <1>1
    <2>3. offers[p].outer = members
      <3>1. ASSUME NEW q \in P PROVE offers[p].outer[q] = members[q]
        <4>1. offers[p].outer = offers[q].outer
          OBVIOUS
        <4> QED
          BY <1>5, <4>1, SMT
      <3>2. offers[p].outer = [q \in P |-> leaf[r[p]].points[q]]
        BY <1>3
      <3> QED
        BY <1>7, <3>1, <3>2
    <2>4. ValidOuterSupport(d, offers[p].outer)
      BY <2>1, <2>2, Zenon DEF Accepts
    <2>5. DOMAIN members = P
      BY <1>7
    <2> QED
      BY <2>3, <2>4, <2>5, Zenon DEF ValidOuterSupport
  <1>10. keys.vault \in Scalar
    <2>1. /\ IsFiniteSet(P) /\ OuterNodes(P) \in [P -> Scalar]
          /\ Distinct(OuterNodes(P), P)
      BY <1>1, <1>2, SupportNodes, Zenon
    <2>2. Interpolate(OuterNodes(P), members) \in Scalar
      BY <1>7, <2>1, InterpolateRow
    <2> QED
      BY <1>9, <2>2, Zenon
  <1> QED
    BY <1>4, <1>5, <1>6, <1>7, <1>8, <1>9, <1>10

\* The round runs to a signature, unless it stops on an identity nonce or key.
LEMMA RoundSigns ==
    ASSUME Inv, ShareInv, NEW P \in OuterSupports, NEW S \in Supports(P),
           NEW shares, NEW members \in [P -> Scalar], P # {},
           \A p \in P :
             /\ shares[p] \in [S[p] -> Scalar]
             /\ \A d \in S[p] : ShareOf(d) = shares[p][d]
             /\ members[p] = Interpolate(Nodes(S[p]), shares[p]),
           Interpolate(OuterNodes(P), members) = keys.vault,
           keys.vault \in Scalar, NEW input \in SigningInputs
    PROVE  Sign(S, shares, members, input) # None
PROOF
  <1> DEFINE key == IF input.tweak = None THEN PlainKey(keys.vault)
                    ELSE TaprootKey(keys.vault, input.tweak)
             nonces(p) == [d \in S[p] |-> input.nonces[d]]
             pairs == [p \in P |-> SumPairs(nonces(p))]
             bound == [p \in P |-> input.bindings[p]]
             ctx == SigningContext(key, pairs, bound, input.challenge)
             weights == LagrangeAtZero(OuterNodes(P))
             answers(p) == [d \in S[p] |->
                 RespondDevice(ctx, p,
                     Mul(LagrangeAtZero(Nodes(S[p]))[d], weights[p]),
                     input.nonces[d], ShareOf(d))]
             total(p) == AggregateMember(ctx, p, Nodes(S[p]), shares[p],
                             members[p], weights[p], nonces(p), answers(p))
             z == [p \in P |-> total(p)]
             final == AggregateSignature(ctx, OuterNodes(P), members, pairs, z)
  <1>1. /\ DOMAIN S = P /\ P \in SUBSET Persons
        /\ \A p \in P :
             /\ p \in Persons /\ S[p] \in SUBSET DevicesOf(p) /\ S[p] # {}
             /\ \A d \in S[p] : d \in Devices
    BY SupportFacts
  <1>2. Sign(S, shares, members, input) =
          IF key = None \/ None \in Range(pairs) THEN "stopped"
          ELSE IF ctx = None THEN "stopped"
          ELSE IF None \in Range(z) THEN None
          ELSE final
    BY <1>1, SMT DEF Sign
  <1>3. "stopped" # None
    BY SigningAssumption, Zenon
  <1> SUFFICES ASSUME key # None, None \notin Range(pairs), ctx # None
               PROVE  None \notin Range(z) /\ final # None
    <2> HIDE DEF key, pairs, ctx, z, final
    <2> QED
      BY <1>2, <1>3, Zenon
  <1>4. /\ input.challenge \in Scalar /\ input.tweak \in Scalar \cup {None}
        /\ \A p \in Persons : input.bindings[p] \in Scalar
        /\ \A d \in Devices : input.nonces[d] \in NoncePairs
        /\ None \notin Scalar
    BY SigningAssumption, Zenon DEF NoncePairs
  <1>5. NodesFit
    BY Zenon DEF ShareInv
  <1>6. /\ IsFiniteSet(P) /\ OuterNodes(P) \in [P -> Scalar]
        /\ Distinct(OuterNodes(P), P)
    BY <1>1, <1>5, SupportNodes, Zenon
  <1>7. ASSUME NEW p \in P
        PROVE  /\ IsFiniteSet(S[p]) /\ Nodes(S[p]) \in [S[p] -> Scalar]
               /\ Distinct(Nodes(S[p]), S[p]) /\ S[p] # {}
               /\ nonces(p) \in [S[p] -> NoncePairs]
               /\ SumPairs(nonces(p)) # None
               /\ pairs[p] = SumPairs(nonces(p))
    <2>1. /\ IsFiniteSet(S[p]) /\ Nodes(S[p]) \in [S[p] -> Scalar]
          /\ Distinct(Nodes(S[p]), S[p]) /\ S[p] # {}
      BY <1>1, <1>5, SupportNodes, Zenon
    <2>2. nonces(p) \in [S[p] -> NoncePairs]
      BY <1>1, <1>4
    <2> HIDE DEF nonces
    <2>3. pairs[p] = SumPairs(nonces(p)) /\ pairs[p] \in Range(pairs)
      BY DEF Range
    <2> HIDE DEF pairs
    <2> QED
      BY <2>1, <2>2, <2>3
  <1>8. bound \in [P -> Scalar]
    BY <1>1, <1>4
  <1>9. pairs \in [P -> NoncePairs]
    <2>1. ASSUME NEW p \in P PROVE SumPairs(nonces(p)) \in NoncePairs
      <3>1. 0 \in Scalar
        BY Scalars
      <3> HIDE DEF nonces
      <3>2. nonces(p) \in [S[p] -> NoncePairs] /\ IsFiniteSet(S[p])
            /\ SumPairs(nonces(p)) # None
        BY <1>7
      <3> QED
        BY <3>1, <3>2, PairSum
    <2> HIDE DEF nonces
    <2> QED
      BY <2>1
  <1>10. /\ ctx.bindings = bound /\ ctx.nonce \in Scalar
         /\ Carries(ctx, P, AggregateNonce(pairs, bound), keys.vault)
    <2> HIDE DEF pairs, bound
    <2>1. key = IF input.tweak = None THEN PlainKey(keys.vault)
                ELSE TaprootKey(keys.vault, input.tweak)
      OBVIOUS
    <2> HIDE DEF key
    <2>2. ctx = SigningContext(key, pairs, bound, input.challenge)
      OBVIOUS
    <2> HIDE DEF ctx
    <2> DEFINE v == keys.vault
               w == input.tweak
               c == input.challenge
    <2>3. /\ v \in Scalar /\ w \in Scalar \cup {None} /\ c \in Scalar
          /\ key = IF w = None THEN PlainKey(v) ELSE TaprootKey(v, w)
          /\ ctx = SigningContext(key, pairs, bound, c)
          /\ key # None /\ ctx # None
      BY <1>4, <2>1, <2>2, Zenon
    <2> HIDE DEF v, w, c
    <2>4. /\ ctx.bindings = bound /\ ctx.nonce \in Scalar
          /\ Carries(ctx, P, AggregateNonce(pairs, bound), v)
      BY <1>6, <1>8, <1>9, <2>3, ContextFits
    <2> QED
      BY <2>4 DEF v
  <1>11. PICK s \in Int : \E a \in Int : \E t \in Int :
            /\ \A p \in P : Answers(ctx, p, s, a, t)
            /\ \A R \in Scalar :
                 Cong(R, Partial(s, a, t, AggregateNonce(pairs, bound), 1,
                                 keys.vault)) =>
                    SignatureVerifies([nonce |-> ctx.nonce, response |-> R], ctx)
    BY <1>10, Zenon DEF Carries
  <1>12. PICK a \in Int : \E t \in Int :
            /\ \A p \in P : Answers(ctx, p, s, a, t)
            /\ \A R \in Scalar :
                 Cong(R, Partial(s, a, t, AggregateNonce(pairs, bound), 1,
                                 keys.vault)) =>
                    SignatureVerifies([nonce |-> ctx.nonce, response |-> R], ctx)
    BY <1>11, Zenon
  <1>13. PICK t \in Int :
            /\ \A p \in P : Answers(ctx, p, s, a, t)
            /\ \A R \in Scalar :
                 Cong(R, Partial(s, a, t, AggregateNonce(pairs, bound), 1,
                                 keys.vault)) =>
                    SignatureVerifies([nonce |-> ctx.nonce, response |-> R], ctx)
    BY <1>12, Zenon
  <1>14. weights \in [P -> Scalar]
    BY <1>6, InterpolateRow
  <1>15. ASSUME NEW p \in P
         PROVE  /\ total(p) \in Scalar
                /\ Cong(total(p), Partial(s, a, t, Bind(pairs[p], ctx.bindings[p]),
                                          weights[p], members[p]))
    <2>1. answers(p) = Responses(ctx, p, S[p], Nodes(S[p]), shares[p],
                                 weights[p], nonces(p))
      <3>1. \A d \in S[p] : ShareOf(d) = shares[p][d]
                            /\ nonces(p)[d] = input.nonces[d]
        OBVIOUS
      <3> HIDE DEF ctx, weights, nonces
      <3> QED
        BY <3>1 DEF Responses
    <2>2. ctx.bindings[p] \in Scalar
      BY <1>8, <1>10
    <2>3. weights[p] \in Scalar
      BY <1>14
    <2> DEFINE D == S[p]
               n == Nodes(D)
               sh == shares[p]
               w == weights[p]
               nc == nonces(p)
               m == members[p]
               tt == total(p)
    <2>4. /\ IsFiniteSet(D) /\ D # {} /\ n \in [D -> Scalar] /\ Distinct(n, D)
          /\ sh \in [D -> Scalar] /\ nc \in [D -> NoncePairs]
          /\ SumPairs(nc) # None /\ m = Interpolate(n, sh)
      BY <1>7, Zenon
    <2>5. tt = AggregateMember(ctx, p, n, sh, m, w, nc,
                               Responses(ctx, p, D, n, sh, w, nc))
      BY <2>1, Zenon
    <2>6. Answers(ctx, p, s, a, t)
      BY <1>13, Zenon
    <2> HIDE DEF D, n, sh, w, nc, m, tt, ctx
    <2>7. /\ tt \in Scalar
          /\ Cong(tt, Partial(s, a, t, Bind(SumPairs(nc), ctx.bindings[p]), w, m))
      <3>1. w \in Scalar
        BY <2>3 DEF w
      <3> QED
        BY <2>2, <2>4, <2>5, <2>6, <3>1, MemberAggregates, Zenon
    <2>8. SumPairs(nc) = pairs[p]
      BY <1>7 DEF nc
    <2> QED
      BY <2>7, <2>8, Zenon DEF tt, w, m
  <1> HIDE DEF total
  <1>16. /\ z \in [P -> Scalar] /\ None \notin Range(z)
         /\ \A p \in P : z[p] = total(p)
    <2>1. z \in [P -> Scalar] /\ \A p \in P : z[p] = total(p)
      BY <1>15
    <2> HIDE DEF z
    <2>2. None \notin Range(z)
      BY <1>4, <2>1 DEF Range
    <2> QED
      BY <2>1, <2>2
  <1> HIDE DEF z
  <1>17. /\ Sum(z) \in Scalar
         /\ Cong(Sum(z), Partial(s, a, t, AggregateNonce(pairs, ctx.bindings), 1,
                                 keys.vault))
         /\ \A p \in P : VerifyPartial(ctx, p, z[p], pairs[p],
                                       LagrangeAtZero(OuterNodes(P))[p],
                                       members[p])
    <2>1. \A p \in P : Answers(ctx, p, s, a, t)
      BY <1>13, Zenon
    <2>2. \A p \in P : ctx.bindings[p] \in Scalar
      BY <1>8, <1>10
    <2>3. \A p \in P : Cong(z[p], Partial(s, a, t, Bind(pairs[p], ctx.bindings[p]),
                                          LagrangeAtZero(OuterNodes(P))[p],
                                          members[p]))
      BY <1>15, <1>16, Zenon
    <2> HIDE DEF ctx, pairs
    <2> DEFINE n == OuterNodes(P)
    <2>4. n \in [P -> Scalar] /\ Distinct(n, P) /\ IsFiniteSet(P)
      BY <1>6
    <2>5. \A p \in P : Cong(z[p], Partial(s, a, t, Bind(pairs[p], ctx.bindings[p]),
                                          LagrangeAtZero(n)[p], members[p]))
      BY <2>3
    <2>6. z \in [P -> Scalar]
      BY <1>16
    <2> HIDE DEF n
    <2>7. /\ Sum(z) \in Scalar
          /\ AggregateNonce(pairs, ctx.bindings) \in Scalar
          /\ Cong(Sum(z), Partial(s, a, t, AggregateNonce(pairs, ctx.bindings), 1,
                                  Interpolate(n, members)))
          /\ \A p \in P : VerifyPartial(ctx, p, z[p], pairs[p],
                                        LagrangeAtZero(n)[p], members[p])
      BY <1>9, <2>1, <2>2, <2>4, <2>5, <2>6, SignatureSum, Zenon
    <2> QED
      BY <2>7, Zenon DEF n
  <1>18. SignatureVerifies([nonce |-> ctx.nonce, response |-> Sum(z)], ctx)
    <2> HIDE DEF ctx, pairs, bound
    <2> QED
      BY <1>10, <1>13, <1>17, Zenon
  <1>19. final = [nonce |-> ctx.nonce, response |-> Sum(z)]
    <2>1. DOMAIN z = DOMAIN OuterNodes(P) /\ DOMAIN OuterNodes(P) = P
      BY <1>6, <1>16
    <2> HIDE DEF ctx, pairs
    <2> QED
      BY <1>17, <1>18, <2>1, Zenon DEF AggregateSignature
  <1>20. [nonce |-> ctx.nonce, response |-> Sum(z)]
           \in [nonce : Scalar, response : Scalar]
    <2> HIDE DEF ctx
    <2> QED
      BY <1>10, <1>17
  <1>21. final # None
    <2> HIDE DEF ctx, final
    <2> QED
      BY <1>19, <1>20, SigningAssumption, Zenon
  <1> QED
    BY <1>16, <1>21

\* Whatever the history and whichever maps the offers were built from, devices
\* that have accepted reservations for one root package sign: every partial
\* verifies, and so does the signature, in the plain scheme and in the Taproot
\* scheme (signing.rs, taproot/sign.rs: respond_device, aggregate_member,
\* aggregate_signature).
THEOREM AcceptedSupportsSign == Spec => []AcceptedSupportSigns
PROOF
  <1>1. ASSUME Inv, ShareInv, NEW P \in OuterSupports, NEW S \in Supports(P),
               NEW r \in [P -> Devices], NEW offers,
               offers = [p \in P |-> Offer(r[p], S[p], P)],
               \A p, q \in P : offers[p].outer = offers[q].outer,
               \A p \in P : \A d \in S[p] : Accepts(d, offers[p]),
               NEW input \in SigningInputs
        PROVE  Sign(S, [p \in P |-> offers[p].shares],
                    [p \in P |-> offers[p].member], input) # None
    <2> DEFINE members == [p \in P |-> offers[p].member]
               shares == [p \in P |-> offers[p].shares]
    <2>1. /\ \A p \in P :
               /\ offers[p].shares \in [S[p] -> Scalar]
               /\ \A d \in S[p] : ShareOf(d) = offers[p].shares[d]
               /\ members[p] = Interpolate(Nodes(S[p]), offers[p].shares)
               /\ members[p] \in Scalar
          /\ members \in [P -> Scalar]
          /\ Interpolate(OuterNodes(P), members) = keys.vault
          /\ keys.vault \in Scalar
          /\ P # {}
      <3>1. members = [p \in P |-> offers[p].member]
        OBVIOUS
      <3> HIDE DEF members
      <3> QED
        BY <1>1, <3>1, AcceptedFacts
    <2>2. \A p \in P : shares[p] = offers[p].shares
      OBVIOUS
    <2> HIDE DEF members, shares
    <2>3. \A p \in P :
             /\ shares[p] \in [S[p] -> Scalar]
             /\ \A d \in S[p] : ShareOf(d) = shares[p][d]
             /\ members[p] = Interpolate(Nodes(S[p]), shares[p])
      BY <2>1, <2>2, SMT
    <2>4. Sign(S, shares, members, input) # None
      BY <1>1, <2>1, <2>3, RoundSigns
    <2> QED
      BY <2>4 DEF members, shares
  <1>2. Inv /\ ShareInv => AcceptedSupportSigns
    BY <1>1, Zenon DEF AcceptedSupportSigns
  <1> QED
    BY <1>2, SharesHold, PTL

=============================================================================
