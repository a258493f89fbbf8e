----------------------------- MODULE Gf2Ring_proof -----------------------------
(***************************************************************************)
(* The laws of the ring, of Add and Mul as Gf2Ring has them, for every R:  *)
(* what the decoder relies on when it multiplies by the public key and     *)
(* then by h0, and the inversion when it squares by permuting the bits.    *)
(***************************************************************************)
EXTENDS Gf2Ring, FiniteSetTheorems, FunctionTheorems, TLAPS

Odd(S) == Cardinality(S) % 2 = 1

(* The terms of a that meet a term of b in term k of their product. *)
Meet(a, b, k) == {i \in a : (k - i) % R \in b}
-----------------------------------------------------------------------------
(* A remainder by a symbolic R, where it is not far to reach. *)
LEMMA NearMod ==
  ASSUME RingAssumption, NEW x \in -R .. R - 1
  PROVE  x % R = IF x >= 0 THEN x ELSE x + R
<1>1. R \in Nat \ {0}
  BY DEF RingAssumption
<1>2. CASE x >= 0
  BY <1>1, <1>2
<1>3. CASE x < 0
  BY <1>1, <1>3
<1>4. QED
  BY <1>1, <1>2, <1>3

LEMMA Difference ==
  ASSUME RingAssumption, NEW k \in Exponents, NEW i \in Exponents
  PROVE  /\ (k - i) % R = IF k >= i THEN k - i ELSE (k - i) + R
         /\ (k - i) % R \in Exponents
<1>1. R \in Nat \ {0} /\ k - i \in -R .. R - 1 /\ k - i \in Int
  BY DEF RingAssumption, Exponents
<1>2. (k - i) % R = IF k - i >= 0 THEN k - i ELSE (k - i) + R
  BY <1>1, NearMod
<1>3. QED
  BY <1>1, <1>2 DEF Exponents

LEMMA FiniteParts ==
  ASSUME RingAssumption, NEW S \in SUBSET Exponents
  PROVE  IsFiniteSet(S) /\ Cardinality(S) \in Nat
<1>1. IsFiniteSet(Exponents)
  BY FS_Interval DEF Exponents, RingAssumption
<1>2. QED
  BY <1>1, FS_Subset, FS_CardinalityType

(* What two sets share counts twice or not at all. *)
LEMMA OddOfSum ==
  ASSUME NEW A, NEW B, IsFiniteSet(A), IsFiniteSet(B)
  PROVE  Odd(SymDiff(A, B)) <=> (Odd(A) <=> ~Odd(B))
<1> DEFINE a == Cardinality(A)
           b == Cardinality(B)
           c == Cardinality(A \cap B)
<1>1. IsFiniteSet(A \cup B) /\ IsFiniteSet(A \cap B)
      /\ Cardinality(A \cup B) = a + b - c
  BY FS_Union, FS_Intersection
<1>2. a \in Nat /\ b \in Nat /\ c \in Nat
  BY <1>1, FS_CardinalityType
<1>3. SymDiff(A, B) = (A \cup B) \ (A \cap B)
  BY DEF SymDiff
<1>4. (A \cup B) \cap (A \cap B) = A \cap B
  OBVIOUS
<1>5. Cardinality(SymDiff(A, B)) = (a + b - c) - c
  <2>1. Cardinality((A \cup B) \ (A \cap B))
          = Cardinality(A \cup B) - Cardinality((A \cup B) \cap (A \cap B))
    BY <1>1, FS_Difference
  <2>2. QED
    BY <1>1, <1>3, <1>4, <2>1
<1> HIDE DEF a, b, c
<1>6. ((a + b - c) - c) % 2 = (a + b) % 2
  <2>1. (a + b - c) - c = (a + b) - 2 * c
    BY <1>2
  <2>2. ((a + b) - 2 * c) % 2 = (a + b) % 2
    BY <1>2
  <2>3. QED
    BY <2>1, <2>2
<1>7. (a + b) % 2 = 1 <=> (a % 2 = 1 <=> ~(b % 2 = 1))
  BY <1>2
<1>8. QED
  BY <1>5, <1>6, <1>7 DEF Odd, a, b
-----------------------------------------------------------------------------
(* Sums and products are polynomials. *)
LEMMA Closed ==
  ASSUME NEW a \in Polynomials, NEW b \in Polynomials
  PROVE  Add(a, b) \in Polynomials /\ Mul(a, b) \in Polynomials
BY DEF Add, SymDiff, Mul, Polynomials

LEMMA MulMeans ==
  ASSUME NEW a, NEW b
  PROVE  Mul(a, b) = {k \in Exponents : Odd(Meet(a, b, k))}
BY DEF Mul, Odd, Meet

LEMMA FiniteMeet ==
  ASSUME RingAssumption, NEW a \in Polynomials, NEW b, NEW k
  PROVE  IsFiniteSet(Meet(a, b, k))
<1>1. Meet(a, b, k) \in SUBSET Exponents
  BY DEF Meet, Polynomials
<1>2. QED
  BY <1>1, FiniteParts

LEMMA MulAddLeft ==
  ASSUME RingAssumption,
         NEW a \in Polynomials, NEW b \in Polynomials, NEW c \in Polynomials
  PROVE  Mul(Add(a, b), c) = Add(Mul(a, c), Mul(b, c))
<1>1. ASSUME NEW k \in Exponents
      PROVE  Odd(Meet(Add(a, b), c, k)) <=> (Odd(Meet(a, c, k)) <=> ~Odd(Meet(b, c, k)))
  <2>1. Meet(Add(a, b), c, k) = SymDiff(Meet(a, c, k), Meet(b, c, k))
    BY DEF Meet, Add, SymDiff
  <2>2. QED
    BY <2>1, FiniteMeet, OddOfSum
<1>2. QED
  BY <1>1, MulMeans DEF Add, SymDiff

LEMMA MulZero ==
  ASSUME NEW a
  PROVE  Mul(Zero, a) = Zero /\ Add(a, Zero) = a /\ Add(Zero, a) = a
<1>1. \A k : Meet(Zero, a, k) = {}
  BY DEF Meet, Zero
<1>2. ~Odd({})
  BY FS_EmptySet DEF Odd
<1>3. QED
  BY <1>1, <1>2, MulMeans DEF Add, SymDiff, Zero

(* A single term shifts. *)
LEMMA MulTerm ==
  ASSUME NEW i \in Exponents, NEW b
  PROVE  Mul({i}, b) = {k \in Exponents : (k - i) % R \in b}
<1>1. ASSUME NEW k \in Exponents
      PROVE  Odd(Meet({i}, b, k)) <=> (k - i) % R \in b
  <2>1. CASE (k - i) % R \in b
    <3>1. Meet({i}, b, k) = {i}
      BY <2>1 DEF Meet
    <3>2. Cardinality(Meet({i}, b, k)) = 1
      BY <3>1, FS_Singleton
    <3>3. QED
      BY <2>1, <3>2 DEF Odd
  <2>2. CASE (k - i) % R \notin b
    <3>1. Meet({i}, b, k) = {}
      BY <2>2 DEF Meet
    <3>2. Cardinality(Meet({i}, b, k)) = 0
      BY <3>1, FS_EmptySet
    <3>3. QED
      BY <2>2, <3>2 DEF Odd
  <2>3. QED
    BY <2>1, <2>2
<1>2. QED
  BY <1>1, MulMeans

(* The second difference is the same from a point shifted by i. *)
LEMMA Shifted ==
  ASSUME RingAssumption, NEW k \in Exponents, NEW i \in Exponents, NEW m \in Exponents
  PROVE  (((k - i) % R) - ((m - i) % R)) % R = (k - m) % R
<1> DEFINE u == (k - i) % R
           v == (m - i) % R
           w == (k - m) % R
<1>1. /\ u \in Exponents /\ u = IF k >= i THEN k - i ELSE (k - i) + R
      /\ v \in Exponents /\ v = IF m >= i THEN m - i ELSE (m - i) + R
      /\ w = IF k >= m THEN k - m ELSE (k - m) + R
  BY Difference
<1> HIDE DEF u, v
<1> DEFINE x == (u - v) % R
<1>2. x = IF u >= v THEN u - v ELSE (u - v) + R
  BY <1>1, Difference
<1>3. /\ R \in Nat /\ k \in 0 .. R - 1 /\ i \in 0 .. R - 1 /\ m \in 0 .. R - 1
      /\ u \in 0 .. R - 1 /\ v \in 0 .. R - 1
  BY <1>1 DEF RingAssumption, Exponents
<1> HIDE DEF w, x
<1>4. x = w
  BY <1>1, <1>2, <1>3
<1>5. (u - v) % R = w
  BY <1>4 DEF x
<1>6. QED
  BY <1>5 DEF u, v, w

LEMMA ShiftBack ==
  ASSUME RingAssumption, NEW i \in Exponents, NEW j \in Exponents
  PROVE  \E m \in Exponents : (m - i) % R = j
<1>1. R \in Nat /\ Exponents = 0 .. R - 1
  BY DEF RingAssumption, Exponents
<1>2. CASE i + j < R
  <2>1. i + j \in Exponents /\ i + j >= i /\ (i + j) - i = j
    BY <1>1, <1>2
  <2>2. ((i + j) - i) % R = j
    BY <2>1, Difference
  <2>3. QED
    BY <2>1, <2>2
<1>3. CASE i + j >= R
  <2>1. (i + j) - R \in Exponents /\ ~((i + j) - R >= i) /\ (((i + j) - R) - i) + R = j
    BY <1>1, <1>3
  <2>2. (((i + j) - R) - i) % R = j
    BY <2>1, Difference
  <2>3. QED
    BY <2>1, <2>2
<1>4. QED
  BY <1>1, <1>2, <1>3

LEMMA ShiftOneToOne ==
  ASSUME RingAssumption, NEW i \in Exponents, NEW l \in Exponents, NEW m \in Exponents,
         (l - i) % R = (m - i) % R
  PROVE  l = m
<1>1. R \in Nat /\ Exponents = 0 .. R - 1
  BY DEF RingAssumption, Exponents
<1>2. /\ (l - i) % R = IF l >= i THEN l - i ELSE (l - i) + R
      /\ (m - i) % R = IF m >= i THEN m - i ELSE (m - i) + R
  BY Difference
<1>3. QED
  BY <1>1, <1>2

LEMMA MulTermAssoc ==
  ASSUME RingAssumption, NEW i \in Exponents,
         NEW b \in Polynomials, NEW c \in Polynomials
  PROVE  Mul(Mul({i}, b), c) = Mul({i}, Mul(b, c))
<1>1. ASSUME NEW k \in Exponents
      PROVE  Odd(Meet(Mul({i}, b), c, k)) <=> Odd(Meet(b, c, (k - i) % R))
  <2> DEFINE S == Meet(Mul({i}, b), c, k)
             T == Meet(b, c, (k - i) % R)
             f == [m \in S |-> (m - i) % R]
  <2>1. S = {m \in Exponents : (m - i) % R \in b /\ (k - m) % R \in c}
    BY MulTerm DEF Meet
  <2>2. T = {j \in Exponents : j \in b /\ (((k - i) % R) - j) % R \in c}
    BY DEF Meet, Polynomials
  <2>3. \A m \in Exponents :
          (m - i) % R \in Exponents /\ (((k - i) % R) - ((m - i) % R)) % R = (k - m) % R
    BY Difference, Shifted
  <2> HIDE DEF S, T
  <2>4. ASSUME NEW m \in Exponents
        PROVE  m \in S <=> (m - i) % R \in T
    <3> DEFINE j == (m - i) % R
    <3>1. m \in S <=> j \in b /\ (k - m) % R \in c
      BY <2>1
    <3>2. j \in Exponents /\ (((k - i) % R) - j) % R = (k - m) % R
      BY <2>3
    <3> HIDE DEF j
    <3>3. j \in T <=> j \in b /\ (((k - i) % R) - j) % R \in c
      BY <2>2, <3>2
    <3>4. QED
      BY <3>1, <3>2, <3>3 DEF j
  <2>5. S \subseteq Exponents /\ T \subseteq Exponents
    BY <2>1, <2>2
  <2>6. f \in [S -> T]
    BY <2>4, <2>5
  <2>7. \A l, m \in S : f[l] = f[m] => l = m
    BY <2>5, ShiftOneToOne
  <2>8. \A j \in T : \E m \in S : f[m] = j
    BY <2>4, <2>5, ShiftBack
  <2>9. f \in Bijection(S, T)
    BY <2>6, <2>7, <2>8, Fun_IsBij
  <2>10. IsFiniteSet(S)
    BY <2>5, FiniteParts
  <2>11. Cardinality(T) = Cardinality(S)
    BY <2>9, <2>10, FS_Bijection DEF ExistsBijection
  <2>12. QED
    BY <2>11 DEF Odd, S, T
<1>2. ASSUME NEW k \in Exponents
      PROVE  k \in Mul({i}, Mul(b, c)) <=> Odd(Meet(b, c, (k - i) % R))
  <2>1. (k - i) % R \in Exponents
    BY Difference
  <2>2. QED
    BY <2>1, MulTerm, MulMeans
<1>3. QED
  BY <1>1, <1>2, MulMeans

(* Products in the ring of Gf2Ring associate.  By induction over the terms *)
(* of a: a smallest a for which it fails would have a term, and it holds   *)
(* for that term and for the rest.                                         *)
THEOREM MulAssoc ==
  ASSUME RingAssumption,
         NEW a \in Polynomials, NEW b \in Polynomials, NEW c \in Polynomials
  PROVE  Mul(Mul(a, b), c) = Mul(a, Mul(b, c))
<1> DEFINE Fails == {x \in Polynomials : Mul(Mul(x, b), c) # Mul(x, Mul(b, c))}
<1>1. SUFFICES ASSUME Fails # {}
               PROVE  FALSE
  BY <1>1
<1>2. PICK x \in Fails : \A y \in Fails : ~(<<y, x>> \in StrictSubsetOrdering(Exponents))
  <2>1. FiniteSubsetsOf(Exponents) = Polynomials
    BY FiniteParts, FS_FiniteSubsetsOfFinite DEF Polynomials
  <2>2. IsWellFoundedOn(StrictSubsetOrdering(Exponents), FiniteSubsetsOf(Exponents))
    BY FS_StrictSubsetOrderingWellFounded
  <2>3. Fails \subseteq FiniteSubsetsOf(Exponents)
    BY <2>1
  <2> HIDE DEF Fails
  <2>4. QED
    BY <1>1, <2>2, <2>3, WFMin
<1>3. x # Zero
  <2>1. Mul(Zero, b) = Zero /\ Mul(Zero, c) = Zero /\ Mul(Zero, Mul(b, c)) = Zero
    BY MulZero
  <2>2. QED
    BY <2>1
<1>4. PICK i \in x : i \in Exponents
  BY <1>3 DEF Zero, Polynomials
<1> DEFINE y == x \ {i}
<1>5. x = Add({i}, y) /\ y \in Polynomials /\ {i} \in Polynomials
  BY <1>4 DEF Add, SymDiff, Polynomials
<1>6. Mul(Mul(y, b), c) = Mul(y, Mul(b, c))
  <2>1. <<y, x>> \in StrictSubsetOrdering(Exponents)
    BY <1>4 DEF StrictSubsetOrdering, Polynomials
  <2>2. QED
    BY <1>2, <1>5, <2>1
<1> HIDE DEF y
<1>7. Mul(Mul({i}, b), c) = Mul({i}, Mul(b, c))
  BY <1>4, MulTermAssoc
<1>8. /\ Mul(b, c) \in Polynomials
      /\ Mul({i}, b) \in Polynomials /\ Mul(y, b) \in Polynomials
  BY <1>5, Closed
<1>9. Mul(x, b) = Add(Mul({i}, b), Mul(y, b))
  BY <1>5, MulAddLeft
<1>10. Mul(Mul(x, b), c) = Add(Mul(Mul({i}, b), c), Mul(Mul(y, b), c))
  BY <1>8, <1>9, MulAddLeft
<1>11. Mul(x, Mul(b, c)) = Add(Mul({i}, Mul(b, c)), Mul(y, Mul(b, c)))
  BY <1>5, <1>8, MulAddLeft
<1>12. Mul(Mul(x, b), c) = Mul(x, Mul(b, c))
  BY <1>6, <1>7, <1>10, <1>11
<1>13. QED
  BY <1>2, <1>12
-----------------------------------------------------------------------------
(* Products commute: i of a meets k - i of b.                              *)
LEMMA DifferenceBack ==
  ASSUME RingAssumption, NEW k \in Exponents, NEW i \in Exponents
  PROVE  (k - ((k - i) % R)) % R = i
<1> DEFINE u == (k - i) % R
<1>1. u \in Exponents /\ u = IF k >= i THEN k - i ELSE (k - i) + R
  BY Difference
<1> HIDE DEF u
<1>2. (k - u) % R = IF k >= u THEN k - u ELSE (k - u) + R
  BY <1>1, Difference
<1>3. R \in Nat /\ k \in 0 .. R - 1 /\ i \in 0 .. R - 1 /\ u \in 0 .. R - 1
  BY <1>1 DEF RingAssumption, Exponents
<1> DEFINE v == (k - u) % R
<1>4. v = IF k >= u THEN k - u ELSE (k - u) + R
  BY <1>2
<1> HIDE DEF v
<1>5. v = i
  BY <1>1, <1>3, <1>4
<1>6. QED
  BY <1>5, Zenon DEF u, v

LEMMA MulComm ==
  ASSUME RingAssumption, NEW a \in Polynomials, NEW b \in Polynomials
  PROVE  Mul(a, b) = Mul(b, a)
<1>1. ASSUME NEW k \in Exponents
      PROVE  Cardinality(Meet(a, b, k)) = Cardinality(Meet(b, a, k))
  <2> DEFINE S == Meet(a, b, k)
             T == Meet(b, a, k)
             f == [i \in S |-> (k - i) % R]
  <2>1. S = {i \in Exponents : i \in a /\ (k - i) % R \in b}
    BY DEF Meet, Polynomials
  <2>2. T = {i \in Exponents : i \in b /\ (k - i) % R \in a}
    BY DEF Meet, Polynomials
  <2> HIDE DEF S, T
  <2>3. ASSUME NEW i \in Exponents
        PROVE  \E j \in Exponents :
                 /\ j = (k - i) % R /\ i = (k - j) % R
                 /\ i \in S <=> j \in T
                 /\ i \in T <=> j \in S
    <3> DEFINE j == (k - i) % R
    <3>1. j \in Exponents
      BY Difference
    <3>2. (k - j) % R = i
      BY DifferenceBack, Zenon
    <3>3. i \in S <=> i \in a /\ j \in b
      BY <2>1
    <3>4. i \in T <=> i \in b /\ j \in a
      BY <2>2
    <3> HIDE DEF j
    <3>5. j \in S <=> j \in a /\ i \in b
      BY <2>1, <3>1, <3>2
    <3>6. j \in T <=> j \in b /\ i \in a
      BY <2>2, <3>1, <3>2
    <3>7. /\ j = j /\ i = (k - j) % R
          /\ i \in S <=> j \in T
          /\ i \in T <=> j \in S
      BY <3>2, <3>3, <3>4, <3>5, <3>6
    <3>8. QED
      BY <3>1, <3>7 DEF j
  <2>4. S \subseteq Exponents /\ T \subseteq Exponents
    BY <2>1, <2>2
  <2>5. f \in [S -> T]
    BY <2>3, <2>4
  <2>6. \A i, j \in S : f[i] = f[j] => i = j
    BY <2>3, <2>4
  <2>7. \A j \in T : \E i \in S : f[i] = j
    BY <2>3, <2>4
  <2>8. f \in Bijection(S, T)
    BY <2>5, <2>6, <2>7, Fun_IsBij
  <2>9. IsFiniteSet(S)
    BY <2>4, FiniteParts
  <2>10. QED
    BY <2>8, <2>9, FS_Bijection DEF ExistsBijection, S, T
<1>2. QED
  BY <1>1, MulMeans DEF Odd

LEMMA MulAddRight ==
  ASSUME RingAssumption,
         NEW a \in Polynomials, NEW b \in Polynomials, NEW c \in Polynomials
  PROVE  Mul(a, Add(b, c)) = Add(Mul(a, b), Mul(a, c))
<1>1. Add(b, c) \in Polynomials
  BY Closed
<1>2. /\ Mul(a, Add(b, c)) = Mul(Add(b, c), a)
      /\ Mul(a, b) = Mul(b, a) /\ Mul(a, c) = Mul(c, a)
  BY <1>1, MulComm
<1>3. QED
  BY <1>2, MulAddLeft

LEMMA MulOne ==
  ASSUME RingAssumption, NEW a \in Polynomials
  PROVE  One \in Polynomials /\ Mul(One, a) = a /\ Mul(a, One) = a
<1>1. R \in Nat \ {0} /\ 0 \in Exponents /\ One = {0}
  BY DEF RingAssumption, Exponents, One
<1>2. \A k \in Exponents : (k - 0) % R = k
  BY <1>1 DEF Exponents
<1>3. Mul(One, a) = a
  <2>1. Mul({0}, a) = {k \in Exponents : (k - 0) % R \in a}
    BY <1>1, MulTerm, Zenon
  <2>2. {k \in Exponents : (k - 0) % R \in a} = {k \in Exponents : k \in a}
    BY <1>2, Zenon
  <2>3. QED
    BY <1>1, <2>1, <2>2 DEF Polynomials
<1>4. One \in Polynomials
  BY <1>1 DEF Polynomials
<1>5. QED
  BY <1>3, <1>4, MulComm
-----------------------------------------------------------------------------
(* Remainders of sums and products by a symbolic R.                        *)
LEMMA Divided ==
  ASSUME NEW r \in Nat \ {0}, NEW x \in Int,
         NEW d, d = x \div r, NEW m, m = x % r
  PROVE  d \in Int /\ m \in 0 .. r-1 /\ x = r * d + m
OBVIOUS

LEMMA ModIs ==
  ASSUME NEW r \in Nat \ {0}, NEW d \in Int, NEW m \in 0 .. r-1
  PROVE  (r * d + m) % r = m
OBVIOUS

LEMMA ModMul ==
  ASSUME NEW r \in Nat \ {0}, NEW a \in Int, NEW b \in Int
  PROVE  (a * (b % r)) % r = (a * b) % r
<1> DEFINE q == b \div r
           m == b % r
<1>1. q \in Int /\ m \in 0 .. r-1 /\ b = r * q + m
  BY Divided
<1> HIDE DEF q, m
<1> DEFINE q2 == (a * m) \div r
           m2 == (a * m) % r
<1>2. a * m \in Int
  BY <1>1
<1>3. q2 \in Int /\ m2 \in 0 .. r-1 /\ a * m = r * q2 + m2
  BY <1>2, Divided
<1> HIDE DEF q2, m2
<1>4. a * b = r * (a * q + q2) + m2 /\ a * q + q2 \in Int
  <2>1. a * b = a * (r * q) + a * m
    BY <1>1
  <2>2. a * (r * q) = r * (a * q)
    BY <1>1
  <2>3. r * (a * q) + r * q2 = r * (a * q + q2)
    BY <1>1, <1>3
  <2>4. QED
    BY <1>1, <1>3, <2>1, <2>2, <2>3
<1>5. (a * b) % r = m2
  BY <1>3, <1>4, ModIs
<1>6. QED
  BY <1>5 DEF m, m2

LEMMA ModDiff ==
  ASSUME NEW r \in Nat \ {0}, NEW a \in Int, NEW b \in Int
  PROVE  ((a % r) - (b % r)) % r = (a - b) % r
<1> DEFINE q == a \div r
           m == a % r
           p == b \div r
           n == b % r
<1>1. q \in Int /\ m \in 0 .. r-1 /\ a = r * q + m
  BY Divided
<1>2. p \in Int /\ n \in 0 .. r-1 /\ b = r * p + n
  BY Divided
<1> HIDE DEF q, m, p, n
<1> DEFINE d == (m - n) \div r
           x == (m - n) % r
<1>3. d \in Int /\ x \in 0 .. r-1 /\ m - n = r * d + x
  BY <1>1, <1>2, Divided
<1> HIDE DEF d, x
<1>4. a - b = r * (q - p + d) + x /\ q - p + d \in Int
  <2>1. r * (q - p + d) = r * q - r * p + r * d
    BY <1>1, <1>2, <1>3
  <2>2. QED
    BY <1>1, <1>2, <1>3, <2>1
<1>5. (a - b) % r = x
  BY <1>3, <1>4, ModIs
<1>6. QED
  BY <1>5, Zenon DEF m, n, x

LEMMA ModPlus ==
  ASSUME NEW r \in Nat \ {0}, NEW a \in Int, NEW b \in Int
  PROVE  ((a % r) + (b % r)) % r = (a + b) % r
<1> DEFINE q == a \div r
           m == a % r
           p == b \div r
           n == b % r
<1>1. q \in Int /\ m \in 0 .. r-1 /\ a = r * q + m
  BY Divided
<1>2. p \in Int /\ n \in 0 .. r-1 /\ b = r * p + n
  BY Divided
<1> HIDE DEF q, m, p, n
<1> DEFINE d == (m + n) \div r
           x == (m + n) % r
<1>3. d \in Int /\ x \in 0 .. r-1 /\ m + n = r * d + x
  BY <1>1, <1>2, Divided
<1> HIDE DEF d, x
<1>4. a + b = r * (q + p + d) + x /\ q + p + d \in Int
  <2>1. r * (q + p + d) = r * q + r * p + r * d
    BY <1>1, <1>2, <1>3
  <2>2. QED
    BY <1>1, <1>2, <1>3, <2>1
<1>5. (a + b) % r = x
  BY <1>3, <1>4, ModIs
<1>6. QED
  BY <1>5, Zenon DEF m, n, x

LEMMA ModType ==
  ASSUME RingAssumption, NEW x \in Int
  PROVE  x % R \in Exponents
BY Divided DEF RingAssumption, Exponents

(* a(x^c): the exponents of the terms multiplied by c.                     *)
Conj(c, a) == {(c * j) % R : j \in a}

(* c has an inverse modulo R.                                              *)
Unit(c) == \E d \in Exponents : (d * c) % R = 1

LEMMA UnitOneToOne ==
  ASSUME RingAssumption, NEW c \in Nat, NEW d \in Exponents, (d * c) % R = 1,
         NEW j \in Exponents
  PROVE  (c * j) % R \in Exponents /\ (d * ((c * j) % R)) % R = j
<1>1. R \in Nat \ {0} /\ d \in Int /\ j \in 0 .. R-1 /\ j \in Int
  BY DEF RingAssumption, Exponents
<1>2. c \in Int /\ c * j \in Int /\ d * c \in Int /\ (c * j) % R \in Exponents
  BY <1>1, ModType
<1>3. (d * ((c * j) % R)) % R = (d * (c * j)) % R
  BY <1>1, <1>2, ModMul, Zenon
<1>4. d * (c * j) = j * (d * c)
  BY <1>1
<1>5. (j * ((d * c) % R)) % R = (j * (d * c)) % R
  BY <1>1, <1>2, ModMul, Zenon
<1>6. (j * 1) % R = j
  BY <1>1
<1>7. QED
  BY <1>2, <1>3, <1>4, <1>5, <1>6

LEMMA ConjType ==
  ASSUME RingAssumption, NEW c \in Nat, NEW a \in Polynomials
  PROVE  Conj(c, a) \in Polynomials
<1>1. \A j \in a : j \in Nat /\ c * j \in Int
  BY DEF Polynomials, Exponents, RingAssumption
<1>2. QED
  BY <1>1, ModType DEF Conj, Polynomials

(* For a unit an exponent is in the conjugate where the one it comes from  *)
(* is in the polynomial.                                                   *)
LEMMA ConjOf ==
  ASSUME RingAssumption, NEW c \in Nat, Unit(c), NEW a \in Polynomials,
         NEW j \in Exponents
  PROVE  (c * j) % R \in Conj(c, a) <=> j \in a
<1>1. PICK d \in Exponents : (d * c) % R = 1
  BY DEF Unit
<1>2. ASSUME NEW i \in a, (c * i) % R = (c * j) % R
      PROVE  i = j
  <2>1. i \in Exponents
    BY DEF Polynomials
  <2>2. (d * ((c * i) % R)) % R = i /\ (d * ((c * j) % R)) % R = j
    BY <1>1, <2>1, UnitOneToOne
  <2>3. QED
    BY <1>2, <2>2
<1>3. QED
  BY <1>2 DEF Conj

(* Every exponent is c times another.                                      *)
LEMMA ConjOnto ==
  ASSUME RingAssumption, NEW c \in Nat, Unit(c), NEW k \in Exponents
  PROVE  \E j \in Exponents : (c * j) % R = k
<1>1. PICK d \in Exponents : (d * c) % R = 1
  BY DEF Unit
<1>2. R \in Nat \ {0} /\ d \in Int /\ k \in 0 .. R-1 /\ k \in Int /\ c \in Int
  BY DEF RingAssumption, Exponents
<1>3. d * k \in Int /\ (d * k) % R \in Exponents
  BY <1>2, ModType
<1>4. (c * ((d * k) % R)) % R = (c * (d * k)) % R
  BY <1>2, <1>3, ModMul, Zenon
<1>5. c * (d * k) = k * (d * c) /\ d * c \in Int
  BY <1>2
<1>6. (k * ((d * c) % R)) % R = (k * (d * c)) % R
  BY <1>2, <1>5, ModMul, Zenon
<1>7. (k * 1) % R = k
  BY <1>2
<1>8. (c * ((d * k) % R)) % R = k
  BY <1>1, <1>4, <1>5, <1>6, <1>7
<1>9. QED
  BY <1>3, <1>8

(* Conjugation is a homomorphism.                                          *)
LEMMA ConjAdd ==
  ASSUME RingAssumption, NEW c \in Nat, Unit(c),
         NEW a \in Polynomials, NEW b \in Polynomials
  PROVE  Conj(c, Add(a, b)) = Add(Conj(c, a), Conj(c, b))
<1>1. Add(a, b) \in Polynomials
  BY Closed
<1>2. /\ Conj(c, Add(a, b)) \in Polynomials
      /\ Conj(c, a) \in Polynomials /\ Conj(c, b) \in Polynomials
      /\ Add(Conj(c, a), Conj(c, b)) \in Polynomials
  BY <1>1, ConjType, Closed
<1>3. ASSUME NEW k \in Exponents
      PROVE  k \in Conj(c, Add(a, b)) <=> k \in Add(Conj(c, a), Conj(c, b))
  <2>1. PICK j \in Exponents : (c * j) % R = k
    BY ConjOnto
  <2>2. k \in Conj(c, Add(a, b)) <=> j \in Add(a, b)
    BY <1>1, <2>1, ConjOf
  <2>3. (k \in Conj(c, a) <=> j \in a) /\ (k \in Conj(c, b) <=> j \in b)
    BY <2>1, ConjOf
  <2>4. QED
    BY <2>2, <2>3 DEF Add, SymDiff
<1>4. QED
  BY <1>2, <1>3 DEF Polynomials

LEMMA ConjMul ==
  ASSUME RingAssumption, NEW c \in Nat, Unit(c),
         NEW a \in Polynomials, NEW b \in Polynomials
  PROVE  Conj(c, Mul(a, b)) = Mul(Conj(c, a), Conj(c, b))
<1> DEFINE ca == Conj(c, a)
           cb == Conj(c, b)
<1>1. /\ Mul(a, b) \in Polynomials /\ ca \in Polynomials /\ cb \in Polynomials
      /\ Mul(ca, cb) \in Polynomials /\ Conj(c, Mul(a, b)) \in Polynomials
  BY ConjType, Closed
<1>2. ASSUME NEW j \in Exponents
      PROVE  Cardinality(Meet(a, b, j)) = Cardinality(Meet(ca, cb, (c * j) % R))
  <2> DEFINE S == Meet(a, b, j)
             T == Meet(ca, cb, (c * j) % R)
             f == [i \in S |-> (c * i) % R]
  <2>1. S \subseteq Exponents /\ T \subseteq Exponents
    BY <1>1 DEF Meet, Polynomials
  <2>2. ASSUME NEW i \in Exponents
        PROVE  /\ (c * i) % R \in Exponents
               /\ (((c * j) % R) - ((c * i) % R)) % R = (c * ((j - i) % R)) % R
    <3>1. R \in Nat \ {0} /\ i \in Nat /\ j \in Nat /\ c * i \in Int /\ c * j \in Int
          /\ j - i \in Int /\ c \in Int
      BY DEF RingAssumption, Exponents
    <3>2. (((c * j) % R) - ((c * i) % R)) % R = (c * j - c * i) % R
      BY <3>1, ModDiff, Zenon
    <3>3. (c * ((j - i) % R)) % R = (c * (j - i)) % R
      BY <3>1, ModMul, Zenon
    <3>4. c * (j - i) = c * j - c * i
      BY <3>1
    <3>5. QED
      BY <3>1, <3>2, <3>3, <3>4, ModType
  <2>3. ASSUME NEW i \in Exponents
        PROVE  i \in S <=> (c * i) % R \in T
    <3>1. (j - i) % R \in Exponents
      BY Difference
    <3>2. (c * i) % R \in ca <=> i \in a
      BY ConjOf
    <3>3. (c * ((j - i) % R)) % R \in cb <=> (j - i) % R \in b
      BY <3>1, ConjOf
    <3>4. (c * i) % R \in T
            <=> (c * i) % R \in ca /\ (((c * j) % R) - ((c * i) % R)) % R \in cb
      <4> DEFINE u == (c * i) % R
                 v == (c * j) % R
      <4> HIDE DEF u, v, ca, cb
      <4>1. u \in Meet(ca, cb, v) <=> u \in ca /\ (v - u) % R \in cb
        BY DEF Meet
      <4>2. QED
        BY <4>1, Zenon DEF u, v
    <3>5. i \in S <=> i \in a /\ (j - i) % R \in b
      BY DEF Meet
    <3> HIDE DEF S, T, ca, cb
    <3>6. QED
      BY <2>2, <3>2, <3>3, <3>4, <3>5, Zenon
  <2> HIDE DEF S, T, ca, cb
  <2>4. f \in [S -> T]
    BY <2>1, <2>3
  <2>5. PICK d \in Exponents : (d * c) % R = 1
    BY DEF Unit
  <2>6. \A i \in Exponents : (d * ((c * i) % R)) % R = i
    BY <2>5, UnitOneToOne
  <2>7. \A i, l \in S : f[i] = f[l] => i = l
    BY <2>1, <2>6
  <2>8. \A k \in T : \E i \in S : f[i] = k
    <3>1. SUFFICES ASSUME NEW k \in T
                   PROVE  \E i \in S : f[i] = k
      OBVIOUS
    <3>2. PICK i \in Exponents : (c * i) % R = k
      BY <2>1, ConjOnto
    <3>3. QED
      BY <2>3, <3>2
  <2>9. f \in Bijection(S, T)
    BY <2>4, <2>7, <2>8, Fun_IsBij
  <2>10. IsFiniteSet(S)
    BY <2>1, FiniteParts
  <2>11. QED
    BY <2>9, <2>10, FS_Bijection DEF ExistsBijection, S, T
<1>3. ASSUME NEW k \in Exponents
      PROVE  k \in Conj(c, Mul(a, b)) <=> k \in Mul(ca, cb)
  <2>1. PICK j \in Exponents : (c * j) % R = k
    BY ConjOnto
  <2>2. k \in Conj(c, Mul(a, b)) <=> j \in Mul(a, b)
    BY <1>1, <2>1, ConjOf
  <2>3. j \in Mul(a, b) <=> Odd(Meet(a, b, j))
    BY MulMeans
  <2>4. k \in Mul(ca, cb) <=> Odd(Meet(ca, cb, k))
    BY MulMeans
  <2>5. QED
    BY <1>2, <2>1, <2>2, <2>3, <2>4 DEF Odd
<1> HIDE DEF ca, cb
<1>4. Conj(c, Mul(a, b)) = Mul(ca, cb)
  BY <1>1, <1>3 DEF Polynomials
<1>5. QED
  BY <1>4 DEF ca, cb

(* 2 is a unit of an odd R: half of R + 1 is its inverse.                  *)
LEMMA TwoIsUnit ==
  ASSUME RingAssumption, R % 2 = 1, R > 1
  PROVE  Unit(2)
<1> DEFINE h == R \div 2
<1>1. R \in Nat \ {0}
  BY DEF RingAssumption
<1>2. h \in Int /\ R = 2 * h + 1
  BY <1>1
<1> HIDE DEF h
<1>3. h + 1 \in Exponents /\ (h + 1) * 2 = R * 1 + 1
  BY <1>1, <1>2 DEF Exponents
<1>4. (R * 1 + 1) % R = 1
  BY <1>1, ModIs
<1>5. QED
  BY <1>3, <1>4 DEF Unit

(* The square of a polynomial has its terms squared: the mixed products    *)
(* come twice.  By induction over the terms, as MulAssoc.                  *)
LEMMA SquareIsConj ==
  ASSUME RingAssumption, R % 2 = 1, R > 1, NEW a \in Polynomials
  PROVE  Mul(a, a) = Conj(2, a)
<1> DEFINE Fails == {x \in Polynomials : Mul(x, x) # Conj(2, x)}
<1>1. SUFFICES ASSUME Fails # {}
               PROVE  FALSE
  BY <1>1
<1>2. PICK x \in Fails : \A y \in Fails : ~(<<y, x>> \in StrictSubsetOrdering(Exponents))
  <2>1. FiniteSubsetsOf(Exponents) = Polynomials
    BY FiniteParts, FS_FiniteSubsetsOfFinite DEF Polynomials
  <2>2. IsWellFoundedOn(StrictSubsetOrdering(Exponents), FiniteSubsetsOf(Exponents))
    BY FS_StrictSubsetOrderingWellFounded
  <2>3. Fails \subseteq FiniteSubsetsOf(Exponents)
    BY <2>1
  <2> HIDE DEF Fails
  <2>4. QED
    BY <1>1, <2>2, <2>3, WFMin
<1>3. x # Zero
  <2>1. Mul(Zero, Zero) = Zero
    BY MulZero
  <2>2. Conj(2, Zero) = Zero
    BY DEF Conj, Zero
  <2>3. QED
    BY <2>1, <2>2
<1>4. PICK i \in x : i \in Exponents
  BY <1>3 DEF Zero, Polynomials
<1> DEFINE y == x \ {i}
<1>5. x = Add({i}, y) /\ y \in Polynomials /\ {i} \in Polynomials
  BY <1>4 DEF Add, SymDiff, Polynomials
<1>6. Mul(y, y) = Conj(2, y)
  <2>1. <<y, x>> \in StrictSubsetOrdering(Exponents)
    BY <1>4 DEF StrictSubsetOrdering, Polynomials
  <2>2. QED
    BY <1>2, <1>5, <2>1
<1> HIDE DEF y
<1>7. Unit(2)
  BY TwoIsUnit
<1>8. Conj(2, x) = Add(Conj(2, {i}), Conj(2, y))
  BY <1>5, <1>7, ConjAdd
<1>9. Mul({i}, {i}) = Conj(2, {i})
  <2>1. R \in Nat \ {0} /\ i \in 0 .. R-1 /\ 2 * i \in Int
    BY <1>4 DEF RingAssumption, Exponents
  <2>2. Conj(2, {i}) = {(2 * i) % R} /\ (2 * i) % R \in Exponents
    BY <2>1, ModType DEF Conj
  <2>3. Mul({i}, {i}) = {k \in Exponents : (k - i) % R = i}
    BY <1>4, MulTerm
  <2>4. \A k \in Exponents : (k - i) % R = i <=> k = (2 * i) % R
    <3>1. SUFFICES ASSUME NEW k \in Exponents
                   PROVE  (k - i) % R = i <=> k = (2 * i) % R
      OBVIOUS
    <3>2. (k - i) % R = IF k >= i THEN k - i ELSE (k - i) + R
      BY <1>4, Difference
    <3>3. (2 * i) % R = IF 2 * i < R THEN 2 * i ELSE 2 * i - R
      <4>1. CASE 2 * i < R
        BY <2>1, <4>1
      <4>2. CASE 2 * i >= R
        <5>1. 2 * i = R * 1 + (2 * i - R) /\ 2 * i - R \in 0 .. R-1
          BY <2>1, <4>2
        <5>2. (R * 1 + (2 * i - R)) % R = 2 * i - R
          BY <2>1, <5>1, ModIs
        <5>3. QED
          BY <2>1, <4>2, <5>1, <5>2
      <4>3. QED
        BY <2>1, <4>1, <4>2
    <3>4. k \in 0 .. R-1
      BY DEF Exponents
    <3> DEFINE u == (k - i) % R
               v == (2 * i) % R
    <3>5. u = (IF k >= i THEN k - i ELSE (k - i) + R)
          /\ v = (IF 2 * i < R THEN 2 * i ELSE 2 * i - R)
      BY <3>2, <3>3
    <3> HIDE DEF u, v
    <3>6. u = i <=> k = v
      BY <2>1, <3>4, <3>5
    <3>7. QED
      BY <3>6 DEF u, v
  <2>5. QED
    BY <2>2, <2>3, <2>4
<1>10. Mul(x, x) = Add(Mul({i}, {i}), Mul(y, y))
  <2>1. /\ Mul({i}, {i}) \in Polynomials /\ Mul({i}, y) \in Polynomials
        /\ Mul(y, y) \in Polynomials /\ x \in Polynomials
    BY <1>5, Closed
  <2>2. Mul(x, x) = Add(Mul({i}, x), Mul(y, x))
    BY <1>5, <2>1, MulAddLeft
  <2>3. /\ Mul({i}, x) = Add(Mul({i}, {i}), Mul({i}, y))
        /\ Mul(y, x) = Add(Mul(y, {i}), Mul(y, y))
    BY <1>5, MulAddRight
  <2>4. Mul(y, {i}) = Mul({i}, y)
    BY <1>5, MulComm
  <2> DEFINE m == Mul({i}, y)
             n == Mul({i}, {i})
             o == Mul(y, y)
  <2>5. Mul(x, x) = Add(Add(n, m), Add(m, o))
    BY <2>2, <2>3, <2>4
  <2> HIDE DEF m, n, o
  <2>6. Add(Add(n, m), Add(m, o)) = Add(n, o)
    BY DEF Add, SymDiff
  <2>7. QED
    BY <2>5, <2>6 DEF n, o
<1>11. Mul(x, x) = Conj(2, x)
  BY <1>6, <1>8, <1>9, <1>10
<1>12. QED
  BY <1>2, <1>11
=============================================================================
