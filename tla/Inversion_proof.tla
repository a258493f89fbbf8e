---------------------------- MODULE Inversion_proof ----------------------------
(***************************************************************************)
(* Proofs about MCInversion.                                               *)
(*                                                                         *)
(* The result of gf2x_mod_inv is the inverse, for every R and every tables *)
(* that TablesRight describes and every polynomial that has an inverse.    *)
(* The m-th norm of a is the product of a, a^2, a^4, ..., m powers in all. *)
(* Each is a conjugate of a, and the chain goes from norm to norm          *)
(* (ChainInv), for the first m + k powers are the first m of them raised   *)
(* to 2^k, times the first k.  The whole product, of R - 1 powers, is its  *)
(* own square and so 1.                                                    *)
(*                                                                         *)
(* Each value of the map of a k-squaring is the right one, for every build *)
(* whose words hold twice R; and such a map, applied to the bits of a as   *)
(* either version does it, makes the k-squaring of a.                      *)
(***************************************************************************)
EXTENDS MCInversion, FiniteSetTheorems, WellFoundedInduction, TLAPS

Laws == INSTANCE Gf2Ring_proof WITH R <- p.R

(* For its facts about remainders, whatever R is.                          *)
Numbers == INSTANCE Gf2Ring_proof WITH R <- 1

(* Counting up from 0 reaches every number up to n. *)
LEMMA CountingUp ==
  ASSUME NEW top \in Nat, NEW G \in SUBSET (0..top),
         0 \in G, \A k \in G : k < top => k + 1 \in G
  PROVE  G = 0..top
<1> DEFINE Missing == (0..top) \ G
           Bad == {x \in SUBSET (0..top) : \E k \in Missing : x = 0..k}
<1>1. SUFFICES ASSUME NEW m \in Missing
               PROVE  FALSE
  OBVIOUS
<1>9. 0..m \in Bad
  OBVIOUS
<1>2. Bad \subseteq FiniteSubsetsOf(0..top)
  BY FS_Interval, FS_Subset DEF FiniteSubsetsOf
<1>3. IsWellFoundedOn(StrictSubsetOrdering(0..top), FiniteSubsetsOf(0..top))
  BY FS_StrictSubsetOrderingWellFounded
<1> HIDE DEF Bad
<1>4. PICK x \in Bad : \A y \in Bad : ~(<<y, x>> \in StrictSubsetOrdering(0..top))
  BY <1>9, <1>2, <1>3, WFMin
<1> USE DEF Bad
<1>5. PICK k \in Missing : x = 0..k
  OBVIOUS
<1>6. k - 1 \in Missing
  BY <1>5
<1>7. <<0..k-1, x>> \in StrictSubsetOrdering(0..top)
  BY <1>5, <1>6 DEF StrictSubsetOrdering
<1>8. QED
  BY <1>4, <1>6, <1>7

(* A function given by its first value and from each value to the next. *)
Iterates(seq, top, first, next) ==
  seq[0] = first /\ \A j \in 1..top : seq[j] = next[j - 1][seq[j - 1]]

(* Such a function exists: there is one up to every k. *)
LEMMA IterationExists ==
  ASSUME NEW top \in Nat, NEW S, NEW first \in S, NEW next \in [0..top -> [S -> S]]
  PROVE  \E seq \in [0..top -> S] : Iterates(seq, top, first, next)
<1> DEFINE Upto(seq, k) ==
             seq[0] = first /\ \A j \in 1..k : seq[j] = next[j - 1][seq[j - 1]]
           G == {k \in 0..top : \E seq \in [0..top -> S] : Upto(seq, k)}
<1>1. 0 \in G
  <2> DEFINE seq == [j \in 0..top |-> first]
  <2>1. seq \in [0..top -> S] /\ seq[0] = first
    OBVIOUS
  <2> HIDE DEF seq
  <2>2. Upto(seq, 0)
    BY <2>1
  <2>3. \E more \in [0..top -> S] : Upto(more, 0)
    BY <2>1, <2>2
  <2>4. QED
    BY <2>3
<1>2. ASSUME NEW k \in G, k < top
      PROVE  k + 1 \in G
  <2>1. PICK seq \in [0..top -> S] : Upto(seq, k)
    OBVIOUS
  <2> DEFINE more == [seq EXCEPT ![k + 1] = next[k][seq[k]]]
  <2>2. k \in 0..top /\ k + 1 \in 0..top /\ next[k][seq[k]] \in S
    BY <1>2
  <2>3. more \in [0..top -> S]
    BY <2>2
  <2>4. /\ more[k + 1] = next[k][seq[k]]
        /\ \A j \in 0..k : more[j] = seq[j]
    BY <2>2
  <2> HIDE DEF more
  <2>5. ASSUME NEW j \in 1..k+1
        PROVE  more[j] = next[j - 1][more[j - 1]]
    <3>1. CASE j = k + 1
      BY <2>4, <2>2, <3>1
    <3>2. CASE j \in 1..k
      BY <2>1, <2>2, <2>4, <3>2
    <3>3. QED
      BY <2>2, <3>1, <3>2
  <2>6. Upto(more, k + 1)
    BY <2>1, <2>2, <2>4, <2>5
  <2>7. QED
    BY <2>2, <2>3, <2>6
<1>3. top \in G
  <2> HIDE DEF G
  <2>1. G = 0..top
    <3>1. G \in SUBSET (0..top)
      BY DEF G
    <3>2. QED
      BY <1>1, <1>2, <3>1, CountingUp
  <2>2. QED
    BY <2>1
<1>4. PICK seq \in [0..top -> S] : Upto(seq, top)
  BY <1>3
<1>5. Iterates(seq, top, first, next)
  BY <1>4 DEF Iterates
<1>6. QED
  BY <1>5

-----------------------------------------------------------------------------
(***************************************************************************)
(* Powers of 2 modulo an odd number.                                       *)
(***************************************************************************)

LEMMA ModTimes ==
  ASSUME NEW r \in Nat \ {0}, NEW x \in Int, NEW y \in Int
  PROVE  (x * (y % r)) % r = (x * y) % r
<1>1. Numbers!RingAssumption
  BY DEF Numbers!RingAssumption
<1>2. QED
  BY <1>1, Numbers!ModMul, Zenon

LEMMA ModPlus ==
  ASSUME NEW r \in Nat \ {0}, NEW x \in Int, NEW y \in Int
  PROVE  ((x % r) + (y % r)) % r = (x + y) % r
<1>1. Numbers!RingAssumption
  BY DEF Numbers!RingAssumption
<1>2. QED
  BY <1>1, Numbers!ModPlus, Zenon

Doubles(pw, top, r) ==
  /\ pw \in [0..top -> 0..r-1] /\ pw[0] = 1
  /\ \A x \in 0..top-1 : pw[x + 1] = (2 * pw[x]) % r

(* Doubling n + m times is doubling n times and m times. *)
LEMMA DoublingAdds ==
  ASSUME Laws!RingAssumption, NEW r \in Nat \ {0, 1}, NEW top \in Nat, NEW pw,
         Doubles(pw, top, r), NEW x \in 0..top, NEW y \in 0..top, x + y <= top
  PROVE  pw[x + y] = (pw[x] * pw[y]) % r
<1> DEFINE lim == top - x
           G == {z \in 0..lim : pw[x + z] = (pw[x] * pw[z]) % r}
<1> USE DEF Doubles
<1>1. lim \in Nat /\ y \in 0..lim
  OBVIOUS
<1>2. 0 \in G
  <2>1. pw[x] \in 0..r-1
    OBVIOUS
  <2>2. ASSUME NEW w \in 0..r-1
        PROVE  (w * 1) % r = w
    <3>1. w * 1 = r * 0 + w /\ r \in Nat \ {0} /\ 0 \in Int
      OBVIOUS
    <3>2. QED
      BY <3>1, Laws!ModIs
  <2>3. QED
    BY <1>1, <2>1, <2>2
<1>3. ASSUME NEW z \in G, z < lim
      PROVE  z + 1 \in G
  <2>1. z \in 0..lim /\ z + 1 \in 0..lim /\ z \in 0..top-1 /\ x + z \in 0..top-1
    BY <1>3
  <2> DEFINE u == pw[x]
             v == pw[z]
             w == pw[x + z]
  <2>2. u \in 0..r-1 /\ v \in 0..r-1 /\ w = (u * v) % r
    BY <1>3, <2>1
  <2>3. pw[x + z + 1] = (2 * w) % r /\ pw[z + 1] = (2 * v) % r
    BY <2>1
  <2> HIDE DEF u, v, w
  <2>4. u * v \in Int /\ 2 * v \in Int /\ u \in Int /\ 2 \in Int
        /\ 2 * (u * v) = u * (2 * v) /\ r \in Nat \ {0}
    BY <2>2
  <2>5. (2 * ((u * v) % r)) % r = (2 * (u * v)) % r
    BY <2>4, ModTimes, Zenon
  <2>6. (u * ((2 * v) % r)) % r = (u * (2 * v)) % r
    BY <2>4, ModTimes, Zenon
  <2>7. pw[x + z + 1] = (u * pw[z + 1]) % r
    BY <2>2, <2>3, <2>4, <2>5, <2>6, Zenon
  <2>8. x + (z + 1) = x + z + 1
    BY <2>1
  <2>9. QED
    BY <2>1, <2>7, <2>8 DEF u
<1>4. G = 0..lim
  <2>1. G \in SUBSET (0..lim)
    OBVIOUS
  <2> HIDE DEF G
  <2>2. QED
    BY <1>1, <1>2, <1>3, <2>1, CountingUp
<1>5. QED
  BY <1>1, <1>4

LEMMA Halved ==
  ASSUME NEW x \in Nat
  PROVE  x % 2 = 0 => x = (x \div 2) + (x \div 2)
OBVIOUS

(* TwoToMod has the powers of 2, though it gets them by halving. *)
LEMMA Powers ==
  ASSUME Laws!RingAssumption, NEW r \in Nat, r > 1
  PROVE  Doubles(TwoToMod(r), r, r)
<1> DEFINE S == 0..r-1
           pow == TwoToMod(r)
           next == [x \in 0..r |-> [y \in S |-> (2 * y) % r]]
           Def(h) == h = [x \in 0..r |->
                            IF x = 0 THEN 1
                            ELSE IF x % 2 = 0 THEN (h[x \div 2] * h[x \div 2]) % r
                            ELSE (2 * h[x-1]) % r]
<1>1. r \in Nat \ {0} /\ r > 1 /\ r \in Nat \ {0, 1} /\ r \in Nat
  OBVIOUS
<1>2. pow = CHOOSE h : Def(h)
  BY DEF TwoToMod
<1> HIDE DEF pow, Def
<1>3. \A y \in S : (2 * y) % r \in S
  BY <1>1
<1>4. next \in [0..r -> [S -> S]] /\ 1 \in S
  BY <1>1, <1>3
<1>5. PICK h : h \in [0..r -> S] /\ Iterates(h, r, 1, next)
  <2> HIDE DEF next, S
  <2>1. QED
    BY <1>1, <1>4, IterationExists
<1>6. Doubles(h, r, r)
  <2>1. ASSUME NEW x \in 0..r-1
        PROVE  h[x + 1] = (2 * h[x]) % r
    <3>1. x + 1 \in 1..r /\ (x + 1) - 1 = x /\ x \in 0..r
      BY <1>1
    <3>4. h[x] \in S
      <4>1. h \in [0..r -> S]
        BY <1>5
      <4>2. QED
        BY <3>1, <4>1
    <3>2. h[x + 1] = next[x][h[x]]
      BY <1>5, <3>1 DEF Iterates
    <3>3. QED
      BY <3>1, <3>2, <3>4
  <2>2. QED
    BY <1>5, <2>1 DEF Iterates, Doubles
<1>7. Def(h)
  <2>1. ASSUME NEW x \in 0..r
        PROVE  h[x] = IF x = 0 THEN 1
                      ELSE IF x % 2 = 0 THEN (h[x \div 2] * h[x \div 2]) % r
                      ELSE (2 * h[x-1]) % r
    <3>1. CASE x = 0
      BY <1>6, <3>1 DEF Doubles
    <3>2. CASE x # 0 /\ x % 2 = 0
      <4>1. PICK y \in 0..r : y = x \div 2 /\ x = y + y /\ y + y <= r
        BY <1>1, <3>2, Halved
      <4>2. h[y + y] = (h[y] * h[y]) % r
        BY <1>1, <1>6, <4>1, DoublingAdds
      <4>3. h[x] = (h[y] * h[y]) % r
        BY <4>1, <4>2
      <4>4. QED
        BY <3>2, <4>1, <4>3
    <3>3. CASE x # 0 /\ x % 2 # 0
      <4>1. x - 1 \in 0..r-1 /\ (x - 1) + 1 = x
        BY <1>1, <3>3
      <4>2. QED
        BY <1>6, <3>3, <4>1 DEF Doubles
    <3>4. QED
      BY <3>1, <3>2, <3>3
  <2>2. QED
    BY <1>5, <2>1 DEF Def
<1>8. Def(pow)
  BY <1>2, <1>7, Zenon
<1>9. /\ pow = [x \in 0..r |-> pow[x]]
      /\ \A x \in 0..r : pow[x] = IF x = 0 THEN 1
                              ELSE IF x % 2 = 0 THEN (pow[x \div 2] * pow[x \div 2]) % r
                              ELSE (2 * pow[x-1]) % r
  BY <1>8 DEF Def
<1>10. \A x \in 0..r : h[x] = IF x = 0 THEN 1
                              ELSE IF x % 2 = 0 THEN (h[x \div 2] * h[x \div 2]) % r
                              ELSE (2 * h[x-1]) % r
  BY <1>7 DEF Def
<1> DEFINE G == {x \in 0..r : \A y \in 0..x : pow[y] = h[y]}
<1>11. 0 \in G
  <2>1. 0 \in 0..r
    BY <1>1
  <2>2. pow[0] = 1 /\ h[0] = 1
    BY <1>9, <1>10, <2>1, Zenon
  <2>3. QED
    BY <2>1, <2>2
<1>12. ASSUME NEW x \in G, x < r
       PROVE  x + 1 \in G
  <2>1. x + 1 \in 0..r /\ (x + 1) \div 2 \in 0..x /\ (x + 1) - 1 \in 0..x /\ x + 1 # 0
    BY <1>1, <1>12
  <2>2. pow[(x + 1) \div 2] = h[(x + 1) \div 2] /\ pow[(x + 1) - 1] = h[(x + 1) - 1]
    BY <2>1
  <2>3. pow[x + 1] = h[x + 1]
    BY <1>9, <1>10, <2>1, <2>2
  <2>4. QED
    BY <1>12, <2>1, <2>3
<1>13. G = 0..r
  <2>1. G \in SUBSET (0..r)
    OBVIOUS
  <2> HIDE DEF G
  <2>2. QED
    BY <1>1, <1>11, <1>12, <2>1, CountingUp
<1>14. pow = h
  <2>1. \A x \in 0..r : pow[x] = h[x]
    <3>1. ASSUME NEW x \in 0..r
          PROVE  pow[x] = h[x]
      <4>1. x \in G
        BY <1>13
      <4>2. QED
        BY <4>1
    <3>2. QED
      BY <3>1
  <2>2. h = [x \in 0..r |-> h[x]]
    BY <1>5
  <2>3. QED
    BY <1>9, <2>1, <2>2
<1>15. QED
  BY <1>5, <1>6, <1>14 DEF pow
-----------------------------------------------------------------------------
(***************************************************************************)
(* The ring of a LEVEL and its conjugations.                               *)
(***************************************************************************)

Polys(q) == SUBSET (0 .. q.R - 1)

(* The values are polynomials, and those to invert have an inverse. *)
RingLevels ==
  \A q \in Levels :
    /\ Unit(q) = {0}
    /\ \A x, y \in Polys(q) : Times(q, x, y) = Ring(q.R)!Mul(x, y)
    /\ \A x \in Inputs(q) :
         x \in Polys(q) /\ \E y \in Polys(q) : Times(q, x, y) = Unit(q)

(* x^(2^m): the exponents of the terms times 2^m. *)
Conjugate(q, m, x) == {(TwoToMod(q.R)[m] * j) % q.R : j \in x}

LEMMA RingOfLevel ==
  ASSUME ChainParameters, RingLevels, p \in Levels
  PROVE  /\ Laws!RingAssumption /\ p.R \in Nat /\ p.R % 2 = 1 /\ p.R > 2
         /\ Laws!Exponents = 0 .. p.R-1
         /\ Laws!Polynomials = Polys(p) /\ Laws!One = {0} /\ Unit(p) = {0}
         /\ \A x, y \in Polys(p) : Times(p, x, y) = Laws!Mul(x, y)
<1>1. p.R \in Nat /\ p.R % 2 = 1 /\ p.R > 2
  BY DEF ChainParameters, TablesRight
<1>2. Laws!RingAssumption
  BY <1>1 DEF Laws!RingAssumption
<1>3. /\ Laws!Exponents = 0 .. p.R-1
      /\ Laws!Polynomials = Polys(p) /\ Laws!One = {0}
  BY DEF Laws!Exponents, Laws!Polynomials, Laws!One, Polys
<1>4. ASSUME NEW x, NEW y
      PROVE  Ring(p.R)!Mul(x, y) = Laws!Mul(x, y)
  <2>1. Ring(p.R)!Exponents = Laws!Exponents
    BY DEF Ring!Exponents, Laws!Exponents
  <2>2. \A S : Ring(p.R)!Cardinality(S) = Laws!Cardinality(S)
    BY DEF Ring!Cardinality, Laws!Cardinality
  <2>3. QED
    BY <2>1, <2>2 DEF Ring!Mul, Laws!Mul
<1>5. /\ Unit(p) = {0}
      /\ \A x, y \in Polys(p) : Times(p, x, y) = Ring(p.R)!Mul(x, y)
  BY DEF RingLevels
<1>6. QED
  BY <1>1, <1>2, <1>3, <1>4, <1>5

LEMMA TimesLaws ==
  ASSUME ChainParameters, RingLevels, p \in Levels,
         NEW x \in Polys(p), NEW y \in Polys(p), NEW z \in Polys(p)
  PROVE  /\ Times(p, x, y) \in Polys(p)
         /\ Times(p, x, y) = Times(p, y, x)
         /\ Times(p, Times(p, x, y), z) = Times(p, x, Times(p, y, z))
         /\ {0} \in Polys(p) /\ Times(p, {0}, x) = x
         /\ Times(p, x, x) = Square(x)
<1>1. /\ Laws!RingAssumption /\ p.R \in Nat /\ p.R % 2 = 1 /\ p.R > 1
      /\ Laws!Polynomials = Polys(p) /\ Laws!One = {0}
      /\ \A u, v \in Polys(p) : Times(p, u, v) = Laws!Mul(u, v)
  BY RingOfLevel
<1>2. /\ Laws!Mul(x, y) \in Polys(p) /\ Laws!Mul(y, z) \in Polys(p)
  BY <1>1, Laws!Closed
<1>3. Laws!Mul(x, y) = Laws!Mul(y, x)
  BY <1>1, Laws!MulComm
<1>4. Laws!Mul(Laws!Mul(x, y), z) = Laws!Mul(x, Laws!Mul(y, z))
  BY <1>1, Laws!MulAssoc
<1>5. {0} \in Polys(p) /\ Laws!Mul({0}, x) = x
  BY <1>1, Laws!MulOne
<1>6. Laws!Mul(x, x) = Laws!Conj(2, x)
  BY <1>1, Laws!SquareIsConj
<1>7. Laws!Conj(2, x) = Square(x)
  BY DEF Laws!Conj, Square
<1>8. QED
  BY <1>1, <1>2, <1>3, <1>4, <1>5, <1>6, <1>7

(* The powers of 2, and their inverses, which are powers of 2 too. *)
LEMMA PowersAre ==
  ASSUME ChainParameters, RingLevels, p \in Levels
  PROVE  /\ TwoToMod(p.R)[0] = 1 /\ TwoToMod(p.R)[1] = 2 % p.R
         /\ \A m \in 0 .. p.R-1 :
              TwoToMod(p.R)[m] \in 0 .. p.R-1 /\ Laws!Unit(TwoToMod(p.R)[m])
         /\ \A m, k \in 0 .. p.R-1 : m + k <= p.R - 1 =>
              TwoToMod(p.R)[m + k] = (TwoToMod(p.R)[m] * TwoToMod(p.R)[k]) % p.R
<1>1. PICK r : r = p.R
  OBVIOUS
<1>2. PICK pow : pow = TwoToMod(r)
  OBVIOUS
<1>3. r \in Nat /\ r > 2 /\ r \in Nat \ {0, 1} /\ Laws!RingAssumption
      /\ Laws!Exponents = 0..r-1
  BY <1>1, RingOfLevel
<1>4. Doubles(pow, r, r)
  BY <1>2, <1>3, Powers
<1>5. /\ pow[0] = 1 /\ \A m \in 0..r-1 : pow[m] \in 0..r-1
  <2>1. pow \in [0..r -> 0..r-1] /\ pow[0] = 1
    BY <1>4 DEF Doubles
  <2>2. \A m \in 0..r-1 : m \in 0..r
    BY <1>3
  <2>3. QED
    BY <2>1, <2>2
<1>6. pow[1] = 2 % r
  <2>1. 0 \in 0..r-1 /\ 0 + 1 = 1
    BY <1>3
  <2>2. pow[0 + 1] = (2 * pow[0]) % r
    BY <1>4, <2>1 DEF Doubles
  <2>3. QED
    BY <1>5, <2>1, <2>2
<1>7. \A m, k \in 0..r-1 : m + k <= r - 1 => pow[m + k] = (pow[m] * pow[k]) % r
  <2>1. ASSUME NEW m \in 0..r-1, NEW k \in 0..r-1, m + k <= r - 1
        PROVE  pow[m + k] = (pow[m] * pow[k]) % r
    <3>1. m \in 0..r /\ k \in 0..r /\ m + k <= r
      BY <1>3, <2>1
    <3>2. QED
      BY <1>3, <1>4, <3>1, DoublingAdds
  <2>2. QED
    BY <2>1
<1>8. pow[r - 1] = 1
  BY <1>1, <1>2 DEF ChainParameters, TablesRight
<1>9. ASSUME NEW m \in 0..r-1
      PROVE  Laws!Unit(pow[m])
  <2>1. PICK k \in 0..r-1 : k = r - 1 - m
    BY <1>3
  <2>2. k + m = r - 1 /\ k + m <= r - 1
    BY <1>3, <2>1
  <2>3. (pow[k] * pow[m]) % r = 1
    BY <1>7, <1>8, <2>2
  <2>4. QED
    BY <1>1, <1>3, <1>5, <2>3 DEF Laws!Unit
<1>10. QED
  BY <1>1, <1>2, <1>5, <1>6, <1>7, <1>9

LEMMA ConjugateType ==
  ASSUME ChainParameters, RingLevels, p \in Levels,
         NEW m \in 0 .. p.R-1, NEW x \in Polys(p)
  PROVE  /\ Conjugate(p, m, x) \in Polys(p)
         /\ Conjugate(p, m, x) = Laws!Conj(TwoToMod(p.R)[m], x)
<1>1. Conjugate(p, m, x) = Laws!Conj(TwoToMod(p.R)[m], x)
  BY DEF Conjugate, Laws!Conj
<1>2. TwoToMod(p.R)[m] \in Nat
  BY PowersAre
<1>3. Laws!RingAssumption /\ Laws!Polynomials = Polys(p)
  BY RingOfLevel
<1>4. QED
  BY <1>1, <1>2, <1>3, Laws!ConjType

(* Conjugation is a homomorphism. *)
LEMMA ConjugateTimes ==
  ASSUME ChainParameters, RingLevels, p \in Levels,
         NEW m \in 0 .. p.R-1, NEW x \in Polys(p), NEW y \in Polys(p)
  PROVE  /\ Conjugate(p, m, Times(p, x, y))
               = Times(p, Conjugate(p, m, x), Conjugate(p, m, y))
         /\ Conjugate(p, m, {0}) = {0}
<1>1. PICK c : c = TwoToMod(p.R)[m]
  OBVIOUS
<1>2. c \in Nat /\ Laws!Unit(c)
  BY <1>1, PowersAre
<1>3. /\ Laws!RingAssumption /\ Laws!Polynomials = Polys(p) /\ p.R \in Nat /\ p.R > 2
      /\ \A u, v \in Polys(p) : Times(p, u, v) = Laws!Mul(u, v)
  BY RingOfLevel
<1>4. Laws!Conj(c, Laws!Mul(x, y)) = Laws!Mul(Laws!Conj(c, x), Laws!Conj(c, y))
  BY <1>2, <1>3, Laws!ConjMul
<1>5. /\ Times(p, x, y) \in Polys(p)
      /\ Conjugate(p, m, x) \in Polys(p) /\ Conjugate(p, m, y) \in Polys(p)
  BY TimesLaws, ConjugateType
<1>6. \A z \in Polys(p) : Conjugate(p, m, z) = Laws!Conj(c, z)
  BY <1>1, ConjugateType
<1>7. Conjugate(p, m, {0}) = {(c * 0) % p.R}
  BY <1>1 DEF Conjugate
<1>8. (c * 0) % p.R = 0
  BY <1>2, <1>3
<1>9. QED
  BY <1>3, <1>4, <1>5, <1>6, <1>7, <1>8

LEMMA ConjugateTwice ==
  ASSUME ChainParameters, RingLevels, p \in Levels, NEW x \in Polys(p),
         NEW m \in 0 .. p.R-1, NEW k \in 0 .. p.R-1, m + k <= p.R - 1
  PROVE  Conjugate(p, m, Conjugate(p, k, x)) = Conjugate(p, m + k, x)
<1>1. PICK c, d, e : c = TwoToMod(p.R)[m] /\ d = TwoToMod(p.R)[k]
                  /\ e = TwoToMod(p.R)[m + k]
  OBVIOUS
<1>2. PICK r : r = p.R
  OBVIOUS
<1>3. Laws!RingAssumption /\ r \in Nat \ {0} /\ r > 2
  BY <1>2, RingOfLevel
<1>4. c \in 0..r-1 /\ d \in 0..r-1 /\ e = (c * d) % r
  BY <1>1, <1>2, PowersAre
<1>5. ASSUME NEW j \in x
      PROVE  (c * ((d * j) % r)) % r = (e * j) % r
  <2>1. j \in 0..r-1
    BY <1>2 DEF Polys
  <2>2. /\ c \in Int /\ d \in Int /\ j \in Int /\ d * j \in Int /\ c * d \in Int
        /\ c * (d * j) = j * (c * d)
    BY <1>3, <1>4, <2>1
  <2>3. (c * ((d * j) % r)) % r = (c * (d * j)) % r
    BY <1>3, <2>2, ModTimes, Zenon
  <2>4. (j * ((c * d) % r)) % r = (j * (c * d)) % r
    BY <1>3, <2>2, ModTimes, Zenon
  <2>5. e \in Int
    BY <1>3, <1>4, <2>2
  <2>6. e * j = j * e
    BY <2>2, <2>5
  <2>7. QED
    BY <1>4, <2>2, <2>3, <2>4, <2>6
<1>6. Conjugate(p, m, Conjugate(p, k, x)) = {(c * z) % r : z \in {(d * j) % r : j \in x}}
  BY <1>1, <1>2 DEF Conjugate
<1>7. Conjugate(p, m + k, x) = {(e * j) % r : j \in x}
  BY <1>1, <1>2 DEF Conjugate
<1>8. QED
  BY <1>5, <1>6, <1>7

(* Squaring doubles the exponents, or does nothing for 2^0. *)
LEMMA SmallConjugates ==
  ASSUME ChainParameters, RingLevels, p \in Levels, NEW x \in Polys(p)
  PROVE  Conjugate(p, 0, x) = x /\ Conjugate(p, 1, x) = Square(x)
<1>1. p.R \in Nat /\ p.R > 2
  BY RingOfLevel
<1>2. TwoToMod(p.R)[0] = 1 /\ TwoToMod(p.R)[1] = 2
  <2>1. 2 % p.R = 2
    BY <1>1
  <2>2. QED
    BY <2>1, PowersAre
<1>3. \A j \in x : (1 * j) % p.R = j
  BY <1>1 DEF Polys
<1>4. QED
  BY <1>2, <1>3 DEF Conjugate, Square

(* One permutation does as many squarings as its parameter says. *)
LEMMA KSqrIsConjugate ==
  ASSUME ChainParameters, RingLevels, p \in Levels, NEW x \in Polys(p),
         NEW k \in 0 .. p.R-1, NEW lp \in 0 .. p.R-1,
         (lp * TwoToMod(p.R)[k]) % p.R = 1
  PROVE  KSqr(x, lp) = Conjugate(p, k, x)
<1>1. PICK c, r : c = TwoToMod(p.R)[k] /\ r = p.R
  OBVIOUS
<1>2. /\ Laws!RingAssumption /\ r \in Nat \ {0} /\ r > 2
      /\ Laws!Exponents = 0..r-1
  BY <1>1, RingOfLevel
<1>3. c \in 0..r-1 /\ c \in Nat /\ lp \in 0..r-1 /\ lp \in Nat
      /\ (lp * c) % r = 1 /\ (c * lp) % r = 1
  <2>1. c \in 0..r-1
    BY <1>1, PowersAre
  <2>2. c \in Nat /\ lp \in 0..r-1 /\ lp \in Nat /\ lp * c = c * lp
    BY <1>1, <1>2, <2>1
  <2>3. QED
    BY <1>1, <2>1, <2>2
<1>4. ASSUME NEW u \in 0..r-1, NEW v \in 0..r-1, (v * u) % r = 1, NEW j \in 0..r-1
      PROVE  (u * j) % r \in 0..r-1 /\ (v * ((u * j) % r)) % r = j
  <2>1. /\ u \in Nat /\ v \in Laws!Exponents /\ j \in Laws!Exponents
        /\ (v * u) % p.R = 1
    BY <1>1, <1>2, <1>4
  <2>2. Laws!RingAssumption
    BY <1>2
  <2>3. (u * j) % p.R \in Laws!Exponents /\ (v * ((u * j) % p.R)) % p.R = j
    BY ONLY <2>1, <2>2, Laws!UnitOneToOne, Zenon
  <2>4. QED
    BY <1>1, <1>2, <2>3
<1>5. ASSUME NEW j \in x
      PROVE  (c * j) % r \in 0..r-1 /\ (lp * ((c * j) % r)) % r = j
  <2>1. j \in 0..r-1
    BY <1>1 DEF Polys
  <2>2. QED
    BY <1>3, <2>1, <1>4
<1>6. ASSUME NEW idx \in 0..r-1
      PROVE  (c * ((lp * idx) % r)) % r = idx
  BY <1>3, <1>4
<1>7. KSqr(x, lp) = {idx \in 0..r-1 : (lp * idx) % r \in x}
  BY <1>1 DEF KSqr, Residues
<1>8. Conjugate(p, k, x) = {(c * j) % r : j \in x}
  BY <1>1 DEF Conjugate
<1>9. QED
  BY <1>3, <1>5, <1>6, <1>7, <1>8, <1>4
-----------------------------------------------------------------------------
(***************************************************************************)
(* Norms.                                                                  *)
(***************************************************************************)

(* N[m] is the product of x^(2^j) for the j below m: x^(2^m - 1). *)
AreNorms(q, x, N) ==
  /\ N \in [0 .. q.R-1 -> Polys(q)]
  /\ N[0] = {0}
  /\ \A m \in 0 .. q.R-2 : N[m + 1] = Times(q, Conjugate(q, m, x), N[m])

Norms(q, x) == CHOOSE N : AreNorms(q, x, N)

LEMMA NormsExist ==
  ASSUME ChainParameters, RingLevels, p \in Levels, NEW x \in Polys(p)
  PROVE  AreNorms(p, x, Norms(p, x))
<1>1. PICK r, S : r = p.R - 1 /\ S = Polys(p)
  OBVIOUS
<1>2. r \in Nat /\ p.R - 2 = r - 1 /\ p.R \in Nat /\ p.R > 2
  BY <1>1, RingOfLevel
<1>3. PICK next : next = [m \in 0..r |-> [y \in S |-> Times(p, Conjugate(p, m, x), y)]]
  OBVIOUS
<1>4. next \in [0..r -> [S -> S]] /\ {0} \in S
  <2>1. \A m \in 0..r : \A y \in S : Times(p, Conjugate(p, m, x), y) \in S
    BY <1>1, ConjugateType, TimesLaws
  <2>2. {0} \in S
    BY <1>1, TimesLaws
  <2>3. QED
    BY <1>3, <2>1, <2>2
<1>5. PICK N \in [0..r -> S] : Iterates(N, r, {0}, next)
  BY <1>2, <1>4, IterationExists
<1>6. AreNorms(p, x, N)
  <2>1. ASSUME NEW m \in 0..r-1
        PROVE  N[m + 1] = Times(p, Conjugate(p, m, x), N[m])
    <3>1. m + 1 \in 1..r /\ (m + 1) - 1 = m /\ m \in 0..r
      BY <1>2
    <3>2. N[m + 1] = next[m][N[m]] /\ N[m] \in S
      BY <1>5, <3>1 DEF Iterates
    <3>3. QED
      BY <1>3, <3>1, <3>2
  <2>2. QED
    BY <1>1, <1>2, <1>5, <2>1 DEF AreNorms, Iterates
<1>7. QED
  BY <1>6 DEF Norms

LEMMA NormsAre ==
  ASSUME ChainParameters, RingLevels, p \in Levels, NEW x \in Polys(p)
  PROVE  /\ \A m \in 0 .. p.R-1 : Norms(p, x)[m] \in Polys(p)
         /\ Norms(p, x)[0] = {0} /\ Norms(p, x)[1] = x
         /\ \A m \in 0 .. p.R-2 :
              Norms(p, x)[m + 1] = Times(p, Conjugate(p, m, x), Norms(p, x)[m])
<1>1. PICK N : N = Norms(p, x)
  OBVIOUS
<1>2. /\ N \in [0 .. p.R-1 -> Polys(p)] /\ N[0] = {0}
      /\ \A m \in 0 .. p.R-2 : N[m + 1] = Times(p, Conjugate(p, m, x), N[m])
  BY <1>1, NormsExist DEF AreNorms
<1>3. p.R \in Nat /\ p.R > 2
  BY RingOfLevel
<1>4. N[1] = x
  <2>1. 0 \in 0 .. p.R-2 /\ 0 + 1 = 1
    BY <1>3
  <2>2. N[0 + 1] = Times(p, Conjugate(p, 0, x), N[0])
    BY <1>2, <2>1, Zenon
  <2>3. Conjugate(p, 0, x) = x /\ {0} \in Polys(p)
    BY SmallConjugates, TimesLaws
  <2>4. Times(p, x, {0}) = x
    <3>1. Times(p, x, {0}) = Times(p, {0}, x) /\ Times(p, {0}, x) = x
      BY <2>3, TimesLaws
    <3>2. QED
      BY <3>1
  <2>5. QED
    BY <1>2, <2>1, <2>2, <2>3, <2>4
<1>5. QED
  BY <1>1, <1>2, <1>4

(* The first m + k powers are the first m to 2^k, times the first k. *)
LEMMA NormsAdd ==
  ASSUME ChainParameters, RingLevels, p \in Levels, NEW x \in Polys(p),
         NEW m \in Nat, NEW k \in Nat, m + k <= p.R - 1
  PROVE  Norms(p, x)[m + k] = Times(p, Conjugate(p, k, Norms(p, x)[m]), Norms(p, x)[k])
<1>1. PICK N : N = Norms(p, x)
  OBVIOUS
<1>2. p.R \in Nat /\ p.R > 2
  BY RingOfLevel
<1>3. /\ \A j \in 0 .. p.R-1 : N[j] \in Polys(p)
      /\ N[0] = {0}
      /\ \A j \in 0 .. p.R-2 : N[j + 1] = Times(p, Conjugate(p, j, x), N[j])
  BY <1>1, NormsAre
<1> DEFINE G == {j \in 0..m : N[j + k] = Times(p, Conjugate(p, k, N[j]), N[k])}
<1>4. 0 \in G
  <2>1. k \in 0 .. p.R-1 /\ 0 + k = k
    BY <1>2
  <2>2. N[k] \in Polys(p) /\ {0} \in Polys(p)
    BY <1>3, <2>1, TimesLaws
  <2>3. Conjugate(p, k, {0}) = {0} /\ Times(p, {0}, N[k]) = N[k]
    BY <2>1, <2>2, ConjugateTimes, TimesLaws
  <2>4. QED
    BY <1>3, <2>1, <2>3
<1>5. ASSUME NEW j \in G, j < m
      PROVE  j + 1 \in G
  <2>1. /\ j \in 0 .. p.R-2 /\ j \in 0 .. p.R-1 /\ k \in 0 .. p.R-1
        /\ k + j \in 0 .. p.R-2 /\ k + j \in 0 .. p.R-1 /\ k + j <= p.R - 1
        /\ j + 1 \in 0..m /\ (j + 1) + k = (k + j) + 1 /\ j + k = k + j
    BY <1>2, <1>5
  <2>2. PICK c, cc, n0, nk : /\ c = Conjugate(p, j, x) /\ cc = Conjugate(p, k, c)
                            /\ n0 = N[j] /\ nk = N[k]
    OBVIOUS
  <2>3. c \in Polys(p) /\ cc \in Polys(p) /\ n0 \in Polys(p) /\ nk \in Polys(p)
        /\ Conjugate(p, k, n0) \in Polys(p)
    BY <1>3, <2>1, <2>2, ConjugateType
  <2>4. cc = Conjugate(p, k + j, x)
    BY <2>1, <2>2, ConjugateTwice
  <2>5. N[(k + j) + 1] = Times(p, cc, N[k + j])
    BY <1>3, <2>1, <2>4
  <2>6. N[k + j] = Times(p, Conjugate(p, k, n0), nk)
    BY <2>1, <2>2
  <2>7. Times(p, cc, Times(p, Conjugate(p, k, n0), nk))
          = Times(p, Times(p, cc, Conjugate(p, k, n0)), nk)
    BY <2>3, TimesLaws
  <2>8. Times(p, cc, Conjugate(p, k, n0)) = Conjugate(p, k, Times(p, c, n0))
    BY <2>1, <2>2, <2>3, ConjugateTimes
  <2>9. N[j + 1] = Times(p, c, n0)
    BY <1>3, <2>1, <2>2
  <2>10. N[(j + 1) + k] = Times(p, Conjugate(p, k, N[j + 1]), N[k])
    BY <2>1, <2>2, <2>5, <2>6, <2>7, <2>8, <2>9
  <2>11. QED
    BY <2>1, <2>10
<1>6. G = 0..m
  <2>1. G \in SUBSET (0..m)
    OBVIOUS
  <2> HIDE DEF G
  <2>2. QED
    BY <1>4, <1>5, <2>1, CountingUp
<1>7. QED
  <2>1. m \in G
    BY <1>6
  <2>2. QED
    BY <1>1, <2>1

(* A norm of what has an inverse has one. *)
LEMMA NormsInvertible ==
  ASSUME ChainParameters, RingLevels, p \in Levels,
         NEW x \in Polys(p), NEW y \in Polys(p), Times(p, x, y) = {0},
         NEW m \in 0 .. p.R-1
  PROVE  Times(p, Norms(p, x)[m], Norms(p, y)[m]) = {0}
<1>1. PICK N, M : N = Norms(p, x) /\ M = Norms(p, y)
  OBVIOUS
<1>2. p.R \in Nat /\ p.R > 2
  BY RingOfLevel
<1>3. /\ \A j \in 0 .. p.R-1 : N[j] \in Polys(p) /\ M[j] \in Polys(p)
      /\ N[0] = {0} /\ M[0] = {0}
      /\ \A j \in 0 .. p.R-2 : /\ N[j + 1] = Times(p, Conjugate(p, j, x), N[j])
                             /\ M[j + 1] = Times(p, Conjugate(p, j, y), M[j])
  BY <1>1, NormsAre
<1> DEFINE G == {j \in 0 .. p.R-1 : Times(p, N[j], M[j]) = {0}}
<1>4. 0 \in G
  <2>1. {0} \in Polys(p) /\ 0 \in 0 .. p.R-1
    BY <1>2, TimesLaws
  <2>2. Times(p, {0}, {0}) = {0}
    BY <2>1, TimesLaws
  <2>3. QED
    BY <1>3, <2>1, <2>2
<1>5. ASSUME NEW j \in G, j < p.R - 1
      PROVE  j + 1 \in G
  <2>1. j \in 0 .. p.R-2 /\ j \in 0 .. p.R-1 /\ j + 1 \in 0 .. p.R-1
    BY <1>2, <1>5
  <2>2. PICK c, d, u, v : /\ c = Conjugate(p, j, x) /\ d = Conjugate(p, j, y)
                         /\ u = N[j] /\ v = M[j]
    OBVIOUS
  <2>3. c \in Polys(p) /\ d \in Polys(p) /\ u \in Polys(p) /\ v \in Polys(p)
        /\ {0} \in Polys(p) /\ Times(p, u, d) \in Polys(p)
        /\ Times(p, d, v) \in Polys(p)
    <3>1. c \in Polys(p) /\ d \in Polys(p) /\ u \in Polys(p) /\ v \in Polys(p)
      BY <1>3, <2>1, <2>2, ConjugateType
    <3>2. QED
      BY <3>1, TimesLaws
  <2>4. Times(p, c, d) = {0}
    <3>1. Conjugate(p, j, Times(p, x, y)) = Times(p, c, d)
      BY <2>1, <2>2, ConjugateTimes
    <3>2. Conjugate(p, j, {0}) = {0}
      BY <2>1, ConjugateTimes
    <3>3. QED
      BY <3>1, <3>2
  <2>5. Times(p, Times(p, c, u), Times(p, d, v))
          = Times(p, c, Times(p, u, Times(p, d, v)))
    BY <2>3, TimesLaws
  <2>6. Times(p, u, Times(p, d, v)) = Times(p, Times(p, u, d), v)
    BY <2>3, TimesLaws
  <2>7. Times(p, u, d) = Times(p, d, u)
    BY <2>3, TimesLaws
  <2>8. Times(p, Times(p, d, u), v) = Times(p, d, Times(p, u, v))
    BY <2>3, TimesLaws
  <2>9. Times(p, u, v) = {0}
    BY <2>2
  <2>10. Times(p, d, {0}) = d
    <3>1. Times(p, d, {0}) = Times(p, {0}, d) /\ Times(p, {0}, d) = d
      BY <2>3, TimesLaws
    <3>2. QED
      BY <3>1
  <2>11. N[j + 1] = Times(p, c, u) /\ M[j + 1] = Times(p, d, v)
    BY <1>3, <2>1, <2>2
  <2>12. QED
    BY <2>1, <2>4, <2>5, <2>6, <2>7, <2>8, <2>9, <2>10, <2>11
<1>6. G = 0 .. p.R-1
  <2>1. PICK top : top = p.R - 1
    OBVIOUS
  <2>2. top \in Nat /\ G \in SUBSET (0..top)
    BY <1>2, <2>1
  <2> HIDE DEF G
  <2>3. G = 0..top
    BY <1>4, <1>5, <2>1, <2>2, CountingUp
  <2>4. QED
    BY <2>1, <2>3
<1>7. QED
  <2>1. m \in G
    BY <1>6
  <2>2. QED
    BY <1>1, <2>1

(* The norm of all R - 1 powers is 1: squaring leaves it as it is, for     *)
(* 2^(R-1) is 1 modulo R, and it can be cancelled.                         *)
LEMMA NormIsOne ==
  ASSUME ChainParameters, RingLevels, p \in Levels,
         NEW x \in Polys(p), NEW y \in Polys(p), Times(p, x, y) = {0}
  PROVE  Norms(p, x)[p.R - 1] = {0}
<1>1. PICK N : N = Norms(p, x)
  OBVIOUS
<1>2. p.R \in Nat /\ p.R > 2 /\ {0} \in Polys(p)
  BY RingOfLevel, TimesLaws
<1>3. PICK b, z, c : b = N[p.R - 1] /\ z = Norms(p, y)[p.R - 1] /\ c = N[p.R - 2]
  OBVIOUS
<1>4. b \in Polys(p) /\ z \in Polys(p) /\ c \in Polys(p) /\ Times(p, b, z) = {0}
  <2>1. p.R - 1 \in 0 .. p.R-1 /\ p.R - 2 \in 0 .. p.R-1
    BY <1>2
  <2>2. b \in Polys(p) /\ z \in Polys(p) /\ c \in Polys(p)
    BY <1>1, <1>3, <2>1, NormsAre
  <2>3. Times(p, b, z) = {0}
    BY <1>1, <1>3, <2>1, NormsInvertible
  <2>4. QED
    BY <2>2, <2>3
<1>5. b = Times(p, Square(c), x)
  <2>1. p.R - 2 \in Nat /\ 1 \in Nat /\ (p.R - 2) + 1 = p.R - 1
    BY <1>2
  <2>2. N[(p.R - 2) + 1] = Times(p, Conjugate(p, 1, N[p.R - 2]), N[1])
    BY <1>1, <1>2, <2>1, NormsAdd
  <2>3. N[1] = x /\ Conjugate(p, 1, c) = Square(c)
    BY <1>1, <1>4, NormsAre, SmallConjugates
  <2>4. QED
    BY <1>3, <2>1, <2>2, <2>3
<1>6. b = Times(p, Conjugate(p, p.R - 2, x), c)
  <2>1. p.R - 2 \in 0 .. p.R-2 /\ (p.R - 2) + 1 = p.R - 1
    BY <1>2
  <2>2. N[(p.R - 2) + 1] = Times(p, Conjugate(p, p.R - 2, x), N[p.R - 2])
    BY <1>1, <2>1, NormsAre
  <2>3. QED
    BY <1>3, <2>1, <2>2
<1>7. Square(b) = b
  <2>1. PICK d : d = Conjugate(p, p.R - 2, x)
    OBVIOUS
  <2>2. /\ p.R - 2 \in 0 .. p.R-1 /\ 1 \in 0 .. p.R-1 /\ 1 + (p.R - 2) = p.R - 1
        /\ 1 + (p.R - 2) <= p.R - 1
    BY <1>2
  <2>3. d \in Polys(p)
    BY <2>1, <2>2, ConjugateType
  <2>4. Square(b) = Times(p, Square(d), Square(c))
    <3>1. \A u \in Polys(p) : Square(u) = Conjugate(p, 1, u)
      BY SmallConjugates
    <3>2. Conjugate(p, 1, Times(p, d, c)) = Times(p, Conjugate(p, 1, d), Conjugate(p, 1, c))
      BY <1>4, <2>2, <2>3, ConjugateTimes
    <3>3. QED
      BY <1>4, <1>6, <2>1, <2>3, <3>1, <3>2
  <2>5. Square(d) = x
    <3>1. Square(d) = Conjugate(p, 1, d)
      BY <2>3, SmallConjugates
    <3>2. Conjugate(p, 1, d) = Conjugate(p, 1 + (p.R - 2), x)
      BY <2>1, <2>2, ConjugateTwice
    <3>3. TwoToMod(p.R)[p.R - 1] = TwoToMod(p.R)[0]
      BY PowersAre DEF ChainParameters, TablesRight
    <3>4. Conjugate(p, p.R - 1, x) = Conjugate(p, 0, x)
      BY <3>3 DEF Conjugate
    <3>5. Conjugate(p, 0, x) = x
      BY SmallConjugates
    <3>6. QED
      BY <2>2, <3>1, <3>2, <3>4, <3>5
  <2>6. Square(c) \in Polys(p)
    <3>1. Square(c) = Times(p, c, c)
      BY <1>4, TimesLaws
    <3>2. QED
      BY <1>4, <3>1, TimesLaws
  <2>7. Times(p, x, Square(c)) = Times(p, Square(c), x)
    BY <2>6, TimesLaws
  <2>8. QED
    BY <1>5, <2>4, <2>5, <2>7
<1>8. Times(p, b, b) = b
  BY <1>4, <1>7, TimesLaws
<1>9. Times(p, Times(p, b, b), z) = Times(p, b, Times(p, b, z))
  <2>1. b \in Polys(p) /\ z \in Polys(p)
    BY <1>4
  <2>2. QED
    BY <2>1, TimesLaws
<1>10. Times(p, b, {0}) = b
  <2>1. Times(p, b, {0}) = Times(p, {0}, b) /\ Times(p, {0}, b) = b
    BY <1>2, <1>4, TimesLaws
  <2>2. QED
    BY <2>1
<1>11. QED
  BY <1>1, <1>3, <1>4, <1>8, <1>9, <1>10
-----------------------------------------------------------------------------
(***************************************************************************)
(* The chain.                                                              *)
(***************************************************************************)

(* f is the norm of 2^(i-1) powers, then of 2^i; t that of as many powers  *)
(* as the digits of R - 2 below i say; g is what f becomes, as many        *)
(* squarings ahead of it as have been done.                                *)
ChainInv ==
  LET N  == Norms(p, a)
      k0 == At(p.exp0_k, i - 1)
      k1 == At(p.exp1_k, i)
  IN  /\ p \in Levels /\ a \in Inputs(p)
      /\ i \in 1..MaxI /\ n \in Nat
      /\ pc \in {"exp0", "mul0", "exp1", "mul1", "square", "done"}
      /\ pc \in {"exp0", "mul0", "exp1", "mul1"} =>
           i < MaxI /\ t = N[(p.R - 2) % (2 * k0)]
      /\ pc \in {"exp0", "mul0"} => f = N[k0]
      /\ pc \in {"exp1", "mul1"} => f = N[2 * k0] /\ k1 # 0
      /\ pc = "mul0" => n <= k0 /\ g = Conjugate(p, k0 - n, f)
      /\ pc = "mul1" => n <= k1 /\ g = Conjugate(p, k1 - n, f)
      /\ pc \notin {"mul0", "mul1"} => n = 0
      /\ pc = "square" => t = N[p.R - 2]
      /\ pc = "done" => t = Square(N[p.R - 2])

(* One more binary digit of v. *)
LEMMA OneMoreDigit ==
  ASSUME Laws!RingAssumption, NEW d \in Nat \ {0}, NEW v \in Nat
  PROVE  v % (2 * d) = IF (v \div d) % 2 = 1 THEN d + (v % d) ELSE v % d
<1>1. PICK q, m : q = v \div d /\ m = v % d
  OBVIOUS
<1>2. q \in Int /\ m \in 0..d-1 /\ v = d * q + m /\ v \in Int
  BY <1>1, Laws!Divided
<1>3. PICK h, b : h = q \div 2 /\ b = q % 2
  OBVIOUS
<1>4. h \in Int /\ b \in 0..1 /\ q = 2 * h + b
  BY <1>2, <1>3
<1>5. PICK w, c : w = 2 * d /\ c = d * b + m
  OBVIOUS
<1>6. w \in Nat \ {0} /\ c \in 0..w-1 /\ v = w * h + c
  <2>1. CASE b = 0
    <3>1. c = m /\ q = 2 * h
      BY <1>2, <1>4, <1>5, <2>1
    <3>2. d * (2 * h) = (2 * d) * h
      BY <1>4
    <3>3. v = w * h + m
      BY <1>2, <1>5, <3>1, <3>2
    <3>4. QED
      BY <1>2, <1>5, <3>1, <3>3
  <2>2. CASE b = 1
    <3>1. c = d + m /\ q = 2 * h + 1
      BY <1>2, <1>4, <1>5, <2>2
    <3>2. PICK e \in Int : e = d * h
      BY <1>4
    <3>3. d * (2 * h + 1) = 2 * e + d /\ (2 * d) * h = 2 * e
      BY <1>4, <3>2
    <3>4. d * q = 2 * e + d
      BY <3>1, <3>3
    <3>5. v = w * h + c
      BY <1>2, <1>5, <3>1, <3>2, <3>3, <3>4
    <3>6. QED
      BY <1>2, <1>5, <3>1, <3>5
  <2>3. QED
    BY <1>4, <2>1, <2>2
<1>7. v % w = c
  BY <1>4, <1>6, Laws!ModIs
<1>8. CASE b = 1
  <2>1. c = d + m
    BY <1>2, <1>5, <1>8
  <2>2. (v \div d) % 2 = 1 /\ v % (2 * d) = c /\ v % d = m
    BY <1>1, <1>3, <1>5, <1>7, <1>8
  <2>3. QED
    BY <2>1, <2>2, Zenon
<1>9. CASE b # 1
  <2>1. c = m
    BY <1>2, <1>4, <1>5, <1>9
  <2>2. (v \div d) % 2 # 1 /\ v % (2 * d) = c /\ v % d = m
    BY <1>1, <1>3, <1>5, <1>7, <1>9
  <2>3. QED
    BY <2>1, <2>2
<1>10. QED
  BY <1>8, <1>9

LEMMA OddRemainder ==
  ASSUME Laws!RingAssumption, NEW d \in Nat \ {0}, NEW v \in Nat, v % 2 = 1
  PROVE  v % (2 * d) \in 1 .. v
<1>1. PICK w, q, m : w = 2 * d /\ q = v \div w /\ m = v % w
  OBVIOUS
<1>2. w \in Nat \ {0} /\ v \in Int
  BY <1>1
<1>3. q \in Int /\ m \in 0..w-1 /\ v = w * q + m
  BY <1>1, <1>2, Laws!Divided
<1>4. m # 0
  <2>1. SUFFICES ASSUME m = 0
                 PROVE  FALSE
    OBVIOUS
  <2>2. v = 2 * (d * q) /\ d * q \in Int
    BY <1>1, <1>3, <2>1
  <2>3. \A z \in Int : (2 * z) % 2 = 0
    OBVIOUS
  <2>4. QED
    BY <2>2, <2>3
<1>5. m <= v
  <2>1. q >= 0
    <3>1. CASE q < 0
      <4>1. w * q <= w * (-1)
        BY <1>2, <1>3, <3>1
      <4>2. QED
        BY <1>2, <1>3, <4>1
    <3>2. QED
      BY <1>3, <3>1
  <2>2. PICK e \in Int : e = w * q
    BY <1>2, <1>3
  <2>3. e >= 0
    BY <1>2, <1>3, <2>1, <2>2
  <2>4. QED
    BY <1>2, <1>3, <2>2, <2>3
<1>6. QED
  BY <1>1, <1>3, <1>4, <1>5

(* What TablesRight says of iteration j. *)
LEMMA TableRow ==
  ASSUME ChainParameters, RingLevels, p \in Levels, NEW j \in 1 .. MaxI-1,
         NEW k0, k0 = At(p.exp0_k, j - 1), NEW k1, k1 = At(p.exp1_k, j),
         NEW top, top = p.R - 2
  PROVE  /\ k0 \in 1..top /\ 2 * k0 \in 1..top /\ At(p.exp0_k, j) = 2 * k0
         /\ top % (2 * k0) \in 1..top /\ top \in Nat
         /\ k1 # 0 => /\ k1 = top % (2 * k0)
                      /\ top % (2 * (2 * k0)) = 2 * k0 + k1
         /\ k1 = 0 => top % (2 * (2 * k0)) = top % (2 * k0)
         /\ At(p.exp0_l, j - 1) \in 0 .. p.R-1
         /\ (At(p.exp0_l, j - 1) * TwoToMod(p.R)[k0]) % p.R = 1
         /\ At(p.exp1_l, j) \in 0 .. p.R-1
         /\ k1 # 0 => (At(p.exp1_l, j) * TwoToMod(p.R)[k1]) % p.R = 1
<1>1. Laws!RingAssumption /\ p.R \in Nat /\ p.R % 2 = 1 /\ p.R > 2
  BY RingOfLevel
<1>2. TablesRight(p)
  BY DEF ChainParameters
<1>3. MaxI \in Nat /\ MaxI > 1 /\ MaxI = Len(p.exp0_k)
  BY <1>2 DEF TablesRight, MaxI
<1>4. /\ j \in 1..MaxI /\ j + 1 \in 2..MaxI /\ j + 1 \in 1..MaxI /\ (j - 1) + 1 = j
  BY <1>3
<1>5. /\ k0 = p.exp0_k[j] /\ k1 = p.exp1_k[j + 1] /\ At(p.exp0_k, j) = p.exp0_k[j + 1]
      /\ At(p.exp0_l, j - 1) = p.exp0_l[j] /\ At(p.exp1_l, j) = p.exp1_l[j + 1]
  BY <1>4 DEF At
<1>6. /\ p.exp0_k \in [1..MaxI -> 1..top]
      /\ p.exp0_k[j + 1] = 2 * p.exp0_k[j]
  BY <1>2, <1>3 DEF TablesRight
<1>7. k0 \in 1..top /\ 2 * k0 \in 1..top /\ At(p.exp0_k, j) = 2 * k0
  BY <1>4, <1>5, <1>6
<1>8. top \in Nat /\ top % 2 = 1 /\ 2 * k0 \in Nat \ {0} /\ k0 \in Nat \ {0}
  BY <1>1, <1>7
<1>9. top % (2 * k0) \in 1..top
  BY <1>1, <1>8, OddRemainder
<1>10. top % (2 * (2 * k0)) = IF (top \div (2 * k0)) % 2 = 1
                             THEN 2 * k0 + (top % (2 * k0)) ELSE top % (2 * k0)
  BY <1>1, <1>8, OneMoreDigit
<1>11. k1 = IF (top \div (2 * k0)) % 2 = 1 THEN top % (2 * k0) ELSE 0
  BY <1>2, <1>3, <1>4, <1>5, <1>7 DEF TablesRight
<1>12. /\ k1 # 0 => /\ k1 = top % (2 * k0)
                     /\ top % (2 * (2 * k0)) = 2 * k0 + k1
       /\ k1 = 0 => top % (2 * (2 * k0)) = top % (2 * k0)
  <2>1. PICK low, high, bit : /\ low = top % (2 * k0) /\ high = top % (2 * (2 * k0))
                             /\ bit = (top \div (2 * k0)) % 2
    OBVIOUS
  <2>2. /\ low \in 1..top /\ high = IF bit = 1 THEN 2 * k0 + low ELSE low
        /\ k1 = IF bit = 1 THEN low ELSE 0
    BY <1>9, <1>10, <1>11, <2>1
  <2>3. /\ k1 # 0 => k1 = low /\ high = 2 * k0 + k1
        /\ k1 = 0 => high = low
    BY <2>2
  <2>4. QED
    BY <2>1, <2>3, Zenon
<1>13. /\ {p.exp0_l[j], p.exp1_l[j]} \subseteq 0 .. p.R-1
       /\ {p.exp0_l[j + 1], p.exp1_l[j + 1]} \subseteq 0 .. p.R-1
       /\ (p.exp0_l[j] * TwoToMod(p.R)[p.exp0_k[j]]) % p.R = 1
       /\ p.exp1_k[j + 1] # 0 =>
            (p.exp1_l[j + 1] * TwoToMod(p.R)[p.exp1_k[j + 1]]) % p.R = 1
  BY <1>2, <1>3, <1>4 DEF TablesRight
<1>14. QED
  BY <1>5, <1>7, <1>8, <1>9, <1>12, <1>13

LEMMA Exponentiated ==
  ASSUME ChainParameters, RingLevels, p \in Levels, f \in Polys(p), n = 0,
         NEW k \in 0 .. p.R-1, NEW lp \in 0 .. p.R-1,
         (lp * TwoToMod(p.R)[k]) % p.R = 1, Exponentiate(k, lp)
  PROVE  n' \in Nat /\ n' <= k /\ g' = Conjugate(p, k - n', f)
<1>1. p.R \in Nat /\ k \in Nat
  BY RingOfLevel
<1>2. CASE k <= p.KSqrThr
  <2>1. g' = f /\ n' = k
    BY <1>2 DEF Exponentiate
  <2>2. k - k = 0 /\ k <= k
    BY <1>1
  <2>3. Conjugate(p, 0, f) = f
    BY SmallConjugates
  <2>4. QED
    BY <1>1, <2>1, <2>2, <2>3
<1>3. CASE ~(k <= p.KSqrThr)
  <2>1. g' = KSqr(f, lp) /\ n' = 0
    BY <1>3 DEF Exponentiate
  <2>2. KSqr(f, lp) = Conjugate(p, k, f)
    BY KSqrIsConjugate
  <2>3. 0 <= k /\ k - 0 = k /\ 0 \in Nat
    BY <1>1
  <2>4. QED
    BY <2>1, <2>2, <2>3
<1>4. QED
  BY <1>2, <1>3

(* What the steps of iteration i have in common. *)
LEMMA ChainFacts ==
  ASSUME ChainParameters, RingLevels, ChainInv,
         pc \in {"exp0", "mul0", "exp1", "mul1"},
         NEW N, N = Norms(p, a), NEW top, top = p.R - 2,
         NEW k0, k0 = At(p.exp0_k, i - 1), NEW k1, k1 = At(p.exp1_k, i)
  PROVE  /\ p \in Levels /\ a \in Polys(p) /\ i \in 1 .. MaxI-1
         /\ MaxI \in Nat /\ p.R \in Nat
         /\ \A m \in 0..top : N[m] \in Polys(p)
         /\ t = N[top % (2 * k0)]
<1>1. p \in Levels /\ a \in Inputs(p) /\ i \in 1..MaxI /\ i < MaxI
      /\ t = N[top % (2 * k0)]
  BY DEF ChainInv
<1>2. a \in Polys(p)
  BY <1>1 DEF RingLevels
<1>3. p.R \in Nat /\ p.R > 2
  BY <1>1, RingOfLevel
<1>4. \A m \in 0..top : N[m] \in Polys(p)
  <2>1. \A m \in 0 .. p.R-1 : Norms(p, a)[m] \in Polys(p)
    BY <1>1, <1>2, NormsAre
  <2>2. \A m \in 0..top : m \in 0 .. p.R-1
    BY <1>3
  <2>3. QED
    BY <2>1, <2>2
<1>5. MaxI \in Nat
  BY <1>1 DEF ChainParameters, TablesRight, MaxI
<1>6. i \in 1 .. MaxI-1
  BY <1>1, <1>5
<1>7. QED
  BY <1>1, <1>2, <1>3, <1>4, <1>5, <1>6

LEMMA StartsChain ==
  ASSUME ChainParameters, RingLevels, Init
  PROVE  ChainInv
<1>1. /\ p \in Levels /\ a \in Inputs(p) /\ f = a /\ t = a
      /\ i = 1 /\ n = 0 /\ pc = "exp0"
  BY DEF Init
<1>2. /\ MaxI \in Nat /\ MaxI > 1 /\ p.exp0_k[1] = 1
      /\ p.R \in Nat /\ p.R % 2 = 1 /\ p.R > 2
  BY <1>1 DEF ChainParameters, TablesRight, MaxI
<1>3. At(p.exp0_k, i - 1) = 1
  BY <1>1, <1>2 DEF At
<1>4. a \in Polys(p)
  BY <1>1 DEF RingLevels
<1>5. Norms(p, a)[1] = a
  BY <1>1, <1>4, NormsAre
<1>6. (p.R - 2) % (2 * 1) = 1
  BY <1>2
<1>7. i \in 1..MaxI /\ i < MaxI /\ n \in Nat
  BY <1>1, <1>2
<1>8. QED
  BY <1>1, <1>3, <1>5, <1>6, <1>7 DEF ChainInv

LEMMA Exponentiation0Step ==
  ASSUME ChainParameters, RingLevels, ChainInv, Exponentiation0
  PROVE  ChainInv'
<1>1. PICK N, top, k0, k1 : /\ N = Norms(p, a) /\ top = p.R - 2
                           /\ k0 = At(p.exp0_k, i - 1) /\ k1 = At(p.exp1_k, i)
  OBVIOUS
<1>2. /\ pc = "exp0" /\ Exponentiate(k0, At(p.exp0_l, i - 1)) /\ pc' = "mul0"
      /\ p' = p /\ a' = a /\ f' = f /\ t' = t /\ i' = i
  BY <1>1 DEF Exponentiation0
<1>3. /\ p \in Levels /\ a \in Inputs(p) /\ i \in 1..MaxI /\ i < MaxI
      /\ f = N[k0] /\ t = N[top % (2 * k0)] /\ n = 0
  BY <1>1, <1>2 DEF ChainInv
<1>4. /\ i \in 1 .. MaxI-1 /\ p.R \in Nat
      /\ \A m \in 0..top : N[m] \in Polys(p)
  BY <1>1, <1>2, ChainFacts
<1>5. /\ k0 \in 1..top /\ At(p.exp0_l, i - 1) \in 0 .. p.R-1
      /\ (At(p.exp0_l, i - 1) * TwoToMod(p.R)[k0]) % p.R = 1
  BY <1>1, <1>3, <1>4, TableRow
<1>6. k0 \in 0..top /\ k0 \in 0 .. p.R-1
  BY <1>1, <1>4, <1>5
<1>7. f \in Polys(p)
  BY <1>3, <1>4, <1>6
<1>8. n' \in Nat /\ n' <= k0 /\ g' = Conjugate(p, k0 - n', f)
  BY <1>2, <1>3, <1>5, <1>6, <1>7, Exponentiated
<1>9. MaxI' = MaxI
  BY <1>2 DEF MaxI
<1>10. QED
  BY <1>1, <1>2, <1>3, <1>8, <1>9 DEF ChainInv

LEMMA Exponentiation1Step ==
  ASSUME ChainParameters, RingLevels, ChainInv, Exponentiation1
  PROVE  ChainInv'
<1>1. PICK N, top, k0, k1 : /\ N = Norms(p, a) /\ top = p.R - 2
                           /\ k0 = At(p.exp0_k, i - 1) /\ k1 = At(p.exp1_k, i)
  OBVIOUS
<1>2. /\ pc = "exp1" /\ Exponentiate(k1, At(p.exp1_l, i)) /\ pc' = "mul1"
      /\ p' = p /\ a' = a /\ f' = f /\ t' = t /\ i' = i
  BY <1>1 DEF Exponentiation1
<1>3. /\ p \in Levels /\ a \in Inputs(p) /\ i \in 1..MaxI /\ i < MaxI
      /\ f = N[2 * k0] /\ k1 # 0 /\ t = N[top % (2 * k0)] /\ n = 0
  BY <1>1, <1>2 DEF ChainInv
<1>4. /\ i \in 1 .. MaxI-1 /\ p.R \in Nat
      /\ \A m \in 0..top : N[m] \in Polys(p)
  BY <1>1, <1>2, ChainFacts
<1>5. /\ 2 * k0 \in 1..top /\ k1 = top % (2 * k0) /\ top % (2 * k0) \in 1..top
      /\ At(p.exp1_l, i) \in 0 .. p.R-1
      /\ (At(p.exp1_l, i) * TwoToMod(p.R)[k1]) % p.R = 1
  BY <1>1, <1>3, <1>4, TableRow
<1>6. 2 * k0 \in 0..top /\ k1 \in 0 .. p.R-1
  BY <1>1, <1>4, <1>5
<1>7. f \in Polys(p)
  BY <1>3, <1>4, <1>6
<1>8. n' \in Nat /\ n' <= k1 /\ g' = Conjugate(p, k1 - n', f)
  BY <1>2, <1>3, <1>5, <1>6, <1>7, Exponentiated
<1>9. MaxI' = MaxI
  BY <1>2 DEF MaxI
<1>10. QED
  BY <1>1, <1>2, <1>3, <1>8, <1>9 DEF ChainInv

LEMMA SquareGStep ==
  ASSUME ChainParameters, RingLevels, ChainInv, SquareG
  PROVE  ChainInv'
<1>1. PICK N, top, k0, k1 : /\ N = Norms(p, a) /\ top = p.R - 2
                           /\ k0 = At(p.exp0_k, i - 1) /\ k1 = At(p.exp1_k, i)
  OBVIOUS
<1>2. /\ n > 0 /\ g' = Square(g) /\ n' = n - 1
      /\ p' = p /\ a' = a /\ f' = f /\ t' = t /\ i' = i /\ pc' = pc
  BY DEF SquareG
<1>3. n \in Nat /\ pc \in {"mul0", "mul1"}
  BY <1>2 DEF ChainInv
<1>4. /\ p \in Levels /\ a \in Inputs(p) /\ i \in 1..MaxI /\ i < MaxI
      /\ t = N[top % (2 * k0)]
      /\ pc = "mul0" => f = N[k0] /\ n <= k0 /\ g = Conjugate(p, k0 - n, f)
      /\ pc = "mul1" => f = N[2 * k0] /\ k1 # 0 /\ n <= k1 /\ g = Conjugate(p, k1 - n, f)
  BY <1>1, <1>3 DEF ChainInv
<1>5. /\ i \in 1 .. MaxI-1 /\ p.R \in Nat
      /\ \A m \in 0..top : N[m] \in Polys(p)
  BY <1>1, <1>3, ChainFacts
<1>6. /\ k0 \in 1..top /\ 2 * k0 \in 1..top /\ top % (2 * k0) \in 1..top
      /\ k1 # 0 => k1 = top % (2 * k0)
  BY <1>1, <1>4, <1>5, TableRow
<1>7. ASSUME NEW k \in 1..top, n <= k, g = Conjugate(p, k - n, f), f \in Polys(p)
      PROVE  n' <= k /\ g' = Conjugate(p, k - n', f)
  <2>1. /\ 1 \in 0 .. p.R-1 /\ k - n \in 0 .. p.R-1 /\ 1 + (k - n) <= p.R - 1
        /\ 1 + (k - n) = k - (n - 1) /\ n - 1 <= k
    BY <1>1, <1>2, <1>3, <1>5, <1>7
  <2>2. Conjugate(p, 1, g) = Conjugate(p, 1 + (k - n), f)
    BY <1>4, <1>7, <2>1, ConjugateTwice
  <2>3. g \in Polys(p)
    BY <1>4, <1>7, <2>1, ConjugateType
  <2>4. Conjugate(p, 1, g) = Square(g)
    BY <1>4, <2>3, SmallConjugates
  <2>5. QED
    BY <1>2, <2>1, <2>2, <2>4
<1>8. n' \in Nat /\ MaxI' = MaxI
  BY <1>2, <1>3 DEF MaxI
<1>9. CASE pc = "mul0"
  <2>1. f \in Polys(p)
    <3>1. k0 \in 0..top
      BY <1>6
    <3>2. QED
      BY <1>4, <1>5, <1>9, <3>1
  <2>2. n' <= k0 /\ g' = Conjugate(p, k0 - n', f)
    BY <1>4, <1>6, <1>7, <1>9, <2>1
  <2>3. QED
    BY <1>1, <1>2, <1>4, <1>8, <1>9, <2>2 DEF ChainInv
<1>10. CASE pc = "mul1"
  <2>1. f \in Polys(p)
    <3>1. 2 * k0 \in 0..top
      BY <1>6
    <3>2. QED
      BY <1>4, <1>5, <1>10, <3>1
  <2>2. n' <= k1 /\ g' = Conjugate(p, k1 - n', f)
    BY <1>4, <1>6, <1>7, <1>10, <2>1
  <2>3. QED
    BY <1>1, <1>2, <1>4, <1>8, <1>10, <2>2 DEF ChainInv
<1>11. QED
  BY <1>3, <1>9, <1>10

LEMMA IterationStep ==
  ASSUME ChainParameters, RingLevels, p \in Levels, a \in Inputs(p),
         i \in 1 .. MaxI-1, p' = p, a' = a, NextIteration, n' = 0,
         NEW N, N = Norms(p, a), NEW top, top = p.R - 2,
         NEW k0, k0 = At(p.exp0_k, i - 1),
         f' = N[2 * k0], t' = N[top % (2 * (2 * k0))]
  PROVE  ChainInv'
<1>1. /\ MaxI \in Nat /\ p.R \in Nat /\ MaxI > 1 /\ MaxI = Len(p.exp0_k)
      /\ top < 2 * p.exp0_k[MaxI]
  BY DEF ChainParameters, TablesRight, MaxI
<1>2. /\ i' = i + 1 /\ i' \in 1..MaxI /\ i' - 1 = i
      /\ pc' = IF i + 1 < MaxI THEN "exp0" ELSE "square"
      /\ MaxI' = MaxI
  BY <1>1 DEF NextIteration, MaxI
<1>3. At(p.exp0_k, i) = 2 * k0 /\ 2 * k0 \in 1..top /\ top \in Nat
  BY TableRow
<1>4. At(p'.exp0_k, i' - 1) = 2 * k0
  BY <1>2, <1>3
<1>5. CASE i + 1 < MaxI
  <2>1. pc' = "exp0" /\ i' < MaxI'
    BY <1>2, <1>5
  <2>2. QED
    BY <1>2, <1>4, <2>1 DEF ChainInv
<1>6. CASE ~(i + 1 < MaxI)
  <2>1. pc' = "square" /\ i + 1 = MaxI
    BY <1>1, <1>2, <1>6
  <2>2. top < 2 * (2 * k0)
    BY <1>1, <1>3, <2>1 DEF At
  <2>3. top % (2 * (2 * k0)) = top
    BY <1>3, <2>2
  <2>4. t' = N[top]
    BY <2>3
  <2>5. QED
    BY <1>2, <2>1, <2>4 DEF ChainInv
<1>7. QED
  BY <1>5, <1>6

LEMMA MultiplyFStep ==
  ASSUME ChainParameters, RingLevels, ChainInv, MultiplyF
  PROVE  ChainInv'
<1>1. PICK N, top, k0, k1 : /\ N = Norms(p, a) /\ top = p.R - 2
                           /\ k0 = At(p.exp0_k, i - 1) /\ k1 = At(p.exp1_k, i)
  OBVIOUS
<1>2. /\ pc = "mul0" /\ n = 0 /\ f' = Times(p, g, f)
      /\ p' = p /\ a' = a /\ g' = g /\ t' = t /\ n' = n
      /\ IF k1 # 0 THEN pc' = "exp1" /\ i' = i ELSE NextIteration
  BY <1>1 DEF MultiplyF
<1>3. /\ p \in Levels /\ a \in Inputs(p) /\ i \in 1..MaxI /\ i < MaxI
      /\ t = N[top % (2 * k0)] /\ f = N[k0] /\ g = Conjugate(p, k0 - n, f)
  BY <1>1, <1>2 DEF ChainInv
<1>4. /\ i \in 1 .. MaxI-1 /\ p.R \in Nat /\ a \in Polys(p)
  BY <1>1, <1>2, ChainFacts
<1>5. /\ k0 \in 1..top /\ 2 * k0 \in 1..top
      /\ k1 = 0 => top % (2 * (2 * k0)) = top % (2 * k0)
  BY <1>1, <1>3, <1>4, TableRow
<1>6. f' = N[2 * k0]
  <2>1. k0 \in Nat /\ k0 + k0 = 2 * k0 /\ k0 + k0 <= p.R - 1 /\ k0 - 0 = k0
    BY <1>1, <1>4, <1>5
  <2>2. N[k0 + k0] = Times(p, Conjugate(p, k0, N[k0]), N[k0])
    BY <1>1, <1>3, <1>4, <2>1, NormsAdd
  <2>3. QED
    BY <1>2, <1>3, <2>1, <2>2
<1>7. CASE k1 # 0
  <2>1. pc' = "exp1" /\ i' = i /\ MaxI' = MaxI
    BY <1>2, <1>7 DEF MaxI
  <2>2. n' = 0 /\ 0 \in Nat
    BY <1>2
  <2>3. QED
    BY <1>1, <1>2, <1>3, <1>6, <1>7, <2>1, <2>2 DEF ChainInv
<1>8. CASE k1 = 0
  <2>1. NextIteration /\ n' = 0 /\ t' = N[top % (2 * (2 * k0))]
    BY <1>2, <1>3, <1>5, <1>8
  <2>2. QED
    BY <1>1, <1>2, <1>3, <1>4, <1>6, <2>1, IterationStep
<1>9. QED
  BY <1>7, <1>8

LEMMA MultiplyTStep ==
  ASSUME ChainParameters, RingLevels, ChainInv, MultiplyT
  PROVE  ChainInv'
<1>1. PICK N, top, k0, k1 : /\ N = Norms(p, a) /\ top = p.R - 2
                           /\ k0 = At(p.exp0_k, i - 1) /\ k1 = At(p.exp1_k, i)
  OBVIOUS
<1>2. /\ pc = "mul1" /\ n = 0 /\ t' = Times(p, g, t)
      /\ p' = p /\ a' = a /\ g' = g /\ f' = f /\ n' = n /\ NextIteration
  BY <1>1 DEF MultiplyT
<1>3. /\ p \in Levels /\ a \in Inputs(p) /\ i \in 1..MaxI /\ i < MaxI
      /\ t = N[top % (2 * k0)] /\ f = N[2 * k0] /\ k1 # 0
      /\ g = Conjugate(p, k1 - n, f)
  BY <1>1, <1>2 DEF ChainInv
<1>4. /\ i \in 1 .. MaxI-1 /\ p.R \in Nat /\ a \in Polys(p)
  BY <1>1, <1>2, ChainFacts
<1>5. /\ 2 * k0 \in 1..top /\ top % (2 * k0) \in 1..top
      /\ k1 = top % (2 * k0) /\ top % (2 * (2 * k0)) = 2 * k0 + k1
  BY <1>1, <1>3, <1>4, TableRow
<1>6. t' = N[top % (2 * (2 * k0))]
  <2>1. PICK d : d = 2 * k0
    OBVIOUS
  <2>2. d \in 1..top /\ k1 \in 1..top /\ d + k1 = top % (2 * (2 * k0))
    BY <1>5, <2>1
  <2>3. top % (2 * (2 * k0)) <= top
    <3>1. top \in Nat /\ 2 * (2 * k0) \in Nat \ {0}
      BY <1>1, <1>4, <2>2, <2>1, TableRow
    <3>2. QED
      BY <3>1
  <2>4. d \in Nat /\ k1 \in Nat /\ d + k1 <= p.R - 1 /\ k1 - 0 = k1
    BY <1>1, <1>4, <2>2, <2>3
  <2>5. N[d + k1] = Times(p, Conjugate(p, k1, N[d]), N[k1])
    BY <1>1, <1>3, <1>4, <2>4, NormsAdd
  <2>6. QED
    BY <1>2, <1>3, <1>5, <2>1, <2>2, <2>4, <2>5
<1>7. f' = N[2 * k0] /\ n' = 0
  BY <1>2, <1>3
<1>8. QED
  BY <1>1, <1>2, <1>3, <1>4, <1>6, <1>7, IterationStep

LEMMA FinalSquareStep ==
  ASSUME ChainParameters, RingLevels, ChainInv, FinalSquare
  PROVE  ChainInv'
<1>1. /\ pc = "square" /\ t' = Square(t) /\ pc' = "done"
      /\ p' = p /\ a' = a /\ f' = f /\ g' = g /\ i' = i /\ n' = n
  BY DEF FinalSquare
<1>2. /\ p \in Levels /\ a \in Inputs(p) /\ i \in 1..MaxI /\ n \in Nat
      /\ t = Norms(p, a)[p.R - 2] /\ n = 0
  BY <1>1 DEF ChainInv
<1>3. MaxI' = MaxI /\ \A x : Square(x)' = Square(x)
  BY <1>1 DEF MaxI, Square
<1>4. t' = Square(Norms(p, a)[p.R - 2])'
  BY <1>1, <1>2 DEF Square
<1>5. QED
  BY <1>1, <1>2, <1>3, <1>4 DEF ChainInv

(* The chain goes from norm to norm, whichever way the squarings are done. *)
THEOREM ChainInductive ==
  ASSUME ChainParameters, RingLevels
  PROVE  Spec => []ChainInv
<1>1. Init => ChainInv
  BY StartsChain
<1>2. ChainInv /\ [Next]_vars => ChainInv'
  <2>1. SUFFICES ASSUME ChainInv, [Next]_vars
                 PROVE  ChainInv'
    OBVIOUS
  <2>2. CASE Next
    BY <2>1, <2>2, Exponentiation0Step, SquareGStep, MultiplyFStep,
       Exponentiation1Step, MultiplyTStep, FinalSquareStep DEF Next
  <2>3. CASE UNCHANGED vars
    BY <2>1, <2>3 DEF vars, ChainInv, MaxI, Square
  <2>4. QED
    BY <2>1, <2>2, <2>3
<1>3. QED
  BY <1>1, <1>2, PTL DEF Spec

(* The result of gf2x_mod_inv is the inverse of its input, for every R and *)
(* tables by the recipe, and every polynomial that has an inverse.         *)
THEOREM InversesFound ==
  ASSUME ChainParameters, RingLevels
  PROVE  Spec => []Inverts
<1>1. ChainInv => Inverts
  <2>1. SUFFICES ASSUME ChainInv, pc = "done"
                 PROVE  Times(p, a, t) = Unit(p)
    BY DEF Inverts
  <2>2. PICK N : N = Norms(p, a)
    OBVIOUS
  <2>3. p \in Levels /\ a \in Inputs(p) /\ t = Square(N[p.R - 2])
    BY <2>1, <2>2 DEF ChainInv
  <2>4. p.R \in Nat /\ p.R > 2 /\ Unit(p) = {0}
    BY <2>3, RingOfLevel
  <2>5. PICK y \in Polys(p) : a \in Polys(p) /\ Times(p, a, y) = {0}
    BY <2>3, <2>4 DEF RingLevels
  <2>6. N[p.R - 1] = {0}
    BY <2>2, <2>3, <2>5, NormIsOne
  <2>7. N[p.R - 1] = Times(p, Conjugate(p, 1, N[p.R - 2]), N[1])
    <3>1. p.R - 2 \in Nat /\ 1 \in Nat /\ (p.R - 2) + 1 = p.R - 1
      BY <2>4
    <3>2. N[(p.R - 2) + 1] = Times(p, Conjugate(p, 1, N[p.R - 2]), N[1])
      BY <2>2, <2>3, <2>4, <2>5, <3>1, NormsAdd
    <3>3. QED
      BY <3>1, <3>2
  <2>8. N[p.R - 2] \in Polys(p) /\ N[1] = a
    <3>1. p.R - 2 \in 0 .. p.R-1
      BY <2>4
    <3>2. QED
      BY <2>2, <2>3, <2>5, <3>1, NormsAre
  <2>9. t = Conjugate(p, 1, N[p.R - 2]) /\ t \in Polys(p)
    <3>1. 1 \in 0 .. p.R-1
      BY <2>4
    <3>2. QED
      BY <2>3, <2>8, <3>1, SmallConjugates, ConjugateType
  <2>10. Times(p, t, a) = Times(p, a, t)
    BY <2>3, <2>5, <2>9, TimesLaws
  <2>11. QED
    BY <2>4, <2>6, <2>7, <2>8, <2>9, <2>10
<1>2. QED
  BY <1>1, ChainInductive, PTL
-----------------------------------------------------------------------------
(***************************************************************************)
(* The maps of the k-squarings.                                            *)
(***************************************************************************)

(* What a word of twice half values makes of a number that fits it, with   *)
(* and without a sign.                                                     *)
LEMMA Fits ==
  ASSUME NEW half \in Nat,
         2^(build.WordBits - 1) = half, 2^build.WordBits = 2 * half
  PROVE  /\ \A x \in 0 .. 2 * half - 1 : KSqrMap!Unsigned(x) = x
         /\ \A x \in -half .. half - 1 : KSqrMap!Signed(x) = x
<1>1. ASSUME NEW x \in Int
      PROVE  KSqrMap!Unsigned(x) = x % (2 * half)
  BY DEF KSqrMap!Unsigned
<1>2. ASSUME NEW x \in 0 .. 2 * half - 1
      PROVE  KSqrMap!Unsigned(x) = x
  <2>1. x \in Int /\ x % (2 * half) = x
    OBVIOUS
  <2>2. QED
    BY <1>1, <2>1
<1>3. ASSUME NEW x \in -half .. half - 1
      PROVE  KSqrMap!Signed(x) = x
  <2>1. KSqrMap!Signed(x) = IF KSqrMap!Unsigned(x) < half
                            THEN KSqrMap!Unsigned(x)
                            ELSE KSqrMap!Unsigned(x) - 2 * half
    BY DEF KSqrMap!Signed
  <2>2. CASE x >= 0
    <3>1. x \in 0 .. 2 * half - 1 /\ x < half
      BY <2>2
    <3>2. QED
      BY <1>2, <2>1, <3>1
  <2>3. CASE x < 0
    <3>1. x % (2 * half) = x + 2 * half
      BY <2>3
    <3>2. QED
      BY <1>1, <2>1, <2>3, <3>1
  <2>4. QED
    BY <2>2, <2>3
<1>4. QED
  BY <1>2, <1>3

(* Both versions add Inc modulo R. *)
LEMMA LaneSteps ==
  ASSUME KSqrMap!BuildsAssumption, build \in Builds, l \in 0 .. build.R - 1,
         NEW v \in 0 .. build.R - 1
  PROVE  /\ KSqrMap!NextAvx2(v) = (v + KSqrMap!Inc) % build.R
         /\ KSqrMap!NextAvx512(v) = (v + KSqrMap!Inc) % build.R
<1>1. PICK half : half = 2^(build.WordBits - 1)
  OBVIOUS
<1>2. PICK r : r = build.R
  OBVIOUS
<1>3. PICK inc : inc = KSqrMap!Inc
  OBVIOUS
<1>4. /\ half \in Nat /\ r <= half /\ 2^build.WordBits = 2 * half
      /\ r \in Nat \ {0} /\ build.NumVals \in Nat
  BY <1>1, <1>2 DEF KSqrMap!BuildsAssumption
<1>5. inc \in 0 .. r - 1
  <2>1. l * build.NumVals \in Int
    BY <1>4
  <2>2. (l * build.NumVals) % r \in 0 .. r - 1
    BY <1>4, <2>1
  <2>3. QED
    BY <1>2, <1>3, <2>2 DEF KSqrMap!Inc, KSqrMap!R
<1>6. /\ \A x \in 0 .. 2 * half - 1 : KSqrMap!Unsigned(x) = x
      /\ \A x \in -half .. half - 1 : KSqrMap!Signed(x) = x
  BY <1>1, <1>4, Fits
<1>7. v \in 0 .. r - 1
  BY <1>2
<1>8. (v + inc) % r = IF v + inc < r THEN v + inc ELSE v + inc - r
  BY <1>4, <1>5, <1>7
<1>9. KSqrMap!NextAvx2(v) = (v + inc) % r
  <2>1. KSqrMap!Signed(inc - r) = inc - r
    BY <1>4, <1>5, <1>6
  <2>2. KSqrMap!Signed(v + (inc - r)) = v + (inc - r)
    BY <1>4, <1>5, <1>6, <1>7
  <2>3. KSqrMap!NextAvx2(v)
          = KSqrMap!Unsigned(IF 0 > v + (inc - r) THEN v + (inc - r) + r ELSE v + (inc - r))
    BY <1>2, <1>3, <2>1, <2>2 DEF KSqrMap!NextAvx2, KSqrMap!R
  <2>4. CASE v + inc < r
    <3>1. KSqrMap!NextAvx2(v) = KSqrMap!Unsigned(v + inc)
      BY <1>4, <1>5, <1>7, <2>3, <2>4
    <3>2. v + inc \in 0 .. 2 * half - 1
      BY <1>4, <1>5, <1>7, <2>4
    <3>3. QED
      BY <1>6, <1>8, <2>4, <3>1, <3>2
  <2>5. CASE ~(v + inc < r)
    <3>1. KSqrMap!NextAvx2(v) = KSqrMap!Unsigned(v + inc - r)
      BY <1>4, <1>5, <1>7, <2>3, <2>5
    <3>2. v + inc - r \in 0 .. 2 * half - 1
      BY <1>4, <1>5, <1>7, <2>5
    <3>3. QED
      BY <1>6, <1>8, <2>5, <3>1, <3>2
  <2>6. QED
    BY <2>4, <2>5
<1>10. KSqrMap!NextAvx512(v) = (v + inc) % r
  <2>1. KSqrMap!Unsigned(v + inc) = v + inc
    BY <1>4, <1>5, <1>6, <1>7
  <2>2. KSqrMap!NextAvx512(v)
          = IF v + inc >= r THEN KSqrMap!Unsigned(v + inc - r) ELSE v + inc
    <3>1. KSqrMap!NextAvx512(v)
            = IF KSqrMap!Unsigned(v + inc) >= r
              THEN KSqrMap!Unsigned(KSqrMap!Unsigned(v + inc) - r)
              ELSE KSqrMap!Unsigned(v + inc)
      BY <1>2, <1>3 DEF KSqrMap!NextAvx512, KSqrMap!R
    <3>2. QED
      BY <1>4, <1>5, <1>7, <2>1, <3>1
  <2>3. v + inc >= r => KSqrMap!Unsigned(v + inc - r) = v + inc - r
    BY <1>4, <1>5, <1>6, <1>7
  <2>4. QED
    BY <1>4, <1>5, <1>7, <1>8, <2>2, <2>3
<1>11. QED
  BY <1>2, <1>3, <1>9, <1>10

MapInv ==
  /\ build \in Builds /\ l \in 0 .. build.R - 1 /\ mapPos \in Nat
  /\ vmap = [k \in KSqrMap!Lanes |-> vmap[k]]
  /\ MapRight

LEMMA MapInit ==
  ASSUME KSqrMap!BuildsAssumption, KSqrMap!Init
  PROVE  MapInv
<1>1. /\ build \in Builds /\ mapPos = 0
      /\ vmap = [k \in KSqrMap!Lanes |-> (k * l) % build.R]
  BY DEF KSqrMap!Init, KSqrMap!R
<1>2. PICK param \in build.Params : l = KSqrMap!Unsigned(param)
  BY DEF KSqrMap!Init
<1>3. PICK half : half = 2^(build.WordBits - 1)
  OBVIOUS
<1>4. /\ half \in Nat /\ build.R <= half /\ 2^build.WordBits = 2 * half
      /\ build.R \in Nat \ {0} /\ build.NumVals \in Nat
      /\ param \in 0 .. build.R - 1
  BY <1>1, <1>3 DEF KSqrMap!BuildsAssumption
<1>5. l = param
  <2>1. \A x \in 0 .. 2 * half - 1 : KSqrMap!Unsigned(x) = x
    BY <1>3, <1>4, Fits
  <2>2. param \in 0 .. 2 * half - 1
    BY <1>4
  <2>3. QED
    BY <1>2, <2>1, <2>2
<1>6. ASSUME NEW k \in KSqrMap!Lanes
      PROVE  vmap[k] = (((mapPos + k) % build.R) * l) % build.R
  <2>1. k \in Int /\ l \in Int
    BY <1>4, <1>5 DEF KSqrMap!Lanes
  <2>2. ((k % build.R) * l) % build.R = (k * l) % build.R
    <3>1. (l * (k % build.R)) % build.R = (l * k) % build.R
      BY <1>4, <2>1, ModTimes
    <3>2. k % build.R \in Int
      BY <1>4, <2>1
    <3>3. QED
      BY <2>1, <3>1, <3>2
  <2>3. mapPos + k = k
    BY <1>1, <2>1
  <2>4. QED
    BY <1>1, <2>2, <2>3
<1>7. QED
  BY <1>1, <1>4, <1>5, <1>6 DEF MapInv, MapRight, KSqrMap!MapRight, KSqrMap!R

LEMMA MapStep ==
  ASSUME KSqrMap!BuildsAssumption, MapInv, [KSqrMap!Next]_mapVars
  PROVE  MapInv'
<1>1. CASE UNCHANGED mapVars
  BY <1>1 DEF MapInv, mapVars, MapRight, KSqrMap!MapRight, KSqrMap!R, KSqrMap!Lanes
<1>2. CASE KSqrMap!Next
  <2>1. /\ build' = build /\ l' = l /\ mapPos' = mapPos + build.NumVals
        /\ vmap' = [k \in KSqrMap!Lanes |->
                      IF build.avx2 THEN KSqrMap!NextAvx2(vmap[k])
                                    ELSE KSqrMap!NextAvx512(vmap[k])]
    BY <1>2 DEF KSqrMap!Next, KSqrMap!NextRegisters
  <2>2. PICK r : r = build.R
    OBVIOUS
  <2>3. PICK nv : nv = build.NumVals
    OBVIOUS
  <2>4. /\ build \in Builds /\ r \in Nat \ {0} /\ nv \in Nat
        /\ l \in 0 .. r - 1 /\ mapPos \in Nat
    BY <2>2, <2>3 DEF MapInv, KSqrMap!BuildsAssumption
  <2>5. ASSUME NEW k \in KSqrMap!Lanes
        PROVE  vmap'[k] = (((mapPos' + k) % r) * l) % r
    <3>1. PICK x : x = mapPos + k
      OBVIOUS
    <3>2. x \in Int /\ x \in Nat /\ mapPos' + k = x + nv
      BY <2>1, <2>3, <2>4, <3>1 DEF KSqrMap!Lanes
    <3>3. vmap[k] = ((x % r) * l) % r
      BY <2>2, <3>1 DEF MapInv, MapRight, KSqrMap!MapRight, KSqrMap!R
    <3>4. \A y \in Int : ((y % r) * l) % r = (y * l) % r
      <4>1. SUFFICES ASSUME NEW y \in Int
                     PROVE  ((y % r) * l) % r = (y * l) % r
        OBVIOUS
      <4>2. y % r \in Int /\ l \in Int
        BY <2>4
      <4>3. (l * (y % r)) % r = (l * y) % r
        BY <2>4, <4>2, ModTimes
      <4>4. QED
        BY <4>2, <4>3
    <3>5. vmap[k] = (x * l) % r /\ vmap[k] \in 0 .. r - 1
      <4>1. x * l \in Int
        BY <2>4, <3>2
      <4>2. (x * l) % r \in 0 .. r - 1
        BY <2>4, <4>1
      <4>3. QED
        BY <3>2, <3>3, <3>4, <4>2
    <3>6. vmap'[k] = (vmap[k] + KSqrMap!Inc) % r
      <4>1. /\ KSqrMap!NextAvx2(vmap[k]) = (vmap[k] + KSqrMap!Inc) % r
            /\ KSqrMap!NextAvx512(vmap[k]) = (vmap[k] + KSqrMap!Inc) % r
        BY <2>2, <2>4, <3>5, LaneSteps
      <4>2. QED
        BY <2>1, <4>1
    <3>7. vmap'[k] = (((x * l) % r) + ((l * nv) % r)) % r
      BY <2>2, <2>3, <3>5, <3>6 DEF KSqrMap!Inc, KSqrMap!R
    <3>8. vmap'[k] = ((x * l) + (l * nv)) % r
      <4>1. x * l \in Int /\ l * nv \in Int
        BY <2>4, <3>2
      <4>2. QED
        BY <2>4, <3>7, <4>1, ModPlus
    <3>9. (x * l) + (l * nv) = (x + nv) * l /\ x + nv \in Int
      BY <2>4, <3>2
    <3>10. QED
      BY <3>2, <3>4, <3>8, <3>9
  <2>6. KSqrMap!Lanes' = KSqrMap!Lanes /\ KSqrMap!R' = r
    BY <2>1, <2>2 DEF KSqrMap!Lanes, KSqrMap!R
  <2>7. MapRight'
    BY <2>1, <2>5, <2>6 DEF MapRight, KSqrMap!MapRight
  <2>8. mapPos' \in Nat /\ vmap' = [k \in KSqrMap!Lanes' |-> vmap'[k]]
    BY <2>1, <2>3, <2>4, <2>6
  <2>9. QED
    BY <2>1, <2>2, <2>4, <2>7, <2>8 DEF MapInv
<1>3. QED
  BY <1>1, <1>2

(* Every value generate_map leaves is the right one. *)
THEOREM MapsRight ==
  ASSUME KSqrMap!BuildsAssumption
  PROVE  KSqrMap!Spec => []MapRight
<1>1. KSqrMap!Init => MapInv
  BY MapInit
<1>2. MapInv /\ [KSqrMap!Next]_mapVars => MapInv'
  BY MapStep
<1>3. MapInv => MapRight
  BY DEF MapInv
<1>4. mapVars = KSqrMap!vars
  BY DEF mapVars, KSqrMap!vars
<1>5. QED
  BY <1>1, <1>2, <1>3, <1>4, PTL DEF KSqrMap!Spec, mapVars, KSqrMap!vars
-----------------------------------------------------------------------------
(***************************************************************************)
(* How the maps are applied.                                               *)
(***************************************************************************)

(* With AVX2, byte y comes from byte z of a double word shifted by         *)
(* offset, so that bit y of it is the top bit there, or the one below.     *)
LEMMA Shuffled ==
  ASSUME NEW y \in 0..31, NEW z, NEW offset,
         z = 16 * (y \div 16) + Bytes!shuffle_mask[y],
         offset = Bytes!shift_mask[z \div 4]
  PROVE  /\ z \in 0..31 /\ offset \in 0..6
         /\ 8 * (z % 4) + 6 - offset = y - (y % 2)
<1>1. \A d \in 0..7 : Bytes!shift_mask[d] = 6 - 2 * (d % 4)
  BY DEF Bytes!shift_mask
<1>2. \A j \in 0..31 : Bytes!shuffle_mask[j] = 4 * ((j % 8) \div 2) + j \div 8
  BY DEF Bytes!shuffle_mask, Bytes!Ymm
<1>3. z = 16 * (y \div 16) + (4 * ((y % 8) \div 2) + y \div 8)
  BY <1>2
<1>4. z \in 0..31 /\ z % 4 = y \div 8 /\ (z \div 4) \in 0..7
      /\ (z \div 4) % 4 = (y % 8) \div 2
  BY <1>3
<1>5. offset = 6 - 2 * ((y % 8) \div 2)
  BY <1>1, <1>4
<1>6. (y % 8) \div 2 \in 0..3 /\ 8 * (y \div 8) + 2 * ((y % 8) \div 2) = y - (y % 2)
  OBVIOUS
<1>7. PICK half : half = (y % 8) \div 2
  OBVIOUS
<1>8. QED
  BY ONLY <1>4, <1>5, <1>6, <1>7, y \in 0..31

(* A shift by offset of the double words that hold w. *)
LEMMA ShiftedOnce ==
  ASSUME NEW w, NEW z \in 0..31, NEW offset \in 0..7, NEW b \in 0..7
  PROVE  LET from == 8 * (z % 4) + b - offset
         IN  b \in Bytes!Shl32(Bytes!SET1_I32(w), offset)[z] <=> from >= 0 /\ from \in w
<1>1. PICK from : from = 8 * (z % 4) + b - offset
  OBVIOUS
<1>2. PICK x : x = Bytes!SET1_I32(w)
  OBVIOUS
<1>3. b \in Bytes!Shl32(x, offset)[z]
        <=> from >= 0 /\ (from % 8) \in x[z - (z % 4) + (from \div 8)]
  BY <1>1 DEF Bytes!Shl32, Bytes!Ymm, Bytes!Byte
<1>4. CASE from >= 0
  <2>1. PICK y : y = z - (z % 4) + (from \div 8)
    OBVIOUS
  <2>2. from \in 0..31 /\ y \in 0..31 /\ y % 4 = from \div 8 /\ from % 8 \in 0..7
        /\ 8 * (y % 4) + (from % 8) = from
    <3>1. PICK m : m = z % 4
      OBVIOUS
    <3>2. m \in 0..3 /\ z - m \in 0..28 /\ (z - m) % 4 = 0
      BY <3>1
    <3>3. from \in 0..31 /\ from = 8 * (from \div 8) + (from % 8)
          /\ from \div 8 \in 0..3 /\ from % 8 \in 0..7
      <4>1. from = 8 * m + b - offset
        BY <1>1, <3>1
      <4>2. from \in 0..31
        BY <1>4, <3>2, <4>1
      <4>3. QED
        BY <4>2
    <3>4. y = (z - m) + (from \div 8)
      BY <2>1, <3>1
    <3>5. y \in 0..31 /\ y % 4 = from \div 8
      BY <3>2, <3>3, <3>4
    <3>6. QED
      BY <3>3, <3>5
  <2>3. (from % 8) \in x[y] <=> 8 * (y % 4) + (from % 8) \in w
    BY <1>2, <2>2 DEF Bytes!SET1_I32, Bytes!Ymm, Bytes!Byte
  <2>4. QED
    BY <1>1, <1>2, <1>3, <1>4, <2>1, <2>2, <2>3
<1>5. QED
  BY <1>1, <1>2, <1>3, <1>4

(* The top bit of byte y that SpreadAvx2 makes is bit y. *)
LEMMA SpreadsAvx2 ==
  ASSUME NEW w, NEW y \in 0..31
  PROVE  7 \in Bytes!SpreadAvx2(w)[y] <=> y \in w
<1>1. PICK q : q = Bytes!SHUF_I8(Bytes!SLLV_I32(Bytes!SET1_I32(w)))
  OBVIOUS
<1>2. ASSUME NEW x \in 0..31, NEW b \in 6..7
      PROVE  b \in q[x] <=> (x - (x % 2)) + (b - 6) \in w
  <2>1. PICK z : z = 16 * (x \div 16) + Bytes!shuffle_mask[x]
    OBVIOUS
  <2>2. PICK offset : offset = Bytes!shift_mask[z \div 4]
    OBVIOUS
  <2>3. z \in 0..31 /\ offset \in 0..6 /\ 8 * (z % 4) + 6 - offset = x - (x % 2)
    BY <2>1, <2>2, Shuffled
  <2>4. q[x] = Bytes!SLLV_I32(Bytes!SET1_I32(w))[z]
    BY <1>1, <2>1 DEF Bytes!SHUF_I8, Bytes!Ymm
  <2>5. q[x] = Bytes!Shl32(Bytes!SET1_I32(w), offset)[z]
    BY <2>2, <2>3, <2>4 DEF Bytes!SLLV_I32, Bytes!Ymm
  <2>6. PICK from : from = 8 * (z % 4) + b - offset
    OBVIOUS
  <2>7. from = (x - (x % 2)) + (b - 6) /\ from >= 0 /\ offset \in 0..7 /\ b \in 0..7
    BY <2>3, <2>6
  <2>8. b \in Bytes!Shl32(Bytes!SET1_I32(w), offset)[z] <=> from >= 0 /\ from \in w
    BY <2>3, <2>6, <2>7, ShiftedOnce
  <2>9. QED
    BY <2>5, <2>7, <2>8
<1>3. Bytes!SpreadAvx2(w)[y] = IF y % 2 = 0 THEN Bytes!Shl32(q, 1)[y] ELSE q[y]
  BY <1>1 DEF Bytes!SpreadAvx2, Bytes!Blended, Bytes!Ymm
<1>4. CASE y % 2 = 1
  <2>1. 7 \in q[y] <=> (y - (y % 2)) + (7 - 6) \in w
    BY <1>2
  <2>2. (y - (y % 2)) + (7 - 6) = y
    BY <1>4
  <2>3. QED
    BY <1>3, <1>4, <2>1, <2>2
<1>5. CASE y % 2 = 0
  <2>1. 7 \in Bytes!Shl32(q, 1)[y]
          <=> 8 * (y % 4) + 7 - 1 >= 0
                /\ ((8 * (y % 4) + 7 - 1) % 8) \in q[y - (y % 4) + ((8 * (y % 4) + 7 - 1) \div 8)]
    BY DEF Bytes!Shl32, Bytes!Ymm, Bytes!Byte
  <2>2. /\ 8 * (y % 4) + 7 - 1 >= 0 /\ (8 * (y % 4) + 7 - 1) % 8 = 6
        /\ y - (y % 4) + ((8 * (y % 4) + 7 - 1) \div 8) = y
    OBVIOUS
  <2>3. 6 \in q[y] <=> (y - (y % 2)) + (6 - 6) \in w
    BY <1>2
  <2>4. (y - (y % 2)) + (6 - 6) = y
    BY <1>5
  <2>5. QED
    BY <1>3, <1>5, <2>1, <2>2, <2>3, <2>4
<1>6. QED
  BY <1>4, <1>5

LEMMA SpreadIsSet ==
  ASSUME NEW j \in Nat
  PROVE  Bytes!IsSet(Bytes!SpreadByte(j)) <=> j \in bytesA
<1>1. CASE bytesAvx2
  <2>1. PICK w : w = {b \in 0..31 : 32 * (j \div 32) + b \in bytesA}
    OBVIOUS
  <2>2. PICK y : y = j % 32
    OBVIOUS
  <2>3. y \in 0..31 /\ 32 * (j \div 32) + y = j
    BY <2>2
  <2>4. Bytes!SpreadByte(j) = Bytes!SpreadAvx2(w)[y]
    BY <1>1, <2>1, <2>2 DEF Bytes!SpreadByte, Bytes!Ymm
  <2>5. 7 \in Bytes!SpreadAvx2(w)[y] <=> y \in w
    BY <2>3, SpreadsAvx2
  <2>6. y \in w <=> j \in bytesA
    BY <2>1, <2>3
  <2>7. QED
    BY <1>1, <2>4, <2>5, <2>6 DEF Bytes!IsSet
<1>2. CASE ~bytesAvx2
  BY <1>2 DEF Bytes!IsSet, Bytes!SpreadByte
<1>3. QED
  BY <1>1, <1>2

(* The permutation takes a to its k-squaring. *)
LEMMA PermutesRight ==
  ASSUME Bytes!BytesAssumption, bytesA \in Operands, bytesK \in Ks
  PROVE  /\ \A j \in 0 .. BytesR - 1 : Bytes!Map(j) \in 0 .. BytesR - 1
         /\ {j \in 0 .. BytesR - 1 : Bytes!Map(j) \in bytesA}
              = {(j * 2^bytesK) % BytesR : j \in bytesA}
<1>1. PICK r : r = BytesR
  OBVIOUS
<1>2. PICK c : c = 2^bytesK
  OBVIOUS
<1>3. PICK lp : lp = Bytes!LParam
  OBVIOUS
<1>4. r \in Nat \ {0} /\ c \in Nat /\ bytesA \subseteq 0 .. r - 1
  BY <1>1, <1>2 DEF Bytes!BytesAssumption
<1>5. lp \in 0 .. r - 1 /\ (lp * c) % r = 1
  <2>1. \E l0 \in 0 .. r - 1 : (l0 * c) % r = 1
    BY <1>1, <1>2 DEF Bytes!BytesAssumption
  <2>2. lp = CHOOSE l0 \in 0 .. r - 1 : (l0 * c) % r = 1
    BY <1>1, <1>2, <1>3 DEF Bytes!LParam
  <2>3. QED
    BY <2>1, <2>2
<1>6. \A j \in Int : Bytes!Map(j) = (j * lp) % r
  BY <1>1, <1>3 DEF Bytes!Map
<1>7. ASSUME NEW x \in 0 .. r - 1, NEW u \in Nat, NEW v \in Nat, (u * v) % r = 1
      PROVE  (((x * u) % r) * v) % r = x
  <2>1. PICK xu : xu = x * u
    OBVIOUS
  <2>2. PICK uv : uv = u * v
    OBVIOUS
  <2>3. /\ xu \in Int /\ uv \in Int /\ x \in Int /\ v \in Int
        /\ x * uv = v * xu
    BY <1>4, <2>1, <2>2
  <2>4. (v * (xu % r)) % r = (v * xu) % r
    BY <1>4, <2>3, ModTimes
  <2>5. (x * (uv % r)) % r = (x * uv) % r
    BY <1>4, <2>3, ModTimes
  <2>6. uv % r = 1 /\ (x * 1) % r = x
    BY <1>4, <1>7, <2>2
  <2>7. xu % r \in Int
    BY <1>4, <2>3
  <2>8. v * (xu % r) = (xu % r) * v
    BY <2>3, <2>7
  <2>9. QED
    BY <2>1, <2>3, <2>4, <2>5, <2>6, <2>8
<1>8. ASSUME NEW j \in 0 .. r - 1
      PROVE  (j * lp) % r \in 0 .. r - 1 /\ (((j * lp) % r) * c) % r = j
  <2>1. j * lp \in Int /\ lp \in Nat
    BY <1>5
  <2>2. (j * lp) % r \in 0 .. r - 1
    BY <1>4, <2>1
  <2>3. QED
    BY <1>4, <1>5, <1>7, <2>1, <2>2
<1>9. ASSUME NEW j \in 0 .. r - 1
      PROVE  (j * c) % r \in 0 .. r - 1 /\ (((j * c) % r) * lp) % r = j
  <2>1. j * c \in Int /\ lp \in Nat /\ (c * lp) % r = 1
    BY <1>4, <1>5
  <2>2. (j * c) % r \in 0 .. r - 1
    BY <1>4, <2>1
  <2>3. QED
    BY <1>4, <1>7, <2>1, <2>2
<1>10. {j \in 0 .. r - 1 : (j * lp) % r \in bytesA} = {(j * c) % r : j \in bytesA}
  <2>1. ASSUME NEW j \in 0 .. r - 1, (j * lp) % r \in bytesA
        PROVE  j \in {(x * c) % r : x \in bytesA}
    BY <1>8, <2>1
  <2>2. ASSUME NEW j \in bytesA
        PROVE  (j * c) % r \in {x \in 0 .. r - 1 : (x * lp) % r \in bytesA}
    BY <1>4, <1>9
  <2>3. QED
    BY <2>1, <2>2
<1>11. QED
  BY <1>1, <1>2, <1>6, <1>8, <1>10

(* What a byte says of a at each stage. *)
BytesInv ==
  /\ bytesA \in Operands /\ bytesK \in Ks
  /\ bytesPc \in {"spread", "permute"} =>
       bytesC = 0 .. BytesR - 1 /\ c_bytes = [j \in Bytes!Places |-> {}]
  /\ bytesPc = "permute" =>
       \A j \in Bytes!Written : Bytes!IsSet(a_bytes[j]) <=> j \in bytesA
  /\ bytesPc = "gather" =>
       /\ bytesC = 0 .. BytesR - 1
       /\ \A j \in Bytes!Places :
            Bytes!IsSet(c_bytes[j]) <=> j < BytesR /\ Bytes!Map(j) \in bytesA
  /\ KSquared

LEMMA BytesStep ==
  ASSUME Bytes!BytesAssumption, BytesInv, [Bytes!Next]_bytesVars
  PROVE  BytesInv'
<1>0. /\ bytesA \in Operands /\ bytesK \in Ks
      /\ {BytesR, RQwords, RPadded} \subseteq Nat \ {0}
      /\ BytesR <= 64 * RQwords /\ 64 * RQwords <= RPadded
  BY DEF BytesInv, Bytes!BytesAssumption
<1>1. CASE UNCHANGED bytesVars
  BY <1>1 DEF BytesInv, bytesVars, KSquared, Bytes!KSquared, Bytes!IsSet, Bytes!Map,
              Bytes!LParam
<1>2. CASE Bytes!BinToBytes
  <2>1. /\ bytesPc = "spread" /\ bytesPc' = "permute"
        /\ UNCHANGED <<bytesAvx2, bytesK, bytesA, bytesC, c_bytes>>
        /\ \A j \in Bytes!Places : a_bytes'[j] =
             IF j \in Bytes!Written THEN Bytes!SpreadByte(j) ELSE a_bytes[j]
    BY <1>2 DEF Bytes!BinToBytes
  <2>2. ASSUME NEW j \in Bytes!Written
        PROVE  Bytes!IsSet(a_bytes'[j]) <=> j \in bytesA
    <3>1. j \in Bytes!Places /\ j \in Nat
      BY <1>0 DEF Bytes!Written, Bytes!Places
    <3>2. a_bytes'[j] = Bytes!SpreadByte(j)
      BY <2>1, <3>1
    <3>3. QED
      BY <3>1, <3>2, SpreadIsSet
  <2>3. \A j \in Bytes!Written : (Bytes!IsSet(a_bytes[j]))' <=> j \in bytesA'
    BY <2>1, <2>2 DEF Bytes!IsSet
  <2>4. QED
    BY <2>1, <2>3 DEF BytesInv, KSquared, Bytes!KSquared
<1>3. CASE Bytes!Permute
  <2>1. /\ bytesPc = "permute" /\ bytesPc' = "gather"
        /\ UNCHANGED <<bytesAvx2, bytesK, bytesA, bytesC, a_bytes>>
        /\ \A j \in Bytes!Places : c_bytes'[j] =
             IF j < BytesR THEN a_bytes[Bytes!Map(j)] ELSE c_bytes[j]
    BY <1>3 DEF Bytes!Permute
  <2>2. ASSUME NEW j \in Bytes!Places
        PROVE  Bytes!IsSet(c_bytes'[j]) <=> j < BytesR /\ Bytes!Map(j) \in bytesA
    <3>1. CASE j < BytesR
      <4>1. j \in 0 .. BytesR - 1
        BY <1>0, <3>1 DEF Bytes!Places
      <4>2. Bytes!Map(j) \in 0 .. BytesR - 1
        BY <1>0, <4>1, PermutesRight
      <4>3. Bytes!Map(j) \in Bytes!Written
        BY <1>0, <4>2 DEF Bytes!Written
      <4>4. c_bytes'[j] = a_bytes[Bytes!Map(j)]
        BY <2>1, <3>1
      <4>5. QED
        BY <2>1, <3>1, <4>3, <4>4 DEF BytesInv
    <3>2. CASE ~(j < BytesR)
      <4>1. c_bytes'[j] = {}
        BY <2>1, <3>2 DEF BytesInv
      <4>2. ~Bytes!IsSet({})
        BY DEF Bytes!IsSet
      <4>3. QED
        BY <3>2, <4>1, <4>2
    <3>3. QED
      BY <3>1, <3>2
  <2>3. \A j \in Bytes!Places :
          (Bytes!IsSet(c_bytes[j]))' <=> j < BytesR /\ (Bytes!Map(j))' \in bytesA'
    BY <2>1, <2>2 DEF Bytes!IsSet, Bytes!Map, Bytes!LParam
  <2>4. bytesC' = 0 .. BytesR - 1
    BY <2>1 DEF BytesInv
  <2>5. QED
    BY <1>0, <2>1, <2>3, <2>4 DEF BytesInv, KSquared, Bytes!KSquared
<1>4. CASE Bytes!BytesToBin
  <2>1. /\ bytesPc = "gather" /\ bytesPc' = "done"
        /\ UNCHANGED <<bytesAvx2, bytesK, bytesA, a_bytes, c_bytes>>
        /\ bytesC' = (bytesC \ Bytes!Written)
                       \cup {j \in Bytes!Written : Bytes!IsSet(c_bytes[j])}
    BY <1>4 DEF Bytes!BytesToBin
  <2>2. bytesC \ Bytes!Written = {}
    BY <1>0, <2>1 DEF BytesInv, Bytes!Written
  <2>3. {j \in Bytes!Written : Bytes!IsSet(c_bytes[j])}
          = {j \in 0 .. BytesR - 1 : Bytes!Map(j) \in bytesA}
    <3>1. Bytes!Written \subseteq Bytes!Places /\ 0 .. BytesR - 1 \subseteq Bytes!Written
      BY <1>0 DEF Bytes!Written, Bytes!Places
    <3>2. \A j \in Bytes!Written : j \in 0 .. BytesR - 1 <=> j < BytesR
      BY <1>0 DEF Bytes!Written
    <3>3. QED
      BY <2>1, <3>1, <3>2 DEF BytesInv
  <2>4. bytesC' = {(j * 2^bytesK) % BytesR : j \in bytesA}
    BY <1>0, <2>1, <2>2, <2>3, PermutesRight
  <2>5. KSquared'
    BY <2>1, <2>4 DEF KSquared, Bytes!KSquared
  <2>6. QED
    BY <1>0, <2>1, <2>5 DEF BytesInv
<1>5. QED
  BY <1>1, <1>2, <1>3, <1>4 DEF Bytes!Next

(* What the map is applied to becomes its k-squaring. *)
THEOREM KSquarings ==
  ASSUME Bytes!BytesAssumption
  PROVE  Bytes!Spec => []KSquared
<1>1. Bytes!Init => BytesInv
  BY DEF Bytes!Init, BytesInv, KSquared, Bytes!KSquared
<1>2. BytesInv /\ [Bytes!Next]_bytesVars => BytesInv'
  BY BytesStep
<1>3. BytesInv => KSquared
  BY DEF BytesInv
<1>4. QED
  BY <1>1, <1>2, <1>3, PTL DEF Bytes!Spec, bytesVars, Bytes!vars
=============================================================================
