--------------------------- MODULE Multiply_proof ---------------------------
(***************************************************************************)
(* Proofs about MCMultiply and CpuDispatch.                                *)
(*                                                                         *)
(* The product of two polynomials is the product modulo x^R - 1, for every *)
(* R, padded length, base length, register and width of a quad-word that   *)
(* KaratsubaAssumption allows, and its calls stay inside their buffers.    *)
(* The proof goes from the ring of polynomials over F2 (the product is     *)
(* commutative, linear, and shifts with its factors) to their place in     *)
(* memory, then to the identity of Karatsuba on halves and quarters, to    *)
(* the nesting of the calls (StackInv), to what each of them has found,    *)
(* saved and left (KaratsubaInv), and to the folding at x^R.               *)
(*                                                                         *)
(* The portable product of two words holds at every turn the product with  *)
(* the bits of b0 gone through, in either order of windows and top bits    *)
(* (WordInv).                                                              *)
(*                                                                         *)
(* The products by vectors are the same identity on the lanes of           *)
(* registers, three times (two lanes, four, eight) or twice, once it is    *)
(* known which lane each permutation brings where; squares are the         *)
(* doubled exponents (VecInv).                                             *)
(*                                                                         *)
(* Which version multiplies is CpuDispatch's choice.                       *)
(***************************************************************************)
EXTENDS MCMultiply, CpuDispatch, FiniteSetTheorems, SequenceTheorems,
        WellFoundedInduction, TLAPS

(***************************************************************************)
(* Polynomials over F2 as finite sets of exponents.                        *)
(***************************************************************************)

(* A set with an odd number of elements. *)
Odd(S) == Cardinality(S) % 2 = 1

(* The terms of x that have a partner in y to make up exponent k. *)
Pairs(x, y, k) == {i \in x : k - i \in y}

(* x multiplied by the monomial of exponent n. *)
Shift(x, n) == {i + n : i \in x}

Polys == {x \in SUBSET Nat : IsFiniteSet(x)}

(* The parity of a sum is the sum of the parities. *)
LEMMA OddSymDiff ==
  ASSUME NEW S, NEW U, IsFiniteSet(S), IsFiniteSet(U)
  PROVE  /\ IsFiniteSet(SymDiff(S, U))
         /\ Odd(SymDiff(S, U)) <=> ~(Odd(S) <=> Odd(U))
<1> DEFINE A == S \ U
           B == U \ S
           C == S \cap U
<1>1. /\ IsFiniteSet(A) /\ IsFiniteSet(B) /\ IsFiniteSet(C)
  BY FS_Subset
<1>2. /\ Cardinality(A) \in Nat /\ Cardinality(B) \in Nat
      /\ Cardinality(C) \in Nat
  BY <1>1, FS_CardinalityType
<1>3. /\ A \cup C = S /\ B \cup C = U /\ A \cup B = SymDiff(S, U)
      /\ A \cap C = {} /\ B \cap C = {} /\ A \cap B = {}
  BY DEF SymDiff
<1> HIDE DEF A, B, C
<1>4. /\ IsFiniteSet(SymDiff(S, U))
      /\ Cardinality(SymDiff(S, U)) = Cardinality(A) + Cardinality(B)
  <2>1. /\ IsFiniteSet(A \cup B)
        /\ Cardinality(A \cup B)
             = Cardinality(A) + Cardinality(B) - Cardinality(A \cap B)
    BY <1>1, FS_Union
  <2>2. Cardinality(A \cap B) = 0
    BY <1>3, FS_EmptySet, Zenon
  <2>3. Cardinality(A \cup B) = Cardinality(A) + Cardinality(B)
    BY <1>2, <2>1, <2>2
  <2>4. A \cup B = SymDiff(S, U)
    BY <1>3
  <2>5. QED
    BY <2>1, <2>3, <2>4, Zenon
<1>5. /\ Cardinality(S) = Cardinality(A) + Cardinality(C)
      /\ Cardinality(U) = Cardinality(B) + Cardinality(C)
  <2>1. /\ Cardinality(A \cup C)
             = Cardinality(A) + Cardinality(C) - Cardinality(A \cap C)
        /\ Cardinality(B \cup C)
             = Cardinality(B) + Cardinality(C) - Cardinality(B \cap C)
    BY <1>1, FS_Union
  <2>2. Cardinality(A \cap C) = 0 /\ Cardinality(B \cap C) = 0
    BY <1>3, FS_EmptySet, Zenon
  <2>3. /\ Cardinality(A \cup C) = Cardinality(A) + Cardinality(C)
        /\ Cardinality(B \cup C) = Cardinality(B) + Cardinality(C)
    BY <1>2, <2>1, <2>2
  <2>4. A \cup C = S /\ B \cup C = U
    BY <1>3
  <2>5. QED
    BY <2>3, <2>4, Zenon
<1>6. QED
  BY <1>2, <1>4, <1>5 DEF Odd

(* A bijection keeps the parity. *)
LEMMA OddBijection ==
  ASSUME NEW S, NEW U, IsFiniteSet(S), NEW f \in [S -> U],
         \A x, y \in S : f[x] = f[y] => x = y,
         \A y \in U : \E x \in S : f[x] = y
  PROVE  Odd(S) <=> Odd(U)
<1>1. f \in Bijection(S, U)
  BY DEF Bijection, Injection, IsInjective, Surjection
<1>2. Cardinality(S) = Cardinality(U)
  BY <1>1, FS_Bijection DEF ExistsBijection
<1>3. QED
  BY <1>2 DEF Odd

(* What Product is of each exponent. *)
LEMMA InProduct ==
  ASSUME NEW x \in Polys, NEW y \in Polys
  PROVE  /\ Product(x, y) \in SUBSET Nat
         /\ \A k \in Int : /\ IsFiniteSet(Pairs(x, y, k))
                           /\ k \in Product(x, y) <=> Odd(Pairs(x, y, k))
<1>1. Product(x, y) \in SUBSET Nat
  BY DEF Product, Polys
<1>2. ASSUME NEW k \in Int
      PROVE  /\ IsFiniteSet(Pairs(x, y, k))
             /\ k \in Product(x, y) <=> Odd(Pairs(x, y, k))
  <2>1. IsFiniteSet(Pairs(x, y, k))
    BY FS_Subset DEF Pairs, Polys
  <2>2. ASSUME Odd(Pairs(x, y, k))
        PROVE  k \in {i + j : i \in x, j \in y}
    <3>1. Pairs(x, y, k) # {}
      BY <2>2, FS_EmptySet DEF Odd
    <3>2. PICK i \in x : k - i \in y
      BY <3>1 DEF Pairs
    <3>3. i \in Int /\ k = i + (k - i)
      BY DEF Polys
    <3>4. QED
      BY <3>2, <3>3
  <2>3. QED
    BY <2>1, <2>2 DEF Product, Odd, Pairs
<1>3. QED
  BY <1>1, <1>2

(* Polynomials below a bound, and their sums and shifts. *)
LEMMA BoundedPolys ==
  ASSUME NEW n \in Nat, NEW x \in SUBSET (0..n-1)
  PROVE  x \in Polys
<1>1. IsFiniteSet(0..n-1)
  BY FS_Interval
<1>2. IsFiniteSet(x)
  BY <1>1, FS_Subset
<1>3. QED
  BY <1>2 DEF Polys

(* A sum of two polynomials is a polynomial. *)
LEMMA SumPolys ==
  ASSUME NEW x \in Polys, NEW y \in Polys
  PROVE  SymDiff(x, y) \in Polys
<1>1. IsFiniteSet(SymDiff(x, y))
  BY OddSymDiff DEF Polys
<1>2. QED
  BY <1>1 DEF Polys, SymDiff

(* A shifted polynomial is a polynomial. *)
LEMMA ShiftPolys ==
  ASSUME NEW x \in Polys, NEW n \in Nat
  PROVE  Shift(x, n) \in Polys
<1>1. IsFiniteSet(Shift(x, n))
  <2> DEFINE f == [i \in x |-> i + n]
  <2>1. f \in Surjection(x, Shift(x, n))
    BY DEF Surjection, Shift
  <2>2. QED
    BY <2>1, FS_Surjection DEF Polys
<1>2. QED
  BY <1>1 DEF Polys, Shift

(* Multiplication is commutative, linear, and goes with shifts. *)
LEMMA ProductCommutes ==
  ASSUME NEW x \in Polys, NEW y \in Polys
  PROVE  Product(x, y) = Product(y, x)
<1>1. ASSUME NEW k \in Nat
      PROVE  Odd(Pairs(x, y, k)) <=> Odd(Pairs(y, x, k))
  <2> DEFINE f == [i \in Pairs(x, y, k) |-> k - i]
  <2>1. \A i \in Pairs(x, y, k) : k - i \in Pairs(y, x, k) /\ i \in Int
    BY DEF Pairs, Polys
  <2>2. \A j \in Pairs(y, x, k) :
          k - j \in Pairs(x, y, k) /\ j \in Int /\ k - (k - j) = j
    BY DEF Pairs, Polys
  <2>3. f \in [Pairs(x, y, k) -> Pairs(y, x, k)]
    BY <2>1
  <2>4. \A i, j \in Pairs(x, y, k) : f[i] = f[j] => i = j
    BY <2>1
  <2>5. \A j \in Pairs(y, x, k) : f[k - j] = j
    BY <2>2
  <2>6. IsFiniteSet(Pairs(x, y, k))
    BY InProduct
  <2> HIDE DEF f
  <2>7. \A j \in Pairs(y, x, k) : \E i \in Pairs(x, y, k) : f[i] = j
    BY <2>2, <2>5
  <2>8. QED
    BY <2>3, <2>4, <2>6, <2>7, OddBijection
<1>2. \A k \in Nat : k \in Product(x, y) <=> k \in Product(y, x)
  BY <1>1, InProduct
<1>3. QED
  BY <1>2, InProduct

(* The product distributes over sums, on either side. *)
LEMMA ProductAdds ==
  ASSUME NEW x \in Polys, NEW y \in Polys, NEW z \in Polys
  PROVE  /\ Product(SymDiff(x, y), z) = SymDiff(Product(x, z), Product(y, z))
         /\ Product(z, SymDiff(x, y)) = SymDiff(Product(z, x), Product(z, y))
<1>1. SymDiff(x, y) \in Polys
  BY SumPolys
<1>2. ASSUME NEW k \in Nat
      PROVE  k \in Product(SymDiff(x, y), z)
               <=> ~(k \in Product(x, z) <=> k \in Product(y, z))
  <2>1. Pairs(SymDiff(x, y), z, k) = SymDiff(Pairs(x, z, k), Pairs(y, z, k))
    BY DEF Pairs, SymDiff
  <2>2. /\ IsFiniteSet(Pairs(x, z, k)) /\ IsFiniteSet(Pairs(y, z, k))
        /\ k \in Product(x, z) <=> Odd(Pairs(x, z, k))
        /\ k \in Product(y, z) <=> Odd(Pairs(y, z, k))
        /\ k \in Product(SymDiff(x, y), z) <=> Odd(Pairs(SymDiff(x, y), z, k))
    BY <1>1, InProduct
  <2>3. Odd(Pairs(SymDiff(x, y), z, k))
          <=> ~(Odd(Pairs(x, z, k)) <=> Odd(Pairs(y, z, k)))
    BY <2>1, <2>2, OddSymDiff
  <2>4. QED
    BY <2>2, <2>3, Zenon
<1>3. Product(SymDiff(x, y), z) = SymDiff(Product(x, z), Product(y, z))
  <2>1. /\ Product(SymDiff(x, y), z) \in SUBSET Nat
        /\ Product(x, z) \in SUBSET Nat /\ Product(y, z) \in SUBSET Nat
    BY <1>1, InProduct
  <2>2. QED
    BY <1>2, <2>1 DEF SymDiff
<1>4. QED
  BY <1>1, <1>3, ProductCommutes

(* Shifting a factor shifts the product. *)
LEMMA ProductShifts ==
  ASSUME NEW x \in Polys, NEW y \in Polys, NEW n \in Nat
  PROVE  /\ Product(Shift(x, n), y) = Shift(Product(x, y), n)
         /\ Product(y, Shift(x, n)) = Shift(Product(y, x), n)
<1>1. Shift(x, n) \in Polys
  BY ShiftPolys
<1>2. ASSUME NEW k \in Nat
      PROVE  k \in Product(Shift(x, n), y) <=> k - n \in Product(x, y)
  <2> DEFINE f == [i \in Pairs(x, y, k - n) |-> i + n]
  <2>1. \A i \in Pairs(x, y, k - n) :
          i \in Int /\ i + n \in Pairs(Shift(x, n), y, k)
    <3>1. \A i \in x : i \in Int /\ k - (i + n) = (k - n) - i
      BY DEF Polys
    <3>2. QED
      BY <3>1 DEF Pairs, Shift
  <2>2. ASSUME NEW j \in Pairs(Shift(x, n), y, k)
        PROVE  \E i \in Pairs(x, y, k - n) : f[i] = j
    <3>1. PICK i \in x : j = i + n /\ k - j \in y
      BY DEF Pairs, Shift
    <3>2. i \in Int /\ k - j = (k - n) - i
      BY <3>1 DEF Polys
    <3>3. i \in Pairs(x, y, k - n)
      BY <3>1, <3>2 DEF Pairs
    <3>4. QED
      BY <3>1, <3>3
  <2>3. f \in [Pairs(x, y, k - n) -> Pairs(Shift(x, n), y, k)]
    BY <2>1
  <2>4. \A i, j \in Pairs(x, y, k - n) : f[i] = f[j] => i = j
    BY <2>1
  <2>5. IsFiniteSet(Pairs(x, y, k - n))
    BY InProduct
  <2> HIDE DEF f
  <2>6. Odd(Pairs(x, y, k - n)) <=> Odd(Pairs(Shift(x, n), y, k))
    BY <2>2, <2>3, <2>4, <2>5, OddBijection
  <2>7. k - n \in Int /\ k \in Int
    OBVIOUS
  <2>8. QED
    BY <1>1, <2>6, <2>7, InProduct
<1>3. Product(Shift(x, n), y) = Shift(Product(x, y), n)
  <2>1. /\ Product(Shift(x, n), y) \in SUBSET Nat
        /\ Product(x, y) \in SUBSET Nat
    BY <1>1, InProduct
  <2>2. ASSUME NEW k \in Nat
        PROVE  k - n \in Product(x, y) <=> k \in Shift(Product(x, y), n)
    <3>1. \A i \in Nat : k = i + n <=> k - n = i
      OBVIOUS
    <3>2. QED
      BY <2>1, <3>1 DEF Shift
  <2>3. Shift(Product(x, y), n) \in SUBSET Nat
    BY <2>1 DEF Shift
  <2>4. QED
    BY <1>2, <2>1, <2>2, <2>3
<1>4. QED
  BY <1>1, <1>3, ProductCommutes

(* Factors below n have a product below 2n. *)
LEMMA ProductBound ==
  ASSUME NEW n \in Nat, NEW x \in SUBSET (0..n-1), NEW y \in SUBSET (0..n-1)
  PROVE  Product(x, y) \in SUBSET (0 .. 2 * n - 2)
BY DEF Product

(***************************************************************************)
(* Polynomials in memory.                                                  *)
(***************************************************************************)

(* Where exponent e is. *)
Qw(e)  == e \div QwBits
Bit(e) == e % QwBits

Qwords == SUBSET (0 .. QwBits-1)

(* The polynomial in the n quad-words of mem from at on. *)
PolyAt(mem, at, n) == {e \in 0 .. n * QwBits - 1 : Bit(e) \in mem[at + Qw(e)]}

(* What quotient and remainder are. *)
LEMMA Divided ==
  ASSUME NEW w \in Int, NEW q \in Nat \ {0},
         NEW d, d = w \div q, NEW m, m = w % q
  PROVE  d \in Int /\ m \in 0..q-1 /\ w = q * d + m
OBVIOUS

(* Exponents are numbered by quad-word and bit. *)
LEMMA QwordOf ==
  ASSUME NEW e \in Nat
  PROVE  /\ Qw(e) \in Nat /\ Bit(e) \in 0..QwBits-1
         /\ e = QwBits * Qw(e) + Bit(e)
<1> DEFINE d == Qw(e)
           m == Bit(e)
<1>1. QwBits \in Nat \ {0}
  BY KaratsubaAssumption
<1>2. d \in Int /\ m \in 0..QwBits-1 /\ e = QwBits * d + m
  BY <1>1, Divided DEF Qw, Bit
<1> HIDE DEF d, m
<1>3. d >= 0
  <2>1. SUFFICES ASSUME d <= -1
                 PROVE  FALSE
    BY <1>2
  <2>2. QwBits * d <= QwBits * (-1)
    BY <1>1, <1>2, <2>1
  <2>3. QED
    BY <1>1, <1>2, <2>2
<1>4. QED
  BY <1>2, <1>3 DEF d, m

(* An exponent determines its quad-word and its bit. *)
LEMMA QwordIs ==
  ASSUME NEW q \in Nat, NEW b \in 0..QwBits-1, NEW e, e = QwBits * q + b
  PROVE  e \in Nat /\ Qw(e) = q /\ Bit(e) = b
<1> DEFINE d == Qw(e)
           m == Bit(e)
<1>1. QwBits \in Nat \ {0}
  BY KaratsubaAssumption
<1>2. QwBits * q \in Nat
  BY <1>1
<1>3. e \in Nat
  BY <1>2
<1>4. d \in Nat /\ m \in 0..QwBits-1 /\ e = QwBits * d + m
  BY <1>3, QwordOf
<1> HIDE DEF d, m
<1>5. QwBits * (q - d) = m - b
  <2>1. QwBits * (q - d) = QwBits * q - QwBits * d
    BY <1>1, <1>4
  <2>2. QwBits * d \in Nat
    BY <1>1, <1>4
  <2>3. QED
    BY <1>2, <1>4, <2>1, <2>2
<1>6. q - d < 1
  <2>1. SUFFICES ASSUME q - d >= 1
                 PROVE  FALSE
    BY <1>4
  <2>2. QwBits * (q - d) >= QwBits * 1
    BY <1>1, <1>4, <2>1
  <2>3. QED
    BY <1>1, <1>4, <1>5, <2>2
<1>7. q - d > -1
  <2>1. SUFFICES ASSUME q - d <= -1
                 PROVE  FALSE
    BY <1>4
  <2>2. QwBits * (q - d) <= QwBits * (-1)
    BY <1>1, <1>4, <2>1
  <2>3. QED
    BY <1>1, <1>4, <1>5, <2>2
<1>8. q = d
  BY <1>4, <1>6, <1>7
<1>9. m = b
  BY <1>1, <1>4, <1>5, <1>8
<1>10. QED
  BY <1>3, <1>8, <1>9 DEF d, m

(* The exponents of n quad-words. *)
LEMMA QwordBelow ==
  ASSUME NEW n \in Nat, NEW e \in Nat
  PROVE  e \in 0 .. n * QwBits - 1 <=> Qw(e) \in 0..n-1
<1> DEFINE d == Qw(e)
           m == Bit(e)
<1>1. QwBits \in Nat \ {0}
  BY KaratsubaAssumption
<1>2. d \in Nat /\ m \in 0..QwBits-1 /\ e = QwBits * d + m
  BY QwordOf
<1> HIDE DEF d, m
<1>3. QwBits * d \in Nat /\ n * QwBits \in Nat /\ n * QwBits = QwBits * n
  BY <1>1, <1>2
<1>4. ASSUME d <= n - 1
      PROVE  e < n * QwBits
  <2>1. QwBits * d <= QwBits * (n - 1)
    BY <1>1, <1>2, <1>4
  <2>2. QwBits * (n - 1) = QwBits * n - QwBits
    BY <1>1
  <2>3. QED
    BY <1>1, <1>2, <1>3, <2>1, <2>2
<1>5. ASSUME d >= n
      PROVE  e >= n * QwBits
  <2>1. QwBits * d >= QwBits * n
    BY <1>1, <1>2, <1>5
  <2>2. QED
    BY <1>2, <1>3, <2>1
<1>6. d \in 0..n-1 <=> e \in 0 .. n * QwBits - 1
  BY <1>2, <1>3, <1>4, <1>5
<1>7. QED
  BY <1>6 DEF d

(* ToPoly of a part of the memory. *)
LEMMA ToPolyIs ==
  ASSUME NEW n \in Nat, NEW f, \A q \in 0..n-1 : f[q] \in Qwords
  PROVE  ToPoly(f, n) = {e \in 0 .. n * QwBits - 1 : Bit(e) \in f[Qw(e)]}
<1>1. QwBits \in Nat \ {0}
  BY KaratsubaAssumption
<1>2. ASSUME NEW q \in 0..n-1, NEW b \in f[q]
      PROVE  /\ q * QwBits + b \in 0 .. n * QwBits - 1
             /\ Qw(q * QwBits + b) = q /\ Bit(q * QwBits + b) = b
  <2>1. b \in 0..QwBits-1 /\ q \in Nat
    BY <1>2 DEF Qwords
  <2>2. q * QwBits + b = QwBits * q + b
    BY <1>1, <2>1
  <2>3. /\ q * QwBits + b \in Nat
        /\ Qw(q * QwBits + b) = q /\ Bit(q * QwBits + b) = b
    BY <2>1, <2>2, QwordIs
  <2>4. QED
    BY <1>2, <2>3, QwordBelow
<1>3. ASSUME NEW e \in 0 .. n * QwBits - 1
      PROVE  /\ Qw(e) \in 0..n-1
             /\ e = Qw(e) * QwBits + Bit(e)
  <2>1. e \in Nat
    BY <1>1
  <2>2. /\ Qw(e) \in Nat /\ Bit(e) \in 0..QwBits-1
        /\ e = QwBits * Qw(e) + Bit(e)
    BY <2>1, QwordOf
  <2>3. QwBits * Qw(e) = Qw(e) * QwBits
    BY <1>1, <2>2
  <2>4. QED
    BY <1>3, <2>1, <2>2, <2>3, QwordBelow
<1>4. ASSUME NEW e \in ToPoly(f, n)
      PROVE  e \in 0 .. n * QwBits - 1 /\ Bit(e) \in f[Qw(e)]
  <2>1. PICK q \in 0..n-1 : e \in {q * QwBits + b : b \in f[q]}
    BY <1>4 DEF ToPoly
  <2>2. PICK b \in f[q] : e = q * QwBits + b
    BY <2>1
  <2>3. QED
    BY <1>2, <2>2
<1>5. ASSUME NEW e \in 0 .. n * QwBits - 1, Bit(e) \in f[Qw(e)]
      PROVE  e \in ToPoly(f, n)
  <2>1. e \in {Qw(e) * QwBits + b : b \in f[Qw(e)]}
    BY <1>3, <1>5
  <2>2. QED
    BY <1>3, <2>1 DEF ToPoly
<1>6. QED
  BY <1>4, <1>5

(* What a model's ToPoly reads from a part of a memory is PolyAt of it. *)
LEMMA ToPolyAt ==
  ASSUME NEW n \in Nat, NEW mem, NEW at,
         \A q \in 0..n-1 : mem[at + q] \in Qwords
  PROVE  ToPoly([q \in 0..n-1 |-> mem[at + q]], n) = PolyAt(mem, at, n)
<1> DEFINE f == [q \in 0..n-1 |-> mem[at + q]]
<1>1. \A q \in 0..n-1 : f[q] \in Qwords /\ f[q] = mem[at + q]
  OBVIOUS
<1> HIDE DEF f
<1>2. ToPoly(f, n) = {e \in 0 .. n * QwBits - 1 : Bit(e) \in f[Qw(e)]}
  BY <1>1, ToPolyIs
<1>3. ASSUME NEW e \in 0 .. n * QwBits - 1
      PROVE  f[Qw(e)] = mem[at + Qw(e)]
  <2>1. e \in Nat
    BY KaratsubaAssumption
  <2>2. QED
    BY <1>1, <1>3, <2>1, QwordBelow
<1>4. ToPoly(f, n) = PolyAt(mem, at, n)
  BY <1>2, <1>3 DEF PolyAt
<1>5. QED
  BY <1>4 DEF f

(* What is in memory is below the end of it. *)
LEMMA PolyBound ==
  ASSUME NEW n \in Nat, NEW mem, NEW at
  PROVE  /\ n * QwBits \in Nat
         /\ PolyAt(mem, at, n) \in SUBSET (0 .. n * QwBits - 1)
         /\ PolyAt(mem, at, n) \in Polys
<1>1. n * QwBits \in Nat
  BY KaratsubaAssumption
<1>2. PolyAt(mem, at, n) \in SUBSET (0 .. n * QwBits - 1)
  BY DEF PolyAt
<1>3. QED
  BY <1>1, <1>2, BoundedPolys

(* Equal quad-words make equal polynomials, sums make sums. *)
LEMMA SamePoly ==
  ASSUME NEW n \in Nat, NEW mem, NEW at, NEW mem1, NEW at1,
         \A q \in 0..n-1 : mem[at + q] = mem1[at1 + q]
  PROVE  PolyAt(mem, at, n) = PolyAt(mem1, at1, n)
<1>1. \A e \in 0 .. n * QwBits - 1 : e \in Nat
  BY KaratsubaAssumption
<1>2. \A e \in 0 .. n * QwBits - 1 : mem[at + Qw(e)] = mem1[at1 + Qw(e)]
  BY <1>1, QwordBelow
<1>3. QED
  BY <1>2 DEF PolyAt

(* Adding quad-word by quad-word adds the polynomials. *)
LEMMA SumPoly ==
  ASSUME NEW n \in Nat, NEW mem, NEW at, NEW mem1, NEW at1, NEW mem2, NEW at2,
         \A q \in 0..n-1 :
            mem[at + q] = SymDiff(mem1[at1 + q], mem2[at2 + q])
  PROVE  PolyAt(mem, at, n)
           = SymDiff(PolyAt(mem1, at1, n), PolyAt(mem2, at2, n))
<1>1. \A e \in 0 .. n * QwBits - 1 : e \in Nat
  BY KaratsubaAssumption
<1>2. \A e \in 0 .. n * QwBits - 1 :
         mem[at + Qw(e)] = SymDiff(mem1[at1 + Qw(e)], mem2[at2 + Qw(e)])
  BY <1>1, QwordBelow
<1>3. QED
  BY <1>2 DEF PolyAt, SymDiff

(* A polynomial stored as quad-words. *)
LEMMA StoredPoly ==
  ASSUME NEW n \in Nat, NEW x \in SUBSET (0 .. n * QwBits - 1), NEW mem, NEW at,
         \A q \in 0..n-1 : mem[at + q] = ToQwords(x, n)[q]
  PROVE  PolyAt(mem, at, n) = x
<1>1. ASSUME NEW e \in 0 .. n * QwBits - 1
      PROVE  Bit(e) \in mem[at + Qw(e)] <=> e \in x
  <2>1. e \in Nat /\ QwBits \in Nat
    BY KaratsubaAssumption
  <2>2. /\ Qw(e) \in 0..n-1 /\ Bit(e) \in 0..QwBits-1
        /\ e = QwBits * Qw(e) + Bit(e)
    BY <1>1, <2>1, QwordOf, QwordBelow
  <2>3. QwBits * Qw(e) = Qw(e) * QwBits
    BY <2>1, <2>2
  <2>4. mem[at + Qw(e)]
          = {b \in 0..QwBits-1 : Qw(e) * QwBits + b \in x}
    BY <2>2 DEF ToQwords
  <2>5. QED
    BY <2>2, <2>3, <2>4
<1>2. QED
  BY <1>1 DEF PolyAt

(* The words from h on weigh h words more. *)
LEMMA SplitPoly ==
  ASSUME NEW h \in Nat, NEW n \in Nat, NEW mem, NEW at \in Nat
  PROVE  PolyAt(mem, at, h + n)
           = PolyAt(mem, at, h) \cup Shift(PolyAt(mem, at + h, n), h * QwBits)
<1> DEFINE N == h * QwBits
           M == n * QwBits
<1>1. N \in Nat /\ M \in Nat /\ (h + n) * QwBits = N + M /\ QwBits * h = N
  BY KaratsubaAssumption
<1>2. ASSUME NEW e \in 0..M-1
      PROVE  Qw(e + N) = h + Qw(e) /\ Bit(e + N) = Bit(e) /\ Qw(e) \in Nat
  <2>1. e \in Nat /\ QwBits \in Nat \ {0}
    BY <1>1, KaratsubaAssumption
  <2>2. /\ Qw(e) \in Nat /\ Bit(e) \in 0..QwBits-1
        /\ e = QwBits * Qw(e) + Bit(e)
    BY <2>1, QwordOf
  <2>3. QwBits * (h + Qw(e)) = QwBits * h + QwBits * Qw(e)
    BY <2>1, <2>2
  <2>4. QwBits * Qw(e) \in Nat
    BY <2>1, <2>2
  <2> HIDE DEF N, M
  <2>5. e + N = QwBits * (h + Qw(e)) + Bit(e)
    BY <1>1, <2>1, <2>2, <2>3, <2>4
  <2>6. h + Qw(e) \in Nat
    BY <2>2
  <2>7. QED
    BY <2>2, <2>5, <2>6, QwordIs
<1>3. /\ PolyAt(mem, at, h) = {e \in 0..N-1 : Bit(e) \in mem[at + Qw(e)]}
      /\ PolyAt(mem, at + h, n)
           = {e \in 0..M-1 : Bit(e) \in mem[(at + h) + Qw(e)]}
      /\ PolyAt(mem, at, h + n)
           = {e \in 0..N+M-1 : Bit(e) \in mem[at + Qw(e)]}
  BY <1>1 DEF PolyAt
<1> HIDE DEF N, M
<1>4. ASSUME NEW e \in 0..N-1
      PROVE  /\ e \in 0..N+M-1
             /\ e \notin Shift(PolyAt(mem, at + h, n), N)
  BY <1>1, <1>3 DEF Shift
<1>5. ASSUME NEW e \in 0..M-1
      PROVE  Bit(e + N) \in mem[at + Qw(e + N)]
               <=> e \in PolyAt(mem, at + h, n)
  <2>1. at + (h + Qw(e)) = (at + h) + Qw(e)
    BY <1>2, <1>5
  <2>2. QED
    BY <1>2, <1>3, <1>5, <2>1
<1>6. ASSUME NEW e \in Nat
      PROVE  e \in PolyAt(mem, at, h + n)
               <=> \/ e \in PolyAt(mem, at, h)
                   \/ e \in Shift(PolyAt(mem, at + h, n), N)
  <2>1. CASE e < N
    BY <1>1, <1>3, <1>4, <2>1
  <2>2. CASE e >= N
    <3>1. PICK k \in Nat : e = k + N
      <4>1. e - N \in Nat /\ e = (e - N) + N
        BY <1>1, <2>2
      <4>2. QED
        BY <4>1
    <3>2. e \in 0..N+M-1 <=> k \in 0..M-1
      BY <1>1, <3>1
    <3>3. e \in Shift(PolyAt(mem, at + h, n), N)
            <=> k \in PolyAt(mem, at + h, n)
      BY <1>1, <1>3, <3>1 DEF Shift
    <3>4. e \notin PolyAt(mem, at, h)
      BY <1>1, <1>3, <2>2
    <3>5. QED
      BY <1>3, <1>5, <3>1, <3>2, <3>3, <3>4
  <2>3. QED
    BY <1>1, <2>1, <2>2
<1>7. /\ PolyAt(mem, at, h + n) \in SUBSET Nat
      /\ PolyAt(mem, at, h) \in SUBSET Nat
      /\ Shift(PolyAt(mem, at + h, n), N) \in SUBSET Nat
  BY <1>1, <1>3 DEF Shift
<1>8. PolyAt(mem, at, h + n)
        = PolyAt(mem, at, h) \cup Shift(PolyAt(mem, at + h, n), N)
  BY <1>6, <1>7
<1>9. QED
  BY <1>8 DEF N

(* Empty quad-words at the end add nothing. *)
Blank(mem, at, h, s) == \A q \in h .. s - 1 : mem[at + q] = {}

(* The polynomial of an operand does not depend on how much of its padding *)
(* is read.                                                                *)
LEMMA EmptyTail ==
  ASSUME NEW h \in Nat, NEW s \in Nat, h <= s, NEW mem, NEW at \in Nat,
         Blank(mem, at, h, s)
  PROVE  PolyAt(mem, at, s) = PolyAt(mem, at, h)
<1> DEFINE n == s - h
<1>0. n \in Nat /\ s = h + n
  OBVIOUS
<1> HIDE DEF n
<1>1. \A q \in 0..n-1 : mem[(at + h) + q] = {}
  <2>1. ASSUME NEW q \in 0..n-1
        PROVE  mem[(at + h) + q] = {}
    <3>1. h + q \in h .. s - 1 /\ at + (h + q) = (at + h) + q
      BY <1>0
    <3>2. QED
      BY <3>1 DEF Blank
  <2>2. QED
    BY <2>1
<1>2. \A e \in 0 .. n * QwBits - 1 : e \in Nat
  BY <1>0, KaratsubaAssumption
<1>3. PolyAt(mem, at + h, n) = {}
  BY <1>0, <1>1, <1>2, QwordBelow DEF PolyAt
<1>4. Shift(PolyAt(mem, at + h, n), h * QwBits) = {}
  BY <1>3 DEF Shift
<1>5. PolyAt(mem, at, h + n)
        = PolyAt(mem, at, h) \cup Shift(PolyAt(mem, at + h, n), h * QwBits)
  BY <1>0, SplitPoly
<1>6. QED
  BY <1>0, <1>4, <1>5

(***************************************************************************)
(* The identity of Karatsuba.                                              *)
(***************************************************************************)

(* The two halves of a polynomial below 2n. *)
Low(x, n)  == {e \in 0..n-1 : e \in x}
High(x, n) == {e \in 0..n-1 : e + n \in x}

(* Shifting is linear, and shifts add. *)
LEMMA ShiftOf ==
  ASSUME NEW x \in SUBSET Nat, NEW n \in Nat
  PROVE  /\ Shift(x, n) \in SUBSET Nat
         /\ \A k \in Nat : k \in Shift(x, n) <=> k >= n /\ k - n \in x
<1>1. Shift(x, n) \in SUBSET Nat
  BY DEF Shift
<1>2. ASSUME NEW k \in Nat
      PROVE  k \in Shift(x, n) <=> k >= n /\ k - n \in x
  <2>1. \A i \in x : i \in Nat /\ (k = i + n <=> k - n = i) /\ i + n >= n
    OBVIOUS
  <2>2. QED
    BY <2>1 DEF Shift
<1>3. QED
  BY <1>1, <1>2

(* A shifted sum is the sum of the shifted. *)
LEMMA ShiftSum ==
  ASSUME NEW x \in SUBSET Nat, NEW y \in SUBSET Nat, NEW n \in Nat
  PROVE  Shift(SymDiff(x, y), n) = SymDiff(Shift(x, n), Shift(y, n))
<1>1. SymDiff(x, y) \in SUBSET Nat
  BY DEF SymDiff
<1>2. /\ Shift(x, n) \in SUBSET Nat /\ Shift(y, n) \in SUBSET Nat
      /\ Shift(SymDiff(x, y), n) \in SUBSET Nat
      /\ \A k \in Nat :
            /\ k \in Shift(x, n) <=> k >= n /\ k - n \in x
            /\ k \in Shift(y, n) <=> k >= n /\ k - n \in y
            /\ k \in Shift(SymDiff(x, y), n)
                 <=> k >= n /\ k - n \in SymDiff(x, y)
  BY <1>1, ShiftOf
<1>3. QED
  BY <1>2 DEF SymDiff

(* Two shifts by n are one by 2 * n. *)
LEMMA ShiftTwice ==
  ASSUME NEW x \in SUBSET Nat, NEW n \in Nat
  PROVE  Shift(Shift(x, n), n) = Shift(x, 2 * n)
<1>1. Shift(x, n) \in SUBSET Nat /\ 2 * n \in Nat
  BY ShiftOf
<1>2. /\ Shift(Shift(x, n), n) \in SUBSET Nat
      /\ Shift(x, 2 * n) \in SUBSET Nat
  BY <1>1, ShiftOf
<1>3. ASSUME NEW k \in Nat
      PROVE  k \in Shift(Shift(x, n), n) <=> k \in Shift(x, 2 * n)
  <2>1. k \in Shift(x, 2 * n) <=> k >= 2 * n /\ k - 2 * n \in x
    BY <1>1, ShiftOf
  <2>2. k \in Shift(Shift(x, n), n) <=> k >= n /\ k - n \in Shift(x, n)
    BY <1>1, ShiftOf
  <2>3. CASE k >= n
    <3>1. k - n \in Nat
      BY <2>3
    <3>2. k - n \in Shift(x, n) <=> k - n >= n /\ (k - n) - n \in x
      BY <3>1, ShiftOf
    <3>3. (k - n) - n = k - 2 * n /\ (k - n >= n <=> k >= 2 * n)
      OBVIOUS
    <3>4. QED
      BY <2>1, <2>2, <2>3, <3>2, <3>3
  <2>4. CASE ~(k >= n)
    <3>1. ~(k >= 2 * n)
      BY <2>4
    <3>2. QED
      BY <2>1, <2>2, <2>4, <3>1
  <2>5. QED
    BY <2>3, <2>4
<1>4. QED
  BY <1>2, <1>3

(* A polynomial of two halves, and of four quarters. *)
FromHalves(x0, x1, n) == x0 \cup Shift(x1, n)
FromQuarters(q0, q1, q2, q3, n) ==
  FromHalves(FromHalves(q0, q1, n), FromHalves(q2, q3, n), 2 * n)

(* p0, p1 and m are the products of halves below n. *)
HalfProducts(x0, x1, y0, y1, p0, m, p1, n) ==
  /\ x0 \in SUBSET (0..n-1) /\ x1 \in SUBSET (0..n-1)
  /\ y0 \in SUBSET (0..n-1) /\ y1 \in SUBSET (0..n-1)
  /\ p0 = Product(x0, y0) /\ p1 = Product(x1, y1)
  /\ m = Product(SymDiff(x0, x1), SymDiff(y0, y1))

(* What Karatsuba makes of the three products. *)
ThreeProducts(p0, m, p1, n) ==
  SymDiff(SymDiff(p0, Shift(SymDiff(m, SymDiff(p0, p1)), n)), Shift(p1, 2 * n))

(* Three products of halves make the product. *)
LEMMA KaratsubaIdentity ==
  ASSUME NEW n \in Nat, NEW x0, NEW x1, NEW y0, NEW y1, NEW p0, NEW m, NEW p1,
         HalfProducts(x0, x1, y0, y1, p0, m, p1, n)
  PROVE  /\ p0 \in SUBSET (0..2*n-1) /\ p1 \in SUBSET (0..2*n-1)
         /\ m \in SUBSET (0..2*n-1)
         /\ Product(FromHalves(x0, x1, n), FromHalves(y0, y1, n))
              = ThreeProducts(p0, m, p1, n)
<1>0. /\ x0 \in SUBSET (0..n-1) /\ x1 \in SUBSET (0..n-1)
      /\ y0 \in SUBSET (0..n-1) /\ y1 \in SUBSET (0..n-1)
      /\ p0 = Product(x0, y0) /\ p1 = Product(x1, y1)
      /\ m = Product(SymDiff(x0, x1), SymDiff(y0, y1))
  BY DEF HalfProducts
<1>1. /\ x0 \in Polys /\ x1 \in Polys /\ y0 \in Polys /\ y1 \in Polys
      /\ SymDiff(x0, x1) \in Polys /\ SymDiff(y0, y1) \in Polys
      /\ Shift(x1, n) \in Polys /\ Shift(y1, n) \in Polys
  BY <1>0, BoundedPolys, SumPolys, ShiftPolys
<1>2. /\ p0 \in SUBSET (0..2*n-1) /\ p1 \in SUBSET (0..2*n-1)
      /\ m \in SUBSET (0..2*n-1)
  <2>1. /\ SymDiff(x0, x1) \in SUBSET (0..n-1)
        /\ SymDiff(y0, y1) \in SUBSET (0..n-1)
    BY <1>0 DEF SymDiff
  <2>2. /\ p0 \in SUBSET (0..2*n-2) /\ p1 \in SUBSET (0..2*n-2)
        /\ m \in SUBSET (0..2*n-2)
    BY <1>0, <2>1, ProductBound
  <2>3. 0..2*n-2 \subseteq 0..2*n-1
    OBVIOUS
  <2>4. QED
    BY <2>2, <2>3
<1>3. /\ x0 \cup Shift(x1, n) = SymDiff(x0, Shift(x1, n))
      /\ y0 \cup Shift(y1, n) = SymDiff(y0, Shift(y1, n))
  <2>1. \A k \in 0..n-1 : k \notin Shift(x1, n) /\ k \notin Shift(y1, n)
    BY <1>0 DEF Shift
  <2>2. QED
    BY <1>0, <2>1 DEF SymDiff
<1> DEFINE q == Product(x0, y1)
           r == Product(x1, y0)
           X == SymDiff(x0, Shift(x1, n))
           Y == SymDiff(y0, Shift(y1, n))
<1>4. q \in SUBSET Nat /\ r \in SUBSET Nat
  BY <1>0, <1>1, InProduct
<1>5. Y \in Polys
  BY <1>1, SumPolys
<1>6. Product(X, Y) = SymDiff(Product(x0, Y), Product(Shift(x1, n), Y))
  BY <1>0, <1>1, <1>5, ProductAdds
<1>7. Product(x0, Y) = SymDiff(p0, Shift(q, n))
  <2>1. Product(x0, Y) = SymDiff(Product(x0, y0), Product(x0, Shift(y1, n)))
    BY <1>0, <1>1, ProductAdds
  <2>2. Product(x0, Shift(y1, n)) = Shift(Product(x0, y1), n)
    BY <1>0, <1>1, ProductShifts
  <2>3. QED
    BY <1>0, <2>1, <2>2
<1>8. Product(Shift(x1, n), Y) = SymDiff(Shift(r, n), Shift(p1, 2 * n))
  <2>1. Product(Shift(x1, n), Y) = Shift(Product(x1, Y), n)
    BY <1>0, <1>1, <1>5, ProductShifts
  <2>2. Product(x1, Y) = SymDiff(Product(x1, y0), Product(x1, Shift(y1, n)))
    BY <1>0, <1>1, ProductAdds
  <2>3. Product(x1, Shift(y1, n)) = Shift(Product(x1, y1), n)
    BY <1>0, <1>1, ProductShifts
  <2>4. p1 \in SUBSET Nat /\ Shift(p1, n) \in SUBSET Nat
    <3>1. p1 \in SUBSET Nat
      BY <1>0, <1>1, InProduct
    <3>2. QED
      BY <3>1, ShiftOf
  <2>5. Shift(SymDiff(r, Shift(p1, n)), n)
          = SymDiff(Shift(r, n), Shift(Shift(p1, n), n))
    BY <1>4, <2>4, ShiftSum
  <2>6. Shift(Shift(p1, n), n) = Shift(p1, 2 * n)
    BY <2>4, ShiftTwice
  <2>7. QED
    BY <1>0, <2>1, <2>2, <2>3, <2>5, <2>6
<1>9. SymDiff(m, SymDiff(p0, p1)) = SymDiff(q, r)
  <2>1. m = SymDiff(Product(x0, SymDiff(y0, y1)), Product(x1, SymDiff(y0, y1)))
    BY <1>0, <1>1, ProductAdds
  <2>2. Product(x0, SymDiff(y0, y1)) = SymDiff(p0, q)
    BY <1>0, <1>1, ProductAdds
  <2>3. Product(x1, SymDiff(y0, y1)) = SymDiff(r, p1)
    BY <1>0, <1>1, ProductAdds
  <2> HIDE DEF q, r
  <2>4. m = SymDiff(SymDiff(p0, q), SymDiff(r, p1))
    BY <2>1, <2>2, <2>3
  <2>5. QED
    BY <2>4 DEF SymDiff
<1>10. Shift(SymDiff(q, r), n) = SymDiff(Shift(q, n), Shift(r, n))
  BY <1>4, ShiftSum
<1> HIDE DEF q, r
<1>11. Product(X, Y)
         = SymDiff(SymDiff(p0, Shift(SymDiff(q, r), n)), Shift(p1, 2 * n))
  <2>1. Product(X, Y) = SymDiff(SymDiff(p0, Shift(q, n)),
                                SymDiff(Shift(r, n), Shift(p1, 2 * n)))
    BY <1>6, <1>7, <1>8
  <2>2. SymDiff(SymDiff(p0, Shift(q, n)),
                SymDiff(Shift(r, n), Shift(p1, 2 * n)))
          = SymDiff(SymDiff(p0, SymDiff(Shift(q, n), Shift(r, n))),
                    Shift(p1, 2 * n))
    BY DEF SymDiff
  <2>3. QED
    BY <1>10, <2>1, <2>2
<1>12. QED
  BY <1>2, <1>3, <1>9, <1>11 DEF FromHalves, ThreeProducts

(* And what the additions leave in the four quarters of c is that sum. *)
LEMMA Recombined ==
  ASSUME NEW n \in Nat, NEW p0 \in SUBSET (0..2*n-1),
         NEW p1 \in SUBSET (0..2*n-1), NEW m \in SUBSET (0..2*n-1),
         NEW t, t = SymDiff(High(p0, n), Low(p1, n)),
         NEW s1, s1 = SymDiff(t, SymDiff(Low(p0, n), Low(m, n))),
         NEW s2, s2 = SymDiff(t, SymDiff(High(m, n), High(p1, n)))
  PROVE  FromQuarters(Low(p0, n), s1, s2, High(p1, n), n)
           = ThreeProducts(p0, m, p1, n)
<1> DEFINE mid == SymDiff(m, SymDiff(p0, p1))
           top == s2 \cup Shift(High(p1, n), n)
           left == (Low(p0, n) \cup Shift(s1, n)) \cup Shift(top, 2 * n)
           right == SymDiff(SymDiff(p0, Shift(mid, n)), Shift(p1, 2 * n))
<1>1. /\ t \in SUBSET (0..n-1) /\ s1 \in SUBSET (0..n-1)
      /\ s2 \in SUBSET (0..n-1) /\ High(p1, n) \in SUBSET (0..n-1)
      /\ Low(p0, n) \in SUBSET (0..n-1)
  BY DEF SymDiff, Low, High
<1>2. /\ mid \in SUBSET (0..2*n-1) /\ 2 * n \in Nat
      /\ mid \in SUBSET Nat /\ p1 \in SUBSET Nat /\ p0 \in SUBSET Nat
  BY DEF SymDiff
<1>3. Shift(High(p1, n), n) \in SUBSET Nat /\ top \in SUBSET Nat
  BY <1>1, ShiftOf
<1>4. /\ left \in SUBSET Nat /\ right \in SUBSET Nat
  <2>1. s1 \in SUBSET Nat /\ Low(p0, n) \in SUBSET Nat
    BY <1>1
  <2> HIDE DEF mid, top
  <2>2. /\ Shift(s1, n) \in SUBSET Nat /\ Shift(top, 2 * n) \in SUBSET Nat
        /\ Shift(mid, n) \in SUBSET Nat /\ Shift(p1, 2 * n) \in SUBSET Nat
    BY <1>2, <1>3, <2>1, ShiftOf
  <2>3. QED
    BY <1>2, <2>1, <2>2 DEF SymDiff
<1>5. \A e \in 0..n-1 :
        /\ e \in s1 <=> ~((e + n \in p0 <=> e \in p1)
                          <=> (e \in p0 <=> e \in m))
        /\ e \in s2 <=> ~((e + n \in p0 <=> e \in p1)
                          <=> (e + n \in m <=> e + n \in p1))
  BY DEF SymDiff, Low, High
<1>6. \A e : e \in mid <=> ~(e \in m <=> ~(e \in p0 <=> e \in p1))
  BY DEF SymDiff
<1>7. ASSUME NEW k \in Nat
      PROVE  /\ k \in left <=> \/ k \in Low(p0, n)
                               \/ k >= n /\ k - n \in s1
                               \/ k >= 2 * n /\ k - 2 * n \in top
             /\ k \in right <=> ~(~(k \in p0 <=> k >= n /\ k - n \in mid)
                                   <=> k >= 2 * n /\ k - 2 * n \in p1)
  <2>1. /\ k \in Shift(s1, n) <=> k >= n /\ k - n \in s1
        /\ k \in Shift(top, 2 * n) <=> k >= 2 * n /\ k - 2 * n \in top
        /\ k \in Shift(mid, n) <=> k >= n /\ k - n \in mid
        /\ k \in Shift(p1, 2 * n) <=> k >= 2 * n /\ k - 2 * n \in p1
    <3>1. s1 \in SUBSET Nat
      BY <1>1
    <3> HIDE DEF mid, top
    <3>2. QED
      BY <1>2, <1>3, <3>1, ShiftOf
  <2> HIDE DEF mid, top
  <2>2. k \in right <=> ~(~(k \in p0 <=> k \in Shift(mid, n))
                           <=> k \in Shift(p1, 2 * n))
    BY DEF SymDiff
  <2>3. QED
    BY <2>1, <2>2
<1>8. ASSUME NEW k \in Nat
      PROVE  k \in left <=> k \in right
  <2> HIDE DEF left, right
  <2>1. CASE k < n
    <3>1. k \in left <=> k \in Low(p0, n)
      BY <1>7, <2>1
    <3>2. k \in right <=> k \in p0
      BY <1>7, <2>1
    <3>3. QED
      BY <2>1, <3>1, <3>2 DEF Low
  <2>2. CASE n <= k /\ k < 2 * n
    <3>1. k - n \in 0..n-1 /\ k \notin Low(p0, n) /\ (k - n) + n = k
      BY <2>2 DEF Low
    <3>2. k \in left <=> k - n \in s1
      BY <1>7, <2>2, <3>1
    <3>3. k \in right <=> ~(k \in p0 <=> k - n \in mid)
      BY <1>7, <2>2
    <3>4. k - n \in s1 <=> ~((k \in p0 <=> k - n \in p1)
                              <=> (k - n \in p0 <=> k - n \in m))
      BY <1>5, <3>1
    <3>5. k - n \in mid <=> ~(k - n \in m <=> ~(k - n \in p0 <=> k - n \in p1))
      BY <1>6
    <3>6. QED
      BY <3>2, <3>3, <3>4, <3>5, Zenon
  <2>3. CASE 2 * n <= k
    <3> DEFINE e == k - 2 * n
    <3>1. e \in Nat /\ k - n = e + n /\ e + n >= n
      BY <2>3
    <3>2. k \notin Low(p0, n) /\ k - n \notin s1 /\ k \notin p0
      BY <1>1, <2>3, <3>1 DEF Low
    <3>3. k \in left <=> e \in top
      BY <1>7, <2>3, <3>2
    <3>4. k \in right <=> ~(e + n \in mid <=> e \in p1)
      BY <1>7, <2>3, <3>1, <3>2
    <3>5. e + n \in mid <=> ~(e + n \in m <=> ~(e + n \in p0 <=> e + n \in p1))
      BY <1>6
    <3>6. e \in Shift(High(p1, n), n) <=> e >= n /\ e - n \in High(p1, n)
      <4>1. High(p1, n) \in SUBSET Nat
        BY <1>1
      <4>2. QED
        BY <3>1, <4>1, ShiftOf
    <3> HIDE DEF e, mid
    <3>7. CASE e < n
      <4>1. e \in 0..n-1
        BY <3>1, <3>7
      <4>2. e \in top <=> e \in s2
        BY <3>1, <3>6, <3>7
      <4>3. e \in s2 <=> ~((e + n \in p0 <=> e \in p1)
                            <=> (e + n \in m <=> e + n \in p1))
        BY <1>5, <4>1
      <4>4. QED
        BY <3>3, <3>4, <3>5, <4>2, <4>3, Zenon
    <3>8. CASE ~(e < n)
      <4>1. e >= n /\ e \notin s2
        BY <1>1, <3>1, <3>8
      <4>2. e \in top <=> e - n \in High(p1, n)
        BY <3>6, <4>1
      <4>3. e - n \in High(p1, n) <=> e \in p1
        <5>1. (e - n) + n = e /\ e - n \in Nat
          BY <3>1, <4>1
        <5>2. e \in p1 => e - n \in 0..n-1
          BY <3>1, <4>1
        <5>3. QED
          BY <5>1, <5>2 DEF High
      <4>4. e + n \notin m /\ e + n \notin p0 /\ e + n \notin p1
        BY <3>1, <4>1
      <4>5. QED
        BY <3>3, <3>4, <3>5, <4>2, <4>3, <4>4
    <3>9. QED
      BY <3>7, <3>8
  <2>4. QED
    BY <2>1, <2>2, <2>3
<1>9. left = right
  BY <1>4, <1>8
<1>10. QED
  BY <1>9 DEF FromQuarters, FromHalves, ThreeProducts

(***************************************************************************)
(* The recursion: who called whom, and where each call works.              *)
(***************************************************************************)

(* Halving pad leads to base. *)
HalvesTo(base, pad) ==
  \E sizes \in SUBSET (base..pad) :
    /\ pad \in sizes
    /\ \A p \in sizes : /\ p % base = 0
                        /\ p # base => p % 2 = 0 /\ p \div 2 \in sizes

Frames ==
  [c : Nat, src : {"in", "sec"}, a : Nat, b : Nat, len : Nat \ {0},
   pad : Nat \ {0}, sec : Nat,
   step : {"enter", "low_done", "high_done", "middle_done"}]

(* A call has room for its product, its operands and three times its size  *)
(* of buffer; a short operand is the end of an input.                      *)
FrameInv(f) ==
  /\ HalvesTo(build.Base, f.pad)
  /\ f.len <= f.pad
  /\ f.step # "enter" => f.len > build.Base
  /\ f.c + 2 * f.pad <= 2 * build.Pad
  /\ f.sec + 3 * f.pad <= 3 * build.Pad
  /\ f.src = "in" => f.a + f.pad <= build.Pad /\ f.b + f.pad <= build.Pad
  /\ f.src = "sec" => f.a + f.pad <= f.sec /\ f.b + f.pad <= f.sec
  /\ f.len < f.pad => /\ f.src = "in"
                      /\ f.a + f.len = RQwords /\ f.b + f.len = RQwords

(* f is the call that g waits for. *)
CalledBy(f, g) ==
  /\ g.pad = 2 * f.pad
  /\ f.sec = g.sec + 3 * f.pad
  /\ \/ /\ g.step = "low_done"
        /\ f.c = g.c /\ f.src = g.src /\ f.a = g.a /\ f.b = g.b
     \/ /\ g.step = "high_done"
        /\ f.c = g.c + 2 * f.pad /\ f.src = g.src
        /\ f.a = g.a + f.pad /\ f.b = g.b + f.pad
     \/ /\ g.step = "middle_done"
        /\ f.c = g.c + f.pad /\ f.src = "sec"
        /\ f.a = g.sec /\ f.b = g.sec + f.pad

(* f works within what g was given. *)
Inside(f, g) ==
  /\ g.c <= f.c /\ f.c + 2 * f.pad <= g.c + 2 * g.pad
  /\ g.sec <= f.sec

(* The first call, on the whole operands. *)
Root(f) ==
  /\ f.c = 0 /\ f.src = "in" /\ f.a = 0 /\ f.b = 0
  /\ f.pad = build.Pad /\ f.sec = 0

CallsInv(s) ==
  /\ s \in Seq(Frames)
  /\ \A k \in 1..Len(s) : FrameInv(s[k])
  /\ \A k \in 1..Len(s) : k < Len(s) => CalledBy(s[k], s[k+1])
  /\ \A k, j \in 1..Len(s) : k <= j => Inside(s[k], s[j])
  /\ s # <<>> => Root(s[Len(s)])

StackInv ==
  /\ build \in Builds
  /\ pc \in {"karatzuba", "red", "done"}
  /\ pc = "karatzuba" <=> stack # <<>>
  /\ CallsInv(stack)

(* What the assumption says of a build. *)
LEMMA BuildFacts ==
  ASSUME build \in Builds
  PROVE  /\ QwBits \in Nat \ {0}
         /\ build.R \in Nat \ {0} /\ build.Pad \in Nat \ {0}
         /\ build.Base \in Nat \ {0} /\ build.Reg \in Nat \ {0}
         /\ build.R <= build.Pad * QwBits /\ build.R % QwBits # 0
         /\ build.Base % build.Reg = 0
         /\ HalvesTo(build.Base, build.Pad)
BY KaratsubaAssumption DEF HalvesTo

(* R_QWORDS quad-words hold R_BITS bits, and no less do. *)
LEMMA QwordsOfR ==
  ASSUME build \in Builds
  PROVE  /\ RQwords \in Nat \ {0} /\ RQwords <= build.Pad
         /\ Lead \in 1..QwBits-1
         /\ build.R = (RQwords - 1) * QwBits + Lead
<1> DEFINE d == build.R \div QwBits
           m == build.R % QwBits
           n == (build.R + QwBits - 1) \div QwBits
           k == (build.R + QwBits - 1) % QwBits
<1>1. /\ QwBits \in Nat \ {0} /\ build.R \in Nat \ {0}
      /\ build.Pad \in Nat \ {0}
      /\ build.R <= build.Pad * QwBits /\ build.R % QwBits # 0
  BY BuildFacts
<1>2. /\ d \in Int /\ m \in 0..QwBits-1 /\ build.R = QwBits * d + m
      /\ n \in Int /\ k \in 0..QwBits-1
      /\ build.R + QwBits - 1 = QwBits * n + k
  <2>1. QwBits \in Nat \ {0} /\ build.R \in Int
    BY <1>1
  <2>2. d \in Int /\ m \in 0..QwBits-1 /\ build.R = QwBits * d + m
    BY <2>1, Divided
  <2>3. build.R + QwBits - 1 \in Int
    BY <2>1
  <2>4. /\ n \in Int /\ k \in 0..QwBits-1
        /\ build.R + QwBits - 1 = QwBits * n + k
    BY <2>1, <2>3, Divided
  <2>5. QED
    BY <2>2, <2>4
<1>3. m \in 1..QwBits-1
  BY <1>1, <1>2
<1>4. Lead = m /\ RQwords = n
  BY DEF Lead, RQwords
<1> HIDE DEF d, m, n, k
<1>5. QwBits * (n - d) = QwBits + m - 1 - k
  <2>1. QwBits * (n - d) = QwBits * n - QwBits * d
    BY <1>1, <1>2
  <2>2. QwBits * n \in Int /\ QwBits * d \in Int
    BY <1>1, <1>2
  <2>3. QED
    BY <1>1, <1>2, <2>1, <2>2
<1>6. n = d + 1
  <2>1. ~(n - d >= 2)
    <3>1. SUFFICES ASSUME n - d >= 2
                   PROVE  FALSE
      OBVIOUS
    <3>2. QwBits * (n - d) >= QwBits * 2
      BY <1>1, <1>2, <3>1
    <3>3. QED
      BY <1>1, <1>2, <1>5, <3>2
  <2>2. ~(n - d <= 0)
    <3>1. SUFFICES ASSUME n - d <= 0
                   PROVE  FALSE
      OBVIOUS
    <3>2. QwBits * (n - d) <= 0
      BY <1>1, <1>2, <3>1
    <3>3. QED
      BY <1>1, <1>2, <1>3, <1>5, <3>2
  <2>3. QED
    BY <1>2, <2>1, <2>2
<1>7. d >= 0
  <2>1. SUFFICES ASSUME d <= -1
                 PROVE  FALSE
    BY <1>2
  <2>2. QwBits * d <= QwBits * (-1)
    BY <1>1, <1>2, <2>1
  <2>3. QED
    BY <1>1, <1>2, <2>2
<1>8. d < build.Pad
  <2>1. SUFFICES ASSUME d >= build.Pad
                 PROVE  FALSE
    BY <1>1, <1>2
  <2>2. QwBits * d >= QwBits * build.Pad
    BY <1>1, <1>2, <2>1
  <2>3. QwBits * build.Pad = build.Pad * QwBits /\ QwBits * d \in Int
        /\ build.Pad * QwBits \in Int
    BY <1>1, <1>2
  <2>4. QED
    BY <1>1, <1>2, <1>3, <2>2, <2>3
<1>9. build.R = (n - 1) * QwBits + m
  <2>1. (n - 1) * QwBits = QwBits * d
    BY <1>1, <1>2, <1>6
  <2>2. QED
    BY <1>2, <2>1
<1>10. QED
  BY <1>1, <1>2, <1>3, <1>4, <1>6, <1>7, <1>8, <1>9

(* A multiple of a multiple. *)
LEMMA MultipleOfMultiple ==
  ASSUME NEW h \in Nat, NEW base \in Nat \ {0}, NEW reg \in Nat \ {0},
         h % base = 0, base % reg = 0
  PROVE  h % reg = 0
<1> DEFINE d == h \div base
           e == base \div reg
           n == h \div reg
           m == h % reg
<1>1. /\ d \in Int /\ h = base * d + 0
      /\ e \in Int /\ base = reg * e + 0
      /\ n \in Int /\ m \in 0..reg-1 /\ h = reg * n + m
  BY Divided
<1> HIDE DEF d, e, n, m
<1>2. h = reg * (e * d)
  <2>1. h = (reg * e) * d
    BY <1>1
  <2>2. QED
    BY <1>1, <2>1
<1> DEFINE k == e * d
<1>3. k \in Int
  BY <1>1
<1>4. h = reg * k
  BY <1>2
<1> HIDE DEF k
<1>5. reg * (k - n) = m
  <2>1. reg * (k - n) = reg * k - reg * n /\ reg * n \in Int /\ reg * k \in Int
    BY <1>1, <1>3
  <2>2. QED
    BY <1>1, <1>4, <2>1
<1>6. ~(k - n >= 1)
  <2>1. SUFFICES ASSUME k - n >= 1
                 PROVE  FALSE
    OBVIOUS
  <2>2. reg * (k - n) >= reg * 1
    BY <1>1, <1>3, <2>1
  <2>3. QED
    BY <1>1, <1>5, <2>2
<1>7. ~(k - n <= -1)
  <2>1. SUFFICES ASSUME k - n <= -1
                 PROVE  FALSE
    OBVIOUS
  <2>2. reg * (k - n) <= reg * (-1)
    BY <1>1, <1>3, <2>1
  <2>3. QED
    BY <1>1, <1>5, <2>2
<1>8. m = 0
  <2>1. k - n = 0
    BY <1>1, <1>3, <1>6, <1>7
  <2>2. QED
    BY <1>5, <2>1
<1>9. QED
  BY <1>8 DEF m

(* A call that calls again has an even size, and its half is one to call   *)
(* with.                                                                   *)
LEMMA HalfSize ==
  ASSUME build \in Builds, NEW f \in Frames, FrameInv(f), f.len > build.Base,
         NEW h, h = f.pad \div 2
  PROVE  /\ h \in Nat \ {0} /\ f.pad = 2 * h /\ h >= build.Base
         /\ HalvesTo(build.Base, h) /\ h % build.Reg = 0
<1>1. /\ build.Base \in Nat \ {0} /\ build.Reg \in Nat \ {0}
      /\ build.Base % build.Reg = 0
      /\ f.pad \in Nat \ {0} /\ f.len \in Nat /\ f.len <= f.pad
  BY BuildFacts DEF Frames, FrameInv
<1>2. PICK sizes \in SUBSET (build.Base .. f.pad) :
        /\ f.pad \in sizes
        /\ \A p \in sizes :
              /\ p % build.Base = 0
              /\ p # build.Base => p % 2 = 0 /\ p \div 2 \in sizes
  BY DEF FrameInv, HalvesTo
<1>3. f.pad # build.Base
  BY <1>1
<1>4. f.pad % 2 = 0 /\ h \in sizes
  BY <1>2, <1>3
<1>5. f.pad = 2 * h
  BY <1>1, <1>4
<1>6. h \in build.Base .. f.pad
  BY <1>2, <1>4
<1>7. h \in Nat \ {0} /\ h >= build.Base
  BY <1>1, <1>6
<1>8. h % build.Base = 0
  BY <1>2, <1>4
<1>9. h % build.Reg = 0
  BY <1>1, <1>7, <1>8, MultipleOfMultiple
<1>10. HalvesTo(build.Base, h)
  <2> DEFINE below == {p \in sizes : p <= h}
  <2>1. \A p \in below : p \in Nat /\ p <= h /\ p >= build.Base
    BY <1>1, <1>2
  <2>2. below \in SUBSET (build.Base .. h)
    <3>1. \A p \in below : p \in build.Base .. h
      BY <1>1, <1>7, <2>1
    <3>2. QED
      BY <3>1
  <2>3. h \in below
    BY <1>4, <1>7
  <2>4. ASSUME NEW p \in below
        PROVE  /\ p % build.Base = 0
               /\ p # build.Base => p % 2 = 0 /\ p \div 2 \in below
    <3>1. p \in Nat /\ p <= h /\ h \in Nat
      BY <1>7, <2>1, <2>4
    <3>2. p \div 2 <= h
      BY <3>1
    <3>3. QED
      BY <1>2, <2>4, <3>2
  <2> HIDE DEF below
  <2>5. QED
    BY <2>2, <2>3, <2>4 DEF HalvesTo
<1>11. QED
  BY <1>5, <1>7, <1>9, <1>10

(* t is s with a new call on it, and g for the caller at the top of s. *)
Pushed(s, t, new, g) ==
  /\ t \in Seq(Frames) /\ Len(t) = Len(s) + 1
  /\ t[1] = new /\ t[2] = g
  /\ \A k \in 3..Len(t) : t[k] = s[k-1]

(* g is f but for its step. *)
SameCall(g, f) ==
  /\ g.c = f.c /\ g.src = f.src /\ g.a = f.a /\ g.b = f.b
  /\ g.len = f.len /\ g.pad = f.pad /\ g.sec = f.sec

(* What a call does to the stack, in terms of positions. *)
LEMMA Consed ==
  ASSUME NEW s \in Seq(Frames), Len(s) >= 1,
         NEW u \in Seq(Frames), Len(u) = Len(s),
         \A k \in 2..Len(s) : u[k] = s[k],
         NEW new \in Frames, NEW t, t = <<new>> \o u
  PROVE  Pushed(s, t, new, u[1])
<1>1. /\ t \in Seq(Frames) /\ Len(t) = Len(u) + 1 /\ t[1] = new
      /\ \A k \in 2..Len(t) : t[k] = u[k-1]
  OBVIOUS
<1>2. Len(s) \in Nat
  OBVIOUS
<1>3. t[2] = u[1]
  BY <1>1, <1>2
<1>4. \A k \in 3..Len(t) : t[k] = s[k-1]
  BY <1>1, <1>2
<1>5. QED
  BY <1>1, <1>3, <1>4 DEF Pushed

(* new is what Call pushes, and g what it makes of the caller. *)
CallPushed(new, g, at, src, a, b, len, st) ==
  /\ Pushed(stack, stack', new, g)
  /\ SameCall(g, Top) /\ g.step = st
  /\ new.c = at /\ new.src = src /\ new.a = a /\ new.b = b
  /\ new.len = len /\ new.pad = Half /\ new.sec = Free
  /\ new.step = "enter"

(* What Call does to the stack. *)
LEMMA CallPushes ==
  ASSUME stack \in Seq(Frames), stack # <<>>, Half \in Nat \ {0},
         NEW at \in Nat, NEW src \in {"in", "sec"},
         NEW a \in Nat, NEW b \in Nat,
         NEW len \in Nat \ {0},
         NEW st \in {"low_done", "high_done", "middle_done"},
         Call(at, src, a, b, len, st)
  PROVE  \E new, g \in Frames : CallPushed(new, g, at, src, a, b, len, st)
<1> DEFINE u == GoTo(st)
           g == [stack[1] EXCEPT !.step = st]
           new == [c |-> at, src |-> src, a |-> a, b |-> b, len |-> len,
                   pad |-> Half, sec |-> Free, step |-> "enter"]
<1>1. Len(stack) \in Nat /\ Len(stack) >= 1 /\ stack[1] \in Frames
      /\ Top = stack[1]
  BY DEF Top
<1>2. g \in Frames /\ SameCall(g, Top) /\ g.step = st
  BY <1>1 DEF Frames, SameCall
<1>3. /\ u \in Seq(Frames) /\ Len(u) = Len(stack) /\ u[1] = g
      /\ \A k \in 2..Len(stack) : u[k] = stack[k]
  BY <1>1, <1>2 DEF GoTo
<1>4. Free \in Nat
  <2>1. Top.sec \in Nat
    BY <1>1 DEF Frames
  <2>2. QED
    BY <2>1 DEF Free
<1>5. new \in Frames
  BY <1>4 DEF Frames
<1>6. /\ new.c = at /\ new.src = src /\ new.a = a /\ new.b = b
      /\ new.len = len /\ new.pad = Half /\ new.sec = Free
      /\ new.step = "enter"
  OBVIOUS
<1>7. stack' = <<new>> \o u
  BY DEF Call
<1> HIDE DEF u, g, new
<1>8. Pushed(stack, stack', new, u[1])
  BY <1>1, <1>3, <1>5, <1>7, Consed
<1>9. Pushed(stack, stack', new, g)
  BY <1>3, <1>8
<1>10. CallPushed(new, g, at, src, a, b, len, st)
  BY <1>2, <1>6, <1>9 DEF CallPushed
<1>11. QED
  BY <1>2, <1>5, <1>10

(* What a return does to the stack, in terms of positions. *)
LEMMA Popped ==
  ASSUME NEW s \in Seq(Frames), s # <<>>
  PROVE  /\ Tail(s) \in Seq(Frames) /\ Len(Tail(s)) = Len(s) - 1
         /\ \A k \in 1..Len(s)-1 : Tail(s)[k] = s[k+1]
         /\ Tail(s) = <<>> <=> Len(s) = 1
         /\ Len(s) \in Nat /\ Len(s) >= 1
<1>1. /\ Tail(s) \in Seq(Frames) /\ Len(Tail(s)) = Len(s) - 1
      /\ \A k \in 1..Len(s)-1 : Tail(s)[k] = s[k+1]
      /\ Len(s) \in Nat /\ Len(s) >= 1
  OBVIOUS
<1>2. Tail(s) = <<>> <=> Len(Tail(s)) = 0
  BY <1>1, EmptySeq, Zenon
<1>3. QED
  BY <1>1, <1>2

(* Returning leaves the callers as they were. *)
LEMMA ReturnCalls ==
  ASSUME NEW s, CallsInv(s), s # <<>>
  PROVE  CallsInv(Tail(s))
<1>1. s \in Seq(Frames)
  BY DEF CallsInv
<1>2. /\ Tail(s) \in Seq(Frames) /\ Len(Tail(s)) = Len(s) - 1
      /\ \A k \in 1..Len(s)-1 : Tail(s)[k] = s[k+1]
      /\ Tail(s) = <<>> <=> Len(s) = 1
      /\ Len(s) \in Nat /\ Len(s) >= 1
  BY <1>1, Popped
<1> DEFINE t == Tail(s)
<1> HIDE DEF t
<1>3. /\ t \in Seq(Frames) /\ Len(t) = Len(s) - 1
      /\ \A k \in 1..Len(s)-1 : t[k] = s[k+1]
      /\ t = <<>> <=> Len(s) = 1
  BY <1>2 DEF t
<1>4. \A k \in 1..Len(t) : FrameInv(t[k])
  BY <1>2, <1>3 DEF CallsInv
<1>5. ASSUME NEW k \in 1..Len(t), k < Len(t)
      PROVE  CalledBy(t[k], t[k+1])
  <2>1. k + 1 \in 1..Len(s) /\ k + 1 < Len(s) /\ k \in 1..Len(s)-1 /\ k + 1 \in 1..Len(s)-1
    BY <1>2, <1>3, <1>5
  <2>2. t[k] = s[k+1] /\ t[k+1] = s[(k+1)+1]
    BY <1>3, <2>1
  <2>3. CalledBy(s[k+1], s[(k+1)+1])
    BY <2>1 DEF CallsInv
  <2>4. QED
    BY <2>2, <2>3
<1>6. ASSUME NEW k \in 1..Len(t), NEW j \in 1..Len(t), k <= j
      PROVE  Inside(t[k], t[j])
  <2>1. /\ k + 1 \in 1..Len(s) /\ j + 1 \in 1..Len(s) /\ k + 1 <= j + 1
        /\ k \in 1..Len(s)-1 /\ j \in 1..Len(s)-1
    BY <1>2, <1>3, <1>6
  <2>2. t[k] = s[k+1] /\ t[j] = s[j+1]
    BY <1>3, <2>1
  <2>3. Inside(s[k+1], s[j+1])
    BY <2>1 DEF CallsInv
  <2>4. QED
    BY <2>2, <2>3
<1>7. t # <<>> => Root(t[Len(t)])
  <2>1. SUFFICES ASSUME t # <<>>
                 PROVE  Root(t[Len(t)])
    OBVIOUS
  <2>2. Len(t) \in 1..Len(s)-1 /\ Len(t) + 1 = Len(s)
    BY <1>2, <1>3, <2>1
  <2>3. t[Len(t)] = s[Len(s)]
    BY <1>3, <2>2
  <2>4. QED
    BY <2>3 DEF CallsInv
<1>8. CallsInv(t)
  BY <1>3, <1>4, <1>5, <1>6, <1>7 DEF CallsInv
<1>9. QED
  BY <1>8 DEF t

(* The place of a call lies in that of its caller's caller. *)
LEMMA InsideInside ==
  ASSUME NEW f \in Frames, NEW g \in Frames, NEW h \in Frames,
         Inside(f, g), Inside(g, h)
  PROVE  Inside(f, h)
BY DEF Inside, Frames

(* A call adds a frame that works inside its caller. *)
LEMMA PushCalls ==
  ASSUME NEW s, CallsInv(s), s # <<>>, NEW t, NEW new \in Frames, NEW g,
         Pushed(s, t, new, g), SameCall(g, s[1]), s[1].len > build.Base,
         FrameInv(new), CalledBy(new, g), Inside(new, s[1])
  PROVE  CallsInv(t)
<1>1. s \in Seq(Frames) /\ s[1] \in Frames /\ Len(s) \in Nat /\ Len(s) >= 1
  BY DEF CallsInv
<1>2. /\ g.c = s[1].c /\ g.src = s[1].src /\ g.a = s[1].a /\ g.b = s[1].b
      /\ g.len = s[1].len /\ g.pad = s[1].pad /\ g.sec = s[1].sec
  BY DEF SameCall
<1>3. /\ t \in Seq(Frames) /\ Len(t) = Len(s) + 1
      /\ t[1] = new /\ t[2] = g
      /\ \A k \in 3..Len(t) : t[k] = s[k-1]
  BY DEF Pushed
<1>10. Len(s) \in Nat /\ Len(s) >= 1 /\ Len(t) = Len(s) + 1
  BY <1>1, <1>3
<1>4. ASSUME NEW k \in 1..Len(t)
      PROVE  FrameInv(t[k])
  <2>1. CASE k = 1
    BY <1>3, <2>1
  <2>2. CASE k = 2
    <3>1. FrameInv(s[1])
      BY <1>1 DEF CallsInv
    <3>2. QED
      BY <1>2, <1>3, <2>2, <3>1 DEF FrameInv
  <2>3. CASE k \in 3..Len(t)
    <3>1. k - 1 \in 1..Len(s)
      BY <1>1, <1>3, <2>3
    <3>2. QED
      BY <1>3, <2>3, <3>1 DEF CallsInv
  <2>4. QED
    BY <1>1, <1>3, <1>4, <2>1, <2>2, <2>3
<1>5. ASSUME NEW k \in 1..Len(t), k < Len(t)
      PROVE  CalledBy(t[k], t[k+1])
  <2>1. CASE k = 1
    BY <1>3, <2>1
  <2>2. CASE k = 2
    <3>1. Len(s) >= 2
      BY <1>1, <1>3, <1>5, <2>2
    <3>2. CalledBy(s[1], s[2])
      <4>1. 1 \in 1..Len(s) /\ 1 < Len(s) /\ 1 + 1 = 2
        BY <1>1, <3>1
      <4>2. QED
        BY <4>1, Zenon DEF CallsInv
    <3>3. t[k] = g /\ t[k+1] = s[2]
      BY <1>1, <1>3, <2>2, <3>1
    <3>4. QED
      BY <1>2, <3>2, <3>3 DEF CalledBy
  <2>3. CASE k \in 3..Len(t)
    <3>1. k - 1 \in 1..Len(s) /\ k - 1 < Len(s) /\ (k - 1) + 1 = k
      BY <1>1, <1>3, <1>5, <2>3
    <3>2. k + 1 \in 3..Len(t) /\ (k + 1) - 1 = (k - 1) + 1
      BY <1>1, <1>3, <1>5, <2>3
    <3>5. t[k+1] = s[(k+1)-1] /\ t[k] = s[k-1]
      BY <1>3, <2>3, <3>2
    <3>3. CalledBy(s[k-1], s[(k-1)+1])
      BY <3>1 DEF CallsInv
    <3>4. QED
      BY <3>2, <3>3, <3>5
  <2>4. QED
    BY <1>1, <1>3, <1>5, <2>1, <2>2, <2>3
<1>6. ASSUME NEW j \in 1..Len(t), j # 1
      PROVE  \E i \in 1..Len(s) : i = j - 1 /\ t[j].c = s[i].c
                /\ t[j].pad = s[i].pad /\ t[j].sec = s[i].sec
  <2>1. j - 1 \in 1..Len(s)
    BY <1>1, <1>3, <1>6
  <2>2. CASE j = 2
    BY <1>1, <1>2, <1>3, <2>1, <2>2
  <2>3. CASE j # 2
    BY <1>1, <1>3, <1>6, <2>1, <2>3
  <2>4. QED
    BY <2>2, <2>3
<1>7. ASSUME NEW k \in 1..Len(t), NEW j \in 1..Len(t), k <= j
      PROVE  Inside(t[k], t[j])
  <2>1. CASE j = 1
    <3>1. t[k] = new /\ t[j] = new
      BY <1>3, <1>7, <2>1
    <3>2. new.c \in Nat /\ new.pad \in Nat /\ new.sec \in Nat
      BY DEF Frames
    <3>3. Inside(new, new)
      BY <3>2 DEF Inside
    <3>4. QED
      BY <3>1, <3>3
  <2>2. CASE j # 1
    <3>1. PICK i \in 1..Len(s) :
            i = j - 1 /\ t[j].c = s[i].c
              /\ t[j].pad = s[i].pad /\ t[j].sec = s[i].sec
      BY <1>6, <2>2
    <3>2. s[i] \in Frames
      BY <1>1, <3>1
    <3>3. CASE k = 1
      <4>1. Inside(s[1], s[i])
        <5>1. 1 \in 1..Len(s) /\ 1 <= i
          BY <1>1, <3>1
        <5>2. QED
          BY <5>1, Zenon DEF CallsInv
      <4>2. t[k] = new
        BY <1>3, <3>3
      <4>3. Inside(new, s[i])
        BY <1>1, <3>2, <4>1, InsideInside
      <4>4. QED
        BY <3>1, <4>2, <4>3 DEF Inside
    <3>4. CASE k # 1
      <4>1. PICK l \in 1..Len(s) :
              l = k - 1 /\ t[k].c = s[l].c
                /\ t[k].pad = s[l].pad /\ t[k].sec = s[l].sec
        BY <1>6, <3>4
      <4>2. l <= i
        BY <1>7, <3>1, <4>1
      <4>3. Inside(s[l], s[i])
        BY <4>2 DEF CallsInv
      <4>4. QED
        BY <3>1, <4>1, <4>3 DEF Inside
    <3>5. QED
      BY <3>3, <3>4
  <2>3. QED
    BY <2>1, <2>2
<1>8. Root(t[Len(t)])
  <2>1. Root(s[Len(s)])
    BY <1>1 DEF CallsInv
  <2> DEFINE n == Len(s)
  <2>5. n \in Nat /\ n >= 1 /\ Len(t) = n + 1
    BY <1>10
  <2>2. CASE Len(s) = 1
    BY <1>2, <1>3, <2>1, <2>2 DEF Root
  <2>3. CASE Len(s) # 1
    <3>1. Len(t) \in 3..Len(t) /\ Len(t) - 1 = Len(s)
      <4> HIDE DEF n
      <4>1. n # 1
        BY <2>3 DEF n
      <4>2. n >= 2
        BY <2>5, <4>1
      <4>3. Len(t) \in 3..Len(t) /\ Len(t) - 1 = n
        BY <2>5, <4>2
      <4>4. QED
        BY <4>3 DEF n
    <3>2. t[Len(t)] = s[Len(s)]
      BY <1>3, <3>1
    <3>3. QED
      BY <2>1, <3>2
  <2>4. QED
    BY <2>2, <2>3
<1>9. QED
  BY <1>3, <1>4, <1>5, <1>7, <1>8 DEF CallsInv

(***************************************************************************)
(* Every step of the recursion.                                            *)
(***************************************************************************)

(* The innermost call is one of those the invariant speaks of. *)
LEMMA TopFacts ==
  ASSUME StackInv, pc = "karatzuba"
  PROVE  /\ stack \in Seq(Frames) /\ stack # <<>> /\ build \in Builds
         /\ Top = stack[1] /\ Top \in Frames /\ FrameInv(Top)
         /\ 1 \in 1..Len(stack) /\ Len(stack) \in Nat
<1>1. stack \in Seq(Frames) /\ stack # <<>> /\ build \in Builds
  BY DEF StackInv, CallsInv
<1>2. Len(stack) \in Nat /\ 1 \in 1..Len(stack) /\ stack[1] \in Frames
      /\ Head(stack) = stack[1]
  BY <1>1
<1>3. FrameInv(stack[1])
  BY <1>2 DEF StackInv, CallsInv
<1>4. QED
  BY <1>1, <1>2, <1>3 DEF Top

(* The numbers of a call that calls again. *)
LEMMA HalfFacts ==
  ASSUME StackInv, pc = "karatzuba", Top.len > build.Base
  PROVE  /\ Half \in Nat \ {0} /\ Top.pad = 2 * Half /\ Half >= build.Base
         /\ HalvesTo(build.Base, Half) /\ Half % build.Reg = 0
         /\ build.Base \in Nat \ {0} /\ build.Pad \in Nat \ {0}
         /\ Top.c \in Nat /\ Top.a \in Nat /\ Top.b \in Nat
         /\ Top.sec \in Nat /\ Top.len \in Nat /\ Top.src \in {"in", "sec"}
         /\ Top.len <= 2 * Half
         /\ Top.c + 4 * Half <= 2 * build.Pad
         /\ Top.sec + 6 * Half <= 3 * build.Pad
         /\ Free = Top.sec + 3 * Half
<1>1. build \in Builds /\ Top \in Frames /\ FrameInv(Top)
  BY TopFacts
<1>2. /\ Half \in Nat \ {0} /\ Top.pad = 2 * Half /\ Half >= build.Base
      /\ HalvesTo(build.Base, Half) /\ Half % build.Reg = 0
  BY <1>1, HalfSize DEF Half
<1>3. /\ Top.c \in Nat /\ Top.a \in Nat /\ Top.b \in Nat
      /\ Top.sec \in Nat /\ Top.len \in Nat /\ Top.src \in {"in", "sec"}
  BY <1>1 DEF Frames
<1>4. /\ build.Base \in Nat \ {0} /\ build.Pad \in Nat \ {0}
  BY <1>1, BuildFacts
<1>5. /\ Top.len <= 2 * Half
      /\ Top.c + 4 * Half <= 2 * build.Pad
      /\ Top.sec + 6 * Half <= 3 * build.Pad
  BY <1>1, <1>2, <1>3, <1>4 DEF FrameInv
<1>6. QED
  BY <1>2, <1>3, <1>4, <1>5 DEF Free

(* CallsInv reads only the build and the stack. *)
LEMMA StillCalls ==
  ASSUME build' = build, CallsInv(stack')
  PROVE  CallsInv(stack)'
BY DEF CallsInv, FrameInv, CalledBy, Inside, Root, HalvesTo, RQwords

(* A step that calls keeps the calls nested. *)
LEMMA CallsStep ==
  ASSUME StackInv, pc = "karatzuba", build' = build, pc' = pc,
         NEW new \in Frames, NEW g \in Frames, Pushed(stack, stack', new, g),
         SameCall(g, Top), Top.len > build.Base,
         FrameInv(new), CalledBy(new, g), Inside(new, Top)
  PROVE  StackInv'
<1>1. Top = stack[1] /\ stack # <<>> /\ CallsInv(stack)
  BY TopFacts DEF StackInv
<1>2. CallsInv(stack')
  BY <1>1, PushCalls
<1>3. stack' # <<>>
  BY <1>1 DEF Pushed
<1>4. QED
  BY <1>2, <1>3, StillCalls DEF StackInv

(* So does a step that returns. *)
LEMMA ReturnStep ==
  ASSUME StackInv, pc = "karatzuba", build' = build, Return
  PROVE  StackInv'
<1>1. stack \in Seq(Frames) /\ stack # <<>> /\ CallsInv(stack)
  BY TopFacts DEF StackInv
<1>2. CallsInv(stack')
  BY <1>1, ReturnCalls DEF Return
<1>3. stack' = <<>> <=> Len(stack) = 1
  BY <1>1, Popped DEF Return
<1>4. pc' = "karatzuba" <=> Len(stack) # 1
  BY DEF Return
<1>5. pc' \in {"karatzuba", "red"}
  BY DEF Return
<1>6. QED
  BY <1>2, <1>3, <1>4, <1>5, StillCalls DEF StackInv

(* The call on the low halves. *)
LEMMA LowCall ==
  ASSUME StackInv, MultiplyLow
  PROVE  /\ pc = "karatzuba" /\ Top.len > build.Base
         /\ \E new, g \in Frames :
              /\ Pushed(stack, stack', new, g)
              /\ SameCall(g, Top) /\ g.step = "low_done"
              /\ new.step = "enter" /\ new.pad = Half /\ new.len = Half
              /\ FrameInv(new) /\ CalledBy(new, g) /\ Inside(new, Top)
         /\ StackInv'
<1>1. /\ pc = "karatzuba" /\ Top.step = "enter" /\ Top.len > build.Base
      /\ build' = build /\ pc' = pc
      /\ Call(Top.c, Top.src, Top.a, Top.b, Half, "low_done")
  BY DEF MultiplyLow, At
<1>2. /\ Half \in Nat \ {0} /\ Top.pad = 2 * Half /\ HalvesTo(build.Base, Half)
      /\ build.Base \in Nat \ {0} /\ build.Pad \in Nat \ {0}
      /\ Top.c \in Nat /\ Top.a \in Nat /\ Top.b \in Nat
      /\ Top.sec \in Nat /\ Top.src \in {"in", "sec"}
      /\ Top.c + 4 * Half <= 2 * build.Pad
      /\ Top.sec + 6 * Half <= 3 * build.Pad
      /\ Free = Top.sec + 3 * Half
  BY <1>1, HalfFacts
<1>3. stack \in Seq(Frames) /\ stack # <<>> /\ FrameInv(Top)
  BY <1>1, TopFacts
<1>9. PICK new, g \in Frames :
        CallPushed(new, g, Top.c, Top.src, Top.a, Top.b, Half, "low_done")
  BY <1>1, <1>2, <1>3, CallPushes
<1>4. /\ Pushed(stack, stack', new, g)
      /\ SameCall(g, Top) /\ g.step = "low_done"
      /\ new.c = Top.c /\ new.src = Top.src /\ new.a = Top.a
      /\ new.b = Top.b
      /\ new.len = Half /\ new.pad = Half /\ new.sec = Free
      /\ new.step = "enter"
  BY <1>9 DEF CallPushed
<1>10. /\ Top.src = "in" => /\ Top.a + 2 * Half <= build.Pad
                            /\ Top.b + 2 * Half <= build.Pad
       /\ Top.src = "sec" => /\ Top.a + 2 * Half <= Top.sec
                             /\ Top.b + 2 * Half <= Top.sec
  BY <1>2, <1>3 DEF FrameInv
<1>5. FrameInv(new)
  <2>1. /\ HalvesTo(build.Base, new.pad) /\ new.len <= new.pad
        /\ new.c + 2 * new.pad <= 2 * build.Pad
        /\ new.sec + 3 * new.pad <= 3 * build.Pad
        /\ ~(new.len < new.pad)
    BY <1>2, <1>4
  <2>2. /\ new.src = "in" => new.a + new.pad <= build.Pad
                             /\ new.b + new.pad <= build.Pad
        /\ new.src = "sec" => new.a + new.pad <= new.sec
                              /\ new.b + new.pad <= new.sec
    BY <1>2, <1>4, <1>10
  <2>3. QED
    BY <1>4, <2>1, <2>2 DEF FrameInv
<1>6. CalledBy(new, g)
  BY <1>2, <1>4 DEF CalledBy, SameCall
<1>7. Inside(new, Top)
  BY <1>2, <1>4 DEF Inside
<1>8. StackInv'
  BY <1>1, <1>4, <1>5, <1>6, <1>7, CallsStep
<1>11. QED
  BY <1>1, <1>4, <1>5, <1>6, <1>7, <1>8

(* The call on the high halves. *)
LEMMA HighCall ==
  ASSUME StackInv, MultiplyHigh
  PROVE  /\ pc = "karatzuba" /\ Top.len > build.Base
         /\ \E new, g \in Frames :
              /\ Pushed(stack, stack', new, g)
              /\ SameCall(g, Top) /\ g.step = "high_done"
              /\ new.step = "enter" /\ new.pad = Half
              /\ new.len = Top.len - Half
              /\ FrameInv(new) /\ CalledBy(new, g) /\ Inside(new, Top)
         /\ StackInv'
<1>1. /\ pc = "karatzuba" /\ Top.step = "low_done" /\ Top.len > Half
      /\ build' = build /\ pc' = pc
      /\ Call(Top.c + 2 * Half, Top.src, Top.a + Half, Top.b + Half,
              Top.len - Half, "high_done")
  BY DEF MultiplyHigh, At
<1>3. stack \in Seq(Frames) /\ stack # <<>> /\ FrameInv(Top)
  BY <1>1, TopFacts
<1>9. Top.len > build.Base
  BY <1>1, <1>3 DEF FrameInv
<1>2. /\ Half \in Nat \ {0} /\ Top.pad = 2 * Half /\ HalvesTo(build.Base, Half)
      /\ build.Base \in Nat \ {0} /\ build.Pad \in Nat \ {0}
      /\ Top.c \in Nat /\ Top.a \in Nat /\ Top.b \in Nat
      /\ Top.sec \in Nat /\ Top.src \in {"in", "sec"} /\ Top.len \in Nat
      /\ Top.len <= 2 * Half
      /\ Top.c + 4 * Half <= 2 * build.Pad
      /\ Top.sec + 6 * Half <= 3 * build.Pad
      /\ Free = Top.sec + 3 * Half
  BY <1>1, <1>9, HalfFacts
<1>10. /\ Top.c + 2 * Half \in Nat /\ Top.a + Half \in Nat
       /\ Top.b + Half \in Nat /\ Top.len - Half \in Nat \ {0}
  BY <1>1, <1>2
<1>13. PICK new, g \in Frames :
         CallPushed(new, g, Top.c + 2 * Half, Top.src, Top.a + Half,
                    Top.b + Half, Top.len - Half, "high_done")
  BY <1>1, <1>2, <1>3, <1>10, CallPushes
<1>4. /\ Pushed(stack, stack', new, g)
      /\ SameCall(g, Top) /\ g.step = "high_done"
      /\ new.c = Top.c + 2 * Half /\ new.src = Top.src
      /\ new.a = Top.a + Half /\ new.b = Top.b + Half
      /\ new.len = Top.len - Half /\ new.pad = Half /\ new.sec = Free
      /\ new.step = "enter"
  BY <1>13 DEF CallPushed
<1>14. /\ Top.src = "in" => /\ Top.a + 2 * Half <= build.Pad
                            /\ Top.b + 2 * Half <= build.Pad
       /\ Top.src = "sec" => /\ Top.a + 2 * Half <= Top.sec
                             /\ Top.b + 2 * Half <= Top.sec
       /\ Top.len < 2 * Half => /\ Top.src = "in"
                                /\ Top.a + Top.len = RQwords
                                /\ Top.b + Top.len = RQwords
  BY <1>2, <1>3 DEF FrameInv
<1>11. RQwords \in Nat /\ build \in Builds
  BY <1>1, TopFacts, QwordsOfR
<1>5. FrameInv(new)
  <2>1. /\ HalvesTo(build.Base, new.pad) /\ new.len <= new.pad
        /\ new.c + 2 * new.pad <= 2 * build.Pad
        /\ new.sec + 3 * new.pad <= 3 * build.Pad
    BY <1>2, <1>4
  <2>2. /\ new.src = "in" => new.a + new.pad <= build.Pad
                             /\ new.b + new.pad <= build.Pad
        /\ new.src = "sec" => new.a + new.pad <= new.sec
                              /\ new.b + new.pad <= new.sec
    BY <1>2, <1>4, <1>14
  <2>3. new.len < new.pad => /\ new.src = "in"
                             /\ new.a + new.len = RQwords
                             /\ new.b + new.len = RQwords
    BY <1>2, <1>4, <1>11, <1>14
  <2>4. QED
    BY <1>4, <2>1, <2>2, <2>3 DEF FrameInv
<1>6. CalledBy(new, g)
  BY <1>2, <1>4 DEF CalledBy, SameCall
<1>7. Inside(new, Top)
  BY <1>2, <1>4 DEF Inside
<1>8. StackInv'
  BY <1>1, <1>4, <1>5, <1>6, <1>7, <1>9, CallsStep
<1>12. QED
  BY <1>1, <1>4, <1>5, <1>6, <1>7, <1>8, <1>9

(* The call on the sums. *)
LEMMA MiddleCall ==
  ASSUME StackInv, MultiplyMiddle
  PROVE  /\ pc = "karatzuba" /\ Top.len > build.Base
         /\ \E new, g \in Frames :
              /\ Pushed(stack, stack', new, g)
              /\ SameCall(g, Top) /\ g.step = "middle_done"
              /\ new.step = "enter" /\ new.pad = Half /\ new.len = Half
              /\ FrameInv(new) /\ CalledBy(new, g) /\ Inside(new, Top)
         /\ StackInv'
<1>1. /\ pc = "karatzuba" /\ Top.step = "high_done"
      /\ build' = build /\ pc' = pc
      /\ Call(Top.c + Half, "sec", Alah, Blbh, Half, "middle_done")
  BY DEF MultiplyMiddle, At
<1>2. stack \in Seq(Frames) /\ stack # <<>> /\ FrameInv(Top)
  BY <1>1, TopFacts
<1>3. Top.len > build.Base
  BY <1>1, <1>2 DEF FrameInv
<1>4. /\ Half \in Nat \ {0} /\ Top.pad = 2 * Half /\ HalvesTo(build.Base, Half)
      /\ build.Base \in Nat \ {0} /\ build.Pad \in Nat \ {0}
      /\ Top.c \in Nat /\ Top.sec \in Nat
      /\ Top.c + 4 * Half <= 2 * build.Pad
      /\ Top.sec + 6 * Half <= 3 * build.Pad
      /\ Free = Top.sec + 3 * Half
  BY <1>1, <1>3, HalfFacts
<1>5. Alah = Top.sec /\ Blbh = Top.sec + Half
  BY DEF Alah, Blbh
<1>6. Top.c + Half \in Nat /\ Alah \in Nat /\ Blbh \in Nat
  BY <1>4, <1>5
<1>13. PICK new, g \in Frames :
         CallPushed(new, g, Top.c + Half, "sec", Alah, Blbh, Half,
                    "middle_done")
  BY <1>1, <1>2, <1>4, <1>6, CallPushes
<1>7. /\ Pushed(stack, stack', new, g)
      /\ SameCall(g, Top) /\ g.step = "middle_done"
      /\ new.c = Top.c + Half /\ new.src = "sec"
      /\ new.a = Alah /\ new.b = Blbh
      /\ new.len = Half /\ new.pad = Half /\ new.sec = Free
      /\ new.step = "enter"
  BY <1>13 DEF CallPushed
<1>8. FrameInv(new)
  BY <1>4, <1>5, <1>7 DEF FrameInv
<1>9. CalledBy(new, g)
  BY <1>4, <1>5, <1>7 DEF CalledBy, SameCall
<1>10. Inside(new, Top)
  BY <1>4, <1>7 DEF Inside
<1>11. StackInv'
  BY <1>1, <1>3, <1>7, <1>8, <1>9, <1>10, CallsStep
<1>12. QED
  BY <1>1, <1>3, <1>7, <1>8, <1>9, <1>10, <1>11

(* The call of gf2x_mul_with_ctx is nested in nothing. *)
LEMMA InitStack ==
  ASSUME Init
  PROVE  StackInv
<1> DEFINE f == [c |-> 0, src |-> "in", a |-> 0, b |-> 0, len |-> RQwords,
                 pad |-> build.Pad, sec |-> 0, step |-> "enter"]
<1>1. build \in Builds /\ stack = <<f>> /\ pc = "karatzuba"
  BY DEF Init
<1>2. /\ build.Pad \in Nat \ {0} /\ RQwords \in Nat \ {0}
      /\ RQwords <= build.Pad /\ HalvesTo(build.Base, build.Pad)
  BY <1>1, BuildFacts, QwordsOfR
<1>3. f \in Frames
  BY <1>2 DEF Frames
<1>4. /\ f.c = 0 /\ f.src = "in" /\ f.a = 0 /\ f.b = 0 /\ f.len = RQwords
      /\ f.pad = build.Pad /\ f.sec = 0 /\ f.step = "enter"
  OBVIOUS
<1> HIDE DEF f
<1>5. FrameInv(f)
  BY <1>2, <1>4 DEF FrameInv
<1>6. Inside(f, f) /\ Root(f)
  BY <1>2, <1>4 DEF Inside, Root
<1>7. /\ stack \in Seq(Frames) /\ Len(stack) = 1 /\ stack[1] = f
      /\ stack # <<>>
  BY <1>1, <1>3
<1>8. CallsInv(stack)
  BY <1>5, <1>6, <1>7 DEF CallsInv
<1>9. QED
  BY <1>1, <1>7, <1>8 DEF StackInv

(* Every step keeps the calls nested. *)
LEMMA StackStep ==
  ASSUME StackInv, [Next]_vars
  PROVE  StackInv'
<1>1. CASE MulBase
  BY <1>1, ReturnStep DEF MulBase, At
<1>2. CASE MultiplyLow
  BY <1>2, LowCall
<1>3. CASE SkipHigh
  BY <1>3, ReturnStep DEF SkipHigh, At
<1>4. CASE MultiplyHigh
  BY <1>4, HighCall
<1>5. CASE MultiplyMiddle
  BY <1>5, MiddleCall
<1>6. CASE AddMiddle
  BY <1>6, ReturnStep DEF AddMiddle, At
<1>7. CASE Red
  <2>1. pc = "red" /\ pc' = "done" /\ build' = build /\ stack' = stack
    BY <1>7 DEF Red
  <2>2. CallsInv(stack')
    BY <2>1 DEF StackInv
  <2>3. QED
    BY <2>1, <2>2, StillCalls DEF StackInv
<1>8. CASE UNCHANGED vars
  <2>1. build' = build /\ stack' = stack /\ pc' = pc
    BY <1>8 DEF vars
  <2>2. CallsInv(stack')
    BY <2>1 DEF StackInv
  <2>3. QED
    BY <2>1, <2>2, StillCalls DEF StackInv
<1>9. QED
  BY <1>1, <1>2, <1>3, <1>4, <1>5, <1>6, <1>7, <1>8 DEF Next

(* The calls nest: each works inside its caller, at half its size. *)
THEOREM CallsNest == Spec => []StackInv
<1>1. Init => StackInv
  BY InitStack
<1>2. StackInv /\ [Next]_vars => StackInv'
  BY StackStep
<1>3. QED
  BY <1>1, <1>2, PTL DEF Spec

(* No call reads or writes out of bounds, for any padded length that is    *)
(* mul_base_qwords doubled: three times that length is enough for all      *)
(* levels, each of which has a part of the buffer above its callers'.      *)
THEOREM BuffersAreEnough == Spec => []BuffersSuffice
<1>1. StackInv => BuffersSuffice
  <2>1. SUFFICES ASSUME StackInv, NEW k \in 1..Len(stack),
                        NEW f, f = stack[k]
                 PROVE  LET n == Larger(f.pad, build.Base)
                        IN  /\ f.c + 2 * n <= 2 * build.Pad
                            /\ f.src = "in" => /\ f.a + n <= build.Pad
                                               /\ f.b + n <= build.Pad
                            /\ f.src = "sec" => /\ f.a + n <= f.sec
                                                /\ f.b + n <= f.sec
                            /\ f.len > build.Base =>
                                 /\ f.sec + 3 * (f.pad \div 2)
                                      <= SecureBufferQwords
                                 /\ (f.pad \div 2) % build.Reg = 0
                            /\ k < Len(stack) =>
                                 f.sec >= stack[k+1].sec + 3 * f.pad
    BY DEF BuffersSuffice
  <2>2. f \in Frames /\ FrameInv(f) /\ build \in Builds
    BY <2>1 DEF StackInv, CallsInv
  <2>3. /\ f.pad \in Nat \ {0} /\ f.sec \in Nat /\ f.c \in Nat
        /\ build.Pad \in Nat \ {0} /\ build.Base \in Nat \ {0}
    BY <2>2, BuildFacts DEF Frames
  <2>4. f.pad >= build.Base
    BY <2>2, <2>3 DEF FrameInv, HalvesTo
  <2>5. Larger(f.pad, build.Base) = f.pad
    BY <2>3, <2>4 DEF Larger
  <2>6. /\ f.c + 2 * f.pad <= 2 * build.Pad
        /\ f.src = "in" => f.a + f.pad <= build.Pad /\ f.b + f.pad <= build.Pad
        /\ f.src = "sec" => f.a + f.pad <= f.sec /\ f.b + f.pad <= f.sec
        /\ f.sec + 3 * f.pad <= 3 * build.Pad
    BY <2>2 DEF FrameInv
  <2>7. ASSUME f.len > build.Base
        PROVE  /\ f.sec + 3 * (f.pad \div 2) <= SecureBufferQwords
               /\ (f.pad \div 2) % build.Reg = 0
    <3> DEFINE h == f.pad \div 2
    <3>1. h \in Nat \ {0} /\ f.pad = 2 * h /\ h % build.Reg = 0
      BY <2>2, <2>7, HalfSize
    <3> HIDE DEF h
    <3>2. f.sec + 3 * h <= 3 * build.Pad
      <4>1. f.sec + 3 * f.pad <= 3 * build.Pad
        BY <2>6
      <4>2. QED
        BY <2>3, <3>1, <4>1
    <3>3. QED
      BY <3>1, <3>2 DEF h, SecureBufferQwords
  <2>8. ASSUME k < Len(stack)
        PROVE  f.sec >= stack[k+1].sec + 3 * f.pad
    <3>1. CalledBy(stack[k], stack[k+1])
      BY <2>1, <2>8 DEF StackInv, CallsInv
    <3>2. QED
      BY <2>1, <2>3, <3>1 DEF CalledBy
  <2>9. QED
    BY <2>5, <2>6, <2>7, <2>8
<1>2. QED
  BY <1>1, CallsNest, PTL

(***************************************************************************)
(* What is in memory.  The operators have the result m and the buffer s as *)
(* parameters, so that they speak of the memory after a step as well.      *)
(***************************************************************************)

(* The part of n quad-words from at on of the operands of a call. *)
PartA(f, s, at, n) ==
  IF f.src = "in" THEN PolyAt(in[1], f.a + at, n) ELSE PolyAt(s, f.a + at, n)
PartB(f, s, at, n) ==
  IF f.src = "in" THEN PolyAt(in[2], f.b + at, n) ELSE PolyAt(s, f.b + at, n)

PartProduct(f, s, at, n) == Product(PartA(f, s, at, n), PartB(f, s, at, n))

(* Short operands find the part of the result that a call may skip empty.  *)
Fresh(f, m) ==
  f.len < f.pad =>
    /\ f.step = "enter" => \A q \in 0 .. 2*f.pad - 1 : m[f.c + q] = {}
    /\ f.step = "low_done" => \A q \in f.pad .. 2*f.pad - 1 : m[f.c + q] = {}

(* What a call keeps while it waits for the next: the low product, and in  *)
(* the end what the last additions need of both products.                  *)
Saved(f, h, m, s) ==
  LET p0 == PartProduct(f, s, 0, h)
      p1 == PartProduct(f, s, h, h)
      N  == h * QwBits
  IN  /\ f.step = "high_done" => PolyAt(m, f.c, 2 * h) = p0
      /\ f.step = "middle_done" =>
           /\ PolyAt(s, f.sec, h)
                = SymDiff(PartA(f, s, 0, h), PartA(f, s, h, h))
           /\ PolyAt(s, f.sec + h, h)
                = SymDiff(PartB(f, s, 0, h), PartB(f, s, h, h))
           /\ PolyAt(m, f.c, h) = Low(p0, N)
           /\ PolyAt(m, f.c + 3 * h, h) = High(p1, N)
           /\ PolyAt(s, f.sec + 2 * h, h) = SymDiff(High(p0, N), Low(p1, N))

(* What the call that has just returned left. *)
Returned(f, h, m, s) ==
  /\ f.step = "low_done" => PolyAt(m, f.c, 2 * h) = PartProduct(f, s, 0, h)
  /\ f.step = "high_done" =>
       PolyAt(m, f.c + 2 * h, 2 * h) = PartProduct(f, s, h, h)
  /\ f.step = "middle_done" =>
       PolyAt(m, f.c + h, 2 * h)
         = Product(PolyAt(s, f.sec, h), PolyAt(s, f.sec + h, h))

CallInv(f, m, s) == Fresh(f, m) /\ Saved(f, f.pad \div 2, m, s)

MemInv ==
  /\ \A k \in 1..2 :
       /\ in[k] \in [0 .. build.Pad - 1 -> Qwords]
       /\ \A q \in RQwords .. build.Pad - 1 : in[k][q] = {}
       /\ PolyAt(in[k], 0, build.Pad) \in SUBSET (0 .. build.R - 1)
  /\ sec \in [0 .. 3 * build.Pad - 1 -> Qwords]
  /\ pc # "done" => c \in [0 .. 2 * build.Pad - 1 -> Qwords]

ProductsInv ==
  pc = "karatzuba" =>
    /\ \A k \in 1..Len(stack) : CallInv(stack[k], c, sec)
    /\ Returned(stack[1], stack[1].pad \div 2, c, sec)

WholeProduct(m) ==
  PolyAt(m, 0, 2 * build.Pad)
    = Product(PolyAt(in[1], 0, build.Pad), PolyAt(in[2], 0, build.Pad))

KaratsubaInv ==
  /\ StackInv /\ MemInv /\ ProductsInv
  /\ pc = "red" => WholeProduct(c)
  /\ pc = "done" => ProductModR

(* The steps of a call change m only where its result goes, and s only     *)
(* from its part of the buffer on.                                         *)
WorksIn(t, m, s, m1, s1) ==
  /\ \A q \in 0 .. 2 * build.Pad - 1 :
       q < t.c \/ q >= t.c + 2 * t.pad => m1[q] = m[q]
  /\ \A q \in Nat : q < t.sec => s1[q] = s[q]

(* The operands of a call are as they were when no quad-word below its     *)
(* buffer has changed.                                                     *)
LEMMA SameParts ==
  ASSUME NEW f \in Frames, FrameInv(f), NEW s, NEW s1, NEW lim \in Int,
         f.sec <= lim, \A q \in Nat : q < lim => s1[q] = s[q],
         NEW at \in Nat, NEW n \in Nat, at + n <= f.pad
  PROVE  /\ PartA(f, s1, at, n) = PartA(f, s, at, n)
         /\ PartB(f, s1, at, n) = PartB(f, s, at, n)
         /\ PartProduct(f, s1, at, n) = PartProduct(f, s, at, n)
<1>1. CASE f.src = "in"
  BY <1>1 DEF PartA, PartB, PartProduct
<1>2. CASE f.src = "sec"
  <2>1. /\ f.a \in Nat /\ f.b \in Nat /\ f.pad \in Nat /\ f.sec \in Nat
    BY DEF Frames
  <2>2. /\ f.a + f.pad <= f.sec /\ f.b + f.pad <= f.sec
    BY <1>2 DEF FrameInv
  <2>3. \A q \in 0..n-1 : /\ s1[(f.a + at) + q] = s[(f.a + at) + q]
                          /\ s1[(f.b + at) + q] = s[(f.b + at) + q]
    <3>1. ASSUME NEW q \in 0..n-1
          PROVE  /\ s1[(f.a + at) + q] = s[(f.a + at) + q]
                 /\ s1[(f.b + at) + q] = s[(f.b + at) + q]
      <4>1. /\ (f.a + at) + q \in Nat /\ (f.a + at) + q < lim
            /\ (f.b + at) + q \in Nat /\ (f.b + at) + q < lim
        BY <2>1, <2>2
      <4>2. QED
        BY <4>1
    <3>2. QED
      BY <3>1
  <2>4. /\ PolyAt(s1, f.a + at, n) = PolyAt(s, f.a + at, n)
        /\ PolyAt(s1, f.b + at, n) = PolyAt(s, f.b + at, n)
    BY <2>3, SamePoly
  <2>5. QED
    BY <1>2, <2>4 DEF PartA, PartB, PartProduct
<1>3. QED
  BY <1>1, <1>2 DEF Frames

(* What a call has kept stays while another works for it. *)
LEMMA KeepCall ==
  ASSUME build \in Builds, NEW f \in Frames, FrameInv(f),
         NEW e \in Frames, CalledBy(e, f), NEW t \in Frames, Inside(t, e),
         NEW m, NEW s, NEW m1, NEW s1, WorksIn(t, m, s, m1, s1),
         CallInv(f, m, s)
  PROVE  CallInv(f, m1, s1)
<1> DEFINE h == f.pad \div 2
<1>1. /\ f.c \in Nat /\ f.pad \in Nat \ {0} /\ f.sec \in Nat
      /\ build.Pad \in Nat /\ e.c \in Nat
      /\ e.pad \in Nat \ {0} /\ e.sec \in Nat
      /\ t.c \in Nat /\ t.pad \in Nat \ {0} /\ t.sec \in Nat
  BY BuildFacts DEF Frames
<1>2. f.pad = 2 * e.pad /\ e.sec = f.sec + 3 * e.pad
  BY DEF CalledBy
<1>3. h = e.pad
  BY <1>1, <1>2
<1> HIDE DEF h
<1>4. /\ h \in Nat \ {0} /\ f.pad = 2 * h
      /\ e.c <= t.c /\ t.c + 2 * t.pad <= e.c + 2 * h
      /\ f.sec + 3 * h <= t.sec /\ f.c + 4 * h <= 2 * build.Pad
  BY <1>1, <1>2, <1>3 DEF Inside, FrameInv
<1>5. /\ \A q \in 0 .. 2 * build.Pad - 1 :
           q < e.c \/ q >= e.c + 2 * h => m1[q] = m[q]
      /\ \A q \in Nat : q < f.sec + 3 * h => s1[q] = s[q]
  <2>1. ASSUME NEW q \in 0 .. 2 * build.Pad - 1, q < e.c \/ q >= e.c + 2 * h
        PROVE  m1[q] = m[q]
    <3>1. q < t.c \/ q >= t.c + 2 * t.pad
      BY <1>1, <1>4, <2>1
    <3>2. QED
      BY <3>1 DEF WorksIn
  <2>2. ASSUME NEW q \in Nat, q < f.sec + 3 * h
        PROVE  s1[q] = s[q]
    <3>1. q < t.sec
      BY <1>1, <1>4, <2>2
    <3>2. QED
      BY <3>1 DEF WorksIn
  <2>3. QED
    BY <2>1, <2>2
<1>6. f.step \in {"low_done", "high_done", "middle_done"}
  BY DEF CalledBy
<1>7. /\ PartA(f, s1, 0, h) = PartA(f, s, 0, h)
      /\ PartB(f, s1, 0, h) = PartB(f, s, 0, h)
      /\ PartProduct(f, s1, 0, h) = PartProduct(f, s, 0, h)
      /\ PartA(f, s1, h, h) = PartA(f, s, h, h)
      /\ PartB(f, s1, h, h) = PartB(f, s, h, h)
      /\ PartProduct(f, s1, h, h) = PartProduct(f, s, h, h)
  <2> DEFINE lim == f.sec + 3 * h
  <2>1. /\ lim \in Int /\ f.sec <= lim
        /\ 0 \in Nat /\ h \in Nat /\ 0 + h <= f.pad /\ h + h <= f.pad
    BY <1>1, <1>4
  <2>5. \A q \in Nat : q < lim => s1[q] = s[q]
    BY <1>5
  <2> HIDE DEF lim
  <2>2. /\ PartA(f, s1, 0, h) = PartA(f, s, 0, h)
        /\ PartB(f, s1, 0, h) = PartB(f, s, 0, h)
        /\ PartProduct(f, s1, 0, h) = PartProduct(f, s, 0, h)
    BY <2>1, <2>5, SameParts
  <2>3. /\ PartA(f, s1, h, h) = PartA(f, s, h, h)
        /\ PartB(f, s1, h, h) = PartB(f, s, h, h)
        /\ PartProduct(f, s1, h, h) = PartProduct(f, s, h, h)
    BY <2>1, <2>5, SameParts
  <2>4. QED
    BY <2>2, <2>3
<1>8. Fresh(f, m) /\ Saved(f, h, m, s)
  BY DEF CallInv, h
<1>9. CASE f.step = "low_done"
  <2>1. e.c = f.c
    BY <1>9 DEF CalledBy
  <2>2. ASSUME f.len < f.pad, NEW q \in f.pad .. 2*f.pad - 1
        PROVE  m1[f.c + q] = {}
    <3>1. /\ f.c + q \in 0 .. 2 * build.Pad - 1
          /\ f.c + q >= e.c + 2 * h
      BY <2>2, <1>1, <1>4, <2>1
    <3>2. m1[f.c + q] = m[f.c + q]
      BY <1>5, <3>1
    <3>3. QED
      BY <1>8, <1>9, <2>2, <3>2 DEF Fresh
  <2>3. Fresh(f, m1)
    BY <1>9, <2>2 DEF Fresh
  <2>4. Saved(f, h, m1, s1)
    BY <1>9 DEF Saved
  <2>5. QED
    BY <2>3, <2>4 DEF CallInv, h
<1>10. CASE f.step = "high_done"
  <2>1. e.c = f.c + 2 * h
    BY <1>3, <1>10 DEF CalledBy
  <2>2. f.c \in Int /\ 2 * h \in Nat /\ f.c + 2 * h <= e.c /\ e.c \in Int
        /\ e.c + 2 * h \in Int
    BY <1>1, <1>4, <2>1
  <2>3. PolyAt(m1, f.c, 2 * h) = PolyAt(m, f.c, 2 * h)
    <3>1. \A q \in 0 .. 2*h - 1 : /\ f.c + q \in 0 .. 2 * build.Pad - 1
                                  /\ f.c + q < e.c
      BY <1>1, <1>4, <2>2
    <3>2. \A q \in 0 .. 2*h - 1 : m1[f.c + q] = m[f.c + q]
      BY <1>5, <3>1
    <3>3. QED
      BY <2>2, <3>2, SamePoly
  <2>4. Saved(f, h, m1, s1)
    BY <1>7, <1>8, <1>10, <2>3 DEF Saved
  <2>5. Fresh(f, m1)
    BY <1>10 DEF Fresh
  <2>6. QED
    BY <2>4, <2>5 DEF CallInv, h
<1>11. CASE f.step = "middle_done"
  <2>1. e.c = f.c + h
    BY <1>3, <1>11 DEF CalledBy
  <2>2. /\ f.c \in Int /\ h \in Nat /\ f.c + h <= e.c /\ e.c \in Int
        /\ e.c + 2 * h \in Int /\ f.c + 3 * h \in Int
        /\ f.c + 3 * h >= e.c + 2 * h
    BY <1>1, <1>4, <2>1
  <2>3. /\ PolyAt(m1, f.c, h) = PolyAt(m, f.c, h)
        /\ PolyAt(m1, f.c + 3 * h, h) = PolyAt(m, f.c + 3 * h, h)
    <3>1. ASSUME NEW q \in 0..h-1
          PROVE  /\ f.c + q \in 0 .. 2 * build.Pad - 1 /\ f.c + q < e.c
                 /\ (f.c + 3 * h) + q \in 0 .. 2 * build.Pad - 1
                 /\ (f.c + 3 * h) + q >= e.c + 2 * h
      BY <1>1, <1>4, <2>2
    <3>2. \A q \in 0..h-1 : /\ m1[f.c + q] = m[f.c + q]
                            /\ m1[(f.c + 3 * h) + q] = m[(f.c + 3 * h) + q]
      BY <1>5, <3>1
    <3>3. QED
      BY <2>2, <3>2, SamePoly
  <2>4. /\ PolyAt(s1, f.sec, h) = PolyAt(s, f.sec, h)
        /\ PolyAt(s1, f.sec + h, h) = PolyAt(s, f.sec + h, h)
        /\ PolyAt(s1, f.sec + 2 * h, h) = PolyAt(s, f.sec + 2 * h, h)
    <3>1. \A q \in 0..h-1 : /\ s1[f.sec + q] = s[f.sec + q]
                            /\ s1[(f.sec + h) + q] = s[(f.sec + h) + q]
                            /\ s1[(f.sec + 2 * h) + q] = s[(f.sec + 2 * h) + q]
      <4>1. ASSUME NEW q \in 0..h-1
            PROVE  /\ f.sec + q \in Nat /\ f.sec + q < f.sec + 3 * h
                   /\ (f.sec + h) + q \in Nat
                   /\ (f.sec + h) + q < f.sec + 3 * h
                   /\ (f.sec + 2 * h) + q \in Nat
                   /\ (f.sec + 2 * h) + q < f.sec + 3 * h
        BY <1>1, <1>4
      <4>2. QED
        BY <1>5, <4>1
    <3>2. QED
      BY <1>4, <3>1, SamePoly
  <2>5. Saved(f, h, m1, s1)
    BY <1>7, <1>8, <1>11, <2>3, <2>4 DEF Saved
  <2>6. Fresh(f, m1)
    BY <1>11 DEF Fresh
  <2>7. QED
    BY <2>5, <2>6 DEF CallInv, h
<1>12. QED
  BY <1>6, <1>9, <1>10, <1>11

(***************************************************************************)
(* Every step of the products.                                             *)
(***************************************************************************)

(* The steps of the recursion leave the operands alone, so that what holds *)
(* of the new stack and memory is the invariant after the step.            *)
LEMMA NextProducts ==
  ASSUME in' = in,
         \A k \in 1..Len(stack') : CallInv(stack'[k], c', sec'),
         Returned(stack'[1], stack'[1].pad \div 2, c', sec')
  PROVE  ProductsInv'
<1>1. ASSUME NEW f, NEW m, NEW s
      PROVE  /\ CallInv(f, m, s) =>
                  Fresh(f, m) /\ Saved(f, f.pad \div 2, m, s)'
             /\ Returned(f, f.pad \div 2, m, s)
                  => Returned(f, f.pad \div 2, m, s)'
  <2>1. in' = in
    OBVIOUS
  <2>2. QED
    BY <2>1 DEF CallInv, Saved, Returned, PartProduct, PartA, PartB
<1>2. QED
  BY <1>1 DEF ProductsInv, CallInv, Fresh

(* A step that writes quad-words where there were some keeps the memories  *)
(* in shape.                                                               *)
LEMMA NextMem ==
  ASSUME MemInv, in' = in, build' = build,
         sec' \in [0 .. 3 * build.Pad - 1 -> Qwords],
         pc' # "done" => c' \in [0 .. 2 * build.Pad - 1 -> Qwords]
  PROVE  MemInv'
<1>1. RQwords' = RQwords
  BY DEF RQwords
<1>2. ASSUME NEW k \in 1..2
      PROVE  /\ in'[k] \in [0 .. build'.Pad - 1 -> Qwords]
             /\ \A q \in RQwords' .. build'.Pad - 1 : in'[k][q] = {}
             /\ PolyAt(in'[k], 0, build'.Pad) \in SUBSET (0 .. build'.R - 1)
  BY <1>1 DEF MemInv
<1>3. QED
  BY <1>2 DEF MemInv, PolyAt, Qwords, Qw, Bit

(* What the call at the top has done leaves what the others have kept. *)
LEMMA OthersKept ==
  ASSUME KaratsubaInv, pc = "karatzuba",
         NEW m1, NEW s1, WorksIn(Top, c, sec, m1, s1),
         NEW k \in 1..Len(stack), k >= 2
  PROVE  CallInv(stack[k], m1, s1)
<1>1. StackInv /\ ProductsInv
  BY DEF KaratsubaInv
<1>2. /\ stack \in Seq(Frames) /\ Top = stack[1] /\ CallsInv(stack)
      /\ 1 \in 1..Len(stack) /\ Len(stack) \in Nat
  BY <1>1, TopFacts DEF StackInv
<1>3. k - 1 \in 1..Len(stack) /\ k - 1 < Len(stack) /\ (k - 1) + 1 = k
      /\ 1 <= k - 1
  BY <1>2
<1>4. /\ stack[k] \in Frames /\ stack[k-1] \in Frames /\ Top \in Frames
      /\ FrameInv(stack[k]) /\ CalledBy(stack[k-1], stack[k])
      /\ Inside(Top, stack[k-1]) /\ build \in Builds
  BY <1>1, <1>2, <1>3 DEF CallsInv, StackInv
<1>5. CallInv(stack[k], c, sec)
  BY <1>1 DEF ProductsInv
<1>6. QED
  BY <1>4, <1>5, KeepCall

(* A call returns with its whole product: the caller finds it where it     *)
(* looks for it, and the first call leaves the product of the inputs.      *)
LEMMA ReturnedToCaller ==
  ASSUME NEW f \in Frames, NEW e \in Frames, CalledBy(e, f), NEW m, NEW s,
         PolyAt(m, e.c, 2 * e.pad) = PartProduct(e, s, 0, e.pad)
  PROVE  Returned(f, f.pad \div 2, m, s)
<1> DEFINE h == f.pad \div 2
<1>1. /\ f.pad \in Nat /\ e.pad \in Nat /\ f.pad = 2 * e.pad
      /\ e.a \in Nat /\ e.b \in Nat /\ f.a \in Nat /\ f.b \in Nat
      /\ f.c \in Nat /\ f.sec \in Nat
  BY DEF Frames, CalledBy
<1>2. h = e.pad
  BY <1>1
<1> HIDE DEF h
<1>3. CASE f.step = "low_done"
  <2>1. e.c = f.c /\ e.src = f.src /\ e.a = f.a /\ e.b = f.b
    BY <1>3 DEF CalledBy
  <2>2. PartProduct(e, s, 0, h) = PartProduct(f, s, 0, h)
    BY <2>1 DEF PartProduct, PartA, PartB
  <2>3. QED
    BY <1>2, <1>3, <2>1, <2>2 DEF Returned, h
<1>4. CASE f.step = "high_done"
  <2>1. /\ e.c = f.c + 2 * h /\ e.src = f.src
        /\ e.a = f.a + h /\ e.b = f.b + h
    BY <1>2, <1>4 DEF CalledBy
  <2>2. e.a + 0 = f.a + h /\ e.b + 0 = f.b + h
    BY <1>1, <2>1
  <2>3. PartProduct(e, s, 0, h) = PartProduct(f, s, h, h)
    BY <2>1, <2>2 DEF PartProduct, PartA, PartB
  <2>4. QED
    BY <1>2, <1>4, <2>1, <2>3 DEF Returned, h
<1>5. CASE f.step = "middle_done"
  <2>1. /\ e.c = f.c + h /\ e.src = "sec"
        /\ e.a = f.sec /\ e.b = f.sec + h
    BY <1>2, <1>5 DEF CalledBy
  <2>2. e.a + 0 = f.sec /\ e.b + 0 = f.sec + h
    BY <1>1, <1>2, <2>1
  <2>3. PartProduct(e, s, 0, h)
          = Product(PolyAt(s, f.sec, h), PolyAt(s, f.sec + h, h))
    BY <2>1, <2>2 DEF PartProduct, PartA, PartB
  <2>4. QED
    BY <1>2, <1>5, <2>1, <2>3 DEF Returned, h
<1>6. f.step \in {"low_done", "high_done", "middle_done"}
  BY DEF CalledBy
<1>7. QED
  BY <1>3, <1>4, <1>5, <1>6

(* A step in which the innermost call leaves its product and returns keeps *)
(* the invariant: the caller finds the product where it looks for it.      *)
LEMMA ReturnKeeps ==
  ASSUME KaratsubaInv, pc = "karatzuba", Return,
         build' = build, in' = in, sec' = sec,
         c' \in [0 .. 2 * build.Pad - 1 -> Qwords],
         WorksIn(Top, c, sec, c', sec),
         PolyAt(c', Top.c, 2 * Top.pad) = PartProduct(Top, sec, 0, Top.pad)
  PROVE  KaratsubaInv'
<1>1. StackInv /\ MemInv /\ ProductsInv
  BY DEF KaratsubaInv
<1>2. /\ stack \in Seq(Frames) /\ stack # <<>> /\ Top = stack[1]
      /\ CallsInv(stack) /\ Top \in Frames
  BY <1>1, TopFacts DEF StackInv
<1>3. /\ Len(stack) \in Nat /\ Len(stack) >= 1
      /\ Len(stack') = Len(stack) - 1
      /\ \A k \in 1..Len(stack)-1 : stack'[k] = stack[k+1]
  BY <1>2, Popped DEF Return
<1>4. StackInv'
  BY <1>1, ReturnStep
<1>5. MemInv'
  BY <1>1, NextMem DEF MemInv
<1>6. pc' = IF Len(stack) = 1 THEN "red" ELSE "karatzuba"
  BY DEF Return
<1>7. CASE Len(stack) = 1
  <2>1. Root(Top)
    BY <1>2, <1>7 DEF CallsInv
  <2>2. Top.c = 0 /\ Top.pad = build.Pad /\ Top.src = "in"
        /\ Top.a + 0 = 0 /\ Top.b + 0 = 0
    BY <2>1 DEF Root
  <2>3. PartProduct(Top, sec, 0, Top.pad)
          = Product(PolyAt(in[1], 0, build.Pad), PolyAt(in[2], 0, build.Pad))
    BY <2>2 DEF PartProduct, PartA, PartB
  <2>4. WholeProduct(c')
    BY <2>2, <2>3 DEF WholeProduct
  <2>5. WholeProduct(c)'
    BY <2>4 DEF WholeProduct, PolyAt
  <2>6. pc' = "red"
    BY <1>6, <1>7
  <2>7. QED
    BY <1>4, <1>5, <2>5, <2>6 DEF KaratsubaInv, ProductsInv
<1>8. CASE Len(stack) # 1
  <2>1. 2 \in 1..Len(stack) /\ 1 \in 1..Len(stack) /\ 1 < Len(stack)
        /\ 1 \in 1..Len(stack)-1
    BY <1>3, <1>8
  <2>2. ASSUME NEW k \in 1..Len(stack')
        PROVE  CallInv(stack'[k], c', sec')
    <3>1. k \in 1..Len(stack)-1 /\ k + 1 \in 1..Len(stack) /\ k + 1 >= 2
      BY <1>3
    <3>2. CallInv(stack[k+1], c', sec)
      BY <3>1, OthersKept
    <3>3. QED
      BY <1>3, <3>1, <3>2
  <2>3. stack'[1] = stack[2]
    BY <1>3, <2>1
  <2>4. stack[2] \in Frames /\ CalledBy(Top, stack[2])
    BY <1>2, <2>1 DEF CallsInv
  <2>5. Returned(stack[2], stack[2].pad \div 2, c', sec)
    BY <1>2, <2>4, ReturnedToCaller
  <2>6. ProductsInv'
    BY <2>2, <2>3, <2>5, NextProducts
  <2>7. pc' = "karatzuba"
    BY <1>6, <1>8
  <2>8. QED
    BY <1>4, <1>5, <2>6, <2>7 DEF KaratsubaInv
<1>9. QED
  BY <1>7, <1>8

(* A call is pushed with nothing to keep but the empty result of short     *)
(* operands; its caller keeps what it needs.                               *)
LEMMA CallKeeps ==
  ASSUME KaratsubaInv, pc = "karatzuba", pc' = pc, StackInv',
         build' = build, in' = in, c' = c,
         sec' \in [0 .. 3 * build.Pad - 1 -> Qwords],
         WorksIn(Top, c, sec, c, sec'),
         NEW new, NEW g, Pushed(stack, stack', new, g),
         new.step = "enter", Fresh(new, c), CallInv(g, c, sec')
  PROVE  KaratsubaInv'
<1>1. StackInv /\ MemInv /\ ProductsInv
  BY DEF KaratsubaInv
<1>2. Len(stack) \in Nat /\ Len(stack') = Len(stack) + 1
      /\ stack'[1] = new /\ stack'[2] = g
      /\ \A k \in 3..Len(stack') : stack'[k] = stack[k-1]
  BY <1>1, TopFacts DEF Pushed
<1>3. MemInv'
  BY <1>1, NextMem DEF MemInv
<1>4. ASSUME NEW k \in 1..Len(stack')
      PROVE  CallInv(stack'[k], c', sec')
  <2>1. CASE k = 1
    BY <1>2, <2>1 DEF CallInv, Saved
  <2>2. CASE k = 2
    BY <1>2, <2>2
  <2>3. CASE k >= 3
    <3>1. k - 1 \in 1..Len(stack) /\ k - 1 >= 2 /\ k \in 3..Len(stack')
      BY <1>2, <2>3
    <3>2. CallInv(stack[k-1], c, sec')
      BY <3>1, OthersKept
    <3>3. QED
      BY <1>2, <3>1, <3>2
  <2>4. QED
    BY <1>2, <2>1, <2>2, <2>3
<1>5. Returned(stack'[1], stack'[1].pad \div 2, c', sec')
  BY <1>2 DEF Returned
<1>6. ProductsInv'
  BY <1>4, <1>5, NextProducts
<1>7. QED
  BY <1>3, <1>6 DEF KaratsubaInv

(* Where the operands of the call at the top are quad-words. *)
LEMMA OperandWords ==
  ASSUME StackInv, MemInv, pc = "karatzuba", NEW q \in 0 .. Top.pad - 1
  PROVE  ReadA(Top, q) \in Qwords /\ ReadB(Top, q) \in Qwords
<1>1. /\ build \in Builds /\ Top \in Frames /\ FrameInv(Top)
      /\ build.Pad \in Nat
  BY TopFacts, BuildFacts
<1>2. /\ Top.a \in Nat /\ Top.b \in Nat /\ Top.pad \in Nat /\ Top.sec \in Nat
      /\ Top.src \in {"in", "sec"}
  BY <1>1 DEF Frames
<1>3. /\ Top.src = "in" => /\ Top.a + Top.pad <= build.Pad
                           /\ Top.b + Top.pad <= build.Pad
      /\ Top.src = "sec" => /\ Top.a + Top.pad <= Top.sec
                            /\ Top.b + Top.pad <= Top.sec
      /\ Top.sec + 3 * Top.pad <= 3 * build.Pad
  BY <1>1 DEF FrameInv
<1>4. /\ in[1] \in [0 .. build.Pad - 1 -> Qwords]
      /\ in[2] \in [0 .. build.Pad - 1 -> Qwords]
      /\ sec \in [0 .. 3 * build.Pad - 1 -> Qwords]
  BY DEF MemInv
<1>5. CASE Top.src = "in"
  <2>1. Top.a + q \in 0 .. build.Pad - 1 /\ Top.b + q \in 0 .. build.Pad - 1
    BY <1>1, <1>2, <1>3, <1>5
  <2>2. QED
    BY <1>4, <1>5, <2>1 DEF ReadA, ReadB
<1>6. CASE Top.src = "sec"
  <2>1. /\ Top.a + q \in 0 .. 3 * build.Pad - 1
        /\ Top.b + q \in 0 .. 3 * build.Pad - 1
    BY <1>1, <1>2, <1>3, <1>6
  <2>2. QED
    BY <1>4, <1>6, <2>1 DEF ReadA, ReadB
<1>7. QED
  BY <1>2, <1>5, <1>6

(* What a call reads of its operands. *)
LEMMA PartsRead ==
  ASSUME StackInv, MemInv, pc = "karatzuba",
         NEW at \in Nat, NEW n \in Nat, at + n <= Top.pad
  PROVE  /\ ToPoly([q \in 0..n-1 |-> ReadA(Top, at + q)], n)
              = PartA(Top, sec, at, n)
         /\ ToPoly([q \in 0..n-1 |-> ReadB(Top, at + q)], n)
              = PartB(Top, sec, at, n)
<1>1. Top \in Frames
  BY TopFacts
<1>2. Top.a \in Nat /\ Top.b \in Nat /\ Top.pad \in Nat
  BY <1>1 DEF Frames
<1>3. ASSUME NEW q \in 0..n-1
      PROVE  ReadA(Top, at + q) \in Qwords /\ ReadB(Top, at + q) \in Qwords
  <2>1. at + q \in 0 .. Top.pad - 1
    BY <1>2
  <2>2. QED
    BY <2>1, OperandWords
<1>4. \A q \in 0..n-1 : /\ Top.a + (at + q) = (Top.a + at) + q
                        /\ Top.b + (at + q) = (Top.b + at) + q
  BY <1>2
<1>5. CASE Top.src = "in"
  <2>1. \A q \in 0..n-1 : /\ ReadA(Top, at + q) = in[1][(Top.a + at) + q]
                          /\ ReadB(Top, at + q) = in[2][(Top.b + at) + q]
    BY <1>4, <1>5 DEF ReadA, ReadB
  <2>2. /\ [q \in 0..n-1 |-> ReadA(Top, at + q)]
             = [q \in 0..n-1 |-> in[1][(Top.a + at) + q]]
        /\ [q \in 0..n-1 |-> ReadB(Top, at + q)]
             = [q \in 0..n-1 |-> in[2][(Top.b + at) + q]]
    BY <2>1
  <2>3. \A q \in 0..n-1 : /\ in[1][(Top.a + at) + q] \in Qwords
                          /\ in[2][(Top.b + at) + q] \in Qwords
    BY <1>3, <2>1
  <2>4. QED
    BY <1>5, <2>2, <2>3, ToPolyAt DEF PartA, PartB
<1>6. CASE Top.src # "in"
  <2>1. \A q \in 0..n-1 : /\ ReadA(Top, at + q) = sec[(Top.a + at) + q]
                          /\ ReadB(Top, at + q) = sec[(Top.b + at) + q]
    BY <1>4, <1>6 DEF ReadA, ReadB
  <2>2. /\ [q \in 0..n-1 |-> ReadA(Top, at + q)]
             = [q \in 0..n-1 |-> sec[(Top.a + at) + q]]
        /\ [q \in 0..n-1 |-> ReadB(Top, at + q)]
             = [q \in 0..n-1 |-> sec[(Top.b + at) + q]]
    BY <2>1
  <2>3. \A q \in 0..n-1 : /\ sec[(Top.a + at) + q] \in Qwords
                          /\ sec[(Top.b + at) + q] \in Qwords
    BY <1>3, <2>1
  <2>4. QED
    BY <1>6, <2>2, <2>3, ToPolyAt DEF PartA, PartB
<1>7. QED
  BY <1>5, <1>6

(* Short operands are zero from len on. *)
LEMMA ShortOperands ==
  ASSUME StackInv, MemInv, pc = "karatzuba",
         NEW n \in Nat, Top.len <= n, n <= Top.pad
  PROVE  PartProduct(Top, sec, 0, Top.pad) = PartProduct(Top, sec, 0, n)
<1>1. /\ build \in Builds /\ Top \in Frames /\ FrameInv(Top)
      /\ build.Pad \in Nat /\ RQwords \in Nat
  BY TopFacts, BuildFacts, QwordsOfR
<1>2. /\ Top.a \in Nat /\ Top.b \in Nat /\ Top.pad \in Nat /\ Top.len \in Nat
  BY <1>1 DEF Frames
<1>3. CASE n = Top.pad
  BY <1>3
<1>4. CASE n # Top.pad
  <2>1. /\ Top.src = "in" /\ Top.a + Top.len = RQwords
        /\ Top.b + Top.len = RQwords
        /\ Top.a + Top.pad <= build.Pad /\ Top.b + Top.pad <= build.Pad
    BY <1>1, <1>2, <1>4 DEF FrameInv
  <2> DEFINE at1 == Top.a + 0
             at2 == Top.b + 0
  <2>2. at1 \in Nat /\ at2 \in Nat /\ n <= Top.pad /\ Top.pad \in Nat
    BY <1>2
  <2>3. ASSUME NEW q \in n .. Top.pad - 1
        PROVE  in[1][at1 + q] = {} /\ in[2][at2 + q] = {}
    <3>1. /\ at1 + q \in RQwords .. build.Pad - 1
          /\ at2 + q \in RQwords .. build.Pad - 1
      BY <1>1, <1>2, <2>1
    <3>2. QED
      BY <3>1 DEF MemInv
  <2> HIDE DEF at1, at2
  <2>6. Blank(in[1], at1, n, Top.pad) /\ Blank(in[2], at2, n, Top.pad)
    BY <2>3 DEF Blank
  <2>4. /\ PolyAt(in[1], at1, Top.pad) = PolyAt(in[1], at1, n)
        /\ PolyAt(in[2], at2, Top.pad) = PolyAt(in[2], at2, n)
    BY <2>2, <2>6, EmptyTail
  <2>5. QED
    BY <2>1, <2>4 DEF PartProduct, PartA, PartB, at1, at2
<1>5. QED
  BY <1>3, <1>4

(* Nothing has changed. *)
LEMMA WorksInNothing ==
  WorksIn(Top, c, sec, c, sec)
BY DEF WorksIn

(* The call for the low halves starts with what it may rely on. *)
LEMMA LowStep ==
  ASSUME KaratsubaInv, MultiplyLow
  PROVE  KaratsubaInv'
<1>1. StackInv /\ MemInv /\ ProductsInv
  BY DEF KaratsubaInv
<1>2. /\ pc = "karatzuba" /\ Top.step = "enter" /\ pc' = pc
      /\ build' = build /\ in' = in /\ c' = c /\ sec' = sec
  BY DEF MultiplyLow, At
<1>3. PICK new, g \in Frames :
        /\ Pushed(stack, stack', new, g) /\ SameCall(g, Top)
        /\ g.step = "low_done" /\ new.step = "enter"
        /\ new.pad = Half /\ new.len = Half
  BY <1>1, LowCall
<1>4. StackInv'
  BY <1>1, LowCall
<1>5. CallInv(Top, c, sec) /\ Top = stack[1] /\ Top \in Frames
  BY <1>1, <1>2, TopFacts DEF ProductsInv
<1>6. Fresh(new, c)
  <2>1. ~(new.len < new.pad)
    BY <1>3 DEF Frames
  <2>2. QED
    BY <2>1 DEF Fresh
<1>7. CallInv(g, c, sec)
  <2>1. Fresh(Top, c) /\ g.c = Top.c /\ g.len = Top.len /\ g.pad = Top.pad
        /\ Top.pad \in Nat
    BY <1>3, <1>5 DEF CallInv, SameCall, Frames
  <2>2. ASSUME Top.len < Top.pad
        PROVE  \A q \in Top.pad .. 2 * Top.pad - 1 : c[Top.c + q] = {}
    <3>1. \A q \in 0 .. 2 * Top.pad - 1 : c[Top.c + q] = {}
      BY <1>2, <2>1, <2>2 DEF Fresh
    <3>2. \A q \in Top.pad .. 2 * Top.pad - 1 : q \in 0 .. 2 * Top.pad - 1
      BY <2>1
    <3>3. QED
      BY <3>1, <3>2
  <2>3. Fresh(g, c)
    BY <1>3, <2>1, <2>2 DEF Fresh
  <2>4. QED
    BY <1>3, <2>3 DEF CallInv, Saved
<1>8. sec' \in [0 .. 3 * build.Pad - 1 -> Qwords]
  BY <1>1, <1>2 DEF MemInv
<1>9. QED
  BY <1>2, <1>3, <1>4, <1>6, <1>7, <1>8, WorksInNothing, CallKeeps

(* So does the call for the high halves; the product of the low ones is out*)
(* of its way.                                                             *)
LEMMA HighStep ==
  ASSUME KaratsubaInv, MultiplyHigh
  PROVE  KaratsubaInv'
<1>1. StackInv /\ MemInv /\ ProductsInv
  BY DEF KaratsubaInv
<1>2. /\ pc = "karatzuba" /\ Top.step = "low_done" /\ pc' = pc
      /\ build' = build /\ in' = in /\ c' = c /\ sec' = sec
  BY DEF MultiplyHigh, At
<1>3. PICK new, g \in Frames :
        /\ Pushed(stack, stack', new, g) /\ SameCall(g, Top)
        /\ g.step = "high_done" /\ new.step = "enter"
        /\ new.pad = Half /\ new.len = Top.len - Half
        /\ CalledBy(new, g)
  BY <1>1, HighCall
<1>4. StackInv' /\ Top.len > build.Base
  BY <1>1, HighCall
<1>5. /\ CallInv(Top, c, sec) /\ Top = stack[1]
      /\ Returned(Top, Half, c, sec)
  BY <1>1, <1>2, TopFacts DEF ProductsInv, Half
<1>6. /\ Half \in Nat \ {0} /\ Top.pad = 2 * Half /\ Top.c \in Nat
      /\ Top.len \in Nat
  BY <1>1, <1>2, <1>4, HalfFacts
<1>7. Fresh(new, c)
  <2>1. Fresh(Top, c) /\ g.c = Top.c
    BY <1>3, <1>5 DEF CallInv, SameCall
  <2>2. new.c = Top.c + 2 * Half
    BY <1>3, <2>1 DEF CalledBy
  <2>3. ASSUME new.len < new.pad, NEW q \in 0 .. 2 * new.pad - 1
        PROVE  c[new.c + q] = {}
    <3>1. Top.len < Top.pad
      BY <1>3, <1>6, <2>3
    <3>2. \A p \in Top.pad .. 2 * Top.pad - 1 : c[Top.c + p] = {}
      BY <1>2, <2>1, <3>1 DEF Fresh
    <3>3. /\ 2 * Half + q \in Top.pad .. 2 * Top.pad - 1
          /\ new.c + q = Top.c + (2 * Half + q)
      BY <1>3, <1>6, <2>2
    <3>4. QED
      BY <3>2, <3>3
  <2>4. QED
    BY <1>3, <2>3 DEF Fresh
<1>8. CallInv(g, c, sec)
  <2>1. PolyAt(c, Top.c, 2 * Half) = PartProduct(Top, sec, 0, Half)
    BY <1>2, <1>5 DEF Returned
  <2>2. /\ g.c = Top.c /\ g.pad = Top.pad
        /\ PartProduct(g, sec, 0, Half) = PartProduct(Top, sec, 0, Half)
    BY <1>3 DEF SameCall, PartProduct, PartA, PartB
  <2>3. Saved(g, Half, c, sec)
    BY <1>3, <2>1, <2>2 DEF Saved
  <2>4. Fresh(g, c)
    BY <1>3 DEF Fresh
  <2>5. g.pad \div 2 = Half
    BY <2>2 DEF Half
  <2>6. QED
    BY <2>3, <2>4, <2>5 DEF CallInv
<1>9. sec' \in [0 .. 3 * build.Pad - 1 -> Qwords]
  BY <1>1, <1>2 DEF MemInv
<1>10. QED
  BY <1>2, <1>3, <1>4, <1>7, <1>8, <1>9, WorksInNothing, CallKeeps

(* The part that is skipped is zero in c already. *)
LEMMA SkipStep ==
  ASSUME KaratsubaInv, SkipHigh
  PROVE  KaratsubaInv'
<1>1. StackInv /\ MemInv /\ ProductsInv
  BY DEF KaratsubaInv
<1>2. /\ pc = "karatzuba" /\ Top.step = "low_done" /\ Top.len <= Half
      /\ Return
      /\ build' = build /\ in' = in /\ c' = c /\ sec' = sec
  BY DEF SkipHigh, At
<1>3. /\ CallInv(Top, c, sec) /\ Returned(Top, Half, c, sec)
      /\ FrameInv(Top)
  BY <1>1, <1>2, TopFacts DEF ProductsInv, Half
<1>4. Top.len > build.Base
  BY <1>2, <1>3 DEF FrameInv
<1>5. /\ Half \in Nat \ {0} /\ Top.pad = 2 * Half /\ Top.c \in Nat
      /\ Top.len \in Nat
  BY <1>1, <1>2, <1>4, HalfFacts
<1>6. PolyAt(c, Top.c, 2 * Half) = PartProduct(Top, sec, 0, Half)
  BY <1>2, <1>3 DEF Returned
<1>7. PartProduct(Top, sec, 0, Top.pad) = PartProduct(Top, sec, 0, Half)
  <2>1. Half \in Nat /\ Half <= Top.pad
    BY <1>5
  <2>2. QED
    BY <1>1, <1>2, <2>1, ShortOperands
<1>8. PolyAt(c, Top.c, 2 * Half + 2 * Half) = PolyAt(c, Top.c, 2 * Half)
  <2>1. Top.len < Top.pad
    BY <1>2, <1>5
  <2>2. \A q \in Top.pad .. 2 * Top.pad - 1 : c[Top.c + q] = {}
    BY <1>2, <1>3, <2>1 DEF CallInv, Fresh
  <2> DEFINE n == 2 * Half
             m == 2 * Half + 2 * Half
  <2>3. n \in Nat /\ m \in Nat /\ n <= m /\ Top.pad = n /\ 2 * Top.pad = m
    BY <1>5
  <2> HIDE DEF n, m
  <2>4. Blank(c, Top.c, n, m)
    BY <2>2, <2>3 DEF Blank
  <2>5. PolyAt(c, Top.c, m) = PolyAt(c, Top.c, n)
    BY <1>5, <2>3, <2>4, EmptyTail
  <2>6. QED
    BY <2>5 DEF n, m
<1>9. PolyAt(c', Top.c, 2 * Top.pad) = PartProduct(Top, sec, 0, Top.pad)
  <2>1. 2 * Top.pad = 2 * Half + 2 * Half
    BY <1>5
  <2>2. QED
    BY <1>2, <1>6, <1>7, <1>8, <2>1
<1>10. /\ c' \in [0 .. 2 * build.Pad - 1 -> Qwords]
       /\ WorksIn(Top, c, sec, c', sec)
  BY <1>1, <1>2, WorksInNothing DEF MemInv
<1>11. QED
  BY <1>2, <1>9, <1>10, ReturnKeeps

(* What Stored replaces, and what it leaves. *)
StoredAt(mem, at, new, n, top, mem1) ==
  /\ mem1 \in [0..top-1 -> Qwords]
  /\ \A q \in 0..n-1 : mem1[at + q] = new[q]
  /\ \A q \in 0..top-1 : q < at \/ q >= at + n => mem1[q] = mem[q]

(* What a memory holds after quad-words are stored in it. *)
LEMMA StoredWords ==
  ASSUME NEW top \in Nat, NEW n \in Nat, NEW mem \in [0..top-1 -> Qwords],
         NEW at \in Nat, at + n <= top, NEW new \in [0..n-1 -> Qwords],
         NEW mem1, mem1 = Stored(mem, at, new)
  PROVE  StoredAt(mem, at, new, n, top, mem1)
<1>1. mem1 = [q \in 0..top-1 |->
                IF q - at \in 0..n-1 THEN new[q - at] ELSE mem[q]]
  BY DEF Stored
<1>2. mem1 \in [0..top-1 -> Qwords]
  BY <1>1
<1>3. ASSUME NEW q \in 0..n-1
      PROVE  mem1[at + q] = new[q]
  <2>1. at + q \in 0..top-1 /\ (at + q) - at = q
    OBVIOUS
  <2>2. QED
    BY <1>1, <2>1
<1>4. ASSUME NEW q \in 0..top-1, q < at \/ q >= at + n
      PROVE  mem1[q] = mem[q]
  <2>1. q - at \notin 0..n-1
    BY <1>4
  <2>2. QED
    BY <1>1, <2>1
<1>5. QED
  BY <1>2, <1>3, <1>4 DEF StoredAt

(* A whole product fits twice the words of its factors. *)
LEMMA ProductFits ==
  ASSUME NEW n \in Nat, NEW x \in SUBSET (0 .. n * QwBits - 1),
         NEW y \in SUBSET (0 .. n * QwBits - 1)
  PROVE  Product(x, y) \in SUBSET (0 .. (2 * n) * QwBits - 1)
<1> DEFINE N == n * QwBits
<1>1. N \in Nat /\ (2 * n) * QwBits = 2 * N
  BY KaratsubaAssumption
<1> HIDE DEF N
<1>2. x \in SUBSET (0..N-1) /\ y \in SUBSET (0..N-1)
  BY DEF N
<1>3. Product(x, y) \in SUBSET (0 .. 2 * N - 2)
  BY <1>1, <1>2, ProductBound
<1>4. \A e \in 0 .. 2 * N - 2 : e \in 0 .. 2 * N - 1
  BY <1>1
<1>5. QED
  BY <1>1, <1>3, <1>4

(* The base multiplication leaves the product of its operands. *)
LEMMA BaseStep ==
  ASSUME KaratsubaInv, MulBase
  PROVE  KaratsubaInv'
<1> DEFINE n == build.Base
           x == ToPoly([q \in 0..n-1 |-> ReadA(Top, q)], n)
           y == ToPoly([q \in 0..n-1 |-> ReadB(Top, q)], n)
           new == ToQwords(Product(x, y), 2 * n)
<1>1. StackInv /\ MemInv /\ ProductsInv
  BY DEF KaratsubaInv
<1>2. /\ pc = "karatzuba" /\ Top.step = "enter" /\ Top.len <= n
      /\ c' = Stored(c, Top.c, new) /\ Return
      /\ build' = build /\ in' = in /\ sec' = sec
  BY DEF MulBase, At
<1>3. /\ CallInv(Top, c, sec) /\ FrameInv(Top) /\ Top \in Frames
      /\ build \in Builds
  BY <1>1, <1>2, TopFacts DEF ProductsInv
<1>4. /\ n \in Nat \ {0} /\ build.Pad \in Nat /\ Top.pad \in Nat
      /\ Top.c \in Nat /\ Top.len \in Nat
      /\ Top.c + 2 * Top.pad <= 2 * build.Pad
      /\ 2 * build.Pad \in Nat
  BY <1>3, BuildFacts DEF Frames, FrameInv
<1>5. n <= Top.pad
  BY <1>3, <1>4 DEF FrameInv, HalvesTo
<1>6. x = PartA(Top, sec, 0, n) /\ y = PartB(Top, sec, 0, n)
  <2>1. /\ [q \in 0..n-1 |-> ReadA(Top, q)]
             = [q \in 0..n-1 |-> ReadA(Top, 0 + q)]
        /\ [q \in 0..n-1 |-> ReadB(Top, q)]
             = [q \in 0..n-1 |-> ReadB(Top, 0 + q)]
    BY <1>4
  <2>2. 0 \in Nat /\ n \in Nat /\ 0 + n <= Top.pad
    BY <1>4, <1>5
  <2>3. /\ ToPoly([q \in 0..n-1 |-> ReadA(Top, 0 + q)], n)
             = PartA(Top, sec, 0, n)
        /\ ToPoly([q \in 0..n-1 |-> ReadB(Top, 0 + q)], n)
             = PartB(Top, sec, 0, n)
    BY <1>1, <1>2, <2>2, PartsRead
  <2>4. QED
    BY <2>1, <2>3
<1> HIDE DEF x, y
<1>7. /\ x \in SUBSET (0 .. n * QwBits - 1)
      /\ y \in SUBSET (0 .. n * QwBits - 1)
  <2>1. ASSUME NEW mem, NEW at
        PROVE  PolyAt(mem, at, n) \in SUBSET (0 .. n * QwBits - 1)
    BY <1>4, PolyBound
  <2>2. QED
    BY <1>6, <2>1 DEF PartA, PartB
<1> DEFINE p == Product(x, y)
           two == 2 * n
<1>8. p \in SUBSET (0 .. two * QwBits - 1)
  BY <1>4, <1>7, ProductFits
<1>9. two \in Nat /\ two <= 2 * Top.pad /\ Top.c + two <= 2 * build.Pad
  BY <1>4, <1>5
<1>10. new = ToQwords(p, two) /\ p = PartProduct(Top, sec, 0, n)
  BY <1>6 DEF PartProduct
<1> HIDE DEF n, p, two, new
<1>11. new \in [0..two-1 -> Qwords]
  BY <1>10 DEF ToQwords, Qwords
<1>12. c \in [0 .. 2 * build.Pad - 1 -> Qwords]
  BY <1>1, <1>2 DEF MemInv
<1>13. StoredAt(c, Top.c, new, two, 2 * build.Pad, c')
  BY <1>2, <1>4, <1>9, <1>11, <1>12, StoredWords
<1>14. WorksIn(Top, c, sec, c', sec)
  <2>1. ASSUME NEW q \in 0 .. 2 * build.Pad - 1,
               q < Top.c \/ q >= Top.c + 2 * Top.pad
        PROVE  c'[q] = c[q]
    <3>1. q < Top.c \/ q >= Top.c + two
      BY <1>4, <1>9, <2>1
    <3>2. QED
      BY <1>13, <3>1 DEF StoredAt
  <2>2. QED
    BY <2>1 DEF WorksIn
<1>15. PolyAt(c', Top.c, two) = p
  <2>1. \A q \in 0..two-1 : c'[Top.c + q] = ToQwords(p, two)[q]
    BY <1>10, <1>13 DEF StoredAt
  <2>2. QED
    BY <1>8, <1>9, <2>1, StoredPoly
<1>16. PolyAt(c', Top.c, 2 * Top.pad) = PolyAt(c', Top.c, two)
  <2>1. CASE Top.len < Top.pad
    <3> DEFINE m == 2 * Top.pad
    <3>1. \A q \in 0 .. m - 1 : c[Top.c + q] = {}
      BY <1>2, <1>3, <2>1 DEF CallInv, Fresh
    <3>2. m \in Nat /\ two <= m /\ Top.c + m <= 2 * build.Pad
      BY <1>4, <1>9
    <3> HIDE DEF m
    <3>3. ASSUME NEW q \in two .. m - 1
          PROVE  c'[Top.c + q] = {}
      <4>1. /\ Top.c + q \in 0 .. 2 * build.Pad - 1 /\ q \in 0 .. m - 1
            /\ Top.c + q >= Top.c + two
        BY <1>4, <1>9, <3>2
      <4>2. c'[Top.c + q] = c[Top.c + q]
        BY <1>13, <4>1 DEF StoredAt
      <4>3. QED
        BY <3>1, <4>1, <4>2
    <3>4. Blank(c', Top.c, two, m)
      BY <3>3 DEF Blank
    <3>5. PolyAt(c', Top.c, m) = PolyAt(c', Top.c, two)
      BY <1>4, <1>9, <3>2, <3>4, EmptyTail
    <3>6. QED
      BY <3>5 DEF m
  <2>2. CASE ~(Top.len < Top.pad)
    <3>1. Top.pad = n
      BY <1>2, <1>4, <1>5, <2>2
    <3>2. QED
      BY <3>1 DEF two
  <2>3. QED
    BY <2>1, <2>2
<1>17. PartProduct(Top, sec, 0, Top.pad) = PartProduct(Top, sec, 0, n)
  BY <1>1, <1>2, <1>4, <1>5, ShortOperands
<1>18. PolyAt(c', Top.c, 2 * Top.pad) = PartProduct(Top, sec, 0, Top.pad)
  BY <1>10, <1>15, <1>16, <1>17
<1>19. c' \in [0 .. 2 * build.Pad - 1 -> Qwords]
  BY <1>13 DEF StoredAt
<1>20. QED
  BY <1>2, <1>14, <1>18, <1>19, ReturnKeeps

(* The halves of what is in memory. *)
LEMMA HalvesInMemory ==
  ASSUME NEW h \in Nat, NEW mem, NEW at \in Nat,
         NEW p, p = PolyAt(mem, at, 2 * h), NEW N, N = h * QwBits
  PROVE  /\ PolyAt(mem, at, h) = Low(p, N)
         /\ PolyAt(mem, at + h, h) = High(p, N)
<1> DEFINE x == PolyAt(mem, at, h)
           y == PolyAt(mem, at + h, h)
<1>1. N \in Nat /\ x \in SUBSET (0..N-1) /\ y \in SUBSET (0..N-1)
  BY PolyBound
<1>2. p = x \cup Shift(y, N)
  <2>1. 2 * h = h + h
    OBVIOUS
  <2>2. QED
    BY <2>1, SplitPoly
<1> HIDE DEF x, y
<1>3. ASSUME NEW e \in 0..N-1
      PROVE  (e \in x <=> e \in p) /\ (e \in y <=> e + N \in p)
  <2>1. y \in SUBSET Nat /\ e \in Nat /\ e + N \in Nat /\ e < N
        /\ e + N >= N /\ (e + N) - N = e /\ e + N \notin 0..N-1
    BY <1>1
  <2>2. e \notin Shift(y, N)
    BY <1>1, <2>1, ShiftOf
  <2>3. e + N \in Shift(y, N) <=> e \in y
    BY <1>1, <2>1, ShiftOf
  <2>4. e + N \notin x
    BY <1>1, <2>1
  <2>5. QED
    BY <1>2, <2>2, <2>3, <2>4
<1>4. x = Low(p, N)
  BY <1>1, <1>3 DEF Low
<1>5. y = High(p, N)
  BY <1>1, <1>3 DEF High
<1>6. QED
  BY <1>4, <1>5 DEF x, y

(* karatzuba_add1 and the first half of karatzuba_add2: a sum of halves. *)
LEMMA SumOfHalves ==
  ASSUME StackInv, pc = "karatzuba", NEW h \in Nat, NEW mem, NEW at
  PROVE  /\ (\A q \in 0..h-1 :
               mem[at + q] = SymDiff(ReadA(Top, q), ReadA(Top, q + h)))
              => PolyAt(mem, at, h)
                   = SymDiff(PartA(Top, sec, 0, h), PartA(Top, sec, h, h))
         /\ (\A q \in 0..h-1 :
               mem[at + q] = SymDiff(ReadB(Top, q), ReadB(Top, q + h)))
              => PolyAt(mem, at, h)
                   = SymDiff(PartB(Top, sec, 0, h), PartB(Top, sec, h, h))
<1>1. Top \in Frames
  BY TopFacts
<1>2. Top.a \in Nat /\ Top.b \in Nat
  BY <1>1 DEF Frames
<1>3. \A q \in 0..h-1 : /\ Top.a + q = (Top.a + 0) + q
                        /\ Top.b + q = (Top.b + 0) + q
                        /\ Top.a + (q + h) = (Top.a + h) + q
                        /\ Top.b + (q + h) = (Top.b + h) + q
  BY <1>2
<1>4. ASSUME NEW ma, NEW mb,
             \A q \in Int : ReadA(Top, q) = ma[Top.a + q]
                            /\ ReadB(Top, q) = mb[Top.b + q]
      PROVE  /\ (\A q \in 0..h-1 :
                   mem[at + q] = SymDiff(ReadA(Top, q), ReadA(Top, q + h)))
                  => PolyAt(mem, at, h) = SymDiff(PolyAt(ma, Top.a + 0, h),
                                                  PolyAt(ma, Top.a + h, h))
             /\ (\A q \in 0..h-1 :
                   mem[at + q] = SymDiff(ReadB(Top, q), ReadB(Top, q + h)))
                  => PolyAt(mem, at, h) = SymDiff(PolyAt(mb, Top.b + 0, h),
                                                  PolyAt(mb, Top.b + h, h))
  <2>1. ASSUME NEW q \in 0..h-1
        PROVE  /\ ReadA(Top, q) = ma[(Top.a + 0) + q]
               /\ ReadA(Top, q + h) = ma[(Top.a + h) + q]
               /\ ReadB(Top, q) = mb[(Top.b + 0) + q]
               /\ ReadB(Top, q + h) = mb[(Top.b + h) + q]
    <3>1. q \in Int /\ q + h \in Int
      OBVIOUS
    <3>2. QED
      BY <1>3, <1>4, <3>1
  <2>2. QED
    BY <2>1, SumPoly
<1>5. CASE Top.src = "in"
  <2>1. \A q \in Int : ReadA(Top, q) = in[1][Top.a + q]
                       /\ ReadB(Top, q) = in[2][Top.b + q]
    BY <1>5 DEF ReadA, ReadB
  <2>2. QED
    BY <1>4, <1>5, <2>1 DEF PartA, PartB
<1>6. CASE Top.src # "in"
  <2>1. \A q \in Int : ReadA(Top, q) = sec[Top.a + q]
                       /\ ReadB(Top, q) = sec[Top.b + q]
    BY <1>6 DEF ReadA, ReadB
  <2>2. QED
    BY <1>4, <1>6, <2>1 DEF PartA, PartB
<1>7. QED
  BY <1>5, <1>6

(* A sum of quad-words is a quad-word. *)
LEMMA SumWords ==
  ASSUME NEW v \in Qwords, NEW w \in Qwords
  PROVE  SymDiff(v, w) \in Qwords
BY DEF Qwords, SymDiff

(* What karatzuba_add1 and karatzuba_add2 leave in the secure buffer. *)
LEMMA BufferOfSums ==
  ASSUME StackInv, MemInv, MultiplyMiddle
  PROVE  /\ sec' \in [0 .. 3 * build.Pad - 1 -> Qwords]
         /\ \A q \in Nat : q < Top.sec => sec'[q] = sec[q]
         /\ \A q \in 0 .. Half - 1 :
              /\ sec'[Top.sec + q]
                   = SymDiff(ReadA(Top, q), ReadA(Top, q + Half))
              /\ sec'[(Top.sec + Half) + q]
                   = SymDiff(ReadB(Top, q), ReadB(Top, q + Half))
              /\ sec'[(Top.sec + 2 * Half) + q]
                   = SymDiff(c[(Top.c + Half) + q], c[(Top.c + 2 * Half) + q])
<1> DEFINE h == Half
           T == Top.sec
           C == Top.c
           S == 3 * build.Pad
           sum(q) == IF q \in T .. (T + h) - 1
                       THEN SymDiff(ReadA(Top, q - T), ReadA(Top, q - T + h))
                     ELSE IF q \in T + h .. (T + 2 * h) - 1
                       THEN SymDiff(ReadB(Top, q - (T + h)),
                                    ReadB(Top, q - (T + h) + h))
                     ELSE IF q \in T + 2 * h .. (T + 3 * h) - 1
                       THEN SymDiff(c[C + h + q - (T + 2 * h)],
                                    c[C + 2 * h + q - (T + 2 * h)])
                     ELSE sec[q]
<1>1. pc = "karatzuba" /\ Top.len > build.Base
  BY MiddleCall
<1>2. /\ h \in Nat \ {0} /\ Top.pad = 2 * h
      /\ C \in Nat /\ T \in Nat /\ build.Pad \in Nat \ {0}
      /\ C + 4 * h <= 2 * build.Pad /\ T + 6 * h <= S /\ S \in Nat
      /\ Free = T + 3 * h
  BY <1>1, HalfFacts
<1>3. /\ sec \in [0..S-1 -> Qwords] /\ c \in [0 .. 2 * build.Pad - 1 -> Qwords]
  BY <1>1 DEF MemInv
<1>4. sec' = [q \in 0..S-1 |-> sum(q)]
  <2>1. DOMAIN sec = 0..S-1
    BY <1>3
  <2>2. sec' = [q \in DOMAIN sec |-> sum(q)]
    BY Zenon DEF MultiplyMiddle, Alah, Blbh, Tmp, Free
  <2>3. QED
    BY <2>1, <2>2
<1> HIDE DEF h, T, C, S
<1>5. ASSUME NEW q \in 0..h-1
      PROVE  /\ T + q \in 0..S-1 /\ (T + h) + q \in 0..S-1
             /\ (T + 2 * h) + q \in 0..S-1
             /\ sum(T + q) = SymDiff(ReadA(Top, q), ReadA(Top, q + h))
             /\ sum((T + h) + q) = SymDiff(ReadB(Top, q), ReadB(Top, q + h))
             /\ sum((T + 2 * h) + q) = SymDiff(c[(C + h) + q],
                                               c[(C + 2 * h) + q])
  <2>1. /\ T + q \in 0..S-1 /\ (T + h) + q \in 0..S-1
        /\ (T + 2 * h) + q \in 0..S-1
    BY <1>2
  <2>2. sum(T + q) = SymDiff(ReadA(Top, q), ReadA(Top, q + h))
    <3>1. T + q \in T .. (T + h) - 1 /\ (T + q) - T = q
      BY <1>2
    <3>2. QED
      BY <3>1
  <2>3. sum((T + h) + q) = SymDiff(ReadB(Top, q), ReadB(Top, q + h))
    <3>1. /\ (T + h) + q \notin T .. (T + h) - 1
          /\ (T + h) + q \in T + h .. (T + 2 * h) - 1
          /\ ((T + h) + q) - (T + h) = q
      BY <1>2
    <3>2. QED
      BY <3>1
  <2>4. sum((T + 2 * h) + q) = SymDiff(c[(C + h) + q], c[(C + 2 * h) + q])
    <3>1. /\ (T + 2 * h) + q \notin T .. (T + h) - 1
          /\ (T + 2 * h) + q \notin T + h .. (T + 2 * h) - 1
          /\ (T + 2 * h) + q \in T + 2 * h .. (T + 3 * h) - 1
          /\ C + h + ((T + 2 * h) + q) - (T + 2 * h) = (C + h) + q
          /\ C + 2 * h + ((T + 2 * h) + q) - (T + 2 * h) = (C + 2 * h) + q
      BY <1>2
    <3>2. QED
      BY <3>1
  <2>5. QED
    BY <2>1, <2>2, <2>3, <2>4
<1>6. ASSUME NEW q \in 0..S-1
      PROVE  sum(q) \in Qwords
  <2>1. CASE q \in T .. (T + h) - 1
    <3>1. q - T \in 0 .. Top.pad - 1 /\ q - T + h \in 0 .. Top.pad - 1
      BY <1>2, <2>1
    <3>2. QED
      BY <1>1, <2>1, <3>1, OperandWords, SumWords
  <2>2. CASE q \notin T .. (T + h) - 1 /\ q \in T + h .. (T + 2 * h) - 1
    <3>1. /\ q - (T + h) \in 0 .. Top.pad - 1
          /\ q - (T + h) + h \in 0 .. Top.pad - 1
      BY <1>2, <2>2
    <3>2. QED
      BY <1>1, <2>2, <3>1, OperandWords, SumWords
  <2>3. CASE /\ q \notin T .. (T + h) - 1 /\ q \notin T + h .. (T + 2 * h) - 1
             /\ q \in T + 2 * h .. (T + 3 * h) - 1
    <3>1. /\ C + h + q - (T + 2 * h) \in 0 .. 2 * build.Pad - 1
          /\ C + 2 * h + q - (T + 2 * h) \in 0 .. 2 * build.Pad - 1
      BY <1>2, <2>3
    <3>2. QED
      BY <1>3, <2>3, <3>1, SumWords
  <2>4. CASE /\ q \notin T .. (T + h) - 1 /\ q \notin T + h .. (T + 2 * h) - 1
             /\ q \notin T + 2 * h .. (T + 3 * h) - 1
    BY <1>3, <2>4
  <2>5. QED
    BY <2>1, <2>2, <2>3, <2>4
<1>7. ASSUME NEW q \in Nat, q < T
      PROVE  q \in 0..S-1 /\ sum(q) = sec[q]
  <2>1. /\ q \in 0..S-1 /\ q \notin T .. (T + h) - 1
        /\ q \notin T + h .. (T + 2 * h) - 1
        /\ q \notin T + 2 * h .. (T + 3 * h) - 1
    BY <1>2, <1>7
  <2>2. QED
    BY <2>1
<1> HIDE DEF sum
<1>8. QED
  BY <1>4, <1>5, <1>6, <1>7 DEF h, T, C, S

(* karatzuba_add1 and karatzuba_add2 leave the sums for the third call, and*)
(* save what it will overwrite.                                            *)
LEMMA MiddleStep ==
  ASSUME KaratsubaInv, MultiplyMiddle
  PROVE  KaratsubaInv'
<1> DEFINE h == Half
           N == h * QwBits
           p0 == PartProduct(Top, sec, 0, h)
           p1 == PartProduct(Top, sec, h, h)
<1>1. StackInv /\ MemInv /\ ProductsInv
  BY DEF KaratsubaInv
<1>2. /\ pc = "karatzuba" /\ Top.step = "high_done" /\ pc' = pc
      /\ build' = build /\ in' = in /\ c' = c
  BY DEF MultiplyMiddle, At
<1>3. PICK new, g \in Frames :
        /\ Pushed(stack, stack', new, g) /\ SameCall(g, Top)
        /\ g.step = "middle_done" /\ new.step = "enter"
        /\ new.pad = Half /\ new.len = Half
  BY <1>1, MiddleCall
<1>4. StackInv' /\ Top.len > build.Base
  BY <1>1, MiddleCall
<1>5. /\ CallInv(Top, c, sec) /\ Returned(Top, h, c, sec)
      /\ Top \in Frames /\ FrameInv(Top) /\ Top.pad \div 2 = h
  BY <1>1, <1>2, TopFacts DEF ProductsInv, Half
<1>6. /\ h \in Nat \ {0} /\ Top.pad = 2 * h /\ Top.c \in Nat
      /\ Top.sec \in Nat
  BY <1>1, <1>2, <1>4, HalfFacts
<1>7. /\ sec' \in [0 .. 3 * build.Pad - 1 -> Qwords]
      /\ \A q \in Nat : q < Top.sec => sec'[q] = sec[q]
      /\ \A q \in 0 .. h - 1 :
           /\ sec'[Top.sec + q] = SymDiff(ReadA(Top, q), ReadA(Top, q + h))
           /\ sec'[(Top.sec + h) + q]
                = SymDiff(ReadB(Top, q), ReadB(Top, q + h))
           /\ sec'[(Top.sec + 2 * h) + q]
                = SymDiff(c[(Top.c + h) + q], c[(Top.c + 2 * h) + q])
  BY <1>1, BufferOfSums
<1> HIDE DEF h
<1>8. WorksIn(Top, c, sec, c, sec')
  BY <1>7 DEF WorksIn
<1>9. Fresh(new, c)
  <2>1. ~(new.len < new.pad)
    BY <1>3 DEF Frames
  <2>2. QED
    BY <2>1 DEF Fresh
<1>10. /\ PolyAt(sec', Top.sec, h)
            = SymDiff(PartA(Top, sec, 0, h), PartA(Top, sec, h, h))
       /\ PolyAt(sec', Top.sec + h, h)
            = SymDiff(PartB(Top, sec, 0, h), PartB(Top, sec, h, h))
  <2>1. /\ \A q \in 0 .. h - 1 :
             sec'[Top.sec + q] = SymDiff(ReadA(Top, q), ReadA(Top, q + h))
        /\ \A q \in 0 .. h - 1 :
             sec'[(Top.sec + h) + q] = SymDiff(ReadB(Top, q), ReadB(Top, q + h))
    BY <1>7
  <2>2. QED
    BY <1>1, <1>2, <1>6, <2>1, SumOfHalves
<1>11. /\ PolyAt(c, Top.c, h) = Low(p0, N)
       /\ PolyAt(c, Top.c + h, h) = High(p0, N)
  <2> DEFINE at == Top.c
  <2>1. p0 = PolyAt(c, at, 2 * h) /\ at \in Nat
    BY <1>2, <1>5, <1>6 DEF CallInv, Saved
  <2> HIDE DEF at, p0
  <2>2. PolyAt(c, at, h) = Low(p0, N) /\ PolyAt(c, at + h, h) = High(p0, N)
    BY <1>6, <2>1, HalvesInMemory
  <2>3. QED
    BY <2>2 DEF at
<1>12. /\ PolyAt(c, Top.c + 2 * h, h) = Low(p1, N)
       /\ PolyAt(c, Top.c + 3 * h, h) = High(p1, N)
  <2> DEFINE at == Top.c + 2 * h
  <2>1. p1 = PolyAt(c, at, 2 * h)
    BY <1>2, <1>5 DEF Returned
  <2>2. at \in Nat /\ at + h = Top.c + 3 * h
    BY <1>6
  <2> HIDE DEF at
  <2>3. PolyAt(c, at, h) = Low(p1, N) /\ PolyAt(c, at + h, h) = High(p1, N)
    BY <1>6, <2>1, <2>2, HalvesInMemory
  <2>4. QED
    BY <2>2, <2>3 DEF at
<1> HIDE DEF N, p0, p1
<1>13. PolyAt(sec', Top.sec + 2 * h, h) = SymDiff(High(p0, N), Low(p1, N))
  <2>1. PolyAt(sec', Top.sec + 2 * h, h)
          = SymDiff(PolyAt(c, Top.c + h, h), PolyAt(c, Top.c + 2 * h, h))
    <3>1. \A q \in 0 .. h - 1 :
            sec'[(Top.sec + 2 * h) + q]
              = SymDiff(c[(Top.c + h) + q], c[(Top.c + 2 * h) + q])
      BY <1>7
    <3>2. QED
      BY <1>6, <3>1, SumPoly
  <2>2. QED
    BY <1>11, <1>12, <2>1
<1>14. /\ PartA(g, sec', 0, h) = PartA(Top, sec, 0, h)
       /\ PartA(g, sec', h, h) = PartA(Top, sec, h, h)
       /\ PartB(g, sec', 0, h) = PartB(Top, sec, 0, h)
       /\ PartB(g, sec', h, h) = PartB(Top, sec, h, h)
       /\ PartProduct(g, sec', 0, h) = p0 /\ PartProduct(g, sec', h, h) = p1
  <2> DEFINE lim == Top.sec
             z == 0
  <2>1. ASSUME NEW at
        PROVE  /\ PartA(g, sec', at, h) = PartA(Top, sec', at, h)
               /\ PartB(g, sec', at, h) = PartB(Top, sec', at, h)
    BY <1>3 DEF SameCall, PartA, PartB
  <2>3. /\ lim \in Int /\ Top.sec <= lim
        /\ z \in Nat /\ h \in Nat /\ z + h <= Top.pad /\ h + h <= Top.pad
    BY <1>6
  <2>4. \A q \in Nat : q < lim => sec'[q] = sec[q]
    BY <1>7
  <2> HIDE DEF lim, z
  <2>5. /\ PartA(Top, sec', z, h) = PartA(Top, sec, z, h)
        /\ PartB(Top, sec', z, h) = PartB(Top, sec, z, h)
    BY <1>5, <2>3, <2>4, SameParts
  <2>6. /\ PartA(Top, sec', h, h) = PartA(Top, sec, h, h)
        /\ PartB(Top, sec', h, h) = PartB(Top, sec, h, h)
    BY <1>5, <2>3, <2>4, SameParts
  <2>2. QED
    BY <2>1, <2>5, <2>6 DEF p0, p1, PartProduct, z
<1>15. CallInv(g, c, sec')
  <2>1. /\ g.c = Top.c /\ g.sec = Top.sec /\ g.pad \div 2 = h
    BY <1>3, <1>5 DEF SameCall
  <2>2. Saved(g, h, c, sec')
    BY <1>3, <1>10, <1>11, <1>12, <1>13, <1>14, <2>1 DEF Saved, N
  <2>3. Fresh(g, c)
    BY <1>3 DEF Fresh
  <2>4. QED
    BY <2>1, <2>2, <2>3 DEF CallInv
<1>16. QED
  BY <1>2, <1>3, <1>4, <1>7, <1>8, <1>9, <1>15, CallKeeps

(* karatzuba_add3: a sum of three. *)
LEMMA SumOfThree ==
  ASSUME NEW n \in Nat, NEW mem, NEW at, NEW mem1, NEW at1, NEW mem2, NEW at2,
         NEW mem3, NEW at3,
         \A q \in 0..n-1 :
            mem[at + q] = SymDiff(mem1[at1 + q],
                                  SymDiff(mem2[at2 + q], mem3[at3 + q]))
  PROVE  PolyAt(mem, at, n)
           = SymDiff(PolyAt(mem1, at1, n),
                     SymDiff(PolyAt(mem2, at2, n), PolyAt(mem3, at3, n)))
<1>1. \A e \in 0 .. n * QwBits - 1 : e \in Nat
  BY KaratsubaAssumption
<1>2. \A e \in 0 .. n * QwBits - 1 :
         mem[at + Qw(e)]
           = SymDiff(mem1[at1 + Qw(e)],
                     SymDiff(mem2[at2 + Qw(e)], mem3[at3 + Qw(e)]))
  BY <1>1, QwordBelow
<1>3. QED
  BY <1>2 DEF PolyAt, SymDiff

(* What karatzuba_add3 leaves in c. *)
LEMMA ResultOfSums ==
  ASSUME StackInv, MemInv, AddMiddle
  PROVE  /\ c' \in [0 .. 2 * build.Pad - 1 -> Qwords]
         /\ \A q \in 0 .. 2 * build.Pad - 1 :
              q < Top.c + Half \/ q >= Top.c + 3 * Half => c'[q] = c[q]
         /\ \A q \in 0 .. Half - 1 :
              /\ c'[(Top.c + Half) + q]
                   = SymDiff(sec[(Top.sec + 2 * Half) + q],
                             SymDiff(c[Top.c + q], c[(Top.c + Half) + q]))
              /\ c'[(Top.c + 2 * Half) + q]
                   = SymDiff(sec[(Top.sec + 2 * Half) + q],
                             SymDiff(c[(Top.c + 2 * Half) + q],
                                     c[(Top.c + 3 * Half) + q]))
<1> DEFINE h == Half
           T == Top.sec
           C == Top.c
           two == 2 * h
           at == C + h
           top == 2 * build.Pad
           new == [q \in 0 .. two - 1 |->
                     IF q < h
                     THEN SymDiff(sec[(T + 2 * h) + q],
                                  SymDiff(c[C + 0 * h + q], c[C + 1 * h + q]))
                     ELSE SymDiff(sec[(T + 2 * h) + (q - h)],
                                  SymDiff(c[C + 2 * h + (q - h)],
                                          c[C + 3 * h + (q - h)]))]
<1>1. pc = "karatzuba" /\ Top.len > build.Base
  <2>1. pc = "karatzuba" /\ Top.step = "middle_done"
    BY DEF AddMiddle, At
  <2>2. QED
    BY <2>1, TopFacts DEF FrameInv
<1>2. /\ h \in Nat \ {0} /\ C \in Nat /\ T \in Nat /\ build.Pad \in Nat
      /\ C + 4 * h <= top /\ T + 6 * h <= 3 * build.Pad
      /\ top \in Nat /\ two \in Nat /\ at \in Nat /\ at + two <= top
  BY <1>1, HalfFacts
<1>3. c' = Stored(c, at, new)
  BY DEF AddMiddle, Tmp
<1>4. c \in [0..top-1 -> Qwords] /\ sec \in [0 .. 3 * build.Pad - 1 -> Qwords]
  BY <1>1 DEF MemInv
<1> HIDE DEF h, T, C
<1>5. new \in [0..two-1 -> Qwords]
  <2>1. ASSUME NEW q \in 0..two-1
        PROVE  new[q] \in Qwords
    <3>1. CASE q < h
      <4>1. /\ (T + 2 * h) + q \in 0 .. 3 * build.Pad - 1
            /\ C + 0 * h + q \in 0..top-1 /\ C + 1 * h + q \in 0..top-1
        BY <1>2, <3>1
      <4>2. /\ sec[(T + 2 * h) + q] \in Qwords /\ c[C + 0 * h + q] \in Qwords
            /\ c[C + 1 * h + q] \in Qwords
        BY <1>4, <4>1
      <4>3. SymDiff(c[C + 0 * h + q], c[C + 1 * h + q]) \in Qwords
        BY <4>2, SumWords
      <4>4. QED
        BY <3>1, <4>2, <4>3, SumWords
    <3>2. CASE ~(q < h)
      <4>1. /\ (T + 2 * h) + (q - h) \in 0 .. 3 * build.Pad - 1
            /\ C + 2 * h + (q - h) \in 0..top-1
            /\ C + 3 * h + (q - h) \in 0..top-1
        BY <1>2, <3>2
      <4>2. /\ sec[(T + 2 * h) + (q - h)] \in Qwords
            /\ c[C + 2 * h + (q - h)] \in Qwords
            /\ c[C + 3 * h + (q - h)] \in Qwords
        BY <1>4, <4>1
      <4>3. SymDiff(c[C + 2 * h + (q - h)], c[C + 3 * h + (q - h)]) \in Qwords
        BY <4>2, SumWords
      <4>4. QED
        BY <3>2, <4>2, <4>3, SumWords
    <3>3. QED
      BY <3>1, <3>2
  <2>2. QED
    BY <2>1
<1>6. ASSUME NEW q \in 0..h-1
      PROVE  /\ q \in 0..two-1 /\ h + q \in 0..two-1
             /\ at + q = (C + h) + q /\ at + (h + q) = (C + 2 * h) + q
             /\ new[q] = SymDiff(sec[(T + 2 * h) + q],
                                 SymDiff(c[C + q], c[(C + h) + q]))
             /\ new[h + q] = SymDiff(sec[(T + 2 * h) + q],
                                     SymDiff(c[(C + 2 * h) + q],
                                             c[(C + 3 * h) + q]))
  <2>1. /\ q \in 0..two-1 /\ h + q \in 0..two-1 /\ q < h /\ ~(h + q < h)
        /\ (h + q) - h = q
        /\ at + q = (C + h) + q /\ at + (h + q) = (C + 2 * h) + q
        /\ C + 0 * h + q = C + q /\ C + 1 * h + q = (C + h) + q
        /\ C + 2 * h + q = (C + 2 * h) + q /\ C + 3 * h + q = (C + 3 * h) + q
    BY <1>2
  <2>2. new[q] = SymDiff(sec[(T + 2 * h) + q],
                         SymDiff(c[C + q], c[(C + h) + q]))
    BY <2>1
  <2>3. new[h + q] = SymDiff(sec[(T + 2 * h) + q],
                             SymDiff(c[(C + 2 * h) + q], c[(C + 3 * h) + q]))
    BY <2>1
  <2>4. QED
    BY <2>1, <2>2, <2>3
<1> HIDE DEF new, two, at, top
<1>7. StoredAt(c, at, new, two, top, c')
  BY <1>2, <1>3, <1>4, <1>5, StoredWords
<1>8. ASSUME NEW q \in 0..h-1
      PROVE  /\ c'[(C + h) + q] = new[q] /\ c'[(C + 2 * h) + q] = new[h + q]
  BY <1>6, <1>7 DEF StoredAt
<1>9. ASSUME NEW q \in 0..top-1, q < C + h \/ q >= C + 3 * h
      PROVE  c'[q] = c[q]
  <2>1. q < at \/ q >= at + two
    BY <1>2, <1>9 DEF at, two
  <2>2. QED
    BY <1>7, <2>1 DEF StoredAt
<1>10. c' \in [0..top-1 -> Qwords]
  BY <1>7 DEF StoredAt
<1>11. QED
  BY <1>6, <1>8, <1>9, <1>10 DEF h, T, C, top

(* Four quarters in memory make a whole. *)
LEMMA QuartersInMemory ==
  ASSUME NEW h \in Nat, NEW mem, NEW at \in Nat, NEW N, N = h * QwBits
  PROVE  PolyAt(mem, at, 4 * h)
           = FromQuarters(PolyAt(mem, at, h), PolyAt(mem, at + h, h),
                          PolyAt(mem, at + 2 * h, h),
                          PolyAt(mem, at + 3 * h, h), N)
<1> DEFINE two == 2 * h
           mid == at + two
<1>1. /\ two \in Nat /\ mid \in Nat /\ two = h + h /\ 4 * h = two + two
      /\ mid + h = at + 3 * h /\ mid = at + 2 * h
  OBVIOUS
<1>2. two * QwBits = 2 * N
  BY KaratsubaAssumption
<1> HIDE DEF two, mid
<1>3. PolyAt(mem, at, h + h)
        = PolyAt(mem, at, h) \cup Shift(PolyAt(mem, at + h, h), h * QwBits)
  BY SplitPoly
<1>4. PolyAt(mem, mid, h + h)
        = PolyAt(mem, mid, h) \cup Shift(PolyAt(mem, mid + h, h), h * QwBits)
  BY <1>1, SplitPoly
<1>5. PolyAt(mem, at, two + two)
        = PolyAt(mem, at, two) \cup Shift(PolyAt(mem, at + two, two),
                                          two * QwBits)
  BY <1>1, SplitPoly
<1>6. PolyAt(mem, mid, two) = PolyAt(mem, at + two, two)
  BY DEF mid
<1>7. QED
  BY <1>1, <1>2, <1>3, <1>4, <1>5, <1>6 DEF FromQuarters, FromHalves

(* An operand in its two halves. *)
LEMMA HalvesOfParts ==
  ASSUME NEW f \in Frames, NEW s, NEW h \in Nat, NEW N, N = h * QwBits
  PROVE  /\ PartA(f, s, 0, 2 * h)
              = FromHalves(PartA(f, s, 0, h), PartA(f, s, h, h), N)
         /\ PartB(f, s, 0, 2 * h)
              = FromHalves(PartB(f, s, 0, h), PartB(f, s, h, h), N)
         /\ PartA(f, s, 0, h) \in SUBSET (0..N-1)
         /\ PartA(f, s, h, h) \in SUBSET (0..N-1)
         /\ PartB(f, s, 0, h) \in SUBSET (0..N-1)
         /\ PartB(f, s, h, h) \in SUBSET (0..N-1)
<1>1. ASSUME NEW mem, NEW at \in Nat
      PROVE  /\ PolyAt(mem, at + 0, 2 * h)
                  = FromHalves(PolyAt(mem, at + 0, h),
                               PolyAt(mem, at + h, h), N)
             /\ PolyAt(mem, at + 0, h) \in SUBSET (0..N-1)
             /\ PolyAt(mem, at + h, h) \in SUBSET (0..N-1)
  <2>1. 2 * h = h + h /\ at + 0 = at
    OBVIOUS
  <2>2. PolyAt(mem, at, h + h)
          = PolyAt(mem, at, h) \cup Shift(PolyAt(mem, at + h, h), h * QwBits)
    BY SplitPoly
  <2>3. QED
    BY <2>1, <2>2, PolyBound DEF FromHalves
<1>2. f.a \in Nat /\ f.b \in Nat
  BY DEF Frames
<1>3. QED
  BY <1>1, <1>2 DEF PartA, PartB

(* mem1 is mem after karatzuba_add3, with the sums of the middle at buf. *)
AddedThree(h, mem, at, s, buf, mem1) ==
  \A q \in 0..h-1 :
    /\ mem1[at + q] = mem[at + q]
    /\ mem1[(at + h) + q]
         = SymDiff(s[buf + q], SymDiff(mem[at + q], mem[(at + h) + q]))
    /\ mem1[(at + 2 * h) + q]
         = SymDiff(s[buf + q],
                   SymDiff(mem[(at + 2 * h) + q], mem[(at + 3 * h) + q]))
    /\ mem1[(at + 3 * h) + q] = mem[(at + 3 * h) + q]

(* karatzuba_add3, as polynomials: by Karatsuba's identity, the four       *)
(* quarters it leaves are those of the product.                            *)
LEMMA AddedUp ==
  ASSUME NEW h \in Nat, NEW N, N = h * QwBits,
         NEW mem, NEW at, at \in Nat, NEW s, NEW buf, NEW mem1,
         AddedThree(h, mem, at, s, buf, mem1),
         NEW x0 \in SUBSET (0..N-1), NEW x1 \in SUBSET (0..N-1),
         NEW y0 \in SUBSET (0..N-1), NEW y1 \in SUBSET (0..N-1),
         NEW p0, p0 = Product(x0, y0), NEW p1, p1 = Product(x1, y1),
         NEW m, m = Product(SymDiff(x0, x1), SymDiff(y0, y1)),
         PolyAt(mem, at, h) = Low(p0, N), PolyAt(mem, at + h, 2 * h) = m,
         PolyAt(mem, at + 3 * h, h) = High(p1, N),
         PolyAt(s, buf, h) = SymDiff(High(p0, N), Low(p1, N))
  PROVE  PolyAt(mem1, at, 4 * h)
           = Product(FromHalves(x0, x1, N), FromHalves(y0, y1, N))
<1> DEFINE a1 == at + h
           a2 == at + 2 * h
           a3 == at + 3 * h
           t  == SymDiff(High(p0, N), Low(p1, N))
           s1 == SymDiff(t, SymDiff(Low(p0, N), Low(m, N)))
           s2 == SymDiff(t, SymDiff(High(m, N), High(p1, N)))
<1>1. a1 \in Nat /\ a1 + h = a2 /\ N \in Nat
  BY PolyBound
<1>2. /\ \A q \in 0..h-1 : mem1[at + q] = mem[at + q]
      /\ \A q \in 0..h-1 :
           mem1[a1 + q] = SymDiff(s[buf + q],
                                  SymDiff(mem[at + q], mem[a1 + q]))
      /\ \A q \in 0..h-1 :
           mem1[a2 + q] = SymDiff(s[buf + q],
                                  SymDiff(mem[a2 + q], mem[a3 + q]))
      /\ \A q \in 0..h-1 : mem1[a3 + q] = mem[a3 + q]
  BY DEF AddedThree
<1>3. PolyAt(mem, a1, 2 * h) = m /\ PolyAt(mem, a3, h) = High(p1, N)
  OBVIOUS
<1>4. PolyAt(mem1, at, 4 * h)
        = FromQuarters(PolyAt(mem1, at, h), PolyAt(mem1, a1, h),
                       PolyAt(mem1, a2, h), PolyAt(mem1, a3, h), N)
  BY QuartersInMemory
<1> HIDE DEF a1, a2, a3
<1>5. PolyAt(mem, a1, h) = Low(m, N) /\ PolyAt(mem, a2, h) = High(m, N)
  BY <1>1, <1>3, HalvesInMemory
<1>6. PolyAt(mem1, at, h) = Low(p0, N)
  BY <1>2, SamePoly
<1>7. PolyAt(mem1, a3, h) = High(p1, N)
  BY <1>2, <1>3, SamePoly
<1>8. PolyAt(mem1, a1, h) = s1
  <2>1. PolyAt(mem1, a1, h)
          = SymDiff(PolyAt(s, buf, h),
                    SymDiff(PolyAt(mem, at, h), PolyAt(mem, a1, h)))
    BY <1>2, SumOfThree
  <2>2. QED
    BY <1>5, <2>1
<1>9. PolyAt(mem1, a2, h) = s2
  <2>1. PolyAt(mem1, a2, h)
          = SymDiff(PolyAt(s, buf, h),
                    SymDiff(PolyAt(mem, a2, h), PolyAt(mem, a3, h)))
    BY <1>2, SumOfThree
  <2>2. QED
    BY <1>3, <1>5, <2>1
<1>10. PolyAt(mem1, at, 4 * h)
         = FromQuarters(Low(p0, N), s1, s2, High(p1, N), N)
  BY <1>4, <1>6, <1>7, <1>8, <1>9
<1>11. /\ p0 \in SUBSET (0..2*N-1) /\ p1 \in SUBSET (0..2*N-1)
       /\ m \in SUBSET (0..2*N-1)
       /\ Product(FromHalves(x0, x1, N), FromHalves(y0, y1, N))
            = ThreeProducts(p0, m, p1, N)
  <2>1. HalfProducts(x0, x1, y0, y1, p0, m, p1, N)
    BY DEF HalfProducts
  <2>2. QED
    BY <1>1, <2>1, KaratsubaIdentity
<1>12. FromQuarters(Low(p0, N), s1, s2, High(p1, N), N)
         = ThreeProducts(p0, m, p1, N)
  BY <1>1, <1>11, Recombined
<1>13. QED
  BY <1>10, <1>11, <1>12

(* karatzuba_add3 leaves the product of the whole operands. *)
LEMMA AddStep ==
  ASSUME KaratsubaInv, AddMiddle
  PROVE  KaratsubaInv'
<1> DEFINE h == Half
           C == Top.c
           T == Top.sec
           N == h * QwBits
           x0 == PartA(Top, sec, 0, h)
           x1 == PartA(Top, sec, h, h)
           y0 == PartB(Top, sec, 0, h)
           y1 == PartB(Top, sec, h, h)
           p0 == PartProduct(Top, sec, 0, h)
           p1 == PartProduct(Top, sec, h, h)
           m  == Product(SymDiff(x0, x1), SymDiff(y0, y1))
           buf == T + 2 * h
<1>1. StackInv /\ MemInv /\ ProductsInv
  BY DEF KaratsubaInv
<1>2. /\ pc = "karatzuba" /\ Top.step = "middle_done" /\ Return
      /\ build' = build /\ in' = in /\ sec' = sec
  BY DEF AddMiddle, At
<1>3. /\ CallInv(Top, c, sec) /\ Returned(Top, h, c, sec)
      /\ Top \in Frames /\ FrameInv(Top) /\ Top.pad \div 2 = h
  BY <1>1, <1>2, TopFacts DEF ProductsInv, Half
<1>4. Top.len > build.Base
  BY <1>2, <1>3 DEF FrameInv
<1>5. /\ h \in Nat /\ Top.pad = 2 * h /\ C \in Nat /\ T \in Nat
      /\ build.Pad \in Nat /\ C + 4 * h <= 2 * build.Pad
  BY <1>1, <1>2, <1>4, HalfFacts
<1>6. /\ c' \in [0 .. 2 * build.Pad - 1 -> Qwords]
      /\ \A q \in 0 .. 2 * build.Pad - 1 :
           q < C + h \/ q >= C + 3 * h => c'[q] = c[q]
      /\ \A q \in 0..h-1 :
           /\ c'[(C + h) + q] = SymDiff(sec[(T + 2 * h) + q],
                                        SymDiff(c[C + q], c[(C + h) + q]))
           /\ c'[(C + 2 * h) + q]
                = SymDiff(sec[(T + 2 * h) + q],
                          SymDiff(c[(C + 2 * h) + q], c[(C + 3 * h) + q]))
  BY <1>1, ResultOfSums
<1>7. /\ PolyAt(sec, T, h) = SymDiff(x0, x1)
      /\ PolyAt(sec, T + h, h) = SymDiff(y0, y1)
      /\ PolyAt(c, C, h) = Low(p0, N)
      /\ PolyAt(c, C + 3 * h, h) = High(p1, N)
      /\ PolyAt(sec, buf, h) = SymDiff(High(p0, N), Low(p1, N))
  BY <1>2, <1>3 DEF CallInv, Saved
<1>8. PolyAt(c, C + h, 2 * h)
        = Product(PolyAt(sec, T, h), PolyAt(sec, T + h, h))
  BY <1>2, <1>3 DEF Returned
<1> HIDE DEF h, C, T
<1>9. WorksIn(Top, c, sec, c', sec)
  <2>1. ASSUME NEW q \in 0 .. 2 * build.Pad - 1, q < C \/ q >= C + 2 * Top.pad
        PROVE  c'[q] = c[q]
    <3>1. q < C + h \/ q >= C + 3 * h
      BY <1>5, <2>1
    <3>2. QED
      BY <1>6, <3>1
  <2>2. QED
    BY <2>1 DEF WorksIn, C
<1>10. AddedThree(h, c, C, sec, buf, c')
  <2>1. ASSUME NEW q \in 0..h-1
        PROVE  /\ c'[C + q] = c[C + q]
               /\ c'[(C + 3 * h) + q] = c[(C + 3 * h) + q]
    <3>1. /\ C + q \in 0 .. 2 * build.Pad - 1 /\ C + q < C + h
          /\ (C + 3 * h) + q \in 0 .. 2 * build.Pad - 1
          /\ (C + 3 * h) + q >= C + 3 * h
      BY <1>5
    <3>2. QED
      BY <1>6, <3>1
  <2>2. QED
    BY <1>6, <2>1 DEF AddedThree
<1>11. PolyAt(c, C + h, 2 * h) = m
  BY <1>7, <1>8
<1> HIDE DEF N, x0, x1, y0, y1, p0, p1, m, buf
<1>16. /\ N \in Nat
       /\ PartA(Top, sec, 0, 2 * h) = FromHalves(x0, x1, N)
       /\ PartB(Top, sec, 0, 2 * h) = FromHalves(y0, y1, N)
       /\ x0 \in SUBSET (0..N-1) /\ x1 \in SUBSET (0..N-1)
       /\ y0 \in SUBSET (0..N-1) /\ y1 \in SUBSET (0..N-1)
  <2>1. N = h * QwBits /\ N \in Nat
    BY <1>5, PolyBound DEF N
  <2>2. QED
    BY <1>3, <1>5, <2>1, HalvesOfParts DEF x0, x1, y0, y1
<1>17. /\ p0 = Product(x0, y0) /\ p1 = Product(x1, y1)
       /\ m = Product(SymDiff(x0, x1), SymDiff(y0, y1))
  BY DEF p0, p1, m, x0, x1, y0, y1, PartProduct
<1>18. PolyAt(c', C, 4 * h)
         = Product(FromHalves(x0, x1, N), FromHalves(y0, y1, N))
  <2>1. N = h * QwBits
    BY DEF N
  <2>2. QED
    BY <1>5, <1>7, <1>10, <1>11, <1>16, <1>17, <2>1, AddedUp
<1>20. PolyAt(c', Top.c, 2 * Top.pad) = PartProduct(Top, sec, 0, Top.pad)
  <2>1. 2 * Top.pad = 4 * h
    BY <1>5
  <2>2. PartProduct(Top, sec, 0, 2 * h)
          = Product(FromHalves(x0, x1, N), FromHalves(y0, y1, N))
    BY <1>16 DEF PartProduct
  <2>3. QED
    BY <1>5, <1>18, <2>1, <2>2 DEF C
<1>21. QED
  BY <1>1, <1>2, <1>6, <1>9, <1>20, ReturnKeeps

(***************************************************************************)
(* The reduction.                                                          *)
(***************************************************************************)

(* What the exponents wrap to. *)
LEMMA Wrapped ==
  ASSUME NEW r \in Nat \ {0}, NEW d \in Int
  PROVE  /\ d \in 0..r-1 => d % r = d
         /\ d \in -r..-1 => d % r = d + r
<1> DEFINE k == d \div r
           m == d % r
<1>1. k \in Int /\ m \in 0..r-1 /\ d = r * k + m
  BY Divided
<1> HIDE DEF k, m
<1>2. ASSUME k >= 1
      PROVE  d >= r
  <2>1. r * k >= r * 1
    BY <1>1, <1>2
  <2>2. r * k \in Int
    BY <1>1
  <2>3. QED
    BY <1>1, <2>1, <2>2
<1>3. ASSUME k <= -2
      PROVE  d < -r
  <2>1. r * k <= r * (-2)
    BY <1>1, <1>3
  <2>2. r * k \in Int
    BY <1>1
  <2>3. QED
    BY <1>1, <2>1, <2>2
<1>4. k = 0 => d = m
  BY <1>1
<1>5. k = -1 => d = m - r
  <2>1. k = -1 => r * k = -r
    BY <1>1
  <2>2. QED
    BY <1>1, <2>1
<1>6. ASSUME d \in 0..r-1
      PROVE  m = d
  <2>1. k = 0 \/ k = -1
    BY <1>1, <1>2, <1>3, <1>6
  <2>2. QED
    BY <1>1, <1>4, <1>5, <1>6, <2>1
<1>7. ASSUME d \in -r..-1
      PROVE  m = d + r
  <2>1. k = 0 \/ k = -1
    BY <1>1, <1>2, <1>3, <1>7
  <2>2. QED
    BY <1>1, <1>4, <1>5, <1>7, <2>1
<1>8. QED
  BY <1>6, <1>7 DEF m

(* Modulo x^r - 1 a product is folded at r. *)
Folded(p, r) == {k \in 0..r-1 : ~(k \in p <=> k + r \in p)}

(* The folded product is the product that Gf2Ring defines. *)
LEMMA FoldedProduct ==
  ASSUME NEW r \in Nat \ {0},
         NEW x \in SUBSET (0..r-1), NEW y \in SUBSET (0..r-1)
  PROVE  Folded(Product(x, y), r)
           = {k \in 0..r-1 : Cardinality({i \in x : (k - i) % r \in y}) % 2 = 1}
<1>1. x \in Polys /\ y \in Polys
  BY BoundedPolys
<1>2. ASSUME NEW k \in 0..r-1
      PROVE  ~(k \in Product(x, y) <=> k + r \in Product(x, y))
               <=> Odd({i \in x : (k - i) % r \in y})
  <2> DEFINE S == Pairs(x, y, k)
             U == Pairs(x, y, k + r)
  <2>1. k \in Int /\ k + r \in Int
    OBVIOUS
  <2>2. /\ IsFiniteSet(S) /\ IsFiniteSet(U)
        /\ k \in Product(x, y) <=> Odd(S)
        /\ k + r \in Product(x, y) <=> Odd(U)
    BY <1>1, <2>1, InProduct
  <2>3. ASSUME NEW i \in x
        PROVE  (k - i) % r \in y <=> ~(k - i \in y <=> (k + r) - i \in y)
    <3>1. i \in 0..r-1 /\ k - i \in Int
      OBVIOUS
    <3>2. CASE k >= i
      <4>1. k - i \in 0..r-1 /\ (k + r) - i \notin 0..r-1
        BY <3>1, <3>2
      <4>2. (k - i) % r = k - i
        BY <3>1, <4>1, Wrapped
      <4>3. QED
        BY <4>1, <4>2
    <3>3. CASE k < i
      <4>1. k - i \in -r..-1 /\ k - i \notin 0..r-1 /\ (k - i) + r = (k + r) - i
        BY <3>1, <3>3
      <4>2. (k - i) % r = (k - i) + r
        BY <3>1, <4>1, Wrapped
      <4>3. QED
        BY <4>1, <4>2
    <3>4. QED
      BY <3>1, <3>2, <3>3
  <2>4. {i \in x : (k - i) % r \in y} = SymDiff(S, U)
    BY <2>3 DEF SymDiff, Pairs
  <2> HIDE DEF S, U
  <2>5. Odd(SymDiff(S, U)) <=> ~(Odd(S) <=> Odd(U))
    BY <2>2, OddSymDiff
  <2>6. QED
    BY <2>2, <2>4, <2>5
<1>3. QED
  BY <1>2 DEF Folded, Odd

(* Shifted by R bits, a bit comes from one of two quad-words. *)
LEMMA ShiftedBit ==
  ASSUME build \in Builds, NEW e \in Nat, NEW q, q = Qw(e), NEW b, b = Bit(e)
  PROVE  /\ e + build.R \in Nat
         /\ b + Lead >= QwBits => /\ Qw(e + build.R) = q + RQwords
                                  /\ Bit(e + build.R) = b + Lead - QwBits
         /\ b + Lead < QwBits => /\ Qw(e + build.R) = q + RQwords - 1
                                 /\ Bit(e + build.R) = b + Lead
         /\ e < build.R <=> q < RQwords - 1 \/ (q = RQwords - 1 /\ b < Lead)
<1> DEFINE n == RQwords
           r == build.R
           w == QwBits
           l == Lead
<1>1. /\ n \in Nat \ {0} /\ l \in 1..w-1 /\ r = (n - 1) * w + l
      /\ w \in Nat \ {0} /\ r \in Nat
  BY QwordsOfR, BuildFacts
<1>2. q \in Nat /\ b \in 0..w-1 /\ e = w * q + b
  BY QwordOf
<1> HIDE DEF n, r, w, l
<1>3. r = w * (n - 1) + l
  <2>1. (n - 1) * w = w * (n - 1)
    BY <1>1
  <2>2. QED
    BY <1>1, <2>1
<1>4. /\ w * (q + n - 1) = w * q + w * (n - 1)
      /\ w * (q + n) = w * q + w * (n - 1) + w
      /\ w * q \in Int /\ w * (n - 1) \in Int
  BY <1>1, <1>2
<1>5. ASSUME b + l >= w
      PROVE  Qw(e + r) = q + n /\ Bit(e + r) = b + l - w
  <2>1. q + n \in Nat /\ b + l - w \in 0..w-1
    BY <1>1, <1>2, <1>5
  <2>2. e + r = w * (q + n) + (b + l - w)
    BY <1>1, <1>2, <1>3, <1>4
  <2>3. QED
    BY <2>1, <2>2, QwordIs DEF w
<1>6. ASSUME b + l < w
      PROVE  Qw(e + r) = q + n - 1 /\ Bit(e + r) = b + l
  <2>1. q + n - 1 \in Nat /\ b + l \in 0..w-1
    BY <1>1, <1>2, <1>6
  <2>2. e + r = w * (q + n - 1) + (b + l)
    BY <1>1, <1>2, <1>3, <1>4
  <2>3. QED
    BY <2>1, <2>2, QwordIs DEF w
<1>7. e < r <=> q < n - 1 \/ (q = n - 1 /\ b < l)
  <2>1. CASE q < n - 1
    <3>1. w * q <= w * (n - 2)
      BY <1>1, <1>2, <2>1
    <3>2. w * (n - 2) = w * (n - 1) - w
      BY <1>1
    <3>3. QED
      BY <1>1, <1>2, <1>3, <1>4, <2>1, <3>1, <3>2
  <2>2. CASE q = n - 1
    BY <1>1, <1>2, <1>3, <1>4, <2>2
  <2>3. CASE q > n - 1
    <3>1. w * q >= w * n
      BY <1>1, <1>2, <2>3
    <3>2. w * n = w * (n - 1) + w
      BY <1>1
    <3>3. QED
      BY <1>1, <1>2, <1>3, <1>4, <2>3, <3>1, <3>2
  <2>4. QED
    BY <1>1, <1>2, <2>1, <2>2, <2>3
<1>8. e + r \in Nat
  BY <1>1
<1>9. QED
  BY <1>5, <1>6, <1>7, <1>8 DEF n, r, w, l

(* gf2x_red folds what is in c. *)
LEMMA RedFolds ==
  ASSUME build \in Builds, c \in [0 .. 2 * build.Pad - 1 -> Qwords], Red,
         NEW p, p = PolyAt(c, 0, 2 * build.Pad)
  PROVE  /\ PolyAt(c', 0, build.Pad) = Folded(p, build.R)
         /\ \A q \in 0 .. build.Pad - 1 : c'[q] \in Qwords
<1> DEFINE up(v)   == {b + QwBits - Lead : b \in {b \in v : b < Lead}}
           down(v) == {b - Lead : b \in {b \in v : b >= Lead}}
           sum(q)  == SymDiff(c[q], up(c[q + RQwords])
                                      \cup down(c[q + RQwords - 1]))
<1>1. c' = [q \in 0 .. build.Pad - 1 |->
              IF q >= RQwords THEN {}
              ELSE IF q = RQwords - 1 THEN {b \in sum(q) : b < Lead}
              ELSE sum(q)]
  BY DEF Red
<1>2. /\ RQwords \in Nat \ {0} /\ RQwords <= build.Pad /\ Lead \in 1..QwBits-1
      /\ QwBits \in Nat \ {0} /\ build.Pad \in Nat /\ build.R \in Nat
      /\ build.R <= build.Pad * QwBits
  BY QwordsOfR, BuildFacts
<1>3. ASSUME NEW q \in Nat, q < RQwords
      PROVE  /\ c[q] \in Qwords /\ c[q + RQwords] \in Qwords
             /\ c[q + RQwords - 1] \in Qwords
  <2>1. /\ q \in 0 .. 2 * build.Pad - 1
        /\ q + RQwords \in 0 .. 2 * build.Pad - 1
        /\ q + RQwords - 1 \in 0 .. 2 * build.Pad - 1
    BY <1>2, <1>3
  <2>2. QED
    BY <2>1
<1>4. ASSUME NEW v \in Qwords, NEW b \in 0..QwBits-1
      PROVE  /\ b \in up(v) <=> b + Lead >= QwBits /\ b + Lead - QwBits \in v
             /\ b \in down(v) <=> b + Lead < QwBits /\ b + Lead \in v
  <2>1. \A d \in v : d \in 0..QwBits-1
    BY DEF Qwords
  <2>2. b \in up(v) <=> \E d \in v : d < Lead /\ b = d + QwBits - Lead
    OBVIOUS
  <2>3. b \in down(v) <=> \E d \in v : d >= Lead /\ b = d - Lead
    OBVIOUS
  <2>4. ASSUME NEW d \in v
        PROVE  /\ (d < Lead /\ b = d + QwBits - Lead)
                    <=> d = b + Lead - QwBits
               /\ (d >= Lead /\ b = d - Lead) <=> d = b + Lead
    <3>1. d \in 0..QwBits-1 /\ b \in 0..QwBits-1 /\ Lead \in 1..QwBits-1
      BY <1>2, <2>1
    <3>2. QED
      BY <1>2, <3>1
  <2> HIDE DEF up, down
  <2>5. b \in up(v) <=> b + Lead - QwBits \in v
    BY <2>2, <2>4
  <2>6. b \in down(v) <=> b + Lead \in v
    BY <2>3, <2>4
  <2>7. /\ b + Lead - QwBits \in v => b + Lead >= QwBits
        /\ b + Lead \in v => b + Lead < QwBits
    BY <1>2, <2>1
  <2>8. QED
    BY <2>5, <2>6, <2>7
<1>5. ASSUME NEW v \in Qwords
      PROVE  up(v) \in Qwords /\ down(v) \in Qwords
  <2>1. \A d \in v : /\ d \in 0..QwBits-1
                     /\ d < Lead => d + QwBits - Lead \in 0..QwBits-1
                     /\ d >= Lead => d - Lead \in 0..QwBits-1
    BY <1>2 DEF Qwords
  <2>2. QED
    BY <2>1 DEF Qwords
<1> HIDE DEF up, down
<1>6. ASSUME NEW q \in Nat, q < RQwords
      PROVE  sum(q) \in Qwords
  <2>1. /\ up(c[q + RQwords]) \in Qwords /\ down(c[q + RQwords - 1]) \in Qwords
    BY <1>3, <1>5, <1>6
  <2>2. up(c[q + RQwords]) \cup down(c[q + RQwords - 1]) \in Qwords
    BY <2>1 DEF Qwords
  <2>3. QED
    BY <1>3, <1>6, <2>2, SumWords
<1>7. ASSUME NEW q \in 0 .. build.Pad - 1
      PROVE  c'[q] \in Qwords
  <2> HIDE DEF sum
  <2>1. CASE q >= RQwords
    BY <1>1, <2>1 DEF Qwords
  <2>2. CASE q < RQwords
    <3>1. sum(q) \in Qwords
      BY <1>6, <2>2
    <3>2. c'[q] \in SUBSET sum(q)
      BY <1>1, <1>2, <2>2
    <3>3. QED
      BY <3>1, <3>2 DEF Qwords
  <2>3. QED
    BY <1>2, <2>1, <2>2
<1>8. ASSUME NEW e \in Nat, NEW q, q = Qw(e), NEW b, b = Bit(e), q < RQwords
      PROVE  b \in sum(q) <=> ~(e \in p <=> e + build.R \in p)
  <2>1. q \in Nat /\ b \in 0..QwBits-1 /\ e + build.R \in Nat
    <3>1. Qw(e) \in Nat /\ Bit(e) \in 0..QwBits-1
      BY QwordOf
    <3>2. e + build.R \in Nat
      BY <1>2
    <3>3. QED
      BY <1>8, <3>1, <3>2
  <2>2. /\ c[q] \in Qwords /\ c[q + RQwords] \in Qwords
        /\ c[q + RQwords - 1] \in Qwords
    BY <1>3, <1>8, <2>1
  <2>3. ASSUME NEW d \in Nat, NEW k, k = Qw(d), k < 2 * build.Pad
        PROVE  d \in p <=> Bit(d) \in c[k]
    <3>1. k \in Nat
      BY <2>3, QwordOf
    <3>2. 2 * build.Pad \in Nat /\ k \in 0 .. 2 * build.Pad - 1 /\ 0 + k = k
      BY <1>2, <2>3, <3>1
    <3>3. d \in 0 .. (2 * build.Pad) * QwBits - 1
      BY <2>3, <3>2, QwordBelow
    <3>4. QED
      BY <2>3, <3>2, <3>3 DEF PolyAt
  <2>4. e \in p <=> b \in c[q]
    <3>1. q < 2 * build.Pad
      BY <1>2, <1>8, <2>1
    <3>2. QED
      BY <1>8, <2>3, <3>1
  <2>5. CASE b + Lead >= QwBits
    <3>1. Qw(e + build.R) = q + RQwords /\ Bit(e + build.R) = b + Lead - QwBits
      BY <1>8, <2>5, ShiftedBit
    <3>2. q + RQwords < 2 * build.Pad
      BY <1>2, <1>8, <2>1
    <3>3. e + build.R \in p <=> b + Lead - QwBits \in c[q + RQwords]
      BY <2>1, <2>3, <3>1, <3>2
    <3>4. b \in up(c[q + RQwords]) <=> e + build.R \in p
      BY <1>4, <2>1, <2>2, <2>5, <3>3
    <3>5. b \notin down(c[q + RQwords - 1])
      BY <1>2, <1>4, <2>1, <2>2, <2>5
    <3>6. QED
      BY <2>4, <3>4, <3>5 DEF SymDiff
  <2>6. CASE b + Lead < QwBits
    <3>1. Qw(e + build.R) = q + RQwords - 1 /\ Bit(e + build.R) = b + Lead
      BY <1>8, <2>6, ShiftedBit
    <3>2. q + RQwords - 1 < 2 * build.Pad
      BY <1>2, <1>8, <2>1
    <3>3. e + build.R \in p <=> b + Lead \in c[q + RQwords - 1]
      BY <2>1, <2>3, <3>1, <3>2
    <3>4. b \in down(c[q + RQwords - 1]) <=> e + build.R \in p
      BY <1>4, <2>1, <2>2, <2>6, <3>3
    <3>5. b \notin up(c[q + RQwords])
      BY <1>2, <1>4, <2>1, <2>2, <2>6
    <3>6. QED
      BY <2>4, <3>4, <3>5 DEF SymDiff
  <2>7. QED
    BY <1>2, <2>1, <2>5, <2>6
<1> HIDE DEF sum
<1>9. ASSUME NEW e \in Nat
      PROVE  e \in PolyAt(c', 0, build.Pad) <=> e \in Folded(p, build.R)
  <2> DEFINE q == Qw(e)
             b == Bit(e)
  <2>1. q \in Nat /\ b \in 0..QwBits-1
    BY QwordOf
  <2>2. e < build.R <=> q < RQwords - 1 \/ (q = RQwords - 1 /\ b < Lead)
    BY ShiftedBit
  <2>3. e \in 0 .. build.Pad * QwBits - 1 <=> q \in 0 .. build.Pad - 1
    BY <1>2, QwordBelow
  <2>4. e \in PolyAt(c', 0, build.Pad) <=>
          q \in 0 .. build.Pad - 1 /\ b \in c'[q]
    <3>1. 0 + q = q
      BY <2>1
    <3>2. QED
      BY <2>3, <3>1 DEF PolyAt
  <2>5. e \in Folded(p, build.R) <=>
          e < build.R /\ ~(e \in p <=> e + build.R \in p)
    BY <1>2 DEF Folded
  <2>6. q < RQwords => (b \in sum(q) <=> ~(e \in p <=> e + build.R \in p))
    BY <1>8
  <2> HIDE DEF q, b
  <2>7. CASE q >= RQwords
    <3>1. ~(e < build.R)
      BY <1>2, <2>1, <2>2, <2>7
    <3>2. q \in 0 .. build.Pad - 1 => c'[q] = {}
      BY <1>1, <2>7
    <3>3. QED
      BY <2>4, <2>5, <3>1, <3>2
  <2>8. CASE q < RQwords
    <3>1. q \in 0 .. build.Pad - 1
      BY <1>2, <2>1, <2>8
    <3>2. CASE q = RQwords - 1
      <4>1. c'[q] = {d \in sum(q) : d < Lead} /\ (e < build.R <=> b < Lead)
        BY <1>1, <1>2, <2>1, <2>2, <2>8, <3>1, <3>2
      <4>2. QED
        BY <2>4, <2>5, <2>6, <2>8, <3>1, <4>1
    <3>3. CASE q # RQwords - 1
      <4>1. c'[q] = sum(q) /\ e < build.R
        BY <1>1, <1>2, <2>1, <2>2, <2>8, <3>1, <3>3
      <4>2. QED
        BY <2>4, <2>5, <2>6, <2>8, <3>1, <4>1
    <3>4. QED
      BY <3>2, <3>3
  <2>9. QED
    BY <1>2, <2>1, <2>7, <2>8
<1>10. PolyAt(c', 0, build.Pad) \in SUBSET Nat
  <2>1. PolyAt(c', 0, build.Pad) \in SUBSET (0 .. build.Pad * QwBits - 1)
    BY <1>2, PolyBound
  <2>2. QED
    BY <2>1
<1>11. Folded(p, build.R) \in SUBSET Nat
  BY <1>2 DEF Folded
<1>12. QED
  BY <1>7, <1>9, <1>10, <1>11

(* The operands as the properties read them. *)
LEMMA OperandIs ==
  ASSUME build \in Builds, MemInv, NEW k \in 1..2
  PROVE  /\ Operand(k) = PolyAt(in[k], 0, build.Pad)
         /\ Operand(k) \in SUBSET (0 .. build.R - 1)
<1>1. build.Pad \in Nat
  BY BuildFacts
<1>2. \A q \in 0 .. build.Pad - 1 : in[k][q] \in Qwords
  BY DEF MemInv
<1>3. Operand(k) = {e \in 0 .. build.Pad * QwBits - 1 : Bit(e) \in in[k][Qw(e)]}
  BY <1>1, <1>2, ToPolyIs DEF Operand
<1>4. \A e \in 0 .. build.Pad * QwBits - 1 : 0 + Qw(e) = Qw(e)
  <2>1. \A e \in 0 .. build.Pad * QwBits - 1 : e \in Nat
    BY <1>1, PolyBound
  <2>2. QED
    BY <2>1, QwordOf
<1>5. Operand(k) = PolyAt(in[k], 0, build.Pad)
  BY <1>3, <1>4 DEF PolyAt
<1>6. QED
  BY <1>5 DEF MemInv

(* The ring counts as this module does. *)
LEMMA SameCardinality ==
  ASSUME NEW S
  PROVE  Ring!Cardinality(S) = Cardinality(S)
BY DEF Ring!Cardinality, Cardinality

(* The reduction makes the product modulo x^R - 1 of the whole one. *)
LEMMA RedStep ==
  ASSUME KaratsubaInv, Red
  PROVE  KaratsubaInv'
<1> DEFINE x == Operand(1)
           y == Operand(2)
           p == PolyAt(c, 0, 2 * build.Pad)
<1>1. StackInv /\ MemInv /\ build \in Builds
  BY DEF KaratsubaInv, StackInv
<1>2. /\ pc = "red" /\ pc' = "done" /\ build' = build /\ in' = in /\ sec' = sec
      /\ stack' = stack
  BY DEF Red
<1>3. StackInv'
  BY <1>1, StackStep DEF Next
<1>4. MemInv'
  BY <1>1, <1>2, NextMem DEF MemInv
<1>5. c \in [0 .. 2 * build.Pad - 1 -> Qwords] /\ WholeProduct(c)
  BY <1>1, <1>2 DEF MemInv, KaratsubaInv
<1>6. /\ x = PolyAt(in[1], 0, build.Pad) /\ x \in SUBSET (0 .. build.R - 1)
      /\ y = PolyAt(in[2], 0, build.Pad) /\ y \in SUBSET (0 .. build.R - 1)
  BY <1>1, OperandIs
<1>7. /\ PolyAt(c', 0, build.Pad) = Folded(p, build.R)
      /\ \A q \in 0 .. build.Pad - 1 : c'[q] \in Qwords
  BY <1>1, <1>5, RedFolds
<1>8. build.Pad \in Nat /\ build.R \in Nat \ {0}
  BY <1>1, BuildFacts
<1> HIDE DEF x, y, p
<1>9. p = Product(x, y)
  BY <1>5, <1>6 DEF WholeProduct, p
<1>10. Folded(p, build.R)
         = {k \in 0 .. build.R - 1 :
              Cardinality({i \in x : (k - i) % build.R \in y}) % 2 = 1}
  BY <1>6, <1>8, <1>9, FoldedProduct
<1>11. ToPoly(c', build.Pad) = PolyAt(c', 0, build.Pad)
  <2>1. ToPoly(c', build.Pad)
          = {e \in 0 .. build.Pad * QwBits - 1 : Bit(e) \in c'[Qw(e)]}
    BY <1>7, <1>8, ToPolyIs
  <2>2. \A e \in 0 .. build.Pad * QwBits - 1 : 0 + Qw(e) = Qw(e)
    <3>1. \A e \in 0 .. build.Pad * QwBits - 1 : e \in Nat
      BY <1>8, PolyBound
    <3>2. QED
      BY <3>1, QwordOf
  <2>3. QED
    BY <2>1, <2>2 DEF PolyAt
<1>12. ProductModR'
  <2>1. ToPoly(c', build'.Pad)
          = {k \in 0 .. build'.R - 1 :
               Cardinality({i \in ToPoly(in'[1], build'.Pad) :
                              (k - i) % build'.R
                                 \in ToPoly(in'[2], build'.Pad)}) % 2 = 1}
    BY <1>2, <1>7, <1>10, <1>11 DEF x, y, Operand
  <2>2. QED
    BY <2>1, SameCardinality
    DEF ProductModR, Operand, Ring!Mul, Ring!Exponents, ToPoly
<1>13. QED
  BY <1>2, <1>3, <1>4, <1>12 DEF KaratsubaInv, ProductsInv

(* The inputs are polynomials below R with a clean padding. *)
LEMMA StoredOperand ==
  ASSUME build \in Builds, NEW x \in SUBSET (0 .. build.R - 1),
         NEW v, v = ToQwords(x, build.Pad)
  PROVE  /\ v \in [0 .. build.Pad - 1 -> Qwords]
         /\ \A q \in RQwords .. build.Pad - 1 : v[q] = {}
         /\ PolyAt(v, 0, build.Pad) = x
<1>1. /\ RQwords \in Nat \ {0} /\ RQwords <= build.Pad /\ Lead \in 1..QwBits-1
      /\ QwBits \in Nat \ {0} /\ build.Pad \in Nat /\ build.R \in Nat
      /\ build.R <= build.Pad * QwBits
      /\ build.R = (RQwords - 1) * QwBits + Lead
  BY QwordsOfR, BuildFacts
<1>2. v = [q \in 0 .. build.Pad - 1 |->
             {b \in 0..QwBits-1 : q * QwBits + b \in x}]
  BY DEF ToQwords
<1>3. v \in [0 .. build.Pad - 1 -> Qwords]
  BY <1>2 DEF Qwords
<1>4. ASSUME NEW q \in RQwords .. build.Pad - 1
      PROVE  v[q] = {}
  <2>1. q \in 0 .. build.Pad - 1 /\ q \in Nat /\ q >= RQwords
    BY <1>1
  <2>2. ASSUME NEW b \in 0..QwBits-1
        PROVE  q * QwBits + b \notin x
    <3>1. q * QwBits >= RQwords * QwBits
      BY <1>1, <2>1
    <3>2. RQwords * QwBits = (RQwords - 1) * QwBits + QwBits
      BY <1>1
    <3>3. (RQwords - 1) * QwBits \in Int /\ q * QwBits \in Int
      BY <1>1, <2>1
    <3>4. q * QwBits + b > build.R - 1
      BY <1>1, <3>1, <3>2, <3>3
    <3>5. QED
      BY <1>1, <3>3, <3>4
  <2>3. QED
    BY <1>2, <2>1, <2>2
<1>5. PolyAt(v, 0, build.Pad) = x
  <2> DEFINE n == build.Pad
  <2>1. n \in Nat /\ n * QwBits \in Nat
    BY <1>1, PolyBound
  <2>2. x \in SUBSET (0 .. n * QwBits - 1)
    <3>1. \A e \in x : e \in 0 .. n * QwBits - 1
      BY <1>1, <2>1
    <3>2. QED
      BY <3>1
  <2>3. \A q \in 0..n-1 : v[0 + q] = ToQwords(x, n)[q]
    OBVIOUS
  <2> HIDE DEF n
  <2>4. PolyAt(v, 0, n) = x
    BY <2>1, <2>2, <2>3, StoredPoly
  <2>5. QED
    BY <2>4 DEF n
<1>6. QED
  BY <1>3, <1>4, <1>5

(* Before the first call the operands are padded with zeros, and nothing is*)
(* claimed of the scratch memory.                                          *)
LEMMA InitProducts ==
  ASSUME Init
  PROVE  KaratsubaInv
<1>1. StackInv /\ build \in Builds /\ pc = "karatzuba"
  BY InitStack DEF Init
<1>2. build.Pad \in Nat \ {0}
  BY <1>1, BuildFacts
<1>3. /\ c = [q \in 0 .. 2 * build.Pad - 1 |-> {}]
      /\ sec = [q \in 0 .. 3 * build.Pad - 1 |-> 0 .. QwBits - 1]
  BY DEF Init, SecureBufferQwords
<1>4. MemInv
  <2>1. PICK pair \in Operands :
          /\ pair[1] \cup pair[2] \subseteq 0 .. build.R - 1
          /\ in = <<ToQwords(pair[1], build.Pad), ToQwords(pair[2], build.Pad)>>
    BY DEF Init
  <2>2. ASSUME NEW k \in 1..2
        PROVE  /\ pair[k] \in SUBSET (0 .. build.R - 1)
               /\ in[k] = ToQwords(pair[k], build.Pad)
    BY <2>1
  <2>3. ASSUME NEW k \in 1..2
        PROVE  /\ in[k] \in [0 .. build.Pad - 1 -> Qwords]
               /\ \A q \in RQwords .. build.Pad - 1 : in[k][q] = {}
               /\ PolyAt(in[k], 0, build.Pad) \in SUBSET (0 .. build.R - 1)
    BY <1>1, <2>2, StoredOperand
  <2>4. /\ sec \in [0 .. 3 * build.Pad - 1 -> Qwords]
        /\ c \in [0 .. 2 * build.Pad - 1 -> Qwords]
    BY <1>3 DEF Qwords
  <2>5. QED
    BY <2>3, <2>4 DEF MemInv
<1>5. ProductsInv
  <2> DEFINE f == [c |-> 0, src |-> "in", a |-> 0, b |-> 0, len |-> RQwords,
                   pad |-> build.Pad, sec |-> 0, step |-> "enter"]
  <2>1. stack = <<f>>
    BY DEF Init
  <2>2. f.c = 0 /\ f.step = "enter" /\ f.pad = build.Pad
    OBVIOUS
  <2> HIDE DEF f
  <2>3. Len(stack) = 1 /\ stack[1] = f
    BY <2>1
  <2>4. \A q \in 0 .. 2 * f.pad - 1 : c[f.c + q] = {}
    BY <1>2, <1>3, <2>2
  <2>5. Fresh(f, c)
    BY <2>2, <2>4 DEF Fresh
  <2>6. CallInv(f, c, sec)
    BY <2>2, <2>5 DEF CallInv, Saved
  <2>7. Returned(f, f.pad \div 2, c, sec)
    BY <2>2 DEF Returned
  <2>8. QED
    BY <2>3, <2>6, <2>7 DEF ProductsInv
<1>6. QED
  BY <1>1, <1>4, <1>5 DEF KaratsubaInv

(* A stuttering step keeps the invariant. *)
LEMMA NoStep ==
  ASSUME KaratsubaInv, UNCHANGED vars
  PROVE  KaratsubaInv'
<1>1. /\ build' = build /\ in' = in /\ c' = c /\ sec' = sec /\ stack' = stack
      /\ pc' = pc
  BY DEF vars
<1>2. StackInv'
  BY StackStep DEF KaratsubaInv
<1>3. MemInv'
  BY <1>1, NextMem DEF KaratsubaInv, MemInv
<1>4. pc = "karatzuba" => ProductsInv'
  BY <1>1, NextProducts DEF KaratsubaInv, ProductsInv
<1>5. ProductsInv'
  BY <1>1, <1>4 DEF ProductsInv
<1>6. (pc = "red" => WholeProduct(c))'
  BY <1>1 DEF KaratsubaInv, WholeProduct, PolyAt
<1>7. (pc = "done" => ProductModR)'
  <2>1. ASSUME pc = "done"
        PROVE  ToPoly(c', build'.Pad)
                 = {k \in 0 .. build'.R - 1 :
                      Cardinality({i \in ToPoly(in'[1], build'.Pad) :
                                     (k - i) % build'.R
                                        \in ToPoly(in'[2], build'.Pad)})
                      % 2 = 1}
    <3>1. ToPoly(c, build.Pad)
            = {k \in 0 .. build.R - 1 :
                 Cardinality({i \in ToPoly(in[1], build.Pad) :
                                (k - i) % build.R
                                   \in ToPoly(in[2], build.Pad)}) % 2 = 1}
      BY <2>1, SameCardinality
         DEF KaratsubaInv, ProductModR, Operand, Ring!Mul, Ring!Exponents
    <3>2. QED
      BY <1>1, <3>1
  <2>2. QED
    BY <1>1, <2>1, SameCardinality
       DEF ProductModR, Operand, Ring!Mul, Ring!Exponents, ToPoly
<1>8. QED
  BY <1>2, <1>3, <1>5, <1>6, <1>7 DEF KaratsubaInv

(* The invariant of the products: what each call has found, kept and left. *)
THEOREM ProductsKept == Spec => []KaratsubaInv
<1>1. Init => KaratsubaInv
  BY InitProducts
<1>2. KaratsubaInv /\ [Next]_vars => KaratsubaInv'
  BY BaseStep, LowStep, SkipStep, HighStep, MiddleStep, AddStep, RedStep, NoStep
     DEF Next
<1>3. QED
  BY <1>1, <1>2, PTL DEF Spec

(* c = a * b mod (x^R - 1), for every R and every word and padded length.  *)
THEOREM ProductIsModR == Spec => []ProductModR
<1>1. KaratsubaInv => ProductModR
  BY DEF KaratsubaInv, ProductModR
<1>2. QED
  BY <1>1, ProductsKept, PTL

(* A call finds the products of its callees where it looks for them, in    *)
(* full length also when the callee skipped a part.                        *)
THEOREM SubproductsFound == Spec => []SubproductsInPlace
<1>1. KaratsubaInv => SubproductsInPlace
  <2>1. SUFFICES ASSUME KaratsubaInv, pc = "karatzuba", Top.step # "enter"
                 PROVE  SubproductsInPlace
    BY DEF SubproductsInPlace
  <2> DEFINE h == Half
             a(at) == ToPoly([q \in 0..h-1 |-> ReadA(Top, at + q)], h)
             b(at) == ToPoly([q \in 0..h-1 |-> ReadB(Top, at + q)], h)
             found(at) == ToPoly([q \in 0..2*h-1 |-> c[Top.c + at + q]], 2 * h)
             sums(at)  == ToPoly([q \in 0..h-1 |-> sec[at + q]], h)
  <2>2. StackInv /\ MemInv /\ ProductsInv
    BY <2>1 DEF KaratsubaInv
  <2>3. /\ CallInv(Top, c, sec) /\ Returned(Top, h, c, sec)
        /\ Top \in Frames /\ FrameInv(Top) /\ Top.pad \div 2 = h
    BY <2>1, <2>2, TopFacts DEF ProductsInv, Half
  <2>4. Top.len > build.Base
    BY <2>1, <2>3 DEF FrameInv
  <2>5. /\ h \in Nat \ {0} /\ Top.pad = 2 * h /\ Top.c \in Nat
        /\ Top.sec \in Nat /\ build.Pad \in Nat
        /\ Top.c + 4 * h <= 2 * build.Pad /\ Top.sec + 6 * h <= 3 * build.Pad
    BY <2>1, <2>2, <2>4, HalfFacts
  <2>6. /\ c \in [0 .. 2 * build.Pad - 1 -> Qwords]
        /\ sec \in [0 .. 3 * build.Pad - 1 -> Qwords]
    BY <2>1, <2>2 DEF MemInv
  <2>7. Alah = Top.sec /\ Blbh = Top.sec + h
    BY DEF Alah, Blbh
  <2> HIDE DEF h
  <2>8. /\ a(0) = PartA(Top, sec, 0, h) /\ b(0) = PartB(Top, sec, 0, h)
        /\ a(h) = PartA(Top, sec, h, h) /\ b(h) = PartB(Top, sec, h, h)
    <3>1. 0 \in Nat /\ h \in Nat /\ 0 + h <= Top.pad /\ h + h <= Top.pad
      BY <2>5
    <3>2. QED
      BY <2>1, <2>2, <3>1, PartsRead
  <2>9. ASSUME NEW at \in Nat, at <= 2 * h
        PROVE  found(at) = PolyAt(c, Top.c + at, 2 * h)
    <3> DEFINE n == 2 * h
               from == Top.c + at
    <3>1. n \in Nat /\ \A q \in 0..n-1 : Top.c + at + q = from + q
      BY <2>5
    <3>2. ASSUME NEW q \in 0..n-1
          PROVE  c[from + q] \in Qwords
      <4>1. from + q \in 0 .. 2 * build.Pad - 1
        BY <2>5, <2>9
      <4>2. QED
        BY <2>6, <4>1
    <3>3. [q \in 0..n-1 |-> c[Top.c + at + q]] = [q \in 0..n-1 |-> c[from + q]]
      BY <3>1
    <3> HIDE DEF n, from
    <3>4. ToPoly([q \in 0..n-1 |-> c[from + q]], n) = PolyAt(c, from, n)
      BY <3>1, <3>2, ToPolyAt
    <3>5. QED
      BY <3>3, <3>4 DEF n, from
  <2>10. ASSUME NEW at \in Nat, at + h <= 3 * build.Pad
         PROVE  sums(at) = PolyAt(sec, at, h)
    <3>1. ASSUME NEW q \in 0..h-1
          PROVE  sec[at + q] \in Qwords
      <4>1. at + q \in 0 .. 3 * build.Pad - 1
        BY <2>5, <2>10
      <4>2. QED
        BY <2>6, <4>1
    <3>2. QED
      BY <2>5, <3>1, ToPolyAt
  <2>11. /\ found(0) = PolyAt(c, Top.c, 2 * h)
         /\ found(2 * h) = PolyAt(c, Top.c + 2 * h, 2 * h)
         /\ found(h) = PolyAt(c, Top.c + h, 2 * h)
    <3>1. 0 \in Nat /\ h \in Nat /\ 2 * h \in Nat /\ 0 <= 2 * h /\ h <= 2 * h
          /\ 2 * h <= 2 * h /\ Top.c + 0 = Top.c
      BY <2>5
    <3> HIDE DEF found
    <3>2. QED
      BY <2>9, <3>1
  <2>12. /\ sums(Alah) = PolyAt(sec, Top.sec, h)
         /\ sums(Blbh) = PolyAt(sec, Top.sec + h, h)
    <3>1. /\ Top.sec + h \in Nat /\ Top.sec + h <= 3 * build.Pad
          /\ (Top.sec + h) + h <= 3 * build.Pad
      BY <2>5
    <3> HIDE DEF sums
    <3>2. QED
      BY <2>5, <2>7, <2>10, <3>1
  <2> HIDE DEF a, b, found, sums
  <2>13. Top.step = "low_done" => found(0) = Product(a(0), b(0))
    BY <2>3, <2>8, <2>11 DEF Returned, PartProduct
  <2>14. Top.step = "high_done" =>
           /\ found(0) = Product(a(0), b(0))
           /\ found(2 * h) = Product(a(h), b(h))
    BY <2>3, <2>8, <2>11 DEF Returned, CallInv, Saved, PartProduct
  <2>15. Top.step = "middle_done" =>
           found(h) = Product(sums(Alah), sums(Blbh))
    BY <2>3, <2>11, <2>12 DEF Returned
  <2>16. QED
    BY <2>13, <2>14, <2>15 DEF SubproductsInPlace, a, b, found, sums, h
<1>2. QED
  BY <1>1, ProductsKept, PTL

(* The products with nothing and with a single term. *)
LEMMA SingleProduct ==
  ASSUME NEW y \in Polys, NEW k \in Nat
  PROVE  Product({k}, y) = Shift(y, k)
<1>1. {k} \in Polys /\ y \in SUBSET Nat
  BY FS_Singleton DEF Polys
<1> DEFINE z == {k}
<1>2. ASSUME NEW e \in Nat
      PROVE  e \in Product(z, y) <=> e \in Shift(y, k)
  <2>1. e \in Product(z, y) <=> Odd(Pairs(z, y, e))
    <3> HIDE DEF z
    <3>1. z \in Polys
      BY <1>1 DEF z
    <3>2. QED
      BY <3>1, InProduct
  <2>2. e \in Shift(y, k) <=> e >= k /\ e - k \in y
    BY <1>1, ShiftOf
  <2>3. CASE e - k \in y
    <3>1. Pairs(z, y, e) = {k}
      BY <2>3 DEF Pairs
    <3>2. Odd({k})
      <4>1. Cardinality({k}) = 1
        BY FS_Singleton
      <4>2. QED
        BY <4>1 DEF Odd
    <3>3. e >= k
      BY <1>1, <2>3
    <3>4. QED
      BY <2>1, <2>2, <2>3, <3>1, <3>2, <3>3
  <2>4. CASE e - k \notin y
    <3>1. Pairs(z, y, e) = {}
      BY <2>4 DEF Pairs
    <3>2. ~Odd({})
      BY FS_EmptySet DEF Odd
    <3>3. QED
      BY <2>1, <2>2, <2>4, <3>1, <3>2
  <2>5. QED
    BY <2>3, <2>4
<1>3. Product(z, y) \in SUBSET Nat
  <2> HIDE DEF z
  <2>1. z \in Polys
    BY <1>1 DEF z
  <2>2. QED
    BY <2>1, InProduct
<1>4. Shift(y, k) \in SUBSET Nat
  BY <1>1, ShiftOf
<1>5. QED
  BY <1>2, <1>3, <1>4

(* The product with nothing is nothing. *)
LEMMA EmptyProduct ==
  ASSUME NEW y \in Polys
  PROVE  {} \in Polys /\ Product({}, y) = {} /\ Product(y, {}) = {}
<1>1. {} \in Polys
  BY FS_EmptySet DEF Polys
<1>2. Product({}, y) = {} /\ Product(y, {}) = {}
  BY DEF Product
<1>3. QED
  BY <1>1, <1>2

(***************************************************************************)
(* The product of two words, of MulBasePort.                               *)
(***************************************************************************)

(* The bits of a word. *)
WordBits0 == 0 .. Width - 1

(* The parameters of a word. *)
LEMMA WidthIs ==
  /\ Width \in Nat /\ Width > 6 /\ Width % 6 = 4
  /\ WordOperands \subseteq (SUBSET WordBits0) \X (SUBSET WordBits0)
  /\ Word!S = 3
BY WordParameters DEF Word!WidthAssumption, Word!S, WordBits0

(* An instance of the module of finite sets counts the same. *)
LEMMA WordCardinality ==
  ASSUME NEW T
  PROVE  Word!Cardinality(T) = Cardinality(T)
BY DEF Word!Cardinality, Cardinality

(* MulBasePort's Product is the product. *)
LEMMA WordProductIs ==
  ASSUME NEW x \in SUBSET WordBits0, NEW y \in SUBSET WordBits0
  PROVE  Word!Product(x, y) = Product(x, y)
<1>1. x \in Polys /\ y \in Polys
  BY WidthIs, BoundedPolys DEF WordBits0
<1>2. Product(x, y) \in SUBSET (0 .. 2 * Width - 2)
  BY WidthIs, ProductBound DEF WordBits0
<1>3. \A k \in 0 .. 2 * Width - 2 : k \in Product(x, y) <=> Odd(Pairs(x, y, k))
  BY <1>1, InProduct, WidthIs
<1>4. Word!Product(x, y) = {k \in 0 .. 2 * Width - 2 : Odd(Pairs(x, y, k))}
  BY WordCardinality DEF Word!Product, Odd, Pairs
<1>5. QED
  BY <1>2, <1>3, <1>4

(* A low and a high word together. *)
Whole(low, high) == low \cup {b + Width : b \in high}

(* The bits of a pair of words. *)
LEMMA WholeIs ==
  ASSUME NEW low \in SUBSET WordBits0, NEW high \in SUBSET Nat
  PROVE  /\ Whole(low, high) \in SUBSET Nat
         /\ \A k \in Nat : k \in Whole(low, high)
              <=> IF k < Width THEN k \in low ELSE k - Width \in high
<1>1. Width \in Nat
  BY WidthIs
<1>2. ASSUME NEW k \in Nat
      PROVE  k \in Whole(low, high)
               <=> IF k < Width THEN k \in low ELSE k - Width \in high
  <2>1. CASE k < Width
    BY <1>1, <2>1 DEF Whole, WordBits0
  <2>2. CASE ~(k < Width)
    <3>1. k - Width \in high => k \in {b + Width : b \in high}
      <4>1. k = (k - Width) + Width
        BY <1>1
      <4>2. QED
        BY <4>1
    <3>2. k \in {b + Width : b \in high} => k - Width \in high
      BY <1>1
    <3>3. k \notin low
      BY <1>1, <2>2 DEF WordBits0
    <3>4. QED
      BY <2>2, <3>1, <3>2, <3>3 DEF Whole
  <2>3. QED
    BY <2>1, <2>2
<1>3. Whole(low, high) \in SUBSET Nat
  <2>1. \A b \in high : b + Width \in Nat
    BY <1>1
  <2>2. low \in SUBSET Nat
    BY <1>1 DEF WordBits0
  <2>3. QED
    BY <2>1, <2>2 DEF Whole
<1>4. QED
  BY <1>2, <1>3

(* Adding the words adds the whole. *)
LEMMA WholeAdds ==
  ASSUME NEW l1 \in SUBSET WordBits0, NEW l2 \in SUBSET WordBits0,
         NEW h1 \in SUBSET Nat, NEW h2 \in SUBSET Nat
  PROVE  Whole(SymDiff(l1, l2), SymDiff(h1, h2))
           = SymDiff(Whole(l1, h1), Whole(l2, h2))
<1>1. SymDiff(l1, l2) \in SUBSET WordBits0 /\ SymDiff(h1, h2) \in SUBSET Nat
  BY DEF SymDiff
<1> DEFINE a == Whole(SymDiff(l1, l2), SymDiff(h1, h2))
           a1 == Whole(l1, h1)
           a2 == Whole(l2, h2)
<1>2. a \in SUBSET Nat /\ a1 \in SUBSET Nat /\ a2 \in SUBSET Nat
  BY <1>1, WholeIs
<1>3. \A k \in Nat :
        /\ k \in a <=> IF k < Width THEN k \in SymDiff(l1, l2)
                                     ELSE k - Width \in SymDiff(h1, h2)
        /\ k \in a1 <=> IF k < Width THEN k \in l1 ELSE k - Width \in h1
        /\ k \in a2 <=> IF k < Width THEN k \in l2 ELSE k - Width \in h2
  BY <1>1, WholeIs
<1> HIDE DEF a, a1, a2
<1>4. a = SymDiff(a1, a2)
  BY <1>2, <1>3 DEF SymDiff
<1>5. QED
  BY <1>4 DEF a, a1, a2

(* The two shifts of a word, into the low one and out of it into the high  *)
(* one, lose nothing.                                                      *)
LEMMA WholeShift ==
  ASSUME NEW x \in SUBSET WordBits0, NEW n \in 0 .. Width
  PROVE  /\ Word!Shl(x, n) \in SUBSET WordBits0
         /\ Word!Shr(x, Width - n) \in SUBSET Nat
         /\ Whole(Word!Shl(x, n), Word!Shr(x, Width - n)) = Shift(x, n)
<1> DEFINE low  == Word!Shl(x, n)
           high == Word!Shr(x, Width - n)
<1>1. Width \in Nat /\ n \in Nat /\ x \in SUBSET Nat
  BY WidthIs DEF WordBits0
<1>2. low = {b + n : b \in {b \in x : b + n < Width}}
      /\ high = {b - (Width - n) : b \in {b \in x : b >= Width - n}}
  BY DEF Word!Shl, Word!Shr
<1>3. low \in SUBSET WordBits0 /\ high \in SUBSET Nat
  BY <1>1, <1>2 DEF WordBits0
<1>4. \A k \in Nat : k \in Shift(x, n) <=> k >= n /\ k - n \in x
  BY <1>1, ShiftOf
<1>5. \A k \in Nat : k \in Whole(low, high)
                       <=> IF k < Width THEN k \in low ELSE k - Width \in high
  <2> HIDE DEF low, high
  <2>1. QED
    BY <1>3, WholeIs
<1> HIDE DEF low, high
<1>6. ASSUME NEW k \in Nat
      PROVE  k \in Whole(low, high) <=> k \in Shift(x, n)
  <2>1. CASE k < Width
    <3>1. k \in low <=> k >= n /\ k - n \in x
      <4>1. k >= n /\ k - n \in x => k \in low
        <5>1. k = (k - n) + n
          BY <1>1
        <5>2. QED
          BY <1>2, <2>1, <5>1
      <4>2. k \in low => k >= n /\ k - n \in x
        BY <1>1, <1>2
      <4>3. QED
        BY <4>1, <4>2
    <3>2. QED
      BY <1>4, <1>5, <2>1, <3>1
  <2>2. CASE ~(k < Width)
    <3>1. k - Width \in high <=> k >= n /\ k - n \in x
      <4>1. k >= n /\ k - n \in x => k - Width \in high
        <5>1. k - Width = (k - n) - (Width - n) /\ k - n >= Width - n
          BY <1>1, <2>2
        <5>2. QED
          BY <1>2, <5>1
      <4>2. k - Width \in high => k >= n /\ k - n \in x
        BY <1>1, <1>2, <2>2
      <4>3. QED
        BY <4>1, <4>2
    <3>2. QED
      BY <1>4, <1>5, <2>2, <3>1
  <2>3. QED
    BY <2>1, <2>2
<1>7. Whole(low, high) \in SUBSET Nat /\ Shift(x, n) \in SUBSET Nat
  BY <1>1, <1>3, WholeIs, ShiftOf
<1>8. Whole(low, high) = Shift(x, n)
  BY <1>6, <1>7
<1>9. QED
  BY <1>3, <1>8 DEF low, high

(* What one bit of x adds to a product with y. *)
Term(x, k, y) == IF k \in x THEN Shift(y, k) ELSE {}
Below(x, k)   == {b \in x : b < k}

(* One bit more of a factor adds one shift of the other. *)
LEMMA OneBitMore ==
  ASSUME NEW x \in Polys, NEW y \in Polys, NEW k \in Nat, NEW k1, k1 = k + 1
  PROVE  Product(Below(x, k1), y)
             = SymDiff(Product(Below(x, k), y), Term(x, k, y))
<1>1. Below(x, k) \in Polys /\ x \in SUBSET Nat
  BY FS_Subset DEF Polys, Below
<1>2. CASE k \notin x
  <2>1. Below(x, k1) = Below(x, k)
    <3>1. \A b \in x : b < k1 <=> b < k
      BY <1>1, <1>2
    <3>2. QED
      BY <3>1 DEF Below
  <2>2. Term(x, k, y) = {}
    BY <1>2 DEF Term
  <2>3. QED
    BY <2>1, <2>2 DEF SymDiff
<1>3. CASE k \in x
  <2>1. Below(x, k1) = SymDiff(Below(x, k), {k})
    <3>1. \A b \in x : b < k1 <=> b < k \/ b = k
      BY <1>1
    <3>2. ~(k < k)
      OBVIOUS
    <3>3. QED
      BY <1>3, <3>1, <3>2 DEF Below, SymDiff
  <2>2. {k} \in Polys
    BY FS_Singleton DEF Polys
  <2>3. Product({k}, y) = Shift(y, k)
    BY SingleProduct
  <2>4. Term(x, k, y) = Shift(y, k)
    BY <1>3 DEF Term
  <2> DEFINE z == {k}
             b == Below(x, k)
  <2>5. z \in Polys /\ b \in Polys /\ Product(z, y) = Term(x, k, y)
        /\ Below(x, k1) = SymDiff(b, z)
    BY <1>1, <2>1, <2>2, <2>3, <2>4
  <2> HIDE DEF z, b
  <2>6. Product(SymDiff(b, z), y) = SymDiff(Product(b, y), Product(z, y))
    BY <2>5, ProductAdds
  <2>7. QED
    BY <2>5, <2>6 DEF b
<1>4. QED
  BY <1>2, <1>3

(* Shifting by n and then by m is shifting by their sum. *)
LEMMA ShiftShift ==
  ASSUME NEW x \in SUBSET Nat, NEW n \in Nat, NEW m \in Nat, NEW s, s = n + m
  PROVE  Shift(Shift(x, n), m) = Shift(x, s)
<1>1. Shift(x, n) \in SUBSET Nat
  BY ShiftOf
<1>2. Shift(Shift(x, n), m) \in SUBSET Nat /\ Shift(x, s) \in SUBSET Nat
  <2>1. s \in Nat
    OBVIOUS
  <2> DEFINE z == Shift(x, n)
  <2>2. z \in SUBSET Nat
    BY <1>1
  <2> HIDE DEF z
  <2>3. Shift(z, m) \in SUBSET Nat
    BY <2>2, ShiftOf
  <2>4. Shift(x, s) \in SUBSET Nat
    BY <2>1, ShiftOf
  <2>5. QED
    BY <2>3, <2>4 DEF z
<1>3. ASSUME NEW k \in Nat
      PROVE  k \in Shift(Shift(x, n), m) <=> k \in Shift(x, s)
  <2>1. k \in Shift(Shift(x, n), m) <=> k >= m /\ k - m \in Shift(x, n)
    BY <1>1, ShiftOf
  <2>2. k >= m => (k - m \in Shift(x, n) <=> k - m >= n /\ (k - m) - n \in x)
    BY ShiftOf
  <2>3. k \in Shift(x, s) <=> k >= s /\ k - s \in x
    BY ShiftOf
  <2>4. (k - m) - n = k - s
    OBVIOUS
  <2>5. QED
    BY <2>1, <2>2, <2>3, <2>4
<1>4. QED
  BY <1>2, <1>3

(* A shift to the left that stays in the word. *)
LEMMA ShlExact ==
  ASSUME NEW x \in SUBSET Nat, NEW n \in Nat, \A b \in x : b + n < Width
  PROVE  Word!Shl(x, n) = Shift(x, n)
<1>1. {b \in x : b + n < Width} = x
  OBVIOUS
<1>2. QED
  BY <1>1 DEF Word!Shl, Shift

(* The instance's sum is the sum. *)
LEMMA WordSum ==
  ASSUME NEW x, NEW y
  PROVE  Word!SymDiff(x, y) = SymDiff(x, y)
BY DEF Word!SymDiff, SymDiff

(* The low bits of b0 and their first multiples fit a word. *)
LEMMA MaskedFits ==
  ASSUME wordB \in SUBSET WordBits0
  PROVE  /\ Word!B0M \in SUBSET WordBits0 /\ Word!B0M \in Polys
         /\ Word!B0M \in SUBSET Nat
         /\ Word!Shl(Word!B0M, 1) = Shift(Word!B0M, 1)
         /\ Word!Shl(Shift(Word!B0M, 1), 1) = Shift(Word!B0M, 2)
         /\ Shift(Word!B0M, 1) \in SUBSET WordBits0
         /\ Shift(Word!B0M, 2) \in SUBSET WordBits0
<1> DEFINE m == Word!B0M
<1>1. m \in SUBSET WordBits0 /\ \A b \in m : b \in Nat /\ b < Width - 3
  <2>1. m = {b \in wordB : b < Width - 3}
    BY WidthIs DEF Word!B0M
  <2>2. \A b \in wordB : b \in Nat
    BY WidthIs DEF WordBits0
  <2>3. QED
    BY <2>1, <2>2
<1>2. Width \in Nat /\ m \in SUBSET Nat
  BY WidthIs, <1>1 DEF WordBits0
<1> HIDE DEF m
<1>3. \A b \in m : b + 1 < Width
  BY <1>1, <1>2
<1>4. Word!Shl(m, 1) = Shift(m, 1)
  BY <1>2, <1>3, ShlExact
<1>5. Shift(m, 1) \in SUBSET Nat /\ \A b \in Shift(m, 1) : b + 1 < Width
  BY <1>1, <1>2 DEF Shift
<1>6. Word!Shl(Shift(m, 1), 1) = Shift(Shift(m, 1), 1)
  BY <1>5, ShlExact
<1>7. Shift(Shift(m, 1), 1) = Shift(m, 2)
  BY <1>2, ShiftShift
<1>8. Shift(m, 1) \in SUBSET WordBits0 /\ Shift(m, 2) \in SUBSET WordBits0
  <2>1. \A b \in m : b + 1 \in 0 .. Width - 1 /\ b + 2 \in 0 .. Width - 1
    BY <1>1, <1>2
  <2>2. QED
    BY <2>1 DEF Shift, WordBits0
<1>9. m \in Polys
  BY <1>1, WidthIs, BoundedPolys DEF WordBits0
<1>10. QED
  BY <1>1, <1>2, <1>4, <1>6, <1>7, <1>8, <1>9 DEF m

(* The three bits of a window. *)
LEMMA BitsOfWindow ==
  ASSUME NEW p \in {0, 1}, NEW q \in {0, 1}, NEW r \in {0, 1},
         NEW w, w = p + 2 * q + 4 * r
  PROVE  /\ (w \div 1) % 2 = 1 <=> p = 1
         /\ (w \div 2) % 2 = 1 <=> q = 1
         /\ (w \div 4) % 2 = 1 <=> r = 1
OBVIOUS

(* The table entry a window selects. *)
LEMMA EntryIs ==
  ASSUME wordB \in SUBSET WordBits0, NEW n \in Nat
  PROVE  /\ Word!G(n) \in SUBSET WordBits0
         /\ Word!G(n) =
              SymDiff(IF n \in wordA THEN Word!B0M ELSE {},
              SymDiff(IF n + 1 \in wordA THEN Shift(Word!B0M, 1) ELSE {},
                      IF n + 2 \in wordA THEN Shift(Word!B0M, 2) ELSE {}))
<1> DEFINE m == Word!B0M
           p == IF n \in wordA THEN 1 ELSE 0
           q == IF n + 1 \in wordA THEN 1 ELSE 0
           r == IF n + 2 \in wordA THEN 1 ELSE 0
           w == p + 2 * q + 4 * r
<1>1. Word!Window(n) = w
  BY DEF Word!Window
<1>2. /\ (w \div 1) % 2 = 1 <=> n \in wordA
      /\ (w \div 2) % 2 = 1 <=> n + 1 \in wordA
      /\ (w \div 4) % 2 = 1 <=> n + 2 \in wordA
  <2>1. p \in {0, 1} /\ q \in {0, 1} /\ r \in {0, 1}
    OBVIOUS
  <2>2. /\ p = 1 <=> n \in wordA
        /\ q = 1 <=> n + 1 \in wordA
        /\ r = 1 <=> n + 2 \in wordA
    OBVIOUS
  <2>3. w = p + 2 * q + 4 * r
    OBVIOUS
  <2> HIDE DEF p, q, r, w
  <2>4. /\ (w \div 1) % 2 = 1 <=> p = 1
        /\ (w \div 2) % 2 = 1 <=> q = 1
        /\ (w \div 4) % 2 = 1 <=> r = 1
    BY <2>1, <2>3, BitsOfWindow
  <2>5. QED
    BY <2>2, <2>4
<1>3. Word!G(n) = Word!U(w)
  BY <1>1 DEF Word!G
<1> HIDE DEF w
<1>4. Word!U(w) =
        Word!SymDiff(IF (w \div 1) % 2 = 1 THEN m ELSE {},
        Word!SymDiff(IF (w \div 2) % 2 = 1 THEN Word!Shl(m, 1) ELSE {},
          IF (w \div 4) % 2 = 1 THEN Word!Shl(Word!Shl(m, 1), 1) ELSE {}))
  BY DEF Word!U
<1> DEFINE e0 == IF n \in wordA THEN m ELSE {}
           e1 == IF n + 1 \in wordA THEN Shift(m, 1) ELSE {}
           e2 == IF n + 2 \in wordA THEN Shift(m, 2) ELSE {}
<1>5. Word!U(w) = Word!SymDiff(e0, Word!SymDiff(e1, e2))
  <2>1. /\ Word!Shl(m, 1) = Shift(m, 1)
        /\ Word!Shl(Word!Shl(m, 1), 1) = Shift(m, 2)
    BY MaskedFits
  <2> HIDE DEF m
  <2>2. QED
    BY <1>2, <1>4, <2>1
<1>6. e0 \in SUBSET WordBits0 /\ e1 \in SUBSET WordBits0
      /\ e2 \in SUBSET WordBits0
  BY MaskedFits
<1> HIDE DEF e0, e1, e2
<1>7. Word!G(n) = SymDiff(e0, SymDiff(e1, e2))
  BY <1>3, <1>5, WordSum
<1>8. SymDiff(e0, SymDiff(e1, e2)) \in SUBSET WordBits0
  BY <1>6 DEF SymDiff
<1>9. QED
  BY <1>7, <1>8 DEF e0, e1, e2, m

(* A window multiplies by its three bits. *)
LEMMA WindowAdds ==
  ASSUME wordA \in SUBSET WordBits0, wordB \in SUBSET WordBits0,
         NEW n \in 0 .. Width, NEW n3, n3 = n + 3
  PROVE  /\ Word!Shl(Word!G(n), n) \in SUBSET WordBits0
         /\ Word!Shr(Word!G(n), Width - n) \in SUBSET Nat
         /\ Product(Below(wordA, n3), Word!B0M) =
              SymDiff(Product(Below(wordA, n), Word!B0M),
                      Whole(Word!Shl(Word!G(n), n), Word!Shr(Word!G(n), Width - n)))
<1> DEFINE m == Word!B0M
           g == Word!G(n)
           e0 == IF n \in wordA THEN m ELSE {}
           e1 == IF n + 1 \in wordA THEN Shift(m, 1) ELSE {}
           e2 == IF n + 2 \in wordA THEN Shift(m, 2) ELSE {}
<1>1. n \in Nat /\ Width \in Nat
  BY WidthIs
<1>2. m \in Polys /\ m \in SUBSET Nat
  BY MaskedFits
<1>3. g \in SUBSET WordBits0 /\ g = SymDiff(e0, SymDiff(e1, e2))
  BY <1>1, EntryIs
<1>4. /\ Word!Shl(g, n) \in SUBSET WordBits0
      /\ Word!Shr(g, Width - n) \in SUBSET Nat
      /\ Whole(Word!Shl(g, n), Word!Shr(g, Width - n)) = Shift(g, n)
  <2> HIDE DEF g
  <2>1. QED
    BY <1>3, WholeShift
<1> HIDE DEF m, g
<1>5. e0 \in SUBSET Nat /\ e1 \in SUBSET Nat /\ e2 \in SUBSET Nat
  BY <1>2, ShiftOf
<1>6. /\ Shift(e0, n) = Term(wordA, n, m)
      /\ Shift(e1, n) = Term(wordA, n + 1, m)
      /\ Shift(e2, n) = Term(wordA, n + 2, m)
  <2>1. Shift({}, n) = {}
    BY DEF Shift
  <2>2. Shift(Shift(m, 1), n) = Shift(m, n + 1)
    BY <1>1, <1>2, ShiftShift
  <2>3. Shift(Shift(m, 2), n) = Shift(m, n + 2)
    BY <1>1, <1>2, ShiftShift
  <2>4. QED
    BY <2>1, <2>2, <2>3 DEF Term
<1> HIDE DEF e0, e1, e2
<1>7. Shift(g, n) = SymDiff(Term(wordA, n, m),
                      SymDiff(Term(wordA, n + 1, m), Term(wordA, n + 2, m)))
  <2>1. SymDiff(e1, e2) \in SUBSET Nat
    BY <1>5 DEF SymDiff
  <2>2. Shift(SymDiff(e1, e2), n) = SymDiff(Shift(e1, n), Shift(e2, n))
    BY <1>1, <1>5, ShiftSum
  <2> DEFINE z == SymDiff(e1, e2)
  <2>3. g = SymDiff(e0, z) /\ z \in SUBSET Nat
    BY <1>3, <2>1
  <2>4. Shift(z, n) = SymDiff(Shift(e1, n), Shift(e2, n))
    BY <2>2
  <2> HIDE DEF z
  <2>5. Shift(g, n) = SymDiff(Shift(e0, n), Shift(z, n))
    BY <1>1, <1>5, <2>3, ShiftSum
  <2>6. QED
    BY <1>6, <2>4, <2>5
<1>8. wordA \in Polys
  BY WidthIs, BoundedPolys DEF WordBits0
<1> DEFINE q0 == Product(Below(wordA, n), m)
           q1 == Product(Below(wordA, n + 1), m)
           q2 == Product(Below(wordA, n + 2), m)
           q3 == Product(Below(wordA, n3), m)
           t0 == Term(wordA, n, m)
           t1 == Term(wordA, n + 1, m)
           t2 == Term(wordA, n + 2, m)
<1>9. q1 = SymDiff(q0, t0)
  BY <1>1, <1>2, <1>8, OneBitMore
<1>10. q2 = SymDiff(q1, t1)
  <2>1. n + 1 \in Nat /\ n + 2 = (n + 1) + 1
    BY <1>1
  <2>2. QED
    BY <1>2, <1>8, <2>1, OneBitMore
<1>11. q3 = SymDiff(q2, t2)
  <2>1. n + 2 \in Nat /\ n3 = (n + 2) + 1
    BY <1>1
  <2>2. QED
    BY <1>2, <1>8, <2>1, OneBitMore
<1>12. q3 = SymDiff(q0, SymDiff(t0, SymDiff(t1, t2)))
  <2> HIDE DEF q0, q1, q2, q3, t0, t1, t2
  <2>1. QED
    BY <1>9, <1>10, <1>11 DEF SymDiff
<1>13. q3 = SymDiff(q0, Whole(Word!Shl(g, n), Word!Shr(g, Width - n)))
  BY <1>4, <1>7, <1>12
<1>14. QED
  BY <1>4, <1>13 DEF m, g

(* Of the whole of a word nothing is left to add. *)
LEMMA AllBelow ==
  ASSUME NEW x \in SUBSET WordBits0, NEW k \in Nat, Width <= k
  PROVE  Below(x, k) = x
<1>1. \A b \in x : b < k
  BY WidthIs DEF WordBits0
<1>2. QED
  BY <1>1 DEF Below

(* What is multiplied at each stage, and where the loops stand. *)
WordInv ==
  /\ wordA \in SUBSET WordBits0 /\ wordB \in SUBSET WordBits0
  /\ wordL \in SUBSET WordBits0 /\ wordH \in SUBSET Nat
  /\ wordPc \in {"first", "windows", "top", "done"}
  /\ wordPc = "first" => wordL = {} /\ wordH = {}
  /\ wordPc = "windows" =>
       /\ wordI \in Nat /\ wordI % 6 = 0 /\ wordI < Width
       /\ Whole(wordL, wordH) = Product(Below(wordA, wordI), Word!B0M)
  /\ wordPc \in {"top", "done"} =>
       /\ wordI \in Nat /\ wordI <= Width
       /\ wordPc = "top" => wordI < Width
       /\ Whole(wordL, wordH) = Product(wordA, Below(wordB, wordI))

(* The invariant gives the property. *)
LEMMA WordInvGives ==
  ASSUME WordInv
  PROVE  PartialProduct
<1> DEFINE whole == Whole(wordL, wordH)
<1>1. whole = wordL \cup {b + Width : b \in wordH}
  BY DEF Whole
<1>2. Word!B0M \in SUBSET WordBits0 /\ wordA \in SUBSET WordBits0
      /\ wordB \in SUBSET WordBits0
  BY MaskedFits DEF WordInv
<1>3. CASE wordPc = "first"
  <2>1. whole = {}
    BY <1>3 DEF Whole, WordInv
  <2>2. QED
    BY <1>1, <1>3, <2>1 DEF PartialProduct, Word!PartialProduct
<1>4. CASE wordPc = "windows"
  <2>1. Below(wordA, wordI) \in SUBSET WordBits0
    BY <1>2 DEF Below
  <2>2. whole = Word!Product(Below(wordA, wordI), Word!B0M)
    BY <1>2, <1>4, <2>1, WordProductIs DEF WordInv
  <2> HIDE DEF whole
  <2>3. whole = Word!Product({b \in wordA : b < wordI}, Word!B0M)
    BY <2>2 DEF Below
  <2>4. QED
    BY <1>1, <1>4, <2>3, Zenon DEF PartialProduct, Word!PartialProduct
<1>5. CASE wordPc \in {"top", "done"}
  <2>1. Below(wordB, wordI) \in SUBSET WordBits0
    BY <1>2 DEF Below
  <2>2. whole = Word!Product(wordA, Below(wordB, wordI))
    BY <1>2, <1>5, <2>1, WordProductIs DEF WordInv
  <2> HIDE DEF whole
  <2>3. whole = Word!Product(wordA, {b \in wordB : b < wordI})
    BY <2>2 DEF Below
  <2>4. wordPc # "first" /\ wordPc # "windows"
    BY <1>5
  <2>5. QED
    BY <1>1, <2>3, <2>4, Zenon DEF PartialProduct, Word!PartialProduct
<1>6. QED
  BY <1>3, <1>4, <1>5 DEF WordInv

(* The first two windows. *)
LEMMA FirstWindowsStep ==
  ASSUME WordInv, Word!FirstWindows
  PROVE  WordInv'
<1> DEFINE m  == Word!B0M
           g0 == Word!G(0)
           g3 == Word!G(3)
           l3 == Word!Shl(g3, 3)
           h3 == Word!Shr(g3, Width - 3)
<1>1. /\ wordA \in SUBSET WordBits0 /\ wordB \in SUBSET WordBits0
      /\ wordPc = "first"
      /\ wordA' = wordA /\ wordB' = wordB /\ wordI' = 6
      /\ wordPc' = "windows"
      /\ wordL' = Word!SymDiff(g0, l3) /\ wordH' = h3
  BY WidthIs DEF WordInv, Word!FirstWindows
<1>2. Width \in Nat /\ Width > 6
  BY WidthIs
<1>3. g0 \in SUBSET WordBits0 /\ m \in Polys
  BY <1>1, EntryIs, MaskedFits
<1>4. Product(Below(wordA, 3), m) = SymDiff(Product(Below(wordA, 0), m),
        Whole(Word!Shl(g0, 0), Word!Shr(g0, Width - 0)))
  BY <1>1, <1>2, WindowAdds
<1>5. Word!Shl(g0, 0) = g0 /\ Word!Shr(g0, Width - 0) = {}
  <2> HIDE DEF g0
  <2>1. \A b \in g0 : b + 0 = b /\ b < Width /\ ~(b >= Width - 0)
    BY <1>2, <1>3 DEF WordBits0
  <2>2. QED
    BY <2>1 DEF Word!Shl, Word!Shr
<1>6. Product(Below(wordA, 0), m) = {}
  <2>1. Below(wordA, 0) = {}
    <3>1. \A b \in wordA : ~(b < 0)
      BY <1>1, <1>2 DEF WordBits0
    <3>2. QED
      BY <3>1 DEF Below
  <2> HIDE DEF m
  <2>2. Product({}, m) = {}
    BY <1>3, EmptyProduct
  <2>3. QED
    BY <2>1, <2>2
<1>7. /\ l3 \in SUBSET WordBits0 /\ h3 \in SUBSET Nat
      /\ Product(Below(wordA, 6), m)
           = SymDiff(Product(Below(wordA, 3), m), Whole(l3, h3))
  <2>1. 3 \in 0 .. Width
    BY <1>2
  <2>2. QED
    BY <1>1, <2>1, WindowAdds
<1> HIDE DEF m, g0, g3, l3, h3
<1>8. Product(Below(wordA, 6), m) = SymDiff(Whole(g0, {}), Whole(l3, h3))
  BY <1>4, <1>5, <1>6, <1>7 DEF SymDiff
<1>9. Whole(SymDiff(g0, l3), SymDiff({}, h3))
        = SymDiff(Whole(g0, {}), Whole(l3, h3))
  BY <1>3, <1>7, WholeAdds
<1>10. SymDiff({}, h3) = h3 /\ wordL' = SymDiff(g0, l3)
       /\ SymDiff(g0, l3) \in SUBSET WordBits0
  BY <1>1, <1>3, <1>7, WordSum DEF SymDiff
<1>11. Whole(wordL', wordH') = Product(Below(wordA', wordI'), m)
  BY <1>1, <1>8, <1>9, <1>10
<1>12. m = Word!B0M'
  BY <1>1 DEF m, Word!B0M
<1>13. QED
  BY <1>1, <1>2, <1>7, <1>10, <1>11, <1>12 DEF WordInv

(* Two more windows. *)
LEMMA NextWindowsStep ==
  ASSUME WordInv, Word!NextWindows
  PROVE  WordInv'
<1> DEFINE m  == Word!B0M
           n  == wordI
           n3 == n + 3
           g0 == Word!G(n)
           g3 == Word!G(n3)
           l0 == Word!Shl(g0, n)
           h0 == Word!Shr(g0, Width - n)
           l3 == Word!Shl(g3, n3)
           h3 == Word!Shr(g3, Width - n3)
           lnew == wordL'
           hnew == wordH'
<1>1. /\ wordA \in SUBSET WordBits0 /\ wordB \in SUBSET WordBits0
      /\ wordL \in SUBSET WordBits0 /\ wordH \in SUBSET Nat
      /\ n \in Nat /\ n % 6 = 0 /\ n < Width
      /\ Whole(wordL, wordH) = Product(Below(wordA, n), m)
  BY DEF WordInv, Word!NextWindows
<1>2. /\ wordA' = wordA /\ wordB' = wordB
      /\ IF n + 6 < Width THEN wordI' = n + 6 /\ wordPc' = "windows"
                          ELSE wordI' = Width - 3 /\ wordPc' = "top"
  BY WidthIs DEF Word!NextWindows, WordInv
<1>3. /\ lnew = Word!SymDiff(wordL, Word!SymDiff(l0, l3))
      /\ hnew = Word!SymDiff(wordH, Word!SymDiff(h0, h3))
  BY WidthIs DEF Word!NextWindows
<1>4. Width \in Nat /\ Width > 6 /\ n3 \in Nat /\ n3 <= Width
      /\ (n + 6 >= Width => Width <= n + 6)
  BY <1>1, WidthIs
<1>5. m \in Polys
  BY <1>1, MaskedFits
<1>6. /\ l0 \in SUBSET WordBits0 /\ h0 \in SUBSET Nat
      /\ Product(Below(wordA, n3), m)
           = SymDiff(Product(Below(wordA, n), m), Whole(l0, h0))
  <2>1. n \in 0 .. Width
    BY <1>1, <1>4
  <2>2. QED
    BY <1>1, <2>1, WindowAdds
<1>7. /\ l3 \in SUBSET WordBits0 /\ h3 \in SUBSET Nat
      /\ Product(Below(wordA, n + 6), m)
           = SymDiff(Product(Below(wordA, n3), m), Whole(l3, h3))
  <2>1. n3 \in 0 .. Width /\ n + 6 = n3 + 3
    BY <1>1, <1>4
  <2> HIDE DEF n3
  <2>2. QED
    BY <1>1, <2>1, WindowAdds
<1>8. m = Word!B0M'
  BY <1>2 DEF Word!B0M
<1> HIDE DEF m, n, n3, g0, g3, l0, h0, l3, h3, lnew, hnew
<1>9. /\ lnew = SymDiff(wordL, SymDiff(l0, l3))
      /\ hnew = SymDiff(wordH, SymDiff(h0, h3))
  BY <1>3, WordSum
<1> DEFINE la == SymDiff(l0, l3)
           ha == SymDiff(h0, h3)
<1>10. /\ la \in SUBSET WordBits0 /\ ha \in SUBSET Nat
       /\ Whole(la, ha) = SymDiff(Whole(l0, h0), Whole(l3, h3))
  BY <1>6, <1>7, WholeAdds DEF SymDiff
<1>11. lnew = SymDiff(wordL, la) /\ hnew = SymDiff(wordH, ha)
  BY <1>9
<1> HIDE DEF la, ha
<1>12. /\ lnew \in SUBSET WordBits0 /\ hnew \in SUBSET Nat
       /\ Whole(lnew, hnew) = SymDiff(Whole(wordL, wordH), Whole(la, ha))
  BY <1>1, <1>10, <1>11, WholeAdds DEF SymDiff
<1>13. Whole(lnew, hnew) = Product(Below(wordA, n + 6), m)
  BY <1>1, <1>6, <1>7, <1>10, <1>12 DEF SymDiff
<1>14. CASE n + 6 < Width
  <2>1. n + 6 \in Nat /\ (n + 6) % 6 = 0
    BY <1>1
  <2>2. wordI' = n + 6 /\ wordPc' = "windows"
    BY <1>2, <1>14
  <2>3. Whole(wordL', wordH') = Product(Below(wordA', wordI'), Word!B0M')
    BY <1>2, <1>8, <1>13, <2>2 DEF lnew, hnew
  <2>4. QED
    BY <1>1, <1>2, <1>12, <1>14, <2>1, <2>2, <2>3 DEF WordInv, lnew, hnew
<1>15. CASE ~(n + 6 < Width)
  <2>1. Below(wordA, n + 6) = wordA
    BY <1>1, <1>4, <1>15, AllBelow
  <2>2. wordI' = Width - 3 /\ wordPc' = "top"
    BY <1>2, <1>15
  <2>3. m = Below(wordB, wordI')
    BY <2>2, WidthIs DEF m, Word!B0M, Below
  <2>4. Whole(wordL', wordH') = Product(wordA', Below(wordB', wordI'))
    BY <1>2, <1>13, <2>1, <2>3 DEF lnew, hnew
  <2>5. wordI' \in Nat /\ wordI' <= Width /\ wordI' < Width
    BY <1>4, <2>2
  <2>6. QED
    BY <1>1, <1>2, <1>12, <2>2, <2>4, <2>5 DEF WordInv, lnew, hnew
<1>16. QED
  BY <1>14, <1>15

(* One top bit. *)
LEMMA TopBitStep ==
  ASSUME WordInv, Word!TopBit
  PROVE  WordInv'
<1> DEFINE n  == wordI
           n1 == n + 1
           l1 == Word!Shl(wordA, n)
           h1 == Word!Shr(wordA, Width - n)
           lnew == wordL'
           hnew == wordH'
<1>1. /\ wordA \in SUBSET WordBits0 /\ wordB \in SUBSET WordBits0
      /\ wordL \in SUBSET WordBits0 /\ wordH \in SUBSET Nat
      /\ n \in Nat /\ n < Width
      /\ Whole(wordL, wordH) = Product(wordA, Below(wordB, n))
  BY DEF WordInv, Word!TopBit
<1>2. /\ wordA' = wordA /\ wordB' = wordB /\ wordI' = n1
      /\ wordPc' = IF n1 < Width THEN "top" ELSE "done"
  BY DEF Word!TopBit
<1>3. /\ lnew = IF n \in wordB THEN Word!SymDiff(wordL, l1) ELSE wordL
      /\ hnew = IF n \in wordB THEN Word!SymDiff(wordH, h1) ELSE wordH
  BY DEF Word!TopBit
<1>4. Width \in Nat /\ n1 \in Nat /\ n1 <= Width
  BY <1>1, WidthIs
<1>5. wordA \in Polys /\ wordB \in Polys
      /\ Below(wordB, n) \in Polys /\ Below(wordB, n1) \in Polys
  <2>1. /\ Below(wordB, n) \in SUBSET WordBits0
        /\ Below(wordB, n1) \in SUBSET WordBits0
    BY <1>1 DEF Below
  <2>2. QED
    BY <1>1, <2>1, WidthIs, BoundedPolys DEF WordBits0
<1>6. Product(wordA, Below(wordB, n1))
        = SymDiff(Product(wordA, Below(wordB, n)), Term(wordB, n, wordA))
  <2>1. Product(Below(wordB, n1), wordA)
          = SymDiff(Product(Below(wordB, n), wordA), Term(wordB, n, wordA))
    BY <1>1, <1>5, OneBitMore
  <2> HIDE DEF n, n1
  <2>2. QED
    BY <1>5, <2>1, ProductCommutes
<1>7. /\ l1 \in SUBSET WordBits0 /\ h1 \in SUBSET Nat
      /\ Whole(l1, h1) = Shift(wordA, n)
  <2>1. n \in 0 .. Width
    BY <1>1, <1>4
  <2>2. QED
    BY <1>1, <2>1, WholeShift
<1> HIDE DEF n, n1, l1, h1, lnew, hnew
<1>8. /\ lnew \in SUBSET WordBits0 /\ hnew \in SUBSET Nat
      /\ Whole(lnew, hnew) = SymDiff(Whole(wordL, wordH), Term(wordB, n, wordA))
  <2>1. CASE n \in wordB
    <3>1. lnew = SymDiff(wordL, l1) /\ hnew = SymDiff(wordH, h1)
      BY <1>3, <2>1, WordSum
    <3>2. Whole(lnew, hnew) = SymDiff(Whole(wordL, wordH), Whole(l1, h1))
      BY <1>1, <1>7, <3>1, WholeAdds
    <3>3. Term(wordB, n, wordA) = Whole(l1, h1)
      BY <1>7, <2>1 DEF Term
    <3>4. lnew \in SUBSET WordBits0 /\ hnew \in SUBSET Nat
      BY <1>1, <1>7, <3>1 DEF SymDiff
    <3>5. QED
      BY <3>2, <3>3, <3>4
  <2>2. CASE n \notin wordB
    <3>1. lnew = wordL /\ hnew = wordH /\ Term(wordB, n, wordA) = {}
      BY <1>3, <2>2 DEF Term
    <3>2. QED
      BY <1>1, <3>1 DEF SymDiff
  <2>3. QED
    BY <2>1, <2>2
<1>9. Whole(wordL', wordH') = Product(wordA', Below(wordB', wordI'))
  BY <1>1, <1>2, <1>6, <1>8 DEF lnew, hnew
<1>10. wordPc' \in {"top", "done"} /\ wordI' \in Nat /\ wordI' <= Width
       /\ (wordPc' = "top" => wordI' < Width)
  BY <1>2, <1>4
<1>11. QED
  BY <1>1, <1>2, <1>8, <1>9, <1>10 DEF WordInv, lnew, hnew

(* The invariant holds at first, with any pair of operands. *)
LEMMA WordInitInv ==
  ASSUME Word!Init
  PROVE  WordInv
<1>1. PICK pair \in WordOperands : wordA = pair[1] /\ wordB = pair[2]
  BY DEF Word!Init
<1>2. wordA \in SUBSET WordBits0 /\ wordB \in SUBSET WordBits0
  BY <1>1, WidthIs
<1>3. QED
  BY <1>2 DEF Word!Init, WordInv

(* Every step keeps it. *)
LEMMA WordNextInv ==
  ASSUME WordInv, [Word!Next]_wordVars
  PROVE  WordInv'
<1>1. CASE Word!FirstWindows
  BY <1>1, FirstWindowsStep
<1>2. CASE Word!NextWindows
  BY <1>2, NextWindowsStep
<1>3. CASE Word!TopBit
  BY <1>3, TopBitStep
<1>4. CASE UNCHANGED wordVars
  <2>1. Word!B0M' = Word!B0M
    BY <1>4 DEF wordVars, Word!B0M
  <2>2. QED
    BY <1>4, <2>1 DEF wordVars, WordInv
<1>5. QED
  BY <1>1, <1>2, <1>3, <1>4 DEF Word!Next

(* The portable product of two words is the product of the operands as far *)
(* as the windows and the top bits have come, for any word whose last      *)
(* window has one bit of it: for the 64 of the code.                       *)
THEOREM WordsMultiply == MCSpec => []PartialProduct
<1>1. MCInit => WordInv
  <2>1. ASSUME WordsRest
        PROVE  WordInv
    <3>1. wordA = {} /\ wordB = {} /\ wordL = {} /\ wordH = {}
          /\ wordI = Width /\ wordPc = "done"
      BY <2>1 DEF WordsRest
    <3>2. Product({}, {}) = {} /\ Below({}, Width) = {} /\ Whole({}, {}) = {}
      BY DEF Product, Below, Whole
    <3>3. QED
      BY <3>1, <3>2, WidthIs DEF WordInv
  <2>2. QED
    BY <2>1, WordInitInv DEF MCInit
<1>2. WordInv /\ [MCNext]_<<part, vars, wordVars, vecVars>> => WordInv'
  <2>1. [MCNext]_<<part, vars, wordVars, vecVars>> => [Word!Next]_wordVars
    BY DEF MCNext, PolynomialsNext, WordsNext, VectorsNext
  <2>2. QED
    BY <2>1, WordNextInv
<1>3. WordInv => PartialProduct
  BY WordInvGives
<1>4. QED
  BY <1>1, <1>2, <1>3, PTL DEF MCSpec

(***************************************************************************)
(* The products by vectors, of MulBaseX86.  Everything is about            *)
(* polynomials in consecutive lanes of registers.                          *)
(***************************************************************************)

(* r is the product of the n lanes of x from ax on and those of y from ay. *)
Multiplies(n, x, ax, y, ay, r) ==
  PolyAt(r, 0, 2 * n) = Product(PolyAt(x, ax, n), PolyAt(y, ay, n))

(* The h lanes of xs from axs on are the sums of the two halves of the 2h  *)
(* lanes of x from ax on.                                                  *)
HalvesSummed(h, x, ax, xs, axs) ==
  \A q \in 0..h-1 : xs[axs + q] = SymDiff(x[ax + q], x[(ax + h) + q])

(* What Karatsuba's method makes of three products of 2h lanes.            *)
LanesCombined(h, p0, m, p1, r) ==
  \A q \in 0..h-1 :
    /\ r[q] = p0[q]
    /\ r[h + q] = SymDiff(SymDiff(p0[h + q], p1[q]), SymDiff(p0[q], m[q]))
    /\ r[2 * h + q] = SymDiff(SymDiff(p0[h + q], p1[q]),
                              SymDiff(m[h + q], p1[h + q]))
    /\ r[3 * h + q] = p1[h + q]

(* Three products of h lanes make one of 2h lanes. *)
LEMMA LanesMultiply ==
  ASSUME NEW h \in Nat, NEW h2, h2 = 2 * h,
         NEW x, NEW ax \in Nat, NEW y, NEW ay \in Nat,
         NEW axh, axh = ax + h, NEW ayh, ayh = ay + h,
         NEW xs, NEW axs \in Nat, NEW ys, NEW ays \in Nat,
         NEW p0, NEW m, NEW p1, NEW r,
         HalvesSummed(h, x, ax, xs, axs), HalvesSummed(h, y, ay, ys, ays),
         Multiplies(h, x, ax, y, ay, p0), Multiplies(h, xs, axs, ys, ays, m),
         Multiplies(h, x, axh, y, ayh, p1), LanesCombined(h, p0, m, p1, r)
  PROVE  Multiplies(h2, x, ax, y, ay, r)
<1> DEFINE N  == h * QwBits
           x0 == PolyAt(x, ax, h)
           x1 == PolyAt(x, ax + h, h)
           y0 == PolyAt(y, ay, h)
           y1 == PolyAt(y, ay + h, h)
           P0 == Product(x0, y0)
           P1 == Product(x1, y1)
           M  == Product(SymDiff(x0, x1), SymDiff(y0, y1))
           mem == [q \in 0 .. 4 * h - 1 |->
                     IF q < h THEN p0[q]
                     ELSE IF q < 3 * h THEN m[q - h] ELSE p1[q - 2 * h]]
           s == [q \in 0..h-1 |-> SymDiff(p0[h + q], p1[q])]
<1>1. /\ x0 \in SUBSET (0..N-1) /\ x1 \in SUBSET (0..N-1)
      /\ y0 \in SUBSET (0..N-1) /\ y1 \in SUBSET (0..N-1)
      /\ N = h * QwBits /\ N \in Nat
  BY PolyBound
<1>2. PolyAt(p0, 0, 2 * h) = P0 /\ PolyAt(p1, 0, 2 * h) = P1
  BY DEF Multiplies
<1>3. PolyAt(m, 0, 2 * h) = M
  <2>1. ASSUME NEW f, NEW at, NEW fs, NEW ats, HalvesSummed(h, f, at, fs, ats)
        PROVE  PolyAt(fs, ats, h)
                   = SymDiff(PolyAt(f, at, h), PolyAt(f, at + h, h))
    <3> DEFINE top == at + h
    <3>1. \A q \in 0..h-1 : fs[ats + q] = SymDiff(f[at + q], f[top + q])
      BY <2>1 DEF HalvesSummed
    <3> HIDE DEF top
    <3>2. PolyAt(fs, ats, h) = SymDiff(PolyAt(f, at, h), PolyAt(f, top, h))
      BY <3>1, SumPoly
    <3>3. QED
      BY <3>2 DEF top
  <2>2. /\ PolyAt(xs, axs, h) = SymDiff(x0, x1)
        /\ PolyAt(ys, ays, h) = SymDiff(y0, y1)
    BY <2>1
  <2>3. QED
    BY <2>2 DEF Multiplies
<1>4. /\ PolyAt(p0, 0, h) = Low(P0, N) /\ PolyAt(p0, h, h) = High(P0, N)
      /\ PolyAt(p1, 0, h) = Low(P1, N) /\ PolyAt(p1, h, h) = High(P1, N)
  <2>1. 0 + h = h /\ 0 \in Nat
    OBVIOUS
  <2> HIDE DEF P0, P1, N
  <2>2. PolyAt(p0, 0, h) = Low(P0, N) /\ PolyAt(p0, 0 + h, h) = High(P0, N)
    BY <1>1, <1>2, <2>1, HalvesInMemory
  <2>3. PolyAt(p1, 0, h) = Low(P1, N) /\ PolyAt(p1, 0 + h, h) = High(P1, N)
    BY <1>1, <1>2, <2>1, HalvesInMemory
  <2>4. QED
    BY <2>1, <2>2, <2>3
<1>5. \A q \in 0..h-1 :
        /\ mem[q] = p0[q] /\ mem[h + q] = m[q]
        /\ mem[2 * h + q] = m[h + q] /\ mem[3 * h + q] = p1[h + q]
        /\ s[q] = SymDiff(p0[h + q], p1[q])
  <2>1. ASSUME NEW q \in 0..h-1
        PROVE  /\ q \in 0 .. 4 * h - 1 /\ h + q \in 0 .. 4 * h - 1
               /\ 2 * h + q \in 0 .. 4 * h - 1 /\ 3 * h + q \in 0 .. 4 * h - 1
               /\ q < h /\ ~(h + q < h) /\ ~(2 * h + q < h) /\ ~(3 * h + q < h)
               /\ h + q < 3 * h /\ 2 * h + q < 3 * h /\ ~(3 * h + q < 3 * h)
               /\ (h + q) - h = q /\ (2 * h + q) - h = h + q
               /\ (3 * h + q) - 2 * h = h + q
    OBVIOUS
  <2>2. QED
    BY <2>1
<1>6. \A q \in 0 .. 2 * h - 1 : mem[h + q] = m[q]
  <2>1. ASSUME NEW q \in 0 .. 2 * h - 1
        PROVE  /\ h + q \in 0 .. 4 * h - 1 /\ ~(h + q < h) /\ h + q < 3 * h
               /\ (h + q) - h = q
    OBVIOUS
  <2>2. QED
    BY <2>1
<1> HIDE DEF mem, s
<1>7. /\ PolyAt(mem, 0, h) = Low(P0, N) /\ PolyAt(mem, 0 + h, 2 * h) = M
      /\ PolyAt(mem, 0 + 3 * h, h) = High(P1, N)
  <2>1. \A q \in 0..h-1 : 0 + q = q
    OBVIOUS
  <2>2. PolyAt(mem, 0, h) = PolyAt(p0, 0, h)
    <3>1. \A q \in 0..h-1 : mem[0 + q] = p0[0 + q]
      BY <1>5, <2>1
    <3>2. QED
      BY <3>1, SamePoly
  <2>3. PolyAt(mem, h, 2 * h) = PolyAt(m, 0, 2 * h)
    <3>1. \A q \in 0 .. 2 * h - 1 : mem[h + q] = m[0 + q]
      BY <1>6
    <3>2. 2 * h \in Nat
      OBVIOUS
    <3>3. QED
      BY <3>1, <3>2, SamePoly
  <2>4. PolyAt(mem, 3 * h, h) = PolyAt(p1, h, h)
    <3> DEFINE h3 == 3 * h
    <3>1. \A q \in 0..h-1 : mem[h3 + q] = p1[h + q]
      BY <1>5
    <3> HIDE DEF h3
    <3>2. PolyAt(mem, h3, h) = PolyAt(p1, h, h)
      BY <3>1, SamePoly
    <3>3. QED
      BY <3>2 DEF h3
  <2>5. 0 + h = h /\ 0 + 3 * h = 3 * h
    OBVIOUS
  <2>6. QED
    BY <1>3, <1>4, <2>2, <2>3, <2>4, <2>5
<1>8. PolyAt(s, 0, h) = SymDiff(High(P0, N), Low(P1, N))
  <2>1. \A q \in 0..h-1 : s[0 + q] = SymDiff(p0[h + q], p1[0 + q])
    <3>1. \A q \in 0..h-1 : 0 + q = q
      OBVIOUS
    <3>2. QED
      BY <1>5, <3>1
  <2>2. PolyAt(s, 0, h) = SymDiff(PolyAt(p0, h, h), PolyAt(p1, 0, h))
    BY <2>1, SumPoly
  <2>3. QED
    BY <1>4, <2>2
<1>9. AddedThree(h, mem, 0, s, 0, r)
  <2>1. ASSUME NEW q \in 0..h-1
        PROVE  /\ 0 + q = q /\ (0 + h) + q = h + q
               /\ (0 + 2 * h) + q = 2 * h + q /\ (0 + 3 * h) + q = 3 * h + q
    OBVIOUS
  <2>2. QED
    BY <1>5, <2>1 DEF LanesCombined, AddedThree
<1> HIDE DEF x0, x1, y0, y1, N
<1>10. PolyAt(r, 0, 4 * h)
         = Product(FromHalves(x0, x1, N), FromHalves(y0, y1, N))
  <2> HIDE DEF P0, P1, M
  <2>1. P0 = Product(x0, y0) /\ P1 = Product(x1, y1)
        /\ M = Product(SymDiff(x0, x1), SymDiff(y0, y1))
    BY DEF P0, P1, M
  <2>2. 0 \in Nat
    OBVIOUS
  <2>3. QED
    BY <1>1, <1>7, <1>8, <1>9, <2>1, <2>2, AddedUp
<1>11. /\ PolyAt(x, ax, h2) = FromHalves(x0, x1, N)
       /\ PolyAt(y, ay, h2) = FromHalves(y0, y1, N)
  <2>1. h2 = h + h
    OBVIOUS
  <2>2. QED
    BY <2>1, SplitPoly DEF FromHalves, x0, x1, y0, y1, N
<1>12. 2 * h2 = 4 * h
  OBVIOUS
<1>13. QED
  BY <1>10, <1>11, <1>12 DEF Multiplies

(* Registers, and operands, of k lanes. *)
Registers(k) == [0..k-1 -> Qwords]

(* The instance's parameters and operators. *)
LEMMA VecFacts ==
  /\ QwBits \in Nat \ {0} /\ SqrQwords \in Nat \ {0}
  /\ Squared \subseteq SUBSET (0 .. SqrQwords * QwBits - 1)
  /\ Vec!Bits = 0..QwBits-1
BY KaratsubaAssumption, WordParameters DEF Vec!X86Assumption, Vec!Bits

(* Sums are taken lane by lane. *)
LEMMA RegistersAdd ==
  ASSUME NEW k \in Nat, NEW x \in Registers(k), NEW y \in Registers(k)
  PROVE  /\ Vec!(+)(x, y) \in Registers(k)
         /\ \A j \in 0..k-1 : Vec!(+)(x, y)[j] = SymDiff(x[j], y[j])
<1>1. Vec!(+)(x, y) = [j \in 0..k-1 |-> SymDiff(x[j], y[j])]
  <2>1. DOMAIN x = 0..k-1
    BY DEF Registers
  <2>2. \A u, w : Vec!SymDiff(u, w) = SymDiff(u, w)
    BY DEF Vec!SymDiff, SymDiff
  <2>3. QED
    BY <2>1, <2>2 DEF Vec!(+)
<1>2. \A j \in 0..k-1 : SymDiff(x[j], y[j]) \in Qwords
  <2>1. \A j \in 0..k-1 : x[j] \in Qwords /\ y[j] \in Qwords
    BY DEF Registers
  <2>2. QED
    BY <2>1, SumWords
<1>3. QED
  BY <1>1, <1>2 DEF Registers

(* A carry-less product of quad-words is a product. *)
LEMMA TimesIs ==
  ASSUME NEW v \in Qwords, NEW w \in Qwords
  PROVE  /\ Vec!Times(v, w) = Product(v, w)
         /\ Product(v, w) \in SUBSET (0 .. 2 * QwBits - 2)
<1>1. QwBits \in Nat /\ v \in SUBSET (0..QwBits-1) /\ w \in SUBSET (0..QwBits-1)
  BY VecFacts DEF Qwords
<1>2. v \in Polys /\ w \in Polys
  BY <1>1, BoundedPolys
<1>3. Product(v, w) \in SUBSET (0 .. 2 * QwBits - 2)
  BY <1>1, ProductBound
<1>4. \A k \in 0 .. 2 * QwBits - 2 :
        k \in Product(v, w) <=> Odd(Pairs(v, w, k))
  BY <1>1, <1>2, InProduct
<1>5. Vec!Times(v, w) = {k \in 0 .. 2 * QwBits - 2 : Odd(Pairs(v, w, k))}
  <2>1. \A T : Vec!Cardinality(T) = Cardinality(T)
    BY DEF Vec!Cardinality, Cardinality
  <2>2. QED
    BY <2>1 DEF Vec!Times, Odd, Pairs
<1>6. QED
  BY <1>3, <1>4, <1>5

(* The polynomial of one lane, and of two. *)
LEMMA OneLane ==
  ASSUME NEW x, NEW at \in Nat, NEW v \in Qwords, x[at] = v
  PROVE  PolyAt(x, at, 1) = v
<1>1. QwBits \in Nat /\ QwBits > 0 /\ v \in SUBSET (0..QwBits-1)
  BY VecFacts DEF Qwords
<1>2. ASSUME NEW e \in 0..QwBits-1
      PROVE  Qw(e) = 0 /\ Bit(e) = e
  <2>1. e = QwBits * 0 + e
    BY <1>1
  <2>2. QED
    BY <2>1, QwordIs
<1>3. PolyAt(x, at, 1) = {e \in 0..QwBits-1 : e \in x[at + 0]}
  BY <1>1, <1>2 DEF PolyAt
<1>4. at + 0 = at
  OBVIOUS
<1>5. QED
  BY <1>1, <1>3, <1>4

(* A product of two quad-words, cut into its two halves. *)
LEMMA TwoLanes ==
  ASSUME NEW t \in SUBSET (0 .. 2 * QwBits - 2), NEW r,
         r[0] = {e \in 0..QwBits-1 : e \in t},
         r[1] = {e \in 0..QwBits-1 : e + QwBits \in t}
  PROVE  PolyAt(r, 0, 2) = t
<1>1. QwBits \in Nat /\ QwBits > 0
  BY VecFacts
<1>2. ASSUME NEW e \in 0 .. 2 * QwBits - 1
      PROVE  Bit(e) \in r[0 + Qw(e)] <=> e \in t
  <2>1. CASE e < QwBits
    <3>1. e = QwBits * 0 + e /\ e \in 0..QwBits-1
      BY <1>1, <2>1
    <3>2. Qw(e) = 0 /\ Bit(e) = e
      BY <3>1, QwordIs
    <3>3. QED
      BY <3>1, <3>2
  <2>2. CASE ~(e < QwBits)
    <3>1. e - QwBits \in 0..QwBits-1 /\ e = QwBits * 1 + (e - QwBits)
          /\ (e - QwBits) + QwBits = e
      BY <1>1, <2>2
    <3>2. Qw(e) = 1 /\ Bit(e) = e - QwBits
      BY <3>1, QwordIs
    <3>3. QED
      BY <3>1, <3>2
  <2>3. QED
    BY <2>1, <2>2
<1>3. PolyAt(r, 0, 2) = {e \in 0 .. 2 * QwBits - 1 : e \in t}
  BY <1>2 DEF PolyAt
<1>4. \A e \in 0 .. 2 * QwBits - 2 : e \in 0 .. 2 * QwBits - 1
  BY <1>1
<1>5. QED
  BY <1>3, <1>4

(* The lanes f and f + 1 of a carry-less product are the product of a lane *)
(* of x and one of y.                                                      *)
LEMMA ClmulIs ==
  ASSUME NEW k \in Nat, k % 2 = 0, NEW x \in Registers(k),
         NEW y \in Registers(k),
         NEW sel \in {0, 1}, NEW f \in Nat, f % 2 = 0, f + 1 < k, NEW s,
         s = f + sel
  PROVE  /\ Vec!CLMUL(x, y, sel) \in Registers(k)
         /\ x[s] \in Qwords /\ y[s] \in Qwords
         /\ Vec!CLMUL(x, y, sel)[f] =
              {e \in 0..QwBits-1 : e \in Product(x[s], y[s])}
         /\ Vec!CLMUL(x, y, sel)[f + 1] =
              {e \in 0..QwBits-1 : e + QwBits \in Product(x[s], y[s])}
<1>1. QwBits \in Nat /\ Vec!Bits = 0..QwBits-1
  BY VecFacts
<1> DEFINE lane(j) == {e \in 0..QwBits-1 : e + QwBits * (j % 2) \in
                  Vec!Times(x[(j - (j % 2)) + sel], y[(j - (j % 2)) + sel])}
           r == Vec!CLMUL(x, y, sel)
<1>2. r = [j \in 0..k-1 |-> lane(j)]
  <2>1. DOMAIN x = 0..k-1
    BY DEF Registers
  <2>2. QED
    BY <1>1, <2>1 DEF Vec!CLMUL
<1>3. r \in Registers(k)
  BY <1>2 DEF Registers, Qwords
<1>4. r[f] = lane(f) /\ r[f + 1] = lane(f + 1)
  <2>1. f \in 0..k-1 /\ f + 1 \in 0..k-1
    OBVIOUS
  <2>2. QED
    BY <1>2, <2>1
<1> HIDE DEF r
<1>5. s \in 0..k-1
  OBVIOUS
<1>6. x[s] \in Qwords /\ y[s] \in Qwords
  BY <1>5 DEF Registers
<1>7. f % 2 = 0 /\ (f + 1) % 2 = 1 /\ (f - (f % 2)) + sel = s
      /\ ((f + 1) - ((f + 1) % 2)) + sel = s
  OBVIOUS
<1>8. Vec!Times(x[s], y[s]) = Product(x[s], y[s])
  BY <1>6, TimesIs
<1>9. \A e \in 0..QwBits-1 : e + QwBits * 0 = e /\ e + QwBits * 1 = e + QwBits
  BY <1>1
<1>10. r[f] = {e \in 0..QwBits-1 : e \in Product(x[s], y[s])}
  BY <1>4, <1>7, <1>8, <1>9
<1>11. r[f + 1] = {e \in 0..QwBits-1 : e + QwBits \in Product(x[s], y[s])}
  BY <1>4, <1>7, <1>8, <1>9
<1>12. QED
  BY <1>3, <1>6, <1>10, <1>11 DEF r

(* So that two lanes of it multiply one lane by one. *)
LEMMA ClmulMultiplies ==
  ASSUME NEW k \in Nat, k % 2 = 0, NEW x \in Registers(k),
         NEW y \in Registers(k),
         NEW sel \in {0, 1}, NEW f \in Nat, f % 2 = 0, f + 1 < k, NEW s,
         s = f + sel,
         NEW r, r[0] = Vec!CLMUL(x, y, sel)[f],
         r[1] = Vec!CLMUL(x, y, sel)[f + 1]
  PROVE  Multiplies(1, x, s, y, s, r)
<1>1. /\ x[s] \in Qwords /\ y[s] \in Qwords
      /\ r[0] = {e \in 0..QwBits-1 : e \in Product(x[s], y[s])}
      /\ r[1] = {e \in 0..QwBits-1 : e + QwBits \in Product(x[s], y[s])}
  BY ClmulIs
<1>2. PolyAt(x, s, 1) = x[s] /\ PolyAt(y, s, 1) = y[s]
  BY <1>1, OneLane
<1>3. PolyAt(r, 0, 2) = Product(x[s], y[s])
  BY <1>1, TimesIs, TwoLanes
<1>4. QED
  BY <1>2, <1>3 DEF Multiplies

(* Products are of lanes, wherever they are. *)
LEMMA SameMultiplies ==
  ASSUME NEW n \in Nat, NEW x, NEW ax, NEW y, NEW ay, NEW r,
         NEW x1, NEW ax1, NEW y1, NEW ay1,
         \A q \in 0..n-1 : x[ax + q] = x1[ax1 + q] /\ y[ay + q] = y1[ay1 + q],
         Multiplies(n, x1, ax1, y1, ay1, r)
  PROVE  Multiplies(n, x, ax, y, ay, r)
<1>1. /\ PolyAt(x, ax, n) = PolyAt(x1, ax1, n)
      /\ PolyAt(y, ay, n) = PolyAt(y1, ay1, n)
  BY SamePoly
<1>2. QED
  BY <1>1 DEF Multiplies

(* A piece of a register, and two put together. *)
LEMMA PieceIs ==
  ASSUME NEW k \in Nat, NEW n \in Nat, NEW t \in Nat, k + n <= t,
         NEW x \in Registers(t)
  PROVE  /\ Vec!Piece(x, k, n) \in Registers(n)
         /\ \A j \in 0..n-1 : Vec!Piece(x, k, n)[j] = x[k + j]
<1>1. \A j \in 0..n-1 : x[k + j] \in Qwords
  <2>1. \A j \in 0..n-1 : k + j \in 0..t-1
    OBVIOUS
  <2>2. QED
    BY <2>1 DEF Registers
<1>2. QED
  BY <1>1 DEF Registers, Vec!Piece

(* The lanes of two pieces in memory order. *)
LEMMA JoinedIs ==
  ASSUME NEW n \in Nat, NEW t \in Nat, NEW x \in Registers(n),
         NEW y \in Registers(t),
         NEW s, s = n + t
  PROVE  /\ Vec!Joined(x, y) \in Registers(s)
         /\ \A j \in 0..n-1 : Vec!Joined(x, y)[j] = x[j]
         /\ \A j \in 0..t-1 : Vec!Joined(x, y)[n + j] = y[j]
<1>1. Cardinality(0..n-1) = n /\ Cardinality(0..t-1) = t
  <2>1. ASSUME NEW k \in Nat
        PROVE  Cardinality(0..k-1) = k
    <3>1. 0 \in Int /\ k - 1 \in Int
      OBVIOUS
    <3>2. Cardinality(0..k-1) = IF 0 > k - 1 THEN 0 ELSE (k - 1) - 0 + 1
      BY <3>1, FS_Interval
    <3>3. QED
      BY <3>2
  <2>2. QED
    BY <2>1
<1>2. DOMAIN x = 0..n-1 /\ DOMAIN y = 0..t-1
  BY DEF Registers
<1>3. \A T : Vec!Cardinality(T) = Cardinality(T)
  BY DEF Vec!Cardinality, Cardinality
<1>4. Vec!Joined(x, y) = [j \in 0..s-1 |-> IF j < n THEN x[j] ELSE y[j - n]]
  BY <1>1, <1>2, <1>3 DEF Vec!Joined
<1>5. ASSUME NEW j \in 0..s-1
      PROVE  (IF j < n THEN x[j] ELSE y[j - n]) \in Qwords
  <2>1. j < n => j \in 0..n-1
    OBVIOUS
  <2>2. ~(j < n) => j - n \in 0..t-1
    OBVIOUS
  <2>3. QED
    BY <2>1, <2>2 DEF Registers
<1>6. Vec!Joined(x, y) \in Registers(s)
  BY <1>4, <1>5 DEF Registers
<1>7. \A j \in 0..n-1 : j \in 0..s-1 /\ j < n
  OBVIOUS
<1>8. \A j \in 0..t-1 : n + j \in 0..s-1 /\ ~(n + j < n) /\ (n + j) - n = j
  OBVIOUS
<1>9. QED
  BY <1>4, <1>6, <1>7, <1>8

(* The instructions on two lanes. *)
LEMMA TwoLaneOps ==
  ASSUME NEW x \in Registers(2), NEW y \in Registers(2)
  PROVE  /\ Vec!UNPACKLO(x, y) \in Registers(2)
         /\ Vec!UNPACKHI(x, y) \in Registers(2)
         /\ Vec!BSRLI(x) \in Registers(2) /\ Vec!BSLLI(x) \in Registers(2)
         /\ Vec!UNPACKLO(x, y)[0] = x[0] /\ Vec!UNPACKLO(x, y)[1] = y[0]
         /\ Vec!UNPACKHI(x, y)[0] = x[1] /\ Vec!UNPACKHI(x, y)[1] = y[1]
         /\ Vec!BSRLI(x)[0] = x[1] /\ Vec!BSRLI(x)[1] = {}
         /\ Vec!BSLLI(x)[0] = {} /\ Vec!BSLLI(x)[1] = x[0]
<1>1. x[0] \in Qwords /\ x[1] \in Qwords /\ y[0] \in Qwords /\ y[1] \in Qwords
      /\ {} \in Qwords
  BY DEF Registers, Qwords
<1>2. ASSUME NEW v \in Qwords, NEW w \in Qwords
      PROVE  /\ Vec!Xmm(v, w) \in Registers(2)
             /\ Vec!Xmm(v, w)[0] = v /\ Vec!Xmm(v, w)[1] = w
  BY DEF Vec!Xmm, Registers
<1>3. QED
  BY <1>1, <1>2 DEF Vec!UNPACKLO, Vec!UNPACKHI, Vec!BSRLI, Vec!BSLLI

(* Two lanes by two, of three carry-less products. *)
LEMMA TwoByTwo ==
  ASSUME NEW x \in Registers(2), NEW y \in Registers(2),
         NEW t0, t0 = Vec!CLMUL(x, y, 0), NEW t1, t1 = Vec!CLMUL(x, y, 1),
         NEW xs \in Registers(2), NEW ys \in Registers(2), NEW sel \in {0, 1},
         xs[sel] = SymDiff(x[0], x[1]), ys[sel] = SymDiff(y[0], y[1]),
         NEW t4, t4 = Vec!(+)(Vec!CLMUL(xs, ys, sel), Vec!(+)(t0, t1)),
         NEW r, r[0] = t0[0], r[1] = SymDiff(t0[1], t4[0]),
         r[2] = SymDiff(t1[0], t4[1]), r[3] = t1[1]
  PROVE  /\ t0 \in Registers(2) /\ t1 \in Registers(2) /\ t4 \in Registers(2)
         /\ Multiplies(2, x, 0, y, 0, r)
<1> DEFINE m == Vec!CLMUL(xs, ys, sel)
<1>0. ASSUME NEW u \in Registers(2), NEW v \in Registers(2), NEW s \in {0, 1},
             NEW t, t = Vec!CLMUL(u, v, s)
      PROVE  t \in Registers(2) /\ Multiplies(1, u, s, v, s, t)
  <2> DEFINE k == 2
             f == 0
  <2>1. /\ k \in Nat /\ k % 2 = 0 /\ f \in Nat /\ f % 2 = 0 /\ f + 1 < k
        /\ s = f + s /\ u \in Registers(k) /\ v \in Registers(k)
    OBVIOUS
  <2>2. t[0] = Vec!CLMUL(u, v, s)[f] /\ t[1] = Vec!CLMUL(u, v, s)[f + 1]
    BY <1>0
  <2> HIDE DEF k, f
  <2>3. s \in {0, 1} /\ t = Vec!CLMUL(u, v, s)
    BY <1>0
  <2>4. t \in Registers(k)
    BY ONLY <2>1, <2>3, ClmulIs
  <2>5. Multiplies(1, u, s, v, s, t)
    BY ONLY <2>1, <2>2, <2>3, ClmulMultiplies
  <2>6. QED
    BY <2>4, <2>5 DEF k
<1>1. t0 \in Registers(2) /\ Multiplies(1, x, 0, y, 0, t0)
  BY <1>0
<1>2. t1 \in Registers(2) /\ Multiplies(1, x, 1, y, 1, t1)
  BY <1>0
<1>3. m \in Registers(2) /\ Multiplies(1, xs, sel, ys, sel, m)
  BY <1>0
<1> HIDE DEF m
<1>4. /\ t4 \in Registers(2)
      /\ \A j \in 0..1 : t4[j] = SymDiff(m[j], SymDiff(t0[j], t1[j]))
  <2> DEFINE z == Vec!(+)(t0, t1)
  <2>1. z \in Registers(2) /\ \A j \in 0..1 : z[j] = SymDiff(t0[j], t1[j])
    BY <1>1, <1>2, RegistersAdd
  <2>2. t4 = Vec!(+)(m, z)
    BY DEF m
  <2> HIDE DEF z
  <2>3. QED
    BY <1>3, <2>1, <2>2, RegistersAdd
<1>5. LanesCombined(1, t0, m, t1, r)
  <2>1. /\ t4[0] = SymDiff(m[0], SymDiff(t0[0], t1[0]))
        /\ t4[1] = SymDiff(m[1], SymDiff(t0[1], t1[1]))
    BY <1>4
  <2>2. r[1] = SymDiff(SymDiff(t0[1], t1[0]), SymDiff(t0[0], m[0]))
    BY <2>1 DEF SymDiff
  <2>3. r[2] = SymDiff(SymDiff(t0[1], t1[0]), SymDiff(m[1], t1[1]))
    BY <2>1 DEF SymDiff
  <2>4. QED
    BY <2>2, <2>3 DEF LanesCombined
<1>6. HalvesSummed(1, x, 0, xs, sel) /\ HalvesSummed(1, y, 0, ys, sel)
  <2>1. sel + 0 = sel
    OBVIOUS
  <2>2. QED
    BY <2>1 DEF HalvesSummed
<1>7. Multiplies(2, x, 0, y, 0, r)
  <2>1. 1 \in Nat /\ 0 \in Nat /\ sel \in Nat /\ 2 = 2 * 1 /\ 0 + 1 = 1
    OBVIOUS
  <2>2. QED
    BY <1>1, <1>2, <1>3, <1>5, <1>6, <2>1, LanesMultiply
<1>8. QED
  BY <1>1, <1>2, <1>4, <1>7

(* What gf2x_mul4_int puts together of three products of two lanes. *)
LEMMA FourByFour ==
  ASSUME NEW x \in Registers(4), NEW y \in Registers(4), NEW r,
         NEW al \in Registers(2), NEW ah \in Registers(2),
         NEW bl \in Registers(2), NEW bh \in Registers(2),
         \A q \in 0..1 : /\ al[q] = x[q] /\ ah[q] = x[2 + q]
                         /\ bl[q] = y[q] /\ bh[q] = y[2 + q],
         NEW as \in Registers(2), NEW bs \in Registers(2),
         \A q \in 0..1 : /\ as[q] = SymDiff(al[q], ah[q])
                         /\ bs[q] = SymDiff(bl[q], bh[q]),
         NEW p0, NEW m, NEW p1,
         Multiplies(2, al, 0, bl, 0, p0), Multiplies(2, ah, 0, bh, 0, p1),
         Multiplies(2, as, 0, bs, 0, m), LanesCombined(2, p0, m, p1, r)
  PROVE  Multiplies(4, x, 0, y, 0, r)
<1>1. Multiplies(2, x, 0, y, 0, p0)
  <2>1. \A q \in 0..1 : x[0 + q] = al[0 + q] /\ y[0 + q] = bl[0 + q]
    <3>1. \A q \in 0..1 : 0 + q = q
      OBVIOUS
    <3>2. QED
      BY <3>1
  <2>2. \A q \in 0..2-1 : x[0 + q] = al[0 + q] /\ y[0 + q] = bl[0 + q]
    BY <2>1
  <2>3. QED
    BY <2>2, SameMultiplies
<1>2. Multiplies(2, x, 2, y, 2, p1)
  <2>1. \A q \in 0..2-1 : x[2 + q] = ah[0 + q] /\ y[2 + q] = bh[0 + q]
    <3>1. \A q \in 0..1 : 0 + q = q
      OBVIOUS
    <3>2. QED
      BY <3>1
  <2>2. QED
    BY <2>1, SameMultiplies
<1>3. HalvesSummed(2, x, 0, as, 0) /\ HalvesSummed(2, y, 0, bs, 0)
  <2>1. ASSUME NEW q \in 0..2-1
        PROVE  /\ as[0 + q] = SymDiff(x[0 + q], x[(0 + 2) + q])
               /\ bs[0 + q] = SymDiff(y[0 + q], y[(0 + 2) + q])
    <3> DEFINE q0 == 0 + q
               q2 == (0 + 2) + q
               q3 == 2 + q
    <3>1. q \in 0..1 /\ q0 = q /\ q2 = q3
      OBVIOUS
    <3>2. /\ as[q] = SymDiff(al[q], ah[q]) /\ bs[q] = SymDiff(bl[q], bh[q])
          /\ al[q] = x[q] /\ ah[q] = x[q3] /\ bl[q] = y[q] /\ bh[q] = y[q3]
      BY <3>1
    <3> HIDE DEF q0, q2, q3
    <3>3. as[q0] = SymDiff(x[q0], x[q2]) /\ bs[q0] = SymDiff(y[q0], y[q2])
      BY <3>1, <3>2
    <3>4. QED
      BY <3>3 DEF q0, q2
  <2>2. QED
    BY <2>1 DEF HalvesSummed
<1>4. 2 \in Nat /\ 0 \in Nat /\ 4 = 2 * 2 /\ 2 = 0 + 2
  OBVIOUS
<1>5. QED
  BY <1>1, <1>2, <1>3, <1>4, LanesMultiply

(* gf2x_mul4_int multiplies. *)
LEMMA Mul4Multiplies ==
  ASSUME NEW x \in Registers(4), NEW y \in Registers(4), NEW r,
         r = Vec!Mul4(x, y)
  PROVE  r \in Registers(8) /\ Multiplies(4, x, 0, y, 0, r)
<1> DEFINE al == Vec!Piece(x, 0, 2)
           ah == Vec!Piece(x, 2, 2)
           bl == Vec!Piece(y, 0, 2)
           bh == Vec!Piece(y, 2, 2)
           aa == Vec!(+)(al, ah)
           bb == Vec!(+)(bl, bh)
           xl == Vec!UNPACKLO(al, ah)
           xh == Vec!UNPACKHI(al, ah)
           yl == Vec!UNPACKLO(bl, bh)
           yh == Vec!UNPACKHI(bl, bh)
           xx == Vec!(+)(xl, xh)
           yy == Vec!(+)(yl, yh)
           ax == Vec!BSRLI(aa)
           bx == Vec!BSRLI(bb)
           uu == Vec!(+)(aa, ax)
           vv == Vec!(+)(bb, bx)
           t0 == Vec!CLMUL(al, bl, 0)
           t1 == Vec!CLMUL(al, bl, 1)
           t2 == Vec!CLMUL(ah, bh, 0)
           t3 == Vec!CLMUL(ah, bh, 1)
           t6 == Vec!CLMUL(aa, bb, 0)
           t7 == Vec!CLMUL(aa, bb, 1)
           t4 == Vec!(+)(Vec!CLMUL(xx, yy, 0), Vec!(+)(t0, t1))
           t5 == Vec!(+)(Vec!CLMUL(xx, yy, 1), Vec!(+)(t2, t3))
           t8 == Vec!(+)(Vec!CLMUL(uu, vv, 0), Vec!(+)(t6, t7))
           l4 == Vec!BSLLI(t4)
           r4 == Vec!BSRLI(t4)
           l5 == Vec!BSLLI(t5)
           r5 == Vec!BSRLI(t5)
           l8 == Vec!BSLLI(t8)
           r8 == Vec!BSRLI(t8)
           lo0 == Vec!(+)(t0, l4)
           lo1 == Vec!(+)(t1, r4)
           hi0 == Vec!(+)(t2, l5)
           hi1 == Vec!(+)(t3, r5)
           mi0 == Vec!(+)(t6, l8)
           mi1 == Vec!(+)(t7, r8)
           mid == Vec!(+)(lo1, hi0)
           n0  == Vec!(+)(lo0, mi0)
           n1  == Vec!(+)(n0, mid)
           n2  == Vec!(+)(hi1, mi1)
           n3  == Vec!(+)(n2, mid)
           lower  == Vec!Joined(lo0, n1)
           higher == Vec!Joined(n3, hi1)
           p0 == Vec!Joined(lo0, lo1)
           p1 == Vec!Joined(hi0, hi1)
           m  == Vec!Joined(mi0, mi1)
<1>1. r = Vec!Joined(lower, higher)
  BY DEF Vec!Mul4
<1>2. /\ al \in Registers(2) /\ ah \in Registers(2)
      /\ bl \in Registers(2) /\ bh \in Registers(2)
      /\ \A q \in 0..1 : /\ al[q] = x[q] /\ ah[q] = x[2 + q]
                         /\ bl[q] = y[q] /\ bh[q] = y[2 + q]
  <2>1. \A q \in 0..1 : 0 + q = q
    OBVIOUS
  <2>2. /\ al \in Registers(2) /\ \A q \in 0..2-1 : al[q] = x[0 + q]
        /\ ah \in Registers(2) /\ \A q \in 0..2-1 : ah[q] = x[2 + q]
    BY PieceIs
  <2>3. /\ bl \in Registers(2) /\ \A q \in 0..2-1 : bl[q] = y[0 + q]
        /\ bh \in Registers(2) /\ \A q \in 0..2-1 : bh[q] = y[2 + q]
    BY PieceIs
  <2> HIDE DEF al, ah, bl, bh
  <2>4. QED
    BY <2>1, <2>2, <2>3
<1> HIDE DEF al, ah, bl, bh
<1>3. /\ aa \in Registers(2) /\ bb \in Registers(2)
      /\ \A q \in 0..1 : /\ aa[q] = SymDiff(al[q], ah[q])
                         /\ bb[q] = SymDiff(bl[q], bh[q])
  BY <1>2, RegistersAdd
<1>4. /\ xl \in Registers(2) /\ xh \in Registers(2)
      /\ yl \in Registers(2) /\ yh \in Registers(2)
      /\ xl[0] = al[0] /\ xl[1] = ah[0] /\ xh[0] = al[1] /\ xh[1] = ah[1]
      /\ yl[0] = bl[0] /\ yl[1] = bh[0] /\ yh[0] = bl[1] /\ yh[1] = bh[1]
  BY <1>2, TwoLaneOps
<1> HIDE DEF aa, bb, xl, xh, yl, yh
<1>5. /\ xx \in Registers(2) /\ yy \in Registers(2)
      /\ xx[0] = SymDiff(al[0], al[1]) /\ xx[1] = SymDiff(ah[0], ah[1])
      /\ yy[0] = SymDiff(bl[0], bl[1]) /\ yy[1] = SymDiff(bh[0], bh[1])
  <2>1. /\ xx \in Registers(2) /\ \A q \in 0..1 : xx[q] = SymDiff(xl[q], xh[q])
        /\ yy \in Registers(2) /\ \A q \in 0..1 : yy[q] = SymDiff(yl[q], yh[q])
    BY <1>4, RegistersAdd
  <2> HIDE DEF xx, yy
  <2>2. QED
    BY <1>4, <2>1
<1>6. /\ ax \in Registers(2) /\ bx \in Registers(2)
      /\ ax[0] = aa[1] /\ bx[0] = bb[1]
  BY <1>3, TwoLaneOps
<1> HIDE DEF xx, yy, ax, bx
<1>7. /\ uu \in Registers(2) /\ vv \in Registers(2)
      /\ uu[0] = SymDiff(aa[0], aa[1]) /\ vv[0] = SymDiff(bb[0], bb[1])
  <2>1. /\ uu \in Registers(2) /\ \A q \in 0..1 : uu[q] = SymDiff(aa[q], ax[q])
        /\ vv \in Registers(2) /\ \A q \in 0..1 : vv[q] = SymDiff(bb[q], bx[q])
    BY <1>3, <1>6, RegistersAdd
  <2> HIDE DEF uu, vv
  <2>2. QED
    BY <1>6, <2>1
<1> HIDE DEF uu, vv
<1>8. ASSUME NEW f \in Registers(2), NEW g \in Registers(2),
             NEW fs \in Registers(2), NEW gs \in Registers(2),
             NEW sel \in {0, 1},
             fs[sel] = SymDiff(f[0], f[1]), gs[sel] = SymDiff(g[0], g[1]),
             NEW z0, z0 = Vec!CLMUL(f, g, 0), NEW z1, z1 = Vec!CLMUL(f, g, 1),
             NEW z, z = Vec!(+)(Vec!CLMUL(fs, gs, sel), Vec!(+)(z0, z1)),
             NEW zl, zl = Vec!(+)(z0, Vec!BSLLI(z)),
             NEW zh, zh = Vec!(+)(z1, Vec!BSRLI(z))
      PROVE  /\ zl \in Registers(2) /\ zh \in Registers(2)
             /\ Vec!Joined(zl, zh) \in Registers(4)
             /\ \A q \in 0..1 : /\ Vec!Joined(zl, zh)[q] = zl[q]
                                /\ Vec!Joined(zl, zh)[2 + q] = zh[q]
             /\ Multiplies(2, f, 0, g, 0, Vec!Joined(zl, zh))
  <2> DEFINE zz == Vec!Joined(zl, zh)
             s0 == Vec!BSLLI(z)
             s1 == Vec!BSRLI(z)
             none == [q \in 0..3 |-> IF q = 0 THEN z0[0]
                        ELSE IF q = 1 THEN SymDiff(z0[1], z[0])
                        ELSE IF q = 2 THEN SymDiff(z1[0], z[1]) ELSE z1[1]]
  <2>1. /\ none[0] = z0[0] /\ none[1] = SymDiff(z0[1], z[0])
        /\ none[2] = SymDiff(z1[0], z[1]) /\ none[3] = z1[1]
    OBVIOUS
  <2> HIDE DEF none
  <2>2. /\ z0 \in Registers(2) /\ z1 \in Registers(2) /\ z \in Registers(2)
        /\ Multiplies(2, f, 0, g, 0, none)
    BY <1>8, <2>1, TwoByTwo
  <2>3. /\ s0 \in Registers(2) /\ s1 \in Registers(2)
        /\ s0[0] = {} /\ s0[1] = z[0] /\ s1[0] = z[1] /\ s1[1] = {}
    BY <2>2, TwoLaneOps
  <2>4. zl = Vec!(+)(z0, s0) /\ zh = Vec!(+)(z1, s1)
    BY <1>8
  <2> HIDE DEF s0, s1
  <2>5. /\ zl \in Registers(2) /\ \A q \in 0..1 : zl[q] = SymDiff(z0[q], s0[q])
        /\ zh \in Registers(2) /\ \A q \in 0..1 : zh[q] = SymDiff(z1[q], s1[q])
    BY <2>2, <2>3, <2>4, RegistersAdd
  <2>6. /\ zz \in Registers(4)
        /\ \A q \in 0..2-1 : zz[q] = zl[q]
        /\ \A q \in 0..2-1 : zz[2 + q] = zh[q]
    BY <2>5, JoinedIs
  <2> HIDE DEF zz
  <2>7. /\ zz[0] = none[0] /\ zz[1] = none[1] /\ zz[2] = none[2]
        /\ zz[3] = none[3]
    <3>1. \A v : SymDiff(v, {}) = v
      BY DEF SymDiff
    <3>2. zz[0] = zl[0] /\ zz[1] = zl[1] /\ zz[2] = zh[0] /\ zz[3] = zh[1]
      BY <2>6
    <3>3. QED
      BY <2>1, <2>3, <2>5, <3>1, <3>2
  <2>8. PolyAt(zz, 0, 4) = PolyAt(none, 0, 4)
    <3>1. \A q \in 0..4-1 : zz[0 + q] = none[0 + q]
      BY <2>7
    <3>2. QED
      BY <3>1, SamePoly
  <2>9. Multiplies(2, f, 0, g, 0, zz)
    <3>1. 2 * 2 = 4
      OBVIOUS
    <3>2. QED
      BY <2>2, <2>8, <3>1 DEF Multiplies
  <2>10. QED
    BY <2>5, <2>6, <2>9 DEF zz
<1> DEFINE IsProduct(f, g, z, zl, zh) ==
             /\ zl \in Registers(2) /\ zh \in Registers(2) /\ z \in Registers(4)
             /\ \A q \in 0..1 : z[q] = zl[q] /\ z[2 + q] = zh[q]
             /\ Multiplies(2, f, 0, g, 0, z)
<1>9. IsProduct(al, bl, p0, lo0, lo1)
  BY <1>2, <1>5, <1>8
<1>10. IsProduct(ah, bh, p1, hi0, hi1)
  BY <1>2, <1>5, <1>8
<1>11. IsProduct(aa, bb, m, mi0, mi1)
  BY <1>3, <1>7, <1>8
<1> HIDE DEF t0, t1, t2, t3, t4, t5, t6, t7, t8, l4, r4, l5, r5, l8, r8,
             lo0, lo1, hi0, hi1, mi0, mi1, p0, p1, m
<1>12. /\ mid \in Registers(2)
       /\ \A q \in 0..1 : mid[q] = SymDiff(lo1[q], hi0[q])
       /\ n0 \in Registers(2) /\ \A q \in 0..1 : n0[q] = SymDiff(lo0[q], mi0[q])
       /\ n2 \in Registers(2) /\ \A q \in 0..1 : n2[q] = SymDiff(hi1[q], mi1[q])
  BY <1>9, <1>10, <1>11, RegistersAdd
<1> HIDE DEF mid, n0, n2
<1>13. /\ n1 \in Registers(2) /\ \A q \in 0..1 : n1[q] = SymDiff(n0[q], mid[q])
       /\ n3 \in Registers(2) /\ \A q \in 0..1 : n3[q] = SymDiff(n2[q], mid[q])
  BY <1>12, RegistersAdd
<1> HIDE DEF n1, n3
<1>14. /\ lower \in Registers(4)
       /\ \A q \in 0..2-1 : lower[q] = lo0[q]
       /\ \A q \in 0..2-1 : lower[2 + q] = n1[q]
  BY <1>9, <1>13, JoinedIs
<1>15. /\ higher \in Registers(4)
       /\ \A q \in 0..2-1 : higher[q] = n3[q]
       /\ \A q \in 0..2-1 : higher[2 + q] = hi1[q]
  BY <1>10, <1>13, JoinedIs
<1> HIDE DEF lower, higher
<1>16. /\ r \in Registers(8)
       /\ \A q \in 0..4-1 : r[q] = lower[q]
       /\ \A q \in 0..4-1 : r[4 + q] = higher[q]
  <2> DEFINE n == 4
  <2>1. n \in Nat /\ 8 = n + n /\ lower \in Registers(n) /\ higher \in Registers(n)
    BY <1>14, <1>15
  <2>2. r = Vec!Joined(lower, higher)
    BY <1>1
  <2> HIDE DEF n
  <2>3. /\ r \in Registers(8)
        /\ \A q \in 0..n-1 : r[q] = lower[q]
        /\ \A q \in 0..n-1 : r[n + q] = higher[q]
    BY ONLY <2>1, <2>2, JoinedIs
  <2>4. QED
    BY <2>3 DEF n
<1>17. LanesCombined(2, p0, m, p1, r)
  <2>1. ASSUME NEW q \in 0..1
        PROVE  /\ r[q] = lo0[q] /\ r[2 + q] = n1[q]
               /\ r[4 + q] = n3[q] /\ r[6 + q] = hi1[q]
    <3>1. q \in 0..3 /\ 2 + q \in 0..3 /\ 4 + (2 + q) = 6 + q
      OBVIOUS
    <3>2. r[6 + q] = higher[2 + q]
      BY <1>16, <3>1
    <3>3. QED
      BY <1>14, <1>15, <1>16, <3>1, <3>2
  <2>2. ASSUME NEW q \in 0..1
        PROVE  /\ r[q] = p0[q]
               /\ r[2 + q]
                    = SymDiff(SymDiff(p0[2 + q], p1[q]), SymDiff(p0[q], m[q]))
               /\ r[2 * 2 + q] = SymDiff(SymDiff(p0[2 + q], p1[q]),
                                         SymDiff(m[2 + q], p1[2 + q]))
               /\ r[3 * 2 + q] = p1[2 + q]
    <3> DEFINE va == p0[q]
               vb == p0[2 + q]
               vc == p1[q]
               vd == p1[2 + q]
               ve == m[q]
               vf == m[2 + q]
    <3>1. /\ lo0[q] = va /\ lo1[q] = vb /\ hi0[q] = vc /\ hi1[q] = vd
          /\ mi0[q] = ve /\ mi1[q] = vf
      BY <1>9, <1>10, <1>11
    <3>2. /\ n1[q] = SymDiff(SymDiff(va, ve), SymDiff(vb, vc))
          /\ n3[q] = SymDiff(SymDiff(vd, vf), SymDiff(vb, vc))
      BY <1>12, <1>13, <3>1
    <3>3. 2 * 2 + q = 4 + q /\ 3 * 2 + q = 6 + q
      OBVIOUS
    <3> HIDE DEF va, vb, vc, vd, ve, vf
    <3>4. /\ n1[q] = SymDiff(SymDiff(vb, vc), SymDiff(va, ve))
          /\ n3[q] = SymDiff(SymDiff(vb, vc), SymDiff(vf, vd))
      BY <3>2 DEF SymDiff
    <3>5. QED
      BY <2>1, <3>1, <3>3, <3>4 DEF va, vb, vc, vd, ve, vf
  <2>3. QED
    BY <2>2 DEF LanesCombined
<1>18. QED
  BY <1>2, <1>3, <1>9, <1>10, <1>11, <1>16, <1>17, FourByFour

(* The eight lanes of a register, the lowest one first. *)
Lanes8(r, v0, v1, v2, v3, v4, v5, v6, v7) ==
  /\ r[0] = v0 /\ r[1] = v1 /\ r[2] = v2 /\ r[3] = v3
  /\ r[4] = v4 /\ r[5] = v5 /\ r[6] = v6 /\ r[7] = v7

(* The lanes of a constant, the highest one first. *)
LEMMA SetLanes ==
  ASSUME NEW e7, NEW e6, NEW e5, NEW e4, NEW e3, NEW e2, NEW e1, NEW e0
  PROVE  Lanes8(Vec!SET_I64(<<e7, e6, e5, e4, e3, e2, e1, e0>>),
                e0, e1, e2, e3, e4, e5, e6, e7)
<1> DEFINE s == <<e7, e6, e5, e4, e3, e2, e1, e0>>
           r == Vec!SET_I64(s)
<1>1. /\ s[1] = e7 /\ s[2] = e6 /\ s[3] = e5 /\ s[4] = e4
      /\ s[5] = e3 /\ s[6] = e2 /\ s[7] = e1 /\ s[8] = e0
  OBVIOUS
<1> HIDE DEF s
<1>2. r = [j \in 0..7 |-> s[8 - j]]
  BY DEF Vec!SET_I64, Vec!Zmm
<1>3. /\ r[0] = s[8] /\ r[1] = s[7] /\ r[2] = s[6] /\ r[3] = s[5]
      /\ r[4] = s[4] /\ r[5] = s[3] /\ r[6] = s[2] /\ r[7] = s[1]
  BY <1>2
<1>4. QED
  BY <1>1, <1>3 DEF Lanes8, s

(* What is in eight lanes is a register. *)
LEMMA LanesOfRegister ==
  ASSUME NEW x \in Registers(8)
  PROVE  \A j \in 0..7 : x[j] \in Qwords
BY DEF Registers

(* A permutation of the lanes, and a choice of lanes of two registers. *)
LEMMA PermutedLanes ==
  ASSUME NEW x \in Registers(8), NEW idx, \A j \in 0..7 : idx[j] \in 0..7,
         NEW r, r = Vec!PERMXVAR_I64(idx, x)
  PROVE  r \in Registers(8) /\ \A j \in 0..7 : r[j] = x[idx[j]]
<1>1. r = [j \in 0..7 |-> x[idx[j]]]
  BY DEF Vec!PERMXVAR_I64, Vec!Zmm
<1>2. \A j \in 0..7 : x[idx[j]] \in Qwords
  BY LanesOfRegister
<1>3. r \in [0..7 -> Qwords]
  BY <1>1, <1>2
<1>4. QED
  BY <1>1, <1>3 DEF Registers

(* A lane of x and y, numbered through. *)
Chosen(x, e, y) == IF e < 8 THEN x[e] ELSE y[e - 8]

(* A permutation of two registers chooses lanes of them. *)
LEMMA ChosenLanes ==
  ASSUME NEW x \in Registers(8), NEW y \in Registers(8),
         NEW idx, \A j \in 0..7 : idx[j] \in 0..15,
         NEW r, r = Vec!PERMX2VAR_I64(x, idx, y)
  PROVE  /\ r \in Registers(8)
         /\ \A j \in 0..7 : r[j] = Chosen(x, idx[j], y)
<1> DEFINE v(e) == Chosen(x, e, y)
<1>1. r = [j \in 0..7 |-> v(idx[j])]
  BY DEF Vec!PERMX2VAR_I64, Vec!Zmm, Chosen
<1>2. ASSUME NEW e \in 0..15
      PROVE  v(e) \in Qwords
  <2>1. CASE e < 8
    <3>1. e \in 0..7
      BY <2>1
    <3>2. QED
      BY <2>1, <3>1, LanesOfRegister DEF Chosen
  <2>2. CASE ~(e < 8)
    <3>1. e - 8 \in 0..7
      BY <2>2
    <3>2. QED
      BY <2>2, <3>1, LanesOfRegister DEF Chosen
  <2>3. QED
    BY <2>1, <2>2
<1> HIDE DEF v
<1>3. \A j \in 0..7 : v(idx[j]) \in Qwords
  BY <1>2
<1>4. r \in [0..7 -> Qwords] /\ \A j \in 0..7 : r[j] = v(idx[j])
  BY <1>1, <1>3
<1>5. r \in Registers(8)
  BY <1>4 DEF Registers
<1>6. QED
  BY <1>4, <1>5 DEF v

(* A register turned by n lanes, and a sum in some lanes only. *)
LEMMA AlignedLanes ==
  ASSUME NEW x \in Registers(8), NEW n \in 0..7, NEW r, r = Vec!VALIGN(x, n)
  PROVE  r \in Registers(8) /\ \A j \in 0..7 : r[j] = x[(j + n) % 8]
<1>1. r = [j \in 0..7 |-> x[(j + n) % 8]]
  BY DEF Vec!VALIGN, Vec!Zmm
<1>2. \A j \in 0..7 : (j + n) % 8 \in 0..7
  OBVIOUS
<1>3. \A j \in 0..7 : x[(j + n) % 8] \in Qwords
  BY <1>2, LanesOfRegister
<1>4. r \in [0..7 -> Qwords]
  BY <1>1, <1>3
<1>5. QED
  BY <1>1, <1>4 DEF Registers

(* A masked sum adds in the lanes of the mask. *)
LEMMA MaskedSum ==
  ASSUME NEW x \in Registers(8), NEW y \in Registers(8), NEW mask,
         NEW r, r = Vec!MXOR_I64(x, mask, y)
  PROVE  /\ r \in Registers(8)
         /\ \A j \in 0..7 : r[j]
              = IF j \in mask THEN SymDiff(x[j], y[j]) ELSE x[j]
<1> DEFINE v(j) == IF j \in mask THEN SymDiff(x[j], y[j]) ELSE x[j]
<1>1. r = [j \in 0..7 |-> v(j)]
  <2>1. \A u, w : Vec!SymDiff(u, w) = SymDiff(u, w)
    BY DEF Vec!SymDiff, SymDiff
  <2>2. QED
    BY <2>1 DEF Vec!MXOR_I64, Vec!Zmm
<1>2. ASSUME NEW j \in 0..7
      PROVE  v(j) \in Qwords
  <2>1. x[j] \in Qwords /\ y[j] \in Qwords
    BY LanesOfRegister
  <2>2. SymDiff(x[j], y[j]) \in Qwords
    BY <2>1, SumWords
  <2>3. QED
    BY <2>1, <2>2
<1> HIDE DEF v
<1>3. r \in [0..7 -> Qwords] /\ \A j \in 0..7 : r[j] = v(j)
  BY <1>1, <1>2
<1>4. r \in Registers(8)
  BY <1>3 DEF Registers
<1>5. QED
  BY <1>3, <1>4 DEF v

(* Pairs of lanes swapped. *)
LEMMA SwappedLanes ==
  ASSUME NEW x \in Registers(8), NEW r, r = Vec!PairsSwapped(x)
  PROVE  /\ r \in Registers(8)
         /\ Lanes8(r, x[1], x[0], x[3], x[2], x[5], x[4], x[7], x[6])
<1>1. r = [j \in 0..7 |-> x[(j + 1) - (2 * (j % 2))]]
  BY DEF Vec!PairsSwapped, Vec!Zmm
<1>2. \A j \in 0..7 : (j + 1) - (2 * (j % 2)) \in 0..7
  OBVIOUS
<1>3. \A j \in 0..7 : x[(j + 1) - (2 * (j % 2))] \in Qwords
  BY <1>2, LanesOfRegister
<1>4. r \in [0..7 -> Qwords]
  BY <1>1, <1>3
<1>5. \A j \in 0..7 : r[j] = x[(j + 1) - (2 * (j % 2))]
  BY <1>1
<1>6. Lanes8(r, x[1], x[0], x[3], x[2], x[5], x[4], x[7], x[6])
  BY <1>5 DEF Lanes8
<1>7. QED
  BY <1>4, <1>6 DEF Registers

(* The lanes f and f + 1 of the low and of the high half of four products. *)
Quad(p, f) ==
  [q \in 0..3 |-> IF q = 0 THEN p.l[f] ELSE IF q = 1 THEN p.l[f + 1]
                  ELSE IF q = 2 THEN p.h[f] ELSE p.h[f + 1]]

(* The four quad-words mul2_512 returns of a product, in their order. *)
LEMMA QuadIs ==
  ASSUME NEW p, NEW f
  PROVE  /\ Quad(p, f)[0] = p.l[f] /\ Quad(p, f)[1] = p.l[f + 1]
         /\ Quad(p, f)[2] = p.h[f] /\ Quad(p, f)[3] = p.h[f + 1]
BY DEF Quad

(* mul2_512 multiplies each two lanes of x by those of y. *)
LEMMA Mul2Multiplies ==
  ASSUME NEW x \in Registers(8), NEW y \in Registers(8), NEW p,
         p = Vec!Mul2(x, y)
  PROVE  /\ p.l \in Registers(8) /\ p.h \in Registers(8)
         /\ \A f \in {0, 2, 4, 6} : Multiplies(2, x, f, y, f, Quad(p, f))
<1> DEFINE lq == Vec!CLMUL(x, y, 0)
           hq == Vec!CLMUL(x, y, 1)
           sx == Vec!PairsSwapped(x)
           sy == Vec!PairsSwapped(y)
           xs == Vec!(+)(x, sx)
           ys == Vec!(+)(y, sy)
           m  == Vec!CLMUL(xs, ys, 0)
           lh == Vec!(+)(lq, hq)
           abq == Vec!(+)(lh, m)
           idx == Vec!SET_I64(<<6, 7, 4, 5, 2, 3, 0, 1>>)
           sw == Vec!PERMXVAR_I64(idx, abq)
           pl == Vec!MXOR_I64(lq, {1, 3, 5, 7}, sw)
           ph == Vec!MXOR_I64(hq, {0, 2, 4, 6}, sw)
<1>1. p.l = pl /\ p.h = ph
  <2>1. p = [l |-> pl, h |-> ph]
    BY DEF Vec!Mul2
  <2> HIDE DEF pl, ph
  <2>2. QED
    BY <2>1
<1>2. Lanes8(idx, 1, 0, 3, 2, 5, 4, 7, 6)
  BY SetLanes
<1>3. 8 \in Nat /\ 8 % 2 = 0 /\ 0 % 2 = 0 /\ 2 % 2 = 0 /\ 4 % 2 = 0 /\ 6 % 2 = 0
  OBVIOUS
<1>4. lq \in Registers(8) /\ hq \in Registers(8)
  <2>1. /\ 0 + 1 < 8 /\ 0 = 0 + 0 /\ 1 = 0 + 1 /\ 0 \in Nat /\ 0 \in {0, 1}
        /\ 1 \in {0, 1}
    OBVIOUS
  <2>2. lq \in Registers(8)
    BY <1>3, <2>1, ClmulIs
  <2>3. hq \in Registers(8)
    BY <1>3, <2>1, ClmulIs
  <2>4. QED
    BY <2>2, <2>3
<1>5. /\ sx \in Registers(8)
      /\ Lanes8(sx, x[1], x[0], x[3], x[2], x[5], x[4], x[7], x[6])
      /\ sy \in Registers(8)
      /\ Lanes8(sy, y[1], y[0], y[3], y[2], y[5], y[4], y[7], y[6])
  BY SwappedLanes
<1> HIDE DEF sx, sy, idx
<1>6. /\ xs \in Registers(8) /\ \A j \in 0..8-1 : xs[j] = SymDiff(x[j], sx[j])
      /\ ys \in Registers(8) /\ \A j \in 0..8-1 : ys[j] = SymDiff(y[j], sy[j])
  BY <1>3, <1>5, RegistersAdd
<1> HIDE DEF xs, ys
<1>7. m \in Registers(8)
  <2>1. 0 + 1 < 8 /\ 0 = 0 + 0 /\ 0 \in Nat /\ 0 \in {0, 1}
    OBVIOUS
  <2>2. QED
    BY <1>3, <1>6, <2>1, ClmulIs
<1>8. ASSUME NEW f \in {0, 2, 4, 6}
      PROVE  /\ xs[f] = SymDiff(x[f], x[f + 1])
             /\ ys[f] = SymDiff(y[f], y[f + 1])
  <2>1. /\ sx[f] = x[f + 1] /\ sy[f] = y[f + 1]
    BY <1>5 DEF Lanes8
  <2>2. f \in 0..8-1
    OBVIOUS
  <2>3. QED
    BY <1>6, <2>1, <2>2
<1> DEFINE low(f)    == [q \in 0..1 |-> IF q = 0 THEN lq[f] ELSE lq[f + 1]]
           high(f)   == [q \in 0..1 |-> IF q = 0 THEN hq[f] ELSE hq[f + 1]]
           middle(f) == [q \in 0..1 |-> IF q = 0 THEN m[f] ELSE m[f + 1]]
<1>9. ASSUME NEW f
      PROVE  /\ low(f)[0] = lq[f] /\ low(f)[1] = lq[f + 1]
             /\ high(f)[0] = hq[f] /\ high(f)[1] = hq[f + 1]
             /\ middle(f)[0] = m[f] /\ middle(f)[1] = m[f + 1]
  OBVIOUS
<1> HIDE DEF low, high, middle
<1>10. ASSUME NEW f \in {0, 2, 4, 6}
       PROVE  /\ Multiplies(1, x, f, y, f, low(f))
              /\ Multiplies(1, x, f + 1, y, f + 1, high(f))
              /\ Multiplies(1, xs, f, ys, f, middle(f))
  <2>1. /\ f \in Nat /\ f % 2 = 0 /\ f + 1 < 8 /\ f = f + 0
        /\ 0 \in {0, 1} /\ 1 \in {0, 1}
    OBVIOUS
  <2>2. Multiplies(1, x, f, y, f, low(f))
    BY <1>3, <1>9, <2>1, ClmulMultiplies
  <2> DEFINE g == f + 1
  <2>3. g = f + 1
    OBVIOUS
  <2>4. high(f)[0] = hq[f] /\ high(f)[1] = hq[f + 1]
    BY <1>9
  <2> HIDE DEF g
  <2>5. Multiplies(1, x, g, y, g, high(f))
    BY <1>3, <2>1, <2>3, <2>4, ClmulMultiplies
  <2>6. Multiplies(1, xs, f, ys, f, middle(f))
    BY <1>3, <1>6, <1>9, <2>1, ClmulMultiplies
  <2>7. QED
    BY <2>2, <2>5, <2>6 DEF g
<1> HIDE DEF lq, hq, m
<1>11. /\ lh \in Registers(8) /\ \A j \in 0..8-1 : lh[j] = SymDiff(lq[j], hq[j])
  BY <1>3, <1>4, RegistersAdd
<1> HIDE DEF lh
<1>12. /\ abq \in Registers(8)
       /\ \A j \in 0..8-1 : abq[j] = SymDiff(lh[j], m[j])
  BY <1>3, <1>7, <1>11, RegistersAdd
<1> HIDE DEF abq
<1>13. /\ sw \in Registers(8)
       /\ Lanes8(sw, abq[1], abq[0], abq[3], abq[2], abq[5], abq[4], abq[7], abq[6])
  <2>1. \A j \in 0..7 : idx[j] \in 0..7
    BY <1>2 DEF Lanes8
  <2>2. sw = Vec!PERMXVAR_I64(idx, abq) /\ abq \in Registers(8)
    BY <1>12
  <2> HIDE DEF sw
  <2>3. sw \in Registers(8) /\ \A j \in 0..7 : sw[j] = abq[idx[j]]
    BY <2>1, <2>2, PermutedLanes
  <2>4. QED
    BY <1>2, <2>3 DEF Lanes8
<1> HIDE DEF sw
<1>14. /\ pl \in Registers(8)
       /\ \A j \in 0..7 : pl[j]
            = IF j \in {1, 3, 5, 7} THEN SymDiff(lq[j], sw[j])
                                                        ELSE lq[j]
       /\ ph \in Registers(8)
       /\ \A j \in 0..7 : ph[j]
            = IF j \in {0, 2, 4, 6} THEN SymDiff(hq[j], sw[j])
                                                        ELSE hq[j]
  BY <1>4, <1>13, MaskedSum
<1> HIDE DEF pl, ph
<1>15. ASSUME NEW f \in {0, 2, 4, 6}
       PROVE  Multiplies(2, x, f, y, f, Quad(p, f))
  <2> DEFINE g == f + 1
             r == Quad(p, f)
  <2>1. /\ f \in 0..7 /\ g \in 0..7 /\ f \in 0..8-1 /\ g \in 0..8-1
        /\ f \notin {1, 3, 5, 7} /\ g \in {1, 3, 5, 7} /\ g \notin {0, 2, 4, 6}
    OBVIOUS
  <2>2. sw[f] = abq[g] /\ sw[g] = abq[f]
    BY <1>13 DEF Lanes8
  <2>3. r[0] = pl[f] /\ r[1] = pl[g] /\ r[2] = ph[f] /\ r[3] = ph[g]
    BY <1>1, QuadIs
  <2> HIDE DEF r, g
  <2>4. /\ r[0] = lq[f]
        /\ r[1] = SymDiff(lq[g], SymDiff(SymDiff(lq[f], hq[f]), m[f]))
        /\ r[2] = SymDiff(hq[f], SymDiff(SymDiff(lq[g], hq[g]), m[g]))
        /\ r[3] = hq[g]
    BY <1>11, <1>12, <1>14, <2>1, <2>2, <2>3
  <2>5. /\ low(f)[0] = lq[f] /\ low(f)[1] = lq[g]
        /\ high(f)[0] = hq[f] /\ high(f)[1] = hq[g]
        /\ middle(f)[0] = m[f] /\ middle(f)[1] = m[g]
    BY <1>9 DEF g
  <2>6. LanesCombined(1, low(f), middle(f), high(f), r)
    <3> DEFINE va == lq[f]
               vb == lq[g]
               vc == hq[f]
               vd == hq[g]
               ve == m[f]
               vf == m[g]
               pp == low(f)
               qq == high(f)
               mm == middle(f)
    <3>1. /\ r[0] = va /\ r[1] = SymDiff(vb, SymDiff(SymDiff(va, vc), ve))
          /\ r[2] = SymDiff(vc, SymDiff(SymDiff(vb, vd), vf)) /\ r[3] = vd
      BY <2>4
    <3>2. /\ pp[0] = va /\ pp[1] = vb /\ qq[0] = vc /\ qq[1] = vd
          /\ mm[0] = ve /\ mm[1] = vf
      BY <2>5
    <3> HIDE DEF va, vb, vc, vd, ve, vf, pp, qq, mm
    <3>3. /\ r[1] = SymDiff(SymDiff(vb, vc), SymDiff(va, ve))
          /\ r[2] = SymDiff(SymDiff(vb, vc), SymDiff(vf, vd))
      BY <3>1 DEF SymDiff
    <3>4. LanesCombined(1, pp, mm, qq, r)
      BY <3>1, <3>2, <3>3 DEF LanesCombined
    <3>5. QED
      BY <3>4 DEF pp, mm, qq
  <2>7. HalvesSummed(1, x, f, xs, f) /\ HalvesSummed(1, y, f, ys, f)
    <3>1. xs[f] = SymDiff(x[f], x[f + 1]) /\ ys[f] = SymDiff(y[f], y[f + 1])
      BY <1>8
    <3>2. \A q \in 0..1-1 : f + q = f /\ (f + 1) + q = f + 1
      OBVIOUS
    <3>3. QED
      BY <3>1, <3>2 DEF HalvesSummed
  <2>8. 1 \in Nat /\ f \in Nat /\ 2 = 2 * 1
    OBVIOUS
  <2>9. Multiplies(2, x, f, y, f, r)
    <3>1. g = f + 1 /\ Multiplies(1, x, g, y, g, high(f))
      BY <1>10 DEF g
    <3>2. QED
      BY <1>10, <2>6, <2>7, <2>8, <3>1, LanesMultiply
  <2>10. QED
    BY <2>9 DEF r
<1>16. QED
  BY <1>1, <1>14, <1>15

(* The sums of four, in the order the registers have them. *)
LEMMA SumsOfFour ==
  ASSUME NEW u, NEW v, NEW w, NEW m
  PROVE  /\ SymDiff(v, SymDiff(SymDiff(u, w), m))
              = SymDiff(SymDiff(w, v), SymDiff(u, m))
         /\ SymDiff(w, SymDiff(SymDiff(u, v), m))
              = SymDiff(SymDiff(w, v), SymDiff(u, m))
         /\ SymDiff(w, SymDiff(SymDiff(v, u), m))
              = SymDiff(SymDiff(w, v), SymDiff(m, u))
         /\ SymDiff(v, SymDiff(SymDiff(w, u), m))
              = SymDiff(SymDiff(w, v), SymDiff(m, u))
BY DEF SymDiff

(* Three of the products of mul2_512 combined in a register. *)
LEMMA QuadsCombined ==
  ASSUME NEW p, NEW q, NEW f, NEW g, NEW e, NEW r,
         r[0] = p.l[f], r[1] = p.l[f + 1], r[6] = p.h[g], r[7] = p.h[g + 1],
         r[2] = SymDiff(SymDiff(p.h[f], p.l[g]), SymDiff(p.l[f], q.l[e])),
         r[3] = SymDiff(SymDiff(p.h[f + 1], p.l[g + 1]),
                        SymDiff(p.l[f + 1], q.l[e + 1])),
         r[4] = SymDiff(SymDiff(p.h[f], p.l[g]), SymDiff(q.h[e], p.h[g])),
         r[5] = SymDiff(SymDiff(p.h[f + 1], p.l[g + 1]),
                        SymDiff(q.h[e + 1], p.h[g + 1]))
  PROVE  LanesCombined(2, Quad(p, f), Quad(q, e), Quad(p, g), r)
<1> DEFINE p0 == Quad(p, f)
           p1 == Quad(p, g)
           m  == Quad(q, e)
<1>1. /\ p0[0] = p.l[f] /\ p0[1] = p.l[f + 1] /\ p0[2] = p.h[f]
      /\ p0[3] = p.h[f + 1]
      /\ p1[0] = p.l[g] /\ p1[1] = p.l[g + 1] /\ p1[2] = p.h[g]
      /\ p1[3] = p.h[g + 1]
      /\ m[0] = q.l[e] /\ m[1] = q.l[e + 1] /\ m[2] = q.h[e]
      /\ m[3] = q.h[e + 1]
  BY QuadIs
<1> HIDE DEF p0, p1, m
<1>2. /\ r[0] = p0[0] /\ r[1] = p0[1] /\ r[6] = p1[2] /\ r[7] = p1[3]
      /\ r[2] = SymDiff(SymDiff(p0[2], p1[0]), SymDiff(p0[0], m[0]))
      /\ r[3] = SymDiff(SymDiff(p0[3], p1[1]), SymDiff(p0[1], m[1]))
      /\ r[4] = SymDiff(SymDiff(p0[2], p1[0]), SymDiff(m[2], p1[2]))
      /\ r[5] = SymDiff(SymDiff(p0[3], p1[1]), SymDiff(m[3], p1[3]))
  BY <1>1
<1>3. LanesCombined(2, p0, m, p1, r)
  <2>1. /\ 2 + 0 = 2 /\ 2 + 1 = 3 /\ 2 * 2 + 0 = 4 /\ 2 * 2 + 1 = 5
        /\ 3 * 2 + 0 = 6 /\ 3 * 2 + 1 = 7
    OBVIOUS
  <2> DEFINE G(k) == /\ r[k] = p0[k]
                     /\ r[2 + k] = SymDiff(SymDiff(p0[2 + k], p1[k]), SymDiff(p0[k], m[k]))
                     /\ r[2 * 2 + k] = SymDiff(SymDiff(p0[2 + k], p1[k]),
                                               SymDiff(m[2 + k], p1[2 + k]))
                     /\ r[3 * 2 + k] = p1[2 + k]
  <2>2. G(0)
    BY <1>2, <2>1
  <2>3. G(1)
    BY <1>2, <2>1
  <2> HIDE DEF G
  <2>4. \A k \in 0..2-1 : G(k)
    BY <2>2, <2>3
  <2>5. QED
    BY <2>4 DEF G, LanesCombined
<1>4. QED
  BY <1>3 DEF p0, p1, m

(* The sums of two pairs of lanes that gf2x_mul8_512_int multiplies, and   *)
(* the sums of all four.                                                   *)
LEMMA PairSums ==
  ASSUME NEW x \in Registers(8), NEW s,
         s = Vec!(+)(Vec!PERMXVAR_I64(Vec!SET_I64(<<7, 6, 5, 4, 1, 0, 3, 2>>), x),
                     Vec!PERMXVAR_I64(Vec!SET_I64(<<3, 2, 7, 6, 5, 4, 1, 0>>), x)),
         NEW d, d = Vec!(+)(s, Vec!VALIGN(s, 4))
  PROVE  /\ s \in Registers(8) /\ d \in Registers(8)
         /\ Lanes8(s, SymDiff(x[0], x[2]), SymDiff(x[1], x[3]),
                      SymDiff(x[0], x[4]), SymDiff(x[1], x[5]),
                      SymDiff(x[4], x[6]), SymDiff(x[5], x[7]),
                      SymDiff(x[2], x[6]), SymDiff(x[3], x[7]))
         /\ d[4] = SymDiff(SymDiff(x[0], x[4]), SymDiff(x[2], x[6]))
         /\ d[5] = SymDiff(SymDiff(x[1], x[5]), SymDiff(x[3], x[7]))
<1> DEFINE i1 == Vec!SET_I64(<<7, 6, 5, 4, 1, 0, 3, 2>>)
           i2 == Vec!SET_I64(<<3, 2, 7, 6, 5, 4, 1, 0>>)
           u1 == Vec!PERMXVAR_I64(i1, x)
           u2 == Vec!PERMXVAR_I64(i2, x)
           v  == Vec!VALIGN(s, 4)
<1>1. s = Vec!(+)(u1, u2) /\ d = Vec!(+)(s, v)
  OBVIOUS
<1>2. Lanes8(i1, 2, 3, 0, 1, 4, 5, 6, 7) /\ Lanes8(i2, 0, 1, 4, 5, 6, 7, 2, 3)
  BY SetLanes
<1> HIDE DEF i1, i2
<1>3. \A j \in 0..7 : i1[j] \in 0..7 /\ i2[j] \in 0..7
  BY <1>2 DEF Lanes8
<1>4. /\ u1 \in Registers(8) /\ \A j \in 0..7 : u1[j] = x[i1[j]]
      /\ u2 \in Registers(8) /\ \A j \in 0..7 : u2[j] = x[i2[j]]
  BY <1>3, PermutedLanes
<1> HIDE DEF u1, u2
<1>5. /\ Lanes8(u1, x[2], x[3], x[0], x[1], x[4], x[5], x[6], x[7])
      /\ Lanes8(u2, x[0], x[1], x[4], x[5], x[6], x[7], x[2], x[3])
  BY <1>2, <1>4 DEF Lanes8
<1>6. s \in Registers(8) /\ \A j \in 0..8-1 : s[j] = SymDiff(u1[j], u2[j])
  BY ONLY <1>1, <1>4, RegistersAdd
<1>7. \A t1, t2 : SymDiff(t1, t2) = SymDiff(t2, t1)
  BY DEF SymDiff
<1>8. Lanes8(s, SymDiff(x[0], x[2]), SymDiff(x[1], x[3]),
                SymDiff(x[0], x[4]), SymDiff(x[1], x[5]),
                SymDiff(x[4], x[6]), SymDiff(x[5], x[7]),
                SymDiff(x[2], x[6]), SymDiff(x[3], x[7]))
  BY ONLY <1>5, <1>6, <1>7 DEF Lanes8
<1>9. v \in Registers(8) /\ \A j \in 0..7 : v[j] = s[(j + 4) % 8]
  BY ONLY <1>6, AlignedLanes
<1> HIDE DEF v
<1>10. d \in Registers(8) /\ \A j \in 0..8-1 : d[j] = SymDiff(s[j], v[j])
  BY ONLY <1>1, <1>6, <1>9, RegistersAdd
<1>11. v[4] = s[0] /\ v[5] = s[1]
  BY ONLY <1>9
<1>12. d[4] = SymDiff(s[4], s[0]) /\ d[5] = SymDiff(s[5], s[1])
  BY ONLY <1>10, <1>11
<1>13. ASSUME NEW t0, NEW t2, NEW t4, NEW t6
       PROVE  SymDiff(SymDiff(t4, t6), SymDiff(t0, t2))
                = SymDiff(SymDiff(t0, t4), SymDiff(t2, t6))
  BY DEF SymDiff
<1>14. /\ d[4] = SymDiff(SymDiff(x[4], x[6]), SymDiff(x[0], x[2]))
       /\ d[5] = SymDiff(SymDiff(x[5], x[7]), SymDiff(x[1], x[3]))
  BY ONLY <1>8, <1>12 DEF Lanes8
<1>15. /\ d[4] = SymDiff(SymDiff(x[0], x[4]), SymDiff(x[2], x[6]))
       /\ d[5] = SymDiff(SymDiff(x[1], x[5]), SymDiff(x[3], x[7]))
  BY ONLY <1>13, <1>14
<1>16. QED
  BY ONLY <1>6, <1>8, <1>10, <1>15

(* gf2x_mul8_512_int, from what mul2_512 returns to the two registers of   *)
(* the result: xl, xh and so on are halves of products, as registers.      *)
(* The product of the low, or the high, four lanes.                        *)
LEMMA FourLanesStored ==
  ASSUME NEW p, p.l \in Registers(8), p.h \in Registers(8),
         NEW q, q.l \in Registers(8), q.h \in Registers(8),
         NEW xab, xab = Vec!(+)(Vec!(+)(p.l, p.h),
                          Vec!PERMX2VAR_I64(q.l,
                            Vec!SET_I64(<<13, 12, 5, 4, 9, 8, 1, 0>>), q.h)),
         NEW yl, yl = Vec!MXOR_I64(
                        Vec!PERMX2VAR_I64(p.l,
                          Vec!SET_I64(<<11, 10, 9, 8, 3, 2, 1, 0>>), p.h),
                        2..5, Vec!VALIGN(xab, 6)),
         NEW yh, yh = Vec!MXOR_I64(
                        Vec!PERMX2VAR_I64(p.l,
                          Vec!SET_I64(<<15, 14, 13, 12, 7, 6, 5, 4>>), p.h),
                        2..5, Vec!VALIGN(xab, 2))
  PROVE  /\ yl \in Registers(8) /\ yh \in Registers(8)
         /\ LanesCombined(2, Quad(p, 0), Quad(q, 0), Quad(p, 2), yl)
         /\ LanesCombined(2, Quad(p, 4), Quad(q, 4), Quad(p, 6), yh)
<1> DEFINE i0 == Vec!SET_I64(<<13, 12, 5, 4, 9, 8, 1, 0>>)
           i3 == Vec!SET_I64(<<11, 10, 9, 8, 3, 2, 1, 0>>)
           i4 == Vec!SET_I64(<<15, 14, 13, 12, 7, 6, 5, 4>>)
           xl == p.l
           xh == p.h
           ql == q.l
           qh == q.h
           lh == Vec!(+)(xl, xh)
           c0 == Vec!PERMX2VAR_I64(ql, i0, qh)
           e3 == Vec!PERMX2VAR_I64(xl, i3, xh)
           e4 == Vec!PERMX2VAR_I64(xl, i4, xh)
           x1 == Vec!VALIGN(xab, 6)
           x2 == Vec!VALIGN(xab, 2)
<1>1. /\ xl \in Registers(8) /\ xh \in Registers(8)
      /\ ql \in Registers(8) /\ qh \in Registers(8)
      /\ xab = Vec!(+)(lh, c0)
      /\ yl = Vec!MXOR_I64(e3, 2..5, x1) /\ yh = Vec!MXOR_I64(e4, 2..5, x2)
  OBVIOUS
<1>2. /\ Lanes8(i0, 0, 1, 8, 9, 4, 5, 12, 13)
      /\ Lanes8(i3, 0, 1, 2, 3, 8, 9, 10, 11)
      /\ Lanes8(i4, 4, 5, 6, 7, 12, 13, 14, 15)
  BY SetLanes
<1> HIDE DEF i0, i3, i4, xl, xh, ql, qh
<1>3. \A j \in 0..7 : i0[j] \in 0..15 /\ i3[j] \in 0..15 /\ i4[j] \in 0..15
  BY <1>2 DEF Lanes8
<1>4. /\ c0 \in Registers(8)
      /\ \A j \in 0..7 : c0[j] = Chosen(ql, i0[j], qh)
  <2>1. c0 = Vec!PERMX2VAR_I64(ql, i0, qh)
    OBVIOUS
  <2>2. \A j \in 0..7 : i0[j] \in 0..15
    BY <1>3
  <2> HIDE DEF c0
  <2>3. QED
    BY ONLY <1>1, <2>1, <2>2, ChosenLanes
<1>5. /\ e3 \in Registers(8)
      /\ \A j \in 0..7 : e3[j] = Chosen(xl, i3[j], xh)
  <2>1. e3 = Vec!PERMX2VAR_I64(xl, i3, xh)
    OBVIOUS
  <2>2. \A j \in 0..7 : i3[j] \in 0..15
    BY <1>3
  <2> HIDE DEF e3
  <2>3. QED
    BY ONLY <1>1, <2>1, <2>2, ChosenLanes
<1>6. /\ e4 \in Registers(8)
      /\ \A j \in 0..7 : e4[j] = Chosen(xl, i4[j], xh)
  <2>1. e4 = Vec!PERMX2VAR_I64(xl, i4, xh)
    OBVIOUS
  <2>2. \A j \in 0..7 : i4[j] \in 0..15
    BY <1>3
  <2> HIDE DEF e4
  <2>3. QED
    BY ONLY <1>1, <2>1, <2>2, ChosenLanes
<1> HIDE DEF c0, e3, e4
<1>7. Lanes8(c0, ql[0], ql[1], qh[0], qh[1], ql[4], ql[5], qh[4], qh[5])
  BY ONLY <1>2, <1>4 DEF Lanes8, Chosen
<1>8. Lanes8(e3, xl[0], xl[1], xl[2], xl[3], xh[0], xh[1], xh[2], xh[3])
  BY ONLY <1>2, <1>5 DEF Lanes8, Chosen
<1>9. Lanes8(e4, xl[4], xl[5], xl[6], xl[7], xh[4], xh[5], xh[6], xh[7])
  BY ONLY <1>2, <1>6 DEF Lanes8, Chosen
<1>10. lh \in Registers(8) /\ \A j \in 0..8-1 : lh[j] = SymDiff(xl[j], xh[j])
  BY ONLY <1>1, RegistersAdd
<1> HIDE DEF lh
<1>11. xab \in Registers(8) /\ \A j \in 0..8-1 : xab[j] = SymDiff(lh[j], c0[j])
  BY ONLY <1>1, <1>4, <1>10, RegistersAdd
<1>12. x1 \in Registers(8) /\ \A j \in 0..7 : x1[j] = xab[(j + 6) % 8]
  BY ONLY <1>11, AlignedLanes
<1>13. x2 \in Registers(8) /\ \A j \in 0..7 : x2[j] = xab[(j + 2) % 8]
  BY ONLY <1>11, AlignedLanes
<1> HIDE DEF x1, x2
<1>14. /\ x1[2] = xab[0] /\ x1[3] = xab[1] /\ x1[4] = xab[2] /\ x1[5] = xab[3]
       /\ x2[2] = xab[4] /\ x2[3] = xab[5] /\ x2[4] = xab[6] /\ x2[5] = xab[7]
  BY ONLY <1>12, <1>13
<1>15. yl \in Registers(8)
       /\ \A j \in 0..7 : yl[j]
            = IF j \in 2..5 THEN SymDiff(e3[j], x1[j]) ELSE e3[j]
  BY ONLY <1>1, <1>5, <1>12, MaskedSum
<1>16. yh \in Registers(8)
       /\ \A j \in 0..7 : yh[j]
            = IF j \in 2..5 THEN SymDiff(e4[j], x2[j]) ELSE e4[j]
  BY ONLY <1>1, <1>6, <1>13, MaskedSum
<1> DEFINE S(j) == SymDiff(SymDiff(xl[j], xh[j]), c0[j])
<1>17. /\ xab[0] = S(0) /\ xab[1] = S(1) /\ xab[2] = S(2) /\ xab[3] = S(3)
       /\ xab[4] = S(4) /\ xab[5] = S(5) /\ xab[6] = S(6) /\ xab[7] = S(7)
  BY ONLY <1>10, <1>11
<1> HIDE DEF S
<1>18. Lanes8(yl, e3[0], e3[1], SymDiff(e3[2], S(0)), SymDiff(e3[3], S(1)),
              SymDiff(e3[4], S(2)), SymDiff(e3[5], S(3)), e3[6], e3[7])
  BY ONLY <1>14, <1>15, <1>17 DEF Lanes8
<1>19. Lanes8(yh, e4[0], e4[1], SymDiff(e4[2], S(4)), SymDiff(e4[3], S(5)),
              SymDiff(e4[4], S(6)), SymDiff(e4[5], S(7)), e4[6], e4[7])
  BY ONLY <1>14, <1>16, <1>17 DEF Lanes8
<1>20. Lanes8(yl, xl[0], xl[1],
              SymDiff(xl[2], SymDiff(SymDiff(xl[0], xh[0]), ql[0])),
              SymDiff(xl[3], SymDiff(SymDiff(xl[1], xh[1]), ql[1])),
              SymDiff(xh[0], SymDiff(SymDiff(xl[2], xh[2]), qh[0])),
              SymDiff(xh[1], SymDiff(SymDiff(xl[3], xh[3]), qh[1])), xh[2], xh[3])
  BY ONLY <1>7, <1>8, <1>18 DEF Lanes8, S
<1>21. Lanes8(yh, xl[4], xl[5],
              SymDiff(xl[6], SymDiff(SymDiff(xl[4], xh[4]), ql[4])),
              SymDiff(xl[7], SymDiff(SymDiff(xl[5], xh[5]), ql[5])),
              SymDiff(xh[4], SymDiff(SymDiff(xl[6], xh[6]), qh[4])),
              SymDiff(xh[5], SymDiff(SymDiff(xl[7], xh[7]), qh[5])), xh[6], xh[7])
  BY ONLY <1>7, <1>9, <1>19 DEF Lanes8, S
<1>22. LanesCombined(2, Quad(p, 0), Quad(q, 0), Quad(p, 2), yl)
  <2>1. /\ yl[2] = SymDiff(SymDiff(xh[0], xl[2]), SymDiff(xl[0], ql[0]))
        /\ yl[3] = SymDiff(SymDiff(xh[1], xl[3]), SymDiff(xl[1], ql[1]))
        /\ yl[4] = SymDiff(SymDiff(xh[0], xl[2]), SymDiff(qh[0], xh[2]))
        /\ yl[5] = SymDiff(SymDiff(xh[1], xl[3]), SymDiff(qh[1], xh[3]))
    BY ONLY <1>20, SumsOfFour DEF Lanes8
  <2>2. /\ 0 + 1 = 1 /\ 2 + 1 = 3
        /\ yl[0] = xl[0] /\ yl[1] = xl[1] /\ yl[6] = xh[2] /\ yl[7] = xh[3]
    BY ONLY <1>20 DEF Lanes8
  <2>3. QED
    BY ONLY <2>1, <2>2, QuadsCombined DEF xl, xh, ql, qh
<1>23. LanesCombined(2, Quad(p, 4), Quad(q, 4), Quad(p, 6), yh)
  <2>1. /\ yh[2] = SymDiff(SymDiff(xh[4], xl[6]), SymDiff(xl[4], ql[4]))
        /\ yh[3] = SymDiff(SymDiff(xh[5], xl[7]), SymDiff(xl[5], ql[5]))
        /\ yh[4] = SymDiff(SymDiff(xh[4], xl[6]), SymDiff(qh[4], xh[6]))
        /\ yh[5] = SymDiff(SymDiff(xh[5], xl[7]), SymDiff(qh[5], xh[7]))
    BY ONLY <1>21, SumsOfFour DEF Lanes8
  <2>2. /\ 4 + 1 = 5 /\ 6 + 1 = 7
        /\ yh[0] = xl[4] /\ yh[1] = xl[5] /\ yh[6] = xh[6] /\ yh[7] = xh[7]
    BY ONLY <1>21 DEF Lanes8
  <2>3. QED
    BY ONLY <2>1, <2>2, QuadsCombined DEF xl, xh, ql, qh
<1>24. QED
  BY ONLY <1>15, <1>16, <1>22, <1>23

(* And the product of the sums of the two. *)
LEMMA MiddleLanesStored ==
  ASSUME NEW q, q.l \in Registers(8), q.h \in Registers(8),
         NEW p, p.l \in Registers(8), p.h \in Registers(8),
         NEW oxh, oxh = Vec!PERMX2VAR_I64(q.l,
                          Vec!SET_I64(<<15, 14, 7, 6, 11, 10, 3, 2>>), q.h),
         NEW yab, yab = Vec!(+)(Vec!(+)(Vec!VALIGN(oxh, 4), oxh),
                          Vec!PERMX2VAR_I64(p.l,
                            Vec!SET_I64(<<13, 12, 5, 4, 9, 8, 1, 0>>), p.h)),
         NEW w, w = Vec!MXOR_I64(oxh, 2..5, Vec!VALIGN(yab, 2))
  PROVE  /\ w \in Registers(8)
         /\ LanesCombined(2, Quad(q, 2), Quad(p, 4), Quad(q, 6), w)
<1> DEFINE i0 == Vec!SET_I64(<<13, 12, 5, 4, 9, 8, 1, 0>>)
           i1 == Vec!SET_I64(<<15, 14, 7, 6, 11, 10, 3, 2>>)
           ql == q.l
           qh == q.h
           pl == p.l
           ph == p.h
           oxl == Vec!VALIGN(oxh, 4)
           lh == Vec!(+)(oxl, oxh)
           c0 == Vec!PERMX2VAR_I64(pl, i0, ph)
           y2 == Vec!VALIGN(yab, 2)
<1>1. /\ ql \in Registers(8) /\ qh \in Registers(8)
      /\ pl \in Registers(8) /\ ph \in Registers(8)
      /\ oxh = Vec!PERMX2VAR_I64(ql, i1, qh)
      /\ yab = Vec!(+)(lh, c0) /\ w = Vec!MXOR_I64(oxh, 2..5, y2)
  OBVIOUS
<1>2. /\ Lanes8(i0, 0, 1, 8, 9, 4, 5, 12, 13)
      /\ Lanes8(i1, 2, 3, 10, 11, 6, 7, 14, 15)
  BY SetLanes
<1> HIDE DEF i0, i1, ql, qh, pl, ph
<1>3. \A j \in 0..7 : i0[j] \in 0..15 /\ i1[j] \in 0..15
  BY <1>2 DEF Lanes8
<1>4. /\ c0 \in Registers(8)
      /\ \A j \in 0..7 : c0[j] = Chosen(pl, i0[j], ph)
  <2>1. c0 = Vec!PERMX2VAR_I64(pl, i0, ph)
    OBVIOUS
  <2>2. \A j \in 0..7 : i0[j] \in 0..15
    BY <1>3
  <2> HIDE DEF c0
  <2>3. QED
    BY ONLY <1>1, <2>1, <2>2, ChosenLanes
<1>5. /\ oxh \in Registers(8)
      /\ \A j \in 0..7 : oxh[j] = Chosen(ql, i1[j], qh)
  <2>1. oxh = Vec!PERMX2VAR_I64(ql, i1, qh)
    BY <1>1
  <2>2. \A j \in 0..7 : i1[j] \in 0..15
    BY <1>3
  <2>3. QED
    BY ONLY <1>1, <2>1, <2>2, ChosenLanes
<1> HIDE DEF c0
<1>6. c0[4] = pl[4] /\ c0[5] = pl[5] /\ c0[6] = ph[4] /\ c0[7] = ph[5]
  BY ONLY <1>2, <1>4 DEF Lanes8, Chosen
<1>7. Lanes8(oxh, ql[2], ql[3], qh[2], qh[3], ql[6], ql[7], qh[6], qh[7])
  BY ONLY <1>2, <1>5 DEF Lanes8, Chosen
<1>8. oxl \in Registers(8) /\ \A j \in 0..7 : oxl[j] = oxh[(j + 4) % 8]
  BY ONLY <1>5, AlignedLanes
<1> HIDE DEF oxl
<1>9. oxl[4] = oxh[0] /\ oxl[5] = oxh[1] /\ oxl[6] = oxh[2] /\ oxl[7] = oxh[3]
  BY ONLY <1>8
<1>10. lh \in Registers(8) /\ \A j \in 0..8-1 : lh[j] = SymDiff(oxl[j], oxh[j])
  BY ONLY <1>5, <1>8, RegistersAdd
<1> HIDE DEF lh
<1>11. yab \in Registers(8) /\ \A j \in 0..8-1 : yab[j] = SymDiff(lh[j], c0[j])
  BY ONLY <1>1, <1>4, <1>10, RegistersAdd
<1>12. y2 \in Registers(8) /\ \A j \in 0..7 : y2[j] = yab[(j + 2) % 8]
  BY ONLY <1>11, AlignedLanes
<1> HIDE DEF y2
<1>13. y2[2] = yab[4] /\ y2[3] = yab[5] /\ y2[4] = yab[6] /\ y2[5] = yab[7]
  BY ONLY <1>12
<1>14. w \in Registers(8)
       /\ \A j \in 0..7 : w[j]
            = IF j \in 2..5 THEN SymDiff(oxh[j], y2[j]) ELSE oxh[j]
  BY ONLY <1>1, <1>5, <1>12, MaskedSum
<1> DEFINE S(j) == SymDiff(SymDiff(oxl[j], oxh[j]), c0[j])
<1>15. yab[4] = S(4) /\ yab[5] = S(5) /\ yab[6] = S(6) /\ yab[7] = S(7)
  BY ONLY <1>10, <1>11
<1> HIDE DEF S
<1>16. Lanes8(w, oxh[0], oxh[1], SymDiff(oxh[2], S(4)), SymDiff(oxh[3], S(5)),
              SymDiff(oxh[4], S(6)), SymDiff(oxh[5], S(7)), oxh[6], oxh[7])
  BY ONLY <1>13, <1>14, <1>15 DEF Lanes8
<1>17. Lanes8(w, ql[2], ql[3],
              SymDiff(qh[2], SymDiff(SymDiff(ql[2], ql[6]), pl[4])),
              SymDiff(qh[3], SymDiff(SymDiff(ql[3], ql[7]), pl[5])),
              SymDiff(ql[6], SymDiff(SymDiff(qh[2], qh[6]), ph[4])),
              SymDiff(ql[7], SymDiff(SymDiff(qh[3], qh[7]), ph[5])), qh[6], qh[7])
  BY ONLY <1>6, <1>7, <1>9, <1>16 DEF Lanes8, S
<1>18. LanesCombined(2, Quad(q, 2), Quad(p, 4), Quad(q, 6), w)
  <2>1. /\ w[2] = SymDiff(SymDiff(qh[2], ql[6]), SymDiff(ql[2], pl[4]))
        /\ w[3] = SymDiff(SymDiff(qh[3], ql[7]), SymDiff(ql[3], pl[5]))
        /\ w[4] = SymDiff(SymDiff(qh[2], ql[6]), SymDiff(ph[4], qh[6]))
        /\ w[5] = SymDiff(SymDiff(qh[3], ql[7]), SymDiff(ph[5], qh[7]))
    BY ONLY <1>17, SumsOfFour DEF Lanes8
  <2>2. /\ 2 + 1 = 3 /\ 4 + 1 = 5 /\ 6 + 1 = 7
        /\ w[0] = ql[2] /\ w[1] = ql[3] /\ w[6] = qh[6] /\ w[7] = qh[7]
    BY ONLY <1>17 DEF Lanes8
  <2>3. QED
    BY ONLY <2>1, <2>2, QuadsCombined DEF ql, qh, pl, ph
<1>19. QED
  BY ONLY <1>14, <1>18

(* gf2x_mul8_512_int multiplies. *)
LEMMA Mul8Multiplies ==
  ASSUME NEW x \in Registers(8), NEW y \in Registers(8), NEW r,
         r = Vec!Mul8(x, y)
  PROVE  r \in Registers(16) /\ Multiplies(8, x, 0, y, 0, r)
<1> DEFINE m0 == Vec!SET_I64(<<13, 12, 5, 4, 9, 8, 1, 0>>)
           m1 == Vec!SET_I64(<<15, 14, 7, 6, 11, 10, 3, 2>>)
           m2 == Vec!SET_I64(<<3, 2, 1, 0, 7, 6, 5, 4>>)
           m3 == Vec!SET_I64(<<11, 10, 9, 8, 3, 2, 1, 0>>)
           m4 == Vec!SET_I64(<<15, 14, 13, 12, 7, 6, 5, 4>>)
           s1 == Vec!SET_I64(<<7, 6, 5, 4, 1, 0, 3, 2>>)
           s2 == Vec!SET_I64(<<3, 2, 7, 6, 5, 4, 1, 0>>)
           sx == Vec!(+)(Vec!PERMXVAR_I64(s1, x), Vec!PERMXVAR_I64(s2, x))
           sy == Vec!(+)(Vec!PERMXVAR_I64(s1, y), Vec!PERMXVAR_I64(s2, y))
           dx == Vec!(+)(sx, Vec!VALIGN(sx, 4))
           dy == Vec!(+)(sy, Vec!VALIGN(sy, 4))
           p == Vec!Mul2(x, y)
           q == Vec!Mul2(sx, sy)
           d == Vec!Mul2(dx, dy)
           xab == Vec!(+)(Vec!(+)(p.l, p.h), Vec!PERMX2VAR_I64(q.l, m0, q.h))
           yl == Vec!MXOR_I64(Vec!PERMX2VAR_I64(p.l, m3, p.h), 2..5,
                              Vec!VALIGN(xab, 6))
           yh == Vec!MXOR_I64(Vec!PERMX2VAR_I64(p.l, m4, p.h), 2..5,
                              Vec!VALIGN(xab, 2))
           oxh == Vec!PERMX2VAR_I64(q.l, m1, q.h)
           yab == Vec!(+)(Vec!(+)(Vec!VALIGN(oxh, 4), oxh),
                          Vec!PERMX2VAR_I64(d.l, m0, d.h))
           w  == Vec!MXOR_I64(oxh, 2..5, Vec!VALIGN(yab, 2))
           wl == Vec!(+)(w, yl)
           z1 == Vec!(+)(wl, yh)
           z  == Vec!PERMXVAR_I64(m2, z1)
           lower  == Vec!MXOR_I64(yl, 4..7, z)
           higher == Vec!MXOR_I64(yh, 0..3, z)
<1>1. r = Vec!Joined(lower, higher)
  BY DEF Vec!Mul8
<1>2. /\ sx \in Registers(8) /\ dx \in Registers(8)
      /\ Lanes8(sx, SymDiff(x[0], x[2]), SymDiff(x[1], x[3]),
                    SymDiff(x[0], x[4]), SymDiff(x[1], x[5]),
                    SymDiff(x[4], x[6]), SymDiff(x[5], x[7]),
                    SymDiff(x[2], x[6]), SymDiff(x[3], x[7]))
      /\ dx[4] = SymDiff(SymDiff(x[0], x[4]), SymDiff(x[2], x[6]))
      /\ dx[5] = SymDiff(SymDiff(x[1], x[5]), SymDiff(x[3], x[7]))
  BY PairSums
<1>3. /\ sy \in Registers(8) /\ dy \in Registers(8)
      /\ Lanes8(sy, SymDiff(y[0], y[2]), SymDiff(y[1], y[3]),
                    SymDiff(y[0], y[4]), SymDiff(y[1], y[5]),
                    SymDiff(y[4], y[6]), SymDiff(y[5], y[7]),
                    SymDiff(y[2], y[6]), SymDiff(y[3], y[7]))
      /\ dy[4] = SymDiff(SymDiff(y[0], y[4]), SymDiff(y[2], y[6]))
      /\ dy[5] = SymDiff(SymDiff(y[1], y[5]), SymDiff(y[3], y[7]))
  BY PairSums
<1> HIDE DEF sx, sy, dx, dy
<1>4. /\ p.l \in Registers(8) /\ p.h \in Registers(8)
      /\ \A f \in {0, 2, 4, 6} : Multiplies(2, x, f, y, f, Quad(p, f))
  BY Mul2Multiplies
<1>5. /\ q.l \in Registers(8) /\ q.h \in Registers(8)
      /\ \A f \in {0, 2, 4, 6} : Multiplies(2, sx, f, sy, f, Quad(q, f))
  BY <1>2, <1>3, Mul2Multiplies
<1>6. /\ d.l \in Registers(8) /\ d.h \in Registers(8)
      /\ \A f \in {0, 2, 4, 6} : Multiplies(2, dx, f, dy, f, Quad(d, f))
  BY <1>2, <1>3, Mul2Multiplies
<1> HIDE DEF p, q, d
<1>7. /\ yl \in Registers(8) /\ yh \in Registers(8)
      /\ LanesCombined(2, Quad(p, 0), Quad(q, 0), Quad(p, 2), yl)
      /\ LanesCombined(2, Quad(p, 4), Quad(q, 4), Quad(p, 6), yh)
  BY <1>4, <1>5, FourLanesStored
<1>8. /\ w \in Registers(8)
      /\ LanesCombined(2, Quad(q, 2), Quad(d, 4), Quad(q, 6), w)
  BY <1>5, <1>6, MiddleLanesStored
<1> HIDE DEF xab, yl, yh, oxh, yab, w
<1>9. Lanes8(m2, 4, 5, 6, 7, 0, 1, 2, 3)
  BY SetLanes
<1> HIDE DEF m0, m1, m2, m3, m4, s1, s2
<1>10. wl \in Registers(8) /\ \A j \in 0..8-1 : wl[j] = SymDiff(w[j], yl[j])
  BY ONLY <1>7, <1>8, RegistersAdd
<1> HIDE DEF wl
<1>11. z1 \in Registers(8) /\ \A j \in 0..8-1 : z1[j] = SymDiff(wl[j], yh[j])
  BY ONLY <1>7, <1>10, RegistersAdd
<1> HIDE DEF z1
<1>12. z \in Registers(8) /\ \A j \in 0..7 : z[j] = z1[m2[j]]
  <2>1. \A j \in 0..7 : m2[j] \in 0..7
    BY ONLY <1>9 DEF Lanes8
  <2>2. z = Vec!PERMXVAR_I64(m2, z1)
    OBVIOUS
  <2> HIDE DEF z
  <2>3. QED
    BY ONLY <1>11, <2>1, <2>2, PermutedLanes
<1> HIDE DEF z
<1>13. lower \in Registers(8)
       /\ \A j \in 0..7 : lower[j]
            = IF j \in 4..7 THEN SymDiff(yl[j], z[j]) ELSE yl[j]
  BY ONLY <1>7, <1>12, MaskedSum
<1>14. higher \in Registers(8)
       /\ \A j \in 0..7 : higher[j]
            = IF j \in 0..3 THEN SymDiff(yh[j], z[j]) ELSE yh[j]
  BY ONLY <1>7, <1>12, MaskedSum
<1> HIDE DEF lower, higher
<1>15. /\ r \in Registers(16)
       /\ \A j \in 0..8-1 : r[j] = lower[j]
       /\ \A j \in 0..8-1 : r[8 + j] = higher[j]
  <2>1. 8 \in Nat /\ 16 = 8 + 8
    OBVIOUS
  <2>2. lower \in Registers(8) /\ higher \in Registers(8)
    BY ONLY <1>13, <1>14
  <2> DEFINE j8 == Vec!Joined(lower, higher)
  <2>3. /\ j8 \in Registers(16)
        /\ \A j \in 0..8-1 : j8[j] = lower[j]
        /\ \A j \in 0..8-1 : j8[8 + j] = higher[j]
    BY ONLY <2>1, <2>2, JoinedIs
  <2>4. QED
    BY <1>1, <2>3
<1>16. LanesCombined(4, yl, w, yh, r)
  <2>1. ASSUME NEW j \in 0..3
        PROVE  /\ z[4 + j] = SymDiff(SymDiff(w[j], yl[j]), yh[j])
               /\ z[j] = SymDiff(SymDiff(w[4 + j], yl[4 + j]), yh[4 + j])
    <3>1. m2[4 + j] = j /\ m2[j] = 4 + j
      BY ONLY <1>9, j \in 0..3 DEF Lanes8
    <3>2. j \in 0..7 /\ 4 + j \in 0..7 /\ j \in 0..8-1 /\ 4 + j \in 0..8-1
      OBVIOUS
    <3>3. z[4 + j] = z1[j] /\ z[j] = z1[4 + j]
      BY ONLY <1>12, <3>1, <3>2
    <3>4. QED
      BY ONLY <1>10, <1>11, <3>2, <3>3
  <2>2. ASSUME NEW j \in 0..3
        PROVE  /\ r[j] = yl[j]
               /\ r[4 + j]
                    = SymDiff(yl[4 + j], SymDiff(SymDiff(w[j], yl[j]), yh[j]))
               /\ r[8 + j]
                    = SymDiff(yh[j], SymDiff(SymDiff(w[4 + j], yl[4 + j]),
                                                    yh[4 + j]))
               /\ r[12 + j] = yh[4 + j]
    <3>1. /\ j \in 0..7 /\ 4 + j \in 0..7 /\ j \in 0..8-1 /\ 4 + j \in 0..8-1
          /\ 8 + (4 + j) = 12 + j /\ j \notin 4..7 /\ 4 + j \in 4..7
          /\ 4 + j \notin 0..3
      OBVIOUS
    <3>2. r[j] = lower[j] /\ r[4 + j] = lower[4 + j]
      BY ONLY <1>15, <3>1
    <3>3. r[8 + j] = higher[j] /\ r[12 + j] = higher[4 + j]
      BY ONLY <1>15, <3>1
    <3>4. lower[j] = yl[j] /\ lower[4 + j] = SymDiff(yl[4 + j], z[4 + j])
      BY ONLY <1>13, <3>1
    <3>5. higher[j] = SymDiff(yh[j], z[j]) /\ higher[4 + j] = yh[4 + j]
      BY ONLY <1>14, <3>1, j \in 0..3
    <3>6. QED
      BY ONLY <2>1, j \in 0..3, <3>2, <3>3, <3>4, <3>5
  <2>3. ASSUME NEW u, NEW v, NEW u1, NEW v1, NEW n0, NEW n1
        PROVE  /\ SymDiff(u1, SymDiff(SymDiff(n0, u), v))
                    = SymDiff(SymDiff(u1, v), SymDiff(u, n0))
               /\ SymDiff(v, SymDiff(SymDiff(n1, u1), v1))
                    = SymDiff(SymDiff(u1, v), SymDiff(n1, v1))
    BY DEF SymDiff
  <2>4. ASSUME NEW j \in 0..4-1
        PROVE  /\ r[j] = yl[j]
               /\ r[4 + j]
                    = SymDiff(SymDiff(yl[4 + j], yh[j]), SymDiff(yl[j], w[j]))
               /\ r[2 * 4 + j] = SymDiff(SymDiff(yl[4 + j], yh[j]),
                                         SymDiff(w[4 + j], yh[4 + j]))
               /\ r[3 * 4 + j] = yh[4 + j]
    <3>1. j \in 0..3 /\ 2 * 4 + j = 8 + j /\ 3 * 4 + j = 12 + j
      OBVIOUS
    <3>2. QED
      BY ONLY <2>2, <2>3, <3>1
  <2>5. QED
    BY ONLY <2>4 DEF LanesCombined
<1> DEFINE xs == [j \in 0..3 |-> SymDiff(x[j], x[4 + j])]
           ys == [j \in 0..3 |-> SymDiff(y[j], y[4 + j])]
<1>17. ASSUME NEW j \in 0..3
       PROVE  xs[j] = SymDiff(x[j], x[4 + j]) /\ ys[j] = SymDiff(y[j], y[4 + j])
  OBVIOUS
<1> HIDE DEF xs, ys
<1>18. /\ xs[0] = SymDiff(x[0], x[4]) /\ xs[1] = SymDiff(x[1], x[5])
       /\ xs[2] = SymDiff(x[2], x[6]) /\ xs[3] = SymDiff(x[3], x[7])
       /\ ys[0] = SymDiff(y[0], y[4]) /\ ys[1] = SymDiff(y[1], y[5])
       /\ ys[2] = SymDiff(y[2], y[6]) /\ ys[3] = SymDiff(y[3], y[7])
  BY ONLY <1>17
<1>19. Multiplies(4, x, 0, y, 0, yl)
  <2>1. HalvesSummed(2, x, 0, sx, 0) /\ HalvesSummed(2, y, 0, sy, 0)
    BY ONLY <1>2, <1>3 DEF Lanes8, HalvesSummed
  <2>2. /\ 2 \in Nat /\ 4 = 2 * 2 /\ 0 \in Nat /\ 0 \in {0, 2, 4, 6}
        /\ 2 \in {0, 2, 4, 6}
        /\ 2 = 0 + 2
    OBVIOUS
  <2> DEFINE p0 == Quad(p, 0)
             p1 == Quad(p, 2)
             m  == Quad(q, 0)
  <2>3. /\ Multiplies(2, x, 0, y, 0, p0) /\ Multiplies(2, x, 2, y, 2, p1)
        /\ Multiplies(2, sx, 0, sy, 0, m) /\ LanesCombined(2, p0, m, p1, yl)
    BY ONLY <1>4, <1>5, <1>7, <2>2
  <2> HIDE DEF p0, p1, m
  <2>4. QED
    BY ONLY <2>1, <2>2, <2>3, LanesMultiply
<1>20. Multiplies(4, x, 4, y, 4, yh)
  <2>1. HalvesSummed(2, x, 4, sx, 4) /\ HalvesSummed(2, y, 4, sy, 4)
    BY ONLY <1>2, <1>3 DEF Lanes8, HalvesSummed
  <2>2. /\ 2 \in Nat /\ 4 = 2 * 2 /\ 4 \in Nat /\ 4 \in {0, 2, 4, 6}
        /\ 6 \in {0, 2, 4, 6}
        /\ 6 = 4 + 2
    OBVIOUS
  <2> DEFINE p0 == Quad(p, 4)
             p1 == Quad(p, 6)
             m  == Quad(q, 4)
  <2>3. /\ Multiplies(2, x, 4, y, 4, p0) /\ Multiplies(2, x, 6, y, 6, p1)
        /\ Multiplies(2, sx, 4, sy, 4, m) /\ LanesCombined(2, p0, m, p1, yh)
    BY ONLY <1>4, <1>5, <1>7, <2>2
  <2> HIDE DEF p0, p1, m
  <2>4. QED
    BY ONLY <2>1, <2>2, <2>3, LanesMultiply
<1>21. Multiplies(4, xs, 0, ys, 0, w)
  <2>1. HalvesSummed(2, xs, 0, dx, 4) /\ HalvesSummed(2, ys, 0, dy, 4)
    BY ONLY <1>2, <1>3, <1>18 DEF HalvesSummed
  <2>2. 2 \in Nat /\ 4 \in Nat /\ 4 = 2 * 2 /\ 0 \in Nat
        /\ 2 \in {0, 2, 4, 6} /\ 4 \in {0, 2, 4, 6} /\ 6 \in {0, 2, 4, 6}
    OBVIOUS
  <2>3. Multiplies(2, xs, 0, ys, 0, Quad(q, 2))
    <3>1. \A j \in 0..2-1 : xs[0 + j] = sx[2 + j] /\ ys[0 + j] = sy[2 + j]
      BY ONLY <1>2, <1>3, <1>18 DEF Lanes8
    <3>2. QED
      BY ONLY <1>5, <2>2, <3>1, SameMultiplies
  <2>4. Multiplies(2, xs, 2, ys, 2, Quad(q, 6))
    <3>1. \A j \in 0..2-1 : xs[2 + j] = sx[6 + j] /\ ys[2 + j] = sy[6 + j]
      BY ONLY <1>2, <1>3, <1>18 DEF Lanes8
    <3>2. QED
      BY ONLY <1>5, <2>2, <3>1, SameMultiplies
  <2> DEFINE p0 == Quad(q, 2)
             p1 == Quad(q, 6)
             m  == Quad(d, 4)
  <2>5. /\ Multiplies(2, xs, 0, ys, 0, p0) /\ Multiplies(2, xs, 2, ys, 2, p1)
        /\ Multiplies(2, dx, 4, dy, 4, m) /\ LanesCombined(2, p0, m, p1, w)
    BY ONLY <1>6, <1>8, <2>2, <2>3, <2>4
  <2> HIDE DEF p0, p1, m
  <2>6. 2 = 0 + 2
    OBVIOUS
  <2>7. QED
    BY ONLY <2>1, <2>2, <2>5, <2>6, LanesMultiply
<1>22. HalvesSummed(4, x, 0, xs, 0) /\ HalvesSummed(4, y, 0, ys, 0)
  BY ONLY <1>18 DEF HalvesSummed
<1>23. Multiplies(8, x, 0, y, 0, r)
  <2>1. 4 \in Nat /\ 8 = 2 * 4 /\ 0 \in Nat /\ 4 = 0 + 4
    OBVIOUS
  <2>2. QED
    BY ONLY <1>16, <1>19, <1>20, <1>21, <1>22, <2>1, LanesMultiply
<1>24. QED
  BY <1>15, <1>23

(***************************************************************************)
(* The products of two operands.                                           *)
(***************************************************************************)

(* Vec!Half, and the operands it is half of. *)
BaseHalf == IF vecFn.vector THEN 8 ELSE 4

(* The sizes of an operand and of its halves. *)
LEMMA HalfIs ==
  /\ BaseHalf \in Nat /\ BaseHalf \in {4, 8}
  /\ Vec!Half = BaseHalf /\ Vec!BaseQwords = 2 * BaseHalf
<1>1. CASE vecFn.vector
  <2>1. Vec!BaseQwords = 16 /\ BaseHalf = 8
    BY <1>1 DEF Vec!BaseQwords, BaseHalf
  <2>2. QED
    BY <2>1 DEF Vec!Half
<1>2. CASE ~vecFn.vector
  <2>1. Vec!BaseQwords = 8 /\ BaseHalf = 4
    BY <1>2 DEF Vec!BaseQwords, BaseHalf
  <2>2. QED
    BY <2>1 DEF Vec!Half
<1>3. QED
  BY <1>1, <1>2

(* The product of halves, of either file. *)
LEMMA MulHalfMultiplies ==
  ASSUME NEW h, h = BaseHalf, NEW x \in Registers(h), NEW y \in Registers(h),
         NEW r, r = Vec!MulHalf(x, y)
  PROVE  r \in Registers(2 * h) /\ Multiplies(h, x, 0, y, 0, r)
<1>1. CASE vecFn.vector
  <2>1. h = 8 /\ r = Vec!Mul8(x, y)
    BY <1>1 DEF BaseHalf, Vec!MulHalf
  <2>2. x \in Registers(8) /\ y \in Registers(8)
    BY ONLY <2>1, x \in Registers(h), y \in Registers(h)
  <2>3. r \in Registers(16) /\ Multiplies(8, x, 0, y, 0, r)
    BY ONLY <2>1, <2>2, Mul8Multiplies
  <2>4. 2 * h = 16
    BY <2>1
  <2>5. QED
    BY <2>1, <2>3, <2>4
<1>2. CASE ~vecFn.vector
  <2>1. h = 4 /\ r = Vec!Mul4(x, y)
    BY <1>2 DEF BaseHalf, Vec!MulHalf
  <2>2. x \in Registers(4) /\ y \in Registers(4)
    BY ONLY <2>1, x \in Registers(h), y \in Registers(h)
  <2>3. r \in Registers(8) /\ Multiplies(4, x, 0, y, 0, r)
    BY ONLY <2>1, <2>2, Mul4Multiplies
  <2>4. 2 * h = 8
    BY <2>1
  <2>5. QED
    BY <2>1, <2>3, <2>4
<1>3. QED
  BY <1>1, <1>2

(* The halves of an operand or of a product. *)
LEMMA HalvesOfRegister ==
  ASSUME NEW h, h = BaseHalf, NEW x \in Registers(2 * h)
  PROVE  /\ Vec!Low(x) \in Registers(h) /\ Vec!High(x) \in Registers(h)
         /\ \A q \in 0..h-1 : Vec!Low(x)[q] = x[q] /\ Vec!High(x)[q] = x[h + q]
<1>1. h \in Nat /\ 2 * h \in Nat /\ 0 + h <= 2 * h /\ h + h <= 2 * h
  BY HalfIs
<1>2. Vec!Low(x) = Vec!Piece(x, 0, h) /\ Vec!High(x) = Vec!Piece(x, h, h)
  BY HalfIs DEF Vec!Low, Vec!High
<1>3. /\ Vec!Piece(x, 0, h) \in Registers(h)
      /\ \A q \in 0..h-1 : Vec!Piece(x, 0, h)[q] = x[0 + q]
  BY <1>1, PieceIs
<1>4. /\ Vec!Piece(x, h, h) \in Registers(h)
      /\ \A q \in 0..h-1 : Vec!Piece(x, h, h)[q] = x[h + q]
  BY <1>1, PieceIs
<1>5. \A q \in 0..h-1 : 0 + q = q
  BY <1>1
<1>6. QED
  BY <1>2, <1>3, <1>4, <1>5

(* The operand of the middle product. *)
Summed(x) == Vec!(+)(Vec!Low(x), Vec!High(x))

(* It is the sum of the two halves, lane by lane. *)
LEMMA SummedIs ==
  ASSUME NEW h, h = BaseHalf, NEW x \in Registers(2 * h)
  PROVE  Summed(x) \in Registers(h) /\ HalvesSummed(h, x, 0, Summed(x), 0)
<1>1. h \in Nat
  BY HalfIs
<1> DEFINE s == Summed(x)
           u == Vec!Low(x)
           v == Vec!High(x)
<1>2. /\ u \in Registers(h) /\ v \in Registers(h)
      /\ \A q \in 0..h-1 : u[q] = x[q] /\ v[q] = x[h + q]
  BY HalvesOfRegister
<1>3. s = Vec!(+)(u, v)
  BY DEF Summed
<1> HIDE DEF s, u, v
<1>4. s \in Registers(h) /\ \A q \in 0..h-1 : s[q] = SymDiff(u[q], v[q])
  BY <1>1, <1>2, <1>3, RegistersAdd
<1>5. \A q \in 0..h-1 : 0 + q = q /\ (0 + h) + q = h + q
  BY <1>1
<1>6. HalvesSummed(h, x, 0, s, 0)
  <2>1. \A q \in 0..h-1 : s[q] = SymDiff(x[q], x[h + q])
    BY <1>2, <1>4
  <2>2. QED
    BY <1>5, <2>1 DEF HalvesSummed
<1>7. QED
  BY <1>4, <1>6 DEF s

(* What Store leaves. *)
LEMMA StoreMultiplies ==
  ASSUME NEW h, h = BaseHalf,
         NEW x \in Registers(2 * h), NEW y \in Registers(2 * h),
         NEW p0 \in Registers(2 * h), NEW p1 \in Registers(2 * h),
         NEW m \in Registers(2 * h),
         Multiplies(h, x, 0, y, 0, p0), Multiplies(h, x, h, y, h, p1),
         Multiplies(h, Summed(x), 0, Summed(y), 0, m),
         NEW mid, mid = Vec!(+)(Vec!High(p0), Vec!Low(p1)), NEW r,
         r = Vec!Joined(
               Vec!Joined(Vec!Low(p0),
                          Vec!(+)(Vec!(+)(Vec!Low(m), Vec!Low(p0)), mid)),
               Vec!Joined(Vec!(+)(Vec!(+)(Vec!High(m), Vec!High(p1)), mid),
                          Vec!High(p1)))
  PROVE  r \in Registers(4 * h) /\ Multiplies(2 * h, x, 0, y, 0, r)
<1>1. h \in Nat /\ 2 * h \in Nat /\ 2 * h = h + h /\ 4 * h = 2 * h + 2 * h
  BY HalfIs
<1> DEFINE l0 == Vec!Low(p0)
           h0 == Vec!High(p0)
           l1 == Vec!Low(p1)
           h1 == Vec!High(p1)
           lm == Vec!Low(m)
           hm == Vec!High(m)
           n0 == Vec!(+)(lm, l0)
           n1 == Vec!(+)(n0, mid)
           n2 == Vec!(+)(hm, h1)
           n3 == Vec!(+)(n2, mid)
           lower  == Vec!Joined(l0, n1)
           higher == Vec!Joined(n3, h1)
<1>2. r = Vec!Joined(lower, higher) /\ mid = Vec!(+)(h0, l1)
  OBVIOUS
<1>3. /\ l0 \in Registers(h) /\ h0 \in Registers(h)
      /\ \A q \in 0..h-1 : l0[q] = p0[q] /\ h0[q] = p0[h + q]
  BY HalvesOfRegister
<1>4. /\ l1 \in Registers(h) /\ h1 \in Registers(h)
      /\ \A q \in 0..h-1 : l1[q] = p1[q] /\ h1[q] = p1[h + q]
  BY HalvesOfRegister
<1>5. /\ lm \in Registers(h) /\ hm \in Registers(h)
      /\ \A q \in 0..h-1 : lm[q] = m[q] /\ hm[q] = m[h + q]
  BY HalvesOfRegister
<1> HIDE DEF l0, h0, l1, h1, lm, hm
<1>6. mid \in Registers(h) /\ \A q \in 0..h-1 : mid[q] = SymDiff(h0[q], l1[q])
  BY ONLY <1>1, <1>2, <1>3, <1>4, RegistersAdd
<1>7. n0 \in Registers(h) /\ \A q \in 0..h-1 : n0[q] = SymDiff(lm[q], l0[q])
  BY ONLY <1>1, <1>3, <1>5, RegistersAdd
<1>8. n2 \in Registers(h) /\ \A q \in 0..h-1 : n2[q] = SymDiff(hm[q], h1[q])
  BY ONLY <1>1, <1>4, <1>5, RegistersAdd
<1> HIDE DEF n0, n2
<1>9. n1 \in Registers(h) /\ \A q \in 0..h-1 : n1[q] = SymDiff(n0[q], mid[q])
  BY ONLY <1>1, <1>6, <1>7, RegistersAdd
<1>10. n3 \in Registers(h) /\ \A q \in 0..h-1 : n3[q] = SymDiff(n2[q], mid[q])
  BY ONLY <1>1, <1>6, <1>8, RegistersAdd
<1> HIDE DEF n1, n3
<1> DEFINE two == 2 * h
           four == 4 * h
<1>11. two = h + h /\ four = two + two /\ two \in Nat
  BY <1>1
<1> HIDE DEF two, four
<1>12. /\ lower \in Registers(two)
       /\ \A q \in 0..h-1 : lower[q] = l0[q]
       /\ \A q \in 0..h-1 : lower[h + q] = n1[q]
  <2>1. h \in Nat /\ l0 \in Registers(h) /\ n1 \in Registers(h)
    BY <1>1, <1>3, <1>9
  <2>2. lower = Vec!Joined(l0, n1)
    OBVIOUS
  <2> HIDE DEF lower
  <2>3. QED
    BY ONLY <2>1, <2>2, <1>11, JoinedIs
<1>13. /\ higher \in Registers(two)
       /\ \A q \in 0..h-1 : higher[q] = n3[q]
       /\ \A q \in 0..h-1 : higher[h + q] = h1[q]
  <2>1. h \in Nat /\ n3 \in Registers(h) /\ h1 \in Registers(h)
    BY <1>1, <1>4, <1>10
  <2>2. higher = Vec!Joined(n3, h1)
    OBVIOUS
  <2> HIDE DEF higher
  <2>3. QED
    BY ONLY <2>1, <2>2, <1>11, JoinedIs
<1> HIDE DEF lower, higher
<1> DEFINE j4 == Vec!Joined(lower, higher)
<1>14. /\ j4 \in Registers(four)
       /\ \A q \in 0..two-1 : j4[q] = lower[q]
       /\ \A q \in 0..two-1 : j4[two + q] = higher[q]
  BY ONLY <1>11, <1>12, <1>13, JoinedIs
<1>15. r = j4
  BY <1>2
<1> HIDE DEF j4
<1>16. LanesCombined(h, p0, m, p1, r)
  <2>1. ASSUME NEW u, NEW v, NEW u1, NEW v1, NEW t0, NEW t1
        PROVE  /\ SymDiff(SymDiff(t0, u), SymDiff(u1, v))
                    = SymDiff(SymDiff(u1, v), SymDiff(u, t0))
               /\ SymDiff(SymDiff(t1, v1), SymDiff(u1, v))
                    = SymDiff(SymDiff(u1, v), SymDiff(t1, v1))
    BY DEF SymDiff
  <2>2. ASSUME NEW q \in 0..h-1
        PROVE  /\ r[q] = p0[q]
               /\ r[h + q]
                    = SymDiff(SymDiff(p0[h + q], p1[q]), SymDiff(p0[q], m[q]))
               /\ r[2 * h + q] = SymDiff(SymDiff(p0[h + q], p1[q]),
                                         SymDiff(m[h + q], p1[h + q]))
               /\ r[3 * h + q] = p1[h + q]
    <3> DEFINE q1 == h + q
               q2 == 2 * h + q
               q3 == 3 * h + q
    <3>1. /\ q \in 0..two-1 /\ q1 \in 0..two-1
          /\ q2 = two + q /\ q3 = two + q1
      BY <1>1, <1>11
    <3>2. r[q] = lower[q] /\ r[q1] = lower[q1]
      BY <1>14, <1>15, <3>1
    <3>3. r[two + q] = higher[q] /\ r[two + q1] = higher[q1]
      BY <1>14, <1>15, <3>1
    <3>4. /\ lower[q] = l0[q] /\ lower[q1] = n1[q]
          /\ higher[q] = n3[q] /\ higher[q1] = h1[q]
      BY <1>12, <1>13
    <3>5. /\ n1[q] = SymDiff(SymDiff(m[q], p0[q]), SymDiff(p0[q1], p1[q]))
          /\ n3[q] = SymDiff(SymDiff(m[q1], p1[q1]), SymDiff(p0[q1], p1[q]))
      BY <1>3, <1>4, <1>5, <1>6, <1>7, <1>8, <1>9, <1>10
    <3>6. l0[q] = p0[q] /\ h1[q] = p1[q1]
      BY <1>3, <1>4
    <3> HIDE DEF q1, q2, q3
    <3>7. /\ n1[q] = SymDiff(SymDiff(p0[q1], p1[q]), SymDiff(p0[q], m[q]))
          /\ n3[q] = SymDiff(SymDiff(p0[q1], p1[q]), SymDiff(m[q1], p1[q1]))
      BY ONLY <2>1, <3>5
    <3>8. /\ r[q] = p0[q] /\ r[q3] = p1[q1]
          /\ r[q1] = SymDiff(SymDiff(p0[q1], p1[q]), SymDiff(p0[q], m[q]))
          /\ r[q2] = SymDiff(SymDiff(p0[q1], p1[q]), SymDiff(m[q1], p1[q1]))
      BY ONLY <3>1, <3>2, <3>3, <3>4, <3>6, <3>7
    <3>9. QED
      BY ONLY <3>8 DEF q1, q2, q3
  <2>3. QED
    BY ONLY <2>2 DEF LanesCombined
<1>17. Multiplies(two, x, 0, y, 0, r)
  <2>1. h = 0 + h /\ two = 2 * h /\ 0 \in Nat
    BY <1>1 DEF two
  <2>2. /\ HalvesSummed(h, x, 0, Summed(x), 0)
        /\ HalvesSummed(h, y, 0, Summed(y), 0)
    BY SummedIs
  <2>3. QED
    BY <1>1, <1>16, <2>1, <2>2, LanesMultiply
<1>18. r \in Registers(four)
  BY <1>14, <1>15
<1>19. QED
  BY <1>17, <1>18 DEF two, four

(***************************************************************************)
(* The squares.                                                            *)
(***************************************************************************)

(* A set of numbers up to n that is closed under counting up is all of    *)
(* them.                                                                   *)
LEMMA CountingUp ==
  ASSUME NEW n \in Nat, NEW G \in SUBSET (0..n),
         0 \in G, \A k \in G : k < n => k + 1 \in G
  PROVE  G = 0..n
<1> DEFINE Missing == (0..n) \ G
           Bad == {x \in SUBSET (0..n) : \E k \in Missing : x = 0..k}
<1>1. SUFFICES ASSUME NEW m \in Missing
               PROVE  FALSE
  OBVIOUS
<1>9. 0..m \in Bad
  OBVIOUS
<1>2. Bad \subseteq FiniteSubsetsOf(0..n)
  BY FS_Interval, FS_Subset DEF FiniteSubsetsOf
<1>3. IsWellFoundedOn(StrictSubsetOrdering(0..n), FiniteSubsetsOf(0..n))
  BY FS_StrictSubsetOrderingWellFounded
<1> HIDE DEF Bad
<1>4. PICK x \in Bad : \A y \in Bad : ~(<<y, x>> \in StrictSubsetOrdering(0..n))
  BY <1>9, <1>2, <1>3, WFMin
<1> USE DEF Bad
<1>5. PICK k \in Missing : x = 0..k
  OBVIOUS
<1>6. k - 1 \in Missing
  BY <1>5
<1>7. <<0..k-1, x>> \in StrictSubsetOrdering(0..n)
  BY <1>5, <1>6 DEF StrictSubsetOrdering
<1>8. QED
  BY <1>4, <1>6, <1>7

(* A bit k of the square comes from bit k / 2: the mixed terms cancel.     *)
Doubles(x) == {2 * k : k \in x}

(* A square, term by term. *)
LEMMA SquareOneBitMore ==
  ASSUME NEW s \in Polys, NEW k \in Nat, k \notin s, NEW s1, s1 = s \cup {k},
         Product(s, s) = Doubles(s)
  PROVE  Product(s1, s1) = Doubles(s1)
<1> DEFINE z == {k}
<1>1. z \in Polys
  BY FS_Singleton DEF Polys
<1>2. s1 = SymDiff(s, z) /\ s1 \in Polys
  <2>1. s1 = SymDiff(s, z)
    BY DEF SymDiff
  <2> HIDE DEF z
  <2>2. QED
    BY <1>1, <2>1, SumPolys
<1>3. Product(z, z) = {2 * k}
  <2>1. Product(z, z) = Shift(z, k)
    BY <1>1, SingleProduct
  <2>2. Shift(z, k) = {2 * k}
    BY DEF Shift
  <2>3. QED
    BY <2>1, <2>2
<1> HIDE DEF z
<1>4. Product(s1, s1) = SymDiff(Product(s, s1), Product(z, s1))
  <2>1. Product(SymDiff(s, z), s1) = SymDiff(Product(s, s1), Product(z, s1))
    BY <1>1, <1>2, ProductAdds
  <2>2. QED
    BY <1>2, <2>1
<1>5. Product(s, s1) = SymDiff(Product(s, s), Product(s, z))
  <2>1. Product(s, SymDiff(s, z)) = SymDiff(Product(s, s), Product(s, z))
    BY <1>1, <1>2, ProductAdds
  <2>2. QED
    BY <1>2, <2>1
<1>6. Product(z, s1) = SymDiff(Product(z, s), Product(z, z))
  <2>1. Product(z, SymDiff(s, z)) = SymDiff(Product(z, s), Product(z, z))
    BY <1>1, <1>2, ProductAdds
  <2>2. QED
    BY <1>2, <2>1
<1>7. Product(z, s) = Product(s, z)
  BY <1>1, ProductCommutes
<1>8. ASSUME NEW u, NEW v, NEW t
      PROVE  SymDiff(SymDiff(u, v), SymDiff(v, t)) = SymDiff(u, t)
  BY DEF SymDiff
<1>9. Product(s1, s1) = SymDiff(Doubles(s), {2 * k})
  BY <1>3, <1>4, <1>5, <1>6, <1>7, <1>8
<1>10. s \in SUBSET Nat
  BY DEF Polys
<1>11. 2 * k \notin Doubles(s)
  BY <1>10 DEF Doubles
<1>12. Doubles(s1) = Doubles(s) \cup {2 * k}
  BY DEF Doubles
<1>13. QED
  BY <1>9, <1>11, <1>12 DEF SymDiff

(* Squaring doubles the exponents. *)
LEMMA SquareIsDouble ==
  ASSUME NEW n \in Nat, NEW x \in SUBSET (0..n-1)
  PROVE  Product(x, x) = Doubles(x)
<1> DEFINE Holds(k) == Product(Below(x, k), Below(x, k)) = Doubles(Below(x, k))
           G == {k \in 0..n : Holds(k)}
<1>0. x \in SUBSET Nat /\ \A b \in x : 0 <= b /\ b < n
  OBVIOUS
<1>1. 0 \in G
  <2>1. Below(x, 0) = {}
    <3>1. \A b \in x : ~(b < 0)
      BY <1>0
    <3>2. QED
      BY <3>1 DEF Below
  <2>2. Product({}, {}) = {} /\ Doubles({}) = {}
    BY DEF Product, Doubles
  <2>3. QED
    BY <2>1, <2>2
<1>2. ASSUME NEW k \in G, k < n
      PROVE  k + 1 \in G
  <2>1. k \in Nat /\ Holds(k) /\ k + 1 \in 0..n
    BY <1>2
  <2> DEFINE s == Below(x, k)
             s1 == Below(x, k + 1)
  <2>2. CASE k \in x
    <3>1. s1 = s \cup {k} /\ k \notin s
      <4>1. \A b \in x : b < k + 1 <=> b < k \/ b = k
        BY <1>0, <2>1
      <4>2. ~(k < k)
        BY <2>1
      <4>3. QED
        BY <2>2, <4>1, <4>2 DEF Below
    <3>2. s \in Polys
      BY <2>1, BoundedPolys DEF Below
    <3>3. Product(s, s) = Doubles(s)
      BY <2>1
    <3> HIDE DEF s, s1
    <3>4. Product(s1, s1) = Doubles(s1)
      BY <2>1, <3>1, <3>2, <3>3, SquareOneBitMore
    <3>5. QED
      BY <2>1, <3>4 DEF s1
  <2>3. CASE k \notin x
    <3>1. s1 = s
      <4>1. \A b \in x : b < k + 1 <=> b < k
        BY <1>0, <2>1, <2>3
      <4>2. QED
        BY <4>1 DEF Below
    <3>2. QED
      BY <2>1, <3>1
  <2>4. QED
    BY <2>2, <2>3
<1>3. G = 0..n
  <2> HIDE DEF Holds
  <2>1. G \in SUBSET (0..n)
    OBVIOUS
  <2>2. \A k \in G : k < n => k + 1 \in G
    BY <1>2
  <2> HIDE DEF G
  <2>3. QED
    BY <1>1, <2>1, <2>2, CountingUp
<1>4. Holds(n)
  <2>1. n \in 0..n
    OBVIOUS
  <2>2. n \in G
    BY <1>3, <2>1
  <2>3. QED
    BY <2>2
<1>5. Below(x, n) = x
  BY <1>0 DEF Below
<1>6. QED
  BY <1>4, <1>5

(* The square of quad-word q of x is in two quad-words of r.               *)
SquaredAt(x, q, r) ==
  /\ r[2 * q] = {e \in 0..QwBits-1 : e \in Doubles(x[q])}
  /\ r[2 * q + 1] = {e \in 0..QwBits-1 : e + QwBits \in Doubles(x[q])}

(* The halves that CLMUL leaves of a square. *)
LEMMA ClmulSquares ==
  ASSUME NEW k \in Nat, k % 2 = 0, NEW x \in Registers(k), NEW sel \in {0, 1},
         NEW r, r = Vec!CLMUL(x, x, sel)
  PROVE  /\ r \in Registers(k)
         /\ \A f \in Nat : f % 2 = 0 /\ f + 1 < k =>
              /\ r[f] = {e \in 0..QwBits-1 : e \in Doubles(x[f + sel])}
              /\ r[f + 1]
                   = {e \in 0..QwBits-1 : e + QwBits \in Doubles(x[f + sel])}
<1>1. QwBits \in Nat
  BY VecFacts
<1>2. ASSUME NEW f \in Nat, f % 2 = 0, f + 1 < k
      PROVE  /\ r[f] = {e \in 0..QwBits-1 : e \in Doubles(x[f + sel])}
             /\ r[f + 1]
                  = {e \in 0..QwBits-1 : e + QwBits \in Doubles(x[f + sel])}
  <2> DEFINE s == f + sel
             w == x[s]
  <2>1. /\ w \in Qwords
        /\ r[f] = {e \in 0..QwBits-1 : e \in Product(w, w)}
        /\ r[f + 1] = {e \in 0..QwBits-1 : e + QwBits \in Product(w, w)}
    BY <1>2, ClmulIs
  <2>2. w \in SUBSET (0..QwBits-1)
    BY <2>1 DEF Qwords
  <2> HIDE DEF w
  <2>3. Product(w, w) = Doubles(w)
    BY <1>1, <2>2, SquareIsDouble
  <2>4. QED
    BY <2>1, <2>3 DEF w
<1>3. r \in Registers(k)
  BY VecFacts DEF Vec!CLMUL, Registers, Qwords
<1>4. QED
  BY <1>2, <1>3

(* The registers of a turn: two lanes, in their order. *)
LEMMA TwoSquares ==
  ASSUME NEW x \in Registers(2),
         NEW r, r = Vec!Joined(Vec!CLMUL(x, x, 0), Vec!CLMUL(x, x, 1))
  PROVE  r \in Registers(4) /\ \A q \in 0..1 : SquaredAt(x, q, r)
<1> DEFINE c0 == Vec!CLMUL(x, x, 0)
           c1 == Vec!CLMUL(x, x, 1)
<1>1. /\ c0 \in Registers(2)
      /\ \A f \in Nat : f % 2 = 0 /\ f + 1 < 2 =>
           /\ c0[f] = {e \in 0..QwBits-1 : e \in Doubles(x[f + 0])}
           /\ c0[f + 1] = {e \in 0..QwBits-1 : e + QwBits \in Doubles(x[f + 0])}
  <2>1. 2 \in Nat /\ 2 % 2 = 0 /\ 0 \in {0, 1}
    OBVIOUS
  <2>2. QED
    BY <2>1, ClmulSquares
<1>2. /\ c1 \in Registers(2)
      /\ \A f \in Nat : f % 2 = 0 /\ f + 1 < 2 =>
           /\ c1[f] = {e \in 0..QwBits-1 : e \in Doubles(x[f + 1])}
           /\ c1[f + 1] = {e \in 0..QwBits-1 : e + QwBits \in Doubles(x[f + 1])}
  <2>1. 2 \in Nat /\ 2 % 2 = 0 /\ 1 \in {0, 1}
    OBVIOUS
  <2>2. QED
    BY <2>1, ClmulSquares
<1>3. r = Vec!Joined(c0, c1)
  OBVIOUS
<1> HIDE DEF c0, c1
<1>4. /\ r \in Registers(4)
      /\ \A j \in 0..1 : r[j] = c0[j]
      /\ \A j \in 0..1 : r[2 + j] = c1[j]
  <2>1. c0 \in Registers(2) /\ c1 \in Registers(2)
    BY <1>1, <1>2
  <2> DEFINE n == 2
  <2>2. n \in Nat /\ 4 = n + n /\ c0 \in Registers(n) /\ c1 \in Registers(n)
    BY <2>1
  <2> HIDE DEF n
  <2>3. /\ r \in Registers(4)
        /\ \A j \in 0..n-1 : r[j] = c0[j]
        /\ \A j \in 0..n-1 : r[n + j] = c1[j]
    BY ONLY <1>3, <2>2, JoinedIs
  <2>4. QED
    BY <2>3 DEF n
<1>5. r[0] = c0[0] /\ r[1] = c0[1] /\ r[2] = c1[0] /\ r[3] = c1[1]
  <2>1. r[2] = r[2 + 0] /\ r[3] = r[2 + 1]
    OBVIOUS
  <2>2. QED
    BY <1>4, <2>1
<1>6. /\ c0[0] = {e \in 0..QwBits-1 : e \in Doubles(x[0])}
      /\ c0[1] = {e \in 0..QwBits-1 : e + QwBits \in Doubles(x[0])}
      /\ c1[0] = {e \in 0..QwBits-1 : e \in Doubles(x[1])}
      /\ c1[1] = {e \in 0..QwBits-1 : e + QwBits \in Doubles(x[1])}
  <2>1. 0 \in Nat /\ 0 % 2 = 0 /\ 0 + 1 < 2 /\ 0 + 0 = 0 /\ 0 + 1 = 1
    OBVIOUS
  <2>2. QED
    BY <1>1, <1>2, <2>1
<1>7. SquaredAt(x, 0, r) /\ SquaredAt(x, 1, r)
  <2>1. 2 * 0 = 0 /\ 2 * 0 + 1 = 1 /\ 2 * 1 = 2 /\ 2 * 1 + 1 = 3
    OBVIOUS
  <2>2. QED
    BY <1>5, <1>6, <2>1 DEF SquaredAt
<1>8. 0..1 = {0, 1}
  OBVIOUS
<1>9. QED
  BY <1>4, <1>7, <1>8

(* Eight lanes, which a permutation has brought to where CLMUL leaves them *)
(* in their order.                                                         *)
LEMMA EightSquares ==
  ASSUME NEW x \in Registers(8),
         NEW p,
         p = Vec!PERMXVAR_I64(Vec!SET_I64(<<7, 3, 6, 2, 5, 1, 4, 0>>), x),
         NEW r, r = Vec!Joined(Vec!CLMUL(p, p, 0), Vec!CLMUL(p, p, 1))
  PROVE  r \in Registers(16) /\ \A q \in 0..7 : SquaredAt(x, q, r)
<1> DEFINE idx == Vec!SET_I64(<<7, 3, 6, 2, 5, 1, 4, 0>>)
           c0 == Vec!CLMUL(p, p, 0)
           c1 == Vec!CLMUL(p, p, 1)
<1>1. p \in Registers(8) /\ \A j \in 0..7 : p[j] = x[idx[j]]
  <2>1. Lanes8(idx, 0, 4, 1, 5, 2, 6, 3, 7)
    BY SetLanes
  <2> HIDE DEF idx
  <2>2. \A j \in 0..7 : idx[j] \in 0..7
    <3>1. \A j \in 0..7 : j = 0 \/ j = 1 \/ j = 2 \/ j = 3 \/ j = 4
                          \/ j = 5 \/ j = 6 \/ j = 7
      OBVIOUS
    <3>2. QED
      BY <2>1, <3>1 DEF Lanes8
  <2>3. p = Vec!PERMXVAR_I64(idx, x)
    BY DEF idx
  <2>4. QED
    BY <2>2, <2>3, PermutedLanes
<1>2. Lanes8(p, x[0], x[4], x[1], x[5], x[2], x[6], x[3], x[7])
  <2>1. Lanes8(idx, 0, 4, 1, 5, 2, 6, 3, 7)
    BY SetLanes
  <2> HIDE DEF idx
  <2>2. QED
    BY <1>1, <2>1 DEF Lanes8
<1> HIDE DEF idx
<1>3. r = Vec!Joined(c0, c1)
  OBVIOUS
<1>4. ASSUME NEW sel \in {0, 1}, NEW f \in {0, 2, 4, 6}
      PROVE  /\ Vec!CLMUL(p, p, sel) \in Registers(8)
             /\ Vec!CLMUL(p, p, sel)[f]
                  = {e \in 0..QwBits-1 : e \in Doubles(p[f + sel])}
             /\ Vec!CLMUL(p, p, sel)[f + 1]
                  = {e \in 0..QwBits-1 : e + QwBits \in Doubles(p[f + sel])}
  <2>1. 8 \in Nat /\ 8 % 2 = 0 /\ f \in Nat /\ f % 2 = 0 /\ f + 1 < 8
    OBVIOUS
  <2> DEFINE cc == Vec!CLMUL(p, p, sel)
  <2>2. /\ cc \in Registers(8)
        /\ \A g \in Nat : g % 2 = 0 /\ g + 1 < 8 =>
             /\ cc[g] = {e \in 0..QwBits-1 : e \in Doubles(p[g + sel])}
             /\ cc[g + 1]
                  = {e \in 0..QwBits-1 : e + QwBits \in Doubles(p[g + sel])}
    <3>1. p \in Registers(8)
      BY <1>1
    <3>2. cc = Vec!CLMUL(p, p, sel)
      OBVIOUS
    <3> HIDE DEF cc
    <3>3. QED
      BY ONLY <2>1, <3>1, <3>2, sel \in {0, 1}, ClmulSquares
  <2> HIDE DEF cc
  <2>3. /\ cc[f] = {e \in 0..QwBits-1 : e \in Doubles(p[f + sel])}
        /\ cc[f + 1] = {e \in 0..QwBits-1 : e + QwBits \in Doubles(p[f + sel])}
    BY <2>1, <2>2
  <2>4. QED
    BY <2>2, <2>3 DEF cc
<1>5. c0 \in Registers(8) /\ c1 \in Registers(8)
  BY <1>4
<1> DEFINE L(w) == {e \in 0..QwBits-1 : e \in Doubles(w)}
           H(w) == {e \in 0..QwBits-1 : e + QwBits \in Doubles(w)}
<1>6. /\ c0[0] = L(p[0]) /\ c0[1] = H(p[0]) /\ c0[2] = L(p[2])
      /\ c0[3] = H(p[2])
      /\ c0[4] = L(p[4]) /\ c0[5] = H(p[4]) /\ c0[6] = L(p[6])
      /\ c0[7] = H(p[6])
  <2>1. \A f \in {0, 2, 4, 6} : c0[f] = L(p[f + 0]) /\ c0[f + 1] = H(p[f + 0])
    BY <1>4
  <2> HIDE DEF L, H, c0
  <2>2. /\ c0[0] = L(p[0 + 0]) /\ c0[0 + 1] = H(p[0 + 0])
        /\ c0[2] = L(p[2 + 0]) /\ c0[2 + 1] = H(p[2 + 0])
        /\ c0[4] = L(p[4 + 0]) /\ c0[4 + 1] = H(p[4 + 0])
        /\ c0[6] = L(p[6 + 0]) /\ c0[6 + 1] = H(p[6 + 0])
    BY <2>1
  <2>3. /\ 0 + 0 = 0 /\ 2 + 0 = 2 /\ 4 + 0 = 4 /\ 6 + 0 = 6
        /\ 0 + 1 = 1 /\ 2 + 1 = 3 /\ 4 + 1 = 5 /\ 6 + 1 = 7
    OBVIOUS
  <2>4. QED
    BY <2>2, <2>3
<1>7. /\ c1[0] = L(p[1]) /\ c1[1] = H(p[1]) /\ c1[2] = L(p[3])
      /\ c1[3] = H(p[3])
      /\ c1[4] = L(p[5]) /\ c1[5] = H(p[5]) /\ c1[6] = L(p[7])
      /\ c1[7] = H(p[7])
  <2>1. \A f \in {0, 2, 4, 6} : c1[f] = L(p[f + 1]) /\ c1[f + 1] = H(p[f + 1])
    BY <1>4
  <2> HIDE DEF L, H, c1
  <2>2. /\ c1[0] = L(p[0 + 1]) /\ c1[0 + 1] = H(p[0 + 1])
        /\ c1[2] = L(p[2 + 1]) /\ c1[2 + 1] = H(p[2 + 1])
        /\ c1[4] = L(p[4 + 1]) /\ c1[4 + 1] = H(p[4 + 1])
        /\ c1[6] = L(p[6 + 1]) /\ c1[6 + 1] = H(p[6 + 1])
    BY <2>1
  <2>3. 0 + 1 = 1 /\ 2 + 1 = 3 /\ 4 + 1 = 5 /\ 6 + 1 = 7
    OBVIOUS
  <2>4. QED
    BY <2>2, <2>3
<1> HIDE DEF c0, c1
<1>8. /\ r \in Registers(16)
      /\ \A j \in 0..7 : r[j] = c0[j]
      /\ \A j \in 0..7 : r[8 + j] = c1[j]
  <2> DEFINE n == 8
  <2>1. n \in Nat /\ 16 = n + n /\ c0 \in Registers(n) /\ c1 \in Registers(n)
    BY <1>5
  <2> HIDE DEF n, L, H
  <2>2. /\ r \in Registers(16)
        /\ \A j \in 0..n-1 : r[j] = c0[j]
        /\ \A j \in 0..n-1 : r[n + j] = c1[j]
    BY ONLY <1>3, <2>1, JoinedIs
  <2>3. QED
    BY <2>2 DEF n
<1> HIDE DEF L, H
<1>9. /\ r[0] = L(x[0]) /\ r[1] = H(x[0]) /\ r[2] = L(x[1]) /\ r[3] = H(x[1])
      /\ r[4] = L(x[2]) /\ r[5] = H(x[2]) /\ r[6] = L(x[3]) /\ r[7] = H(x[3])
  BY <1>2, <1>6, <1>8 DEF Lanes8
<1>10. /\ r[8] = L(x[4]) /\ r[9] = H(x[4]) /\ r[10] = L(x[5]) /\ r[11] = H(x[5])
       /\ r[12] = L(x[6]) /\ r[13] = H(x[6]) /\ r[14] = L(x[7])
       /\ r[15] = H(x[7])
  <2>1. /\ r[8 + 0] = c1[0] /\ r[8 + 1] = c1[1] /\ r[8 + 2] = c1[2]
        /\ r[8 + 3] = c1[3]
        /\ r[8 + 4] = c1[4] /\ r[8 + 5] = c1[5] /\ r[8 + 6] = c1[6]
        /\ r[8 + 7] = c1[7]
    BY <1>8
  <2>2. /\ 8 + 0 = 8 /\ 8 + 1 = 9 /\ 8 + 2 = 10 /\ 8 + 3 = 11
        /\ 8 + 4 = 12 /\ 8 + 5 = 13 /\ 8 + 6 = 14 /\ 8 + 7 = 15
    OBVIOUS
  <2>3. QED
    BY <1>2, <1>7, <2>1, <2>2 DEF Lanes8
<1>11. ASSUME NEW q \in 0..7
       PROVE  r[2 * q] = L(x[q]) /\ r[2 * q + 1] = H(x[q])
  <2>1. \/ q = 0 /\ 2 * q = 0 /\ 2 * q + 1 = 1
        \/ q = 1 /\ 2 * q = 2 /\ 2 * q + 1 = 3
        \/ q = 2 /\ 2 * q = 4 /\ 2 * q + 1 = 5
        \/ q = 3 /\ 2 * q = 6 /\ 2 * q + 1 = 7
        \/ q = 4 /\ 2 * q = 8 /\ 2 * q + 1 = 9
        \/ q = 5 /\ 2 * q = 10 /\ 2 * q + 1 = 11
        \/ q = 6 /\ 2 * q = 12 /\ 2 * q + 1 = 13
        \/ q = 7 /\ 2 * q = 14 /\ 2 * q + 1 = 15
    OBVIOUS
  <2>2. QED
    BY <1>9, <1>10, <2>1
<1>12. \A q \in 0..7 : SquaredAt(x, q, r)
  BY <1>11 DEF SquaredAt, L, H
<1>13. QED
  BY <1>8, <1>12

(* All the quad-words of x are squared in r. *)
AllSquared(n, x, r) == \A q \in 0..n-1 : SquaredAt(x, q, r)

(* Then r is the square of x. *)
LEMMA SquaredPoly ==
  ASSUME NEW n \in Nat, NEW x \in Registers(n), NEW r, AllSquared(n, x, r),
         NEW n2, n2 = 2 * n
  PROVE  PolyAt(r, 0, n2) = Doubles(PolyAt(x, 0, n))
<1>1. QwBits \in Nat \ {0} /\ n2 \in Nat
  BY VecFacts
<1>2. \A t : 0 + Qw(t) = Qw(t) \/ Qw(t) \notin Nat
  OBVIOUS
<1>3. \A q \in 0..n-1 : x[q] \in Qwords
  BY DEF Registers
<1>4. ASSUME NEW f \in Nat
      PROVE  f \in PolyAt(x, 0, n) <=> Qw(f) \in 0..n-1 /\ Bit(f) \in x[Qw(f)]
  <2>1. Qw(f) \in Nat /\ (f \in 0 .. n * QwBits - 1 <=> Qw(f) \in 0..n-1)
    BY QwordOf, QwordBelow
  <2>2. 0 + Qw(f) = Qw(f)
    BY <2>1
  <2> HIDE DEF Qw, Bit
  <2>3. QED
    BY <2>1, <2>2 DEF PolyAt
<1>5. ASSUME NEW e \in Nat
      PROVE  e \in PolyAt(r, 0, n2) <=> Qw(e) \in 0..n2-1 /\ Bit(e) \in r[Qw(e)]
  <2>1. Qw(e) \in Nat /\ (e \in 0 .. n2 * QwBits - 1 <=> Qw(e) \in 0..n2-1)
    BY <1>1, QwordOf, QwordBelow
  <2>2. 0 + Qw(e) = Qw(e)
    BY <2>1
  <2> HIDE DEF Qw, Bit
  <2>3. QED
    BY <2>1, <2>2 DEF PolyAt
<1>6. ASSUME NEW e \in PolyAt(r, 0, n2)
      PROVE  e \in Doubles(PolyAt(x, 0, n))
  <2>1. e \in Nat
    BY <1>1, PolyBound
  <2> DEFINE t == Qw(e)
             b == Bit(e)
             q == t \div 2
             g == QwBits * q
  <2>2. t \in 0..n2-1 /\ b \in r[t]
    BY <1>5, <2>1
  <2>3. b \in 0..QwBits-1 /\ e = QwBits * t + b
    BY <2>1, QwordOf
  <2> HIDE DEF t, b
  <2>4. q \in 0..n-1 /\ (t = 2 * q \/ t = 2 * q + 1)
    BY <2>2
  <2> HIDE DEF q
  <2>5. g \in Nat /\ (t = 2 * q => e = 2 * g + b)
        /\ (t = 2 * q + 1 => e = 2 * g + QwBits + b)
    <3>1. QwBits * (2 * q) = 2 * (QwBits * q)
          /\ QwBits * (2 * q + 1) = 2 * (QwBits * q) + QwBits
      BY <1>1, <2>4
    <3>2. QwBits * q \in Nat
      BY <1>1, <2>4
    <3>3. QED
      BY <2>3, <3>1, <3>2
  <2>6. \E k \in x[q] : e = 2 * (g + k)
    <3>1. SquaredAt(x, q, r) /\ x[q] \in SUBSET (0..QwBits-1)
      BY <1>3, <2>4 DEF AllSquared, Qwords
    <3> HIDE DEF g
    <3>2. CASE t = 2 * q
      <4>1. b \in Doubles(x[q])
        BY <2>2, <3>1, <3>2 DEF SquaredAt
      <4>2. PICK k \in x[q] : b = 2 * k
        BY <4>1 DEF Doubles
      <4>3. k \in Nat
        BY <3>1, <4>2
      <4>4. QED
        BY <2>5, <3>2, <4>2, <4>3
    <3>3. CASE t = 2 * q + 1
      <4>1. b + QwBits \in Doubles(x[q])
        BY <2>2, <3>1, <3>3 DEF SquaredAt
      <4>2. PICK k \in x[q] : b + QwBits = 2 * k
        BY <4>1 DEF Doubles
      <4>3. k \in Nat
        BY <3>1, <4>2
      <4>4. QED
        BY <1>1, <2>3, <2>5, <3>3, <4>2, <4>3
    <3>4. QED
      BY <2>4, <3>2, <3>3
  <2>7. PICK k \in x[q] : e = 2 * (g + k)
    BY <2>6
  <2> DEFINE f == g + k
  <2>8. k \in 0..QwBits-1
    BY <1>3, <2>4, <2>7 DEF Qwords
  <2>9. f \in Nat /\ Qw(f) = q /\ Bit(f) = k
    <3>1. q \in Nat
      BY <2>4
    <3>2. QED
      BY <2>8, <3>1, QwordIs
  <2> HIDE DEF f
  <2>10. f \in PolyAt(x, 0, n)
    BY <1>4, <2>4, <2>7, <2>9
  <2>11. QED
    BY <2>7, <2>10 DEF f, Doubles
<1>7. ASSUME NEW f \in PolyAt(x, 0, n)
      PROVE  2 * f \in PolyAt(r, 0, n2)
  <2>1. f \in Nat
    BY <1>1, PolyBound
  <2> DEFINE q == Qw(f)
             k == Bit(f)
             g == QwBits * q
             e == 2 * f
  <2>2. q \in 0..n-1 /\ k \in x[q]
    BY <1>4, <2>1
  <2>3. k \in 0..QwBits-1 /\ f = g + k
    BY <2>1, QwordOf
  <2> HIDE DEF q, k
  <2>4. SquaredAt(x, q, r) /\ 2 * k \in Doubles(x[q])
    BY <2>2 DEF AllSquared, Doubles
  <2>5. g \in Nat /\ QwBits * (2 * q) = 2 * g
        /\ QwBits * (2 * q + 1) = 2 * g + QwBits
    BY <1>1, <2>2
  <2> HIDE DEF g
  <2>6. CASE 2 * k < QwBits
    <3> DEFINE t == 2 * q
               b == 2 * k
    <3>1. t \in 0..n2-1 /\ b \in 0..QwBits-1 /\ e = QwBits * t + b
      BY <1>1, <2>2, <2>3, <2>5, <2>6
    <3>2. b \in r[t]
      BY <2>4, <3>1 DEF SquaredAt
    <3> HIDE DEF t, b, e
    <3>3. e \in Nat /\ Qw(e) = t /\ Bit(e) = b
      BY <3>1, QwordIs
    <3>4. e \in PolyAt(r, 0, n2)
      BY <1>5, <3>1, <3>2, <3>3
    <3>5. QED
      BY <3>4 DEF e
  <2>7. CASE ~(2 * k < QwBits)
    <3> DEFINE t == 2 * q + 1
               b == 2 * k - QwBits
    <3>1. /\ t \in 0..n2-1 /\ b \in 0..QwBits-1 /\ e = QwBits * t + b
          /\ b + QwBits = 2 * k
      BY <1>1, <2>2, <2>3, <2>5, <2>7
    <3>2. b \in r[t]
      <4> HIDE DEF b
      <4>1. QED
        BY <2>4, <3>1 DEF SquaredAt
    <3> HIDE DEF t, b, e
    <3>3. e \in Nat /\ Qw(e) = t /\ Bit(e) = b
      BY <3>1, QwordIs
    <3>4. e \in PolyAt(r, 0, n2)
      BY <1>5, <3>1, <3>2, <3>3
    <3>5. QED
      BY <3>4 DEF e
  <2>8. QED
    BY <2>6, <2>7
<1>8. \A e \in Doubles(PolyAt(x, 0, n)) : e \in PolyAt(r, 0, n2)
  <2> HIDE DEF PolyAt
  <2>1. QED
    BY <1>7 DEF Doubles
<1>9. QED
  BY <1>6, <1>8

(* MulBaseX86's Poly is the polynomial in memory. *)
LEMMA VecPolyIs ==
  ASSUME NEW n \in Nat, NEW x \in Registers(n)
  PROVE  Vec!Poly(x) = PolyAt(x, 0, n)
<1>1. DOMAIN x = 0..n-1 /\ \A q \in 0..n-1 : x[q] \in SUBSET (0..QwBits-1)
  BY DEF Registers, Qwords
<1>2. Vec!Poly(x) = UNION {{q * QwBits + b : b \in x[q]} : q \in 0..n-1}
  BY <1>1 DEF Vec!Poly
<1>3. Vec!Poly(x) = ToPoly(x, n)
  BY <1>2 DEF ToPoly
<1>4. ToPoly(x, n) = {e \in 0 .. n * QwBits - 1 : Bit(e) \in x[Qw(e)]}
  <2>1. \A q \in 0..n-1 : x[q] \in Qwords
    BY <1>1 DEF Qwords
  <2>2. QED
    BY <2>1, ToPolyIs
<1>5. ASSUME NEW e \in 0 .. n * QwBits - 1
      PROVE  0 + Qw(e) = Qw(e)
  <2>1. n * QwBits \in Nat
    BY PolyBound
  <2>2. e \in Nat
    BY <2>1
  <2>3. Qw(e) \in Nat
    BY <2>2, QwordOf
  <2>4. QED
    BY <2>3
<1>6. QED
  BY <1>3, <1>4, <1>5 DEF PolyAt

(* And its Product is the product. *)
LEMMA VecProductIs ==
  ASSUME NEW n \in Nat, vecA \in Registers(n), NEW p, NEW q,
         p \in SUBSET (0 .. n * QwBits - 1), q \in SUBSET (0 .. n * QwBits - 1)
  PROVE  Vec!Product(p, q) = Product(p, q)
<1> DEFINE m == n * QwBits
<1>1. m \in Nat /\ QwBits \in Nat
  BY VecFacts, PolyBound
<1>2. Cardinality(DOMAIN vecA) = n
  <2>1. DOMAIN vecA = 0..n-1
    BY DEF Registers
  <2>2. 0 \in Int /\ n - 1 \in Int
    OBVIOUS
  <2>3. Cardinality(0..n-1) = IF 0 > n - 1 THEN 0 ELSE (n - 1) - 0 + 1
    BY <2>2, FS_Interval
  <2>4. QED
    BY <2>1, <2>3
<1>3. 2 * QwBits * Cardinality(DOMAIN vecA) = 2 * m
  BY <1>1, <1>2
<1> HIDE DEF m
<1>4. p \in SUBSET (0..m-1) /\ q \in SUBSET (0..m-1)
  BY DEF m
<1>5. p \in Polys /\ q \in Polys
  BY <1>1, <1>4, BoundedPolys
<1>6. Product(p, q) \in SUBSET (0 .. 2 * m - 2)
  BY <1>1, <1>4, ProductBound
<1>7. \A k \in 0 .. 2 * m : k \in Product(p, q) <=> Odd(Pairs(p, q, k))
  BY <1>1, <1>5, InProduct
<1>8. Vec!Product(p, q) = {k \in 0 .. 2 * m : Odd(Pairs(p, q, k))}
  <2>1. Vec!Product(p, q)
          = {k \in 0 .. 2 * QwBits * Cardinality(DOMAIN vecA) :
               Cardinality({i \in p : k - i \in q}) % 2 = 1}
    <3>1. \A T : Vec!Cardinality(T) = Cardinality(T)
      BY DEF Vec!Cardinality, Cardinality
    <3>2. QED
      BY <3>1 DEF Vec!Product
  <2>2. QED
    BY <1>3, <2>1 DEF Odd, Pairs
<1>9. QED
  BY <1>1, <1>6, <1>7, <1>8

(***************************************************************************)
(* The invariant of a run.                                                 *)
(***************************************************************************)

(* Of a product: the half-sized products that have been made are those of  *)
(* the halves, and of their sums.                                          *)
MulInv(h, xs, ys, x, y, p0, p1, m, r, at) ==
  /\ at \in {"low", "high", "middle", "store", "done"}
  /\ x \in Registers(2 * h) /\ y \in Registers(2 * h)
  /\ at # "low" => p0 \in Registers(2 * h) /\ Multiplies(h, x, 0, y, 0, p0)
  /\ at \notin {"low", "high"} =>
       p1 \in Registers(2 * h) /\ Multiplies(h, x, h, y, h, p1)
  /\ at \in {"store", "done"} =>
       m \in Registers(2 * h) /\ Multiplies(h, xs, 0, ys, 0, m)
  /\ at = "done" => r \in Registers(4 * h) /\ Multiplies(2 * h, x, 0, y, 0, r)

(* The quad-words before n are squared, the others of the result empty, as *)
(* those of the operand are that hold no bits of the polynomial.           *)
SquaredSoFar(n, x, r) ==
  \A q \in 0 .. Vec!PaddedQwords - 1 :
    /\ q < n => SquaredAt(x, q, r)
    /\ q >= n => r[2 * q] = {} /\ r[2 * q + 1] = {}
    /\ q >= SqrQwords => x[q] = {}

(* Of a square. *)
SqrInv(l, x, r, n, at) ==
  /\ at \in {"square", "done"}
  /\ at = "square" =>
       /\ n \in Nat /\ n < SqrQwords /\ n % l = 0
       /\ x \in Registers(Vec!PaddedQwords)
       /\ r \in Registers(2 * Vec!PaddedQwords)
       /\ SquaredSoFar(n, x, r)
  /\ at = "done" =>
       \E k \in Nat :
         x \in Registers(k) /\ r \in Registers(2 * k) /\ AllSquared(k, x, r)

VecInv ==
  /\ vecFn \in Vec!Functions
  /\ vecFn.op = "mul" =>
       MulInv(BaseHalf, Summed(vecA), Summed(vecB), vecA, vecB,
              vecLo, vecHi, vecMi, vecC, vecPc)
  /\ vecFn.op = "sqr" => SqrInv(Vec!Lanes, vecA, vecC, vecI, vecPc)

(* At the end it gives the property. *)
LEMMA VecInvGives == VecInv => BaseProductsExact
<1>1. SUFFICES ASSUME VecInv, vecPc = "done"
               PROVE  Vec!Poly(vecC) = IF vecFn.op = "mul"
                                       THEN Vec!Product(Vec!Poly(vecA), Vec!Poly(vecB))
                                       ELSE {2 * k : k \in Vec!Poly(vecA)}
  BY DEF BaseProductsExact, Vec!BaseProductsExact
<1>2. vecFn.op = "mul" \/ vecFn.op = "sqr"
  BY <1>1 DEF VecInv, Vec!Functions
<1>3. CASE vecFn.op = "mul"
  <2> DEFINE h == BaseHalf
             n == 2 * h
             n2 == 4 * h
             p == PolyAt(vecA, 0, n)
             q == PolyAt(vecB, 0, n)
  <2>1. n \in Nat /\ n2 \in Nat /\ n2 = 2 * n
    BY HalfIs
  <2>2. /\ vecA \in Registers(n) /\ vecB \in Registers(n)
        /\ vecC \in Registers(n2)
        /\ Multiplies(n, vecA, 0, vecB, 0, vecC)
    BY <1>1, <1>3 DEF VecInv, MulInv
  <2> HIDE DEF n, n2
  <2>3. PolyAt(vecC, 0, n2) = Product(p, q)
    BY <2>1, <2>2 DEF Multiplies
  <2>4. /\ Vec!Poly(vecA) = p /\ Vec!Poly(vecB) = q
        /\ Vec!Poly(vecC) = PolyAt(vecC, 0, n2)
    BY <2>1, <2>2, VecPolyIs
  <2>5. Vec!Product(p, q) = Product(p, q)
    <3>1. /\ p \in SUBSET (0 .. n * QwBits - 1)
          /\ q \in SUBSET (0 .. n * QwBits - 1)
      BY <2>1, PolyBound
    <3> HIDE DEF p, q
    <3>2. QED
      BY <2>1, <2>2, <3>1, VecProductIs
  <2> HIDE DEF p, q
  <2>6. QED
    BY <1>3, <2>3, <2>4, <2>5
<1>4. CASE vecFn.op = "sqr"
  <2>1. PICK n \in Nat : /\ vecA \in Registers(n) /\ vecC \in Registers(2 * n)
                         /\ AllSquared(n, vecA, vecC)
    BY <1>1, <1>4 DEF VecInv, SqrInv
  <2> DEFINE n2 == 2 * n
  <2>2. n2 \in Nat /\ vecC \in Registers(n2) /\ n2 = 2 * n
    BY <2>1
  <2> HIDE DEF n2
  <2>3. /\ Vec!Poly(vecA) = PolyAt(vecA, 0, n)
        /\ Vec!Poly(vecC) = PolyAt(vecC, 0, n2)
    BY <2>1, <2>2, VecPolyIs
  <2>4. PolyAt(vecC, 0, n2) = Doubles(PolyAt(vecA, 0, n))
    BY <2>1, <2>2, SquaredPoly
  <2>5. vecFn.op # "mul"
    BY <1>4
  <2>6. QED
    BY <2>3, <2>4, <2>5 DEF Doubles
<1>5. QED
  BY <1>2, <1>3, <1>4

(* The operands of a run as registers. *)
LEMMA QwordsOfPoly ==
  ASSUME NEW n \in Nat, NEW p
  PROVE  Vec!ToQwords(p, n) \in Registers(n)
BY VecFacts DEF Vec!ToQwords, Registers, Qwords

(* The padding of an operand to square is empty, and is a number of turns. *)
LEMMA SquaredPadding ==
  /\ Vec!PaddedQwords \in Nat /\ Vec!PaddedQwords >= SqrQwords
  /\ Vec!PaddedQwords % 8 = 0
  /\ \A p \in Squared : \A q \in 0 .. Vec!PaddedQwords - 1 :
       q >= SqrQwords => Vec!ToQwords(p, Vec!PaddedQwords)[q] = {}
<1> DEFINE P == Vec!PaddedQwords
<1>1. P \in Nat /\ P >= SqrQwords /\ P % 8 = 0
  <2> DEFINE s == SqrQwords + 7
             d == s \div 8
             m == s % 8
  <2>1. s \in Int /\ 8 \in Nat \ {0}
    BY VecFacts
  <2>2. d \in Int /\ m \in 0..7 /\ s = 8 * d + m
    <3> HIDE DEF s
    <3>1. d \in Int /\ m \in 0..8-1 /\ s = 8 * d + m
      BY <2>1, Divided
    <3>2. QED
      BY <3>1
  <2>3. P = 8 * d
    BY DEF Vec!PaddedQwords
  <2> HIDE DEF d, m
  <2>4. SqrQwords \in Nat
    BY VecFacts
  <2>5. QED
    BY <2>2, <2>3, <2>4
<1> HIDE DEF P
<1>2. ASSUME NEW p \in Squared, NEW q \in 0..P-1, q >= SqrQwords
      PROVE  Vec!ToQwords(p, P)[q] = {}
  <2>1. /\ p \in SUBSET (0 .. SqrQwords * QwBits - 1) /\ QwBits \in Nat
        /\ SqrQwords \in Nat
    BY VecFacts
  <2>2. Vec!ToQwords(p, P)[q] = {k \in 0..QwBits-1 : q * QwBits + k \in p}
    BY VecFacts DEF Vec!ToQwords
  <2>3. /\ q * QwBits >= SqrQwords * QwBits /\ q * QwBits \in Nat
        /\ SqrQwords * QwBits \in Nat
    <3>1. q \in Nat /\ q - SqrQwords \in Nat
      BY <1>1, <1>2, <2>1
    <3>2. (q - SqrQwords) * QwBits \in Nat /\ SqrQwords * QwBits \in Nat
      BY <2>1, <3>1
    <3>3. q * QwBits = SqrQwords * QwBits + (q - SqrQwords) * QwBits
      BY <2>1, <3>1
    <3>4. QED
      BY <3>2, <3>3
  <2> DEFINE g == q * QwBits
             u == SqrQwords * QwBits
  <2>4. \A k \in 0..QwBits-1 : g + k \notin p
    <3>1. p \in SUBSET (0..u-1) /\ g >= u /\ g \in Nat /\ u \in Nat
      BY <2>1, <2>3
    <3> HIDE DEF g, u
    <3>2. QED
      BY <2>1, <3>1
  <2>5. QED
    BY <2>2, <2>4
<1>3. QED
  BY <1>1, <1>2 DEF P

(* The sums of the operands stay as the operands do. *)
LEMMA SummedStays ==
  ASSUME vecFn' = vecFn, vecA' = vecA, vecB' = vecB
  PROVE  /\ Summed(vecA)' = Summed(vecA) /\ Summed(vecB)' = Summed(vecB)
         /\ BaseHalf' = BaseHalf /\ Vec!Lanes' = Vec!Lanes
BY DEF Summed, Vec!(+), Vec!Low, Vec!High, Vec!Half, Vec!BaseQwords, BaseHalf,
       Vec!Lanes

(* In a product, the invariant goes on with the product. *)
LEMMA MulGoesOn ==
  ASSUME VecInv, vecFn.op = "mul",
         vecFn' = vecFn, vecA' = vecA, vecB' = vecB,
         MulInv(BaseHalf, Summed(vecA), Summed(vecB), vecA, vecB,
                vecLo', vecHi', vecMi', vecC', vecPc')
  PROVE  VecInv'
<1> DEFINE h == BaseHalf
           xs == Summed(vecA)
           ys == Summed(vecB)
           xs1 == Summed(vecA)'
           ys1 == Summed(vecB)'
           h1 == BaseHalf'
<1>1. xs1 = xs /\ ys1 = ys /\ h1 = h
  BY SummedStays
<1>2. MulInv(h, xs, ys, vecA, vecB, vecLo', vecHi', vecMi', vecC', vecPc')
  OBVIOUS
<1>3. VecInv' =
        (/\ vecFn' \in Vec!Functions
         /\ vecFn'.op = "mul" =>
              MulInv(h1, xs1, ys1, vecA', vecB', vecLo', vecHi', vecMi', vecC', vecPc')
         /\ vecFn'.op = "sqr" =>
              SqrInv(Vec!Lanes', vecA', vecC', vecI', vecPc'))
  BY DEF VecInv, MulInv, SqrInv, SquaredSoFar, Vec!PaddedQwords, Vec!Functions,
         AllSquared, SquaredAt, Multiplies, PolyAt, Product, Registers, Qwords
<1> HIDE DEF xs1, ys1, h1, h, xs, ys
<1>4. MulInv(h1, xs1, ys1, vecA', vecB', vecLo', vecHi', vecMi', vecC', vecPc')
  BY <1>1, <1>2
<1>5. vecFn' \in Vec!Functions /\ vecFn'.op # "sqr"
  BY DEF VecInv
<1>6. QED
  BY <1>3, <1>4, <1>5

(* MultiplyLow. *)
LEMMA MultiplyLowStep ==
  ASSUME VecInv, Vec!MultiplyLow
  PROVE  VecInv'
<1> DEFINE h == BaseHalf
           x0 == Vec!Low(vecA)
           y0 == Vec!Low(vecB)
           new == vecLo'
<1>1. /\ vecPc = "low" /\ new = Vec!MulHalf(x0, y0) /\ vecPc' = "high"
      /\ vecFn' = vecFn /\ vecA' = vecA /\ vecB' = vecB
      /\ vecHi' = vecHi /\ vecMi' = vecMi /\ vecC' = vecC
  BY DEF Vec!MultiplyLow
<1>2. vecFn.op = "mul"
  <2>1. vecFn.op \in {"mul", "sqr"}
    BY DEF VecInv, Vec!Functions
  <2>2. vecFn.op # "sqr"
    BY <1>1 DEF VecInv, SqrInv
  <2>3. QED
    BY <2>1, <2>2
<1>3. MulInv(h, Summed(vecA), Summed(vecB), vecA, vecB,
             vecLo, vecHi, vecMi, vecC, vecPc)
  BY <1>2 DEF VecInv
<1>4. vecA \in Registers(2 * h) /\ vecB \in Registers(2 * h)
  BY <1>3 DEF MulInv
<1>5. /\ x0 \in Registers(h) /\ y0 \in Registers(h)
      /\ \A q \in 0..h-1 : x0[q] = vecA[q] /\ y0[q] = vecB[q]
  BY <1>4, HalvesOfRegister
<1> HIDE DEF x0, y0, new
<1>6. new \in Registers(2 * h) /\ Multiplies(h, x0, 0, y0, 0, new)
  BY <1>1, <1>5, MulHalfMultiplies
<1>7. h \in Nat
  BY HalfIs
<1> HIDE DEF h
<1>8. Multiplies(h, vecA, 0, vecB, 0, new)
  <2>1. \A q \in 0..h-1 : vecA[0 + q] = x0[0 + q] /\ vecB[0 + q] = y0[0 + q]
    BY <1>5, <1>7
  <2>2. QED
    BY <1>6, <1>7, <2>1, SameMultiplies
<1>9. MulInv(h, Summed(vecA), Summed(vecB), vecA, vecB,
             vecLo', vecHi', vecMi', vecC', vecPc')
  BY <1>1, <1>4, <1>6, <1>8 DEF MulInv, new
<1>10. QED
  BY <1>1, <1>2, <1>9, MulGoesOn DEF h

(* MultiplyHigh. *)
LEMMA MultiplyHighStep ==
  ASSUME VecInv, Vec!MultiplyHigh
  PROVE  VecInv'
<1> DEFINE h == BaseHalf
           x1 == Vec!High(vecA)
           y1 == Vec!High(vecB)
           new == vecHi'
<1>1. /\ vecPc = "high" /\ new = Vec!MulHalf(x1, y1) /\ vecPc' = "middle"
      /\ vecFn' = vecFn /\ vecA' = vecA /\ vecB' = vecB
      /\ vecLo' = vecLo /\ vecMi' = vecMi /\ vecC' = vecC
  BY DEF Vec!MultiplyHigh
<1>2. vecFn.op = "mul"
  <2>1. vecFn.op \in {"mul", "sqr"}
    BY DEF VecInv, Vec!Functions
  <2>2. vecFn.op # "sqr"
    BY <1>1 DEF VecInv, SqrInv
  <2>3. QED
    BY <2>1, <2>2
<1>3. MulInv(h, Summed(vecA), Summed(vecB), vecA, vecB,
             vecLo, vecHi, vecMi, vecC, vecPc)
  BY <1>2 DEF VecInv
<1>4. /\ vecA \in Registers(2 * h) /\ vecB \in Registers(2 * h)
      /\ vecLo \in Registers(2 * h) /\ Multiplies(h, vecA, 0, vecB, 0, vecLo)
  BY <1>1, <1>3 DEF MulInv
<1>5. /\ x1 \in Registers(h) /\ y1 \in Registers(h)
      /\ \A q \in 0..h-1 : x1[q] = vecA[h + q] /\ y1[q] = vecB[h + q]
  BY <1>4, HalvesOfRegister
<1> HIDE DEF x1, y1, new
<1>6. new \in Registers(2 * h) /\ Multiplies(h, x1, 0, y1, 0, new)
  BY <1>1, <1>5, MulHalfMultiplies
<1>7. h \in Nat
  BY HalfIs
<1> HIDE DEF h
<1>8. Multiplies(h, vecA, h, vecB, h, new)
  <2>1. \A q \in 0..h-1 : vecA[h + q] = x1[0 + q] /\ vecB[h + q] = y1[0 + q]
    BY <1>5, <1>7
  <2>2. QED
    BY <1>6, <1>7, <2>1, SameMultiplies
<1>9. MulInv(h, Summed(vecA), Summed(vecB), vecA, vecB,
             vecLo', vecHi', vecMi', vecC', vecPc')
  BY <1>1, <1>4, <1>6, <1>8 DEF MulInv, new
<1>10. QED
  BY <1>1, <1>2, <1>9, MulGoesOn DEF h

(* MultiplyMiddle. *)
LEMMA MultiplyMiddleStep ==
  ASSUME VecInv, Vec!MultiplyMiddle
  PROVE  VecInv'
<1> DEFINE h == BaseHalf
           xs == Summed(vecA)
           ys == Summed(vecB)
           new == vecMi'
<1>1. /\ vecPc = "middle" /\ new = Vec!MulHalf(xs, ys) /\ vecPc' = "store"
      /\ vecFn' = vecFn /\ vecA' = vecA /\ vecB' = vecB
      /\ vecLo' = vecLo /\ vecHi' = vecHi /\ vecC' = vecC
  BY DEF Vec!MultiplyMiddle, Summed
<1>2. vecFn.op = "mul"
  <2>1. vecFn.op \in {"mul", "sqr"}
    BY DEF VecInv, Vec!Functions
  <2>2. vecFn.op # "sqr"
    BY <1>1 DEF VecInv, SqrInv
  <2>3. QED
    BY <2>1, <2>2
<1>3. MulInv(h, xs, ys, vecA, vecB, vecLo, vecHi, vecMi, vecC, vecPc)
  BY <1>2 DEF VecInv
<1>4. /\ vecA \in Registers(2 * h) /\ vecB \in Registers(2 * h)
      /\ vecLo \in Registers(2 * h) /\ Multiplies(h, vecA, 0, vecB, 0, vecLo)
      /\ vecHi \in Registers(2 * h) /\ Multiplies(h, vecA, h, vecB, h, vecHi)
  BY <1>1, <1>3 DEF MulInv
<1>5. xs \in Registers(h) /\ ys \in Registers(h)
  BY <1>4, SummedIs
<1> HIDE DEF xs, ys, new
<1>6. new \in Registers(2 * h) /\ Multiplies(h, xs, 0, ys, 0, new)
  BY <1>1, <1>5, MulHalfMultiplies
<1> HIDE DEF h
<1>7. MulInv(h, xs, ys, vecA, vecB, vecLo', vecHi', vecMi', vecC', vecPc')
  BY <1>1, <1>4, <1>6 DEF MulInv, new
<1>8. QED
  BY <1>1, <1>2, <1>7, MulGoesOn DEF h, xs, ys

(* Store. *)
LEMMA StoreStep ==
  ASSUME VecInv, Vec!Store
  PROVE  VecInv'
<1> DEFINE h == BaseHalf
           xs == Summed(vecA)
           ys == Summed(vecB)
           mid == Vec!(+)(Vec!High(vecLo), Vec!Low(vecHi))
           new == vecC'
           joined == Vec!Joined(
               Vec!Joined(Vec!Low(vecLo),
                          Vec!(+)(Vec!(+)(Vec!Low(vecMi), Vec!Low(vecLo)), mid)),
               Vec!Joined(Vec!(+)(Vec!(+)(Vec!High(vecMi), Vec!High(vecHi)), mid),
                          Vec!High(vecHi)))
<1>1. /\ vecPc = "store" /\ vecPc' = "done" /\ new = joined
      /\ vecFn' = vecFn /\ vecA' = vecA /\ vecB' = vecB
      /\ vecLo' = vecLo /\ vecHi' = vecHi /\ vecMi' = vecMi
  BY DEF Vec!Store
<1>2. vecFn.op = "mul"
  <2>1. vecFn.op \in {"mul", "sqr"}
    BY DEF VecInv, Vec!Functions
  <2>2. vecFn.op # "sqr"
    BY <1>1 DEF VecInv, SqrInv
  <2>3. QED
    BY <2>1, <2>2
<1>3. MulInv(h, xs, ys, vecA, vecB, vecLo, vecHi, vecMi, vecC, vecPc)
  BY <1>2 DEF VecInv
<1> HIDE DEF new
<1>4. /\ vecA \in Registers(2 * h) /\ vecB \in Registers(2 * h)
      /\ vecLo \in Registers(2 * h) /\ Multiplies(h, vecA, 0, vecB, 0, vecLo)
      /\ vecHi \in Registers(2 * h) /\ Multiplies(h, vecA, h, vecB, h, vecHi)
      /\ vecMi \in Registers(2 * h) /\ Multiplies(h, xs, 0, ys, 0, vecMi)
  BY <1>1, <1>3 DEF MulInv
<1>5. new \in Registers(4 * h) /\ Multiplies(2 * h, vecA, 0, vecB, 0, new)
  BY <1>1, <1>4, StoreMultiplies
<1> HIDE DEF h, xs, ys
<1>6. MulInv(h, xs, ys, vecA, vecB, vecLo', vecHi', vecMi', vecC', vecPc')
  BY <1>1, <1>4, <1>5 DEF MulInv, new
<1>7. QED
  BY <1>1, <1>2, <1>6, MulGoesOn DEF h, xs, ys

(* In a squaring, the invariant goes on with the squaring. *)
LEMMA SqrGoesOn ==
  ASSUME VecInv, vecFn.op = "sqr", vecFn' = vecFn,
         SqrInv(Vec!Lanes, vecA', vecC', vecI', vecPc')
  PROVE  VecInv'
<1> DEFINE l == Vec!Lanes
           l1 == Vec!Lanes'
<1>1. l1 = l
  BY DEF Vec!Lanes
<1>2. SqrInv(l, vecA', vecC', vecI', vecPc')
  OBVIOUS
<1>3. VecInv' =
        (/\ vecFn' \in Vec!Functions
         /\ vecFn'.op = "mul" =>
              MulInv(BaseHalf', Summed(vecA)', Summed(vecB)', vecA', vecB',
                     vecLo', vecHi', vecMi', vecC', vecPc')
         /\ vecFn'.op = "sqr" => SqrInv(l1, vecA', vecC', vecI', vecPc'))
  BY DEF VecInv, MulInv, SqrInv, SquaredSoFar, Vec!PaddedQwords, Vec!Functions,
         AllSquared, SquaredAt, Multiplies, PolyAt, Product, Registers, Qwords
<1> HIDE DEF l, l1
<1>4. SqrInv(l1, vecA', vecC', vecI', vecPc')
  BY <1>1, <1>2
<1>5. vecFn' \in Vec!Functions /\ vecFn'.op # "mul"
  BY DEF VecInv
<1>6. QED
  BY <1>3, <1>4, <1>5

(* The quad-words of a turn. *)
LEMMA SquaredLanes ==
  ASSUME NEW l, l = Vec!Lanes, vecFn \in Vec!Functions, NEW x \in Registers(l),
         NEW p, p = IF vecFn.vector
                    THEN Vec!PERMXVAR_I64(Vec!SET_I64(<<7, 3, 6, 2, 5, 1, 4, 0>>), x)
                    ELSE x,
         NEW r, r = Vec!Joined(Vec!CLMUL(p, p, 0), Vec!CLMUL(p, p, 1))
  PROVE  r \in Registers(2 * l) /\ \A q \in 0..l-1 : SquaredAt(x, q, r)
<1>1. CASE vecFn.vector
  <2>1. l = 8 /\ x \in Registers(8)
        /\ p = Vec!PERMXVAR_I64(Vec!SET_I64(<<7, 3, 6, 2, 5, 1, 4, 0>>), x)
    BY <1>1 DEF Vec!Lanes
  <2>2. r \in Registers(16) /\ \A q \in 0..7 : SquaredAt(x, q, r)
    BY ONLY <2>1, r = Vec!Joined(Vec!CLMUL(p, p, 0), Vec!CLMUL(p, p, 1)), EightSquares
  <2>3. 2 * l = 16 /\ l - 1 = 7
    BY <2>1
  <2>4. QED
    BY <2>2, <2>3
<1>2. CASE ~vecFn.vector
  <2>1. l = 2 /\ x \in Registers(2) /\ p = x
    BY <1>2 DEF Vec!Lanes
  <2>2. r = Vec!Joined(Vec!CLMUL(x, x, 0), Vec!CLMUL(x, x, 1))
    BY <2>1
  <2>3. r \in Registers(4) /\ \A q \in 0..1 : SquaredAt(x, q, r)
    BY ONLY <2>1, <2>2, TwoSquares
  <2>4. 2 * l = 4 /\ l - 1 = 1
    BY <2>1
  <2>5. QED
    BY <2>3, <2>4
<1>3. QED
  BY <1>1, <1>2

(* cc is r with the 2l quad-words of vr put at 2n. *)
PutAt(cc, r, vr, n, l) ==
  cc = [j \in DOMAIN r |-> IF j \in 2 * n .. 2 * (n + l) - 1 THEN vr[j - 2 * n]
                           ELSE r[j]]

(* What is put, and what is left. *)
LEMMA PutLanes ==
  ASSUME NEW k \in Nat, NEW r \in Registers(k), NEW n \in Nat, NEW l \in Nat,
         2 * (n + l) <= k, NEW vr \in Registers(2 * l), NEW cc, PutAt(cc, r, vr, n, l)
  PROVE  /\ cc \in Registers(k)
         /\ \A q \in 0..l-1 : /\ cc[2 * (n + q)] = vr[2 * q]
                              /\ cc[2 * (n + q) + 1] = vr[2 * q + 1]
         /\ \A j \in 0..k-1 : j < 2 * n \/ j >= 2 * (n + l) => cc[j] = r[j]
<1>1. DOMAIN r = 0..k-1 /\ \A j \in 0..k-1 : r[j] \in Qwords
  BY DEF Registers
<1>2. \A j \in 0 .. 2 * l - 1 : vr[j] \in Qwords
  BY DEF Registers
<1>3. /\ DOMAIN cc = 0..k-1
      /\ cc = [j \in 0..k-1 |-> cc[j]]
      /\ \A j \in 0..k-1 :
           cc[j]
               = IF j \in 2 * n .. 2 * (n + l) - 1 THEN vr[j - 2 * n] ELSE r[j]
  BY <1>1 DEF PutAt
<1>4. ASSUME NEW j \in 0..k-1
      PROVE  /\ j \in 2 * n .. 2 * (n + l) - 1 => cc[j] = vr[j - 2 * n]
             /\ j \notin 2 * n .. 2 * (n + l) - 1 => cc[j] = r[j]
  BY <1>3
<1>5. ASSUME NEW j \in 0..k-1
      PROVE  cc[j] \in Qwords
  <2>1. j \in 2 * n .. 2 * (n + l) - 1 => j - 2 * n \in 0 .. 2 * l - 1
    OBVIOUS
  <2>2. QED
    BY <1>1, <1>2, <1>4, <2>1
<1>6. cc \in Registers(k)
  BY <1>3, <1>5 DEF Registers
<1>7. ASSUME NEW q \in 0..l-1
      PROVE  cc[2 * (n + q)] = vr[2 * q] /\ cc[2 * (n + q) + 1] = vr[2 * q + 1]
  <2> DEFINE j0 == 2 * (n + q)
             j1 == 2 * (n + q) + 1
  <2>1. /\ j0 \in 0..k-1 /\ j0 \in 2 * n .. 2 * (n + l) - 1
        /\ j0 - 2 * n = 2 * q
        /\ j1 \in 0..k-1 /\ j1 \in 2 * n .. 2 * (n + l) - 1
        /\ j1 - 2 * n = 2 * q + 1
    OBVIOUS
  <2> HIDE DEF j0, j1
  <2>2. cc[j0] = vr[2 * q] /\ cc[j1] = vr[2 * q + 1]
    BY <1>4, <2>1
  <2>3. QED
    BY <2>2 DEF j0, j1
<1>8. ASSUME NEW j \in 0..k-1, j < 2 * n \/ j >= 2 * (n + l)
      PROVE  cc[j] = r[j]
  <2>1. j \notin 2 * n .. 2 * (n + l) - 1
    BY <1>8
  <2>2. QED
    BY <1>4, <2>1
<1>9. QED
  BY <1>6, <1>7, <1>8

(* A turn squares the next quad-words. *)
LEMMA SquaredFurther ==
  ASSUME NEW P, P = Vec!PaddedQwords, P \in Nat, NEW n \in Nat, NEW l \in Nat,
         n + l <= P,
         NEW x \in Registers(P), NEW r \in Registers(2 * P),
         SquaredSoFar(n, x, r),
         NEW y \in Registers(l), \A q \in 0..l-1 : y[q] = x[n + q],
         NEW vr \in Registers(2 * l), \A q \in 0..l-1 : SquaredAt(y, q, vr),
         NEW cc, PutAt(cc, r, vr, n, l)
  PROVE  cc \in Registers(2 * P) /\ SquaredSoFar(n + l, x, cc)
<1> DEFINE k == 2 * P
<1>1. k \in Nat /\ 2 * (n + l) <= k
  OBVIOUS
<1>2. /\ cc \in Registers(k)
      /\ \A q \in 0..l-1 : /\ cc[2 * (n + q)] = vr[2 * q]
                           /\ cc[2 * (n + q) + 1] = vr[2 * q + 1]
      /\ \A j \in 0..k-1 : j < 2 * n \/ j >= 2 * (n + l) => cc[j] = r[j]
  <2> HIDE DEF k
  <2>1. r \in Registers(k)
    BY DEF k
  <2>2. QED
    BY <1>1, <2>1, PutLanes
<1>3. ASSUME NEW q \in 0..P-1
      PROVE  /\ q < n + l => SquaredAt(x, q, cc)
             /\ q >= n + l => cc[2 * q] = {} /\ cc[2 * q + 1] = {}
             /\ q >= SqrQwords => x[q] = {}
  <2>1. /\ q < n => SquaredAt(x, q, r)
        /\ q >= n => r[2 * q] = {} /\ r[2 * q + 1] = {}
        /\ q >= SqrQwords => x[q] = {}
    BY DEF SquaredSoFar
  <2> DEFINE j0 == 2 * q
             j1 == 2 * q + 1
  <2>2. /\ j0 \in 0..k-1 /\ j1 \in 0..k-1
        /\ q < n => j0 < 2 * n /\ j1 < 2 * n
        /\ q >= n + l => j0 >= 2 * (n + l) /\ j1 >= 2 * (n + l)
    OBVIOUS
  <2> HIDE DEF j0, j1
  <2>3. q < n \/ q >= n + l => cc[j0] = r[j0] /\ cc[j1] = r[j1]
    BY <1>2, <2>2
  <2>4. CASE q < n
    <3>1. SquaredAt(x, q, cc)
      BY <2>1, <2>3, <2>4 DEF SquaredAt, j0, j1
    <3>2. ~(q >= n + l)
      BY <2>4
    <3>3. QED
      BY <2>1, <3>1, <3>2
  <2>5. CASE q >= n + l
    <3>1. cc[j0] = {} /\ cc[j1] = {}
      BY <2>1, <2>3, <2>5 DEF j0, j1
    <3>2. ~(q < n + l)
      BY <2>5
    <3>3. QED
      BY <2>1, <3>1, <3>2 DEF j0, j1
  <2>6. CASE ~(q < n) /\ ~(q >= n + l)
    <3> DEFINE s == q - n
    <3>1. s \in 0..l-1 /\ n + s = q /\ q < n + l
      BY <2>6
    <3> HIDE DEF s
    <3>2. cc[2 * q] = vr[2 * s] /\ cc[2 * q + 1] = vr[2 * s + 1]
      BY <1>2, <3>1
    <3>3. SquaredAt(y, s, vr) /\ y[s] = x[q]
      BY <3>1
    <3>4. SquaredAt(x, q, cc)
      BY <3>2, <3>3 DEF SquaredAt
    <3>5. QED
      BY <2>1, <2>6, <3>1, <3>4
  <2>7. QED
    BY <2>4, <2>5, <2>6
<1>4. SquaredSoFar(n + l, x, cc)
  BY <1>3 DEF SquaredSoFar
<1>5. QED
  BY <1>2, <1>4

(* When the quad-words that hold bits are squared, all are. *)
LEMMA SquaredAtLast ==
  ASSUME NEW n \in Nat, n >= SqrQwords, NEW x, NEW r, SquaredSoFar(n, x, r)
  PROVE  AllSquared(Vec!PaddedQwords, x, r)
<1>1. SqrQwords \in Nat /\ QwBits \in Nat /\ Vec!PaddedQwords \in Nat
  BY VecFacts, SquaredPadding
<1>2. ASSUME NEW q \in 0 .. Vec!PaddedQwords - 1
      PROVE  SquaredAt(x, q, r)
  <2>1. /\ q < n => SquaredAt(x, q, r)
        /\ q >= n => r[2 * q] = {} /\ r[2 * q + 1] = {}
        /\ q >= SqrQwords => x[q] = {}
    BY DEF SquaredSoFar
  <2>2. q \in Nat
    BY <1>1
  <2>3. CASE q >= n
    <3>1. r[2 * q] = {} /\ r[2 * q + 1] = {} /\ x[q] = {}
      BY <1>1, <2>1, <2>2, <2>3
    <3>2. Doubles(x[q]) = {}
      BY <3>1 DEF Doubles
    <3>3. QED
      BY <3>1, <3>2 DEF SquaredAt
  <2>4. CASE ~(q >= n)
    <3>1. q < n
      BY <2>2, <2>4
    <3>2. QED
      BY <2>1, <3>1
  <2>5. QED
    BY <2>3, <2>4
<1>3. QED
  BY <1>2 DEF AllSquared

(* A turn stays within the padded operand. *)
LEMMA TurnWithin ==
  ASSUME NEW l \in {2, 8}, NEW n \in Nat, NEW P \in Nat, n < P, n % l = 0,
         P % 8 = 0
  PROVE  n + l <= P /\ (n + l) % l = 0
<1>1. CASE l = 8
  BY <1>1
<1>2. CASE l = 2
  BY <1>2
<1>3. QED
  BY <1>1, <1>2

(* SquareRegister. *)
LEMMA SquareRegisterStep ==
  ASSUME VecInv, Vec!SquareRegister
  PROVE  VecInv'
<1> DEFINE l == Vec!Lanes
           x == Vec!Piece(vecA, vecI, l)
           p == IF vecFn.vector
                THEN Vec!PERMXVAR_I64(Vec!SET_I64(<<7, 3, 6, 2, 5, 1, 4, 0>>), x)
                ELSE x
           vr == Vec!Joined(Vec!CLMUL(p, p, 0), Vec!CLMUL(p, p, 1))
           P == Vec!PaddedQwords
           new == vecC'
           n == vecI
           n1 == vecI + l
<1>1. /\ vecPc = "square" /\ vecFn' = vecFn /\ vecA' = vecA /\ vecI' = n1
      /\ vecPc' = IF n1 < SqrQwords THEN "square" ELSE "done"
      /\ PutAt(new, vecC, vr, n, l)
  BY DEF Vec!SquareRegister, PutAt
<1>2. vecFn \in Vec!Functions /\ vecFn.op = "sqr"
  <2>1. vecFn \in Vec!Functions /\ vecFn.op \in {"mul", "sqr"}
    BY DEF VecInv, Vec!Functions
  <2>2. vecFn.op # "mul"
    BY <1>1 DEF VecInv, MulInv
  <2>3. QED
    BY <2>1, <2>2
<1>3. /\ n \in Nat /\ n < SqrQwords /\ n % l = 0
      /\ vecA \in Registers(P) /\ vecC \in Registers(2 * P)
      /\ SquaredSoFar(n, vecA, vecC)
  BY <1>1, <1>2 DEF VecInv, SqrInv
<1>4. l \in {2, 8}
  BY DEF Vec!Lanes
<1>5. P \in Nat /\ n < P /\ P % 8 = 0 /\ SqrQwords \in Nat
  <2> HIDE DEF P, l
  <2>1. P \in Nat /\ P >= SqrQwords /\ P % 8 = 0 /\ SqrQwords \in Nat
    BY SquaredPadding, VecFacts DEF P
  <2>2. QED
    BY <1>3, <2>1
<1> HIDE DEF p, vr, new
<1>6. l \in Nat /\ n1 \in Nat /\ n1 <= P /\ n1 % l = 0
  <2> HIDE DEF l, P
  <2>1. n + l <= P /\ (n + l) % l = 0
    BY <1>3, <1>4, <1>5, TurnWithin
  <2>2. QED
    BY <1>3, <1>4, <2>1
<1>7. x \in Registers(l) /\ \A q \in 0..l-1 : x[q] = vecA[n + q]
  <2> HIDE DEF P, l
  <2>1. QED
    BY <1>3, <1>5, <1>6, PieceIs
<1>8. vr \in Registers(2 * l) /\ \A q \in 0..l-1 : SquaredAt(x, q, vr)
  BY <1>2, <1>7, SquaredLanes DEF p, vr
<1>9. new \in Registers(2 * P) /\ SquaredSoFar(n1, vecA, new)
  <2>1. P = Vec!PaddedQwords
    OBVIOUS
  <2> HIDE DEF P, l, x
  <2>2. QED
    BY <1>1, <1>3, <1>5, <1>6, <1>7, <1>8, <2>1, SquaredFurther
<1>10. SqrInv(l, vecA', vecC', vecI', vecPc')
  <2>1. CASE n1 < SqrQwords
    <3>1. vecPc' = "square"
      BY <1>1, <2>1
    <3> HIDE DEF l
    <3>2. QED
      BY <1>1, <1>3, <1>6, <1>9, <2>1, <3>1 DEF SqrInv, new
  <2>2. CASE ~(n1 < SqrQwords)
    <3>1. vecPc' = "done" /\ n1 >= SqrQwords
      BY <1>1, <1>5, <1>6, <2>2
    <3>2. AllSquared(P, vecA, new)
      <4> HIDE DEF n1
      <4>1. QED
        BY <1>6, <1>9, <3>1, SquaredAtLast
    <3> HIDE DEF l, P
    <3>3. \E k \in Nat : /\ vecA' \in Registers(k) /\ vecC' \in Registers(2 * k)
                         /\ AllSquared(k, vecA', vecC')
      BY <1>1, <1>3, <1>5, <1>9, <3>2 DEF new
    <3>4. QED
      BY <3>1, <3>3 DEF SqrInv
  <2>3. QED
    BY <2>1, <2>2
<1>11. QED
  BY <1>1, <1>2, <1>10, SqrGoesOn

(* The invariant holds at first, with any operands. *)
LEMMA VecInitInv ==
  ASSUME Vec!Init
  PROVE  VecInv
<1>1. vecFn \in Vec!Functions
  BY DEF Vec!Init
<1>2. CASE vecFn.op = "mul"
  <2> DEFINE h == BaseHalf
             n == Vec!BaseQwords
  <2>1. /\ \E pair \in Factors[n] :
              vecA = Vec!ToQwords(pair[1], n) /\ vecB = Vec!ToQwords(pair[2], n)
        /\ vecPc = "low"
    BY <1>2 DEF Vec!Init
  <2>2. n = 2 * h /\ n \in Nat
    BY HalfIs
  <2> HIDE DEF n, h
  <2>3. vecA \in Registers(n) /\ vecB \in Registers(n)
    BY <2>1, <2>2, QwordsOfPoly
  <2>4. MulInv(h, Summed(vecA), Summed(vecB), vecA, vecB,
               vecLo, vecHi, vecMi, vecC, vecPc)
    BY <2>1, <2>2, <2>3 DEF MulInv
  <2>5. QED
    BY <1>1, <1>2, <2>4 DEF VecInv, h
<1>3. CASE vecFn.op = "sqr"
  <2> DEFINE P == Vec!PaddedQwords
             k == 2 * P
  <2>1. PICK p \in Squared : vecA = Vec!ToQwords(p, P)
    BY <1>3 DEF Vec!Init
  <2>2. vecC = Vec!ToQwords({}, k) /\ vecI = 0 /\ vecPc = "square"
    BY <1>3 DEF Vec!Init
  <2>3. /\ P \in Nat /\ k \in Nat /\ SqrQwords \in Nat \ {0}
        /\ \A q \in 0..P-1 : q >= SqrQwords => Vec!ToQwords(p, P)[q] = {}
    <3>1. /\ P \in Nat
          /\ \A q \in 0..P-1 :
               q >= SqrQwords => Vec!ToQwords(p, P)[q] = {}
      BY SquaredPadding
    <3> HIDE DEF P
    <3>2. QED
      BY <3>1, VecFacts
  <2>4. vecA \in Registers(P) /\ vecC \in Registers(k)
    <3> HIDE DEF P, k
    <3>1. QED
      BY <2>1, <2>2, <2>3, QwordsOfPoly
  <2>5. \A j \in 0..k-1 : vecC[j] = {}
    <3> HIDE DEF k
    <3>1. QED
      BY <2>2, <2>3 DEF Vec!ToQwords
  <2>6. ASSUME NEW q \in 0..P-1
        PROVE  /\ ~(q < vecI) /\ vecC[2 * q] = {} /\ vecC[2 * q + 1] = {}
               /\ q >= SqrQwords => vecA[q] = {}
    <3> HIDE DEF P
    <3>1. ~(q < vecI) /\ 2 * q \in 0..k-1 /\ 2 * q + 1 \in 0..k-1
      BY <2>2, <2>3
    <3> HIDE DEF k
    <3>2. QED
      BY <2>1, <2>3, <2>5, <3>1
  <2>7. SquaredSoFar(vecI, vecA, vecC)
    BY <2>6 DEF SquaredSoFar
  <2>8. vecI % Vec!Lanes = 0
    BY <2>2 DEF Vec!Lanes
  <2> HIDE DEF P
  <2>9. SqrInv(Vec!Lanes, vecA, vecC, vecI, vecPc)
    BY <2>2, <2>3, <2>4, <2>7, <2>8 DEF SqrInv, P
  <2>10. QED
    BY <1>1, <1>3, <2>9 DEF VecInv
<1>4. QED
  BY <1>1, <1>2, <1>3 DEF Vec!Functions

(* And of the part that rests. *)
LEMMA VecRestInv ==
  ASSUME VectorsRest
  PROVE  VecInv
<1>1. /\ vecFn = [op |-> "sqr", vector |-> FALSE]
      /\ vecA = Vec!ToQwords({}, 1) /\ vecC = Vec!ToQwords({}, 2)
      /\ vecPc = "done"
  BY DEF VectorsRest
<1>2. vecFn \in Vec!Functions /\ vecFn.op = "sqr"
  BY <1>1 DEF Vec!Functions
<1>3. vecA \in Registers(1) /\ vecC \in Registers(2)
  <2>1. 1 \in Nat /\ 2 \in Nat
    OBVIOUS
  <2>2. QED
    BY <1>1, <2>1, QwordsOfPoly
<1>4. vecA[0] = {} /\ vecC[0] = {} /\ vecC[1] = {}
  BY <1>1 DEF Vec!ToQwords
<1>5. AllSquared(1, vecA, vecC)
  <2>1. Doubles({}) = {}
    BY DEF Doubles
  <2>2. SquaredAt(vecA, 0, vecC)
    <3>1. 2 * 0 = 0 /\ 2 * 0 + 1 = 1
      OBVIOUS
    <3>2. QED
      BY <1>4, <2>1, <3>1 DEF SquaredAt
  <2>3. \A q \in 0 .. 1 - 1 : q = 0
    OBVIOUS
  <2>4. QED
    BY <2>2, <2>3 DEF AllSquared
<1>6. \E k \in Nat : vecA \in Registers(k) /\ vecC \in Registers(2 * k)
                     /\ AllSquared(k, vecA, vecC)
  <2>1. 1 \in Nat /\ 2 * 1 = 2
    OBVIOUS
  <2>2. QED
    BY <1>3, <1>5, <2>1
<1>7. SqrInv(Vec!Lanes, vecA, vecC, vecI, vecPc)
  BY <1>1, <1>6 DEF SqrInv
<1>8. QED
  BY <1>2, <1>7 DEF VecInv

(* Nothing happens. *)
LEMMA VecRests ==
  ASSUME VecInv, UNCHANGED vecVars
  PROVE  VecInv'
<1>1. /\ vecFn' = vecFn /\ vecA' = vecA /\ vecB' = vecB /\ vecLo' = vecLo
      /\ vecHi' = vecHi /\ vecMi' = vecMi /\ vecC' = vecC /\ vecI' = vecI
      /\ vecPc' = vecPc
  BY DEF vecVars
<1>2. vecFn.op = "mul" \/ vecFn.op = "sqr"
  BY DEF VecInv, Vec!Functions
<1>3. CASE vecFn.op = "mul"
  <2>1. MulInv(BaseHalf, Summed(vecA), Summed(vecB), vecA, vecB,
               vecLo, vecHi, vecMi, vecC, vecPc)
    BY <1>3 DEF VecInv
  <2>2. MulInv(BaseHalf, Summed(vecA), Summed(vecB), vecA, vecB,
               vecLo', vecHi', vecMi', vecC', vecPc')
    BY <1>1, <2>1
  <2>3. QED
    BY <1>1, <1>3, <2>2, MulGoesOn
<1>4. CASE vecFn.op = "sqr"
  <2>1. SqrInv(Vec!Lanes, vecA, vecC, vecI, vecPc)
    BY <1>4 DEF VecInv
  <2>2. SqrInv(Vec!Lanes, vecA', vecC', vecI', vecPc')
    BY <1>1, <2>1
  <2>3. QED
    BY <1>1, <1>4, <2>2, SqrGoesOn
<1>5. QED
  BY <1>2, <1>3, <1>4

(* Every step keeps it. *)
LEMMA VecNextInv ==
  ASSUME VecInv, [Vec!Next]_vecVars
  PROVE  VecInv'
<1>1. CASE Vec!MultiplyLow
  BY <1>1, MultiplyLowStep
<1>2. CASE Vec!MultiplyHigh
  BY <1>2, MultiplyHighStep
<1>3. CASE Vec!MultiplyMiddle
  BY <1>3, MultiplyMiddleStep
<1>4. CASE Vec!Store
  BY <1>4, StoreStep
<1>5. CASE Vec!SquareRegister
  BY <1>5, SquareRegisterStep
<1>6. CASE UNCHANGED vecVars
  BY <1>6, VecRests
<1>7. QED
  BY <1>1, <1>2, <1>3, <1>4, <1>5, <1>6 DEF Vec!Next

(* The products of gf2x_mul_base_pclmul and gf2x_mul_base_vpclmul and the  *)
(* squares of gf2x_sqr_pclmul and gf2x_sqr_vpclmul are exact, for all      *)
(* operands, any width of a quad-word above 1 and any size of a square.    *)
THEOREM VectorsMultiply == MCSpec => []BaseProductsExact
<1>1. MCInit => VecInv
  BY VecInitInv, VecRestInv DEF MCInit
<1>2. VecInv /\ [MCNext]_<<part, vars, wordVars, vecVars>> => VecInv'
  <2>1. [MCNext]_<<part, vars, wordVars, vecVars>> => [Vec!Next]_vecVars
    BY DEF MCNext, PolynomialsNext, WordsNext, VectorsNext
  <2>2. QED
    BY <2>1, VecNextInv
<1>3. VecInv => BaseProductsExact
  BY VecInvGives
<1>4. QED
  BY <1>1, <1>2, <1>3, PTL DEF MCSpec
-----------------------------------------------------------------------------
(***************************************************************************)
(* The dispatch, for every set of CPUs: what has to be true of them for    *)
(* each table of functions to run, and to work on whole registers.  Both   *)
(* conditions are needed: MCCpuWithoutBW and MCCpuWithoutPclmul are CPUs   *)
(* where one of them fails and the property with it.                       *)
(***************************************************************************)

FlagNames == {"avx2", "avx512", "vpclmul", "pclmul"}

(* The feature that cpu_features_init reads a flag from. *)
Feature(flag) == IF flag = "avx512" THEN "avx512f" ELSE flag

Stages == {"uncalled", "avx2", "avx512", "vpclmul", "pclmul", "returned"}

(* The flags that this run of cpu_features_init has yet to assign. *)
Pending ==
  CASE init = "avx2"    -> FlagNames
    [] init = "avx512"  -> {"avx512", "vpclmul", "pclmul"}
    [] init = "vpclmul" -> {"vpclmul", "pclmul"}
    [] init = "pclmul"  -> {"pclmul"}
    [] OTHER            -> {}

(* A flag is never there without its feature; the flags that are assigned  *)
(* have theirs exactly.  A second call goes through the same stages with   *)
(* the old values still in place, which the first conjunct covers.         *)
FlagsInv ==
  /\ cpu \in Cpus
  /\ init \in Stages
  /\ flags \subseteq {f \in FlagNames : Feature(f) \in cpu}
  /\ init = "uncalled" \/ "leaf7" \notin cpu => flags = {}
  /\ init \notin {"uncalled", "returned"} => "leaf7" \in cpu
  /\ init # "uncalled" /\ "leaf7" \in cpu =>
       \A f \in FlagNames \ Pending : Feature(f) \in cpu => f \in flags

Vectors == {"port", "avx2", "avx512"}

(* What is in a table was chosen from the features of this CPU.  With the  *)
(* portable multiplication either no flag was set, or there is no PCLMUL.  *)
TablesInv ==
  /\ gf2x.version \in Vectors \cup {None}
  /\ ctx \in Vectors \cup {None}
  /\ gf2x.mul \in {None, "port", "pclmul", "vpclmul"}
  /\ gf2x.mul # None => gf2x.version # None
  /\ "avx2" \in {gf2x.version, ctx} => "avx2" \in cpu
  /\ "avx512" \in {gf2x.version, ctx} => "avx512f" \in cpu
  /\ gf2x.mul = "pclmul" => "pclmul" \in cpu
  /\ gf2x.mul = "vpclmul" => {"vpclmul", "avx512f"} \subseteq cpu
  /\ gf2x.mul = "port" => gf2x.version = "port" \/ "pclmul" \notin cpu

DispatchInv == FlagsInv /\ TablesInv

(* The flags when the library is called, before cpu_features_init or after *)
(* it: none, or those of all the features.                                 *)
LEMMA FlagsAtCall ==
  ASSUME FlagsInv, MayCall
  PROVE  \/ flags = {}
         \/ flags = {f \in FlagNames : Feature(f) \in cpu}
<1>1. CASE flags = {}
  BY <1>1
<1>2. CASE flags # {}
  <2>1. init = "returned" /\ "leaf7" \in cpu
    BY <1>2 DEF FlagsInv, MayCall
  <2>2. Pending = {}
    BY <2>1 DEF Pending
  <2>3. \A f \in FlagNames : Feature(f) \in cpu => f \in flags
    BY <2>1, <2>2 DEF FlagsInv
  <2>4. flags = {f \in FlagNames : Feature(f) \in cpu}
    BY <2>3 DEF FlagsInv
  <2>5. QED
    BY <2>4
<1>3. QED
  BY <1>1, <1>2

(* Every version of the additions that is chosen runs. *)
LEMMA VectorRuns ==
  ASSUME FlagsInv
  PROVE  /\ Vector \in Vectors
         /\ Vector = "avx2" => "avx2" \in cpu
         /\ Vector = "avx512" => "avx512f" \in cpu
<1>1. /\ "avx2" \in flags => "avx2" \in cpu
      /\ "avx512" \in flags => "avx512f" \in cpu
  BY DEF FlagsInv, Feature
<1>2. QED
  BY <1>1 DEF Vector, Vectors

(* cpu_features_init assigns one flag at a time. *)
LEMMA AssignStep ==
  ASSUME FlagsInv, InitAssigns
  PROVE  FlagsInv'
<1>1. cpu' = cpu /\ cpu \in Cpus /\ "leaf7" \in cpu
  BY DEF InitAssigns, FlagsInv
<1>2. ASSUME NEW flag \in FlagNames, init = flag, Assign(flag, Feature(flag)),
             init' \in Stages \ {"uncalled"},
             Pending' = Pending \ {flag}
      PROVE  FlagsInv'
  <2>1. flags' \subseteq {f \in FlagNames : Feature(f) \in cpu}
    BY <1>2 DEF FlagsInv, Assign
  <2>2. \A f \in FlagNames \ Pending' : Feature(f) \in cpu => f \in flags'
    <3>1. SUFFICES ASSUME NEW f \in FlagNames, f \notin Pending',
                          Feature(f) \in cpu
                   PROVE  f \in flags'
      OBVIOUS
    <3>2. CASE f = flag
      BY <1>2, <3>1, <3>2 DEF Assign
    <3>3. CASE f # flag
      <4>1. f \notin Pending
        BY <1>2, <3>1, <3>3
      <4>2. f \in flags
        BY <1>1, <1>2, <3>1, <4>1 DEF FlagsInv, FlagNames
      <4>3. QED
        BY <1>2, <3>3, <4>2 DEF Assign
    <3>4. QED
      BY <3>2, <3>3
  <2>3. QED
    BY <1>1, <1>2, <2>1, <2>2 DEF FlagsInv
<1>3. CASE init = "avx2" /\ Assign("avx2", "avx2") /\ init' = "avx512"
  BY <1>2, <1>3 DEF FlagNames, Feature, Stages, Pending
<1>4. CASE init = "avx512" /\ Assign("avx512", "avx512f") /\ init' = "vpclmul"
  BY <1>2, <1>4 DEF FlagNames, Feature, Stages, Pending
<1>5. CASE init = "vpclmul" /\ Assign("vpclmul", "vpclmul") /\ init' = "pclmul"
  BY <1>2, <1>5 DEF FlagNames, Feature, Stages, Pending
<1>6. CASE init = "pclmul" /\ Assign("pclmul", "pclmul") /\ init' = "returned"
  BY <1>2, <1>6 DEF FlagNames, Feature, Stages, Pending
<1>7. QED
  BY <1>3, <1>4, <1>5, <1>6 DEF InitAssigns

(* A new table is chosen from the flags of this CPU. *)
LEMMA TableStep ==
  ASSUME DispatchInv, Gf2xCtxInit \/ OtherCtxInit
  PROVE  TablesInv'
<1>1. cpu' = cpu /\ MayCall /\ FlagsInv
  BY DEF DispatchInv, Gf2xCtxInit, OtherCtxInit
<1>2. /\ Vector \in Vectors
      /\ Vector = "avx2" => "avx2" \in cpu
      /\ Vector = "avx512" => "avx512f" \in cpu
  BY <1>1, VectorRuns
<1>3. CASE OtherCtxInit
  BY <1>1, <1>2, <1>3 DEF OtherCtxInit, TablesInv, Vectors, None
<1>4. CASE Gf2xCtxInit
  <2> DEFINE mul == IF {"vpclmul", "avx512"} \subseteq flags THEN "vpclmul"
                    ELSE IF "pclmul" \in flags THEN "pclmul" ELSE "port"
  <2>1. gf2x'.version = Vector /\ gf2x'.mul = mul /\ ctx' = None
    BY <1>4 DEF Gf2xCtxInit
  <2>2. /\ mul = "vpclmul" => {"vpclmul", "avx512f"} \subseteq cpu
        /\ mul = "pclmul" => "pclmul" \in cpu
    BY <1>1 DEF FlagsInv, Feature
  <2>3. mul = "port" => Vector = "port" \/ "pclmul" \notin cpu
    <3>1. CASE flags = {}
      BY <3>1 DEF Vector
    <3>2. CASE flags = {f \in FlagNames : Feature(f) \in cpu}
      BY <3>2 DEF FlagNames, Feature
    <3>3. QED
      BY <1>1, <3>1, <3>2, FlagsAtCall
  <2>4. mul \in {"port", "pclmul", "vpclmul"}
    OBVIOUS
  <2> HIDE DEF mul
  <2>5. QED
    BY <1>1, <1>2, <2>1, <2>2, <2>3, <2>4 DEF TablesInv, Vectors, None
<1>5. QED
  BY <1>3, <1>4

(* The flags and the tables of functions are those of the CPU at hand, in  *)
(* whatever order the program calls cpu_features_init and the library.     *)
THEOREM DispatchInductive == DispatchSpec => []DispatchInv
<1>1. DispatchInit => DispatchInv
  BY DEF DispatchInit, DispatchInv, FlagsInv, TablesInv, Stages, Vectors, None
<1>2. DispatchInv /\ [DispatchNext]_dispatchVars => DispatchInv'
  <2>1. SUFFICES ASSUME DispatchInv, [DispatchNext]_dispatchVars
                 PROVE  DispatchInv'
    OBVIOUS
  <2>2. CASE InitStarts
    <3>1. FlagsInv'
      <4>1. CASE "leaf7" \in cpu
        <5>1. Pending' = FlagNames /\ init' = "avx2"
          BY <2>2, <4>1 DEF InitStarts, Pending
        <5>2. QED
          BY <2>1, <2>2, <4>1, <5>1 DEF InitStarts, DispatchInv, FlagsInv, Stages
      <4>2. CASE "leaf7" \notin cpu
        BY <2>1, <2>2, <4>2 DEF InitStarts, DispatchInv, FlagsInv, Stages
      <4>3. QED
        BY <4>1, <4>2
    <3>2. QED
      BY <2>1, <2>2, <3>1 DEF InitStarts, DispatchInv, TablesInv
  <2>3. CASE InitAssigns
    <3>1. FlagsInv'
      BY <2>1, <2>3, AssignStep DEF DispatchInv
    <3>2. QED
      BY <2>1, <2>3, <3>1 DEF InitAssigns, DispatchInv, TablesInv
  <2>4. CASE Gf2xCtxInit \/ OtherCtxInit
    <3>1. FlagsInv'
      BY <2>1, <2>4 DEF Gf2xCtxInit, OtherCtxInit, DispatchInv, FlagsInv, Pending
    <3>2. QED
      BY <2>1, <2>4, <3>1, TableStep DEF DispatchInv
  <2>5. CASE UNCHANGED dispatchVars
    BY <2>1, <2>5 DEF dispatchVars, DispatchInv, FlagsInv, TablesInv, Pending
  <2>6. QED
    BY <2>1, <2>2, <2>3, <2>4, <2>5 DEF DispatchNext
<1>3. QED
  BY <1>1, <1>2, PTL DEF DispatchSpec

(* No table of functions holds one the CPU cannot run, where AVX-512F      *)
(* comes with BW and DQ, the features the code uses and does not read.     *)
THEOREM TablesRun ==
  ASSUME \A f \in Cpus : "avx512f" \in f => AVX512Flags \subseteq f
  PROVE  DispatchSpec => []RunsOnThisCpu
<1>1. DispatchInv => RunsOnThisCpu
  <2>1. SUFFICES ASSUME DispatchInv,
                        NEW v \in {gf2x.version, gf2x.mul, ctx}
                 PROVE  Needs(v) \subseteq cpu
    BY DEF RunsOnThisCpu
  <2>2. "avx512f" \in cpu => AVX512Flags \subseteq cpu
    BY <2>1 DEF DispatchInv, FlagsInv
  <2>3. v \in {None, "port", "avx2", "avx512", "pclmul", "vpclmul"}
    BY <2>1 DEF DispatchInv, TablesInv, Vectors
  <2>4. /\ v = "avx2" => "avx2" \in cpu
        /\ v = "avx512" => "avx512f" \in cpu
        /\ v = "pclmul" => "pclmul" \in cpu
        /\ v = "vpclmul" => {"vpclmul", "avx512f"} \subseteq cpu
    BY <2>1 DEF DispatchInv, TablesInv, Vectors, None
  <2>5. QED
    BY <2>2, <2>3, <2>4 DEF Needs, AVX512Flags, None
<1>2. QED
  BY <1>1, DispatchInductive, PTL

(* The additions of karatzuba never meet operands that are not whole       *)
(* registers, where every CPU with AVX2 or AVX-512 has PCLMUL.             *)
THEOREM WholeRegisters ==
  ASSUME \A f \in Cpus : f \cap {"avx2", "avx512f"} # {} => "pclmul" \in f
  PROVE  DispatchSpec => []AdditionsAligned
<1>1. DispatchInv => AdditionsAligned
  <2>1. SUFFICES ASSUME DispatchInv, gf2x.mul # None
                 PROVE  BaseQwords(gf2x.mul) % RegQwords(gf2x.version) = 0
    BY DEF AdditionsAligned
  <2>2. cpu \cap {"avx2", "avx512f"} # {} => "pclmul" \in cpu
    BY <2>1 DEF DispatchInv, FlagsInv
  <2>3. /\ gf2x.mul \in {"port", "pclmul", "vpclmul"}
        /\ gf2x.version \in {"port", "avx2", "avx512"}
    BY <2>1 DEF DispatchInv, TablesInv, Vectors
  <2>4. gf2x.mul = "port" => gf2x.version = "port"
    BY <2>1, <2>2, <2>3 DEF DispatchInv, TablesInv
  <2>5. /\ BaseQwords("pclmul") = 8 /\ BaseQwords("vpclmul") = 16
        /\ BaseQwords("port") = 1 /\ RegQwords("port") = 1
        /\ RegQwords("avx2") = 4 /\ RegQwords("avx512") = 8
    BY DEF BaseQwords, RegQwords
  <2>6. QED
    BY <2>3, <2>4, <2>5
<1>2. QED
  BY <1>1, DispatchInductive, PTL
=============================================================================
