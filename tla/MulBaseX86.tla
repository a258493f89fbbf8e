------------------------------ MODULE MulBaseX86 ------------------------------
(***************************************************************************)
(* gf2x/gf2x_mul_base_pclmul.c and gf2x/gf2x_mul_base_vpclmul.c: the       *)
(* products the Karatsuba recursion ends in, of 8 or 16 quad-words, and    *)
(* the squares, by carry-less products of quad-words chosen from vector    *)
(* registers.  A quad-word is the set of the positions of its bits, a      *)
(* register a function from its lanes, the lowest one 0, to quad-words,    *)
(* and so is an operand.                                                   *)
(***************************************************************************)
EXTENDS Integers, FiniteSetsExt

CONSTANTS
  W,            \* bits of a quad-word, 64
  RQwords,      \* R_QWORDS
  Factors,      \* pairs of polynomials to multiply, for a number of quad-words
  Squared       \* polynomials to square

X86Assumption ==
  /\ {W, RQwords} \subseteq Nat \ {0} /\ W > 1
  /\ Squared \subseteq SUBSET (0 .. RQwords * W - 1)

VARIABLES
  fn,           \* [op |-> "mul" or "sqr", vector |-> VPCLMUL or not]
  a, b,         \* the operands
  lo, hi, mi,   \* the three half-sized products, or NoProduct
  c,            \* the result
  i,            \* the loop variable of the squaring
  pc            \* "low", "high", "middle", "store"; "square"; "done"

vars == <<fn, a, b, lo, hi, mi, c, i, pc>>

(* GF2X_PCLMUL_BASE_QWORDS and GF2X_VPCLMUL_BASE_QWORDS. *)
BaseQwords == IF fn.vector THEN 16 ELSE 8

Functions == [op : {"mul", "sqr"}, vector : BOOLEAN]
NoProduct == <<>>

Bits == 0 .. W - 1
Zmm  == 0 .. 7
Lanes == IF fn.vector THEN 8 ELSE 2    \* QWORDS_IN_ZMM, QWORDS_IN_XMM

(* n quad-words from the k-th on, and two such pieces in memory order. *)
Piece(x, k, n) == [j \in 0..n-1 |-> x[k + j]]
Joined(x, y)   ==
  LET n == Cardinality(DOMAIN x)
  IN  [j \in 0 .. n + Cardinality(DOMAIN y) - 1 |-> IF j < n THEN x[j] ELSE y[j - n]]

x (+) y == [j \in DOMAIN x |-> SymDiff(x[j], y[j])]
-----------------------------------------------------------------------------
(* The instructions.  CLMUL multiplies in each 128 bits the quad-word that *)
(* sel, 0 or 1, selects of each operand.                                   *)
Times(p, q) ==
  {k \in 0 .. 2 * W - 2 : Cardinality({n \in p : k - n \in q}) % 2 = 1}

CLMUL(x, y, sel) ==
  [j \in DOMAIN x |->
     LET first == j - (j % 2)
         t     == Times(x[first + sel], y[first + sel])
     IN  {n \in Bits : n + (W * (j % 2)) \in t}]

Xmm(low, high) == [j \in 0..1 |-> IF j = 0 THEN low ELSE high]
UNPACKLO(x, y) == Xmm(x[0], y[0])
UNPACKHI(x, y) == Xmm(x[1], y[1])
BSRLI(x)       == Xmm(x[1], {})      \* by 8 bytes
BSLLI(x)       == Xmm({}, x[0])

(* Mutant: the order of the arguments is that of setr. *)
SETR_I64(s) == [j \in Zmm |-> s[j + 1]]

SET_I64(s)              == [j \in Zmm |-> s[8 - j]]    \* highest lane first
PERMXVAR_I64(idx, x)    == [j \in Zmm |-> x[idx[j]]]
PERMX2VAR_I64(x, idx, y) ==
  [j \in Zmm |-> IF idx[j] < 8 THEN x[idx[j]] ELSE y[idx[j] - 8]]
PairsSwapped(x)         == [j \in Zmm |-> x[(j + 1) - (2 * (j % 2))]]  \* PERMX_I64
VALIGN(x, n)            == [j \in Zmm |-> x[(j + n) % 8]]   \* of x and x
MXOR_I64(x, mask, y)    == [j \in Zmm |-> IF j \in mask THEN SymDiff(x[j], y[j]) ELSE x[j]]
-----------------------------------------------------------------------------
(* gf2x_mul4_int: 4 by 4 quad-words with nine products of quad-words. *)
Mul4(x, y) ==
  LET a_lo == Piece(x, 0, 2)   a_hi == Piece(x, 2, 2)
      b_lo == Piece(y, 0, 2)   b_hi == Piece(y, 2, 2)
      aa == a_lo (+) a_hi
      bb == b_lo (+) b_hi
      xx == UNPACKLO(a_lo, a_hi) (+) UNPACKHI(a_lo, a_hi)
      yy == UNPACKLO(b_lo, b_hi) (+) UNPACKHI(b_lo, b_hi)
      uu == aa (+) BSRLI(aa)
      vv == bb (+) BSRLI(bb)
      t0 == CLMUL(a_lo, b_lo, 0)   t1 == CLMUL(a_lo, b_lo, 1)
      t2 == CLMUL(a_hi, b_hi, 0)   t3 == CLMUL(a_hi, b_hi, 1)
      t6 == CLMUL(aa, bb, 0)       t7 == CLMUL(aa, bb, 1)
      t4 == CLMUL(xx, yy, 0) (+) (t0 (+) t1)
      t5 == CLMUL(xx, yy, 1) (+) (t2 (+) t3)
      t8 == CLMUL(uu, vv, 0) (+) (t6 (+) t7)
      lo0 == t0 (+) BSLLI(t4)      lo1 == t1 (+) BSRLI(t4)
      hi0 == t2 (+) BSLLI(t5)      hi1 == t3 (+) BSRLI(t5)
      mi0 == t6 (+) BSLLI(t8)      mi1 == t7 (+) BSRLI(t8)
      m   == lo1 (+) hi0
  IN  Joined(Joined(lo0, lo0 (+) mi0 (+) m), Joined(hi1 (+) mi1 (+) m, hi1))

(* mul2_512: in each 128 bits of x and y, the low and the high half of the *)
(* product of two by two quad-words.                                       *)
Mul2(x, y) ==
  LET lq  == CLMUL(x, y, 0)
      hq  == CLMUL(x, y, 1)
      abq == lq (+) hq (+) CLMUL(x (+) PairsSwapped(x), y (+) PairsSwapped(y), 0)
      sw  == PERMXVAR_I64(SET_I64(<<6, 7, 4, 5, 2, 3, 0, 1>>), abq)
  IN  [l |-> MXOR_I64(lq, {1, 3, 5, 7}, sw), h |-> MXOR_I64(hq, {0, 2, 4, 6}, sw)]

(* gf2x_mul8_512_int: 8 by 8 quad-words with three times mul2_512. *)
Mul8(x, y) ==
  LET mask0   == SET_I64(<<13, 12, 5, 4, 9, 8, 1, 0>>)
      mask1   == SET_I64(<<15, 14, 7, 6, 11, 10, 3, 2>>)
      mask2   == SET_I64(<<3, 2, 1, 0, 7, 6, 5, 4>>)
      mask3   == SET_I64(<<11, 10, 9, 8, 3, 2, 1, 0>>)
      mask4   == SET_I64(<<15, 14, 13, 12, 7, 6, 5, 4>>)
      mask_s1 == SET_I64(<<7, 6, 5, 4, 1, 0, 3, 2>>)
      mask_s2 == SET_I64(<<3, 2, 7, 6, 5, 4, 1, 0>>)
      s(r)    == PERMXVAR_I64(mask_s1, r) (+) PERMXVAR_I64(mask_s2, r)
      d(r)    == s(r) (+) VALIGN(s(r), 4)
      prod    == Mul2(x, y)
      xab0    == Mul2(s(x), s(y))
      yab0    == Mul2(d(x), d(y))
      xab     == prod.l (+) prod.h (+) PERMX2VAR_I64(xab0.l, mask0, xab0.h)
      yl      == MXOR_I64(PERMX2VAR_I64(prod.l, mask3, prod.h), 2..5, VALIGN(xab, 6))
      yh      == MXOR_I64(PERMX2VAR_I64(prod.l, mask4, prod.h), 2..5, VALIGN(xab, 2))
      oxh     == PERMX2VAR_I64(xab0.l, mask1, xab0.h)
      oxl     == VALIGN(oxh, 4)
      yab     == oxl (+) oxh (+) PERMX2VAR_I64(yab0.l, mask0, yab0.h)
      z1      == MXOR_I64(oxh, 2..5, VALIGN(yab, 2)) (+) yl (+) yh
      z       == PERMXVAR_I64(mask2, z1)
  IN  Joined(MXOR_I64(yl, 4..7, z), MXOR_I64(yh, 0..3, z))
-----------------------------------------------------------------------------
(* A polynomial in n quad-words, and back. *)
ToQwords(p, n) == [j \in 0..n-1 |-> {k \in Bits : j * W + k \in p}]
Poly(x) == UNION {{j * W + k : k \in x[j]} : j \in DOMAIN x}

PaddedQwords == 8 * ((RQwords + 7) \div 8)

Init ==
  /\ fn \in Functions
  /\ LET n == IF fn.op = "mul" THEN BaseQwords ELSE PaddedQwords
     IN  /\ IF fn.op = "mul"
            THEN \E pair \in Factors[n] : a = ToQwords(pair[1], n) /\ b = ToQwords(pair[2], n)
            ELSE \E p \in Squared : a = ToQwords(p, n) /\ b = a
         /\ c = ToQwords({}, 2 * n)
  /\ lo = NoProduct /\ hi = NoProduct /\ mi = NoProduct
  /\ i = 0
  /\ pc = IF fn.op = "mul" THEN "low" ELSE "square"

Half == BaseQwords \div 2
Low(x)  == Piece(x, 0, Half)
High(x) == Piece(x, Half, Half)

MulHalf(x, y) == IF fn.vector THEN Mul8(x, y) ELSE Mul4(x, y)

MultiplyLow ==
  /\ pc = "low"
  /\ lo' = MulHalf(Low(a), Low(b))
  /\ pc' = "high"
  /\ UNCHANGED <<fn, a, b, hi, mi, c, i>>

MultiplyHigh ==
  /\ pc = "high"
  /\ hi' = MulHalf(High(a), High(b))
  /\ pc' = "middle"
  /\ UNCHANGED <<fn, a, b, lo, mi, c, i>>

MultiplyMiddle ==
  /\ pc = "middle"
  /\ mi' = MulHalf(Low(a) (+) High(a), Low(b) (+) High(b))
  /\ pc' = "store"
  /\ UNCHANGED <<fn, a, b, lo, hi, c, i>>

Store ==
  LET m == High(lo) (+) Low(hi)
  IN  /\ pc = "store"
      /\ c' = Joined(Joined(Low(lo), Low(mi) (+) Low(lo) (+) m),
                     Joined(High(mi) (+) High(hi) (+) m, High(hi)))
      /\ pc' = "done"
      /\ UNCHANGED <<fn, a, b, lo, hi, mi, i>>

(* One turn of the loop of gf2x_sqr_pclmul or gf2x_sqr_vpclmul, to R_XMM   *)
(* or R_ZMM registers.                                                     *)
SquareRegister ==
  LET va  == Piece(a, i, Lanes)
      vp  == IF fn.vector
             THEN PERMXVAR_I64(SET_I64(<<7, 3, 6, 2, 5, 1, 4, 0>>), va) ELSE va
      vr  == Joined(CLMUL(vp, vp, 0), CLMUL(vp, vp, 1))
  IN  /\ pc = "square"
      /\ c' = [j \in DOMAIN c |-> IF j \in 2 * i .. 2 * (i + Lanes) - 1
                                  THEN vr[j - 2 * i] ELSE c[j]]
      /\ i' = i + Lanes
      /\ pc' = IF i + Lanes < RQwords THEN "square" ELSE "done"
      /\ UNCHANGED <<fn, a, b, lo, hi, mi>>

Next ==
  MultiplyLow \/ MultiplyHigh \/ MultiplyMiddle \/ Store \/ SquareRegister

Spec == Init /\ [][Next]_vars
-----------------------------------------------------------------------------
Product(p, q) ==
  {k \in 0 .. 2 * W * Cardinality(DOMAIN a) :
     Cardinality({n \in p : k - n \in q}) % 2 = 1}

(* "c = a * b" and "c = a^2" of gf2x_internal.h, whatever way the lanes    *)
(* have been shuffled; a square is complete for all the quad-words that    *)
(* hold bits of the polynomial, the last register being full or not.       *)
BaseProductsExact ==
  pc = "done" =>
    Poly(c) = IF fn.op = "mul" THEN Product(Poly(a), Poly(b))
                               ELSE {2 * k : k \in Poly(a)}
=============================================================================
