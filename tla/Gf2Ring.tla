------------------------------- MODULE Gf2Ring -------------------------------
(***************************************************************************)
(* The ring the scheme computes in, GF(2)[x]/(x^R - 1).  A polynomial is   *)
(* the set of the exponents of its terms; bit i of an r_t is membership of *)
(* i.  gf2x_mod_add and gf2x_mod_mul are taken at this meaning.            *)
(***************************************************************************)
EXTENDS Integers, FiniteSets, FiniteSetsExt

CONSTANT R    \* R_BITS

ASSUME RingAssumption == R \in Nat \ {0}

Exponents   == 0..R-1
Polynomials == SUBSET Exponents

Zero == {}
One  == {0}

Add(a, b) == SymDiff(a, b)

(* Term k of a product is there when an odd number of pairs of terms, one  *)
(* of a and one of b, multiply to it.                                      *)
Mul(a, b) ==
  {k \in Exponents :
     Cardinality({i \in a : (k - i) % R \in b}) % 2 = 1}

(* a shifted down cyclically by n: what rotate_right makes of a syndrome.  *)
Rotated(a, n) == {(i - n) % R : i \in a}
=============================================================================
