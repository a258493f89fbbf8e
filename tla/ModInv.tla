-------------------------------- MODULE ModInv --------------------------------
(***************************************************************************)
(* gf2x/gf2x_inv.c: inversion modulo x^R - 1 by an addition chain of       *)
(* powers of two.  f runs through a^(2^(2^i) - 1), t collects the powers   *)
(* the binary digits of R - 2 ask for, and the inverse is t^2.             *)
(*                                                                         *)
(* A value is a set of residues modulo R, and squaring permutes them.      *)
(* What the residues stand for is left to the instance: exponents of the   *)
(* terms of a polynomial, or the m of factors a(x^m) of a product.         *)
(***************************************************************************)
EXTENDS Integers, Sequences

CONSTANTS
  Levels,           \* records of R_BITS, K_SQR_THR and the tables of a LEVEL
  Inputs(_),        \* the values given to gf2x_mod_inv
  Times(_, _, _),   \* gf2x_mod_mul_with_ctx of two values
  Unit(_)           \* the value of the polynomial 1

VARIABLES
  p,         \* the LEVEL the program is compiled for
  a,         \* the polynomial to invert
  f, g, t,   \* as in gf2x_mod_inv
  i,         \* iteration of its loop
  n,         \* squarings of g that repeated_squaring has left
  pc         \* step of the iteration

vars == <<p, a, f, g, t, i, n, pc>>

Residues == 0 .. p.R - 1

(* The C arrays start at 0. *)
At(table, j) == table[j + 1]
MaxI == Len(p.exp0_k)

(* gf2x_mod_sqr_in_place. *)
Square(x) == {(2 * j) % p.R : j \in x}

(* Mutant: the permutation is applied the other way round. *)
KSqrForward(x, l) == {(l * j) % p.R : j \in x}

(* k_sqr_port: bit idx of the result is bit (l_param * idx) % R of x. *)
KSqr(x, l) == {idx \in Residues : (l * idx) % p.R \in x}

(* g = f^(2^k), by squarings still to come or by one permutation. *)
Exponentiate(k, l) ==
  IF k <= p.KSqrThr THEN g' = f /\ n' = k
                  ELSE g' = KSqr(f, l) /\ UNCHANGED n
-----------------------------------------------------------------------------
Init ==
  /\ p \in Levels
  /\ a \in Inputs(p)
  /\ f = a
  /\ g = {}
  /\ t = a
  /\ i = 1
  /\ n = 0
  /\ pc = "exp0"

NextIteration ==
  /\ i' = i + 1
  /\ pc' = IF i + 1 < MaxI THEN "exp0" ELSE "square"

Exponentiation0 ==
  /\ pc = "exp0"
  /\ Exponentiate(At(p.exp0_k, i - 1), At(p.exp0_l, i - 1))
  /\ pc' = "mul0"
  /\ UNCHANGED <<p, a, f, t, i>>

(* One round of repeated_squaring. *)
SquareG ==
  /\ n > 0
  /\ g' = Square(g)
  /\ n' = n - 1
  /\ UNCHANGED <<p, a, f, t, i, pc>>

MultiplyF ==
  /\ pc = "mul0" /\ n = 0
  /\ f' = Times(p, g, f)
  /\ IF At(p.exp1_k, i) # 0 THEN pc' = "exp1" /\ UNCHANGED i
                            ELSE NextIteration
  /\ UNCHANGED <<p, a, g, t, n>>

Exponentiation1 ==
  /\ pc = "exp1"
  /\ Exponentiate(At(p.exp1_k, i), At(p.exp1_l, i))
  /\ pc' = "mul1"
  /\ UNCHANGED <<p, a, f, t, i>>

MultiplyT ==
  /\ pc = "mul1" /\ n = 0
  /\ t' = Times(p, g, t)
  /\ NextIteration
  /\ UNCHANGED <<p, a, f, g, n>>

FinalSquare ==
  /\ pc = "square"
  /\ t' = Square(t)
  /\ pc' = "done"
  /\ UNCHANGED <<p, a, f, g, i, n>>

Next ==
  \/ Exponentiation0 \/ SquareG \/ MultiplyF
  \/ Exponentiation1 \/ MultiplyT \/ FinalSquare

Spec == Init /\ [][Next]_vars
-----------------------------------------------------------------------------
(* c = a^{-1} mod x^r - 1: the result times the input is 1. *)
Inverts == pc = "done" => Times(p, a, t) = Unit(p)
=============================================================================
