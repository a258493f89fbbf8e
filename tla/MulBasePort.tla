----------------------------- MODULE MulBasePort -----------------------------
(***************************************************************************)
(* gf2x/gf2x_mul_base_portable.c: the product of two words as polynomials, *)
(* by windows of 3 bits over a table of 8 multiples, two windows a turn.   *)
(* The multiples are shifted out of a word at both ends, so the top 3 bits *)
(* of b are left out of the table and multiplied one by one.  A word is    *)
(* the set of the positions of its bits.                                   *)
(***************************************************************************)
EXTENDS Integers, FiniteSetsExt

CONSTANTS
  Width,      \* w, 64
  Operands    \* pairs of words to multiply

S == 3        \* s, bits of a window

WidthAssumption ==
  /\ Width \in Nat /\ Width > 2 * S
  \* as for 64, the last window has one bit that is in the word
  /\ Width % (2 * S) = S + 1
  /\ Operands \subseteq (SUBSET (0..Width-1)) \X (SUBSET (0..Width-1))

VARIABLES
  a0, b0,   \* the operands
  l, h,     \* the low and the high word of the product
  i,        \* the loop variable of step 2, and then of step 3
  pc        \* "first", "windows", "top", "done"

vars == <<a0, b0, l, h, i, pc>>

WordBits == 0..Width-1

Shl(x, n) == {b + n : b \in {b \in x : b + n < Width}}
Shr(x, n) == {b - n : b \in {b \in x : b >= n}}

(* Mutant: the top bits go into the table. *)
B0Unmasked == b0

B0M == {b \in b0 : b < Width - S}   \* b0 & MASK(61)

(* u[j], the multiples of the masked b0 by the 3 bits of j. *)
U(j) ==
  LET u1 == B0M
      u2 == Shl(u1, 1)
      u4 == Shl(u2, 1)
      bit(n, u) == IF (j \div n) % 2 = 1 THEN u ELSE {}
  IN  SymDiff(bit(1, u1), SymDiff(bit(2, u2), bit(4, u4)))

(* LSB3(a0 >> n) as a number, and the table entry it selects. *)
Window(n) ==
  LET bit(b) == IF b \in a0 THEN 1 ELSE 0
  IN  bit(n) + 2 * bit(n + 1) + 4 * bit(n + 2)
G(n) == U(Window(n))
-----------------------------------------------------------------------------
Init ==
  /\ \E pair \in Operands : a0 = pair[1] /\ b0 = pair[2]
  /\ l = {}
  /\ h = {}
  /\ i = 0
  /\ pc = "first"

(* The windows at 0 and at s, of which nothing is shifted by Width. *)
FirstWindows ==
  /\ pc = "first"
  /\ l' = SymDiff(G(0), Shl(G(S), S))
  /\ h' = Shr(G(S), Width - S)
  /\ i' = 2 * S
  /\ pc' = "windows"
  /\ UNCHANGED <<a0, b0>>

NextWindows ==
  /\ pc = "windows"
  /\ l' = SymDiff(l, SymDiff(Shl(G(i), i), Shl(G(i + S), i + S)))
  /\ h' = SymDiff(h, SymDiff(Shr(G(i), Width - i), Shr(G(i + S), Width - (i + S))))
  /\ IF i + 2 * S < Width THEN i' = i + 2 * S /\ UNCHANGED pc
                          ELSE i' = Width - S /\ pc' = "top"
  /\ UNCHANGED <<a0, b0>>

TopBit ==
  /\ pc = "top"
  /\ l' = IF i \in b0 THEN SymDiff(l, Shl(a0, i)) ELSE l
  /\ h' = IF i \in b0 THEN SymDiff(h, Shr(a0, Width - i)) ELSE h
  /\ i' = i + 1
  /\ pc' = IF i + 1 < Width THEN "top" ELSE "done"
  /\ UNCHANGED <<a0, b0>>

Next == FirstWindows \/ NextWindows \/ TopBit

Spec == Init /\ [][Next]_vars
-----------------------------------------------------------------------------
(* The product of x and y as polynomials over GF(2). *)
Product(x, y) ==
  {k \in 0 .. 2 * Width - 2 :
     Cardinality({b \in x : k - b \in y}) % 2 = 1}

(* (h|l) is the product of what has been multiplied so far: the windows of *)
(* a0 below i with the masked b0, then all of a0 with b0 below bit i.  No  *)
(* bit is lost between the two words, and the end is c = a * b.           *)
PartialProduct ==
  LET done == CASE pc = "first"    -> {}
                [] pc = "windows"  -> Product({b \in a0 : b < i}, B0M)
                [] OTHER           -> Product(a0, {b \in b0 : b < i})
  IN  l \cup {b + Width : b \in h} = done
=============================================================================
