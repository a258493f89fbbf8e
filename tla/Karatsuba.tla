------------------------------ MODULE Karatsuba ------------------------------
(***************************************************************************)
(* gf2x/gf2x_mul.c: the product of two padded polynomials by recursive     *)
(* Karatsuba multiplication in place, and its reduction modulo x^R - 1     *)
(* (gf2x_red of the three gf2x_mul_*.c).  The recursion is followed call   *)
(* by call on the memory it works on: the double-length result, of which   *)
(* the parts of a product overlap, and the secure buffer, where each level *)
(* of the recursion takes three halves.                                    *)
(*                                                                         *)
(* A quad-word is the set of the exponents below QwBits of its terms.      *)
(***************************************************************************)
EXTENDS Integers, Sequences, FiniteSetsExt

CONSTANTS
  QwBits,    \* bits of a quad-word
  Builds,    \* records of R, Pad (R_PADDED_QWORDS, a power of 2), Base
             \* (mul_base_qwords) and Reg (REG_QWORDS)
  Operands   \* pairs of polynomials to multiply

(* The sizes that halving Pad goes through end with Base: Pad is Base      *)
(* doubled some number of times.                                           *)
ASSUME KaratsubaAssumption ==
  /\ QwBits \in Nat \ {0}
  /\ \A bld \in Builds :
       /\ {bld.R, bld.Pad, bld.Base, bld.Reg} \subseteq Nat \ {0}
       /\ bld.R <= bld.Pad * QwBits /\ bld.R % QwBits # 0   \* R is a prime
       /\ bld.Base % bld.Reg = 0
       /\ \E sizes \in SUBSET (bld.Base .. bld.Pad) :
            /\ bld.Pad \in sizes
            /\ \A p \in sizes :
                 /\ p % bld.Base = 0
                 /\ p # bld.Base => p % 2 = 0 /\ p \div 2 \in sizes

VARIABLES
  build,   \* the build that runs
  in,      \* the two operands, as quad-words
  c,       \* the dbl_pad_r_t of the result, then reduced
  sec,     \* secure_buffer
  stack,   \* the calls of karatzuba under way, the innermost first
  pc       \* "karatzuba", "red", "done"

vars == <<build, in, c, sec, stack, pc>>

RQwords == (build.R + QwBits - 1) \div QwBits
Lead    == build.R % QwBits
SecureBufferQwords == 3 * build.Pad

(* The polynomial x as n quad-words, and back. *)
ToQwords(x, n) == [q \in 0..n-1 |-> {b \in 0..QwBits-1 : q * QwBits + b \in x}]
ToPoly(qws, n) ==
  UNION {{q * QwBits + b : b \in qws[q]} : q \in 0..n-1}

(* The product of two polynomials, not reduced. *)
Product(x, y) ==
  {k \in {i + j : i \in x, j \in y} :
     Cardinality({i \in x : k - i \in y}) % 2 = 1}

(* Where a call reads its operands from: the two inputs, or the sums its   *)
(* caller left in the secure buffer.                                       *)
ReadA(f, q) == IF f.src = "in" THEN in[1][f.a + q] ELSE sec[f.a + q]
ReadB(f, q) == IF f.src = "in" THEN in[2][f.b + q] ELSE sec[f.b + q]

(* mem with the quad-words from position at on replaced by those of new. *)
Stored(mem, at, new) ==
  [q \in DOMAIN mem |-> IF q - at \in DOMAIN new THEN new[q - at] ELSE mem[q]]
-----------------------------------------------------------------------------
(* t is zeroed, the secure buffer is not.                                  *)
Init ==
  /\ build \in Builds
  /\ \E pair \in Operands :
       /\ pair[1] \cup pair[2] \subseteq 0 .. build.R - 1
       /\ in = <<ToQwords(pair[1], build.Pad), ToQwords(pair[2], build.Pad)>>
  /\ c = [q \in 0 .. 2 * build.Pad - 1 |-> {}]
  /\ sec = [q \in 0 .. SecureBufferQwords - 1 |-> 0 .. QwBits - 1]
  /\ stack = << [c |-> 0, src |-> "in", a |-> 0, b |-> 0, len |-> RQwords,
                 pad |-> build.Pad, sec |-> 0, step |-> "enter"] >>
  /\ pc = "karatzuba"

Top  == Head(stack)
Half == Top.pad \div 2

(* Where the call has its alah, blbh, tmp and the buffer of its callees. *)
Alah == Top.sec
Blbh == Top.sec + Half
Tmp  == Top.sec + 2 * Half
(* Mutant: the buffer of the callees begins with tmp. *)
FreeTooLow == Top.sec + 2 * Half

Free == Top.sec + 3 * Half

GoTo(step) == [stack EXCEPT ![1].step = step]

Call(at, src, a, b, len, step) ==
  stack' = << [c |-> at, src |-> src, a |-> a, b |-> b, len |-> len,
               pad |-> Half, sec |-> Free, step |-> "enter"] >> \o GoTo(step)

Return ==
  /\ stack' = Tail(stack)
  /\ pc' = IF Len(stack) = 1 THEN "red" ELSE pc

At(step) == pc = "karatzuba" /\ Top.step = step

(* mul_base works on mul_base_qwords, however short the operands are.      *)
MulBase ==
  /\ At("enter")
  /\ Top.len <= build.Base
  /\ LET n == build.Base
         x == ToPoly([q \in 0..n-1 |-> ReadA(Top, q)], n)
         y == ToPoly([q \in 0..n-1 |-> ReadB(Top, q)], n)
     IN  c' = Stored(c, Top.c, ToQwords(Product(x, y), 2 * n))
  /\ Return
  /\ UNCHANGED <<build, in, sec>>

MultiplyLow ==
  /\ At("enter")
  /\ Top.len > build.Base
  /\ Call(Top.c, Top.src, Top.a, Top.b, Half, "low_done")
  /\ UNCHANGED <<build, in, c, sec, pc>>

(* Mutant: a high part of one quad-word is skipped. *)
SkipHighOfOne ==
  /\ At("low_done")
  /\ Top.len <= Half + 1
  /\ Return
  /\ UNCHANGED <<build, in, c, sec>>

(* The high parts are zero: the rest is skipped, and c keeps what it had.  *)
SkipHigh ==
  /\ At("low_done")
  /\ Top.len <= Half
  /\ Return
  /\ UNCHANGED <<build, in, c, sec>>

MultiplyHigh ==
  /\ At("low_done")
  /\ Top.len > Half
  /\ Call(Top.c + 2 * Half, Top.src, Top.a + Half, Top.b + Half,
          Top.len - Half, "high_done")
  /\ UNCHANGED <<build, in, c, sec, pc>>

(* karatzuba_add1, karatzuba_add2, and the call on the sums. *)
MultiplyMiddle ==
  /\ At("high_done")
  /\ sec' = [q \in DOMAIN sec |->
       IF q \in Alah .. Blbh - 1
         THEN SymDiff(ReadA(Top, q - Alah), ReadA(Top, q - Alah + Half))
       ELSE IF q \in Blbh .. Tmp - 1
         THEN SymDiff(ReadB(Top, q - Blbh), ReadB(Top, q - Blbh + Half))
       ELSE IF q \in Tmp .. Free - 1
         THEN SymDiff(c[Top.c + Half + q - Tmp], c[Top.c + 2 * Half + q - Tmp])
       ELSE sec[q]]
  /\ Call(Top.c + Half, "sec", Alah, Blbh, Half, "middle_done")
  /\ UNCHANGED <<build, in, c, pc>>

(* karatzuba_add3. *)
AddMiddle ==
  /\ At("middle_done")
  /\ LET mid(q)  == sec[Tmp + q]
         part(k, q) == c[Top.c + k * Half + q]
     IN  c' = Stored(c, Top.c + Half,
           [q \in 0 .. 2 * Half - 1 |->
              IF q < Half
              THEN SymDiff(mid(q), SymDiff(part(0, q), part(1, q)))
              ELSE SymDiff(mid(q - Half),
                           SymDiff(part(2, q - Half), part(3, q - Half)))])
  /\ Return
  /\ UNCHANGED <<build, in, sec>>

(* Mutant: the last quad-word is not masked. *)
RedUnmasked ==
  LET up(w)   == {b + QwBits - Lead : b \in {b \in w : b < Lead}}
      down(w) == {b - Lead : b \in {b \in w : b >= Lead}}
      sum(q) == SymDiff(c[q], up(c[q + RQwords]) \cup down(c[q + RQwords - 1]))
  IN  /\ pc = "red"
      /\ c' = [q \in 0 .. build.Pad - 1 |->
                 IF q >= RQwords THEN {} ELSE sum(q)]
      /\ pc' = "done"
      /\ UNCHANGED <<build, in, sec, stack>>

(* gf2x_red.  Its loop goes by whole registers and so past R_QWORDS; the   *)
(* mask and the cleaning after it leave zeros there.                       *)
Red ==
  LET up(w)   == {b + QwBits - Lead : b \in {b \in w : b < Lead}}
      down(w) == {b - Lead : b \in {b \in w : b >= Lead}}
      sum(q) == SymDiff(c[q], up(c[q + RQwords]) \cup down(c[q + RQwords - 1]))
  IN  /\ pc = "red"
      /\ c' = [q \in 0 .. build.Pad - 1 |->
                 IF q >= RQwords THEN {}
                 ELSE IF q = RQwords - 1 THEN {b \in sum(q) : b < Lead}
                 ELSE sum(q)]
      /\ pc' = "done"
      /\ UNCHANGED <<build, in, sec, stack>>

Next ==
  \/ MulBase \/ MultiplyLow \/ SkipHigh \/ MultiplyHigh
  \/ MultiplyMiddle \/ AddMiddle \/ Red

Spec == Init /\ [][Next]_vars
-----------------------------------------------------------------------------
Ring == INSTANCE Gf2Ring WITH R <- build.R

Operand(k) == ToPoly(in[k], build.Pad)

(* "c = a*b mod (x^r - 1)": the reduced product, with a clean padding.     *)
ProductModR ==
  pc = "done" =>
    ToPoly(c, build.Pad) = Ring!Mul(Operand(1), Operand(2))

(* What a call may rely on when one of its three calls has returned: the   *)
(* products are where it looks for them, in full length also where the     *)
(* callee skipped a part, although they share the memory of c.             *)
SubproductsInPlace ==
  pc = "karatzuba" /\ Top.step # "enter" =>
    LET a(at) == ToPoly([q \in 0..Half-1 |-> ReadA(Top, at + q)], Half)
        b(at) == ToPoly([q \in 0..Half-1 |-> ReadB(Top, at + q)], Half)
        found(at) == ToPoly([q \in 0..2*Half-1 |-> c[Top.c + at + q]], 2 * Half)
        sums(at)  == ToPoly([q \in 0..Half-1 |-> sec[at + q]], Half)
    IN  /\ Top.step = "low_done"    => found(0) = Product(a(0), b(0))
        /\ Top.step = "high_done"   => /\ found(0) = Product(a(0), b(0))
                                       /\ found(2 * Half) = Product(a(Half), b(Half))
        /\ Top.step = "middle_done" => found(Half) = Product(sums(Alah), sums(Blbh))

Larger(x, y) == IF x > y THEN x ELSE y

(* No call reads or writes past the end of what it was given, mul_base     *)
(* with its fixed length included; the secure buffer of 3n quad-words      *)
(* ("< 3n") is enough for all levels; and the part of it a level works in  *)
(* is above its operands and above all its callers'.                       *)
BuffersSuffice ==
  \A k \in 1..Len(stack) :
    LET f == stack[k]
        n == Larger(f.pad, build.Base)
    IN  /\ f.c + 2 * n <= 2 * build.Pad
        /\ f.src = "in" => f.a + n <= build.Pad /\ f.b + n <= build.Pad
        /\ f.src = "sec" => f.a + n <= f.sec /\ f.b + n <= f.sec
        /\ f.len > build.Base =>
             /\ f.sec + 3 * (f.pad \div 2) <= SecureBufferQwords
             /\ (f.pad \div 2) % build.Reg = 0   \* asserted by the additions
        /\ k < Len(stack) => f.sec >= stack[k+1].sec + 3 * f.pad
=============================================================================
