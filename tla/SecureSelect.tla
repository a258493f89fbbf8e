----------------------------- MODULE SecureSelect -----------------------------
(***************************************************************************)
(* The comparisons of include/internal/utilities.h, which have a version   *)
(* for each kind of CPU, and the masks their callers make of the results:  *)
(* instead of a branch the code computes both values and masks one out.    *)
(* The masks are made wider, narrower or negative on the way.  All other   *)
(* modules have the branch; this one is why they may.                      *)
(***************************************************************************)
EXTENDS Integers

CONSTANTS
  ByteBits, WordBits, LongBits,  \* of uint8_t, uint32_t and uint64_t
  Compared,                      \* what is compared
  Longs                          \* what is selected from

TwoTo[n \in 0..LongBits] == IF n = 0 THEN 1 ELSE 2 * TwoTo[n - 1]

(* x86-64 compares signed numbers (setl), so that no caller may have one   *)
(* in the upper half: indices are masked, counts and positions are small.  *)
SelectAssumption ==
  /\ {ByteBits, WordBits, LongBits} \subseteq Nat \ {0}
  /\ ByteBits < WordBits /\ LongBits = 2 * WordBits
  /\ Compared \subseteq 0 .. TwoTo[WordBits - 1] - 1
  /\ Longs \subseteq 0 .. TwoTo[LongBits] - 1

VARIABLES
  cpu,      \* "aarch64", "x86_64" or "other"
  use,      \* where the comparison is made
  v1, v2,   \* what is compared
  x, y,     \* what is selected from
  res,      \* the result of the comparison
  chosen,   \* the result of the masking
  pc        \* "compare", "select", "done"

vars == <<cpu, use, v1, v2, x, y, res, chosen, pc>>

(* C's & and | of numbers of LongBits at most; And goes from the lowest    *)
(* bit upwards, and a + b has a bit twice where it is in both.             *)
And[n \in 0..LongBits] == [a \in Nat |-> [b \in Nat |->
  IF n = 0 THEN 0
  ELSE 2 * And[n - 1][a \div 2][b \div 2] + (a % 2) * (b % 2)]]
a & b == And[LongBits][a][b]
a | b == a + b - (a & b)

Byte(v) == v % TwoTo[ByteBits]
Word(v) == v % TwoTo[WordBits]
Long(v) == v % TwoTo[LongBits]
NotByte(v) == (TwoTo[ByteBits] - 1) - v
NotWord(v) == (TwoTo[WordBits] - 1) - v
NotLong(v) == (TwoTo[LongBits] - 1) - v

(* sete, cset EQ and ==, and setl, cset HI and <, leave 0 or 1. *)
Flag(b) == IF b THEN 1 ELSE 0
Signed(v) == IF v < TwoTo[WordBits - 1] THEN v ELSE v - TwoTo[WordBits]

secure_cmp32(a, b) == Flag(a = b)

secure_l32(a, b) == Flag(IF cpu = "x86_64" THEN Signed(a) < Signed(b) ELSE a < b)

(* The versions in assembler decrement the flag; C has the carry of a      *)
(* difference in the upper half of 64 bits.                                *)
secure_l32_mask(a, b) ==
  IF cpu = "other" THEN NotWord(Long(a - b) \div TwoTo[WordBits])
                   ELSE Word(secure_l32(a, b) - 1)

(* The top bit of v1-v2 or of v2-v1 is set when they differ. *)
secure_cmpeq64_mask(a, b) ==
  Long(-(1 - ((Long(a - b) | Long(b - a)) \div TwoTo[LongBits - 1])))
-----------------------------------------------------------------------------
Uses == {"threshold", "rotate", "rotate vectors", "secret", "set bits", "append",
         "count", "window"}

(* Values that fit the types of the variables at each place. *)
Init ==
  /\ cpu \in {"aarch64", "x86_64", "other"}
  /\ use \in Uses
  /\ v1 \in Compared /\ v2 \in Compared
  /\ use = "rotate vectors" => v2 < TwoTo[ByteBits]
  /\ use = "secret" => v1 = 0 /\ v2 \in {0, 1}
  /\ x \in Longs /\ y \in Longs
  /\ use = "threshold" => x = v1 /\ y = v2
  /\ use = "secret" => x < TwoTo[ByteBits] /\ y < TwoTo[ByteBits]
  /\ use = "append" => x < TwoTo[WordBits] /\ y < TwoTo[WordBits]
  /\ use = "count" => x \in {0, 1}
  /\ use \in {"count", "set bits", "window"} => y = 0
  /\ res = 0
  /\ chosen = <<>>
  /\ pc = "compare"

Compare ==
  /\ pc = "compare"
  /\ res' = CASE use \in {"set bits", "append"} -> secure_cmp32(v1, v2)
              [] use = "count"                  -> secure_l32(v1, v2)
              [] use = "window"                 -> secure_cmpeq64_mask(v1, v2)
              [] OTHER                          -> secure_l32_mask(v1, v2)
  /\ pc' = "select"
  /\ UNCHANGED <<cpu, use, v1, v2, x, y, chosen>>

(* The threshold computed, x, or the least one. *)
Threshold == <<(res & x) | (NotWord(res) & y)>>

(* Mutant: the mask is not widened. *)
RotateNarrow ==
  <<Long(v1 - (v2 & res)), (x & NotLong(res)) | (y & res)>>

(* rotr_big: what is left to rotate, and the quad-word as it is, x, or the *)
(* one v2 further on.                                                      *)
Rotate ==
  LET mask == Long(Word(res + 1) - 1)
  IN  <<Long(v1 - (v2 & mask)), (x & NotLong(mask)) | (y & mask)>>

(* rotate256_big and rotate512_big, with a mask of a byte, of which the    *)
(* blend and the masked store look at the top bit or at all.               *)
RotateVectors ==
  LET mask == Byte(res)
  IN  <<Long(v1 - (v2 & mask)), IF mask = TwoTo[ByteBits] - 1 THEN y ELSE x>>

(* m' or sigma in crypto_kem_dec, byte by byte. *)
Secret == <<(x & NotByte(Byte(res))) | (Byte(res) & y)>>

(* A bit of a list that falls into the quad-word, or nothing. *)
SetBits == <<x & Long(-1 + (1 - res))>>

(* The place in the list keeps x or gets the index y; and so, in Fisher-   *)
(* Yates, the drawn index x gives way to y when it is a duplicate.         *)
AppendIndex ==
  LET mask == Word(-res) IN <<(NotWord(mask) & x) | (mask & y)>>

(* Whether ctr moves on; x says whether the index is a duplicate. *)
CountUp == <<(1 - x) & res>>

(* A product of three bits from the table, or nothing. *)
Window == <<x & res>>

Select ==
  /\ pc = "select"
  /\ chosen' = CASE use = "threshold"      -> Threshold
                 [] use = "rotate"         -> Rotate
                 [] use = "rotate vectors" -> RotateVectors
                 [] use = "secret"         -> Secret
                 [] use = "set bits"       -> SetBits
                 [] use = "append"         -> AppendIndex
                 [] use = "count"          -> CountUp
                 [] use = "window"         -> Window
  /\ pc' = "done"
  /\ UNCHANGED <<cpu, use, v1, v2, x, y, res>>

Next == Compare \/ Select

Spec == Init /\ [][Next]_vars
-----------------------------------------------------------------------------
Branch ==
  CASE use = "threshold" -> <<IF v1 < v2 THEN y ELSE x>>
    [] use \in {"rotate", "rotate vectors"} ->
         IF v1 < v2 THEN <<v1, x>> ELSE <<v1 - v2, y>>
    [] use = "secret"   -> <<IF v2 = 1 THEN x ELSE y>>
    [] use = "append"   -> <<IF v1 = v2 THEN y ELSE x>>
    [] use = "count"    -> <<IF v1 < v2 /\ x = 0 THEN 1 ELSE 0>>
    [] use \in {"set bits", "window"} -> <<IF v1 = v2 THEN x ELSE 0>>

(* On every CPU the masked value is the one that a branch on the plain     *)
(* comparison gives, in all bits of the type it is kept in.                *)
SelectsAsBranch == pc = "done" => chosen = Branch
=============================================================================
