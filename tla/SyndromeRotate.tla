---------------------------- MODULE SyndromeRotate ----------------------------
(***************************************************************************)
(* dup and rotate_right of decode_portable.c, decode_avx2.c and            *)
(* decode_avx512.c: the syndrome is laid out three times in a row and then *)
(* shifted down by a barrel shifter, first by whole registers, a power of  *)
(* two of them at a time, then by the rest.  The three versions differ in  *)
(* the size of a register and in how they do the second part.              *)
(*                                                                         *)
(* What moves is positions, so a bit holds the number of the syndrome bit  *)
(* that got there.                                                         *)
(***************************************************************************)
EXTENDS Integers

CONSTANTS
  R,          \* R_BITS
  QwBits,     \* bits of a quad-word, 64
  RegQwords   \* for each version, the quad-words of a register

Versions == {"port", "avx2", "avx512"}

CeilDiv(a, b) == (a + b - 1) \div b
RQwords == CeilDiv(R, QwBits)
Lead    == R % QwBits               \* LAST_R_QWORD_LEAD
Trail   == QwBits - Lead            \* LAST_R_QWORD_TRAIL

(* UPTOPOW2, which rounds up to a power of 2. *)
UpToPow2[v \in 0..RQwords] ==
  IF v <= 1 THEN v ELSE 2 * UpToPow2[(v + 1) \div 2]

(* R_QWORDS, R_YMM, R_ZMM and the _HALF_LOG2 of each. *)
RRegs(v) == CeilDiv(R, RegQwords[v] * QwBits)
Half(v)  == UpToPow2[RRegs(v) \div 2]

(* What the code asserts of its parameters, and in the last conjunct what  *)
(* it relies on without asserting it: the turns of the barrel shifter make *)
(* up 2 * Half - 1 registers, and one register less than the syndrome has  *)
(* may have to be moved.  It fails for a number of registers that is 1     *)
(* above a power of 2, which none of the three LEVELs has.                 *)
RotateAssumption ==
  /\ R \in Nat \ {0} /\ QwBits \in Nat \ {0} /\ Lead # 0
  /\ RegQwords \in [Versions -> Nat \ {0}] /\ RegQwords["port"] = 1
  \* rotr_big_err
  /\ \A v \in Versions : 3 * RQwords > RegQwords[v] * (RRegs(v) + 2 * Half(v))
  /\ \A v \in Versions : RRegs(v) <= 2 * Half(v)

VARIABLES
  version,   \* the rotate_right in use
  amount,    \* bitscount
  out,       \* out->qw
  num,       \* registers still to rotate by: qw_num, ymm_num, zmm_num
  idx,       \* the loop variable of the first part
  pc         \* "dup", "big", "small", "done"

vars == <<version, amount, out, num, idx, pc>>

Qwords == 0 .. 3 * RQwords - 1
BitIds == 0 .. QwBits - 1
Nil    == -1                        \* a bit that is no bit of the syndrome
NilQw  == [b \in BitIds |-> Nil]

W == RegQwords[version]
RegBits == W * QwBits

(* (lo >> n) | (hi << (64 - n)), with the care for n = 0. *)
Funnel(lo, hi, n) ==
  [b \in BitIds |-> IF b + n < QwBits THEN lo[b + n] ELSE hi[b + n - QwBits]]

(* The low n bits of lo, and hi above them. *)
Spliced(lo, hi, n) == [b \in BitIds |-> IF b < n THEN lo[b] ELSE hi[b - n]]

BitAt(qws, p) == qws[p \div QwBits][p % QwBits]
-----------------------------------------------------------------------------
(* The syndrome is in the first R bits; what is above is left from before. *)
Init ==
  /\ version \in Versions
  /\ amount \in 0..R-1
  /\ out = [q \in Qwords |->
              [b \in BitIds |->
                 IF q * QwBits + b < R THEN q * QwBits + b ELSE Nil]]
  /\ num = 0
  /\ idx = 0
  /\ pc = "dup"

(* dup: the loop fills quad-words from those filled before, which the      *)
(* recursion follows; the very last one is not written.                    *)
Duplicated(qws) ==
  LET d[q \in Qwords] ==
        IF q < RQwords - 1 THEN qws[q]
        ELSE IF q = RQwords - 1 THEN Spliced(qws[q], qws[0], Lead)
        ELSE IF q = 3 * RQwords - 1 THEN qws[q]
        ELSE Funnel(d[q - RQwords], d[q - RQwords + 1], Trail)
  IN  d

Dup ==
  /\ pc = "dup"
  /\ out' = Duplicated(out)
  /\ num' = amount \div RegBits
  /\ idx' = Half(version)
  /\ pc' = "big"
  /\ UNCHANGED <<version, amount>>

(* One turn of rotr_big, rotate256_big or rotate512_big: the first         *)
(* RRegs + idx registers move down by idx registers or stay.               *)
RotateBig ==
  LET move == num >= idx
      last == W * (RRegs(version) + idx)
  IN  /\ pc = "big"
      /\ out' = [q \in Qwords |->
                   IF move /\ q < last THEN out[q + W * idx] ELSE out[q]]
      /\ num' = IF move THEN num - idx ELSE num
      /\ idx' = idx \div 2
      /\ pc' = IF idx' = 0 THEN "small" ELSE "big"
      /\ UNCHANGED <<version, amount>>

Count64 == (amount % RegBits) % QwBits
FullQws == (amount % RegBits) \div QwBits

(* rotr_small. *)
SmallPort ==
  [q \in Qwords |->
     IF q < RQwords THEN Funnel(out[q], out[q + 1], Count64) ELSE out[q]]

(* Quad-word k of register i; above the last one loaded is zero. *)
Loaded(i, k) == IF i <= RRegs(version) THEN out[W * i + k] ELSE NilQw

(* Mutant: the quad-words of the register above are not turned in. *)
SmallAvx2OneRegister ==
  LET turned(i, k) == Loaded(i, (k + FullQws) % W)
      inner(i, k)  == IF k < W - 1 THEN turned(i, k + 1) ELSE turned(i + 1, 0)
  IN  [q \in Qwords |->
         LET i == q \div W
             k == q % W
         IN  IF i <= RRegs(version) THEN Funnel(turned(i, k), inner(i, k), Count64)
                                    ELSE out[q]]

(* rotate256_small: the register and the one above it are turned so that   *)
(* their quad-words are in place, then each quad-word gets its low bits    *)
(* from its own and its high bits from the next.                           *)
SmallAvx2 ==
  LET turned(i, k) == Loaded(i, (k + FullQws) % W)
      in256(i, k)  == IF k + FullQws < W THEN turned(i, k) ELSE turned(i + 1, k)
      inner(i, k)  == IF k < W - 1 THEN in256(i, k + 1) ELSE turned(i + 1, 0)
  IN  [q \in Qwords |->
         LET i == q \div W
             k == q % W
         IN  IF i <= RRegs(version) THEN Funnel(in256(i, k), inner(i, k), Count64)
                                    ELSE out[q]]

(* rotate512_small: quad-words are picked from the register and the one    *)
(* above it as one table of 2W.                                            *)
SmallAvx512 ==
  LET pick(i, j) == IF j < W THEN Loaded(i, j) ELSE Loaded(i + 1, j - W)
  IN  [q \in Qwords |->
         LET i == q \div W
             k == q % W
         IN  IF i <= RRegs(version)
             THEN Funnel(pick(i, k + FullQws), pick(i, k + FullQws + 1), Count64)
             ELSE out[q]]

RotateSmall ==
  /\ pc = "small"
  /\ \/ version = "port"   /\ out' = SmallPort
     \/ version = "avx2"   /\ out' = SmallAvx2
     \/ version = "avx512" /\ out' = SmallAvx512
  /\ pc' = "done"
  /\ UNCHANGED <<version, amount, num, idx>>

Next == Dup \/ RotateBig \/ RotateSmall

Spec == Init /\ [][Next]_vars
-----------------------------------------------------------------------------
(* A right rotation by amount: bit p of the result is bit p + amount of    *)
(* the syndrome, modulo R.                                                 *)
RotatesRight ==
  pc = "done" => \A p \in 0..R-1 : BitAt(out, p) = (p + amount) % R
=============================================================================
