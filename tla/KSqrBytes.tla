------------------------------ MODULE KSqrBytes ------------------------------
(***************************************************************************)
(* k_sqr_avx2 and k_sqr_avx512, once the map is made: the bits of a are    *)
(* spread over bytes, the bytes are permuted, and the result is gathered   *)
(* into bits.  AVX-512 has masks for it.  With AVX2 a bit is shifted to    *)
(* the top of its byte, by shifts of double words, and what else is in the *)
(* byte is not cleared.  A byte is the set of the positions of its bits,   *)
(* and a padded polynomial that of its exponents.                          *)
(***************************************************************************)
EXTENDS Integers

CONSTANTS
  R, RQwords, RPadded,   \* R_BITS, R_QWORDS, R_PADDED
  Ks,                    \* the k of the k-squarings
  Operands               \* what they are applied to

BytesAssumption ==
  /\ {R, RQwords, RPadded} \subseteq Nat \ {0}
  /\ R <= 64 * RQwords /\ 64 * RQwords <= RPadded
  /\ \A p \in Operands : p \subseteq 0 .. R - 1
  /\ \A q \in Ks : 2^q \in Nat /\ \E l \in 0 .. R-1 : (l * 2^q) % R = 1

VARIABLES
  avx2,               \* the version that runs
  k,                  \* l_param = 2^-k mod R
  a, c,               \* the operand and the result
  a_bytes, c_bytes,   \* the local arrays
  pc                  \* "spread", "permute", "gather", "done"

vars == <<avx2, k, a, c, a_bytes, c_bytes, pc>>

Byte     == 0..7
Places   == 0 .. RPadded - 1        \* of the local arrays
Written  == 0 .. 64 * RQwords - 1   \* bits that both conversions go over

LParam == CHOOSE l \in 0 .. R-1 : (l * 2^k) % R = 1

(* What generate_map leaves at i: MapRight of KSqrMap. *)
Map(i) == (i * LParam) % R
-----------------------------------------------------------------------------
(* Registers of 32 bytes for one double word of a, byte 0 the lowest.      *)
(* SET_I32 and SET_I8 take the highest lane first.                         *)
Ymm == 0..31
Shl32(x, n) == [j \in Ymm |->
  {b \in Byte : LET from == 8 * (j % 4) + b - n
                IN  from >= 0 /\ (from % 8) \in x[j - (j % 4) + (from \div 8)]}]

shift_mask == [d \in 0..7 |-> <<0, 2, 4, 6, 0, 2, 4, 6>>[8 - d]]
shuffle_mask ==
  [j \in Ymm |->
     <<15, 15, 11, 11, 7, 7, 3, 3, 14, 14, 10, 10, 6, 6, 2, 2,
       13, 13, 9, 9, 5, 5, 1, 1, 12, 12, 8, 8, 4, 4, 0, 0>>[32 - j]]

SET1_I32(w)  == [j \in Ymm |-> {b \in Byte : 8 * (j % 4) + b \in w}]
SLLV_I32(x)  == [j \in Ymm |-> Shl32(x, shift_mask[j \div 4])[j]]
SHUF_I8(x)   == [j \in Ymm |-> x[16 * (j \div 16) + shuffle_mask[j]]]

(* Mutant: as the comment has it, even places from p and odd ones from q. *)
BlendedAsCommented(p, q) == [j \in Ymm |-> IF j % 2 = 0 THEN p[j] ELSE q[j]]

(* BLENDV_I8 with 0x00ff in each 16 bits: even places from q. *)
Blended(p, q) == [j \in Ymm |-> IF j % 2 = 0 THEN q[j] ELSE p[j]]

SpreadAvx2(w) ==
  LET p == SHUF_I8(SLLV_I32(SET1_I32(w))) IN Blended(p, Shl32(p, 1))

(* The bytes one turn of bin_to_bytes makes of a double or quad-word. *)
SpreadByte(j) ==
  IF avx2 THEN SpreadAvx2({b \in Ymm : 32 * (j \div 32) + b \in a})[j % 32]
          ELSE IF j \in a THEN {0} ELSE {}

(* MOVEMASK takes the top bits; AVX-512 compares with 1. *)
IsSet(byte) == IF avx2 THEN 7 \in byte ELSE byte = {0}
-----------------------------------------------------------------------------
(* a_bytes is not initialised; c holds an older polynomial. *)
Init ==
  /\ avx2 \in BOOLEAN
  /\ k \in Ks
  /\ a \in Operands
  /\ c = 0 .. R - 1
  /\ \E rubbish \in {{}, {0}, Byte} : a_bytes = [j \in Places |-> rubbish]
  /\ c_bytes = [j \in Places |-> {}]
  /\ pc = "spread"

BinToBytes ==
  /\ pc = "spread"
  /\ a_bytes' = [j \in Places |-> IF j \in Written THEN SpreadByte(j) ELSE a_bytes[j]]
  /\ pc' = "permute"
  /\ UNCHANGED <<avx2, k, a, c, c_bytes>>

Permute ==
  /\ pc = "permute"
  /\ c_bytes' = [j \in Places |-> IF j < R THEN a_bytes[Map(j)] ELSE c_bytes[j]]
  /\ pc' = "gather"
  /\ UNCHANGED <<avx2, k, a, c, a_bytes>>

BytesToBin ==
  /\ pc = "gather"
  /\ c' = (c \ Written) \cup {j \in Written : IsSet(c_bytes[j])}
  /\ pc' = "done"
  /\ UNCHANGED <<avx2, k, a, a_bytes, c_bytes>>

Next == BinToBytes \/ Permute \/ BytesToBin

Spec == Init /\ [][Next]_vars
-----------------------------------------------------------------------------
(* "c = a^(2^k) % (x^r - 1)", bit for bit and with a clean padding,        *)
(* whatever the unused bits and the uninitialised bytes hold.              *)
KSquared ==
  pc = "done" => c = {(j * 2^k) % R : j \in a}
=============================================================================
