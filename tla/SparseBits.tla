------------------------------ MODULE SparseBits ------------------------------
(***************************************************************************)
(* From lists of indices to polynomials: secure_set_bits_port, _avx2 and   *)
(* _avx512, and their callers generate_sparse_rep_for_sk and               *)
(* generate_error_vector in random/sampling.c.  A polynomial is filled     *)
(* register by register, and each time all the list is compared with the   *)
(* quad-words in it, so that the time does not depend on the indices.      *)
(* Indices that belong to the other half of the error become negative or   *)
(* too large and fall outside, or into the padding that is cleaned after.  *)
(***************************************************************************)
EXTENDS Integers, FiniteSets

CONSTANTS
  R,           \* R_BITS
  QwBits,      \* bits of a quad-word, 64
  RegQwords,   \* quad-words filled at a time: 1, YMMS_QWORDS or ZMMS_QWORDS
  Qwords,      \* R_PADDED_QWORDS
  IdxRange,    \* how many values an idx_t has, 2^32
  KeyLists,    \* lists for a key half, as sets of their members
  ErrorLists   \* lists for the error

ASSUME SparseBitsAssumption ==
  /\ {R, QwBits, RegQwords, Qwords, IdxRange} \subseteq Nat \ {0}
  /\ R <= Qwords * QwBits
  /\ IdxRange % 2 = 0
  /\ Qwords * QwBits <= IdxRange \div 2   \* a position fits an int32_t
  /\ Qwords % RegQwords = 0     \* asserted by the vector code
  /\ \A l \in KeyLists : l \subseteq 0..R-1
  /\ \A l \in ErrorLists : l \subseteq 0 .. IdxRange - 1

VARIABLES
  kind,    \* "key" or "error"
  wlist,   \* the list of each half: the same one for an error
  r,       \* the padded polynomials, as sets of bit positions
  half,    \* the half being filled
  qw,      \* the loop variable of secure_set_bits
  pc       \* "fill", "clean", "done"

vars == <<kind, wlist, r, half, qw, pc>>

Halves == {0, 1}
PaddedBits == 0 .. Qwords * QwBits - 1

FirstPos == IF kind = "error" THEN half * R ELSE 0

(* wlist[i] - first_pos as an int32_t. *)
Signed(v) ==
  LET u == v % IdxRange IN IF u < IdxRange \div 2 THEN u ELSE u - IdxRange

(* The 32 bits secure_cmp32 compares of a quad-word position. *)
PosQw(w) == (w \div QwBits) % IdxRange

(* The bits of the registers at quad-word q that the list sets. *)
RegisterBits(q) ==
  {b \in q * QwBits .. (q + RegQwords) * QwBits - 1 :
     \E idx \in wlist[half] :
       LET w == Signed(idx - FirstPos)
       IN  PosQw(w) = b \div QwBits /\ w % QwBits = b % QwBits}
-----------------------------------------------------------------------------
(* What the polynomials held before does not matter: all of it is written. *)
Init ==
  /\ \/ kind = "key"   /\ wlist \in [Halves -> KeyLists]
     \/ kind = "error" /\ \E l \in ErrorLists : wlist = [h \in Halves |-> l]
  /\ r = [h \in Halves |-> PaddedBits]
  /\ half = 0
  /\ qw = 0
  /\ pc = "fill"

(* One turn of the loop of secure_set_bits over the polynomial. *)
FillRegisters ==
  LET regs == qw * QwBits .. (qw + RegQwords) * QwBits - 1
  IN  /\ pc = "fill"
      /\ r' = [r EXCEPT ![half] = (@ \ regs) \cup RegisterBits(qw)]
      /\ IF qw + RegQwords < Qwords
         THEN qw' = qw + RegQwords /\ UNCHANGED <<half, pc>>
         ELSE /\ qw' = 0
              /\ IF half = 0
                 THEN half' = 1 /\ UNCHANGED pc
                 ELSE pc' = (IF kind = "error" THEN "clean" ELSE "done")
                      /\ UNCHANGED half
      /\ UNCHANGED <<kind, wlist>>

(* Mutant: a padding bit is left. *)
CleanPaddingButOne ==
  /\ pc = "clean"
  /\ r' = [h \in Halves |-> {b \in r[h] : b <= R}]
  /\ pc' = "done"
  /\ UNCHANGED <<kind, wlist, half, qw>>

(* The mask of the last byte and the memset behind it, for both halves. *)
CleanPadding ==
  /\ pc = "clean"
  /\ r' = [h \in Halves |-> {b \in r[h] : b < R}]
  /\ pc' = "done"
  /\ UNCHANGED <<kind, wlist, half, qw>>

Next == FillRegisters \/ CleanPadding

Spec == Init /\ [][Next]_vars
-----------------------------------------------------------------------------
(* A key half is the polynomial of its list; e0 has the indices of the     *)
(* error below R_BITS and e1 those from R_BITS to N_BITS; an index that is *)
(* not valid, which a short sample leaves in the list, sets no bit, and    *)
(* nothing stays in the padding that goes into products and hashes.        *)
BitsOfTheList ==
  pc = "done" =>
    IF kind = "key"
    THEN \A h \in Halves : r[h] = wlist[h]
    ELSE \A h \in Halves : r[h] = {b \in 0..R-1 : b + h * R \in wlist[h]}
=============================================================================
