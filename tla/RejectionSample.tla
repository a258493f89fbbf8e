--------------------------- MODULE RejectionSample ---------------------------
(***************************************************************************)
(* random/sampling.c with UNIFORM_SAMPLING: generate_indices_mod_z and     *)
(* get_rand_mod_len, which draw the support of a key half by rejection.  A *)
(* word is drawn again while it is too large, and a new one is drawn while *)
(* the index is already there.  Only the generator bounds the number of    *)
(* words: it fails once it has given all it may, if not before.            *)
(***************************************************************************)
EXTENDS Integers

CONSTANTS
  NumIndices,   \* num_indices, D
  Z,            \* z, R_BITS
  Words         \* words the generator gives at most

RejectionAssumption ==
  /\ NumIndices \in Nat \ {0}
  /\ Z \in Nat
  /\ NumIndices <= Z
  /\ Words \in Nat

VARIABLES
  out,    \* the caller's array
  ctr,    \* distinct indices found
  left,   \* words the generator has left
  pc      \* "sampling", "done" after SUCCESS, "failed" after FAIL

vars == <<out, ctr, left, pc>>

Positions == 0..NumIndices-1
Unset     == -1

(* bit_scan_reverse_vartime: the number of bits of val. *)
BitScanReverse(val) ==
  CHOOSE b \in 0..val : 2^b > val /\ (b = 0 \/ 2^(b-1) <= val)

(* What masking leaves of a random word. *)
MaskedWords == 0 .. 2^BitScanReverse(Z) - 1

IsNew(idx) == \A j \in 0..ctr-1 : out[j] # idx
-----------------------------------------------------------------------------
Init ==
  /\ out = [j \in Positions |-> Unset]
  /\ ctr = 0
  /\ left = Words
  /\ pc = "sampling"

(* Mutants: the budget of the generator is not used up; z is accepted. *)
DrawForFree(idx) ==
  /\ pc = "sampling"
  /\ left > 0
  /\ out' = [out EXCEPT ![ctr] = idx]
  /\ ctr' = IF idx < Z /\ IsNew(idx) THEN ctr + 1 ELSE ctr
  /\ pc' = IF ctr' < NumIndices THEN "sampling" ELSE "done"
  /\ UNCHANGED left

DrawUpToZ(idx) ==
  /\ pc = "sampling"
  /\ left > 0
  /\ left' = left - 1
  /\ out' = [out EXCEPT ![ctr] = idx]
  /\ ctr' = IF idx <= Z /\ IsNew(idx) THEN ctr + 1 ELSE ctr
  /\ pc' = IF ctr' < NumIndices THEN "sampling" ELSE "done"

(* One word, written to out[ctr] whatever it is: kept there only when it   *)
(* is below z and new, overwritten by the next one otherwise.              *)
Draw(idx) ==
  /\ pc = "sampling"
  /\ left > 0
  /\ left' = left - 1
  /\ out' = [out EXCEPT ![ctr] = idx]
  /\ ctr' = IF idx < Z /\ IsNew(idx) THEN ctr + 1 ELSE ctr
  /\ pc' = IF ctr' < NumIndices THEN "sampling" ELSE "done"

(* get_prf_output fails: always with left = 0, where no Draw is possible,  *)
(* and at any word when AES does.                                          *)
PrfFails ==
  /\ pc = "sampling"
  /\ pc' = "failed"
  /\ UNCHANGED <<out, ctr, left>>

Next == PrfFails \/ \E idx \in MaskedWords : Draw(idx)

Spec == Init /\ [][Next]_vars
-----------------------------------------------------------------------------
(* The indices kept; the word at ctr is not one of them yet. *)
Kept == {out[j] : j \in 0..ctr-1}

Sample == INSTANCE DistinctSample WITH
  Count <- NumIndices, Bound <- Z, chosen <- Kept, status <- pc

(* The loop is a DistinctSample: a rejected word changes nothing kept.     *)
RejectionRefines == Sample!Spec
=============================================================================
