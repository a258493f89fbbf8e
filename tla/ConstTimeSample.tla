--------------------------- MODULE ConstTimeSample ---------------------------
(***************************************************************************)
(* sample_error_vec_indices_port, _avx2 and _avx512 (UNIFORM_SAMPLING):    *)
(* the support of the error, drawn with a number of words that does not    *)
(* depend on them.  Every word is written to the position ctr of the list, *)
(* and ctr moves on only past a word that is a valid and new index.  The   *)
(* vector code does the same to a list rounded up to full registers, of    *)
(* which the caller gets the first T.                                      *)
(***************************************************************************)
EXTENDS Integers, Sequences

CONSTANTS
  Count,      \* T
  Width,      \* length of the list: T, or WLIST_SIZE_ADJUSTED_T
  NumDraws,   \* MAX_RAND_INDICES_T
  Bound,      \* 2 * R_BITS
  WordRange   \* values of a masked word

SampleAssumption ==
  /\ {Count, Width, NumDraws, Bound, WordRange} \subseteq Nat \ {0}
  /\ Count <= Width
  /\ Bound <= WordRange

VARIABLES
  wlist,   \* the list
  ctr,     \* ctr: valid and different indices drawn, as the code counts
  i,       \* words drawn
  pc,      \* "sampling", "done" after SUCCESS, "failed" after FAIL
  seen     \* history: the different valid indices drawn, in their order

vars == <<wlist, ctr, i, pc, seen>>

Words     == 0..WordRange-1
Positions == 0..Width-1
Invalid   == WordRange    \* 0xffffffff, which no masked word is

Min2(x, y) == IF x < y THEN x ELSE y

(* Mutant: the first position is not compared. *)
IsDupButFirst(idx) == \E j \in Positions \ {0} : wlist[j] = idx

IsDup(idx)   == \E j \in Positions : wlist[j] = idx
IsValid(idx) == idx < Bound
-----------------------------------------------------------------------------
(* Mutant: the list starts as zeros. *)
InitZeroed ==
  /\ wlist = [j \in Positions |-> 0]
  /\ ctr = 0
  /\ i = 0
  /\ pc = "sampling"
  /\ seen = <<>>

Init ==
  /\ wlist = [j \in Positions |-> Invalid]
  /\ ctr = 0
  /\ i = 0
  /\ pc = "sampling"
  /\ seen = <<>>

(* One round.  Duplicates are looked for in the whole list, also where a   *)
(* rejected word of an earlier round still stands; past the end of the     *)
(* list nothing is written.                                                *)
Draw(idx) ==
  /\ pc = "sampling"
  /\ wlist' = [j \in Positions |-> IF j = ctr THEN idx ELSE wlist[j]]
  /\ ctr' = IF ~IsDup(idx) /\ IsValid(idx) THEN ctr + 1 ELSE ctr
  /\ i' = i + 1
  /\ pc' = IF i' < NumDraws THEN "sampling" ELSE "done"
  /\ seen' = IF IsValid(idx) /\ \A j \in 1..Len(seen) : seen[j] # idx
             THEN Append(seen, idx) ELSE seen

PrfFails ==
  /\ pc = "sampling"
  /\ pc' = "failed"
  /\ UNCHANGED <<wlist, ctr, i, seen>>

Next == PrfFails \/ \E idx \in Words : Draw(idx)

Spec == Init /\ [][Next]_vars
-----------------------------------------------------------------------------
(* The positions below ctr hold the first different valid indices drawn,   *)
(* and none was taken for a duplicate that is not one, although the list   *)
(* it is compared with also holds rejected words.                          *)
FirstDrawnKept ==
  /\ \A j \in 0 .. Min2(ctr, Width) - 1 :
       j < Len(seen) /\ wlist[j] = seen[j + 1]
  /\ Len(seen) <= Width => ctr >= Len(seen)

(* What the caller gets is an error of weight T as soon as T different     *)
(* valid indices came up; the rest of a shorter list is not valid or not   *)
(* new, so it adds nothing to the error.                                   *)
NoStrayIndex ==
  pc = "done" =>
    \A j \in 0..Count-1 :
      j >= Len(seen) =>
        ~IsValid(wlist[j]) \/ \E k \in 1..Len(seen) : wlist[j] = seen[k]
=============================================================================
