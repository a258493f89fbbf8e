----------------------------- MODULE FisherYates -----------------------------
(***************************************************************************)
(* random/sampling.c, sample_indices_fisher_yates: fills out[] from its    *)
(* last position down to the first, one random word a position, so that    *)
(* the number of random words drawn does not depend on the indices.  A     *)
(* drawn index that is already there is replaced by the position itself.   *)
(***************************************************************************)
EXTENDS IndexDraw, FiniteSets, Functions

CONSTANTS
  NumIndices,   \* num_indices: D for a key half, T for the error
  MaxIdxVal,    \* max_idx_val: R_BITS, or N_BITS for the error
  RandRange     \* how many values CWW_RAND_BYTES random bytes take, 2^32

ASSUME FisherYatesAssumption ==
  /\ NumIndices \in Nat \ {0}
  /\ MaxIdxVal \in Nat
  /\ NumIndices <= MaxIdxVal
  /\ RandRange \in Nat \ {0}

VARIABLES
  todo,   \* the loop variable i before the test i-- > 0
  out,    \* the caller's array
  pc      \* "sampling", "done" after SUCCESS, "failed" after FAIL

vars == <<todo, out, pc>>

Positions == 0..NumIndices-1
Indices   == 0..MaxIdxVal-1
Unset     == -1    \* what the caller's array held before

(* The positions filled so far. *)
Filled == todo..NumIndices-1

(* Mutant: the comparison stops one short of the end of the array. *)
ChosenButLast == {out[j] : j \in Filled \ {NumIndices - 1}}

(* The indices drawn so far: what the loop over j compares with. *)
Chosen == {out[j] : j \in Filled}
-----------------------------------------------------------------------------
Init ==
  /\ todo = NumIndices
  /\ out = [j \in Positions |-> Unset]
  /\ pc = "sampling"

(* One round of the loop, and the return after the last one. *)
Draw(rand) ==
  /\ pc = "sampling"
  /\ todo' = todo - 1
  /\ out' = [out EXCEPT ![todo - 1] =
                Selected(MaxIdxVal, RandRange, todo - 1, Chosen, rand)]
  /\ pc' = IF todo = 1 THEN "done" ELSE "sampling"

(* get_prf_output fails: GUARD returns with out[] partly filled. *)
PrfFails ==
  /\ pc = "sampling"
  /\ pc' = "failed"
  /\ UNCHANGED <<todo, out>>

Next == PrfFails \/ \E rand \in 0..RandRange-1 : Draw(rand)

Spec == Init /\ [][Next]_vars
-----------------------------------------------------------------------------
TypeOK ==
  /\ todo \in 0..NumIndices
  /\ out \in [Positions -> Indices \cup {Unset}]
  /\ pc \in {"sampling", "done", "failed"}

(* The sample at SUCCESS has exactly NumIndices members, all below         *)
(* MaxIdxVal: a key half of weight D, an error of weight T.                *)
ExactWeight ==
  pc = "done" => /\ Range(out) \subseteq Indices
                 /\ Cardinality(Range(out)) = NumIndices

(* Why replacing a duplicate by its position cannot itself be a duplicate: *)
(* a position never holds an index below itself, so index i is still free  *)
(* when position i is reached.                                             *)
PositionStillFree ==
  \A j \in Filled : out[j] >= j

Sample == INSTANCE DistinctSample WITH
  Count <- NumIndices, Bound <- MaxIdxVal, chosen <- Chosen, status <- pc

(* The loop is a DistinctSample: each round finds one new index. *)
RefinesSample == Sample!Spec
=============================================================================
