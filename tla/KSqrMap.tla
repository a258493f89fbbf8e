------------------------------- MODULE KSqrMap -------------------------------
(***************************************************************************)
(* The permutation map of k_sqr_avx2 and k_sqr_avx512: generate_map fills  *)
(* map[i] = (i * l_param) % R for all i without multiplying, a few vector  *)
(* registers at a time, each value from the one NUM_OF_VALS before it, in  *)
(* words just wide enough for the sums.  AVX2 has signed comparisons only  *)
(* and keeps its sums negative until it has compared them.                 *)
(***************************************************************************)
EXTENDS Integers

CONSTANT Builds   \* LEVEL and instruction set the program is compiled for

(* A build has R and RPadded for R_BITS and R_PADDED, avx2 or not, NumVals *)
(* and WordBits for NUM_OF_VALS and the width of map_word_t, and in Params *)
(* the values of l_param it uses.  A word holds twice R, and R with a sign *)
(* to it; of powers of 2 the provers know nothing but what is said here.   *)
BuildsAssumption ==
  \A q \in Builds :
    /\ q.R \in Nat \ {0} /\ q.RPadded \in Nat /\ q.NumVals \in Nat \ {0}
    /\ q.R <= q.RPadded
    /\ q.RPadded % q.NumVals = 0
    /\ q.Params \subseteq 0 .. q.R - 1
    /\ 2^(q.WordBits - 1) \in Nat /\ q.R <= 2^(q.WordBits - 1)
    /\ 2^q.WordBits = 2 * 2^(q.WordBits - 1)

VARIABLES
  build,   \* the build that runs
  l,       \* l_param
  vmap,    \* the values in the vector registers
  i        \* the position in map[] of the first of them

vars == <<build, l, vmap, i>>

R == build.R
Lanes == 0 .. build.NumVals - 1

Unsigned(x) == x % 2^build.WordBits
Signed(x) ==
  LET u == Unsigned(x)
  IN  IF u < 2^(build.WordBits - 1) THEN u ELSE u - 2^build.WordBits

Inc == (l * build.NumVals) % R

(* Mutant: the sum is not kept negative and passes for a negative one. *)
NextAvx2Unbiased(v) ==
  LET sum == Signed(v + Inc)
  IN  Unsigned(IF sum > R - 1 THEN sum - R ELSE sum)

(* The loop body for one lane in each version. *)
NextAvx2(v) ==
  LET sum == Signed(v + Signed(Inc - R))
  IN  Unsigned(IF 0 > sum THEN sum + R ELSE sum)

NextAvx512(v) ==
  LET sum == Unsigned(v + Inc) IN IF sum >= R THEN Unsigned(sum - R) ELSE sum
-----------------------------------------------------------------------------
(* l_param is passed as a map_word_t. *)
Init ==
  /\ build \in Builds
  /\ \E param \in build.Params : l = Unsigned(param)
  /\ vmap = [k \in Lanes |-> (k * l) % R]
  /\ i = 0

NextRegisters ==
  /\ i + build.NumVals < build.RPadded
  /\ i' = i + build.NumVals
  /\ vmap' = [k \in Lanes |-> IF build.avx2 THEN NextAvx2(vmap[k])
                                            ELSE NextAvx512(vmap[k])]
  /\ UNCHANGED <<build, l>>

Next == NextRegisters

Spec == Init /\ [][Next]_vars
-----------------------------------------------------------------------------
(* "map[i] = (i * l_param) % r": what k_sqr_port computes for each bit.    *)
MapRight ==
  \A k \in Lanes : vmap[k] = (((i + k) % R) * l) % R
=============================================================================
