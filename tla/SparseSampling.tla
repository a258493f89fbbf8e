---------------------------- MODULE SparseSampling ----------------------------
(***************************************************************************)
(* generate_secret_key and generate_error_vector in random/sampling.c, as  *)
(* they are without UNIFORM_SAMPLING: AesCtrPrf gives the words, one call  *)
(* of get_prf_output each, FisherYates makes indices of them and           *)
(* SparseBits polynomials of the indices.  Both halves of a key come from  *)
(* one generator, one after the other; an error is drawn as a whole and    *)
(* split.  A call that fails is the last of its generator.                 *)
(***************************************************************************)
EXTENDS SparseBits, Sequences, Functions

CONSTANTS
  D, T,          \* the weights of a key half and of an error
  BlockBytes,    \* of AesCtrPrf
  Budgets,       \* values of MAX_PRF_INVOCATION
  RandBytes,     \* CWW_RAND_BYTES
  ByteValues,    \* how many values a byte has, 256
  Streams        \* the key streams of the seeds, a function from positions each

(* The words that one call takes at the most. *)
MaxDraws == IF T > 2 * D THEN T ELSE 2 * D

SamplingAssumption ==
  /\ {D, T, BlockBytes, RandBytes, ByteValues} \subseteq Nat \ {0}
  /\ D <= R /\ T <= 2 * R
  /\ RandBytes < BlockBytes
  /\ \A s \in Streams : \A k \in 0 .. MaxDraws * RandBytes - 1 : s[k] \in 0..ByteValues-1

VARIABLES
  stream,                                                   \* of the seed
  ctr, rem, buffered, pos, prfPc, len, idx, out, delivered, \* AesCtrPrf
  todo, sample, fyPc,                                       \* FisherYates
  used,      \* history: the bytes of the stream each draw was made from
  step       \* "ask", "generate", "draw", "bits", "failed", "returned"

prfVars == <<ctr, rem, buffered, pos, prfPc, len, idx, out, delivered>>
fyVars  == <<todo, sample, fyPc>>
samplingVars == <<vars, stream, prfVars, fyVars, used, step>>

Prf(budget) == INSTANCE AesCtrPrf WITH
  MaxInvocations <- budget, MaxLen <- RandBytes, Lens <- {RandBytes}, pc <- prfPc

(* The value of byte j of a word when it is 1, and how many words there are. *)
Place[j \in 0..RandBytes] == IF j = 0 THEN 1 ELSE ByteValues * Place[j - 1]
RandRange == Place[RandBytes]

Fy(num, max) == INSTANCE FisherYates WITH
  NumIndices <- num, MaxIdxVal <- max, out <- sample, pc <- fyPc

(* What one call of sample_indices_fisher_yates is asked for, and the list *)
(* it is given: wlist_temp[D] = {0}, or wlist[T], which is not set.        *)
Weight == IF kind = "key" THEN D ELSE T
Uninitialized == [j \in 0..Weight-1 |-> IF kind = "key" THEN 0 ELSE -1]

(* The random word of a draw, lowest byte first.  rand is zero before      *)
(* get_prf_output writes to it.                                            *)
Word ==
  LET byte(j) == IF out[j] < 0 THEN 0 ELSE stream[out[j]]
      sum[j \in 0..RandBytes] ==
        IF j = 0 THEN 0 ELSE sum[j - 1] + byte(j - 1) * Place[j - 1]
  IN  sum[RandBytes]
-----------------------------------------------------------------------------
(* init_prf_state, then the first call of sample_indices_fisher_yates. *)
SamplingInit ==
  /\ kind \in {"key", "error"}
  /\ wlist = [h \in Halves |-> {}]
  /\ r = [h \in Halves |-> PaddedBits]
  /\ half = 0 /\ qw = 0 /\ pc = "fill"
  /\ stream \in Streams
  /\ \E budget \in Budgets : Prf(budget)!Init
  /\ todo = Weight /\ sample = Uninitialized /\ fyPc = "sampling"
  /\ used = <<>>
  /\ step = "ask"

(* get_prf_output is called: it returns at once or needs a new block. *)
AskForWord ==
  /\ step = "ask"
  /\ \/ Prf(1)!GetBuffered(RandBytes) /\ step' = "draw"
     \/ Prf(1)!GetRefill(RandBytes) /\ step' = "generate"
  /\ UNCHANGED <<vars, stream, fyVars, used>>

(* RandBytes < BlockBytes: one block is always enough for the rest. *)
GenerateBlock ==
  /\ step = "generate"
  /\ Prf(1)!TailBlock
  /\ step' = "draw"
  /\ UNCHANGED <<vars, stream, fyVars, used>>

(* Mutant: the result of get_prf_output is ignored. *)
PrfFailsIgnored ==
  /\ step = "generate"
  /\ prfPc' = "idle"
  /\ step' = "draw"
  /\ UNCHANGED <<ctr, rem, buffered, pos, len, idx, out, delivered>>
  /\ UNCHANGED <<vars, stream, fyVars, used>>

(* get_prf_output fails: all return through GUARD. *)
PrfFails ==
  /\ step = "generate"
  /\ Prf(1)!OverUsed \/ Prf(1)!AesError
  /\ Fy(Weight, 2 * R)!PrfFails
  /\ step' = "failed"
  /\ UNCHANGED <<vars, stream, used>>

(* Mutant: both lists of a key are copied to the first. *)
CopiedToFirst ==
  wlist' = [h \in Halves |-> IF kind = "error" \/ h = 0 THEN Range(sample') ELSE wlist[h]]

(* What is copied to the caller's list, or used in place for an error. *)
Copied ==
  wlist' = [h \in Halves |-> IF kind = "error" \/ h = half THEN Range(sample') ELSE wlist[h]]

(* One round of sample_indices_fisher_yates with the word; after the last  *)
(* one secure_set_bits is called.                                          *)
DrawIndex ==
  /\ step = "draw"
  /\ IF kind = "key" THEN Fy(D, R)!Draw(Word) ELSE Fy(T, 2 * R)!Draw(Word)
  /\ used' = Append(used, out)
  /\ IF fyPc' = "done" THEN Copied /\ step' = "bits"
                       ELSE UNCHANGED wlist /\ step' = "ask"
  /\ UNCHANGED <<kind, r, half, qw, pc, stream, prfVars>>

(* A turn of secure_set_bits.  After h0 the sampling of h1 begins. *)
SetBits ==
  /\ step = "bits"
  /\ FillRegisters
  /\ IF kind = "key" /\ half' # half
     THEN /\ step' = "ask"
          /\ todo' = Weight /\ sample' = Uninitialized /\ fyPc' = "sampling"
     ELSE /\ step' = IF pc' = "done" THEN "returned" ELSE "bits"
          /\ UNCHANGED fyVars
  /\ UNCHANGED <<stream, prfVars, used>>

(* generate_error_vector clears the padding of both halves and returns. *)
ClearPadding ==
  /\ step = "bits"
  /\ CleanPadding
  /\ step' = "returned"
  /\ UNCHANGED <<stream, prfVars, fyVars, used>>

SamplingNext ==
  \/ AskForWord \/ GenerateBlock \/ PrfFails
  \/ DrawIndex \/ SetBits \/ ClearPadding

SamplingSpec == SamplingInit /\ [][SamplingNext]_samplingVars
-----------------------------------------------------------------------------
(* The words that indices are made of are fresh: the j-th draw, of either  *)
(* half and of an error alike, has the j-th RandBytes bytes of the key     *)
(* stream, whatever blocks they came in, so that no two draws share a byte *)
(* and the same seed always gives the same key and the same error, which   *)
(* is how decapsulation recognises an error.  A generator that has failed  *)
(* would hand out bytes again.                                             *)
FreshWords ==
  \A j \in 1..Len(used) :
    used[j] = [k \in 0..RandBytes-1 |-> (j - 1) * RandBytes + k]

(* What the callers get on success: two polynomials of weight D with the   *)
(* lists of their bits, or two that have weight T between them.            *)
SparseAsPromised ==
  step = "returned" =>
    /\ \A h \in Halves : r[h] \subseteq 0..R-1
    /\ IF kind = "key"
       THEN \A h \in Halves : r[h] = wlist[h] /\ Cardinality(r[h]) = D
       ELSE Cardinality(r[0]) + Cardinality(r[1]) = T
=============================================================================
