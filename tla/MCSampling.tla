------------------------------ MODULE MCSampling ------------------------------
(***************************************************************************)
(* The samplers of sparse vectors.  A build uses sample_indices_fisher_    *)
(* yates for the key and the error, or, with UNIFORM_SAMPLING, the         *)
(* rejection loop for the key and the constant-time one for the error.     *)
(* "all words" is Fisher-Yates for all random words at once.  One sampler  *)
(* runs and the others rest.                                               *)
(***************************************************************************)
EXTENDS FisherYates

CONSTANTS
  MaxBound, MaxNum, Ranges,                  \* of FisherYatesBias
  KeyNum, Z, Budget,                         \* of RejectionSample
  Count, Width, NumDraws, Bound, WordRange   \* of ConstTimeSample

VARIABLES
  sampler,
  max, num, range, biasTodo, ways, lo, hi,
  rejOut, rejCtr, left, rejPc,
  wlist, ctr, i, ctPc, seen

biasVars == <<max, num, range, biasTodo, ways, lo, hi>>
rejVars  == <<rejOut, rejCtr, left, rejPc>>
ctVars   == <<wlist, ctr, i, ctPc, seen>>
allVars  == <<sampler, vars, biasVars, rejVars, ctVars>>

Bias == INSTANCE FisherYatesBias WITH todo <- biasTodo

Rejection == INSTANCE RejectionSample WITH
  NumIndices <- KeyNum, Words <- Budget, out <- rejOut, ctr <- rejCtr, pc <- rejPc

ConstTime == INSTANCE ConstTimeSample WITH pc <- ctPc

ASSUME Parameters ==
  /\ Bias!BiasAssumption
  /\ Rejection!RejectionAssumption
  /\ ConstTime!SampleAssumption

MCInit ==
  /\ sampler \in {"fisher-yates", "all words", "rejection", "constant time"}
  /\ Init /\ Bias!Init /\ Rejection!Init /\ ConstTime!Init
  /\ sampler # "all words" => max = 1 /\ range = CHOOSE r \in Ranges : TRUE

FisherYatesNext ==
  sampler = "fisher-yates" /\ Next /\ UNCHANGED <<sampler, biasVars, rejVars, ctVars>>
BiasNext ==
  sampler = "all words" /\ Bias!Next /\ UNCHANGED <<sampler, vars, rejVars, ctVars>>
RejectionNext ==
  sampler = "rejection" /\ Rejection!Next /\ UNCHANGED <<sampler, vars, biasVars, ctVars>>
ConstTimeNext ==
  sampler = "constant time" /\ ConstTime!Next /\ UNCHANGED <<sampler, vars, biasVars, rejVars>>

MCNext == FisherYatesNext \/ BiasNext \/ RejectionNext \/ ConstTimeNext

(* A call that has started is executed to its end. *)
MCSpec == MCInit /\ [][MCNext]_allVars /\ WF_allVars(RejectionNext)

(* FisherYatesBias's: the words of the generator spread over the sets of   *)
(* indices as evenly as the rounding of each scaling lets them.            *)
NearlyUniform == Bias!NearlyUniform

(* RejectionSample's: generate_indices_mod_z is a DistinctSample.          *)
RejectionRefines == Rejection!RejectionRefines

(* RejectionSample's: rejection ends, at the latest with the budget.       *)
RejectionReturns ==
  sampler = "rejection" /\ rejPc = "sampling" ~> rejPc # "sampling"

(* ConstTimeSample's: the first different valid words are the ones kept.   *)
FirstDrawnKept == ConstTime!FirstDrawnKept

(* ConstTimeSample's: a short sample adds no index that was not drawn.     *)
NoStrayIndex == ConstTime!NoStrayIndex
=============================================================================
