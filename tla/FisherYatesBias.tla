--------------------------- MODULE FisherYatesBias ---------------------------
(***************************************************************************)
(* How evenly sample_indices_fisher_yates spreads over the sets of         *)
(* indices.  All sequences of random words are followed at once: ways[S]   *)
(* counts those that have led to the set S.  The scaling of a word to      *)
(* max - i values cannot be even unless max - i divides the range of the   *)
(* word; lo and hi bound what that rounding may do to ways[S].             *)
(***************************************************************************)
EXTENDS IndexDraw, FiniteSetsExt

CONSTANTS
  MaxBound,   \* bound on max_idx_val
  MaxNum,     \* bound on num_indices
  Ranges      \* ranges of a random word to try

BiasAssumption ==
  /\ MaxBound \in Nat \ {0}
  /\ MaxNum \in Nat \ {0}
  /\ \A r \in Ranges : r \in Nat /\ r >= MaxBound

VARIABLES
  max, num, range,   \* the instance: max_idx_val, num_indices, the word
  todo,              \* the loop variable i before the test i-- > 0
  ways,              \* sequences of random words per set of indices drawn
  lo, hi             \* the bounds on ways

vars == <<max, num, range, todo, ways, lo, hi>>

Init ==
  /\ max \in 1..MaxBound
  /\ num \in 1..(IF max < MaxNum THEN max ELSE MaxNum)
  /\ range \in Ranges
  /\ todo = num
  /\ ways = [S \in {{}} |-> 1]
  /\ lo = 1
  /\ hi = 1

(* The sets that can be out[todo..num-1] and how the words of one round    *)
(* lead to them.                                                           *)
Sets(size) == kSubset(size, 0..max-1)

WordsTo(from, to) ==
  {rand \in 0..range-1 :
     to = from \cup {Selected(max, range, todo - 1, from, rand)}}

Draw ==
  LET size  == num - todo + 1          \* indices drawn after this round
      width == max - (todo - 1)        \* values an index is scaled to
  IN  /\ todo > 0
      /\ todo' = todo - 1
      /\ ways' = [to \in Sets(size) |->
           MapThenSumSet(LAMBDA from :
               ways[from] * Cardinality(WordsTo(from, to)),
             {from \in DOMAIN ways : from \subseteq to})]
      /\ lo' = lo * size * (range \div width)
      /\ hi' = hi * size * ((range + width - 1) \div width)
      /\ UNCHANGED <<max, num, range>>

Next == Draw

Spec == Init /\ [][Next]_vars
-----------------------------------------------------------------------------
(* After each round the sets an honest sampler could have drawn from       *)
(* todo..max-1 are reached by equally many word sequences, up to the       *)
(* rounding of the scaling, and no other set is reached.  When the range   *)
(* of a word is a multiple of every width, lo = hi: exactly uniform.       *)
NearlyUniform ==
  \A S \in DOMAIN ways :
    IF S \subseteq todo..max-1 THEN lo <= ways[S] /\ ways[S] <= hi
                               ELSE ways[S] = 0
=============================================================================
