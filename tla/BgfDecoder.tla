------------------------------ MODULE BgfDecoder ------------------------------
(***************************************************************************)
(* decode/decode.c: the Black-Gray-Flip decoder.  For every position of    *)
(* the error it counts the unsatisfied parity checks (UPC) the position    *)
(* takes part in and flips the positions whose count reaches a threshold.  *)
(* The first iteration remembers the positions it flipped (black) and the  *)
(* ones that nearly were (gray) and gives both a second look; the later    *)
(* iterations only flip.  Every flip is followed by a new syndrome.        *)
(***************************************************************************)
EXTENDS Gf2Ring

CONSTANTS
  H0, H1,                   \* the halves of the secret key, sk->wlist and bin
  Pk,                       \* sk->pk
  MaxIt,                    \* MAX_IT
  Delta,                    \* DELTA
  Slices,                   \* SLICES: width of a UPC counter
  Coeff0, Coeff1, Divisor,  \* the threshold is (Coeff0 + Coeff1 * S) / Divisor
  ThresholdMin,             \* THRESHOLD_MIN
  Ciphertexts               \* values of ct->c0 given to decode

ASSUME DecoderAssumption ==
  /\ H0 \in Polynomials /\ H1 \in Polynomials /\ Pk \in Polynomials
  /\ Cardinality(H0) = Cardinality(H1)
  /\ Mul(Pk, H0) = H1
  /\ Ciphertexts \subseteq Polynomials
  /\ MaxIt > 1

(* The thresholds that apply to a syndrome of zero are positive, and small *)
(* enough for the sign of a counter to tell that zero does not reach them. *)
(* The second conjunct is arithmetic that the provers do not know.         *)
ASSUME CounterAssumption ==
  /\ Slices \in Nat \ {0} /\ 2 ^ (Slices - 1) \in Nat
  /\ 2 ^ Slices = 2 * 2 ^ (Slices - 1)
  /\ {Coeff0, Coeff1} \subseteq Nat /\ Divisor \in Nat \ {0}
  /\ ThresholdMin \in 1 .. 2 ^ (Slices - 1)
  /\ Coeff0 \div Divisor <= 2 ^ (Slices - 1)
  /\ (Cardinality(H0) + 1) \div 2 + 1 <= 2 ^ (Slices - 1)

VARIABLES
  c0,           \* the ciphertext half given to decode
  e,            \* the error found so far, one polynomial per key half
  black, gray,  \* black_e and gray_e
  s,            \* the syndrome
  iter,         \* iter
  call            \* the find_err call that is next, or "done"

decodeVars == <<c0, e, black, gray, s, iter, call>>

Halves == {0, 1}
H == [i \in Halves |-> IF i = 0 THEN H0 ELSE H1]
D == Cardinality(H0)
NoError == [i \in Halves |-> Zero]

(* compute_syndrome *)
ComputeSyndrome(c) == Mul(c, H0)

(* recompute_syndrome: of the ciphertext with the error found taken out. *)
RecomputeSyndrome(err) ==
  ComputeSyndrome(Add(Add(Mul(err[1], Pk), c0), err[0]))

(* get_threshold *)
Threshold(syndrome) ==
  LET thr == (Coeff0 + Coeff1 * Cardinality(syndrome)) \div Divisor
  IN  IF thr < ThresholdMin THEN ThresholdMin ELSE thr

(* Mutant: the syndrome is rotated the other way. *)
UpcLeft(i, p) == Cardinality({w \in H[i] : p \in Rotated(s, R - w)})

(* The rotate_right and bit_sliced_adder loop: how many of the parity      *)
(* checks that position p of half i takes part in are not satisfied.       *)
Upc(i, p) == Cardinality({w \in H[i] : p \in Rotated(s, w)})

(* Mutant: the last slice but one is looked at. *)
ReachesOneSliceLow(count, thr) == (count - thr) % 2^(Slices - 1) < 2^(Slices - 2)

(* The last slice after bit_slice_full_subtract, complemented: the sign of *)
(* a difference kept in Slices bits.                                       *)
Reaches(count, thr) == (count - thr) % 2^Slices < 2^(Slices - 1)

(* The positions of each half that reach thr when bonus is added to their  *)
(* counts.                                                                 *)
Candidates(thr, bonus) ==
  LET counts == [i \in Halves |-> [p \in Exponents |-> Upc(i, p) + bonus]]
  IN  [i \in Halves |-> {p \in Exponents : Reaches(counts[i][p], thr)}]

Flip(err, where) == [i \in Halves |-> Add(err[i], where[i])]

Both(a, b)    == [i \in Halves |-> a[i] \cap b[i]]
Without(a, b) == [i \in Halves |-> a[i] \ b[i]]

SecondThreshold == (D + 1) \div 2 + 1
-----------------------------------------------------------------------------
DecodeInit ==
  /\ c0 \in Ciphertexts
  /\ e = NoError
  /\ black = NoError
  /\ gray = NoError
  /\ s = ComputeSyndrome(c0)
  /\ iter = 0
  /\ call = "err1"

EndIteration ==
  /\ iter' = iter + 1
  /\ call' = IF iter + 1 < MaxIt THEN "err1" ELSE "done"

(* find_err1 and recompute_syndrome; only iteration 0 goes on to find_err2. *)
FindErr1 ==
  /\ call = "err1"
  /\ black' = Candidates(Threshold(s), 0)
  /\ gray' = Without(Candidates(Threshold(s), Delta), black')
  /\ e' = Flip(e, black')
  /\ s' = RecomputeSyndrome(e')
  /\ IF iter >= 1 THEN EndIteration
                  ELSE call' = "black" /\ UNCHANGED iter
  /\ UNCHANGED c0

(* Mutants: the syndrome is not recomputed; positions not marked flip. *)
FindErr2Stale(pos) ==
  /\ e' = Flip(e, Both(pos, Candidates(SecondThreshold, 0)))
  /\ UNCHANGED <<c0, black, gray, s>>

FindErr2Everywhere(pos) ==
  /\ e' = Flip(e, Candidates(SecondThreshold, 0))
  /\ s' = RecomputeSyndrome(e')
  /\ UNCHANGED <<c0, black, gray>>

(* find_err2 on pos and recompute_syndrome. *)
FindErr2(pos) ==
  /\ e' = Flip(e, Both(pos, Candidates(SecondThreshold, 0)))
  /\ s' = RecomputeSyndrome(e')
  /\ UNCHANGED <<c0, black, gray>>

SecondLookAtBlack ==
  /\ call = "black"
  /\ FindErr2(black)
  /\ call' = "gray"
  /\ UNCHANGED iter

SecondLookAtGray ==
  /\ call = "gray"
  /\ FindErr2(gray)
  /\ EndIteration

DecodeNext == FindErr1 \/ SecondLookAtBlack \/ SecondLookAtGray

DecodeSpec == DecodeInit /\ [][DecodeNext]_decodeVars
-----------------------------------------------------------------------------
(* The syndrome the next counts are taken from is always that of what is   *)
(* left of the error: h0 * c0 with the contribution of the error found so  *)
(* far, h0 * e0 + h1 * e1, taken out.  The code computes it through the    *)
(* public key; a stale syndrome, or one that lost a half, breaks it.       *)
SyndromeOfResidue ==
  s = Add(Mul(c0, H0), Add(Mul(e[0], H0), Mul(e[1], H1)))

(* The second look flips only positions the first one marked, black ones   *)
(* first, and no position is given both second looks.                      *)
SecondLookOnlyMarked ==
  [][/\ call = "black" => \A i \in Halves : SymDiff(e[i], e'[i]) \subseteq black[i]
     /\ call = "gray"  => \A i \in Halves : SymDiff(e[i], e'[i])
                                            \subseteq gray[i] \ black[i]]_decodeVars

(* An error once found stays found: the remaining iterations, which run in *)
(* any case, do not disturb it.                                            *)
FoundStaysFound ==
  [][s = Zero => e' = e]_decodeVars
=============================================================================
