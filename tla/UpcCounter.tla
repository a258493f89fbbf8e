------------------------------ MODULE UpcCounter ------------------------------
(***************************************************************************)
(* The bit-sliced UPC counter of one position, decode_portable.c and its   *)
(* use in decode.c.  Slice k of a upc_t holds bit k of the counters of all *)
(* positions; one step here adds, or subtracts, in all slices of one       *)
(* position.  The decoder reads only the last slice: BgfDecoder's Reaches  *)
(* is what it is taken to say.                                             *)
(***************************************************************************)
EXTENDS Integers

(* A LEVEL has R and D for R_BITS and the weight of a key half, Slices and *)
(* Delta, ThresholdMin, and the threshold is (Coeff0 + Coeff1 * S) /       *)
(* Divisor for a syndrome of weight S.                                     *)
CONSTANT Levels

ASSUME LevelsAssumption ==
  \A q \in Levels :
    /\ {q.R, q.D, q.Slices, q.Delta, q.Divisor} \subseteq Nat \ {0}
    /\ {q.Coeff0, q.Coeff1, q.ThresholdMin} \subseteq Nat
    /\ q.D < 512                 \* LOG2_MSB: "Works only for 0 < v < 512"

VARIABLES
  p,       \* the LEVEL the program is compiled for
  slice,   \* the bits of the counter, least significant first
  ones,    \* history: ones added since the counter was reset
  added,   \* j, rotations of the syndrome added; after the threshold, l
  thr,     \* the threshold subtracted, 0 before
  pc       \* "sum", "subtract" or "sign"

vars == <<p, slice, ones, added, thr, pc>>

SliceIds == 0 .. p.Slices - 1

TwoTo[k \in Nat] == IF k = 0 THEN 1 ELSE 2 * TwoTo[k-1]

(* LOG2_MSB: the number of bits of v. *)
LOG2_MSB(v) ==
  CHOOSE n \in 0..v : TwoTo[n] > v /\ (n = 0 \/ TwoTo[n-1] <= v)

(* get_threshold for a syndrome of weight S.  The product is split to stay *)
(* within 32 bits, which is all TLC has; the code has 64.                  *)
GetThreshold(q, S) ==
  LET x   == q.Coeff1 * (S \div 2)
      y   == q.Coeff0 + q.Coeff1 * (S - S \div 2)
      thr0 == x \div q.Divisor + y \div q.Divisor
                + ((x % q.Divisor) + (y % q.Divisor)) \div q.Divisor
  IN  IF thr0 < q.ThresholdMin THEN q.ThresholdMin ELSE thr0

(* The thresholds of find_err1, kept in a uint8_t, and of find_err2. *)
Thresholds ==
  [q \in Levels |->
     {GetThreshold(q, S) % 256 : S \in 0..q.R} \cup {(q.D + 1) \div 2 + 1}]

(* bit_sliced_adder over the first n slices: a half adder per slice, whose *)
(* carry is there when all slices below hold one.                          *)
BitSlicedAdder(sl, bit, n) ==
  [k \in SliceIds |->
     IF bit = 1 /\ k < n /\ \A l \in 0..k-1 : sl[l] = 1 THEN 1 - sl[k] ELSE sl[k]]

(* bit_slice_full_subtract: a full subtractor per slice. *)
BitSliceFullSubtract(sl, val) ==
  LET b(k) == (val \div TwoTo[k]) % 2
      br[k \in 0..p.Slices] ==
        IF k = 0 THEN 0
        ELSE IF sl[k-1] - b(k-1) - br[k-1] < 0 THEN 1 ELSE 0
  IN  [k \in SliceIds |-> (sl[k] + b(k) + br[k]) % 2]
-----------------------------------------------------------------------------
Init ==
  /\ p \in Levels
  /\ slice = [k \in SliceIds |-> 0]
  /\ ones = 0
  /\ added = 0
  /\ thr = 0
  /\ pc = "sum"

(* One rotation of the syndrome; only as many slices as j + 1 needs. *)
AddSyndromeBit(bit) ==
  /\ pc = "sum"
  /\ slice' = BitSlicedAdder(slice, bit, LOG2_MSB(added + 1))
  /\ ones' = ones + bit
  /\ added' = added + 1
  /\ pc' = IF added' = p.D THEN "subtract" ELSE "sum"
  /\ UNCHANGED <<p, thr>>

Subtract ==
  /\ pc = "subtract"
  /\ thr' \in Thresholds[p]
  /\ slice' = BitSliceFullSubtract(slice, thr')
  /\ added' = 0
  /\ pc' = "sign"
  /\ UNCHANGED <<p, ones>>

(* Mutant: the carry does not reach the last slice. *)
AddForGrayShort ==
  /\ pc = "sign"
  /\ added < p.Delta
  /\ slice' = BitSlicedAdder(slice, 1, p.Slices - 1)
  /\ added' = added + 1
  /\ UNCHANGED <<p, ones, thr, pc>>

(* Step 4 of find_err1: DELTA times an addition of all ones. *)
AddForGray ==
  /\ pc = "sign"
  /\ added < p.Delta
  /\ slice' = BitSlicedAdder(slice, 1, p.Slices)
  /\ added' = added + 1
  /\ UNCHANGED <<p, ones, thr, pc>>

Next == (\E bit \in {0, 1} : AddSyndromeBit(bit)) \/ Subtract \/ AddForGray

Spec == Init /\ [][Next]_vars
-----------------------------------------------------------------------------
(* "Every zero bit indicates a potential error bit" (decode.c, find_err1): *)
(* the last slice is zero exactly when the count, with what was added for  *)
(* gray, reaches the threshold.                                            *)
SignTellsErrors ==
  pc = "sign" =>
    (slice[p.Slices - 1] = 0 <=> ones + added >= thr)
=============================================================================
