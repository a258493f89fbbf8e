------------------------------ MODULE MCFindErr ------------------------------
(***************************************************************************)
(* What find_err1 and find_err2 make of the syndrome for one position: the *)
(* rotations of it, by any amount and by any version of rotate_right, and  *)
(* the counter the rotated bits are added to.  A bit of a rotation is a    *)
(* free input of the counter, so that each part runs by itself while the   *)
(* other rests.                                                            *)
(***************************************************************************)
EXTENDS UpcCounter, Gf2Ring

CONSTANTS QwBits, RegQwords   \* of SyndromeRotate

VARIABLES part, version, amount, out, num, idx, rotPc

rotVars == <<version, amount, out, num, idx, rotPc>>

Rotate == INSTANCE SyndromeRotate WITH pc <- rotPc

ASSUME RotateParameters == Rotate!RotateAssumption

(* The registers of x86: 1, 4 and 8 quad-words, here of 2 bits each. *)
MCRegQwords ==
  [v \in {"port", "avx2", "avx512"} |->
     CASE v = "port" -> 1 [] v = "avx2" -> 4 [] v = "avx512" -> 8]

(* The parameters of bike_defs.h and decode.c, at full size. *)
Level1 == [R |-> 12323, D |-> 71, Slices |-> 8, Delta |-> 3, ThresholdMin |-> 36,
           Coeff0 |-> 67650000, Coeff1 |-> 34861, Divisor |-> 5000000]
Level3 == [R |-> 24659, D |-> 103, Slices |-> 8, Delta |-> 3, ThresholdMin |-> 52,
           Coeff0 |-> 15258800, Coeff1 |-> 5265, Divisor |-> 1000000]
Level5 == [R |-> 40973, D |-> 137, Slices |-> 9, Delta |-> 3, ThresholdMin |-> 69,
           Coeff0 |-> 223481250, Coeff1 |-> 50289, Divisor |-> 12500000]

Levels1And5 == {Level1, Level5}
Levels3     == {Level3}

MCInit ==
  /\ part \in {"counter", "rotation"}
  /\ Init /\ Rotate!Init
  /\ part = "counter" => version = "port" /\ amount = 0
  /\ part = "rotation" => p = CHOOSE q \in Levels : TRUE

MCNext ==
  \/ part = "counter" /\ Next /\ UNCHANGED <<part, rotVars>>
  \/ part = "rotation" /\ Rotate!Next /\ UNCHANGED <<part, vars>>

MCSpec == MCInit /\ [][MCNext]_<<part, vars, rotVars>>

(* SyndromeRotate's: rotate_right is a rotation by the amount asked for.   *)
RotatesRight == Rotate!RotatesRight
=============================================================================
