---------------------------- MODULE DistinctSample ----------------------------
(***************************************************************************)
(* What the samplers of random/sampling*.c promise: Count distinct indices *)
(* below Bound, found one at a time, or a failure of the generator that    *)
(* ends the sampling.                                                      *)
(***************************************************************************)
EXTENDS Integers, FiniteSets

CONSTANTS
  Count,   \* how many indices are asked for
  Bound    \* they are below this

VARIABLES
  chosen,  \* the indices found so far
  status   \* "sampling", "done", "failed"

vars == <<chosen, status>>

Init ==
  /\ chosen = {}
  /\ status = "sampling"

(* A new index is found; the sample is complete with the last one. *)
Pick(x) ==
  /\ status = "sampling"
  /\ x \notin chosen
  /\ chosen' = chosen \cup {x}
  /\ status' = IF Cardinality(chosen') = Count THEN "done" ELSE "sampling"

Fail ==
  /\ status = "sampling"
  /\ status' = "failed"
  /\ UNCHANGED chosen

Next == Fail \/ \E x \in 0..Bound-1 : Pick(x)

Spec == Init /\ [][Next]_vars
=============================================================================
