------------------------------ MODULE PrfStream ------------------------------
(***************************************************************************)
(* What a client of get_prf_output may rely on, whichever of the two       *)
(* generators the library is built with.  The seed fixes one infinite      *)
(* keystream; byte k of it is written k.  Every successful call hands out  *)
(* the next bytes of that stream, none skipped and none handed out twice,  *)
(* and a call that fails ends the use of the generator.                    *)
(***************************************************************************)
EXTENDS Integers

CONSTANT
  Lens      \* the lengths clients ask for

VARIABLES
  status,     \* "idle", "busy" inside a call, "failed" for good
  delivered,  \* number of bytes handed out by the calls that succeeded
  chunk       \* the bytes the last successful call wrote, while idle

vars == <<status, delivered, chunk>>

(* n consecutive bytes of the stream, the first of them at k. *)
Segment(k, n) == [j \in 0..n-1 |-> k + j]

NoChunk == Segment(0, 0)

Init ==
  /\ status = "idle"
  /\ delivered = 0
  /\ chunk = NoChunk

(* A call that cannot be answered at once starts. *)
Begin ==
  /\ status = "idle"
  /\ status' = "busy"
  /\ chunk' = NoChunk
  /\ UNCHANGED delivered

(* A call returns SUCCESS with the next n bytes. *)
Deliver(n) ==
  /\ status \in {"idle", "busy"}
  /\ status' = "idle"
  /\ chunk' = Segment(delivered, n)
  /\ delivered' = delivered + n

(* A call returns FAIL. *)
GiveUp ==
  /\ status \in {"idle", "busy"}
  /\ status' = "failed"
  /\ chunk' = NoChunk
  /\ UNCHANGED delivered

Next ==
  \/ Begin
  \/ \E n \in Lens : Deliver(n)
  \/ GiveUp

Spec == Init /\ [][Next]_vars
=============================================================================
