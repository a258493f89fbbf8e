------------------------------- MODULE ShakePrf -------------------------------
(***************************************************************************)
(* random/shake_prf.c: the generator over SHAKE256.  Each invocation       *)
(* squeezes one block of Rate bytes; byte o of the b-th block squeezed is  *)
(* byte b * Rate + o of the stream PrfStream speaks of.  Unlike the AES    *)
(* generator a call never spans two blocks: what is left in the buffer is  *)
(* dropped when it is not enough.  The library only asks for RequestBytes  *)
(* (CWW_RAND_BYTES, or the size of one index: always 4), a divisor of Rate *)
(* (SHAKE256_RATE, 136), so that nothing ever is left.                     *)
(***************************************************************************)
EXTENDS Integers

CONSTANTS
  Rate,            \* SHAKE256_RATE
  RequestBytes,    \* the length every client of the library asks for
  BlockRequests,   \* how many requests one block serves
  MaxInvocations   \* the max_num_invocations given to init_prf_state

ShakeAssumption ==
  /\ RequestBytes \in Nat \ {0}
  /\ BlockRequests \in Nat \ {0}
  /\ Rate = BlockRequests * RequestBytes
  /\ MaxInvocations \in Nat \ {0}

VARIABLES
  squeezed,   \* blocks squeezed so far: what is left of s->s, the Keccak state
  pos,        \* s->curr_pos_in_buffer; the buffer holds the last block
  rem,        \* s->rem_invocations
  failed,     \* the last call returned FAIL
  out,        \* what the last call wrote: a stream position per byte
  delivered   \* history: bytes handed out by the calls that succeeded

vars == <<squeezed, pos, rem, failed, out, delivered>>

Nothing == [j \in {} |-> 0]

(* RequestBytes bytes of block b from its byte o on. *)
Bytes(b, o) == [j \in 0..RequestBytes-1 |-> b * Rate + o + j]

(* init_prf_state, which returns FAIL when MaxInvocations is 0. *)
Init ==
  /\ squeezed = 0
  /\ pos = Rate
  /\ rem = MaxInvocations
  /\ failed = FALSE
  /\ out = Nothing
  /\ delivered = 0

(* get_prf_output with the budget spent: FAIL, even with bytes buffered. *)
OverUsed ==
  /\ ~failed
  /\ rem = 0
  /\ failed' = TRUE
  /\ out' = Nothing
  /\ UNCHANGED <<squeezed, pos, rem, delivered>>

(* Mutant: the cursor stays. *)
GetBufferedAgain ==
  /\ ~failed
  /\ rem # 0
  /\ RequestBytes + pos <= Rate
  /\ out' = Bytes(squeezed - 1, pos)
  /\ delivered' = delivered + RequestBytes
  /\ UNCHANGED <<squeezed, pos, rem, failed>>

(* get_prf_output served from the buffer. *)
GetBuffered ==
  /\ ~failed
  /\ rem # 0
  /\ RequestBytes + pos <= Rate
  /\ out' = Bytes(squeezed - 1, pos)
  /\ pos' = pos + RequestBytes
  /\ delivered' = delivered + RequestBytes
  /\ UNCHANGED <<squeezed, rem, failed>>

(* Mutant: the squeeze is not counted. *)
GetSqueezedUncounted ==
  /\ ~failed
  /\ rem # 0
  /\ RequestBytes + pos > Rate
  /\ squeezed' = squeezed + 1
  /\ out' = Bytes(squeezed, 0)
  /\ pos' = RequestBytes
  /\ delivered' = delivered + RequestBytes
  /\ UNCHANGED <<rem, failed>>

(* get_prf_output that squeezes a block and serves its first bytes. *)
GetSqueezed ==
  /\ ~failed
  /\ rem # 0
  /\ RequestBytes + pos > Rate
  /\ squeezed' = squeezed + 1
  /\ out' = Bytes(squeezed, 0)
  /\ pos' = RequestBytes
  /\ rem' = rem - 1
  /\ delivered' = delivered + RequestBytes
  /\ UNCHANGED failed

Next == OverUsed \/ GetBuffered \/ GetSqueezed

Spec == Init /\ [][Next]_vars
-----------------------------------------------------------------------------
(* The bytes squeezed are those handed out and those still buffered: no    *)
(* byte is dropped when a new block is squeezed, and the cursor always     *)
(* stands between two requests.                                            *)
SqueezedAccounted ==
  /\ delivered + (Rate - pos) = squeezed * Rate
  /\ \E k \in 0..BlockRequests : pos = k * RequestBytes

(* With SHAKE the budget is checked before the buffer: the call that       *)
(* squeezes the last budgeted block is the last one served.                *)
SqueezeBudgetExact ==
  /\ squeezed + rem = MaxInvocations
  /\ failed => squeezed = MaxInvocations /\ pos = RequestBytes

Stream == INSTANCE PrfStream WITH
  Lens   <- {RequestBytes},
  status <- IF failed THEN "failed" ELSE "idle",
  chunk  <- out

(* Every successful call returns the next RequestBytes bytes of the stream *)
(* of squeezed blocks, none dropped between two blocks.                    *)
RefinesSqueezedStream == Stream!Spec
=============================================================================
