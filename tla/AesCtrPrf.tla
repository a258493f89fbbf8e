------------------------------ MODULE AesCtrPrf ------------------------------
(***************************************************************************)
(* random/aes_ctr_prf.c: a generator over AES-256 in counter mode.  A      *)
(* block of the keystream is the encryption of the counter; byte o of      *)
(* block b is byte b * BlockBytes + o of the stream PrfStream speaks of.   *)
(* A call may use up what is left in the buffer, write whole blocks        *)
(* straight into the caller's buffer and end in a freshly filled buffer.   *)
(***************************************************************************)
EXTENDS Integers

CONSTANTS
  BlockBytes,      \* AES256_BLOCK_BYTES
  MaxInvocations,  \* the max_num_invocations given to init_prf_state
  MaxLen,          \* the size of the caller's buffer
  Lens             \* the lengths clients ask for

ASSUME AesAssumption ==
  /\ BlockBytes \in Nat \ {0}
  /\ MaxInvocations \in Nat \ {0}
  /\ MaxLen \in Nat
  /\ Lens \subseteq 0..MaxLen

VARIABLES
  ctr,        \* s->ctr.u.qw[0]
  rem,        \* s->rem_invocations
  buffered,   \* the number of the block in s->buffer, or NoBlock
  pos,        \* s->curr_pos_in_buffer
  pc,         \* "idle", "blocks" inside a call, or how the last call failed
  len, idx,   \* the parameter and the local of the call
  out,        \* the caller's buffer: a stream position per byte written
  delivered   \* history: bytes handed out by the calls that succeeded

vars == <<ctr, rem, buffered, pos, pc, len, idx, out, delivered>>

NoBlock   == -1    \* init_prf_state zeroes the buffer: no block is in it
Unwritten == -1

Failures == {"overused", "aes error"}

(* The caller's buffer before a call writes to it. *)
Fresh == [j \in 0..MaxLen-1 |-> Unwritten]

(* buf after n bytes of keystream block b, from byte o of it on, have been *)
(* written to buf[at], buf[at + 1] and so on.                              *)
Write(buf, at, b, o, n) ==
  [j \in DOMAIN buf |-> IF at <= j /\ j < at + n
                        THEN b * BlockBytes + o + (j - at)
                        ELSE buf[j]]
-----------------------------------------------------------------------------
(* init_prf_state, which returns FAIL when MaxInvocations is 0. *)
Init ==
  /\ ctr = 0
  /\ rem = MaxInvocations
  /\ buffered = NoBlock
  /\ pos = BlockBytes
  /\ pc = "idle"
  /\ len = 0
  /\ idx = 0
  /\ out = Fresh
  /\ delivered = 0

(* Mutant: the cursor stays. *)
GetBufferedAgain(n) ==
  /\ pc = "idle"
  /\ n + pos <= BlockBytes
  /\ len' = n
  /\ out' = Write(Fresh, 0, buffered, pos, n)
  /\ delivered' = delivered + n
  /\ UNCHANGED <<ctr, rem, buffered, pos, pc, idx>>

(* get_prf_output when what is left in the buffer is enough.  pc = "idle"  *)
(* holds back the callers that saw a failure: each of them is under GUARD  *)
(* and its caller cleans the generator.                                    *)
GetBuffered(n) ==
  /\ pc = "idle"
  /\ n + pos <= BlockBytes
  /\ len' = n
  /\ out' = Write(Fresh, 0, buffered, pos, n)
  /\ pos' = pos + n
  /\ delivered' = delivered + n
  /\ UNCHANGED <<ctr, rem, buffered, pc, idx>>

(* get_prf_output when it is not: hand out what is left and go on. *)
GetRefill(n) ==
  /\ pc = "idle"
  /\ n + pos > BlockBytes
  /\ len' = n
  /\ idx' = BlockBytes - pos
  /\ out' = Write(Fresh, 0, buffered, pos, BlockBytes - pos)
  /\ pos' = 0
  /\ pc' = "blocks"
  /\ UNCHANGED <<ctr, rem, buffered, delivered>>

(* perform_aes when it succeeds. *)
PerformAes ==
  /\ rem > 0
  /\ ctr' = ctr + 1
  /\ rem' = rem - 1

(* One round of the loop: a whole block goes to the caller's buffer. *)
FullBlock ==
  /\ pc = "blocks"
  /\ len - idx >= BlockBytes
  /\ PerformAes
  /\ out' = Write(out, idx, ctr, 0, BlockBytes)
  /\ idx' = idx + BlockBytes
  /\ UNCHANGED <<buffered, pos, pc, len, delivered>>

(* Mutants: the cursor is not set; a whole block is copied out. *)
TailBlockForgotten ==
  /\ pc = "blocks"
  /\ len - idx < BlockBytes
  /\ PerformAes
  /\ buffered' = ctr
  /\ out' = Write(out, idx, ctr, 0, len - idx)
  /\ pc' = "idle"
  /\ delivered' = delivered + len
  /\ UNCHANGED <<len, idx, pos>>

TailBlockWhole ==
  /\ pc = "blocks"
  /\ len - idx < BlockBytes
  /\ PerformAes
  /\ buffered' = ctr
  /\ pos' = len - idx
  /\ out' = Write(out, idx, ctr, 0, BlockBytes)
  /\ pc' = "idle"
  /\ delivered' = delivered + len
  /\ UNCHANGED <<len, idx>>

(* After the loop: fill the buffer, hand out the tail, return SUCCESS. *)
TailBlock ==
  /\ pc = "blocks"
  /\ len - idx < BlockBytes
  /\ PerformAes
  /\ buffered' = ctr
  /\ pos' = len - idx
  /\ out' = Write(out, idx, ctr, 0, len - idx)
  /\ pc' = "idle"
  /\ delivered' = delivered + len
  /\ UNCHANGED <<len, idx>>

(* Mutant: the last invocation is refused. *)
OverUsedEarly ==
  /\ pc = "blocks"
  /\ rem <= 1
  /\ pc' = "overused"
  /\ UNCHANGED <<ctr, rem, buffered, pos, len, idx, out, delivered>>

(* perform_aes with no invocation left. *)
OverUsed ==
  /\ pc = "blocks"
  /\ rem = 0
  /\ pc' = "overused"
  /\ UNCHANGED <<ctr, rem, buffered, pos, len, idx, out, delivered>>

(* perform_aes when aes256_enc reports an error. *)
AesError ==
  /\ pc = "blocks"
  /\ rem > 0
  /\ pc' = "aes error"
  /\ UNCHANGED <<ctr, rem, buffered, pos, len, idx, out, delivered>>

(* clean_prf_state after a failure, then init_prf_state for the next seed, *)
(* would start an unrelated stream: one generator is modelled.             *)
Call == \E n \in Lens : GetBuffered(n) \/ GetRefill(n)

Step == FullBlock \/ TailBlock \/ OverUsed \/ AesError

Next == Call \/ Step

Spec == Init /\ [][Next]_vars
-----------------------------------------------------------------------------
TypeOK ==
  /\ ctr \in 0..MaxInvocations
  /\ rem \in 0..MaxInvocations
  /\ buffered \in -1..MaxInvocations-1
  /\ pos \in 0..BlockBytes
  /\ pc \in {"idle", "blocks"} \cup Failures
  /\ len \in 0..MaxLen
  /\ idx \in 0..MaxLen
  /\ out \in [0..MaxLen-1 -> Int]
  /\ delivered \in Nat

(* Between calls the counter, the cursor and what clients have received    *)
(* agree: of the ctr blocks encrypted so far every byte was handed out     *)
(* except those past the cursor of the last one, which is in the buffer.   *)
(* A block lost, fetched twice or handed out under two cursors breaks it.  *)
KeystreamAccounted ==
  pc = "idle" => /\ delivered + (BlockBytes - pos) = ctr * BlockBytes
                 /\ pos < BlockBytes => buffered = ctr - 1

(* No call, succeeding or failing half way, writes past the len bytes the  *)
(* caller asked for.                                                       *)
WritesWithinRequest ==
  \A j \in len..MaxLen-1 : out[j] = Unwritten

(* The invocation budget is enforced and not wasted: a call is turned down *)
(* with E_AES_OVER_USED only when it would use the last budgeted byte, and *)
(* no sequence of calls is ever given more than the budget.                *)
BudgetExact ==
  /\ delivered <= MaxInvocations * BlockBytes
  /\ pc = "overused" => delivered + len >= MaxInvocations * BlockBytes

(* The generator is a PrfStream: chunk is what the caller may look at. *)
Stream == INSTANCE PrfStream WITH
  status <- CASE pc = "idle" -> "idle"
              [] pc = "blocks" -> "busy"
              [] OTHER -> "failed",
  chunk  <- [j \in 0..(IF pc = "idle" THEN len ELSE 0)-1 |-> out[j]]

(* Every successful call returns the next len bytes of one keystream, in   *)
(* order, whatever mixture of buffered bytes, whole blocks and tails       *)
(* served it, and a failed call is the last one.                           *)
RefinesStream == Stream!Spec
=============================================================================
