----------------------------- MODULE MCSymmetric -----------------------------
(***************************************************************************)
(* The symmetric parts the library is built with: for its randomness AES   *)
(* in counter mode, or SHAKE when USE_SHA3_AND_SHAKE is defined, and       *)
(* SHA-384, or SHA3-384, for its hashes.  Each part runs by itself.        *)
(*                                                                         *)
(* For AES blocks of 4 bytes and requests from 0 to 9 bytes, so that one   *)
(* call can drain the buffer, write two whole blocks and end in a partial  *)
(* one; five invocations, so that the budget runs out at every alignment.  *)
(* For SHAKE the rate and the request of the library.  For SHA-384 the     *)
(* block of the library and messages of every length up to three blocks,   *)
(* and so for Keccak with the two rates it is called with.                 *)
(***************************************************************************)
EXTENDS AesCtrPrf

CONSTANTS Rate, RequestBytes, BlockRequests
CONSTANTS HashBlockBytes, FieldBytes, LenBytes, ByteLens, Null
CONSTANTS Modes, MessageLens

VARIABLES part
VARIABLES squeezed, shakePos, shakeRem, failed, shakeOut, shakeDelivered
VARIABLES byte_len, dgst, last_len, last_block, i, n, hashed, hashedLen, shaPc
VARIABLES mode, total, mlen, m, s, perms, keccakPc

shakeVars ==
  <<squeezed, shakePos, shakeRem, failed, shakeOut, shakeDelivered>>

shaVars ==
  <<byte_len, dgst, last_len, last_block, i, n, hashed, hashedLen, shaPc>>

keccakVars == <<mode, total, mlen, m, s, perms, keccakPc>>

Shake == INSTANCE ShakePrf WITH
  pos <- shakePos, rem <- shakeRem, out <- shakeOut, delivered <- shakeDelivered

Sha == INSTANCE Sha384 WITH BlockBytes <- HashBlockBytes, pc <- shaPc

Keccak == INSTANCE KeccakSponge WITH pc <- keccakPc

ASSUME ShakeParameters  == Shake!ShakeAssumption
ASSUME ShaParameters    == Sha!ShaAssumption
ASSUME KeccakParameters == Keccak!KeccakAssumption

MCLens        == 0..9
MCByteLens    == 0..400
MCMessageLens == 0..300
MCModes       == {[rate |-> 136, p |-> 31], [rate |-> 104, p |-> 6]}

(* Only the parts that hash have a message to start with. *)
MCInit ==
  /\ part \in {"aes", "shake", "sha", "keccak"}
  /\ Init /\ Shake!Init
  /\ IF part = "sha" THEN Sha!Init ELSE Sha!Init /\ byte_len = 0 /\ dgst = Null
  /\ IF part = "keccak" THEN Keccak!Init
     ELSE Keccak!Init /\ total = 0 /\ mode = CHOOSE f \in Modes : TRUE

AesNext    == part = "aes" /\ Next
              /\ UNCHANGED <<part, shakeVars, shaVars, keccakVars>>
ShakeNext  == part = "shake" /\ Shake!Next
              /\ UNCHANGED <<part, vars, shaVars, keccakVars>>
ShaNext    == part = "sha" /\ Sha!Next
              /\ UNCHANGED <<part, vars, shakeVars, keccakVars>>
KeccakNext == part = "keccak" /\ Keccak!Next
              /\ UNCHANGED <<part, vars, shakeVars, shaVars>>

MCSpec ==
  MCInit /\ [][AesNext \/ ShakeNext \/ ShaNext \/ KeccakNext
              ]_<<part, vars, shakeVars, shaVars, keccakVars>>

(* ShakePrf's: the calls are those of a PrfStream.                         *)
RefinesSqueezedStream == Shake!RefinesSqueezedStream

(* ShakePrf's: the budget of squeezed blocks is exact, and checked before  *)
(* the buffer.                                                             *)
SqueezeBudgetExact == Shake!SqueezeBudgetExact

(* Sha384's and KeccakSponge's: the blocks that are compressed or permuted *)
(* are the message as the standard of the hash pads it.                    *)
PaddedMessage == Sha!PaddedMessage /\ Keccak!AbsorbedPadded
=============================================================================
