-------------------------------- MODULE Sha384 --------------------------------
(***************************************************************************)
(* random/sha.c: how sha() divides a message into blocks for SHA-384.  The *)
(* whole blocks are hashed where they are; what is left over is copied to  *)
(* a local array of two blocks, on a stack that holds anything, and padded *)
(* there to one block or two.  The compression of a block is left abstract *)
(* and the state of the hash is all that was compressed into it, in order. *)
(***************************************************************************)
EXTENDS Integers

CONSTANTS
  BlockBytes,   \* HASH_BLOCK_BYTES, 128
  FieldBytes,   \* room for the length in the standard, 16
  LenBytes,     \* the part of it that is stored, sizeof(encoded_len)
  ByteLens,     \* lengths of messages
  Null          \* a pointer that callers may pass for dgst or msg

ShaAssumption ==
  /\ {BlockBytes, FieldBytes, LenBytes} \subseteq Nat \ {0}
  /\ LenBytes <= FieldBytes
  /\ FieldBytes < BlockBytes
  /\ ByteLens \subseteq Nat

VARIABLES
  byte_len,     \* the length of the message
  dgst,         \* Null or a pointer, and likewise for msg
  last_len,     \* BlockBytes or twice that
  last_block,   \* the local array
  i,            \* the position in it up to which it is written
  n,            \* the blocks sha_update has still to go through
  hashed,       \* what was compressed, by position
  hashedLen,    \* and how much it is
  pc            \* "start", "copy", "pad", "length", "message", "last",
                \* "done", "failed"

vars == <<byte_len, dgst, last_len, last_block, i, n, hashed, hashedLen, pc>>

(* A byte of the message, a byte with a value, a byte of the length of the *)
(* message in bits, counted from its most significant byte on, and what a  *)
(* local array holds before it is written.                                 *)
MsgByte(j) == [kind |-> "msg", at |-> j]
Byte(v)    == [kind |-> "value", at |-> v]
LenByte(j) == [kind |-> "length", at |-> j]
Rubbish    == [kind |-> "stack", at |-> 0]

Whole == (byte_len \div BlockBytes) * BlockBytes
Rest  == byte_len % BlockBytes

(* Mutant: the boundary is one too late. *)
LastLenLate ==
  IF Rest <= BlockBytes - FieldBytes THEN BlockBytes ELSE 2 * BlockBytes

LastLen ==
  IF Rest < BlockBytes - FieldBytes THEN BlockBytes ELSE 2 * BlockBytes

(* last_block with its places from the first to before the last replaced. *)
Filled(first, last, byte(_)) ==
  [j \in DOMAIN last_block |-> IF first <= j /\ j < last THEN byte(j) ELSE last_block[j]]
-----------------------------------------------------------------------------
Init ==
  /\ byte_len \in ByteLens
  /\ dgst \in {Null, "pointer"}
  /\ last_len = 0
  /\ last_block = [j \in 0 .. 2 * BlockBytes - 1 |-> Rubbish]
  /\ i = 0
  /\ n = 0
  /\ hashed = [j \in {} |-> Rubbish]
  /\ hashedLen = 0
  /\ pc = "start"

(* The check of the pointers. *)
Refuse ==
  /\ pc = "start"
  /\ dgst = Null
  /\ pc' = "failed"
  /\ UNCHANGED <<byte_len, dgst, last_len, last_block, i, n, hashed, hashedLen>>

CopyRest ==
  /\ pc = "start"
  /\ dgst # Null
  /\ last_len' = LastLen
  /\ last_block' = Filled(0, Rest, LAMBDA j : MsgByte(Whole + j))
  /\ i' = Rest
  /\ pc' = "pad"
  /\ UNCHANGED <<byte_len, dgst, n, hashed, hashedLen>>

(* 0x80 and zeros, which make up the high part of the length as well. *)
Pad ==
  /\ pc = "pad"
  /\ last_block' = Filled(i, last_len - LenBytes,
                          LAMBDA j : IF j = i THEN Byte(128) ELSE Byte(0))
  /\ i' = last_len - LenBytes
  /\ pc' = "length"
  /\ UNCHANGED <<byte_len, dgst, last_len, n, hashed, hashedLen>>

(* memcpy of encoded_len, then sha_update is called for the message. *)
EncodeLength ==
  /\ pc = "length"
  /\ last_block' = Filled(last_len - LenBytes, last_len,
                          LAMBDA j : LenByte(j - (last_len - LenBytes)))
  /\ n' = byte_len \div BlockBytes
  /\ pc' = "message"
  /\ UNCHANGED <<byte_len, dgst, last_len, i, hashed, hashedLen>>

(* One turn of the loop in sha_update on the block that byte(0) starts. *)
Compress(byte(_)) ==
  /\ n > 0
  /\ hashed' = [j \in 0 .. hashedLen + BlockBytes - 1 |->
                  IF j < hashedLen THEN hashed[j] ELSE byte(j - hashedLen)]
  /\ hashedLen' = hashedLen + BlockBytes
  /\ n' = n - 1
  /\ UNCHANGED <<byte_len, dgst, last_len, last_block, i, pc>>

(* msg has moved on by a block with each turn. *)
CompressMessage ==
  pc = "message" /\ Compress(LAMBDA j : MsgByte(hashedLen + j))

(* sha_update returns and is called for last_block. *)
MessageDone ==
  /\ pc = "message"
  /\ n = 0
  /\ n' = last_len \div BlockBytes
  /\ pc' = "last"
  /\ UNCHANGED <<byte_len, dgst, last_len, last_block, i, hashed, hashedLen>>

CompressLast ==
  pc = "last" /\ Compress(LAMBDA j : last_block[(hashedLen - Whole) + j])

(* The state is written out as the digest, and the locals are cleaned. *)
Finish ==
  /\ pc = "last"
  /\ n = 0
  /\ last_block' = [j \in DOMAIN last_block |-> Byte(0)]
  /\ pc' = "done"
  /\ UNCHANGED <<byte_len, dgst, last_len, i, n, hashed, hashedLen>>

Next ==
  \/ Refuse \/ CopyRest \/ Pad \/ EncodeLength
  \/ CompressMessage \/ MessageDone \/ CompressLast \/ Finish

Spec == Init /\ [][Next]_vars
-----------------------------------------------------------------------------
(* A message as the standard pads it to total bytes. *)
PaddedByte(j, total) ==
  CASE j < byte_len -> MsgByte(j)
    [] j = byte_len -> Byte(128)
    [] j > byte_len /\ j < total - LenBytes -> Byte(0)
    [] OTHER -> LenByte(j - (total - LenBytes))

(* What has been hashed at the end is the message, the bit 1, zeros and    *)
(* the length in FieldBytes at the very end, of whole blocks and no more   *)
(* of them than needed; no byte of the stack gets into the digest.  Two    *)
(* messages are never padded to the same blocks, which is what the hash    *)
(* terms of Kem take for granted.                                          *)
PaddedMessage ==
  pc = "done" =>
    /\ hashedLen % BlockBytes = 0
    /\ byte_len + 1 + FieldBytes <= hashedLen
    /\ hashedLen < byte_len + 1 + FieldBytes + BlockBytes
    /\ hashed = [j \in 0 .. hashedLen - 1 |-> PaddedByte(j, hashedLen)]
=============================================================================
