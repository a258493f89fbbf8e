---------------------------- MODULE Symmetric_proof ----------------------------
(***************************************************************************)
(* The hashes and the generators of MCSymmetric.                           *)
(*                                                                         *)
(* Both hashes take in the message as their standard pads it: SHA-384, for *)
(* every size of a block and every message, and SHA3-384 and SHAKE256, for *)
(* every rate.                                                             *)
(*                                                                         *)
(* The two generators the library can be built with are PrfStreams and     *)
(* keep their books: AES in counter mode for every block size, budget and  *)
(* set of request lengths, SHAKE for every rate and length of a request.   *)
(***************************************************************************)
EXTENDS MCSymmetric, TLAPS

(***************************************************************************)
(* sha.c, of Sha384.                                                       *)
(***************************************************************************)

(* What last_block has to hold at j, and what is hashed in all. *)
ShaLastByte(j) ==
  CASE j < Sha!Rest -> Sha!MsgByte(Sha!Whole + j)
    [] j = Sha!Rest -> Sha!Byte(128)
    [] j > Sha!Rest /\ j < last_len - LenBytes -> Sha!Byte(0)
    [] OTHER -> Sha!LenByte(j - (last_len - LenBytes))

ShaTotal == Sha!Whole + last_len

ShaTypeInv ==
  /\ byte_len \in Nat
  /\ n \in Nat
  /\ hashedLen \in Nat
  /\ last_block = [j \in 0 .. 2 * HashBlockBytes - 1 |-> last_block[j]]
  /\ hashed = [j \in 0 .. hashedLen - 1 |-> hashed[j]]
  /\ shaPc \in {"start", "pad", "length", "message", "last", "done", "failed"}

(* Where the blocks still to be hashed end. *)
ShaLengthInv ==
  /\ shaPc \notin {"start", "failed"} => last_len = Sha!LastLen
  /\ shaPc \in {"start", "failed", "pad", "length"} => hashedLen = 0
  /\ shaPc = "message" => hashedLen + n * HashBlockBytes = Sha!Whole
  /\ shaPc = "last" => /\ Sha!Whole <= hashedLen
                       /\ hashedLen + n * HashBlockBytes = ShaTotal
  /\ shaPc = "done" => hashedLen = ShaTotal

(* The local array is defined as far as it has been written. *)
ShaBlockInv ==
  /\ shaPc = "pad" =>
       i = Sha!Rest /\ \A j \in 0..Sha!Rest-1 : last_block[j] = ShaLastByte(j)
  /\ shaPc = "length" =>
       \A j \in 0 .. (last_len - LenBytes) - 1 : last_block[j] = ShaLastByte(j)
  /\ shaPc \in {"message", "last"} =>
       \A j \in 0 .. last_len - 1 : last_block[j] = ShaLastByte(j)

ShaHashedInv ==
  \A j \in 0 .. hashedLen - 1 : hashed[j] = Sha!PaddedByte(j, ShaTotal)

ShaIInv == ShaTypeInv /\ ShaLengthInv /\ ShaBlockInv /\ ShaHashedInv
-----------------------------------------------------------------------------
(* The whole blocks of the message and what is left of it. *)
LEMMA ShaWholeAndRest ==
  ASSUME Sha!ShaAssumption, byte_len \in Nat
  PROVE  /\ byte_len \div HashBlockBytes \in Nat
         /\ Sha!Whole \in Nat
         /\ Sha!Rest \in 0 .. HashBlockBytes - 1
         /\ byte_len = Sha!Whole + Sha!Rest
<1> DEFINE q == byte_len \div HashBlockBytes
<1>1. HashBlockBytes \in Nat \ {0}
  BY DEF Sha!ShaAssumption
<1>2. /\ q \in Nat /\ Sha!Rest \in 0 .. HashBlockBytes - 1
      /\ byte_len = HashBlockBytes * q + Sha!Rest
  BY <1>1 DEF Sha!Rest
<1>3. Sha!Whole = q * HashBlockBytes
  BY DEF Sha!Whole
<1> HIDE DEF q
<1>4. Sha!Whole \in Nat /\ q * HashBlockBytes = HashBlockBytes * q
  BY <1>1, <1>2, <1>3
<1>5. QED
  BY <1>2, <1>3, <1>4 DEF q

(* Room for the bit 1 and the length, and not a block more. *)
LEMMA ShaLastLenFits ==
  ASSUME Sha!ShaAssumption, byte_len \in Nat
  PROVE  /\ Sha!LastLen \in {HashBlockBytes, 2 * HashBlockBytes}
         /\ Sha!Rest + 1 + FieldBytes <= Sha!LastLen
         /\ Sha!LastLen < Sha!Rest + 1 + FieldBytes + HashBlockBytes
         /\ LenBytes <= FieldBytes
<1>1. Sha!Rest \in 0 .. HashBlockBytes - 1
  BY ShaWholeAndRest
<1>2. QED
  BY <1>1 DEF Sha!ShaAssumption, Sha!LastLen

LEMMA ShaSizes ==
  ASSUME Sha!ShaAssumption, ShaIInv, shaPc \notin {"start", "failed"}
  PROVE  /\ last_len = Sha!LastLen
         /\ HashBlockBytes \in Nat \ {0} /\ LenBytes \in Nat /\ last_len \in Nat
         /\ byte_len \in Nat /\ Sha!Whole \in Nat /\ Sha!Rest \in Nat
         /\ Sha!Rest < last_len - LenBytes
         /\ last_len <= 2 * HashBlockBytes
         /\ DOMAIN last_block = 0 .. 2 * HashBlockBytes - 1
         /\ byte_len \div HashBlockBytes \in Nat
<1>1. last_len = Sha!LastLen /\ byte_len \in Nat
  BY DEF ShaIInv, ShaLengthInv, ShaTypeInv
<1>2. DOMAIN last_block = 0 .. 2 * HashBlockBytes - 1
  BY DEF ShaIInv, ShaTypeInv
<1>3. /\ Sha!Whole \in Nat /\ Sha!Rest \in Nat
      /\ byte_len \div HashBlockBytes \in Nat
  BY <1>1, ShaWholeAndRest
<1>4. /\ Sha!LastLen \in {HashBlockBytes, 2 * HashBlockBytes}
      /\ Sha!Rest + 1 + FieldBytes <= Sha!LastLen
      /\ LenBytes <= FieldBytes
  BY <1>1, ShaLastLenFits
<1>5. QED
  BY <1>1, <1>2, <1>3, <1>4 DEF Sha!ShaAssumption

LEMMA ShaInitIInv ==
  ASSUME Sha!ShaAssumption, Sha!Init
  PROVE  ShaIInv
<1>1. ShaTypeInv
  BY DEF Sha!Init, ShaTypeInv, Sha!ShaAssumption
<1>2. ShaLengthInv /\ ShaBlockInv /\ ShaHashedInv
  BY DEF Sha!Init, ShaLengthInv, ShaBlockInv, ShaHashedInv
<1>3. QED
  BY <1>1, <1>2 DEF ShaIInv

(* A turn of sha_update takes a block off what is still to be hashed. *)
LEMMA ShaBlockMoved ==
  ASSUME Sha!ShaAssumption, n \in Nat, n > 0, hashedLen \in Nat,
         hashedLen' = hashedLen + HashBlockBytes, n' = n - 1
  PROVE  /\ hashedLen' \in Nat /\ n' \in Nat
         /\ hashedLen' + n' * HashBlockBytes = hashedLen + n * HashBlockBytes
         /\ hashedLen' <= hashedLen + n * HashBlockBytes
         /\ n' * HashBlockBytes \in Nat
<1>1. HashBlockBytes \in Nat \ {0}
  BY DEF Sha!ShaAssumption
<1>2. /\ (n - 1) * HashBlockBytes = n * HashBlockBytes - HashBlockBytes
      /\ n * HashBlockBytes \in Nat /\ (n - 1) * HashBlockBytes \in Nat
  BY <1>1
<1>3. QED
  BY <1>1, <1>2

(* The message is not changed by any step, and so neither are the          *)
(* positions its blocks and its rest have.                                 *)
LEMMA ShaSameMessage ==
  ASSUME [Sha!Next]_(Sha!vars)
  PROVE  /\ byte_len' = byte_len /\ Sha!Whole' = Sha!Whole
         /\ Sha!Rest' = Sha!Rest /\ Sha!LastLen' = Sha!LastLen
<1>1. byte_len' = byte_len
  BY DEF Sha!Next, Sha!Refuse, Sha!CopyRest, Sha!Pad, Sha!EncodeLength,
         Sha!CompressMessage, Sha!MessageDone,
         Sha!CompressLast, Sha!Finish, Sha!Compress, Sha!vars
<1>2. QED
  BY <1>1 DEF Sha!Whole, Sha!Rest, Sha!LastLen

(* From the rest of the message on, what is to be hashed is last_block. *)
LEMMA ShaPaddedIsLast ==
  ASSUME Sha!ShaAssumption, byte_len \in Nat, last_len = Sha!LastLen,
         NEW j \in 0 .. last_len - 1
  PROVE  Sha!PaddedByte(Sha!Whole + j, ShaTotal) = ShaLastByte(j)
<1>1. /\ Sha!Whole \in Nat /\ Sha!Rest \in Nat
      /\ byte_len = Sha!Whole + Sha!Rest
      /\ last_len \in Nat /\ Sha!Rest < last_len - LenBytes
      /\ LenBytes \in Nat
  BY ShaWholeAndRest, ShaLastLenFits DEF Sha!ShaAssumption
<1>2. /\ ShaTotal - LenBytes = Sha!Whole + (last_len - LenBytes)
      /\ ShaTotal \in Nat
  BY <1>1 DEF ShaTotal
<1>3. CASE j < Sha!Rest
  BY <1>1, <1>3 DEF Sha!PaddedByte, ShaLastByte
<1>4. CASE j = Sha!Rest
  BY <1>1, <1>4 DEF Sha!PaddedByte, ShaLastByte
<1>5. CASE Sha!Rest < j /\ j < last_len - LenBytes
  BY <1>1, <1>2, <1>5 DEF Sha!PaddedByte, ShaLastByte
<1>6. CASE j >= last_len - LenBytes
  <2>1. (Sha!Whole + j) - (ShaTotal - LenBytes) = j - (last_len - LenBytes)
    BY <1>1, <1>2
  <2>2. Sha!PaddedByte(Sha!Whole + j,
  ShaTotal) = Sha!LenByte((Sha!Whole + j) - (ShaTotal - LenBytes))
    BY <1>1, <1>2, <1>6 DEF Sha!PaddedByte
  <2>3. ShaLastByte(j) = Sha!LenByte(j - (last_len - LenBytes))
    BY <1>1, <1>6 DEF ShaLastByte
  <2>4. QED
    BY <2>1, <2>2, <2>3
<1>7. QED
  BY <1>1, <1>3, <1>4, <1>5, <1>6

(* Nor is last_len, once it has been chosen. *)
LEMMA ShaSameBytes ==
  ASSUME [Sha!Next]_(Sha!vars), last_len' = last_len
  PROVE  /\ ShaTotal' = ShaTotal
         /\ \A j : Sha!PaddedByte(j, ShaTotal)' = Sha!PaddedByte(j, ShaTotal)
         /\ \A j : ShaLastByte(j)' = ShaLastByte(j)
<1>1. byte_len' = byte_len /\ Sha!Whole' = Sha!Whole /\ Sha!Rest' = Sha!Rest
  BY ShaSameMessage
<1>2. ShaTotal' = ShaTotal
  BY <1>1 DEF ShaTotal
<1>3. ASSUME NEW j PROVE Sha!PaddedByte(j, ShaTotal)' = Sha!PaddedByte(j,
ShaTotal)
  BY <1>1, <1>2 DEF Sha!PaddedByte, Sha!MsgByte, Sha!Byte, Sha!LenByte
<1>4. ASSUME NEW j PROVE ShaLastByte(j)' = ShaLastByte(j)
  BY <1>1 DEF ShaLastByte, Sha!MsgByte, Sha!Byte, Sha!LenByte
<1>5. QED
  BY <1>2, <1>3, <1>4
-----------------------------------------------------------------------------
LEMMA ShaRefuseIInv ==
  ASSUME Sha!ShaAssumption, ShaIInv, Sha!Refuse
  PROVE  ShaIInv'
<1>1. /\ [Sha!Next]_(Sha!vars) /\ last_len' = last_len /\ hashedLen' = 0
      /\ hashedLen = 0
  BY DEF Sha!Refuse, Sha!Next, ShaIInv, ShaLengthInv
<1>2. ShaTypeInv'
  BY DEF Sha!Refuse, ShaIInv, ShaTypeInv
<1>3. ShaLengthInv' /\ ShaBlockInv'
  BY <1>1 DEF Sha!Refuse, ShaLengthInv, ShaBlockInv
<1>4. ShaHashedInv'
  BY <1>1 DEF ShaHashedInv
<1>5. QED
  BY <1>2, <1>3, <1>4 DEF ShaIInv

LEMMA ShaCopyRestIInv ==
  ASSUME Sha!ShaAssumption, ShaIInv, Sha!CopyRest
  PROVE  ShaIInv'
<1>1. [Sha!Next]_(Sha!vars) /\ hashedLen' = 0 /\ hashedLen = 0
  BY DEF Sha!CopyRest, Sha!Next, ShaIInv, ShaLengthInv
<1>2. /\ byte_len \in Nat /\ Sha!Whole' = Sha!Whole /\ Sha!Rest' = Sha!Rest
      /\ Sha!LastLen' = Sha!LastLen
  BY <1>1, ShaSameMessage DEF ShaIInv, ShaTypeInv
<1>3. /\ Sha!Rest \in 0 .. HashBlockBytes - 1 /\ HashBlockBytes \in Nat \ {0}
      /\ DOMAIN last_block = 0 .. 2 * HashBlockBytes - 1
  BY <1>2, ShaWholeAndRest DEF ShaIInv, ShaTypeInv, Sha!ShaAssumption
<1>4. last_block' = [j \in 0 .. 2 * HashBlockBytes - 1 |->
                       IF 0 <= j /\ j < Sha!Rest THEN Sha!MsgByte(Sha!Whole + j)
                                                  ELSE last_block[j]]
  BY <1>3 DEF Sha!CopyRest, Sha!Filled
<1>5. ShaTypeInv'
  BY <1>4 DEF Sha!CopyRest, ShaIInv, ShaTypeInv
<1>6. ShaLengthInv'
  BY <1>1, <1>2 DEF Sha!CopyRest, ShaLengthInv
<1>7. ASSUME NEW j \in 0 .. Sha!Rest - 1
      PROVE  last_block'[j] = ShaLastByte(j)'
  <2>1. last_block'[j] = Sha!MsgByte(Sha!Whole + j)
    BY <1>3, <1>4
  <2>2. ShaLastByte(j)' = Sha!MsgByte(Sha!Whole + j)
    BY <1>2, <1>3 DEF ShaLastByte, Sha!MsgByte
  <2>3. QED
    BY <2>1, <2>2
<1>8. ShaBlockInv'
  BY <1>2, <1>7 DEF Sha!CopyRest, ShaBlockInv
<1>9. ShaHashedInv'
  BY <1>1 DEF ShaHashedInv
<1>10. QED
  BY <1>5, <1>6, <1>8, <1>9 DEF ShaIInv

LEMMA ShaPadIInv ==
  ASSUME Sha!ShaAssumption, ShaIInv, Sha!Pad
  PROVE  ShaIInv'
<1>0. shaPc = "pad"
  BY DEF Sha!Pad
<1>1. /\ [Sha!Next]_(Sha!vars) /\ last_len' = last_len /\ hashedLen' = 0
      /\ hashedLen = 0
  BY DEF Sha!Pad, Sha!Next, ShaIInv, ShaLengthInv
<1>2. /\ \A j : ShaLastByte(j)' = ShaLastByte(j)
      /\ Sha!LastLen' = Sha!LastLen /\ last_len = Sha!LastLen
  BY <1>1, ShaSameBytes, ShaSameMessage DEF Sha!Pad, ShaIInv, ShaLengthInv
<1>3. /\ Sha!Rest \in Nat /\ i = Sha!Rest /\ LenBytes \in Nat
      /\ HashBlockBytes \in Nat
      /\ last_len \in Nat /\ last_len <= 2 * HashBlockBytes
      /\ DOMAIN last_block = 0 .. 2 * HashBlockBytes - 1
  BY <1>0, ShaSizes DEF ShaIInv, ShaBlockInv
<1>4. last_block' = [j \in 0 .. 2 * HashBlockBytes - 1 |->
                       IF Sha!Rest <= j /\ j < last_len - LenBytes
                       THEN IF j = Sha!Rest THEN Sha!Byte(128) ELSE Sha!Byte(0)
                       ELSE last_block[j]]
  BY <1>3 DEF Sha!Pad, Sha!Filled
<1>5. ShaTypeInv'
  BY <1>4 DEF Sha!Pad, ShaIInv, ShaTypeInv
<1>6. ShaLengthInv'
  BY <1>1, <1>2 DEF Sha!Pad, ShaLengthInv
<1>7. ASSUME NEW j \in 0 .. (last_len - LenBytes) - 1
      PROVE  last_block'[j] = ShaLastByte(j)
  <2>1. CASE j < Sha!Rest
    BY <1>0, <1>3, <1>4, <2>1 DEF ShaIInv, ShaBlockInv
  <2>2. CASE j = Sha!Rest
    BY <1>3, <1>4, <2>2 DEF ShaLastByte
  <2>3. CASE Sha!Rest < j
    BY <1>3, <1>4, <2>3 DEF ShaLastByte
  <2>4. QED
    BY <1>3, <2>1, <2>2, <2>3
<1>8. ShaBlockInv'
  BY <1>1, <1>2, <1>7 DEF Sha!Pad, ShaBlockInv
<1>9. ShaHashedInv'
  BY <1>1 DEF ShaHashedInv
<1>10. QED
  BY <1>5, <1>6, <1>8, <1>9 DEF ShaIInv

LEMMA ShaEncodeLengthIInv ==
  ASSUME Sha!ShaAssumption, ShaIInv, Sha!EncodeLength
  PROVE  ShaIInv'
<1>0. shaPc = "length"
  BY DEF Sha!EncodeLength
<1>1. /\ [Sha!Next]_(Sha!vars) /\ last_len' = last_len /\ hashedLen' = 0
      /\ hashedLen = 0
  BY DEF Sha!EncodeLength, Sha!Next, ShaIInv, ShaLengthInv
<1>2. /\ \A j : ShaLastByte(j)' = ShaLastByte(j)
      /\ Sha!LastLen' = Sha!LastLen /\ last_len = Sha!LastLen
      /\ Sha!Whole' = Sha!Whole
  BY <1>1, ShaSameBytes, ShaSameMessage
  DEF Sha!EncodeLength, ShaIInv, ShaLengthInv
<1>3. /\ Sha!Rest \in Nat /\ LenBytes \in Nat /\ HashBlockBytes \in Nat
      /\ last_len \in Nat /\ last_len <= 2 * HashBlockBytes
      /\ Sha!Rest < last_len - LenBytes
      /\ DOMAIN last_block = 0 .. 2 * HashBlockBytes - 1
      /\ byte_len \div HashBlockBytes \in Nat
  BY <1>0, ShaSizes
<1>4. last_block' = [j \in 0 .. 2 * HashBlockBytes - 1 |->
                       IF last_len - LenBytes <= j /\ j < last_len
                       THEN Sha!LenByte(j - (last_len - LenBytes))
                       ELSE last_block[j]]
  BY <1>3 DEF Sha!EncodeLength, Sha!Filled
<1>5. ShaTypeInv'
  BY <1>3, <1>4 DEF Sha!EncodeLength, ShaIInv, ShaTypeInv
<1>6. n' * HashBlockBytes = Sha!Whole
  BY DEF Sha!EncodeLength, Sha!Whole
<1>7. Sha!Whole \in Nat
  BY ShaWholeAndRest DEF ShaIInv, ShaTypeInv
<1>8. ShaLengthInv'
  BY <1>1, <1>2, <1>6, <1>7 DEF Sha!EncodeLength, ShaLengthInv
<1>9. ASSUME NEW j \in 0 .. last_len - 1
      PROVE  last_block'[j] = ShaLastByte(j)
  <2>1. CASE j < last_len - LenBytes
    BY <1>0, <1>3, <1>4, <2>1 DEF ShaIInv, ShaBlockInv
  <2>2. CASE j >= last_len - LenBytes
    BY <1>3, <1>4, <2>2 DEF ShaLastByte
  <2>3. QED
    BY <1>3, <2>1, <2>2
<1>10. ShaBlockInv'
  BY <1>1, <1>2, <1>9 DEF Sha!EncodeLength, ShaBlockInv
<1>11. ShaHashedInv'
  BY <1>1 DEF ShaHashedInv
<1>12. QED
  BY <1>5, <1>8, <1>10, <1>11 DEF ShaIInv

(* The padding begins where the message ends. *)
LEMMA ShaMessageFirst ==
  ASSUME byte_len \in Nat, NEW j \in Int, j < byte_len, NEW end
  PROVE  Sha!PaddedByte(j, end) = Sha!MsgByte(j)
<1>1. ~(j = byte_len) /\ ~(j > byte_len)
  OBVIOUS
<1>2. QED
  BY <1>1 DEF Sha!PaddedByte

LEMMA ShaCompressMessageIInv ==
  ASSUME Sha!ShaAssumption, ShaIInv, Sha!CompressMessage
  PROVE  ShaIInv'
<1>0. shaPc = "message" /\ n > 0
  BY DEF Sha!CompressMessage, Sha!Compress
<1>1. /\ [Sha!Next]_(Sha!vars) /\ last_len' = last_len
      /\ last_block' = last_block /\ shaPc' = shaPc
  BY DEF Sha!CompressMessage, Sha!Compress, Sha!Next
<1>2. /\ \A j : ShaLastByte(j)' = ShaLastByte(j)
      /\ \A j : Sha!PaddedByte(j, ShaTotal)' = Sha!PaddedByte(j, ShaTotal)
  BY <1>1, ShaSameBytes
<1>3. /\ Sha!Whole' = Sha!Whole /\ Sha!LastLen' = Sha!LastLen
      /\ byte_len' = byte_len
  BY <1>1, ShaSameMessage
<1>4. hashedLen' = hashedLen + HashBlockBytes /\ n' = n - 1
  BY DEF Sha!CompressMessage, Sha!Compress
<1>5. /\ n \in Nat /\ hashedLen \in Nat
      /\ hashedLen + n * HashBlockBytes = Sha!Whole
      /\ \A j \in 0 .. hashedLen - 1 : hashed[j] = Sha!PaddedByte(j, ShaTotal)
  BY <1>0 DEF ShaIInv, ShaTypeInv, ShaLengthInv, ShaHashedInv
<1>6. /\ hashedLen' \in Nat /\ n' \in Nat
      /\ hashedLen' + n' * HashBlockBytes = Sha!Whole
      /\ hashedLen' <= Sha!Whole
  BY <1>0, <1>4, <1>5, ShaBlockMoved
<1>7. hashed' = [j \in 0 .. hashedLen' - 1 |->
                   IF j < hashedLen THEN hashed[j]
                   ELSE Sha!MsgByte(hashedLen + (j - hashedLen))]
  <2>1. hashed' = [j \in 0 .. hashedLen + HashBlockBytes - 1 |->
                     IF j < hashedLen THEN hashed[j]
                     ELSE Sha!MsgByte(hashedLen + (j - hashedLen))]
    BY DEF Sha!CompressMessage, Sha!Compress
  <2>2. hashedLen \in Nat /\ HashBlockBytes \in Nat
    BY <1>5 DEF Sha!ShaAssumption
  <2>3. QED
    BY <1>4, <2>1, <2>2
<1>8. ShaTypeInv'
  <2>1. hashed' = [j \in 0 .. hashedLen' - 1 |-> hashed'[j]]
    BY <1>7
  <2>2. QED
    BY <1>1, <1>3, <1>6, <2>1 DEF ShaIInv, ShaTypeInv
<1>9. ShaLengthInv'
  BY <1>0, <1>1, <1>3, <1>6 DEF ShaIInv, ShaLengthInv
<1>10. ShaBlockInv'
  BY <1>0, <1>1, <1>2 DEF ShaIInv, ShaBlockInv
<1>11. ASSUME NEW j \in 0 .. hashedLen' - 1
       PROVE  hashed'[j] = Sha!PaddedByte(j, ShaTotal)
  <2>1. CASE j < hashedLen
    BY <1>5, <1>7, <2>1
  <2>2. CASE j >= hashedLen
    <3>1. hashed'[j] = Sha!MsgByte(j)
      BY <1>5, <1>7, <2>2
    <3>2. /\ byte_len \in Nat /\ Sha!Rest \in Nat
          /\ byte_len = Sha!Whole + Sha!Rest /\ Sha!Whole \in Nat
      BY ShaWholeAndRest DEF ShaIInv, ShaTypeInv
    <3>3. j < byte_len
      <4> DEFINE whole == hashedLen'
      <4>1. whole \in Nat /\ whole <= Sha!Whole /\ j \in 0 .. whole - 1
        BY <1>6
      <4> HIDE DEF whole
      <4>2. QED
        BY <3>2, <4>1
    <3>4. Sha!PaddedByte(j, ShaTotal) = Sha!MsgByte(j)
      BY <3>2, <3>3, ShaMessageFirst
    <3>5. QED
      BY <3>1, <3>4
  <2>3. QED
    BY <1>5, <2>1, <2>2
<1>12. ShaHashedInv'
  BY <1>2, <1>11 DEF ShaHashedInv
<1>13. QED
  BY <1>8, <1>9, <1>10, <1>12 DEF ShaIInv

LEMMA ShaMessageDoneIInv ==
  ASSUME Sha!ShaAssumption, ShaIInv, Sha!MessageDone
  PROVE  ShaIInv'
<1>1. /\ [Sha!Next]_(Sha!vars) /\ last_len' = last_len
      /\ last_block' = last_block
      /\ hashed' = hashed /\ hashedLen' = hashedLen /\ n = 0
      /\ n' = last_len \div HashBlockBytes
      /\ shaPc = "message" /\ shaPc' = "last"
  BY DEF Sha!MessageDone, Sha!Next
<1>2. /\ \A j : ShaLastByte(j)' = ShaLastByte(j)
      /\ \A j : Sha!PaddedByte(j, ShaTotal)' = Sha!PaddedByte(j, ShaTotal)
      /\ ShaTotal' = ShaTotal
  BY <1>1, ShaSameBytes
<1>3. /\ Sha!Whole' = Sha!Whole /\ Sha!LastLen' = Sha!LastLen
      /\ byte_len' = byte_len
  BY <1>1, ShaSameMessage
<1>4. /\ last_len \in {HashBlockBytes, 2 * HashBlockBytes}
      /\ HashBlockBytes \in Nat \ {0}
      /\ Sha!Whole \in Nat
  BY <1>1, ShaSizes, ShaLastLenFits
<1>5. n' \in Nat /\ n' * HashBlockBytes = last_len
  BY <1>1, <1>4
<1>6. hashedLen = Sha!Whole
  <2>1. hashedLen \in Nat /\ hashedLen + n * HashBlockBytes = Sha!Whole
    BY <1>1 DEF ShaIInv, ShaTypeInv, ShaLengthInv
  <2>2. QED
    BY <1>1, <1>4, <2>1
<1>7. ShaTypeInv'
  BY <1>1, <1>3, <1>5 DEF ShaIInv, ShaTypeInv
<1>8. ShaLengthInv'
  BY <1>1, <1>2, <1>3, <1>4, <1>5, <1>6 DEF ShaIInv, ShaLengthInv, ShaTotal
<1>9. ShaBlockInv'
  BY <1>1, <1>2 DEF ShaIInv, ShaBlockInv
<1>10. ShaHashedInv'
  BY <1>1, <1>2 DEF ShaIInv, ShaHashedInv
<1>11. QED
  BY <1>7, <1>8, <1>9, <1>10 DEF ShaIInv

LEMMA ShaCompressLastIInv ==
  ASSUME Sha!ShaAssumption, ShaIInv, Sha!CompressLast
  PROVE  ShaIInv'
<1>0. shaPc = "last" /\ n > 0
  BY DEF Sha!CompressLast, Sha!Compress
<1>1. /\ [Sha!Next]_(Sha!vars) /\ last_len' = last_len
      /\ last_block' = last_block /\ shaPc' = shaPc
  BY DEF Sha!CompressLast, Sha!Compress, Sha!Next
<1>2. /\ \A j : ShaLastByte(j)' = ShaLastByte(j)
      /\ \A j : Sha!PaddedByte(j, ShaTotal)' = Sha!PaddedByte(j, ShaTotal)
      /\ ShaTotal' = ShaTotal
  BY <1>1, ShaSameBytes
<1>3. /\ Sha!Whole' = Sha!Whole /\ Sha!LastLen' = Sha!LastLen
      /\ byte_len' = byte_len
  BY <1>1, ShaSameMessage
<1>4. hashedLen' = hashedLen + HashBlockBytes /\ n' = n - 1
  BY DEF Sha!CompressLast, Sha!Compress
<1>5. /\ n \in Nat /\ hashedLen \in Nat /\ Sha!Whole <= hashedLen
      /\ hashedLen + n * HashBlockBytes = ShaTotal
      /\ \A j \in 0 .. hashedLen - 1 : hashed[j] = Sha!PaddedByte(j, ShaTotal)
      /\ \A j \in 0 .. last_len - 1 : last_block[j] = ShaLastByte(j)
  BY <1>0 DEF ShaIInv, ShaTypeInv, ShaLengthInv, ShaBlockInv, ShaHashedInv
<1>6. /\ hashedLen' \in Nat /\ n' \in Nat
      /\ hashedLen' + n' * HashBlockBytes = ShaTotal
      /\ hashedLen' <= ShaTotal
  BY <1>0, <1>4, <1>5, ShaBlockMoved
<1>7. hashed' = [j \in 0 .. hashedLen' - 1 |->
                   IF j < hashedLen THEN hashed[j]
                   ELSE last_block[(hashedLen - Sha!Whole) + (j - hashedLen)]]
  <2>1. hashed' = [j \in 0 .. hashedLen + HashBlockBytes - 1 |->
                     IF j < hashedLen THEN hashed[j]
                     ELSE last_block[(hashedLen - Sha!Whole) + (j - hashedLen)]]
    BY DEF Sha!CompressLast, Sha!Compress
  <2>2. hashedLen \in Nat /\ HashBlockBytes \in Nat
    BY <1>5 DEF Sha!ShaAssumption
  <2>3. QED
    BY <1>4, <2>1, <2>2
<1>8. /\ Sha!Whole \in Nat /\ HashBlockBytes \in Nat /\ last_len \in Nat
      /\ byte_len \in Nat /\ last_len = Sha!LastLen
  BY <1>0, ShaSizes
<1>9. ShaTypeInv'
  <2>1. hashed' = [j \in 0 .. hashedLen' - 1 |-> hashed'[j]]
    BY <1>7
  <2>2. QED
    BY <1>1, <1>3, <1>6, <2>1 DEF ShaIInv, ShaTypeInv
<1>10. ShaLengthInv'
  BY <1>0, <1>1, <1>2, <1>3, <1>4, <1>5, <1>6, <1>8 DEF ShaIInv, ShaLengthInv
<1>11. ShaBlockInv'
  BY <1>0, <1>1, <1>2 DEF ShaIInv, ShaBlockInv
<1>12. ASSUME NEW j \in 0 .. hashedLen' - 1
       PROVE  hashed'[j] = Sha!PaddedByte(j, ShaTotal)
  <2>1. CASE j < hashedLen
    BY <1>5, <1>7, <2>1
  <2>2. CASE j >= hashedLen
    <3>1. /\ j - Sha!Whole \in 0 .. last_len - 1
          /\ Sha!Whole + (j - Sha!Whole) = j
          /\ (hashedLen - Sha!Whole) + (j - hashedLen) = j - Sha!Whole
      <4> DEFINE whole == hashedLen'
      <4>1. /\ hashedLen \in Nat /\ Sha!Whole <= hashedLen
            /\ whole \in Nat /\ whole <= ShaTotal
            /\ j \in 0 .. whole - 1 /\ j >= hashedLen
        BY <1>5, <1>6, <2>2
      <4>2. /\ ShaTotal = Sha!Whole + last_len /\ Sha!Whole \in Nat
            /\ last_len \in Nat
        BY <1>8 DEF ShaTotal
      <4> HIDE DEF whole
      <4>3. QED
        BY <4>1, <4>2
    <3>2. hashed'[j] = ShaLastByte(j - Sha!Whole)
      BY <1>5, <1>7, <2>2, <3>1
    <3>3. QED
      BY <1>8, <3>1, <3>2, ShaPaddedIsLast
  <2>3. QED
    BY <1>5, <2>1, <2>2
<1>13. ShaHashedInv'
  BY <1>2, <1>12 DEF ShaHashedInv
<1>14. QED
  BY <1>9, <1>10, <1>11, <1>13 DEF ShaIInv

LEMMA ShaFinishIInv ==
  ASSUME Sha!ShaAssumption, ShaIInv, Sha!Finish
  PROVE  ShaIInv'
<1>1. /\ [Sha!Next]_(Sha!vars) /\ last_len' = last_len
      /\ hashed' = hashed /\ hashedLen' = hashedLen /\ n = 0 /\ n' = 0
      /\ shaPc = "last" /\ shaPc' = "done"
      /\ last_block' = [j \in DOMAIN last_block |-> Sha!Byte(0)]
  BY DEF Sha!Finish, Sha!Next
<1>2. /\ \A j : Sha!PaddedByte(j, ShaTotal)' = Sha!PaddedByte(j, ShaTotal)
      /\ ShaTotal' = ShaTotal
  BY <1>1, ShaSameBytes
<1>3. Sha!LastLen' = Sha!LastLen /\ byte_len' = byte_len
  BY <1>1, ShaSameMessage
<1>4. hashedLen = ShaTotal
  <2>1. HashBlockBytes \in Nat \ {0} /\ hashedLen \in Nat
    BY <1>1, ShaSizes DEF ShaIInv, ShaTypeInv
  <2>2. hashedLen + n * HashBlockBytes = ShaTotal
    BY <1>1 DEF ShaIInv, ShaLengthInv
  <2>3. QED
    BY <1>1, <2>1, <2>2
<1>5. ShaTypeInv'
  BY <1>1, <1>3 DEF ShaIInv, ShaTypeInv
<1>6. ShaLengthInv'
  BY <1>1, <1>2, <1>3, <1>4 DEF ShaIInv, ShaLengthInv
<1>7. ShaBlockInv'
  BY <1>1 DEF ShaBlockInv
<1>8. ShaHashedInv'
  BY <1>1, <1>2 DEF ShaIInv, ShaHashedInv
<1>9. QED
  BY <1>5, <1>6, <1>7, <1>8 DEF ShaIInv
-----------------------------------------------------------------------------
LEMMA ShaStutterIInv ==
  ASSUME ShaIInv, UNCHANGED Sha!vars
  PROVE  ShaIInv'
<1>1. /\ [Sha!Next]_(Sha!vars) /\ last_len' = last_len /\ hashed' = hashed
      /\ hashedLen' = hashedLen
  BY DEF Sha!vars
<1>2. /\ \A j : ShaLastByte(j)' = ShaLastByte(j)
      /\ \A j : Sha!PaddedByte(j, ShaTotal)' = Sha!PaddedByte(j, ShaTotal)
      /\ ShaTotal' = ShaTotal
  BY <1>1, ShaSameBytes
<1>3. /\ Sha!Whole' = Sha!Whole /\ Sha!Rest' = Sha!Rest
      /\ Sha!LastLen' = Sha!LastLen
  BY <1>1, ShaSameMessage
<1>4. ShaTypeInv'
  BY DEF Sha!vars, ShaIInv, ShaTypeInv
<1>5. ShaLengthInv'
  BY <1>2, <1>3 DEF Sha!vars, ShaIInv, ShaLengthInv
<1>6. ShaBlockInv'
  BY <1>2, <1>3 DEF Sha!vars, ShaIInv, ShaBlockInv
<1>7. ShaHashedInv'
  BY <1>1, <1>2 DEF ShaIInv, ShaHashedInv
<1>8. QED
  BY <1>4, <1>5, <1>6, <1>7 DEF ShaIInv

(* What is hashed, what last_block holds and the blocks still to come stay *)
(* in step through sha() and sha_update.                                   *)
THEOREM ShaInductive ==
  ASSUME Sha!ShaAssumption
  PROVE  Sha!Spec => []ShaIInv
<1>1. Sha!Init => ShaIInv
  BY ShaInitIInv
<1>2. ShaIInv /\ [Sha!Next]_(Sha!vars) => ShaIInv'
  <2>1. SUFFICES ASSUME ShaIInv, [Sha!Next]_(Sha!vars)
                 PROVE  ShaIInv'
    OBVIOUS
  <2>2. CASE Sha!Next
    BY <2>1, <2>2, ShaRefuseIInv, ShaCopyRestIInv, ShaPadIInv,
       ShaEncodeLengthIInv,
       ShaCompressMessageIInv, ShaMessageDoneIInv, ShaCompressLastIInv,
       ShaFinishIInv DEF Sha!Next
  <2>3. CASE UNCHANGED Sha!vars
    BY <2>1, <2>3, ShaStutterIInv
  <2>4. QED
    BY <2>1, <2>2, <2>3
<1>3. QED
  BY <1>1, <1>2, PTL DEF Sha!Spec

(* Whole blocks are hashed: both parts of the message end with one. *)
LEMMA ShaWholeBlocks ==
  ASSUME Sha!ShaAssumption, byte_len \in Nat, last_len = Sha!LastLen
  PROVE  ShaTotal % HashBlockBytes = 0
<1> DEFINE q == byte_len \div HashBlockBytes
<1>1. /\ HashBlockBytes \in Nat \ {0} /\ q \in Nat
      /\ Sha!Whole = q * HashBlockBytes
  BY ShaWholeAndRest DEF Sha!ShaAssumption, Sha!Whole
<1> HIDE DEF q
<1>2. PICK blocks \in {1, 2} : last_len = blocks * HashBlockBytes
  BY <1>1, ShaLastLenFits
<1>3. ShaTotal = (q + blocks) * HashBlockBytes /\ q + blocks \in Nat
  BY <1>1, <1>2 DEF ShaTotal
<1>4. QED
  BY <1>1, <1>3

(* sha() hashes the message, the bit 1, zeros and the length, in whole     *)
(* blocks and no more of them than needed: two messages are never padded   *)
(* to the same blocks, and no byte of the stack is hashed.                 *)
THEOREM ShaPadded ==
  ASSUME Sha!ShaAssumption
  PROVE  Sha!Spec => []Sha!PaddedMessage
<1>1. ShaIInv => Sha!PaddedMessage
  <2>1. SUFFICES
          ASSUME ShaIInv, shaPc = "done"
          PROVE  /\ hashedLen % HashBlockBytes = 0
                 /\ byte_len + 1 + FieldBytes <= hashedLen
                 /\ hashedLen < byte_len + 1 + FieldBytes + HashBlockBytes
                 /\ hashed = [j \in 0 .. hashedLen - 1 |->
                               Sha!PaddedByte(j, hashedLen)]
    BY DEF Sha!PaddedMessage
  <2>2. byte_len \in Nat /\ last_len = Sha!LastLen /\ hashedLen = ShaTotal
    BY <2>1, ShaSizes DEF ShaIInv, ShaLengthInv
  <2>3. hashedLen % HashBlockBytes = 0
    BY <2>2, ShaWholeBlocks
  <2>4. /\ byte_len + 1 + FieldBytes <= hashedLen
        /\ hashedLen < byte_len + 1 + FieldBytes + HashBlockBytes
    <3>1. /\ byte_len = Sha!Whole + Sha!Rest /\ Sha!Whole \in Nat
          /\ Sha!Rest \in Nat
      BY <2>2, ShaWholeAndRest
    <3>2. /\ Sha!LastLen \in {HashBlockBytes, 2 * HashBlockBytes}
          /\ Sha!Rest + 1 + FieldBytes <= Sha!LastLen
          /\ Sha!LastLen < Sha!Rest + 1 + FieldBytes + HashBlockBytes
      BY <2>2, ShaLastLenFits
    <3>3. QED
      BY <2>2, <3>1, <3>2 DEF ShaTotal, Sha!ShaAssumption
  <2>5. hashed = [j \in 0 .. hashedLen - 1 |-> Sha!PaddedByte(j, hashedLen)]
    <3>1. \A j \in 0 .. hashedLen - 1 : hashed[j] = Sha!PaddedByte(j, hashedLen)
      BY <2>1, <2>2 DEF ShaIInv, ShaHashedInv
    <3>2. hashed = [j \in 0 .. hashedLen - 1 |-> hashed[j]]
      BY <2>1 DEF ShaIInv, ShaTypeInv
    <3>3. QED
      BY <3>1, <3>2
  <2>6. QED
    BY <2>3, <2>4, <2>5
<1>2. QED
  BY <1>1, ShaInductive, PTL

(***************************************************************************)
(* fips202.c, of KeccakSponge.                                             *)
(***************************************************************************)

(* The message padded to a length, by position. *)
SpongeByte(end, j) ==
  IF j < total THEN Keccak!MsgByte(j)
  ELSE Keccak!Byte((IF j = total THEN mode.p ELSE 0)
                   + (IF j = end - 1 THEN 128 ELSE 0))

SpongeTypeInv ==
  /\ mode \in Modes
  /\ total \in Nat /\ mlen \in Nat /\ m \in Nat /\ perms \in Nat
  /\ m + mlen = total
  /\ keccakPc \in {"absorb", "squeeze", "done"}

(* What the state has taken in: whole blocks of the message, and with the  *)
(* block that is permuted last the message padded.                         *)
SpongeAbsorbInv ==
  keccakPc = "absorb" =>
    /\ m = perms * Keccak!r
    /\ s = [j \in 0 .. m - 1 |-> Keccak!MsgByte(j)]

SpongeEnd == (IF keccakPc = "done" THEN perms ELSE perms + 1) * Keccak!r

SpongePadInv ==
  keccakPc # "absorb" =>
    /\ total < SpongeEnd /\ SpongeEnd <= total + Keccak!r
    /\ s = [j \in 0 .. SpongeEnd - 1 |-> SpongeByte(SpongeEnd, j)]

SpongeIInv == SpongeTypeInv /\ SpongeAbsorbInv /\ SpongePadInv

LEMMA SpongeModes ==
  ASSUME Keccak!KeccakAssumption, SpongeTypeInv
  PROVE  Keccak!r \in Nat \ {0} /\ mode.p \in 1..127
BY DEF Keccak!KeccakAssumption, SpongeTypeInv, Keccak!r

(* A block more. *)
LEMMA SpongeNextBlock ==
  ASSUME NEW k \in Nat, NEW rate \in Nat
  PROVE  /\ k * rate \in Nat
         /\ (k + 1) * rate = k * rate + rate
OBVIOUS

LEMMA SpongeInitIInv ==
  ASSUME Keccak!KeccakAssumption, Keccak!Init
  PROVE  SpongeIInv
<1>1. SpongeTypeInv
  BY DEF Keccak!KeccakAssumption, Keccak!Init, SpongeTypeInv
<1>2. Keccak!r \in Nat
  BY <1>1, SpongeModes
<1>3. 0 .. m - 1 = {}
  BY DEF Keccak!Init
<1>4. m = perms * Keccak!r
  BY <1>2 DEF Keccak!Init
<1>5. s = [j \in 0 .. m - 1 |-> Keccak!MsgByte(j)]
  BY <1>3 DEF Keccak!Init
<1>6. QED
  BY <1>1, <1>4, <1>5
  DEF Keccak!Init, SpongeIInv, SpongeAbsorbInv, SpongePadInv

LEMMA SpongeBlockIInv ==
  ASSUME Keccak!KeccakAssumption, SpongeIInv, Keccak!AbsorbBlock
  PROVE  SpongeIInv'
<1> DEFINE rate == Keccak!r
<1>1. /\ rate \in Nat \ {0} /\ m \in Nat /\ mlen \in Nat /\ perms \in Nat
      /\ m = perms * rate /\ mlen >= rate
      /\ s = [j \in 0 .. m - 1 |-> Keccak!MsgByte(j)]
  BY SpongeModes
  DEF SpongeIInv, SpongeTypeInv, SpongeAbsorbInv, Keccak!AbsorbBlock
<1>2. /\ mode' = mode /\ total' = total /\ keccakPc' = keccakPc
      /\ keccakPc = "absorb"
      /\ perms' = perms + 1 /\ mlen' = mlen - rate /\ m' = m + rate
      /\ Keccak!r' = rate
  BY DEF Keccak!AbsorbBlock, Keccak!r
<1>3. s' = [j \in (DOMAIN s) \cup (perms * rate .. perms * rate + rate - 1) |->
              IF j < perms * rate THEN s[j]
                                  ELSE Keccak!MsgByte(m + (j - perms * rate))]
  BY DEF Keccak!AbsorbBlock, Keccak!Xored
<1> HIDE DEF rate
<1>4. SpongeTypeInv'
  BY <1>1, <1>2 DEF SpongeIInv, SpongeTypeInv
<1>5. m' = perms' * rate
  BY <1>1, <1>2, SpongeNextBlock
<1>6. (0 .. m - 1) \cup (m .. m + rate - 1) = 0 .. m' - 1
  BY <1>1, <1>2
<1>7. s' = [j \in 0 .. m' - 1 |-> Keccak!MsgByte(j)]
  <2>1. DOMAIN s = 0 .. m - 1
    BY <1>1
  <2>2. s' = [j \in 0 .. m' - 1 |->
                IF j < m THEN s[j] ELSE Keccak!MsgByte(m + (j - m))]
    BY <1>1, <1>3, <1>6, <2>1
  <2>3. \A j \in 0 .. m' - 1 :
          (IF j < m THEN s[j] ELSE Keccak!MsgByte(m + (j - m)))
            = Keccak!MsgByte(j)
    <3>1. TAKE j \in 0 .. m' - 1
    <3>2. j \in Int /\ m \in Int /\ (j < m => j \in 0 .. m - 1)
      BY <1>1, <1>2
    <3>3. m + (j - m) = j
      BY <3>2
    <3>4. QED
      BY <1>1, <3>2, <3>3
  <2>4. QED
    BY <2>2, <2>3
<1>8. QED
  BY <1>2, <1>4, <1>5, <1>7
  DEF SpongeIInv, SpongeAbsorbInv, SpongePadInv, Keccak!MsgByte

LEMMA SpongeLastIInv ==
  ASSUME Keccak!KeccakAssumption, SpongeIInv, Keccak!AbsorbLast
  PROVE  SpongeIInv'
<1> DEFINE rate == Keccak!r
           end  == m + rate
<1>1. /\ rate \in Nat \ {0} /\ m \in Nat /\ mlen \in Nat /\ perms \in Nat
      /\ m = perms * rate /\ mlen < rate /\ total = m + mlen
      /\ s = [j \in 0 .. m - 1 |-> Keccak!MsgByte(j)]
      /\ mode.p \in 1..127
  BY SpongeModes
  DEF SpongeIInv, SpongeTypeInv, SpongeAbsorbInv, Keccak!AbsorbLast
<1>2. /\ mode' = mode /\ total' = total /\ keccakPc' = "squeeze"
      /\ perms' = perms /\ mlen' = mlen /\ m' = m
      /\ Keccak!r' = rate
  BY DEF Keccak!AbsorbLast, Keccak!r
<1>3. s' = [j \in (DOMAIN s) \cup (perms * rate .. perms * rate + rate - 1) |->
              IF j < perms * rate THEN s[j]
                                  ELSE Keccak!LastBytes[j - perms * rate]]
  BY DEF Keccak!AbsorbLast, Keccak!Xored
<1>4. Keccak!LastBytes =
        [j \in 0 .. rate - 1 |->
           CASE j < mlen -> Keccak!MsgByte(m + j)
             [] j = rate - 1 /\ j >= mlen ->
                  Keccak!Byte((IF j = mlen THEN mode.p ELSE 0) + 128)
             [] OTHER -> Keccak!Byte(IF j = mlen THEN mode.p ELSE 0)]
  BY DEF Keccak!LastBytes
<1> HIDE DEF rate
<1>5. SpongeTypeInv'
  BY <1>1, <1>2 DEF SpongeIInv, SpongeTypeInv
<1>6. end \in Nat /\ end = (perms + 1) * rate
  BY <1>1, SpongeNextBlock
<1>7. (0 .. m - 1) \cup (m .. m + rate - 1) = 0 .. end - 1
  BY <1>1
<1>8. s' = [j \in 0 .. end - 1 |->
              IF j < m THEN s[j] ELSE Keccak!LastBytes[j - m]]
  <2>1. DOMAIN s = 0 .. m - 1
    BY <1>1
  <2>2. QED
    BY <1>1, <1>3, <1>7, <2>1
<1>9. \A j \in 0 .. end - 1 :
        (IF j < m THEN s[j] ELSE Keccak!LastBytes[j - m]) = SpongeByte(end, j)
  <2>1. SUFFICES ASSUME NEW j \in 0 .. end - 1
                 PROVE  (IF j < m THEN s[j] ELSE Keccak!LastBytes[j - m])
                          = SpongeByte(end, j)
    OBVIOUS
  <2>2. CASE j < m
    BY <1>1, <2>2 DEF SpongeByte
  <2>3. CASE j >= m
    <3>1. /\ j - m \in 0 .. rate - 1 /\ m + (j - m) = j
          /\ j - m < mlen <=> j < total
          /\ j - m = mlen <=> j = total
          /\ j - m = rate - 1 <=> j = end - 1
      BY <1>1, <2>3
    <3>2. CASE j < total
      <4>1. /\ j - m < mlen /\ ~(j - m >= mlen)
            /\ j - m \in 0 .. rate - 1
        BY <1>1, <3>1, <3>2
      <4>2. Keccak!LastBytes[j - m] = Keccak!MsgByte(m + (j - m))
        BY <1>4, <4>1
      <4>3. QED
        BY <1>1, <2>3, <3>1, <3>2, <4>2 DEF SpongeByte
    <3>3. CASE j >= total /\ j = end - 1
      <4>1. /\ j - m = rate - 1 /\ j - m >= mlen /\ ~(j - m < mlen)
            /\ j - m \in 0 .. rate - 1
        BY <1>1, <2>3, <3>1, <3>3
      <4>2. Keccak!LastBytes[j - m] =
              Keccak!Byte((IF j - m = mlen THEN mode.p ELSE 0) + 128)
        BY <1>4, <4>1
      <4>3. QED
        BY <1>1, <2>3, <3>1, <3>3, <4>2 DEF SpongeByte
    <3>4. CASE j >= total /\ j # end - 1
      <4>1. /\ j - m # rate - 1 /\ ~(j - m < mlen)
            /\ j - m \in 0 .. rate - 1
        BY <1>1, <2>3, <3>1, <3>4
      <4>2. Keccak!LastBytes[j - m] =
              Keccak!Byte(IF j - m = mlen THEN mode.p ELSE 0)
        BY <1>4, <4>1
      <4>3. CASE j = total
        <5>1. mode.p + 0 = mode.p
          <6>1. mode.p \in 1..127
            BY SpongeModes DEF SpongeIInv
          <6>2. QED
            BY <6>1
        <5>2. SpongeByte(end, j) = Keccak!Byte(mode.p + 0)
          BY <3>4, <4>3 DEF SpongeByte
        <5>3. Keccak!LastBytes[j - m] = Keccak!Byte(mode.p)
          BY <3>1, <4>2, <4>3
        <5>4. QED
          BY <1>1, <2>3, <5>1, <5>2, <5>3
      <4>4. CASE j # total
        BY <1>1, <2>3, <3>1, <3>4, <4>2, <4>4 DEF SpongeByte
      <4>5. QED
        BY <4>3, <4>4
    <3>5. QED
      BY <1>1, <2>3, <3>2, <3>3, <3>4
  <2>4. QED
    BY <1>1, <2>2, <2>3
<1>10. s' = [j \in 0 .. end - 1 |-> SpongeByte(end, j)]
  BY <1>8, <1>9
<1>11. SpongeEnd' = end
  BY <1>2, <1>6 DEF SpongeEnd
<1>12. \A j : SpongeByte(SpongeEnd, j)' = SpongeByte(end, j)
  BY <1>2, <1>11 DEF SpongeByte, Keccak!MsgByte, Keccak!Byte
<1>13. s' = [j \in 0 .. SpongeEnd' - 1 |-> SpongeByte(SpongeEnd, j)']
  BY <1>10, <1>11, <1>12
<1>14. total < end /\ end <= total + rate
  BY <1>1
<1>15. QED
  BY <1>2, <1>5, <1>11, <1>13, <1>14
  DEF SpongeIInv, SpongeAbsorbInv, SpongePadInv

LEMMA SpongeSqueezeIInv ==
  ASSUME Keccak!KeccakAssumption, SpongeIInv, Keccak!Squeeze
  PROVE  SpongeIInv'
<1>1. /\ mode' = mode /\ total' = total /\ keccakPc = "squeeze"
      /\ keccakPc' = "done" /\ perms' = perms + 1 /\ s' = s
      /\ mlen' = mlen /\ m' = m /\ Keccak!r' = Keccak!r
  BY DEF Keccak!Squeeze, Keccak!r
<1>2. SpongeTypeInv'
  BY <1>1 DEF SpongeIInv, SpongeTypeInv
<1>3. SpongeEnd' = SpongeEnd
  BY <1>1 DEF SpongeEnd
<1>4. \A j : SpongeByte(SpongeEnd, j)' = SpongeByte(SpongeEnd, j)
  BY <1>1, <1>3 DEF SpongeByte, Keccak!MsgByte, Keccak!Byte
<1>5. QED
  BY <1>1, <1>2, <1>3, <1>4 DEF SpongeIInv, SpongeAbsorbInv, SpongePadInv

LEMMA SpongeStutterIInv ==
  ASSUME SpongeIInv, UNCHANGED Keccak!vars
  PROVE  SpongeIInv'
<1>1. /\ mode' = mode /\ total' = total /\ keccakPc' = keccakPc
      /\ perms' = perms /\ s' = s /\ mlen' = mlen /\ m' = m
      /\ Keccak!r' = Keccak!r
  BY DEF Keccak!vars, Keccak!r
<1>2. SpongeEnd' = SpongeEnd
  BY <1>1 DEF SpongeEnd
<1>3. \A j : SpongeByte(SpongeEnd, j)' = SpongeByte(SpongeEnd, j)
  BY <1>1, <1>2 DEF SpongeByte, Keccak!MsgByte, Keccak!Byte
<1>4. QED
  BY <1>1, <1>2, <1>3
  DEF SpongeIInv, SpongeTypeInv, SpongeAbsorbInv, SpongePadInv,
      Keccak!MsgByte

(* keccak_absorb keeps whole blocks of the message in the state until the  *)
(* end of it, which is padded in the last block.                           *)
THEOREM SpongeInductive ==
  ASSUME Keccak!KeccakAssumption
  PROVE  Keccak!Spec => []SpongeIInv
<1>1. Keccak!Init => SpongeIInv
  BY SpongeInitIInv
<1>2. SpongeIInv /\ [Keccak!Next]_(Keccak!vars) => SpongeIInv'
  BY SpongeBlockIInv, SpongeLastIInv, SpongeSqueezeIInv, SpongeStutterIInv
  DEF Keccak!Next
<1>3. QED
  BY <1>1, <1>2, PTL DEF Keccak!Spec

(* What the output of the sponge depends on is the message, the byte that  *)
(* separates its uses, zeros and the bit at the very end.                  *)
THEOREM SpongePadded ==
  ASSUME Keccak!KeccakAssumption
  PROVE  Keccak!Spec => []Keccak!AbsorbedPadded
<1>1. SpongeIInv => Keccak!AbsorbedPadded
  BY DEF SpongeIInv, SpongePadInv, SpongeEnd, SpongeByte,
         Keccak!AbsorbedPadded
<1>2. QED
  BY <1>1, SpongeInductive, PTL

(* Whatever they are called with, and independently of each other, both    *)
(* hashes take in the message as their standard pads it.                   *)
THEOREM HashesPadded ==
  ASSUME Sha!ShaAssumption, Keccak!KeccakAssumption
  PROVE  Sha!Spec /\ Keccak!Spec => []PaddedMessage
<1>1. Sha!PaddedMessage /\ Keccak!AbsorbedPadded => PaddedMessage
  BY DEF PaddedMessage
<1>2. QED
  BY <1>1, ShaPadded, SpongePadded, PTL


(***************************************************************************)
(* AES in counter mode, of AesCtrPrf.                                      *)
(***************************************************************************)

(* Where the counter stands: between calls the bytes past the cursor are   *)
(* still owed; inside a call all blocks encrypted have gone to the caller. *)
CursorInv ==
  /\ ctr + rem = MaxInvocations
  /\ pc = "idle" => /\ delivered + (BlockBytes - pos) = ctr * BlockBytes
                    /\ pos < BlockBytes => buffered = ctr - 1
  /\ pc # "idle" => /\ delivered + idx = ctr * BlockBytes
                    /\ pos = 0
                    /\ idx <= len
                    /\ len \in Lens
  /\ pc = "overused" => rem = 0

(* What is in the caller's buffer: the stream from the first byte of the   *)
(* call on, as far as the call has come.                                   *)
OutInv ==
  /\ pc = "idle" =>
       \A j \in 0..MaxLen-1 :
         out[j] = IF j < len THEN delivered - len + j ELSE Unwritten
  /\ pc # "idle" =>
       \A j \in 0..MaxLen-1 :
         out[j] = IF j < idx THEN delivered + j ELSE Unwritten

IInv == TypeOK /\ CursorInv /\ OutInv

USE AesAssumption

(* A buffer stays a buffer when it is written to. *)
LEMMA WriteType ==
  ASSUME NEW buf \in [0..MaxLen-1 -> Int],
         NEW at \in Int, NEW b \in Int, NEW o \in Int, NEW k \in Int
  PROVE  /\ Write(buf, at, b, o, k) \in [0..MaxLen-1 -> Int]
         /\ \A j \in 0..MaxLen-1 :
              Write(buf, at, b, o, k)[j] =
                IF at <= j /\ j < at + k THEN b * BlockBytes + o + (j - at)
                                         ELSE buf[j]
<1>1. b * BlockBytes \in Int
  OBVIOUS
<1>2. QED
  BY <1>1 DEF Write

LEMMA FreshType ==
  /\ Fresh \in [0..MaxLen-1 -> Int]
  /\ \A j \in 0..MaxLen-1 : Fresh[j] = Unwritten
BY DEF Fresh, Unwritten

(* The two facts about products that the accounting needs. *)
LEMMA NextBlock ==
  ASSUME NEW c \in Int
  PROVE  (c + 1) * BlockBytes = c * BlockBytes + BlockBytes
OBVIOUS

LEMMA BlocksMonotone ==
  ASSUME NEW c \in Nat, NEW d \in Nat, c <= d
  PROVE  c * BlockBytes <= d * BlockBytes
OBVIOUS

LEMMA InitIInv == Init => IInv
BY FreshType DEF Init, IInv, TypeOK, CursorInv, OutInv, NoBlock, Failures

LEMMA GetBufferedIInv ==
  ASSUME IInv, NEW k \in Lens, GetBuffered(k)
  PROVE  IInv'
<1> USE DEF IInv, GetBuffered
<1>1. k \in 0..MaxLen
  OBVIOUS
<1>2. /\ out' \in [0..MaxLen-1 -> Int]
      /\ \A j \in 0..MaxLen-1 :
            out'[j] = IF j < k THEN buffered * BlockBytes + pos + j
                                   ELSE Unwritten
  BY <1>1, WriteType, FreshType DEF TypeOK
<1>3. TypeOK'
  BY <1>1, <1>2 DEF TypeOK
<1>4. CursorInv'
  BY <1>1 DEF CursorInv, TypeOK
<1>5. ASSUME k > 0
      PROVE  buffered * BlockBytes + pos = delivered
  <2>1. buffered = ctr - 1 /\ delivered + (BlockBytes - pos) = ctr * BlockBytes
    BY <1>1, <1>5 DEF CursorInv, TypeOK
  <2>2. buffered * BlockBytes + BlockBytes = ctr * BlockBytes
    BY <2>1, NextBlock DEF TypeOK
  <2>3. buffered * BlockBytes \in Int
    BY DEF TypeOK
  <2>4. QED
    BY <2>1, <2>2, <2>3 DEF TypeOK
<1>6. OutInv'
  <2>1. ASSUME NEW j \in 0..MaxLen-1
        PROVE  out'[j] = IF j < k THEN delivered + j ELSE Unwritten
    BY <1>1, <1>2, <1>5
  <2>2. QED
    BY <1>1, <2>1 DEF OutInv, TypeOK
<1>7. QED
  BY <1>3, <1>4, <1>6

LEMMA GetRefillIInv ==
  ASSUME IInv, NEW k \in Lens, GetRefill(k)
  PROVE  IInv'
<1> USE DEF IInv, GetRefill
<1>1. k \in 0..MaxLen /\ BlockBytes - pos \in 0..k
  BY DEF TypeOK
<1>2. /\ out' \in [0..MaxLen-1 -> Int]
      /\ \A j \in 0..MaxLen-1 :
           out'[j] = IF j < BlockBytes - pos
                     THEN buffered * BlockBytes + pos + j ELSE Unwritten
  BY <1>1, WriteType, FreshType DEF TypeOK
<1>3. TypeOK'
  BY <1>1, <1>2 DEF TypeOK
<1>4. CursorInv'
  BY <1>1 DEF CursorInv, TypeOK
<1>5. ASSUME pos < BlockBytes
      PROVE  buffered * BlockBytes + pos = delivered
  <2>1. buffered = ctr - 1 /\ delivered + (BlockBytes - pos) = ctr * BlockBytes
    BY <1>5 DEF CursorInv, TypeOK
  <2>2. buffered * BlockBytes + BlockBytes = ctr * BlockBytes
    BY <2>1, NextBlock DEF TypeOK
  <2>3. buffered * BlockBytes \in Int
    BY DEF TypeOK
  <2>4. QED
    BY <2>1, <2>2, <2>3 DEF TypeOK
<1>6. OutInv'
  <2>1. ASSUME NEW j \in 0..MaxLen-1
        PROVE  out'[j] = IF j < idx' THEN delivered' + j ELSE Unwritten
    <3>1. buffered * BlockBytes \in Int /\ pos \in Int /\ delivered \in Int
      BY DEF TypeOK
    <3>2. CASE j < BlockBytes - pos
      <4>1. out'[j] = buffered * BlockBytes + pos + j
        BY <1>2, <3>2
      <4>2. buffered * BlockBytes + pos = delivered
        BY <1>5, <3>1, <3>2
      <4>3. QED
        BY <3>1, <3>2, <4>1, <4>2
    <3>3. CASE ~(j < BlockBytes - pos)
      BY <1>2, <3>3
    <3>4. QED
      BY <3>2, <3>3
  <2>2. QED
    BY <2>1 DEF OutInv
<1>7. QED
  BY <1>3, <1>4, <1>6

LEMMA FullBlockIInv ==
  ASSUME IInv, FullBlock
  PROVE  IInv'
<1> USE DEF IInv, FullBlock, PerformAes
<1>1. idx + BlockBytes \in 0..len
  BY DEF TypeOK
<1>2. /\ out' \in [0..MaxLen-1 -> Int]
      /\ \A j \in 0..MaxLen-1 :
           out'[j] = IF idx <= j /\ j < idx + BlockBytes
                     THEN ctr * BlockBytes + 0 + (j - idx) ELSE out[j]
  <2>1. /\ out \in [0..MaxLen-1 -> Int] /\ idx \in Int /\ ctr \in Int
        /\ 0 \in Int /\ BlockBytes \in Int
    BY DEF TypeOK
  <2>2. out' = Write(out, idx, ctr, 0, BlockBytes)
    OBVIOUS
  <2>3. /\ Write(out, idx, ctr, 0, BlockBytes) \in [0..MaxLen-1 -> Int]
        /\ \A j \in 0..MaxLen-1 :
             Write(out, idx, ctr, 0, BlockBytes)[j] =
               IF idx <= j /\ j < idx + BlockBytes
               THEN ctr * BlockBytes + 0 + (j - idx) ELSE out[j]
    BY <2>1, WriteType
  <2>4. QED
    BY <2>2, <2>3
<1>3. delivered + idx = ctr * BlockBytes /\ pos = 0 /\ idx <= len
  BY DEF CursorInv
<1>4. TypeOK'
  BY <1>1, <1>2 DEF TypeOK, CursorInv
<1>5. CursorInv'
  <2>1. (ctr + 1) * BlockBytes = ctr * BlockBytes + BlockBytes
    BY NextBlock DEF TypeOK
  <2>2. ctr * BlockBytes \in Int
    BY DEF TypeOK
  <2>3. QED
    BY <1>1, <1>3, <2>1, <2>2 DEF CursorInv, TypeOK
<1>6. OutInv'
  <2>1. ASSUME NEW j \in 0..MaxLen-1
        PROVE  out'[j] = IF j < idx' THEN delivered' + j ELSE Unwritten
    <3>1. ctr * BlockBytes \in Int /\ idx \in Nat /\ delivered \in Int
      BY DEF TypeOK
    <3>2. out[j] = IF j < idx THEN delivered + j ELSE Unwritten
      BY DEF OutInv
    <3>3. ctr * BlockBytes + 0 + (j - idx) = delivered + j
      BY <1>3, <3>1
    <3>4. QED
      BY <1>2, <3>1, <3>2, <3>3
  <2>2. QED
    BY <2>1 DEF OutInv
<1>7. QED
  BY <1>4, <1>5, <1>6

LEMMA TailBlockIInv ==
  ASSUME IInv, TailBlock
  PROVE  IInv'
<1> USE DEF IInv, TailBlock, PerformAes
<1>1. /\ delivered + idx = ctr * BlockBytes
      /\ pos = 0
      /\ len - idx \in 0..BlockBytes-1
  BY DEF CursorInv, TypeOK
<1>2. /\ out' \in [0..MaxLen-1 -> Int]
      /\ \A j \in 0..MaxLen-1 :
           out'[j] = IF idx <= j /\ j < idx + (len - idx)
                     THEN ctr * BlockBytes + 0 + (j - idx) ELSE out[j]
  BY WriteType DEF TypeOK
<1>3. TypeOK'
  BY <1>1, <1>2 DEF TypeOK, CursorInv
<1>4. CursorInv'
  <2>1. (ctr + 1) * BlockBytes = ctr * BlockBytes + BlockBytes
    BY NextBlock DEF TypeOK
  <2>2. ctr * BlockBytes \in Int
    BY DEF TypeOK
  <2>3. QED
    BY <1>1, <2>1, <2>2 DEF CursorInv, TypeOK
<1>5. OutInv'
  <2>1. ASSUME NEW j \in 0..MaxLen-1
        PROVE  out'[j] = IF j < len' THEN delivered' - len' + j ELSE Unwritten
    <3>1. /\ ctr * BlockBytes \in Int /\ idx \in Nat
          /\ len \in Nat /\ delivered \in Int
      BY DEF TypeOK
    <3>2. out[j] = IF j < idx THEN delivered + j ELSE Unwritten
      BY DEF OutInv
    <3>3. ctr * BlockBytes + 0 + (j - idx) = delivered + j
      BY <1>1, <3>1
    <3>4. QED
      BY <1>1, <1>2, <3>1, <3>2, <3>3
  <2>2. QED
    BY <2>1 DEF OutInv
<1>6. QED
  BY <1>3, <1>4, <1>5

LEMMA FailureIInv ==
  ASSUME IInv, OverUsed \/ AesError
  PROVE  IInv'
<1>1. /\ UNCHANGED <<ctr, rem, buffered, pos, len, idx, out, delivered>>
      /\ pc = "blocks" /\ pc' \in Failures /\ (pc' = "overused" => rem = 0)
  BY DEF OverUsed, AesError, Failures
<1>2. TypeOK'
  BY <1>1 DEF IInv, TypeOK
<1>3. CursorInv'
  BY <1>1 DEF IInv, CursorInv, Failures
<1>4. OutInv'
  BY <1>1 DEF IInv, OutInv, Failures
<1>5. QED
  BY <1>2, <1>3, <1>4 DEF IInv

LEMMA NextIInv ==
  ASSUME IInv, [Next]_vars
  PROVE  IInv'
<1>1. ASSUME NEW k \in Lens, GetBuffered(k)
      PROVE  IInv'
  BY <1>1, GetBufferedIInv
<1>2. ASSUME NEW k \in Lens, GetRefill(k)
      PROVE  IInv'
  BY <1>2, GetRefillIInv
<1>3. CASE FullBlock
  BY <1>3, FullBlockIInv
<1>4. CASE TailBlock
  BY <1>4, TailBlockIInv
<1>5. CASE OverUsed \/ AesError
  BY <1>5, FailureIInv
<1>6. CASE UNCHANGED vars
  BY <1>6 DEF vars, IInv, TypeOK, CursorInv, OutInv
<1>7. QED
  BY <1>1, <1>2, <1>3, <1>4, <1>5, <1>6 DEF Next, Call, Step

(* The inductive invariant holds throughout. *)
THEOREM Inductive == Spec => []IInv
<1>1. Init => IInv
  BY InitIInv
<1>2. IInv /\ [Next]_vars => IInv'
  BY NextIInv
<1>3. QED
  BY <1>1, <1>2, PTL DEF Spec

(* Types: among them that the counter never exceeds the budget and that    *)
(* the cursor never leaves the buffer.                                     *)
THEOREM TypeCorrect == Spec => []TypeOK
<1>1. IInv => TypeOK
  BY DEF IInv
<1>2. QED
  BY <1>1, Inductive, PTL

(* For every block size and every sequence of requests, every keystream    *)
(* byte encrypted has been handed out once or is still in the buffer.      *)
THEOREM Accounted == Spec => []KeystreamAccounted
<1>1. IInv => KeystreamAccounted
  BY DEF IInv, CursorInv, KeystreamAccounted
<1>2. QED
  BY <1>1, Inductive, PTL

(* No call writes past the bytes it was asked for. *)
THEOREM WithinRequest == Spec => []WritesWithinRequest
<1>1. IInv => WritesWithinRequest
  <2>1. SUFFICES ASSUME IInv, NEW j \in len..MaxLen-1
                 PROVE  out[j] = Unwritten
    BY DEF WritesWithinRequest
  <2>2. j \in 0..MaxLen-1 /\ ~(j < len)
    BY <2>1 DEF IInv, TypeOK
  <2>3. CASE pc = "idle"
    BY <2>1, <2>2, <2>3 DEF IInv, OutInv
  <2>4. CASE pc # "idle"
    <3>1. ~(j < idx)
      BY <2>1, <2>2, <2>4 DEF IInv, CursorInv, TypeOK
    <3>2. QED
      BY <2>1, <2>2, <2>4, <3>1 DEF IInv, OutInv
  <2>5. QED
    BY <2>3, <2>4
<1>2. QED
  BY <1>1, Inductive, PTL

(* The invocation budget is neither exceeded nor wasted. *)
THEOREM Budget == Spec => []BudgetExact
<1>1. IInv => BudgetExact
  <2>1. SUFFICES ASSUME IInv
                 PROVE  BudgetExact
    OBVIOUS
  <2>2. /\ ctr * BlockBytes \in Int
        /\ MaxInvocations * BlockBytes \in Int
        /\ ctr * BlockBytes <= MaxInvocations * BlockBytes
    BY <2>1, BlocksMonotone DEF IInv, TypeOK
  <2>3. CASE pc = "idle"
    BY <2>1, <2>2, <2>3 DEF IInv, CursorInv, TypeOK, BudgetExact
  <2>4. CASE pc # "idle"
    <3>1. delivered + idx = ctr * BlockBytes /\ idx <= len
      BY <2>1, <2>4 DEF IInv, CursorInv
    <3>2. pc = "overused" => ctr = MaxInvocations
      BY <2>1 DEF IInv, CursorInv, TypeOK
    <3>3. QED
      BY <2>1, <2>2, <3>1, <3>2 DEF IInv, TypeOK, BudgetExact
  <2>5. QED
    BY <2>3, <2>4
<1>2. QED
  BY <1>1, Inductive, PTL
-----------------------------------------------------------------------------
(* The refinement: the chunk the caller may look at, in the two states     *)
(* where a caller looks.                                                   *)
Chunk == [j \in 0..(IF pc = "idle" THEN len ELSE 0)-1 |-> out[j]]

ChunkInv ==
  Chunk = IF pc = "idle" THEN Stream!Segment(delivered - len, len)
                         ELSE Stream!NoChunk

LEMMA ChunkIs == IInv => ChunkInv
<1>1. SUFFICES ASSUME IInv
               PROVE  ChunkInv
  OBVIOUS
<1>2. CASE pc = "idle"
  <2>1. \A j \in 0..len-1 : out[j] = (delivered - len) + j
    BY <1>1, <1>2 DEF IInv, TypeOK, OutInv
  <2>2. QED
    BY <1>2, <2>1 DEF Chunk, ChunkInv, Stream!Segment
<1>3. CASE pc # "idle"
  BY <1>3 DEF Chunk, ChunkInv, Stream!Segment, Stream!NoChunk
<1>4. QED
  BY <1>2, <1>3

(* What PrfStream calls the status of the generator. *)
Status == CASE pc = "idle" -> "idle"
            [] pc = "blocks" -> "busy"
            [] OTHER -> "failed"

LEMMA StepRefines ==
  ASSUME IInv, ChunkInv, ChunkInv', [Next]_vars
  PROVE  [Stream!Next]_(Stream!vars)
<1> USE DEF ChunkInv
<1>1. ASSUME NEW k \in Lens, GetBuffered(k)
      PROVE  Stream!Deliver(k)
  <2>1. k \in Nat /\ delivered \in Nat /\ delivered' - len' = delivered
    BY <1>1 DEF GetBuffered, IInv, TypeOK
  <2>2. Chunk' = Stream!Segment(delivered, k)
    BY <1>1, <2>1 DEF GetBuffered
  <2>3. QED
    BY <1>1, <2>2 DEF GetBuffered, Stream!Deliver, Chunk
<1>2. ASSUME NEW k \in Lens, GetRefill(k)
      PROVE  Stream!Begin
  <2>1. Chunk' = Stream!NoChunk
    BY <1>2 DEF GetRefill
  <2>2. QED
    BY <1>2, <2>1 DEF GetRefill, Stream!Begin, Chunk
<1>3. ASSUME FullBlock
      PROVE  UNCHANGED Stream!vars
  <2>1. Chunk' = Chunk /\ pc' = pc /\ delivered' = delivered
    BY <1>3 DEF FullBlock
  <2>2. Status' = Status
    BY <2>1 DEF Status
  <2>3. QED
    BY <2>1, <2>2 DEF Stream!vars, Chunk, Status
<1>4. ASSUME TailBlock
      PROVE  \E k \in Lens : Stream!Deliver(k)
  <2>1. /\ len \in Lens /\ len' = len
        /\ delivered \in Nat /\ len \in Nat /\ delivered' = delivered + len
    BY <1>4 DEF TailBlock, IInv, TypeOK, CursorInv
  <2>2. Chunk' = Stream!Segment(delivered, len)
    BY <1>4, <2>1 DEF TailBlock
  <2>3. Stream!Deliver(len)
    BY <1>4, <2>1, <2>2 DEF TailBlock, Stream!Deliver, Chunk
  <2>4. QED
    BY <2>1, <2>3 DEF Stream!Deliver
<1>5. ASSUME OverUsed \/ AesError
      PROVE  Stream!GiveUp
  <2>1. pc = "blocks" /\ pc' \in Failures /\ delivered' = delivered
    BY <1>5 DEF OverUsed, AesError, Failures
  <2>2. Chunk' = Stream!NoChunk
    BY <2>1 DEF Failures
  <2>3. QED
    BY <2>1, <2>2 DEF Stream!GiveUp, Chunk, Failures
<1>6. CASE UNCHANGED vars
  <2>1. Chunk' = Chunk /\ Status' = Status /\ delivered' = delivered
    BY <1>6 DEF vars, Chunk, Status
  <2>2. QED
    BY <2>1 DEF Stream!vars, Chunk, Status
<1>7. QED
  BY <1>1, <1>2, <1>3, <1>4, <1>5, <1>6 DEF Next, Call, Step, Stream!Next

(* The AES generator implements PrfStream: every step of it is a step of   *)
(* PrfStream or a stutter, so whatever mixture of buffered bytes, whole    *)
(* blocks and tails serves a call, the caller gets the next len bytes of   *)
(* the keystream.                                                          *)
THEOREM Refinement == Spec => RefinesStream
<1>1. Init => Stream!Init
  <2>1. SUFFICES ASSUME Init
                 PROVE  Stream!Init
    OBVIOUS
  <2>2. Chunk = Stream!NoChunk
    BY <2>1 DEF Init, Chunk, Stream!NoChunk, Stream!Segment
  <2>3. QED
    BY <2>1, <2>2 DEF Init, Stream!Init, Chunk
<1>2. IInv => ChunkInv
  BY ChunkIs
<1>3. IInv /\ ChunkInv /\ ChunkInv' /\ [Next]_vars
        => [Stream!Next]_(Stream!vars)
  BY StepRefines
<1>4. QED
  BY <1>1, <1>2, <1>3, Inductive, PTL DEF Spec, RefinesStream, Stream!Spec
(***************************************************************************)
(* SHAKE, of ShakePrf.                                                     *)
(***************************************************************************)

ShakeTypeInv ==
  /\ squeezed \in Nat
  /\ shakePos \in Int
  /\ shakeRem \in Nat
  /\ failed \in BOOLEAN
  /\ shakeDelivered \in Nat

(* The budget, and why nothing is served once it is spent: the squeeze     *)
(* that spends it leaves the cursor behind its first request.              *)
ShakeBudgetInv ==
  /\ squeezed + shakeRem = MaxInvocations
  /\ shakeRem = 0 => shakePos = RequestBytes
  /\ failed => shakeRem = 0

ShakeIInv == ShakeTypeInv /\ Shake!SqueezedAccounted /\ ShakeBudgetInv

(* A cursor that stands between two requests and leaves no room for one    *)
(* stands at the end of the block.                                         *)
LEMMA ShakeNothingLeft ==
  ASSUME Shake!ShakeAssumption,
         NEW k \in 0..BlockRequests, RequestBytes + k * RequestBytes > Rate
  PROVE  k * RequestBytes = Rate
<1>1. CASE k = BlockRequests
  BY <1>1 DEF Shake!ShakeAssumption
<1>2. CASE k + 1 <= BlockRequests
  <2>1. (k + 1) * RequestBytes <= BlockRequests * RequestBytes
    BY <1>2 DEF Shake!ShakeAssumption
  <2>2. (k + 1) * RequestBytes = RequestBytes + k * RequestBytes
    BY DEF Shake!ShakeAssumption
  <2>3. QED
    BY <2>1, <2>2 DEF Shake!ShakeAssumption
<1>3. QED
  BY <1>1, <1>2 DEF Shake!ShakeAssumption

LEMMA ShakeInitIInv ==
  ASSUME Shake!ShakeAssumption, Shake!Init
  PROVE  ShakeIInv
<1>1. Rate \in Nat /\ 0 * Rate = 0 /\ shakePos = BlockRequests * RequestBytes
  BY DEF Shake!Init, Shake!ShakeAssumption
<1>2. BlockRequests \in 0..BlockRequests
  BY DEF Shake!ShakeAssumption
<1>3. Shake!SqueezedAccounted
  BY <1>1, <1>2 DEF Shake!Init, Shake!SqueezedAccounted
<1>4. ~failed /\ failed \in BOOLEAN
  BY DEF Shake!Init
<1>5. /\ squeezed = 0 /\ shakeRem = MaxInvocations
      /\ shakePos = Rate /\ shakeDelivered = 0
      /\ MaxInvocations \in Nat \ {0}
  BY DEF Shake!Init, Shake!ShakeAssumption
<1>6. ShakeTypeInv /\ ShakeBudgetInv
  BY <1>1, <1>4, <1>5 DEF ShakeTypeInv, ShakeBudgetInv
<1>7. QED
  BY <1>3, <1>6 DEF ShakeIInv

(* What the two ways to serve a request do to the books. *)
LEMMA ShakeBufferedStep ==
  ASSUME Shake!ShakeAssumption, ShakeIInv, Shake!GetBuffered
  PROVE  ShakeIInv'
<1>1. PICK k \in 0..BlockRequests : shakePos = k * RequestBytes
  BY DEF ShakeIInv, Shake!SqueezedAccounted
<1>2. shakePos' = (k + 1) * RequestBytes
  BY <1>1 DEF Shake!GetBuffered, Shake!ShakeAssumption
<1>3. k # BlockRequests
  BY <1>1 DEF Shake!GetBuffered, Shake!ShakeAssumption
<1>4. k + 1 \in 0..BlockRequests
  BY <1>3 DEF Shake!ShakeAssumption
<1>5. /\ shakePos' = shakePos + RequestBytes
      /\ shakeDelivered' = shakeDelivered + RequestBytes
      /\ squeezed' = squeezed /\ shakeRem' = shakeRem
      /\ shakeRem # 0 /\ failed' = failed
  BY DEF Shake!GetBuffered
<1>6. Rate \in Nat /\ RequestBytes \in Nat /\ squeezed * Rate \in Int
  BY DEF Shake!ShakeAssumption, ShakeIInv, ShakeTypeInv
<1>7. Shake!SqueezedAccounted'
  BY <1>2, <1>4, <1>5, <1>6 DEF ShakeIInv, ShakeTypeInv, Shake!SqueezedAccounted
<1>8. QED
  BY <1>5, <1>6, <1>7 DEF ShakeIInv, ShakeTypeInv, ShakeBudgetInv

LEMMA ShakeSqueezedStep ==
  ASSUME Shake!ShakeAssumption, ShakeIInv, Shake!GetSqueezed
  PROVE  /\ ShakeIInv'
         /\ shakePos = Rate
<1>1. PICK k \in 0..BlockRequests : shakePos = k * RequestBytes
  BY DEF ShakeIInv, Shake!SqueezedAccounted
<1>2. shakePos = Rate
  BY <1>1, ShakeNothingLeft DEF Shake!GetSqueezed
<1>3. /\ shakePos' = RequestBytes
      /\ shakeDelivered' = shakeDelivered + RequestBytes
      /\ squeezed' = squeezed + 1 /\ shakeRem' = shakeRem - 1 /\ shakeRem # 0
      /\ failed' = failed /\ ~failed
  BY DEF Shake!GetSqueezed
<1>4. /\ Rate \in Nat /\ RequestBytes \in Nat /\ squeezed * Rate \in Int
      /\ (squeezed + 1) * Rate = squeezed * Rate + Rate
  BY DEF Shake!ShakeAssumption, ShakeIInv, ShakeTypeInv
<1>5. 1 \in 0..BlockRequests /\ 1 * RequestBytes = RequestBytes
  BY DEF Shake!ShakeAssumption
<1>6. shakeDelivered = squeezed * Rate
  BY <1>2, <1>4 DEF ShakeIInv, ShakeTypeInv, Shake!SqueezedAccounted
<1>7. shakeDelivered' + (Rate - shakePos') = squeezed' * Rate
  BY <1>3, <1>4, <1>6
<1>8. Shake!SqueezedAccounted'
  BY <1>3, <1>5, <1>7 DEF Shake!SqueezedAccounted
<1>9. QED
  BY <1>2, <1>3, <1>4, <1>8 DEF ShakeIInv, ShakeTypeInv, ShakeBudgetInv

LEMMA ShakeNextIInv ==
  ASSUME Shake!ShakeAssumption, ShakeIInv, [Shake!Next]_(Shake!vars)
  PROVE  ShakeIInv'
<1>1. ASSUME Shake!OverUsed \/ UNCHANGED Shake!vars
      PROVE  ShakeIInv'
  <2>1. UNCHANGED <<squeezed, shakePos, shakeRem, shakeDelivered>>
    BY <1>1 DEF Shake!OverUsed, Shake!vars
  <2>2. failed' \in BOOLEAN /\ (failed' => failed \/ shakeRem = 0)
    <3>1. CASE Shake!OverUsed
      BY <3>1 DEF Shake!OverUsed
    <3>2. CASE UNCHANGED Shake!vars
      <4>1. failed' = failed
        BY <3>2 DEF Shake!vars
      <4>2. failed \in BOOLEAN
        BY DEF ShakeIInv, ShakeTypeInv
      <4>3. QED
        BY <4>1, <4>2
    <3>3. QED
      BY <1>1, <3>1, <3>2
  <2>3. ShakeTypeInv'
    BY <2>1, <2>2 DEF ShakeIInv, ShakeTypeInv
  <2>4. Shake!SqueezedAccounted'
    BY <2>1 DEF ShakeIInv, Shake!SqueezedAccounted
  <2>5. ShakeBudgetInv'
    BY <2>1, <2>2 DEF ShakeIInv, ShakeBudgetInv
  <2>6. QED
    BY <2>3, <2>4, <2>5 DEF ShakeIInv
<1>2. QED
  BY <1>1, ShakeBufferedStep, ShakeSqueezedStep DEF Shake!Next

(* The books agree in every reachable state. *)
THEOREM ShakeInductive ==
  ASSUME Shake!ShakeAssumption
  PROVE  Shake!Spec => []ShakeIInv
<1>1. Shake!Init => ShakeIInv
  BY ShakeInitIInv
<1>2. ShakeIInv /\ [Shake!Next]_(Shake!vars) => ShakeIInv'
  BY ShakeNextIInv
<1>3. QED
  BY <1>1, <1>2, PTL DEF Shake!Spec

(* No byte is dropped when a new block is squeezed. *)
THEOREM ShakeAccounted ==
  ASSUME Shake!ShakeAssumption
  PROVE  Shake!Spec => []Shake!SqueezedAccounted
<1>1. ShakeIInv => Shake!SqueezedAccounted
  BY DEF ShakeIInv
<1>2. QED
  BY <1>1, ShakeInductive, PTL

(* The last call served is the one that squeezes the last budgeted block. *)
THEOREM ShakeBudget ==
  ASSUME Shake!ShakeAssumption
  PROVE  Shake!Spec => []SqueezeBudgetExact
<1>1. ShakeIInv => SqueezeBudgetExact
  BY DEF ShakeIInv, ShakeTypeInv, ShakeBudgetInv, SqueezeBudgetExact,
         Shake!SqueezeBudgetExact,
         Shake!ShakeAssumption
<1>2. QED
  BY <1>1, ShakeInductive, PTL

LEMMA ShakeStepRefines ==
  ASSUME Shake!ShakeAssumption, ShakeIInv, [Shake!Next]_(Shake!vars)
  PROVE  [Shake!Stream!Next]_(Shake!Stream!vars)
<1>1. CASE Shake!OverUsed
  <2>1. Shake!Nothing = Shake!Stream!NoChunk
    BY DEF Shake!Nothing, Shake!Stream!NoChunk, Shake!Stream!Segment
  <2>2. Shake!Stream!GiveUp
    BY <1>1, <2>1 DEF Shake!OverUsed, Shake!Stream!GiveUp
  <2>3. QED
    BY <2>2 DEF Shake!Stream!Next
<1>2. CASE Shake!GetBuffered
  <2>1. (squeezed - 1) * Rate + shakePos = shakeDelivered
    BY DEF ShakeIInv, ShakeTypeInv, Shake!SqueezedAccounted,
           Shake!ShakeAssumption
  <2>2. Shake!Bytes(squeezed - 1,
  shakePos) = Shake!Stream!Segment(shakeDelivered, RequestBytes)
    BY <2>1 DEF Shake!Bytes, Shake!Stream!Segment
  <2>3. Shake!Stream!Deliver(RequestBytes)
    BY <1>2, <2>2 DEF Shake!GetBuffered, Shake!Stream!Deliver
  <2>4. QED
    BY <2>3 DEF Shake!Stream!Next
<1>3. CASE Shake!GetSqueezed
  <2>1. squeezed * Rate + 0 = shakeDelivered
    BY <1>3, ShakeSqueezedStep
    DEF ShakeIInv, ShakeTypeInv, Shake!SqueezedAccounted, Shake!ShakeAssumption
  <2>2. Shake!Bytes(squeezed, 0) = Shake!Stream!Segment(shakeDelivered,
  RequestBytes)
    BY <2>1 DEF Shake!Bytes, Shake!Stream!Segment
  <2>3. Shake!Stream!Deliver(RequestBytes)
    BY <1>3, <2>2 DEF Shake!GetSqueezed, Shake!Stream!Deliver
  <2>4. QED
    BY <2>3 DEF Shake!Stream!Next
<1>4. CASE UNCHANGED Shake!vars
  BY <1>4 DEF Shake!vars, Shake!Stream!vars
<1>5. QED
  BY <1>1, <1>2, <1>3, <1>4 DEF Shake!Next

(* The SHAKE generator implements PrfStream: each successful call returns  *)
(* the next RequestBytes bytes, whether a block ends between two or not.   *)
THEOREM ShakeRefinement ==
  ASSUME Shake!ShakeAssumption
  PROVE  Shake!Spec => RefinesSqueezedStream
<1>1. Shake!Init => Shake!Stream!Init
  BY DEF Shake!Init, Shake!Nothing, Shake!Stream!Init, Shake!Stream!NoChunk,
         Shake!Stream!Segment
<1>2. ShakeIInv /\ [Shake!Next]_(Shake!vars)
        => [Shake!Stream!Next]_(Shake!Stream!vars)
  BY ShakeStepRefines
<1>3. QED
  BY <1>1, <1>2, ShakeInductive, PTL
  DEF Shake!Spec, RefinesSqueezedStream, Shake!RefinesSqueezedStream,
      Shake!Stream!Spec
================================================================================
