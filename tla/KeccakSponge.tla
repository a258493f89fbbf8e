----------------------------- MODULE KeccakSponge -----------------------------
(***************************************************************************)
(* third_party_src/fips202.c as the library uses it: keccak_absorb, which  *)
(* absorbs a message, pads the end of it in a local array and leaves the   *)
(* permutation of the last block to the first squeeze.  It is called for   *)
(* SHA3-384 and, with the seed, for SHAKE256.  The permutation is left     *)
(* abstract: what is XORed into the state after n permutations is block n. *)
(***************************************************************************)
EXTENDS Integers

CONSTANTS
  Modes,          \* records of rate in bytes, and of the domain-separation byte
  MessageLens     \* lengths of messages

KeccakAssumption ==
  /\ \A f \in Modes : f.rate \in Nat \ {0} /\ f.p \in 1..127
  /\ MessageLens \subseteq Nat

VARIABLES
  mode,       \* the rate r and the byte p of the call
  total,      \* the length of the message
  mlen, m,    \* what is left of it, and where that starts
  s,          \* the state: the bytes XORed into it, by block and position
  perms,      \* how often it was permuted
  pc          \* "absorb", "squeeze", "done"

vars == <<mode, total, mlen, m, s, perms, pc>>

r == mode.rate

(* A byte of the message, or one with a value. *)
MsgByte(j) == [kind |-> "msg", at |-> j]
Byte(v)    == [kind |-> "value", at |-> v]

(* s ^= load64(...) for the r / 8 quad-words of a block. *)
Xored(byte(_)) ==
  [j \in DOMAIN s \cup (perms * r .. perms * r + r - 1) |->
     IF j < perms * r THEN s[j] ELSE byte(j - perms * r)]

(* The local array t: the rest, t[i] = p, and t[r-1] |= 128, which may be  *)
(* the same byte.                                                          *)
LastBytes ==
  LET byte(j) == IF j = mlen THEN mode.p ELSE 0
  IN  [j \in 0..r-1 |-> CASE j < mlen -> MsgByte(m + j)
                          [] j = r - 1 /\ j >= mlen -> Byte(byte(j) + 128)
                          [] OTHER -> Byte(byte(j))]
-----------------------------------------------------------------------------
Init ==
  /\ mode \in Modes
  /\ total \in MessageLens
  /\ mlen = total /\ m = 0
  /\ s = [j \in {} |-> Byte(0)]
  /\ perms = 0
  /\ pc = "absorb"

(* One turn of the loop. *)
AbsorbBlock ==
  /\ pc = "absorb"
  /\ mlen >= r
  /\ s' = Xored(LAMBDA j : MsgByte(m + j))
  /\ perms' = perms + 1
  /\ mlen' = mlen - r
  /\ m' = m + r
  /\ UNCHANGED <<mode, total, pc>>

(* What is left is less than a block, and may be nothing. *)
AbsorbLast ==
  /\ pc = "absorb"
  /\ mlen < r
  /\ s' = Xored(LAMBDA j : LastBytes[j])
  /\ pc' = "squeeze"
  /\ UNCHANGED <<mode, total, mlen, m, perms>>

(* The first block of keccak_squeezeblocks, all that SHA3-384 needs. *)
Squeeze ==
  /\ pc = "squeeze"
  /\ perms' = perms + 1
  /\ pc' = "done"
  /\ UNCHANGED <<mode, total, mlen, m, s>>

Next == AbsorbBlock \/ AbsorbLast \/ Squeeze

Spec == Init /\ [][Next]_vars
-----------------------------------------------------------------------------
(* What the output depends on is the message, the domain-separation byte,  *)
(* zeros and the bit at the very end, of as many whole blocks as were      *)
(* permuted, and as few as hold it: two messages, or the same message for  *)
(* SHA3-384 and for SHAKE256, are never absorbed alike.                    *)
AbsorbedPadded ==
  pc = "done" =>
    LET end == perms * r
        pad(j) == (IF j = total THEN mode.p ELSE 0) + (IF j = end - 1 THEN 128 ELSE 0)
    IN  /\ total < end /\ end <= total + r
        /\ s = [j \in 0..end-1 |-> IF j < total THEN MsgByte(j) ELSE Byte(pad(j))]
=============================================================================
