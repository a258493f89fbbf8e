------------------------------- MODULE Kem_proof -------------------------------
(***************************************************************************)
(* The key encapsulation agrees, rejects and returns all or nothing, for   *)
(* every number of calls, in both builds, whatever the decoder fails on.   *)
(***************************************************************************)
EXTENDS Kem, TLAPS

(* What the program can build: a message, a key pair and a ciphertext. *)
Messages  == {Seed(n, 0) : n \in Nat}
KeyPairs  == {SecretKey(Seed(n, 0), Seed(n, 1)) : n \in Nat}
Honest(m, p) == [c0 |-> C0(p, H(m, p)), c1 |-> C1(m, H(m, p))]
Sent(m, p)   == [pk |-> p, ct |-> Honest(m, p), ss |-> K(m, Honest(m, p))]

(* The message decapsulation ends with, as its three steps compute it. *)
Chosen(key, e, m) == IF e = H(m, key.pk) THEN m ELSE key.sigma

(* d is the outcome of an encapsulation, or that of sigma. *)
Accepted(d) == \E x \in encs : d.ct = x.ct /\ d.sk.pk = x.pk /\ d.ss = x.ss
Rejected(d) == d.ss = K(d.sk.sigma, d.ct)

(* A ciphertext made for the key and decodable gives the sender's secret. *)
Agrees(d) ==
  \A m : /\ d.ct = Honest(m, d.sk.pk)
         /\ <<d.sk.pk, H(m, d.sk.pk)>> \notin undecodable
         => d.ss = K(m, d.ct)

HistoryInv ==
  /\ keys \subseteq KeyPairs
  /\ \A x \in encs : \E m \in Messages : x = Sent(m, x.pk)
  /\ \A d \in decs : /\ d = [sk |-> d.sk, ct |-> d.ct, ss |-> d.ss]
                     /\ d.sk \in KeyPairs
                     /\ Accepted(d) \/ Rejected(d)
                     /\ Agrees(d)

(* What the locals of the running function hold before each of its calls. *)
EncInv ==
  /\ pc = "generate_secret_key" =>
       \E n \in Nat : loc.seeds = <<Seed(n, 0), Seed(n, 1)>>
  /\ pc \in {"enc function_h", "encrypt", "enc function_k"} => loc.m \in Messages
  /\ pc = "encrypt" => loc.e = H(loc.m, loc.pk)
  /\ pc = "enc function_k" => loc.ct = Honest(loc.m, loc.pk)

DecInv ==
  /\ pc \in {"reencrypt", "dec function_h", "dec function_k"} =>
       loc.sk \in KeyPairs /\ loc.ct \in Deliverable
  /\ pc = "reencrypt" => loc.e = Decoded(loc.sk, loc.ct.c0)
  /\ pc = "dec function_h" =>
       /\ loc.e = Decoded(loc.sk, loc.ct.c0)
       /\ loc.m = Unmask(loc.ct.c1, loc.e)
  /\ pc = "dec function_k" =>
       LET e == Decoded(loc.sk, loc.ct.c0)
       IN  loc.m = Chosen(loc.sk, e, Unmask(loc.ct.c1, e))

LocInv ==
  loc = [seeds |-> loc.seeds, sk |-> loc.sk, pk |-> loc.pk,
         m |-> loc.m, e |-> loc.e, ct |-> loc.ct]

(* The buffers of an encapsulation belong together. *)
SentInv ==
  \/ ct = Nothing /\ ssEnc = Nothing
  \/ \E m, p : ct = Honest(m, p) /\ ssEnc = K(m, ct)

IInv ==
  /\ drawn \in Nat
  /\ LocInv
  /\ HistoryInv
  /\ EncInv
  /\ DecInv
  /\ SentInv

(* H has no collisions, and an error that was not hashed is none of its.   *)
LEMMA HashInjective ==
  ASSUME NEW m, NEW p, NEW n, NEW q, H(m, p) = H(n, q)
  PROVE  m = n /\ (bind => p = q)
BY DEF H

LEMMA GarbageIsNoHash ==
  ASSUME NEW m, NEW p, NEW key, NEW c0
  PROVE  [key |-> key, garbage |-> c0] # H(m, p)
BY DEF H

LEMMA SecretInjective ==
  ASSUME NEW m, NEW c, NEW n, NEW d, K(m, c) = K(n, d)
  PROVE  m = n /\ c = d
BY DEF K

(* A message is not a sigma, and a key is known by either of its parts.    *)
LEMMA KeysApart ==
  ASSUME NEW key \in KeyPairs, NEW other \in KeyPairs
  PROVE  /\ key.sigma \notin Messages
         /\ key.pk = other.pk => key = other
         /\ key.sigma = other.sigma => key = other
BY DEF KeyPairs, Messages, SecretKey, PublicKey, Seed

LEMMA MaskedIsNoMessage ==
  ASSUME NEW c1, NEW e
  PROVE  [c1 |-> c1, masked |-> e] \notin Messages
BY DEF Messages, Seed

(* A decodable honest ciphertext gives its message back.                   *)
LEMMA HonestOpens ==
  ASSUME NEW key, NEW m,
         <<key.pk, H(m, key.pk)>> \notin undecodable
  PROVE  LET c == Honest(m, key.pk)
             e == Decoded(key, c.c0)
         IN  Chosen(key, e, Unmask(c.c1, e)) = m
<1> DEFINE c == Honest(m, key.pk)
           h == H(m, key.pk)
<1>1. /\ c.c0.pk = key.pk /\ c.c0.changed = FALSE /\ c.c0.e = h
      /\ c.c1.m = m /\ c.c1.e = h /\ c.c1.changed = FALSE
  BY DEF Honest, C0, C1
<1> HIDE DEF c, h
<1>2. Decoded(key, c.c0) = h
  BY <1>1 DEF Decoded, h
<1>3. Unmask(c.c1, h) = m
  BY <1>1 DEF Unmask
<1>4. Chosen(key, h, m) = m
  BY DEF Chosen, h
<1>5. QED
  BY <1>2, <1>3, <1>4 DEF c

(* What comes out of any ciphertext that can be delivered: the message of  *)
(* an encapsulation of this very ciphertext for this key, or sigma.        *)
LEMMA OpensOrSigma ==
  ASSUME HistoryInv, NEW key, NEW c \in Deliverable
  PROVE  LET e == Decoded(key, c.c0)
             m == Chosen(key, e, Unmask(c.c1, e))
         IN  \/ \E x \in encs : c = x.ct /\ key.pk = x.pk /\ K(m, c) = x.ss
             \/ m = key.sigma
<1> DEFINE e == Decoded(key, c.c0)
           u == Unmask(c.c1, e)
<1>1. PICK a \in encs, b \in encs, x \in BOOLEAN, y \in BOOLEAN :
        c = [c0 |-> [a.ct.c0 EXCEPT !.changed = x],
             c1 |-> [b.ct.c1 EXCEPT !.changed = y]]
  BY DEF Deliverable
<1>2. PICK m \in Messages : a = Sent(m, a.pk)
  BY DEF HistoryInv
<1>3. PICK n \in Messages : b = Sent(n, b.pk)
  BY DEF HistoryInv
<1>4. /\ c.c0 = [pk |-> a.pk, e |-> H(m, a.pk), changed |-> x]
      /\ c.c1 = [m |-> n, e |-> H(n, b.pk), changed |-> y]
  <2>1. a.ct.c0 = C0(a.pk, H(m, a.pk)) /\ b.ct.c1 = C1(n, H(n, b.pk))
    BY <1>2, <1>3 DEF Sent, Honest
  <2>2. QED
    BY <1>1, <2>1 DEF C0, C1
<1>5. CASE e # H(u, key.pk)
  BY <1>5 DEF Chosen
<1>6. CASE e = H(u, key.pk)
  <2>1. e # [key |-> key, garbage |-> c.c0]
    BY <1>6, GarbageIsNoHash
  <2>2. /\ a.pk = key.pk /\ x = FALSE
        /\ e = H(m, a.pk)
    BY <1>4, <2>1 DEF Decoded
  <2>3. u = m
    BY <1>6, <2>2, HashInjective
  <2>4. H(n, b.pk) = e /\ y = FALSE /\ n = m
    BY <1>4, <2>3, MaskedIsNoMessage DEF Unmask
  <2>5. c = a.ct
    <3>1. c = [c0 |-> C0(a.pk, H(m, a.pk)), c1 |-> C1(m, H(m, a.pk))]
      BY <1>1, <1>4, <2>2, <2>4 DEF C0, C1
    <3>2. QED
      BY <1>2, <3>1 DEF Sent, Honest
  <2>6. Chosen(key, e, u) = m /\ a.ss = K(m, a.ct)
    BY <1>2, <1>6, <2>3 DEF Chosen, Sent
  <2>7. QED
    BY <2>2, <2>5, <2>6
<1>7. QED
  BY <1>5, <1>6

LEMMA InitIInv ==
  ASSUME Init
  PROVE  IInv
<1>1. HistoryInv
  BY DEF Init, HistoryInv
<1>2. LocInv
  BY DEF Init, LocInv, NoLocals
<1>3. QED
  BY <1>1, <1>2 DEF Init, IInv, EncInv, DecInv, SentInv

(* The build does not change, so a hash stays what it is.                  *)
LEMMA TermsStay ==
  ASSUME bind' = bind
  PROVE  \A m, p : /\ H(m, p)' = H(m, p)
                   /\ Honest(m, p)' = Honest(m, p)
                   /\ Sent(m, p)' = Sent(m, p)
<1>1. \A m, p : H(m, p)' = H(m, p)
  BY DEF H
<1>2. \A m, p : Honest(m, p)' = Honest(m, p)
  BY <1>1 DEF Honest
<1>3. QED
  BY <1>1, <1>2 DEF Sent

(* What was said of the calls that returned stays true when more return,   *)
(* and when the decoder is found to fail on more pairs.                    *)
LEMMA HistoryStays ==
  ASSUME HistoryInv, bind' = bind, encs \subseteq encs',
         undecodable \subseteq undecodable',
         NEW d \in decs
  PROVE  /\ d = [sk |-> d.sk, ct |-> d.ct, ss |-> d.ss]
         /\ d.sk \in KeyPairs
         /\ Accepted(d)' \/ Rejected(d)'
         /\ Agrees(d)'
<1>1. /\ d = [sk |-> d.sk, ct |-> d.ct, ss |-> d.ss]
      /\ d.sk \in KeyPairs
      /\ Accepted(d) \/ Rejected(d)
      /\ Agrees(d)
  BY DEF HistoryInv
<1>2. Accepted(d) => Accepted(d)'
  BY DEF Accepted
<1>3. Rejected(d) => Rejected(d)'
  BY DEF Rejected
<1>4. Agrees(d)'
  BY <1>1, TermsStay DEF Agrees
<1>5. QED
  BY <1>1, <1>2, <1>3, <1>4

LEMMA SameHistory ==
  ASSUME HistoryInv, bind' = bind, encs' = encs, keys' \subseteq KeyPairs,
         decs' = decs, undecodable \subseteq undecodable'
  PROVE  HistoryInv'
<1>1. \A d \in decs : /\ d = [sk |-> d.sk, ct |-> d.ct, ss |-> d.ss]
                      /\ d.sk \in KeyPairs
                      /\ Accepted(d)' \/ Rejected(d)'
                      /\ Agrees(d)'
  BY HistoryStays
<1>2. \A x \in encs : \E m \in Messages : x = Sent(m, x.pk)'
  BY TermsStay DEF HistoryInv
<1>3. QED
  BY <1>1, <1>2 DEF HistoryInv

LEMMA SameSent ==
  ASSUME SentInv, bind' = bind, ct' = ct, ssEnc' = ssEnc
  PROVE  SentInv'
BY TermsStay DEF SentInv

(* Nothing but a call that returns touches the history or the buffers.     *)
LEMMA RestStays ==
  ASSUME IInv, UNCHANGED <<bind, buffers, history>>,
         undecodable \subseteq undecodable'
  PROVE  HistoryInv' /\ SentInv' /\ Deliverable' = Deliverable
<1>1. HistoryInv'
  BY SameHistory DEF IInv, HistoryInv, history
<1>2. SentInv'
  BY SameSent DEF IInv, buffers
<1>3. Deliverable' = Deliverable
  BY DEF Deliverable, history
<1>4. QED
  BY <1>1, <1>2, <1>3

(* Whatever returns leaves nothing to say of the locals.                   *)
LEMMA ReturnStays ==
  ASSUME NEW code, Return(code)
  PROVE  LocInv' /\ EncInv' /\ DecInv'
BY DEF Return, LocInv, EncInv, DecInv, NoLocals

LEMMA KeypairBeginIInv == ASSUME IInv, KeypairBegin PROVE IInv'
<1>1. HistoryInv' /\ SentInv'
  BY RestStays DEF KeypairBegin
<1>2. /\ LocInv'
      /\ loc'.seeds = <<Seed(drawn, 0), Seed(drawn, 1)>>
  BY DEF KeypairBegin, IInv, LocInv
<1>3. EncInv' /\ DecInv'
  BY <1>2 DEF KeypairBegin, EncInv, DecInv, IInv
<1>4. QED
  BY <1>1, <1>2, <1>3 DEF KeypairBegin, IInv

LEMMA KeypairEndIInv == ASSUME IInv, KeypairEnd PROVE IInv'
<1>1. LocInv' /\ EncInv' /\ DecInv'
  BY ReturnStays DEF KeypairEnd
<1>2. SentInv'
  BY SameSent DEF KeypairEnd, IInv
<1>3. PICK n \in Nat : loc.seeds = <<Seed(n, 0), Seed(n, 1)>>
  BY DEF KeypairEnd, IInv, EncInv
<1>4. keys' \subseteq KeyPairs
  BY <1>3 DEF KeypairEnd, IInv, HistoryInv, KeyPairs
<1>5. HistoryInv'
  BY <1>4, SameHistory DEF KeypairEnd, IInv
<1>6. QED
  BY <1>1, <1>2, <1>5 DEF KeypairEnd, IInv

LEMMA EncBeginIInv ==
  ASSUME IInv, NEW key \in keys, EncBegin(key.pk)
  PROVE  IInv'
<1>1. HistoryInv' /\ SentInv'
  BY RestStays DEF EncBegin
<1>2. LocInv' /\ loc'.m = Seed(drawn, 0)
  BY DEF EncBegin, IInv, LocInv
<1>3. loc'.m \in Messages
  BY <1>2 DEF IInv, Messages
<1>4. EncInv' /\ DecInv'
  BY <1>3 DEF EncBegin, EncInv, DecInv
<1>5. drawn' \in Nat
  <2>1. drawn' = drawn + 1
    BY ZenonT(30) DEF EncBegin
  <2>2. QED
    BY <2>1 DEF IInv
<1>6. QED
  BY <1>1, <1>2, <1>4, <1>5 DEF IInv

LEMMA EncHashIInv == ASSUME IInv, EncHash PROVE IInv'
<1>1. HistoryInv' /\ SentInv'
  BY RestStays DEF EncHash
<1>2. LocInv' /\ loc'.m = loc.m /\ loc'.pk = loc.pk /\ loc'.e = H(loc.m, loc.pk)
  BY DEF EncHash, IInv, LocInv
<1>3. loc.m \in Messages
  BY DEF EncHash, IInv, EncInv
<1>4. EncInv'
  BY <1>2, <1>3, TermsStay DEF EncHash, EncInv
<1>5. DecInv'
  BY DEF EncHash, DecInv
<1>6. QED
  BY <1>1, <1>2, <1>4, <1>5 DEF EncHash, IInv

LEMMA EncryptIInv == ASSUME IInv, Encrypt PROVE IInv'
<1>1. HistoryInv' /\ SentInv'
  BY RestStays DEF Encrypt
<1>2. /\ LocInv' /\ loc'.m = loc.m /\ loc'.pk = loc.pk
      /\ loc'.ct = [c0 |-> C0(loc.pk, loc.e), c1 |-> C1(loc.m, loc.e)]
  BY DEF Encrypt, IInv, LocInv
<1>3. loc.m \in Messages /\ loc.e = H(loc.m, loc.pk)
  BY DEF Encrypt, IInv, EncInv
<1>4. loc'.ct = Honest(loc.m, loc.pk)
  BY <1>2, <1>3 DEF Honest
<1>5. EncInv'
  BY <1>2, <1>3, <1>4, TermsStay DEF Encrypt, EncInv
<1>6. DecInv'
  BY DEF Encrypt, DecInv
<1>7. QED
  BY <1>1, <1>2, <1>5, <1>6 DEF Encrypt, IInv

LEMMA EncEndIInv == ASSUME IInv, EncEnd PROVE IInv'
<1>1. LocInv' /\ EncInv' /\ DecInv'
  BY ReturnStays DEF EncEnd
<1>2. loc.m \in Messages /\ loc.ct = Honest(loc.m, loc.pk)
  BY DEF EncEnd, IInv, EncInv
<1>3. SentInv'
  BY <1>2, TermsStay DEF EncEnd, SentInv
<1>4. encs' = encs \cup {Sent(loc.m, loc.pk)}
  BY <1>2 DEF EncEnd, Sent
<1>5. \A x \in encs' : \E m \in Messages : x = Sent(m, x.pk)'
  <2>1. Sent(loc.m, loc.pk).pk = loc.pk
    BY DEF Sent
  <2>2. \A m, p : Sent(m, p)' = Sent(m, p)
    BY TermsStay DEF EncEnd
  <2>3. \A x \in encs : \E m \in Messages : x = Sent(m, x.pk)
    BY DEF IInv, HistoryInv
  <2>4. QED
    BY <1>2, <1>4, <2>1, <2>2, <2>3
<1>6. \A d \in decs : /\ d = [sk |-> d.sk, ct |-> d.ct, ss |-> d.ss]
                      /\ d.sk \in KeyPairs
                      /\ Accepted(d)' \/ Rejected(d)'
                      /\ Agrees(d)'
  BY <1>4, HistoryStays DEF EncEnd, IInv
<1>7. HistoryInv'
  BY <1>5, <1>6 DEF EncEnd, IInv, HistoryInv
<1>8. QED
  BY <1>1, <1>3, <1>7 DEF EncEnd, IInv

LEMMA DecBeginIInv ==
  ASSUME IInv, NEW key \in keys, NEW c \in Deliverable, DecBegin(key, c)
  PROVE  IInv'
<1>1. HistoryInv' /\ SentInv' /\ Deliverable' = Deliverable
  BY RestStays DEF DecBegin
<1>2. /\ LocInv' /\ loc'.sk = key /\ loc'.ct = c /\ loc'.e = Decoded(key, c.c0)
  BY DEF DecBegin, IInv, LocInv
<1>3. key \in KeyPairs
  BY DEF IInv, HistoryInv
<1>4. EncInv'
  BY DEF DecBegin, EncInv
<1>5. DecInv'
  BY <1>1, <1>2, <1>3 DEF DecBegin, DecInv, Decoded
<1>6. QED
  BY <1>1, <1>2, <1>4, <1>5 DEF DecBegin, IInv

LEMMA ReencryptIInv == ASSUME IInv, Reencrypt PROVE IInv'
<1>1. HistoryInv' /\ SentInv' /\ Deliverable' = Deliverable
  BY RestStays DEF Reencrypt
<1>2. /\ LocInv' /\ loc'.sk = loc.sk /\ loc'.ct = loc.ct /\ loc'.e = loc.e
      /\ loc'.m = Unmask(loc.ct.c1, loc.e)
  BY DEF Reencrypt, IInv, LocInv
<1>3. EncInv'
  BY DEF Reencrypt, EncInv
<1>4. /\ loc.sk \in KeyPairs /\ loc.ct \in Deliverable
      /\ loc.e = Decoded(loc.sk, loc.ct.c0)
  BY DEF Reencrypt, IInv, DecInv
<1>5. \A key, c0 : Decoded(key, c0)' = Decoded(key, c0)
  BY DEF Reencrypt, Decoded
<1>6. \A c1, e : Unmask(c1, e)' = Unmask(c1, e)
  BY DEF Unmask
<1>7. pc' = "dec function_h"
  BY DEF Reencrypt
<1>8. DecInv'
  BY <1>1, <1>2, <1>4, <1>5, <1>6, <1>7 DEF DecInv
<1>9. QED
  BY <1>1, <1>2, <1>3, <1>8 DEF Reencrypt, IInv

LEMMA DecHashIInv == ASSUME IInv, DecHash PROVE IInv'
<1>1. HistoryInv' /\ SentInv' /\ Deliverable' = Deliverable
  BY RestStays DEF DecHash
<1>2. /\ LocInv' /\ loc'.sk = loc.sk /\ loc'.ct = loc.ct
      /\ loc'.m = Chosen(loc.sk, loc.e, loc.m)
  BY DEF DecHash, IInv, LocInv, Chosen
<1>3. EncInv'
  BY DEF DecHash, EncInv
<1>4. /\ loc.sk \in KeyPairs /\ loc.ct \in Deliverable
      /\ loc.e = Decoded(loc.sk, loc.ct.c0)
      /\ loc.m = Unmask(loc.ct.c1, loc.e)
  BY DEF DecHash, IInv, DecInv
<1>5. \A key, e, m : Chosen(key, e, m)' = Chosen(key, e, m)
  BY TermsStay DEF DecHash, Chosen
<1>6. \A key, c0 : Decoded(key, c0)' = Decoded(key, c0)
  BY DEF DecHash, Decoded
<1>7. pc' = "dec function_k"
  BY DEF DecHash
<1>8. DecInv'
  BY <1>1, <1>2, <1>4, <1>5, <1>6, <1>7 DEF DecInv
<1>9. QED
  BY <1>1, <1>2, <1>3, <1>8 DEF DecHash, IInv

LEMMA DecEndIInv == ASSUME IInv, DecEnd PROVE IInv'
<1> DEFINE e == Decoded(loc.sk, loc.ct.c0)
           m == Chosen(loc.sk, e, Unmask(loc.ct.c1, e))
           new == [sk |-> loc.sk, ct |-> loc.ct, ss |-> K(m, loc.ct)]
<1>1. LocInv' /\ EncInv' /\ DecInv'
  BY ReturnStays DEF DecEnd
<1>2. SentInv'
  BY SameSent DEF DecEnd, IInv
<1>3. loc.sk \in KeyPairs /\ loc.ct \in Deliverable /\ loc.m = m
  BY DEF DecEnd, IInv, DecInv
<1>4. decs' = decs \cup {new}
  BY <1>3 DEF DecEnd
<1>5. new.sk = loc.sk /\ new.ct = loc.ct /\ new.ss = K(m, loc.ct)
  OBVIOUS
<1>6. \/ \E x \in encs : loc.ct = x.ct /\ loc.sk.pk = x.pk /\ K(m, loc.ct) = x.ss
      \/ m = loc.sk.sigma
  BY <1>3, OpensOrSigma DEF IInv
<1>7. \A n : /\ loc.ct = Honest(n, loc.sk.pk)
             /\ <<loc.sk.pk, H(n, loc.sk.pk)>> \notin undecodable
             => m = n
  BY HonestOpens
<1> HIDE DEF m, new
<1>8. Accepted(new) \/ Rejected(new)
  BY <1>5, <1>6 DEF Accepted, Rejected
<1>9. Agrees(new)
  BY <1>5, <1>7 DEF Agrees
<1>10. PICK d : d = new
  OBVIOUS
<1>11. Accepted(d)' \/ Rejected(d)'
  <2>1. Accepted(d) => Accepted(d)'
    BY DEF Accepted, DecEnd
  <2>2. Rejected(d) => Rejected(d)'
    BY DEF Rejected
  <2>3. QED
    BY <1>8, <1>10, <2>1, <2>2
<1>12. Agrees(d)'
  <2>1. bind' = bind /\ undecodable' = undecodable
    BY DEF DecEnd
  <2>2. Agrees(d)
    BY <1>9, <1>10
  <2>3. QED
    BY <2>1, <2>2, TermsStay DEF Agrees
<1>13. /\ d = [sk |-> d.sk, ct |-> d.ct, ss |-> d.ss]
       /\ d.sk \in KeyPairs
  BY <1>3, <1>5, <1>10 DEF new
<1>14. \A c \in decs : /\ c = [sk |-> c.sk, ct |-> c.ct, ss |-> c.ss]
                       /\ c.sk \in KeyPairs
                       /\ Accepted(c)' \/ Rejected(c)'
                       /\ Agrees(c)'
  BY HistoryStays DEF DecEnd, IInv
<1>15. \A x \in encs : \E n \in Messages : x = Sent(n, x.pk)'
  BY TermsStay DEF DecEnd, IInv, HistoryInv
<1>16. decs' = decs \cup {d} /\ keys' = keys /\ encs' = encs
  BY <1>4, <1>10 DEF DecEnd
<1>17. HistoryInv'
  BY <1>11, <1>12, <1>13, <1>14, <1>15, <1>16 DEF HistoryInv, IInv
<1>18. QED
  BY <1>1, <1>2, <1>17 DEF DecEnd, IInv

LEMMA NextIInv ==
  ASSUME IInv, [Next]_vars
  PROVE  IInv'
<1>1. CASE GuardFails
  <2>1. HistoryInv' /\ SentInv'
    BY <1>1, RestStays DEF GuardFails
  <2>2. LocInv' /\ EncInv' /\ DecInv'
    BY <1>1, ReturnStays DEF GuardFails
  <2>3. QED
    BY <1>1, <2>1, <2>2 DEF GuardFails, IInv
<1>2. CASE UNCHANGED vars
  <2>1. HistoryInv' /\ SentInv' /\ Deliverable' = Deliverable
    BY <1>2, RestStays DEF vars
  <2>2. EncInv' /\ DecInv'
    <3>1. UNCHANGED <<bind, pc, loc, undecodable>>
      BY <1>2 DEF vars
    <3>2. EncInv'
      BY <3>1, TermsStay DEF EncInv, IInv
    <3>3. \A key, c0 : Decoded(key, c0)' = Decoded(key, c0)
      BY <3>1 DEF Decoded
    <3>4. \A key, e, m : Chosen(key, e, m)' = Chosen(key, e, m)
      BY <3>1, TermsStay DEF Chosen
    <3>5. DecInv'
      BY <2>1, <3>1, <3>3, <3>4 DEF DecInv, IInv
    <3>6. QED
      BY <3>2, <3>5
  <2>3. QED
    BY <1>2, <2>1, <2>2 DEF vars, IInv, LocInv
<1>3. CASE Begin
  BY <1>3, EncBeginIInv, KeypairBeginIInv, DecBeginIInv DEF Begin
<1>4. QED
  BY <1>1, <1>2, <1>3, KeypairEndIInv, EncHashIInv, EncryptIInv, EncEndIInv,
     ReencryptIInv, DecHashIInv, DecEndIInv DEF Next, Step

(* What the locals hold, what was returned and which secrets fit it stay   *)
(* in step through every sequence of calls.                                *)
THEOREM Inductive == Spec => []IInv
<1>1. Init => IInv
  BY InitIInv
<1>2. IInv /\ [Next]_vars => IInv'
  BY NextIInv
<1>3. QED
  BY <1>1, <1>2, PTL DEF Spec

-----------------------------------------------------------------------------
LEMMA Agreement ==
  ASSUME HistoryInv
  PROVE  KeyAgreement
<1>1. SUFFICES ASSUME NEW x \in encs, NEW d \in decs,
                      d.ct = x.ct, d.sk.pk = x.pk,
                      <<x.pk, x.ct.c0.e>> \notin undecodable
               PROVE  d.ss = x.ss
  BY DEF KeyAgreement
<1>2. PICK m \in Messages : x = Sent(m, x.pk)
  BY DEF HistoryInv
<1>3. x.ct = Honest(m, x.pk) /\ x.ss = K(m, x.ct)
  BY <1>2 DEF Sent
<1>4. x.ct.c0.e = H(m, x.pk)
  BY <1>3 DEF Honest, C0
<1>5. Agrees(d)
  BY DEF HistoryInv
<1>6. QED
  BY <1>1, <1>3, <1>4, <1>5 DEF Agrees

(* The secret of sigma is not that of a message. *)
LEMMA RejectedApart ==
  ASSUME HistoryInv, NEW d \in decs, NEW x \in encs, Rejected(d)
  PROVE  d.ss # x.ss
<1>1. PICK m \in Messages : x = Sent(m, x.pk)
  BY DEF HistoryInv
<1>2. x.ss = K(m, Honest(m, x.pk))
  BY <1>1 DEF Sent
<1>3. d.sk.sigma # m
  BY KeysApart DEF HistoryInv
<1>4. QED
  BY <1>2, <1>3, SecretInjective DEF Rejected

LEMMA Rejection ==
  ASSUME HistoryInv
  PROVE  RejectsAnythingElse
BY RejectedApart DEF RejectsAnythingElse, HistoryInv, Accepted, Rejected

LEMMA Bound ==
  ASSUME HistoryInv
  PROVE  SecretsBound
<1>1. ASSUME NEW x \in encs, NEW y \in encs, x.ss = y.ss
      PROVE  x = y
  <2>1. PICK m \in Messages : x = Sent(m, x.pk)
    BY DEF HistoryInv
  <2>2. PICK n \in Messages : y = Sent(n, y.pk)
    BY DEF HistoryInv
  <2>3. m = n /\ Honest(m, x.pk) = Honest(n, y.pk)
    BY <1>1, <2>1, <2>2, SecretInjective DEF Sent
  <2>4. C0(x.pk, H(m, x.pk)) = C0(y.pk, H(n, y.pk))
    BY <2>3 DEF Honest
  <2>5. x.pk = y.pk
    BY <2>4 DEF C0
  <2>6. QED
    BY <2>1, <2>2, <2>3, <2>5
<1>2. ASSUME NEW c \in decs, NEW d \in decs, c.ss = d.ss
      PROVE  c = d
  <2>1. \A f \in decs : /\ f = [sk |-> f.sk, ct |-> f.ct, ss |-> f.ss]
                        /\ f.sk \in KeyPairs
                        /\ \/ f.ss = K(f.sk.sigma, f.ct)
                           \/ \E x \in encs : f.ct = x.ct /\ f.sk.pk = x.pk
                                             /\ f.ss = x.ss
    BY DEF HistoryInv, Accepted, Rejected
  <2>2. \A x \in encs : \E m \in Messages :
          x.pk = x.ct.c0.pk /\ x.ss = K(m, x.ct)
    <3>1. \A m, p : /\ Sent(m, p).ct.c0.pk = p
                    /\ Sent(m, p).ss = K(m, Sent(m, p).ct)
      BY DEF Sent, Honest, C0
    <3>2. QED
      BY <3>1 DEF HistoryInv
  <2>3. c.ct = d.ct
    BY <1>2, <2>1, <2>2, SecretInjective
  <2>4. CASE Rejected(c) \/ Rejected(d)
    <3>1. Rejected(c) /\ Rejected(d)
      <4>1. \A f \in decs : Rejected(f) \/ \E x \in encs : f.ss = x.ss
        BY DEF HistoryInv, Accepted
      <4>2. QED
        BY <1>2, <2>4, <4>1, RejectedApart
    <3>2. c.sk.sigma = d.sk.sigma
      <4>1. K(c.sk.sigma, c.ct) = K(d.sk.sigma, d.ct)
        BY <1>2, <3>1 DEF Rejected
      <4>2. QED
        BY <4>1, SecretInjective
    <3>3. c.sk = d.sk
      BY <2>1, <3>2, KeysApart
    <3>4. QED
      BY <1>2, <2>1, <2>3, <3>3
  <2>5. CASE ~Rejected(c) /\ ~Rejected(d)
    <3>1. c.sk.pk = c.ct.c0.pk /\ d.sk.pk = d.ct.c0.pk
      BY <2>1, <2>2, <2>5 DEF Rejected
    <3>2. c.sk = d.sk
      BY <2>1, <2>3, <3>1, KeysApart
    <3>3. QED
      BY <1>2, <2>1, <2>3, <3>2
  <2>6. QED
    BY <2>4, <2>5
<1>3. QED
  BY <1>1, <1>2 DEF SecretsBound

(* Who decapsulates a sent, decodable ciphertext with the secret key it    *)
(* was made for has the sender's secret.                                   *)
THEOREM Agreed == Spec => []KeyAgreement
<1>1. IInv => KeyAgreement
  BY Agreement DEF IInv
<1>2. QED
  BY <1>1, Inductive, PTL

(* Any other ciphertext gives the secret of sigma and this ciphertext,     *)
(* which no encapsulation returned.                                        *)
THEOREM Rejects == Spec => []RejectsAnythingElse
<1>1. IInv => RejectsAnythingElse
  BY Rejection DEF IInv
<1>2. QED
  BY <1>1, Inductive, PTL

(* No two encapsulations and no two decapsulations share a secret.         *)
THEOREM BoundTo == Spec => []SecretsBound
<1>1. IInv => SecretsBound
  BY Bound DEF IInv
<1>2. QED
  BY <1>1, Inductive, PTL
-----------------------------------------------------------------------------
(* What the output buffers hold together was returned together.            *)
THEOREM Coherent == Spec => []OutputsCoherent
<1>1. Init => OutputsCoherent
  BY DEF Init, OutputsCoherent
<1>2. OutputsCoherent /\ [Next]_vars => OutputsCoherent'
  <2>1. SUFFICES ASSUME OutputsCoherent, [Next]_vars
                 PROVE  OutputsCoherent'
    OBVIOUS
  <2>2. CASE KeypairEnd
    <3>1. sk' \in keys' /\ pk' = sk'.pk
      BY <2>2 DEF KeypairEnd
    <3>2. UNCHANGED <<ct, ssEnc, encs>>
      BY <2>2 DEF KeypairEnd
    <3>3. QED
      BY <2>1, <3>1, <3>2 DEF OutputsCoherent
  <2>3. CASE EncEnd
    <3>1. PICK x : x = [pk |-> loc.pk, ct |-> ct', ss |-> ssEnc']
      OBVIOUS
    <3>2. x \in encs' /\ x.ct = ct' /\ x.ss = ssEnc'
      BY <2>3, <3>1 DEF EncEnd
    <3>3. UNCHANGED <<pk, sk, keys>>
      BY <2>3 DEF EncEnd
    <3>4. QED
      BY <2>1, <3>2, <3>3 DEF OutputsCoherent
  <2>4. CASE UNCHANGED <<pk, sk, ct, ssEnc, keys, encs>>
    BY <2>1, <2>4 DEF OutputsCoherent
  <2>5. QED
    BY <2>1, <2>2, <2>3, <2>4
       DEF Next, Begin, Step, KeypairBegin, EncBegin, EncHash, Encrypt,
           DecBegin, Reencrypt, DecHash, DecEnd, GuardFails,
           buffers, history, vars
<1>3. QED
  BY <1>1, <1>2, PTL DEF Spec

LEMMA SentIsSomething ==
  ASSUME NEW m, NEW p, NEW c
  PROVE  Honest(m, p) # Nothing /\ K(m, c) # Nothing
BY DEF Honest, K, Nothing

(* A call that fails leaves the buffers, one that succeeds writes its own. *)
THEOREM Atomic == Spec => AllOrNothing
<1> DEFINE A == /\ pc' = "idle" /\ rc' = "FAIL" => UNCHANGED buffers
                /\ <<pk, sk>>' # <<pk, sk>> => UNCHANGED <<ct, ssEnc, ssDec>>
                /\ <<ct, ssEnc>>' # <<ct, ssEnc>> => ct' # ct /\ ssEnc' # ssEnc
<1>1. IInv /\ [Next]_vars => [A]_vars
  <2>1. SUFFICES ASSUME IInv, Next
                 PROVE  A
    OBVIOUS
  <2>2. CASE KeypairEnd
    BY <2>2 DEF KeypairEnd, Return
  <2>3. CASE DecEnd
    BY <2>3 DEF DecEnd, Return
  <2>4. CASE GuardFails
    BY <2>4 DEF GuardFails, Return, buffers
  <2>5. CASE EncEnd
    <3>1. loc.ct = Honest(loc.m, loc.pk)
      BY <2>1, <2>5 DEF EncEnd, IInv, EncInv
    <3>2. loc.ct # Nothing /\ K(loc.m, loc.ct) # Nothing
      BY <3>1, SentIsSomething
    <3>3. CASE ct = Nothing /\ ssEnc = Nothing
      BY <2>5, <3>2, <3>3 DEF EncEnd, Return
    <3>4. ASSUME NEW m, NEW p, ct = Honest(m, p), ssEnc = K(m, ct)
          PROVE  A
      <4>1. ct = loc.ct => m = loc.m
        BY <3>1, <3>4 DEF Honest, C1
      <4>2. ct = loc.ct <=> ssEnc = K(loc.m, loc.ct)
        BY <3>4, <4>1, SecretInjective
      <4>3. QED
        BY <2>5, <4>2 DEF EncEnd, Return
    <3>5. \/ ct = Nothing /\ ssEnc = Nothing
          \/ \E m, p : ct = Honest(m, p) /\ ssEnc = K(m, ct)
      BY <2>1 DEF IInv, SentInv
    <3>6. QED
      BY <3>3, <3>4, <3>5
  <2>6. CASE pc' # "idle" /\ UNCHANGED buffers
    BY <2>6 DEF buffers
  <2>7. QED
    BY <2>1, <2>2, <2>3, <2>4, <2>5, <2>6
       DEF Next, Begin, Step, KeypairBegin, EncBegin, EncHash, Encrypt,
           DecBegin, Reencrypt, DecHash
<1>2. QED
  BY <1>1, Inductive, PTL DEF Spec, AllOrNothing
===============================================================================
