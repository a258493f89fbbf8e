--------------------------------- MODULE Kem ---------------------------------
(***************************************************************************)
(* kem.c: key generation, encapsulation and decapsulation, GUARD by GUARD. *)
(* A program calls them in any order, with any key pair it was given and   *)
(* any ciphertext that can be put together from the ones sent: c0 and c1   *)
(* of two different ones, or with bits changed.                            *)
(*                                                                         *)
(* Values are terms.  The hashes H, L and K never give the same value for  *)
(* two different arguments, and the xor of two values that do not cancel   *)
(* is a value like no other.  The decoder finds the error of a ciphertext  *)
(* made for its key, unless the pair is one it fails on (undecodable); in  *)
(* every other case it returns some error that no call of H returns.       *)
(***************************************************************************)
EXTENDS Integers, FiniteSets

CONSTANTS
  MaxDraws,     \* bound on the calls of get_seeds
  MaxDecs       \* bound on the decapsulations

ASSUME KemAssumption ==
  /\ MaxDraws \in Nat
  /\ MaxDecs \in Nat

VARIABLES
  bind,          \* whether the build defines BIND_PK_AND_M
  pc,            \* "idle" or the next fallible call of the running function
  loc,           \* its locals
  rc,            \* what the last call returned
  pk, sk,        \* the output buffers of crypto_kem_keypair
  ct, ssEnc,     \* those of crypto_kem_enc
  ssDec,         \* that of crypto_kem_dec
  drawn,         \* calls of get_seeds so far: every seed is fresh
  undecodable,   \* pairs of public key and error the decoder fails on
  keys,          \* history: the key pairs returned
  encs, decs     \* history: what encapsulation and decapsulation returned

buffers == <<pk, sk, ct, ssEnc, ssDec>>
history == <<keys, encs, decs>>
vars    == <<bind, pc, loc, rc, drawn, undecodable, buffers, history>>

Nothing == [nothing |-> TRUE]

(* No function is running: there are no locals. *)
NoLocals == [seeds |-> Nothing, sk |-> Nothing, pk |-> Nothing,
             m |-> Nothing, e |-> Nothing, ct |-> Nothing]

(* get_seeds: the two seeds of the n-th call. *)
Seed(n, i) == [draw |-> n, seed |-> i]

(* The key pair sampled from a seed, sigma included. *)
PublicKey(seed)        == [h |-> seed]
SecretKey(seed, sigma) == [h01 |-> seed, sigma |-> sigma, pk |-> PublicKey(seed)]

(* function_h *)
H(m, p) == IF bind THEN [m |-> m, pk |-> p] ELSE [m |-> m]

(* encrypt's c0 = pk * e1 + e0, and c1 = L(e) xor m. *)
C0(p, e) == [pk |-> p, e |-> e, changed |-> FALSE]
C1(m, e) == [m |-> m, e |-> e, changed |-> FALSE]

(* reencrypt's c1 xor L(e). *)
Unmask(c1, e) ==
  IF c1.e = e /\ ~c1.changed THEN c1.m ELSE [c1 |-> c1, masked |-> e]

(* Mutant: the secret does not depend on the ciphertext. *)
KOfMessage(m, c) == [m |-> m]

(* function_k *)
K(m, c) == [m |-> m, ct |-> c]

(* decode *)
Decoded(key, c0) ==
  IF /\ c0.pk = key.pk
     /\ ~c0.changed
     /\ <<c0.pk, c0.e>> \notin undecodable
  THEN c0.e
  ELSE [key |-> key, garbage |-> c0]

(* Ciphertexts that may be given to decapsulation. *)
Deliverable ==
  {[c0 |-> [a.ct.c0 EXCEPT !.changed = x], c1 |-> [b.ct.c1 EXCEPT !.changed = y]] :
     a \in encs, b \in encs, x \in BOOLEAN, y \in BOOLEAN}
-----------------------------------------------------------------------------
Init ==
  /\ bind \in BOOLEAN
  /\ pc = "idle"
  /\ loc = NoLocals
  /\ rc = "SUCCESS"
  /\ pk = Nothing /\ sk = Nothing
  /\ ct = Nothing /\ ssEnc = Nothing
  /\ ssDec = Nothing
  /\ drawn = 0
  /\ undecodable = {}
  /\ keys = {} /\ encs = {} /\ decs = {}

(* Every way out of a function.  Its locals, l_pk and l_ct as well as those *)
(* of DEFER_CLEANUP, end with it; what is left on the stack is no state.   *)
Return(code) ==
  /\ pc' = "idle"
  /\ rc' = code
  /\ loc' = NoLocals

(* Mutant: the output of an encapsulation is cleaned when a call fails. *)
GuardFailsCleaning ==
  /\ pc # "idle"
  /\ Return("FAIL")
  /\ ct' = Nothing
  /\ UNCHANGED <<bind, drawn, undecodable, pk, sk, ssEnc, ssDec, history>>

(* GUARD on a call that failed, wherever the running function is. *)
GuardFails ==
  /\ pc # "idle"
  /\ Return("FAIL")
  /\ UNCHANGED <<bind, drawn, undecodable, buffers, history>>

(* crypto_kem_keypair up to generate_secret_key. *)
KeypairBegin ==
  /\ pc = "idle"
  /\ drawn < MaxDraws
  /\ drawn' = drawn + 1
  /\ loc' = [loc EXCEPT !.seeds = <<Seed(drawn, 0), Seed(drawn, 1)>>]
  /\ pc' = "generate_secret_key"
  /\ UNCHANGED <<bind, rc, undecodable, buffers, history>>

(* ... and the rest of it, where nothing can fail. *)
KeypairEnd ==
  LET key == SecretKey(loc.seeds[1], loc.seeds[2])
  IN  /\ pc = "generate_secret_key"
      /\ sk' = key
      /\ pk' = key.pk
      /\ keys' = keys \cup {key}
      /\ Return("SUCCESS")
      /\ UNCHANGED <<bind, drawn, undecodable, ct, ssEnc, ssDec, encs, decs>>

(* crypto_kem_enc up to function_h. *)
EncBegin(p) ==
  /\ pc = "idle"
  /\ drawn < MaxDraws
  /\ drawn' = drawn + 1
  /\ loc' = [loc EXCEPT !.pk = p,
                        !.seeds = <<Seed(drawn, 0), Seed(drawn, 1)>>,
                        !.m = Seed(drawn, 0)]
  /\ pc' = "enc function_h"
  /\ UNCHANGED <<bind, rc, undecodable, buffers, history>>

(* function_h; whether the decoder will fail on the error is settled. *)
EncHash ==
  LET e == H(loc.m, loc.pk)
  IN  /\ pc = "enc function_h"
      /\ loc' = [loc EXCEPT !.e = e]
      /\ undecodable' \in {undecodable, undecodable \cup {<<loc.pk, e>>}}
      /\ pc' = "encrypt"
      /\ UNCHANGED <<bind, rc, drawn, buffers, history>>

(* Mutant: the ciphertext is written to the output before the secret. *)
EncryptInPlace ==
  /\ pc = "encrypt"
  /\ loc' = [loc EXCEPT !.ct = [c0 |-> C0(loc.pk, loc.e), c1 |-> C1(loc.m, loc.e)]]
  /\ ct' = loc'.ct
  /\ pc' = "enc function_k"
  /\ UNCHANGED <<bind, rc, drawn, undecodable, pk, sk, ssEnc, ssDec, history>>

Encrypt ==
  /\ pc = "encrypt"
  /\ loc' = [loc EXCEPT !.ct = [c0 |-> C0(loc.pk, loc.e), c1 |-> C1(loc.m, loc.e)]]
  /\ pc' = "enc function_k"
  /\ UNCHANGED <<bind, rc, drawn, undecodable, buffers, history>>

(* function_k, then the outputs are copied. *)
EncEnd ==
  /\ pc = "enc function_k"
  /\ ct' = loc.ct
  /\ ssEnc' = K(loc.m, loc.ct)
  /\ encs' = encs \cup {[pk |-> loc.pk, ct |-> ct', ss |-> ssEnc']}
  /\ Return("SUCCESS")
  /\ UNCHANGED <<bind, drawn, undecodable, pk, sk, ssDec, keys, decs>>

(* crypto_kem_dec up to reencrypt: the arguments are copied and decoded. *)
DecBegin(key, c) ==
  /\ pc = "idle"
  /\ Cardinality(decs) < MaxDecs
  /\ loc' = [loc EXCEPT !.sk = key, !.ct = c, !.e = Decoded(key, c.c0)]
  /\ pc' = "reencrypt"
  /\ UNCHANGED <<bind, rc, drawn, undecodable, buffers, history>>

Reencrypt ==
  /\ pc = "reencrypt"
  /\ loc' = [loc EXCEPT !.m = Unmask(loc.ct.c1, loc.e)]
  /\ pc' = "dec function_h"
  /\ UNCHANGED <<bind, rc, drawn, undecodable, buffers, history>>

(* Mutants: the choice between m' and sigma is reversed; it is not made. *)
DecHashReversed ==
  /\ pc = "dec function_h"
  /\ loc' = [loc EXCEPT !.m = IF loc.e = H(@, loc.sk.pk) THEN loc.sk.sigma ELSE @]
  /\ pc' = "dec function_k"
  /\ UNCHANGED <<bind, rc, drawn, undecodable, buffers, history>>

DecHashTrusting ==
  /\ pc = "dec function_h"
  /\ pc' = "dec function_k"
  /\ UNCHANGED <<bind, loc, rc, drawn, undecodable, buffers, history>>

(* function_h on m', the comparison with e' and the choice of m' or sigma. *)
DecHash ==
  /\ pc = "dec function_h"
  /\ loc' = [loc EXCEPT !.m = IF loc.e = H(@, loc.sk.pk) THEN @ ELSE loc.sk.sigma]
  /\ pc' = "dec function_k"
  /\ UNCHANGED <<bind, rc, drawn, undecodable, buffers, history>>

(* function_k, then the output is copied. *)
DecEnd ==
  /\ pc = "dec function_k"
  /\ ssDec' = K(loc.m, loc.ct)
  /\ decs' = decs \cup {[sk |-> loc.sk, ct |-> loc.ct, ss |-> ssDec']}
  /\ Return("SUCCESS")
  /\ UNCHANGED <<bind, drawn, undecodable, pk, sk, ct, ssEnc, keys, encs>>

Begin ==
  \/ KeypairBegin
  \/ \E key \in keys : EncBegin(key.pk)
  \/ \E key \in keys, c \in Deliverable : DecBegin(key, c)

Step ==
  \/ KeypairEnd \/ EncHash \/ Encrypt \/ EncEnd
  \/ Reencrypt \/ DecHash \/ DecEnd \/ GuardFails

Next == Begin \/ Step

Spec == Init /\ [][Next]_vars
-----------------------------------------------------------------------------
(* Both sides get the same secret: whoever decapsulates a ciphertext that  *)
(* was sent, with the secret key it was made for, gets the secret the      *)
(* sender got, unless the decoder fails on its error; the calls in between *)
(* may be for other keys, fail, or decapsulate something else.             *)
KeyAgreement ==
  \A x \in encs, d \in decs :
    /\ d.ct = x.ct
    /\ d.sk.pk = x.pk
    /\ <<x.pk, x.ct.c0.e>> \notin undecodable
    => d.ss = x.ss

(* Implicit rejection: any other ciphertext (spliced, changed, made for    *)
(* another key or not decodable) still decapsulates to a secret, that of   *)
(* sigma and this very ciphertext, and nobody else has that one.           *)
RejectsAnythingElse ==
  \A d \in decs :
    \/ \E x \in encs : d.ct = x.ct /\ d.sk.pk = x.pk /\ d.ss = x.ss
    \/ /\ d.ss = K(d.sk.sigma, d.ct)
       /\ \A x \in encs : d.ss # x.ss

(* A shared secret belongs to one ciphertext and one key: no two           *)
(* encapsulations, and no two decapsulations that differ in either, agree. *)
SecretsBound ==
  /\ \A x, y \in encs : x.ss = y.ss => x = y
  /\ \A c, d \in decs : c.ss = d.ss => c = d

(* What sk and pk hold belongs together after any sequence of calls that   *)
(* succeeded and failed, and so do ct and ssEnc.                           *)
OutputsCoherent ==
  /\ sk # Nothing => sk \in keys /\ pk = sk.pk
  /\ ct # Nothing => \E x \in encs : x.ct = ct /\ x.ss = ssEnc

(* A call that fails leaves every output buffer as it found it, wherever   *)
(* its GUARD is, and one that succeeds writes all of its own and no other  *)
(* function's.                                                             *)
AllOrNothing ==
  [][ /\ pc' = "idle" /\ rc' = "FAIL" => UNCHANGED buffers
      /\ <<pk, sk>>' # <<pk, sk>> => UNCHANGED <<ct, ssEnc, ssDec>>
      /\ <<ct, ssEnc>>' # <<ct, ssEnc>> => ct' # ct /\ ssEnc' # ssEnc ]_vars
=============================================================================
