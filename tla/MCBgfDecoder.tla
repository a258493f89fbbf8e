----------------------------- MODULE MCBgfDecoder -----------------------------
(***************************************************************************)
(* A key of two halves of weight 3 over R = 13: their differences are all  *)
(* different, so two columns of the parity check matrix share at most one  *)
(* check, as the columns of a sparse key mostly do.  The word given to the *)
(* decoder is any word at all.                                             *)
(***************************************************************************)
EXTENDS BgfDecoder

MCH0 == {0, 1, 4}
MCH1 == {0, 2, 7}
MCPk == {0, 4, 5, 6, 8, 10, 11}

(* Shifting the word shifts the syndrome, the counts and the error found,  *)
(* so of every word and its shifts the one that reads as the smallest      *)
(* binary number is enough.                                                *)
Number(c) == MapThenSumSet(LAMBDA i : 2^i, c)

MCWords ==
  {c \in Polynomials : \A n \in Exponents : Number(c) <= Number(Rotated(c, n))}

(* The ciphertext half of an error: encrypt's pk * e1 + e0. *)
Encoded(err) == Add(err[0], Mul(err[1], Pk))

AtMostOneError ==
  {NoError} \cup {[NoError EXCEPT ![i] = {p}] : i \in Halves, p \in Exponents}

(* The syndrome of an error. *)
SyndromeOf(err) == Add(Mul(err[0], H0), Mul(err[1], H1))

(* The checks of position j of half i that other positions of err are in. *)
Shared(err, i, j) ==
  {w \in H[i] :
     \E k \in Halves : \E x \in err[k], v \in H[k] :
       <<k, x>> # <<i, j>> /\ (v + x) % R = (w + j) % R}

(* An error whose every position has enough checks of its own, and that no *)
(* other position shares too many checks with.                             *)
Separated(err) ==
  LET threshold == Threshold(SyndromeOf(err))
  IN  \A i \in Halves, j \in Exponents :
        LET shared == Cardinality(Shared(err, i, j))
        IN  IF j \in err[i] THEN threshold <= D - shared ELSE shared < threshold

(* Of the key only that every error of one position is separated, of the   *)
(* counters that they hold D with a sign.                                  *)
ASSUME KeyParameters ==
  /\ \A err \in AtMostOneError : Separated(err)
  /\ D <= 2 ^ (Slices - 1)

(* An error of at most one position, in either half, is found exactly.  No *)
(* key this small corrects two errors whatever their positions.            *)
SingleErrorsFound ==
  call = "done" => \A err \in AtMostOneError : c0 = Encoded(err) => e = err
=============================================================================
