------------------------------- MODULE IndexDraw -------------------------------
(* One round of sample_indices_fisher_yates, as functions of the word drawn. *)
EXTENDS Integers

(* Mutant: scaled to 0..max-1. *)
ScaledWithoutBase(max, range, i, rand) == (rand * max) \div range

(* The index a random word of 0..range-1 stands for at position i: the     *)
(* word scaled to i..max-1 by a multiplication and a shift.                *)
Scaled(max, range, i, rand) == i + (rand * (max - i)) \div range

(* Mutant: a duplicate is kept. *)
SelectedAnyway(max, range, i, used, rand) == Scaled(max, range, i, rand)

(* What position i gets when the indices in used are already taken.        *)
Selected(max, range, i, used, rand) ==
  LET l == Scaled(max, range, i, rand) IN IF l \in used THEN i ELSE l
=============================================================================
