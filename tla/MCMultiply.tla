----------------------------- MODULE MCMultiply -----------------------------
(***************************************************************************)
(* The multiplication of polynomials and, each by itself, the products it  *)
(* ends in: the portable one of two words, and those by vectors, which     *)
(* come with squarings.                                                    *)
(*                                                                         *)
(* Polynomials of 4 to 7 quad-words of 2 bits, padded to 8.  Every step is *)
(* linear in each operand, so that pairs of single terms stand for all;    *)
(* two dense pairs are added.  The lengths are such that the high half is  *)
(* full, partial, one quad-word or nothing, in one call or another.        *)
(*                                                                         *)
(* All words of 10 bits by all words of at most one bit, which stand for   *)
(* all as every step is linear in b0, and by the full word.                *)
(*                                                                         *)
(* By vectors, quad-words of 2 bits: all pairs of single terms of 8 or 16  *)
(* quad-words and the full pair, and squares in 13 quad-words, whose last  *)
(* register is half full with 2 lanes and partly full with 8.              *)
(***************************************************************************)
EXTENDS Karatsuba

CONSTANTS Width, WordOperands, SqrQwords, Factors, Squared

VARIABLES
  part,
  wordA, wordB, wordL, wordH, wordI, wordPc,
  vecFn, vecA, vecB, vecLo, vecHi, vecMi, vecC, vecI, vecPc

wordVars == <<wordA, wordB, wordL, wordH, wordI, wordPc>>
vecVars  == <<vecFn, vecA, vecB, vecLo, vecHi, vecMi, vecC, vecI, vecPc>>

Word == INSTANCE MulBasePort WITH
  Operands <- WordOperands,
  a0 <- wordA, b0 <- wordB, l <- wordL, h <- wordH, i <- wordI, pc <- wordPc

Vec == INSTANCE MulBaseX86 WITH
  W <- QwBits, RQwords <- SqrQwords,
  fn <- vecFn, a <- vecA, b <- vecB, lo <- vecLo, hi <- vecHi, mi <- vecMi,
  c <- vecC, i <- vecI, pc <- vecPc

ASSUME WordParameters == Word!WidthAssumption /\ Vec!X86Assumption

Build(r, base, reg) == [R |-> r, Pad |-> 8, Base |-> base, Reg |-> reg]

MCBuilds ==
  {Build(7, 1, 1), Build(9, 1, 1), Build(11, 1, 1), Build(13, 1, 1),
   Build(9, 2, 1), Build(13, 2, 2), Build(13, 4, 2)}

MCOperands ==
  {<<{x}, {y}>> : x, y \in 0..12} \cup {<<0..6, 0..6>>, <<0..12, {0, 3, 5, 12}>>}

WordBits == 0 .. Width - 1
MCWordOperands ==
  (SUBSET WordBits) \X ({{}, WordBits} \cup {{b} : b \in WordBits})

MCFactors ==
  [n \in {8, 16} |-> {<<{x}, {y}>> : x, y \in 0 .. n * QwBits - 1}
                      \cup {<<0 .. n * QwBits - 1, 0 .. n * QwBits - 1>>}]
MCSquared == {{x} : x \in 0 .. SqrQwords * QwBits - 1} \cup {0 .. SqrQwords * QwBits - 1}
-----------------------------------------------------------------------------
(* One part runs while the others rest at the end of some product. *)
PolynomialsRest ==
  /\ build = CHOOSE q \in Builds : TRUE
  /\ in = [k \in 1..2 |-> ToQwords({}, build.Pad)]
  /\ c = in[1] /\ sec = <<>> /\ stack = <<>> /\ pc = "done"

WordsRest ==
  /\ wordA = {} /\ wordB = {} /\ wordL = {} /\ wordH = {}
  /\ wordI = Width /\ wordPc = "done"

VectorsRest ==
  /\ vecFn = [op |-> "sqr", vector |-> FALSE]
  /\ vecA = Vec!ToQwords({}, 1) /\ vecB = vecA /\ vecC = Vec!ToQwords({}, 2)
  /\ vecLo = <<>> /\ vecHi = <<>> /\ vecMi = <<>> /\ vecI = 0 /\ vecPc = "done"

MCInit ==
  \/ part = "polynomials" /\ Init /\ WordsRest /\ VectorsRest
  \/ part = "words" /\ Word!Init /\ PolynomialsRest /\ VectorsRest
  \/ part = "vectors" /\ Vec!Init /\ PolynomialsRest /\ WordsRest

PolynomialsNext ==
  part = "polynomials" /\ Next /\ UNCHANGED <<part, wordVars, vecVars>>
WordsNext   == part = "words" /\ Word!Next /\ UNCHANGED <<part, vars, vecVars>>
VectorsNext == part = "vectors" /\ Vec!Next /\ UNCHANGED <<part, vars, wordVars>>

MCNext == PolynomialsNext \/ WordsNext \/ VectorsNext

MCSpec == MCInit /\ [][MCNext]_<<part, vars, wordVars, vecVars>>

(* MulBasePort's: the two words hold the product of what has been          *)
(* multiplied so far, windows and top bits alike.                          *)
PartialProduct == Word!PartialProduct

(* MulBaseX86's: c = a * b and c = a^2 in either file.                     *)
BaseProductsExact == Vec!BaseProductsExact
=============================================================================
