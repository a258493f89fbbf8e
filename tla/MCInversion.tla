----------------------------- MODULE MCInversion -----------------------------
(***************************************************************************)
(* gf2x_mod_inv twice over, and the maps of the k-squarings it makes and   *)
(* how they are applied.                                                   *)
(*                                                                         *)
(* Small rings, with the tables made by the recipe in gf2x_inv.c: values   *)
(* are polynomials, and every invertible one is inverted.  2 generates the *)
(* residues modulo these R, as it does for the R of the three LEVELs, so   *)
(* that these are the ones of odd weight but for the full one.             *)
(*                                                                         *)
(* The three LEVELs with the tables of the code: a value is a product of   *)
(* conjugates of the input, a(x^m) for each m of a set.  Squaring takes m  *)
(* to 2m, and the product of all R - 1 conjugates of an invertible         *)
(* polynomial is 1.  0 stands for a product with a repeated factor, which  *)
(* the chain never makes.                                                  *)
(*                                                                         *)
(* The maps are those of the LEVELs, for every l_param that gf2x_inv.c has *)
(* for a k above K_SQR_THR.  map_word_t has 32 bits for LEVEL 5, which     *)
(* with 30 is within the integers of TLC; no sum of two values below       *)
(* R_BITS needs more than 17.                                              *)
(*                                                                         *)
(* They are applied to polynomials of 67 bits in 2 of 3 quad-words, all    *)
(* single terms, which stand for all as no step joins two bits, and some   *)
(* dense ones.                                                             *)
(***************************************************************************)
EXTENDS ModInv, InvTables, FiniteSets

CONSTANTS
  Builds,                               \* of KSqrMap
  BytesR, RQwords, RPadded, Ks, Operands   \* of KSqrBytes

VARIABLES
  part,
  build, l, vmap, mapPos,
  bytesAvx2, bytesK, bytesA, bytesC, a_bytes, c_bytes, bytesPc

mapVars   == <<build, l, vmap, mapPos>>
bytesVars == <<bytesAvx2, bytesK, bytesA, bytesC, a_bytes, c_bytes, bytesPc>>

KSqrMap == INSTANCE KSqrMap WITH i <- mapPos

Bytes == INSTANCE KSqrBytes WITH
  R <- BytesR, avx2 <- bytesAvx2, k <- bytesK, a <- bytesA, c <- bytesC, pc <- bytesPc

Ring(r) == INSTANCE Gf2Ring WITH R <- r

Log2(v) == CHOOSE m \in 0..v : 2^m <= v /\ v < 2^(m+1)
InverseOf2ToThe(k, r) == CHOOSE q \in 1..r-1 : (q * 2^k) % r = 1

(* The recipe for Sage in gf2x_inv.c. *)
Tables(r) ==
  LET maxI   == Log2(r - 2) + 1
      exp0_k == [j \in 1..maxI |-> 2^(j-1)]
      exp1_k == [j \in 1..maxI |->
                   IF ((r - 2) \div 2^(j-1)) % 2 = 1 THEN (r - 2) % 2^(j-1) ELSE 0]
  IN  [R |-> r,
       KSqrThr |-> 2,
       exp0_k |-> exp0_k,
       exp0_l |-> [j \in 1..maxI |-> InverseOf2ToThe(exp0_k[j], r)],
       exp1_k |-> exp1_k,
       exp1_l |-> [j \in 1..maxI |-> InverseOf2ToThe(exp1_k[j], r)]]

(* 2^x modulo r, for x up to r. *)
TwoToMod(r) ==
  LET pw[x \in 0..r] ==
        IF x = 0 THEN 1
        ELSE IF x % 2 = 0 THEN (pw[x \div 2] * pw[x \div 2]) % r
        ELSE (2 * pw[x-1]) % r
  IN  pw

(* What the chain needs of R and of the tables: R is odd and divides       *)
(* 2^(R-1) - 1, EXP0_K has the powers of 2, EXP1_K for each digit 1 of     *)
(* R - 2 but the lowest what the digits below it stand for, and each l is  *)
(* the inverse of 2^k.                                                     *)
TablesRight(q) ==
  LET maxI == Len(q.exp0_k)
      pow  == TwoToMod(q.R)
  IN  /\ q.R \in Nat /\ q.R % 2 = 1 /\ q.R > 2 /\ pow[q.R - 1] = 1
      /\ q.KSqrThr \in Nat /\ maxI \in Nat /\ maxI > 1
      /\ q.exp0_k \in [1..maxI -> 1 .. q.R - 2] /\ q.exp0_k[1] = 1
      /\ \A j \in 1..maxI-1 : q.exp0_k[j + 1] = 2 * q.exp0_k[j]
      /\ q.R - 2 < 2 * q.exp0_k[maxI]
      /\ \A j \in 2..maxI :
           q.exp1_k[j] = IF ((q.R - 2) \div q.exp0_k[j]) % 2 = 1
                         THEN (q.R - 2) % q.exp0_k[j] ELSE 0
      /\ \A j \in 1..maxI-1 : (q.exp0_l[j] * pow[q.exp0_k[j]]) % q.R = 1
      /\ \A j \in 2..maxI :
           q.exp1_k[j] # 0 => (q.exp1_l[j] * pow[q.exp1_k[j]]) % q.R = 1
      /\ \A j \in 1..maxI : {q.exp0_l[j], q.exp1_l[j]} \subseteq 0 .. q.R - 1

SmallRings == {Tables(5), Tables(11), Tables(13)}
RealLevels == {Level1, Level3, Level5}
MCLevels   == SmallRings \cup RealLevels

MCInputs(q) ==
  IF q \in RealLevels THEN {{1}}
  ELSE {c \in SUBSET (0 .. q.R - 1) : Cardinality(c) % 2 = 1 /\ Cardinality(c) < q.R}

MCTimes(q, x, y) ==
  IF q \in SmallRings THEN Ring(q.R)!Mul(x, y)
  ELSE IF x \cap y = {} /\ 0 \notin x \cup y THEN x \cup y ELSE {0}

MCUnit(q) == IF q \in RealLevels THEN 1 .. q.R - 1 ELSE {0}

Above64(level) ==
  {level.exp0_l[j] : j \in {j \in 1..Len(level.exp0_k) : level.exp0_k[j] > 64}}
    \cup
  {level.exp1_l[j] : j \in {j \in 1..Len(level.exp1_k) : level.exp1_k[j] > 64}}

Build(level, padded, avx2, numVals, wordBits) ==
  [R |-> level.R, RPadded |-> padded, avx2 |-> avx2,
   NumVals |-> numVals, WordBits |-> wordBits, Params |-> Above64(level)]

MCBuilds ==
  {Build(Level1, 16384, TRUE, 32, 16), Build(Level1, 16384, FALSE, 64, 16),
   Build(Level3, 32768, TRUE, 32, 16), Build(Level3, 32768, FALSE, 64, 16),
   Build(Level5, 65536, TRUE, 16, 30), Build(Level5, 65536, FALSE, 32, 30)}

MCOperands ==
  {{j} : j \in 0 .. BytesR-1} \cup {{}, 0 .. BytesR-1, {j \in 0 .. BytesR-1 : j % 3 = 0}}

ASSUME ChainParameters == \A q \in Levels : TablesRight(q)

ASSUME MapParameters == KSqrMap!BuildsAssumption /\ Bytes!BytesAssumption
-----------------------------------------------------------------------------
(* One part runs while the others rest. *)
InversionRests ==
  /\ p = Tables(5)
  /\ a = {0} /\ f = a /\ g = {} /\ t = a /\ i = 1 /\ n = 0 /\ pc = "exp0"

MapRests ==
  /\ build = CHOOSE q \in Builds : TRUE
  /\ l = 0 /\ vmap = [lane \in KSqrMap!Lanes |-> 0] /\ mapPos = 0

BytesRest ==
  /\ bytesAvx2 = FALSE /\ bytesK = 1 /\ bytesA = {} /\ bytesC = {}
  /\ a_bytes = <<>> /\ c_bytes = <<>> /\ bytesPc = "done"

MCInit ==
  \/ part = "inversion" /\ Init /\ MapRests /\ BytesRest
  \/ part = "map" /\ KSqrMap!Init /\ InversionRests /\ BytesRest
  \/ part = "bytes" /\ Bytes!Init /\ InversionRests /\ MapRests

InversionNext == part = "inversion" /\ Next /\ UNCHANGED <<part, mapVars, bytesVars>>
MapNext       == part = "map" /\ KSqrMap!Next /\ UNCHANGED <<part, vars, bytesVars>>
BytesNext     == part = "bytes" /\ Bytes!Next /\ UNCHANGED <<part, vars, mapVars>>

MCNext == InversionNext \/ MapNext \/ BytesNext

MCSpec == MCInit /\ [][MCNext]_<<part, vars, mapVars, bytesVars>>
-----------------------------------------------------------------------------
(* KSqrMap's: the map is the multiplication by l_param.                    *)
MapRight == KSqrMap!MapRight

(* KSqrBytes's: the result of applying it is the k-squaring of a.          *)
KSquared == Bytes!KSquared
=============================================================================
