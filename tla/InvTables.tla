------------------------------ MODULE InvTables ------------------------------
(***************************************************************************)
(* The parameters hard-coded in gf2x/gf2x_inv.c for each LEVEL: EXP0_K,    *)
(* EXP0_L, EXP1_K and EXP1_L.                                              *)
(***************************************************************************)
EXTENDS Integers, Sequences

K_SQR_THR == 64

PowersOf2(maxI) == [j \in 1..maxI |-> 2^(j-1)]

Level1 ==
  [R |-> 12323, KSqrThr |-> K_SQR_THR,
   exp0_k |-> PowersOf2(14),
   exp0_l |-> <<6162, 3081, 3851, 5632, 22, 484, 119, 1838, 1742, 3106, 10650,
                1608, 10157, 8816>>,
   exp1_k |-> <<0, 0, 0, 0, 0, 1, 0, 0, 0, 0, 0, 0, 33, 4129>>,
   exp1_l |-> <<0, 0, 0, 0, 0, 6162, 0, 0, 0, 0, 0, 0, 242, 5717>>]

Level3 ==
  [R |-> 24659, KSqrThr |-> K_SQR_THR,
   exp0_k |-> PowersOf2(15),
   exp0_l |-> <<12330, 6165, 7706, 3564, 2711, 1139, 15053, 1258, 4388, 20524,
                9538, 6393, 10486, 1715, 6804>>,
   exp1_k |-> <<0, 0, 0, 0, 1, 0, 17, 0, 0, 0, 0, 0, 0, 81, 8273>>,
   exp1_l |-> <<0, 0, 0, 0, 12330, 0, 13685, 0, 0, 0, 0, 0, 0, 23678, 19056>>]

Level5 ==
  [R |-> 40973, KSqrThr |-> K_SQR_THR,
   exp0_k |-> PowersOf2(16),
   exp0_l |-> <<20487, 30730, 28169, 9443, 13001, 12376, 8302, 6618, 38760,
                21582, 1660, 10409, 14669, 30338, 17745, 7520>>,
   exp1_k |-> <<0, 1, 0, 3, 0, 0, 0, 0, 0, 0, 0, 0, 0, 11, 0, 8203>>,
   exp1_l |-> <<0, 20487, 0, 15365, 0, 0, 0, 0, 0, 0, 0, 0, 0, 6302, 0, 10058>>]
=============================================================================
