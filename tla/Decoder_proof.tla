---------------------------- MODULE Decoder_proof ----------------------------
(***************************************************************************)
(* Proofs about the decoder, MCBgfDecoder, and its parts, MCFindErr:       *)
(* rotate_right of all three versions is a rotation, for every size of the *)
(* syndrome, of a quad-word and of the registers that RotateAssumption     *)
(* admits; the bit-sliced counter counts, for every LEVEL whose slices     *)
(* suffice for its thresholds; and the syndrome the decoder counts in is   *)
(* that of what is left of the error, so that an error whose positions     *)
(* share few enough checks is found.                                       *)
(*                                                                         *)
(* A quad-word is a Run: it holds QwBits bits of the syndrome from some    *)
(* bit on, around the syndrome's end.  dup makes the first 3 * R_QWORDS -  *)
(* 1 quad-words such runs, each going on where the one below it ends; a    *)
(* turn of the barrel shifter moves them down and uses up registers at the *)
(* top; the last shift puts each together from two.                        *)
(*                                                                         *)
(* Slice k of the counter is bit k of the count, and after the subtraction *)
(* bit k in two's complement of what the count is above the threshold,     *)
(* which floor division and remainder give for negative numbers too.       *)
(*                                                                         *)
(* A check of a position that the error has no other position in fails     *)
(* exactly when the position is in the error (OwnChecks); the rest is how  *)
(* many checks there are of that kind (CountOfError).                      *)
(***************************************************************************)
EXTENDS MCFindErr, MCBgfDecoder, Gf2Ring_proof, WellFoundedInduction, TLAPS

(***************************************************************************)
(* Numbers.                                                                *)
(***************************************************************************)

(* Where the quotient lies. *)
LEMMA Quotient ==
  ASSUME NEW w \in Int, NEW q \in Nat \ {0}, NEW d, d = w \div q
  PROVE  d \in Int /\ q * d <= w /\ w < q * d + q
<1> DEFINE m == w % q
<1>1. m = w % q
  OBVIOUS
<1> HIDE DEF m
<1>2. d \in Int /\ m \in 0..q-1 /\ w = q * d + m
  BY <1>1, Divided
<1>3. QED
  BY <1>2

(* They are the only numbers that are so. *)
LEMMA DivisionIs ==
  ASSUME NEW q \in Nat \ {0}, NEW d \in Int, NEW m \in 0..q-1,
         NEW w, w = q * d + m
  PROVE  w \in Int /\ w \div q = d /\ w % q = m
<1> DEFINE off == w \div q
           n == w % q
           k == off - d
<1>1. q * d \in Int /\ w \in Int
  OBVIOUS
<1>2. off \in Int /\ n \in 0..q-1 /\ w = q * off + n
  BY <1>1, Divided
<1> HIDE DEF off, n
<1>3. k \in Int /\ q * k = q * off - q * d
  BY <1>2
<1> HIDE DEF k
<1>4. q * k = m - n
  BY <1>1, <1>2, <1>3
<1>5. k < 1
  <2>1. k >= 1 => q * k >= q
    BY <1>3
  <2>2. QED
    BY <1>2, <1>3, <1>4, <2>1
<1>6. k > -1
  <2>1. k <= -1 => q * k <= -q
    BY <1>3
  <2>2. QED
    BY <1>2, <1>3, <1>4, <2>1
<1>7. k = 0
  BY <1>3, <1>5, <1>6
<1>8. off = d /\ n = m
  BY <1>2, <1>4, <1>7 DEF k
<1>9. QED
  BY <1>1, <1>8 DEF off, n

(* Equal up to multiples of q. *)
LEMMA SameRemainder ==
  ASSUME NEW q \in Nat \ {0}, NEW x \in Int, NEW y \in Int, y = x - q
  PROVE  x % q = y % q
<1> DEFINE d == x \div q
           m == x % q
<1>1. d \in Int /\ m \in 0..q-1 /\ x = q * d + m
  BY Divided
<1> HIDE DEF d, m
<1>2. d - 1 \in Int /\ q * (d - 1) = q * d - q
  BY <1>1
<1>3. y = q * (d - 1) + m
  BY <1>1, <1>2
<1>4. y % q = m
  BY <1>1, <1>2, <1>3, DivisionIs
<1>5. QED
  BY <1>4 DEF m

(* Counting up from 0 reaches every number up to n. *)
LEMMA CountingUp ==
  ASSUME NEW n \in Nat, NEW G \in SUBSET (0..n),
         0 \in G, \A k \in G : k < n => k + 1 \in G
  PROVE  G = 0..n
<1> DEFINE Missing == (0..n) \ G
           Bad == {x \in SUBSET (0..n) : \E k \in Missing : x = 0..k}
<1>1. SUFFICES ASSUME NEW m \in Missing
               PROVE  FALSE
  OBVIOUS
<1>9. 0..m \in Bad
  OBVIOUS
<1>2. Bad \subseteq FiniteSubsetsOf(0..n)
  BY FS_Interval, FS_Subset DEF FiniteSubsetsOf
<1>3. IsWellFoundedOn(StrictSubsetOrdering(0..n), FiniteSubsetsOf(0..n))
  BY FS_StrictSubsetOrderingWellFounded
<1> HIDE DEF Bad
<1>4. PICK x \in Bad : \A y \in Bad : ~(<<y, x>> \in StrictSubsetOrdering(0..n))
  BY <1>9, <1>2, <1>3, WFMin
<1> USE DEF Bad
<1>5. PICK k \in Missing : x = 0..k
  OBVIOUS
<1>6. k - 1 \in Missing
  BY <1>5
<1>7. <<0..k-1, x>> \in StrictSubsetOrdering(0..n)
  BY <1>5, <1>6 DEF StrictSubsetOrdering
<1>8. QED
  BY <1>4, <1>6, <1>7

(* A function whose value at k is made of its values below k: next[k] does *)
(* not see the others.                                                     *)
Recursive(f, n, next) == \A k \in 0..n : f[k] = next[k][f]

OnlyBelow(n, S, next) ==
  \A k \in 0..n : \A f, g \in [0..n -> S] :
     (\A j \in 0..k-1 : f[j] = g[j]) => next[k][f] = next[k][g]

(* Such a function exists. *)
LEMMA RecursionExists ==
  ASSUME NEW n \in Nat, NEW S, NEW s0 \in S,
         NEW next \in [0..n -> [[0..n -> S] -> S]], OnlyBelow(n, S, next)
  PROVE  \E f \in [0..n -> S] : Recursive(f, n, next)
<1> DEFINE Upto(f, k) == \A j \in 0..k : f[j] = next[j][f]
           G == {k \in 0..n : \E f \in [0..n -> S] : Upto(f, k)}
<1>1. ASSUME NEW k \in 0..n, NEW f \in [0..n -> S],
             \A j \in 0..k-1 : f[j] = next[j][f]
      PROVE  k \in G
  <2> DEFINE g == [j \in 0..n |-> IF j = k THEN next[k][f] ELSE f[j]]
  <2>1. next[k][f] \in S
    OBVIOUS
  <2>2. g \in [0..n -> S] /\ g[k] = next[k][f]
        /\ \A j \in 0..k-1 : g[j] = f[j]
    BY <2>1
  <2> HIDE DEF g
  <2>3. ASSUME NEW j \in 0..k
        PROVE  g[j] = next[j][g]
    <3>1. next[j][g] = next[j][f]
      <4>1. j \in 0..n /\ \A off \in 0..j-1 : g[off] = f[off]
        BY <2>2
      <4>2. QED
        BY <2>2, <4>1 DEF OnlyBelow
    <3>2. CASE j = k
      BY <2>2, <3>1, <3>2
    <3>3. CASE j \in 0..k-1
      BY <1>1, <2>2, <3>1, <3>3
    <3>4. QED
      BY <3>2, <3>3
  <2>4. QED
    BY <2>2, <2>3
<1>2. 0 \in G
  <2> DEFINE f == [j \in 0..n |-> s0]
  <2>1. f \in [0..n -> S]
    OBVIOUS
  <2>2. 0 \in 0..n /\ \A j \in 0..0-1 : f[j] = next[j][f]
    OBVIOUS
  <2> HIDE DEF f, G
  <2>3. QED
    BY <1>1, <2>1, <2>2
<1>3. ASSUME NEW k \in G, k < n
      PROVE  k + 1 \in G
  <2>1. PICK f \in [0..n -> S] : Upto(f, k)
    OBVIOUS
  <2>2. k + 1 \in 0..n /\ \A j \in 0..(k+1)-1 : f[j] = next[j][f]
    BY <1>3, <2>1
  <2> HIDE DEF G, Upto
  <2>3. QED
    BY <1>1, <2>2
<1>4. G = 0..n
  <2>1. G \in SUBSET (0..n)
    OBVIOUS
  <2> HIDE DEF G
  <2>2. QED
    BY <1>2, <1>3, <2>1, CountingUp
<1>5. n \in G
  <2> HIDE DEF G
  <2>1. QED
    BY <1>4
<1>6. \E f \in [0..n -> S] : Upto(f, n)
  BY <1>5
<1>7. QED
  BY <1>6 DEF Recursive

(***************************************************************************)
(* rotate_right, of SyndromeRotate.                                        *)
(***************************************************************************)

RQ      == Rotate!RQwords
Regs(v) == Rotate!RRegs(v)

(* The syndrome ends Trail bits before the end of its last quad-word. *)
LEMMA Sizes ==
  /\ R \in Nat \ {0} /\ QwBits \in Nat \ {0} /\ RQ \in Nat \ {0}
  /\ Rotate!Lead \in 1 .. QwBits - 1 /\ Rotate!Trail \in 1 .. QwBits - 1
  /\ Rotate!Trail = QwBits - Rotate!Lead
  /\ QwBits * RQ = R + Rotate!Trail
<1> DEFINE d == R \div QwBits
           m == R % QwBits
<1>1. R \in Nat \ {0} /\ QwBits \in Nat \ {0} /\ m # 0
  BY RotateParameters DEF Rotate!RotateAssumption, Rotate!Lead
<1>2. d \in Int /\ m \in 0..QwBits-1 /\ R = QwBits * d + m
  BY <1>1, Divided
<1>3. Rotate!Lead = m /\ Rotate!Trail = QwBits - m
  BY DEF Rotate!Lead, Rotate!Trail
<1> HIDE DEF d, m
<1>4. m - 1 \in 0..QwBits-1 /\ d + 1 \in Int
  BY <1>1, <1>2
<1>5. QwBits * (d + 1) = QwBits * d + QwBits /\ QwBits * d \in Int
  BY <1>1, <1>2
<1> DEFINE w == R + QwBits - 1
           off == d + 1
<1>6. w = QwBits * off + (m - 1)
  BY <1>1, <1>2, <1>5
<1>7. w \div QwBits = off
  <2>1. off \in Int
    BY <1>4
  <2> HIDE DEF w, off
  <2>2. QED
    BY <1>1, <1>4, <1>6, <2>1, DivisionIs
<1>8. RQ = d + 1
  BY <1>7 DEF RQ, Rotate!RQwords, Rotate!CeilDiv
<1>9. d >= 0
  <2>1. d <= -1 => QwBits * d <= -QwBits
    BY <1>1, <1>2
  <2>2. QED
    BY <1>1, <1>2, <1>5, <2>1
<1>10. QED
  BY <1>1, <1>2, <1>3, <1>5, <1>8, <1>9

(* The registers of a version cover the syndrome, and none is empty. *)
LEMMA RegisterSizes ==
  ASSUME NEW v \in Rotate!Versions,
         NEW w, w = RegQwords[v], NEW k, k = Regs(v), NEW n, n = w * QwBits
  PROVE  /\ w \in Nat \ {0} /\ n \in Nat \ {0} /\ k \in Nat \ {0}
         /\ n * k >= R /\ n * k < R + n /\ k \div 2 \in 0..RQ
         /\ RQ <= w * k
<1>1. R \in Nat \ {0} /\ QwBits \in Nat \ {0} /\ RQ \in Nat \ {0}
  BY Sizes
<1>2. w \in Nat \ {0}
  BY RotateParameters DEF Rotate!RotateAssumption
<1>3. n \in Nat \ {0} /\ n >= QwBits
  BY <1>1, <1>2
<1> DEFINE r == R + n - 1
<1>4. k = r \div n
  BY DEF Regs, Rotate!RRegs, Rotate!CeilDiv
<1>5. r \in Int
  BY <1>1, <1>3
<1>6. k \in Int /\ n * k <= R + n - 1 /\ R - 1 < n * k
  <2> HIDE DEF r
  <2>1. k \in Int /\ n * k <= r /\ r < n * k + n
    BY <1>3, <1>4, <1>5, Quotient
  <2>2. QED
    BY <1>1, <1>3, <2>1 DEF r
<1>7. n * k \in Int /\ n * k >= R /\ n * k < R + n
  BY <1>1, <1>3, <1>6
<1>8. k >= 1
  <2>1. k <= 0 => n * k <= 0
    BY <1>3, <1>6
  <2>2. QED
    BY <1>1, <1>6, <1>7, <2>1
<1>9. k <= RQ
  <2> DEFINE off == k - 1
  <2>0. off \in Nat /\ k = off + 1
    BY <1>6, <1>8
  <2>1. off \in Nat /\ n * k = n * off + n /\ n * off \in Nat /\ QwBits * off \in Nat
    BY <1>1, <1>3, <2>0
  <2>2. QwBits * off <= n * off
    BY <1>1, <1>3, <2>1
  <2>3. QwBits * RQ < R + QwBits
    BY Sizes
  <2>4. off >= RQ => QwBits * off >= QwBits * RQ /\ QwBits * RQ \in Nat
    BY <1>1, <2>1
  <2>5. QwBits * RQ >= R
    BY Sizes
  <2> HIDE DEF off
  <2>6. off < RQ
    BY <1>1, <1>3, <1>7, <2>1, <2>2, <2>4, <2>5
  <2>7. QED
    BY <1>1, <1>6, <2>6 DEF off
<1>10. RQ <= w * k
  <2> DEFINE off == w * k
             f == RQ - 1
  <2>1. off \in Nat /\ QwBits * off = n * k
    BY <1>1, <1>2, <1>6, <1>8
  <2>2. f \in Nat /\ QwBits * f = QwBits * RQ - QwBits /\ QwBits * RQ \in Nat
    BY <1>1
  <2>3. QwBits * RQ < R + QwBits
    BY Sizes
  <2> HIDE DEF off, f
  <2>4. off <= f => QwBits * off <= QwBits * f
    BY <1>1, <2>1, <2>2
  <2>5. ~(off <= f)
    BY <1>1, <1>7, <2>1, <2>2, <2>3, <2>4
  <2>6. QED
    BY <1>1, <2>1, <2>2, <2>5 DEF off, f
<1>11. k \div 2 \in 0..RQ
  BY <1>1, <1>6, <1>8, <1>9
<1>12. QED
  BY <1>2, <1>3, <1>6, <1>7, <1>8, <1>10, <1>11

(* x can be halved down to 1. *)
TwoPower(x) ==
  \E sizes \in SUBSET (1..x) :
    /\ x \in sizes
    /\ \A y \in sizes : y = 1 \/ (y % 2 = 0 /\ y \div 2 \in sizes)

(* The half of a power of 2 is one, and so is the double. *)
LEMMA TwoPowers ==
  /\ TwoPower(1)
  /\ \A x \in Nat \ {0} :
       TwoPower(x) => /\ TwoPower(2 * x)
                      /\ x # 1 => x % 2 = 0 /\ TwoPower(x \div 2)
<1>1. TwoPower(1)
  <2>1. {1} \in SUBSET (1..1)
    OBVIOUS
  <2>2. QED
    BY <2>1 DEF TwoPower
<1>2. ASSUME NEW x \in Nat \ {0}, TwoPower(x)
      PROVE  /\ TwoPower(2 * x)
             /\ x # 1 => x % 2 = 0 /\ TwoPower(x \div 2)
  <2>1. PICK sizes \in SUBSET (1..x) :
          /\ x \in sizes
          /\ \A y \in sizes : y = 1 \/ (y % 2 = 0 /\ y \div 2 \in sizes)
    BY <1>2 DEF TwoPower
  <2>2. TwoPower(2 * x)
    <3> DEFINE more == sizes \cup {2 * x}
    <3>1. more \in SUBSET (1 .. 2 * x)
      OBVIOUS
    <3>2. (2 * x) % 2 = 0 /\ (2 * x) \div 2 = x
      OBVIOUS
    <3>3. \A y \in more : y = 1 \/ (y % 2 = 0 /\ y \div 2 \in more)
      BY <2>1, <3>2
    <3>4. 2 * x \in more
      OBVIOUS
    <3> HIDE DEF more
    <3>5. QED
      BY <3>1, <3>3, <3>4 DEF TwoPower
  <2>3. ASSUME x # 1
        PROVE  x % 2 = 0 /\ TwoPower(x \div 2)
    <3> DEFINE h == x \div 2
               less == sizes \cap (1..h)
    <3>1. x % 2 = 0 /\ h \in sizes
      BY <2>1, <2>3
    <3>2. less \in SUBSET (1..h) /\ h \in less
      BY <3>1
    <3>3. ASSUME NEW y \in less
          PROVE  y = 1 \/ (y % 2 = 0 /\ y \div 2 \in less)
      <4>1. y \in sizes /\ y \in 1..x /\ h \in 1..x /\ y \in 1..h
        BY <3>1, <2>1
      <4>2. CASE y = 1
        BY <4>2
      <4>3. CASE y # 1
        <5>1. y % 2 = 0 /\ y \div 2 \in sizes
          BY <2>1, <4>1, <4>3
        <5> HIDE DEF h
        <5>2. y \div 2 \in 1..h
          BY <2>1, <4>1, <5>1
        <5>3. QED
          BY <5>1, <5>2
      <4>4. QED
        BY <4>2, <4>3
    <3> HIDE DEF less
    <3>4. QED
      BY <3>1, <3>2, <3>3 DEF TwoPower
  <2>4. QED
    BY <2>2, <2>3
<1>3. QED
  BY <1>1, <1>2

(* UPTOPOW2 gives a power of 2. *)
LEMMA UpToPow2Is ==
  /\ Rotate!UpToPow2[0] = 0
  /\ \A v \in 1..RQ : /\ Rotate!UpToPow2[v] \in Nat \ {0}
                      /\ TwoPower(Rotate!UpToPow2[v])
<1> DEFINE next == [v \in 0..RQ |-> [f \in [0..RQ -> Nat] |->
                      IF v <= 1 THEN v ELSE 2 * f[(v + 1) \div 2]]]
           Def(f) == f = [v \in 0..RQ |->
                            IF v <= 1 THEN v ELSE 2 * f[(v + 1) \div 2]]
<1>1. RQ \in Nat \ {0}
  BY Sizes
<1>2. \A v \in 0..RQ : ~(v <= 1) => (v + 1) \div 2 \in 0..v-1
  BY <1>1
<1>3. next \in [0..RQ -> [[0..RQ -> Nat] -> Nat]]
  <2>1. ASSUME NEW v \in 0..RQ, NEW f \in [0..RQ -> Nat]
        PROVE  (IF v <= 1 THEN v ELSE 2 * f[(v + 1) \div 2]) \in Nat
    BY <1>1, <1>2
  <2>2. QED
    BY <2>1
<1>4. OnlyBelow(RQ, Nat, next)
  <2>1. SUFFICES ASSUME NEW v \in 0..RQ,
                        NEW f \in [0..RQ -> Nat], NEW g \in [0..RQ -> Nat],
                        \A j \in 0..v-1 : f[j] = g[j]
                 PROVE  next[v][f] = next[v][g]
    BY DEF OnlyBelow
  <2>2. ~(v <= 1) => f[(v + 1) \div 2] = g[(v + 1) \div 2]
    BY <1>2, <2>1
  <2>3. QED
    BY <2>2
<1>5. PICK f \in [0..RQ -> Nat] : Recursive(f, RQ, next)
  <2>1. RQ \in Nat /\ 0 \in Nat
    BY <1>1
  <2> HIDE DEF next
  <2>2. QED
    BY <2>1, <1>3, <1>4, RecursionExists
<1>6. Def(f)
  BY <1>5 DEF Recursive
<1>7. Rotate!UpToPow2 = CHOOSE g : Def(g)
  BY DEF Rotate!UpToPow2, RQ
<1> HIDE DEF Def
<1>8. Def(Rotate!UpToPow2)
  BY <1>6, <1>7, Zenon
<1> USE DEF Def
<1>9. \A v \in 0..RQ : Rotate!UpToPow2[v]
        = IF v <= 1 THEN v ELSE 2 * Rotate!UpToPow2[(v + 1) \div 2]
  BY <1>8
<1> DEFINE P(v) == v # 0 => /\ Rotate!UpToPow2[v] \in Nat \ {0}
                            /\ TwoPower(Rotate!UpToPow2[v])
           G == {v \in 0..RQ : \A u \in 0..v : P(u)}
<1> HIDE DEF next, Def
<1>10. 0 \in G
  BY <1>1
<1>11. ASSUME NEW k \in G, k < RQ
       PROVE  k + 1 \in G
  <2>1. k + 1 \in 0..RQ /\ \A u \in 0..k : P(u)
    BY <1>1, <1>11
  <2>2. P(k + 1)
    <3>1. CASE k = 0
      <4>1. Rotate!UpToPow2[k + 1] = 1
        BY <1>9, <2>1, <3>1
      <4>2. QED
        BY <4>1, TwoPowers
    <3>2. CASE k # 0
      <4> DEFINE h == (k + 1 + 1) \div 2
      <4>1. h \in 1..k /\ Rotate!UpToPow2[k + 1] = 2 * Rotate!UpToPow2[h]
        BY <1>9, <2>1, <3>2
      <4>2. /\ Rotate!UpToPow2[h] \in Nat \ {0}
            /\ TwoPower(Rotate!UpToPow2[h])
        BY <2>1, <4>1
      <4> HIDE DEF h
      <4> DEFINE up == Rotate!UpToPow2[h]
      <4>3. 2 * up \in Nat \ {0} /\ TwoPower(2 * up)
        <5>1. up \in Nat \ {0} /\ TwoPower(up)
          BY <4>2
        <5> HIDE DEF up
        <5>2. QED
          BY <5>1, TwoPowers
      <4>4. QED
        BY <4>1, <4>3
    <3>3. QED
      BY <3>1, <3>2
  <2> HIDE DEF P
  <2>3. \A u \in 0..k+1 : u \in 0..k \/ u = k + 1
    BY <2>1
  <2>4. QED
    BY <2>1, <2>2, <2>3
<1>12. G = 0..RQ
  <2>1. G \in SUBSET (0..RQ)
    OBVIOUS
  <2> HIDE DEF G
  <2>2. QED
    BY <1>1, <1>10, <1>11, <2>1, CountingUp
<1>13. ASSUME NEW v \in 1..RQ
       PROVE  P(v)
  <2>1. v \in G
    <3> HIDE DEF G
    <3>1. QED
      BY <1>1, <1>12
  <2> HIDE DEF P
  <2>2. QED
    BY <1>1, <2>1
<1>14. Rotate!UpToPow2[0] = 0
  BY <1>1, <1>9
<1>15. QED
  BY <1>1, <1>13, <1>14

(* What the barrel shifter can move by, and what it may read. *)
LEMMA HalfIs ==
  ASSUME NEW v \in Rotate!Versions,
         NEW w, w = RegQwords[v], NEW k, k = Regs(v), NEW h, h = Rotate!Half(v)
  PROVE  /\ h \in Nat \ {0} /\ TwoPower(h) /\ k <= 2 * h
         /\ 3 * RQ > w * (k + 2 * h)
<1>1. /\ k <= 2 * h /\ 3 * RQ > w * (k + 2 * h)
  BY RotateParameters DEF Rotate!RotateAssumption, Regs, RQ
<1>2. k \in Nat \ {0} /\ k \div 2 \in 0..RQ /\ RQ \in Nat
  BY RegisterSizes, Sizes
<1>3. h = Rotate!UpToPow2[k \div 2]
  BY DEF Rotate!Half, Regs
<1>4. k \div 2 # 0
  BY <1>1, <1>2, <1>3, UpToPow2Is
<1>5. k \div 2 \in 1..RQ
  BY <1>2, <1>4
<1>6. QED
  BY <1>1, <1>3, <1>5, UpToPow2Is

(* There are at least two quad-words. *)
LEMMA TwoQwords ==
  RQ \in Nat /\ RQ >= 2 /\ R >= QwBits
<1> DEFINE k == Regs("port")
           h == Rotate!Half("port")
<1>1. "port" \in Rotate!Versions /\ RegQwords["port"] = 1
  BY RotateParameters DEF Rotate!RotateAssumption, Rotate!Versions
<1>2. /\ R \in Nat \ {0} /\ QwBits \in Nat \ {0} /\ RQ \in Nat \ {0}
      /\ Rotate!Trail \in 1 .. QwBits - 1 /\ QwBits * RQ = R + Rotate!Trail
  BY Sizes
<1>3. k \in Nat \ {0} /\ RQ <= 1 * k
  BY <1>1, RegisterSizes
<1>4. h \in Nat \ {0} /\ k <= 2 * h /\ 3 * RQ > 1 * (k + 2 * h)
  BY <1>1, HalfIs
<1> HIDE DEF k, h
<1>5. RQ >= 2
  BY <1>2, <1>3, <1>4
<1>6. QwBits * RQ >= 2 * QwBits /\ QwBits * RQ \in Nat
  BY <1>2, <1>5
<1>7. QED
  BY <1>2, <1>5, <1>6

(* Quad-word f holds the bits of the syndrome from bit x on, around its    *)
(* end.                                                                    *)
Run(f, x) ==
  /\ f \in [0 .. QwBits - 1 -> Int]
  /\ \A off \in 0 .. QwBits - 1 : f[off] = (x + off) % R

(* So do the first lim quad-words, from bit from on. *)
Turned(qws, lim, from) == \A q \in 0 .. lim - 1 : Run(qws[q], q * QwBits + from)

Words == [0 .. 3 * RQ - 1 -> [0 .. QwBits - 1 -> Int]]

(* A quad-word shifted out of two that follow each other. *)
LEMMA FunnelRuns ==
  ASSUME NEW lo, NEW hi, NEW x \in Int, NEW y, y = x + QwBits,
         Run(lo, x), Run(hi, y), NEW n \in 0 .. QwBits - 1, NEW z, z = x + n
  PROVE  Run(Rotate!Funnel(lo, hi, n), z)
<1> DEFINE f == Rotate!Funnel(lo, hi, n)
<1>1. QwBits \in Nat \ {0} /\ R \in Nat \ {0}
  BY Sizes
<1>2. f = [off \in 0 .. QwBits - 1 |->
             IF off + n < QwBits THEN lo[off + n] ELSE hi[off + n - QwBits]]
  BY DEF Rotate!Funnel, Rotate!BitIds
<1>3. ASSUME NEW off \in 0 .. QwBits - 1
      PROVE  f[off] \in Int /\ f[off] = (z + off) % R
  <2>1. CASE off + n < QwBits
    <3>1. off + n \in 0 .. QwBits - 1 /\ f[off] = lo[off + n]
      BY <1>1, <1>2, <2>1
    <3>2. lo[off + n] = (x + (off + n)) % R /\ lo[off + n] \in Int
      BY <3>1 DEF Run
    <3>3. x + (off + n) = z + off
      OBVIOUS
    <3>4. QED
      BY <3>1, <3>2, <3>3
  <2>2. CASE ~(off + n < QwBits)
    <3> DEFINE g == off + n - QwBits
    <3>1. g \in 0 .. QwBits - 1 /\ f[off] = hi[g]
      BY <1>1, <1>2, <2>2
    <3>2. y + g = z + off
      BY <1>1
    <3> HIDE DEF f, g
    <3>3. hi[g] = (y + g) % R /\ hi[g] \in Int
      BY <3>1 DEF Run
    <3>4. QED
      BY <3>1, <3>2, <3>3
  <2>3. QED
    BY <2>1, <2>2
<1>4. f \in [0 .. QwBits - 1 -> Int]
  BY <1>2, <1>3
<1> HIDE DEF f
<1>5. Run(f, z)
  BY <1>3, <1>4 DEF Run
<1>6. QED
  BY <1>5 DEF f

(* Before dup the syndrome is in the first R bits. *)
Single(qws) ==
  /\ qws \in Words
  /\ \A q \in 0 .. 3 * RQ - 1 : \A off \in 0 .. QwBits - 1 :
       q * QwBits + off < R => qws[q][off] = q * QwBits + off

(* What the bits of the first quad-words are. *)
LEMMA SingleRuns ==
  ASSUME NEW qws, Single(qws)
  PROVE  /\ \A q \in 0 .. RQ - 2 : Run(qws[q], q * QwBits)
         /\ Run(Rotate!Spliced(qws[RQ - 1], qws[0], Rotate!Lead),
                (RQ - 1) * QwBits)
<1>1. /\ QwBits \in Nat \ {0} /\ R \in Nat \ {0} /\ RQ \in Nat /\ RQ >= 2
      /\ R >= QwBits
      /\ Rotate!Lead \in 1 .. QwBits - 1 /\ Rotate!Trail \in 1 .. QwBits - 1
      /\ Rotate!Trail = QwBits - Rotate!Lead
      /\ QwBits * RQ = R + Rotate!Trail
  BY Sizes, TwoQwords
<1>2. ASSUME NEW x \in 0 .. R - 1
      PROVE  x % R = x
  BY <1>1, <1>2
<1>3. ASSUME NEW q \in 0 .. RQ - 2
      PROVE  Run(qws[q], q * QwBits)
  <2>1. q * QwBits \in Nat /\ q * QwBits + QwBits <= R
    <3> DEFINE d == RQ - 2 - q
    <3>1. d \in Nat /\ RQ = q + d + 2
      BY <1>1
    <3> HIDE DEF d
    <3>2. QwBits * RQ = q * QwBits + QwBits * d + 2 * QwBits
      BY <1>1, <3>1
    <3>3. QwBits * d \in Nat /\ q * QwBits \in Nat
      BY <1>1, <3>1
    <3>4. QED
      BY <1>1, <3>2, <3>3
  <2>2. ASSUME NEW off \in 0 .. QwBits - 1
        PROVE  qws[q][off] = (q * QwBits + off) % R
    <3>1. q * QwBits + off \in 0 .. R - 1 /\ q * QwBits + off < R
      BY <1>1, <2>1
    <3>2. q \in 0 .. 3 * RQ - 1
      BY <1>1
    <3>3. qws[q][off] = q * QwBits + off
      BY <3>1, <3>2 DEF Single
    <3> DEFINE x == q * QwBits + off
    <3>4. x % R = x
      <4>1. x \in 0 .. R - 1
        BY <3>1
      <4> HIDE DEF x
      <4>2. QED
        BY <1>2, <4>1
    <3>5. QED
      BY <3>3, <3>4
  <2>3. qws[q] \in [0 .. QwBits - 1 -> Int]
    BY <1>1 DEF Single, Words
  <2>4. QED
    BY <2>2, <2>3 DEF Run
<1>4. Run(Rotate!Spliced(qws[RQ - 1], qws[0], Rotate!Lead), (RQ - 1) * QwBits)
  <2> DEFINE f == Rotate!Spliced(qws[RQ - 1], qws[0], Rotate!Lead)
             L == Rotate!Lead
             a == (RQ - 1) * QwBits
  <2>1. f = [off \in 0 .. QwBits - 1 |->
               IF off < L THEN qws[RQ - 1][off] ELSE qws[0][off - L]]
    BY DEF Rotate!Spliced, Rotate!BitIds
  <2>2. a \in Nat /\ a + L = R /\ L \in 1 .. QwBits - 1
    <3>1. (RQ - 1) * QwBits = QwBits * RQ - QwBits
      BY <1>1
    <3>2. QED
      BY <1>1, <3>1
  <2>3. /\ qws[RQ - 1] \in [0 .. QwBits - 1 -> Int]
        /\ qws[0] \in [0 .. QwBits - 1 -> Int]
    <3>1. RQ - 1 \in 0 .. 3 * RQ - 1 /\ 0 \in 0 .. 3 * RQ - 1
      BY <1>1
    <3>2. QED
      BY <3>1 DEF Single, Words
  <2>4. ASSUME NEW off \in 0 .. QwBits - 1, off < L
        PROVE  qws[RQ - 1][off] = (a + off) % R
    <3>1. RQ - 1 \in 0 .. 3 * RQ - 1 /\ a + off < R /\ a + off \in 0 .. R - 1
      <4> HIDE DEF a, L
      <4>1. QED
        BY <1>1, <2>2, <2>4
    <3>2. qws[RQ - 1][off] = a + off
      BY <3>1 DEF Single
    <3> HIDE DEF a, L
    <3>3. QED
      BY <1>2, <3>1, <3>2
  <2>5. ASSUME NEW off \in 0 .. QwBits - 1, ~(off < L)
        PROVE  qws[0][off - L] = (a + off) % R
    <3> DEFINE g == off - L
    <3>1. g \in 0 .. QwBits - 1 /\ g \in 0 .. R - 1 /\ 0 \in 0 .. 3 * RQ - 1
          /\ 0 * QwBits + g = g /\ g < R
      <4> HIDE DEF a, L
      <4>1. QED
        BY <1>1, <2>2, <2>5 DEF g
    <3>2. qws[0][g] = g
      <4> HIDE DEF g
      <4>1. QED
        BY <3>1 DEF Single
    <3>3. (a + off) - R = g /\ a + off \in Int
      <4> HIDE DEF a, L
      <4>1. QED
        BY <1>1, <2>2 DEF g
    <3> HIDE DEF a, L, g
    <3>4. (a + off) % R = g % R
      <4> DEFINE x == a + off
      <4>1. x \in Int /\ g = x - R /\ g \in Int
        BY <3>1, <3>3
      <4> HIDE DEF x
      <4>2. x % R = g % R
        BY <1>1, <4>1, SameRemainder
      <4>3. QED
        BY <4>2 DEF x
    <3>5. g % R = g
      BY <1>2, <3>1
    <3>6. QED
      BY <3>2, <3>4, <3>5 DEF g
  <2>6. ASSUME NEW off \in 0 .. QwBits - 1
        PROVE  f[off] \in Int /\ f[off] = (a + off) % R
    <3>1. f[off] = IF off < L THEN qws[RQ - 1][off] ELSE qws[0][off - L]
      BY <2>1
    <3>2. ~(off < L) => off - L \in 0 .. QwBits - 1
      <4> HIDE DEF L
      <4>1. QED
        BY <1>1, <2>2
    <3>3. QED
      BY <2>3, <2>4, <2>5, <3>1, <3>2
  <2>7. f \in [0 .. QwBits - 1 -> Int]
    BY <2>1, <2>6
  <2> HIDE DEF f, a, L
  <2>8. Run(f, a)
    BY <2>6, <2>7 DEF Run
  <2>9. QED
    BY <2>8 DEF f, a, L
<1>5. QED
  BY <1>3, <1>4

(* dup: behind the syndrome it is repeated, up to the last quad-word,      *)
(* which is not written.                                                   *)
LEMMA DupRuns ==
  ASSUME NEW qws, Single(qws), NEW dup, dup = Rotate!Duplicated(qws)
  PROVE  dup \in Words /\ Turned(dup, 3 * RQ - 1, 0)
<1> DEFINE n == 3 * RQ - 1
           S == [0 .. QwBits - 1 -> Int]
           T == Rotate!Trail
           last == Rotate!Spliced(qws[RQ - 1], qws[0], Rotate!Lead)
           val(f, q) == IF q < RQ - 1 THEN qws[q]
                        ELSE IF q = RQ - 1 THEN last
                        ELSE IF q = 3 * RQ - 1 THEN qws[q]
                        ELSE Rotate!Funnel(f[q - RQ], f[q - RQ + 1], T)
           next == [q \in 0..n |-> [f \in [0..n -> S] |-> val(f, q)]]
           Def(f) == f = [q \in 0..n |-> val(f, q)]
<1>1. /\ QwBits \in Nat \ {0} /\ R \in Nat \ {0} /\ RQ \in Nat /\ RQ >= 2
      /\ n \in Nat /\ T \in 1 .. QwBits - 1 /\ QwBits * RQ = R + T
  BY Sizes, TwoQwords
<1>2. ASSUME NEW q \in 0..n, ~(q < RQ - 1), q # RQ - 1, q # 3 * RQ - 1
      PROVE  q - RQ \in 0..q-1 /\ q - RQ + 1 \in 0..q-1 /\ q - RQ + 1 \in 0..n
             /\ q - RQ \in 0..n
  BY <1>1, <1>2
<1>3. \A q \in 0..n : qws[q] \in S
  BY DEF Single, Words
<1>4. last \in S
  BY SingleRuns DEF Run
<1>5. next \in [0..n -> [[0..n -> S] -> S]]
  <2>1. ASSUME NEW q \in 0..n, NEW f \in [0..n -> S]
        PROVE  val(f, q) \in S
    <3>1. ASSUME NEW lo \in S, NEW hi \in S
          PROVE  Rotate!Funnel(lo, hi, T) \in S
      <4>1. ASSUME NEW off \in 0 .. QwBits - 1
            PROVE  (IF off + T < QwBits THEN lo[off + T]
                                      ELSE hi[off + T - QwBits]) \in Int
        <5>1. IF off + T < QwBits THEN off + T \in 0 .. QwBits - 1
                                ELSE off + T - QwBits \in 0 .. QwBits - 1
          BY <1>1
        <5> HIDE DEF T
        <5>2. QED
          BY <5>1
      <4>2. QED
        BY <4>1 DEF Rotate!Funnel, Rotate!BitIds
    <3>2. CASE q < RQ - 1 \/ q = RQ - 1 \/ q = 3 * RQ - 1
      BY <1>3, <1>4, <3>2
    <3>3. CASE ~(q < RQ - 1 \/ q = RQ - 1 \/ q = 3 * RQ - 1)
      <4>1. f[q - RQ] \in S /\ f[q - RQ + 1] \in S
        BY <1>2, <3>3
      <4> HIDE DEF S, T
      <4>2. QED
        BY <3>1, <3>3, <4>1
    <3>4. QED
      BY <3>2, <3>3
  <2> HIDE DEF val, S
  <2>2. QED
    BY <2>1
<1>6. OnlyBelow(n, S, next)
  <2>1. SUFFICES ASSUME NEW q \in 0..n,
                        NEW f \in [0..n -> S], NEW g \in [0..n -> S],
                        \A j \in 0..q-1 : f[j] = g[j]
                 PROVE  next[q][f] = next[q][g]
    <3> HIDE DEF next, S, n
    <3>1. QED
      BY DEF OnlyBelow
  <2>2. val(f, q) = val(g, q)
    <3>1. CASE q < RQ - 1 \/ q = RQ - 1 \/ q = 3 * RQ - 1
      BY <3>1
    <3>2. CASE ~(q < RQ - 1 \/ q = RQ - 1 \/ q = 3 * RQ - 1)
      <4>1. f[q - RQ] = g[q - RQ] /\ f[q - RQ + 1] = g[q - RQ + 1]
        BY <1>2, <2>1, <3>2
      <4>2. QED
        BY <3>2, <4>1
    <3>3. QED
      BY <3>1, <3>2
  <2> HIDE DEF val, S
  <2>3. QED
    BY <2>2
<1>7. PICK f \in [0..n -> S] : Recursive(f, n, next)
  <2>1. qws[0] \in S
    BY <1>1, <1>3
  <2> HIDE DEF next, n, S
  <2>2. QED
    BY <1>1, <1>5, <1>6, <2>1, RecursionExists
<1>8. Def(f)
  <2> HIDE DEF val, S
  <2>1. \A q \in 0..n : f[q] = val(f, q)
    BY <1>7 DEF Recursive
  <2>2. QED
    BY <2>1
<1>9. dup = CHOOSE g : Def(g)
  BY DEF Rotate!Duplicated, Rotate!Qwords, RQ
<1>10. Def(dup)
  <2> HIDE DEF Def
  <2>1. QED
    BY <1>8, <1>9, Zenon
<1>11. \A q \in 0..n : dup[q] = val(dup, q)
  <2> HIDE DEF val
  <2>1. QED
    BY <1>10
<1> DEFINE P(q) == q # n => Run(dup[q], q * QwBits)
           G == {q \in 0..n : \A u \in 0..q : P(u)}
<1>12. /\ \A q \in 0 .. RQ - 2 : Run(qws[q], q * QwBits)
       /\ Run(last, (RQ - 1) * QwBits)
  BY SingleRuns
<1> HIDE DEF next, Def, last
<1>13. ASSUME NEW q \in 0..n, \A u \in 0..q-1 : P(u)
       PROVE  P(q)
  <2>1. SUFFICES ASSUME q # n
                 PROVE  Run(dup[q], q * QwBits)
    OBVIOUS
  <2>2. CASE q < RQ - 1
    <3>1. q \in 0 .. RQ - 2
      BY <1>1, <2>2
    <3>2. dup[q] = qws[q]
      BY <1>1, <1>11, <2>2
    <3>3. QED
      BY <1>12, <3>1, <3>2
  <2>3. CASE q = RQ - 1
    <3>1. dup[q] = last
      BY <1>1, <1>11, <2>3
    <3>2. QED
      BY <1>12, <2>3, <3>1
  <2>4. CASE ~(q < RQ - 1) /\ q # RQ - 1
    <3> DEFINE j == q - RQ
               lo == dup[j]
               hi == dup[j + 1]
               x == j * QwBits
               y == (j + 1) * QwBits
    <3>1. j \in 0..q-1 /\ j + 1 \in 0..q-1 /\ j # n /\ j + 1 # n
      BY <1>1, <1>2, <2>1, <2>4
    <3>2. dup[q] = Rotate!Funnel(lo, hi, T)
      BY <1>11, <2>1, <2>4
    <3>3. Run(lo, x) /\ Run(hi, y)
      BY <1>13, <3>1
    <3>4. x \in Int /\ y = x + QwBits
      BY <1>1, <3>1
    <3>5. x + T = q * QwBits - R
      <4>1. q = RQ + j /\ j \in Nat
        BY <1>1, <3>1
      <4> HIDE DEF j
      <4>2. q * QwBits = QwBits * RQ + j * QwBits
        BY <1>1, <4>1
      <4>3. x = j * QwBits
        OBVIOUS
      <4> HIDE DEF x, T
      <4>4. q * QwBits = (R + T) + x
        BY <1>1, <4>2, <4>3
      <4>5. QED
        BY <1>1, <3>4, <4>4
    <3> DEFINE z == x + T
    <3>6. T \in 0 .. QwBits - 1 /\ z = x + T
      BY <1>1
    <3> HIDE DEF lo, hi, x, y, z, T, j, P, G, val
    <3>7. Run(dup[q], z)
      BY <3>2, <3>3, <3>4, <3>6, FunnelRuns
    <3>8. ASSUME NEW off \in 0 .. QwBits - 1
          PROVE  (z + off) % R = (q * QwBits + off) % R
      <4> DEFINE from == q * QwBits + off
                 t == z + off
      <4>1. from \in Int /\ t \in Int /\ t = from - R
        <5>1. q * QwBits \in Int
          BY <1>1
        <5>2. z = q * QwBits - R
          BY <3>5, <3>6
        <5>3. QED
          BY <1>1, <5>1, <5>2
      <4> HIDE DEF from, t
      <4>2. from % R = t % R
        BY <1>1, <4>1, SameRemainder
      <4>3. QED
        BY <4>2 DEF from, t
    <3>9. QED
      BY <3>7, <3>8 DEF Run
  <2>5. QED
    BY <2>2, <2>3, <2>4
<1> HIDE DEF val
<1>14. 0 \in G
  <2>1. P(0)
    <3>1. 0 \in 0..n /\ 0..(0-1) = {}
      BY <1>1
    <3> HIDE DEF P, n
    <3>2. QED
      BY <1>13, <3>1
  <2> HIDE DEF P
  <2>2. QED
    BY <1>1, <2>1
<1>15. ASSUME NEW k \in G, k < n
       PROVE  k + 1 \in G
  <2>1. k + 1 \in 0..n /\ \A u \in 0..(k+1)-1 : P(u)
    <3> HIDE DEF P
    <3>1. QED
      BY <1>1, <1>15
  <2>2. P(k + 1)
    <3> HIDE DEF P, G, n
    <3>1. QED
      BY <1>13, <2>1
  <2>3. \A u \in 0..k+1 : u \in 0..(k+1)-1 \/ u = k + 1
    BY <1>1
  <2> HIDE DEF P
  <2>4. QED
    BY <2>1, <2>2, <2>3
<1>16. G = 0..n
  <2>1. G \in SUBSET (0..n)
    OBVIOUS
  <2> HIDE DEF G
  <2>2. QED
    BY <1>1, <1>14, <1>15, <2>1, CountingUp
<1>17. ASSUME NEW q \in 0..n-1
       PROVE  Run(dup[q], q * QwBits + 0)
  <2>1. q \in G
    <3> HIDE DEF G
    <3>1. QED
      BY <1>1, <1>16
  <2>2. P(q)
    <3> HIDE DEF P
    <3>1. QED
      BY <1>1, <2>1
  <2>3. q # n /\ q * QwBits + 0 = q * QwBits
    BY <1>1
  <2>4. QED
    BY <2>2, <2>3
<1>18. dup \in Words
  <2>1. dup = [q \in 0..n |-> val(dup, q)]
    BY <1>10 DEF Def
  <2>2. ASSUME NEW q \in 0..n
        PROVE  dup[q] \in S
    <3>1. CASE q = n
      <4>1. dup[q] = qws[q]
        BY <1>1, <1>11, <3>1 DEF val
      <4>2. QED
        BY <1>3, <4>1
    <3>2. CASE q # n
      <4>1. q \in 0..n-1
        BY <1>1, <3>2
      <4>2. QED
        BY <1>17, <4>1 DEF Run
    <3>3. QED
      BY <3>1, <3>2
  <2> HIDE DEF S
  <2>3. QED
    BY <2>1, <2>2 DEF Words, S
<1>19. QED
  BY <1>17, <1>18 DEF Turned

(* The quad-words below last move down by m, or none does.                 *)
Moved(new, qws, m, move, last) ==
  new = [q \in 0 .. 3 * RQ - 1 |->
           IF move /\ q < last THEN qws[q + m] ELSE qws[q]]

(* One turn of the barrel shifter: the quad-words below last move down by  *)
(* m, or stay, and what they are turned by moves up by so many bits.       *)
LEMMA TurnRuns ==
  ASSUME NEW m \in Nat, NEW last \in Nat, NEW lim, lim = last + m,
         lim < 3 * RQ, NEW qws, NEW from \in Int, Turned(qws, lim, from),
         NEW move \in BOOLEAN, NEW new, Moved(new, qws, m, move, last),
         NEW u, u = m * QwBits, NEW t, t = IF move THEN from + u ELSE from
  PROVE  Turned(new, last, t)
<1>0. new = [q \in 0 .. 3 * RQ - 1 |->
               IF move /\ q < last THEN qws[q + m] ELSE qws[q]]
  BY DEF Moved
<1>1. lim \in Nat /\ QwBits \in Nat /\ RQ \in Nat
  BY Sizes
<1>2. ASSUME NEW q \in 0 .. last - 1
      PROVE  Run(new[q], q * QwBits + t)
  <2>1. q \in 0 .. lim - 1 /\ q + m \in 0 .. lim - 1 /\ q \in 0 .. 3 * RQ - 1
    BY <1>1
  <2>2. CASE ~move
    <3>1. new[q] = qws[q] /\ t = from
      BY <1>0, <2>1, <2>2
    <3>2. QED
      BY <2>1, <3>1 DEF Turned
  <2>3. CASE move
    <3>1. new[q] = qws[q + m] /\ t = from + u
      BY <1>0, <2>1, <2>3
    <3>2. Run(qws[q + m], (q + m) * QwBits + from)
      BY <2>1 DEF Turned
    <3>3. (q + m) * QwBits + from = q * QwBits + t
      <4>1. m * QwBits = u /\ m * QwBits \in Int
        BY <1>1
      <4>2. (q + m) * QwBits = q * QwBits + m * QwBits /\ q * QwBits \in Int
        BY <1>1
      <4> DEFINE a == m * QwBits
                 b == q * QwBits
                 c == (q + m) * QwBits
      <4>3. t = from + a /\ c = b + a /\ a \in Int /\ b \in Int
        BY <3>1, <4>1, <4>2
      <4> HIDE DEF a, b, c
      <4>4. c + from = b + t
        BY <4>3
      <4>5. QED
        BY <4>4 DEF b, c
    <3>4. QED
      BY <3>1, <3>2, <3>3
  <2>4. QED
    BY <2>2, <2>3
<1>3. QED
  BY <1>2 DEF Turned

(* The shift by less than a register: quad-word q is made of those f and   *)
(* f + 1 behind it.                                                        *)
LEMMA ShiftRuns ==
  ASSUME NEW qws, NEW lim \in Nat, NEW from \in Int, Turned(qws, lim, from),
         NEW q \in Nat, NEW f \in Nat, q + f + 1 < lim,
         NEW n \in 0 .. QwBits - 1, NEW new,
         new = Rotate!Funnel(qws[q + f], qws[q + f + 1], n),
         NEW m, m = f * QwBits + n
  PROVE  Run(new, q * QwBits + (from + m))
<1> DEFINE a == q + f
           b == q + f + 1
           x == a * QwBits + from
           y == b * QwBits + from
           z == x + n
<1>1. QwBits \in Nat \ {0}
  BY Sizes
<1>2. a \in 0 .. lim - 1 /\ b \in 0 .. lim - 1 /\ b = a + 1
  OBVIOUS
<1>3. new = Rotate!Funnel(qws[a], qws[b], n)
  OBVIOUS
<1>4. f * QwBits \in Int /\ q * QwBits \in Int
      /\ a * QwBits = q * QwBits + f * QwBits
  BY <1>1
<1> HIDE DEF a, b
<1>5. Run(qws[a], x) /\ Run(qws[b], y)
  BY <1>2 DEF Turned
<1>6. b * QwBits = a * QwBits + QwBits /\ a * QwBits \in Int
  BY <1>1, <1>2
<1>7. x \in Int /\ y = x + QwBits
  <2> DEFINE c == a * QwBits
             d == b * QwBits
  <2>1. c \in Int /\ d = c + QwBits
    BY <1>6
  <2> HIDE DEF c, d
  <2>2. c + from \in Int /\ d + from = (c + from) + QwBits
    BY <1>1, <2>1
  <2>3. QED
    BY <2>2 DEF c, d
<1>8. z = q * QwBits + (from + m)
  <2> DEFINE c == a * QwBits
             d == q * QwBits
             off == f * QwBits
  <2>1. c = d + off /\ d \in Int /\ off \in Int /\ m = off + n
    BY <1>4
  <2>2. z = (c + from) + n
    OBVIOUS
  <2> HIDE DEF c, d, off, z
  <2>3. z = d + (from + m)
    BY <2>1, <2>2
  <2>4. QED
    BY <2>3 DEF d
<1> DEFINE lo == qws[a]
           hi == qws[b]
<1>9. z = x + n
  OBVIOUS
<1> HIDE DEF x, y, z, lo, hi
<1>10. Run(Rotate!Funnel(lo, hi, n), z)
  <2>1. Run(lo, x) /\ Run(hi, y)
    BY <1>5 DEF lo, hi
  <2>2. QED
    BY <1>7, <1>9, <2>1, FunnelRuns
<1>11. QED
  BY <1>3, <1>8, <1>10 DEF lo, hi

(* The rest of the amount, in quad-words and bits. *)
LEMMA RestOfAmount ==
  ASSUME version \in Rotate!Versions, amount \in 0 .. R - 1
  PROVE  /\ Rotate!W \in Nat \ {0} /\ Rotate!RegBits = Rotate!W * QwBits
         /\ Rotate!FullQws \in 0 .. Rotate!W - 1
         /\ Rotate!Count64 \in 0 .. QwBits - 1
         /\ amount % Rotate!RegBits = Rotate!FullQws * QwBits + Rotate!Count64
<1> DEFINE w == Rotate!W
           n == Rotate!RegBits
           r == amount % n
           f == r \div QwBits
           m == r % QwBits
<1>1. QwBits \in Nat \ {0} /\ w \in Nat \ {0} /\ n = w * QwBits
  BY Sizes, RegisterSizes DEF Rotate!W, Rotate!RegBits
<1>2. Rotate!FullQws = f /\ Rotate!Count64 = m
  BY DEF Rotate!FullQws, Rotate!Count64
<1>3. r = amount % n /\ f = r \div QwBits /\ m = r % QwBits
  OBVIOUS
<1> HIDE DEF w, n, r, f, m
<1>4. n \in Nat \ {0}
  BY <1>1
<1>5. r \in 0..n-1
  BY <1>3, <1>4
<1>6. f \in Int /\ m \in 0..QwBits-1 /\ r = QwBits * f + m
  <2>1. r \in Int
    BY <1>4, <1>5
  <2>2. /\ r \div QwBits \in Int /\ r % QwBits \in 0..QwBits-1
        /\ r = QwBits * (r \div QwBits) + (r % QwBits)
    BY <1>1, <2>1
  <2>3. QED
    BY <1>3, <2>2
<1>7. f \in 0..w-1
  <2>1. f < 0 => QwBits * f <= -QwBits
    BY <1>1, <1>6
  <2>2. f >= w => QwBits * f >= w * QwBits
    BY <1>1, <1>6
  <2>3. QwBits * f \in Int
    BY <1>1, <1>6
  <2>4. QED
    BY <1>1, <1>5, <1>6, <2>1, <2>2, <2>3
<1>8. QED
  BY <1>1, <1>2, <1>6, <1>7 DEF w, n, r

(* Where a quad-word is in its register. *)
LEMMA LaneOf ==
  ASSUME NEW w \in Nat \ {0}, NEW i \in Nat, NEW k \in Nat, k < w,
         NEW q, q = w * i + k
  PROVE  q \in Nat /\ q \div w = i /\ q % w = k
<1>1. k \in 0..w-1 /\ i \in Int /\ w * i \in Nat
  OBVIOUS
<1>2. QED
  BY <1>1, DivisionIs

(* The register and lane of a quad-word of the syndrome. *)
LEMMA RegisterOf ==
  ASSUME version \in Rotate!Versions, NEW q \in 0 .. RQ - 1,
         NEW w, w = Rotate!W, NEW i, i = q \div w, NEW j, j = q % w
  PROVE  /\ i \in Nat /\ i < Regs(version) /\ j \in 0..w-1 /\ q = w * i + j
         /\ Regs(version) \in Nat /\ w \in Nat \ {0}
<1> DEFINE k == Regs(version)
<1>1. w \in Nat \ {0} /\ k \in Nat \ {0} /\ RQ <= w * k /\ RQ \in Nat
  BY Sizes, RegisterSizes DEF Rotate!W
<1>0. q \in Int /\ i = q \div w /\ j = q % w
  BY <1>1
<1> HIDE DEF k
<1>2. i \in Int /\ j \in 0..w-1 /\ q = w * i + j
  BY ONLY <1>0, <1>1, Divided
<1>3. w * i \in Int /\ w * k \in Int
  BY <1>1, <1>2
<1>4. i >= 0
  <2>1. i <= -1 => w * i <= -w
    BY <1>1, <1>2
  <2>2. QED
    BY <1>1, <1>2, <1>3, <2>1
<1>5. i < k
  <2>1. i >= k => w * i >= w * k
    BY <1>1, <1>2
  <2>2. QED
    BY <1>1, <1>2, <1>3, <2>1
<1>6. QED
  BY <1>1, <1>2, <1>4, <1>5 DEF k

(* A quad-word of a register that is loaded, j behind its first one. *)
LEMMA LoadedIs ==
  ASSUME version \in Rotate!Versions, NEW i \in Nat, i <= Regs(version),
         NEW j \in Nat, j < Rotate!W
  PROVE  Rotate!Loaded(i, j) = out[Rotate!W * i + j]
BY DEF Rotate!Loaded, Regs

(* Which two quad-words a quad-word is made of, in the three versions. *)
MadeOf(new, q) ==
  new[q] = Rotate!Funnel(out[q + Rotate!FullQws], out[q + Rotate!FullQws + 1],
                         Rotate!Count64)

(* decode_portable.c: a register is one quad-word. *)
LEMMA PortMadeOf ==
  ASSUME version = "port", amount \in 0 .. R - 1, NEW q \in 0 .. RQ - 1
  PROVE  MadeOf(Rotate!SmallPort, q)
<1>1. Rotate!FullQws = 0
  <2>1. Rotate!W = 1
    BY RotateParameters DEF Rotate!RotateAssumption, Rotate!W
  <2>2. QED
    BY <2>1, RestOfAmount DEF Rotate!Versions
<1>2. q + 0 = q /\ q \in 0 .. 3 * RQ - 1 /\ q < RQ
  BY Sizes
<1>3. Rotate!SmallPort[q] = Rotate!Funnel(out[q], out[q + 1], Rotate!Count64)
  BY <1>2 DEF Rotate!SmallPort, Rotate!Qwords, RQ
<1>4. QED
  BY <1>1, <1>2, <1>3 DEF MadeOf

(* decode_avx512.c: one of the two may come from the register above. *)
LEMMA Avx512MadeOf ==
  ASSUME version = "avx512", amount \in 0 .. R - 1, NEW q \in 0 .. RQ - 1
  PROVE  MadeOf(Rotate!SmallAvx512, q)
<1> DEFINE w == Rotate!W
           i == q \div w
           j == q % w
           f == Rotate!FullQws
           pick(off) == IF off < w THEN Rotate!Loaded(i, off)
                                ELSE Rotate!Loaded(i + 1, off - w)
<1>1. version \in Rotate!Versions /\ f \in 0..w-1
  BY RestOfAmount DEF Rotate!Versions
<1>2. /\ i \in Nat /\ i < Regs(version) /\ j \in 0..w-1 /\ q = w * i + j
      /\ Regs(version) \in Nat /\ w \in Nat \ {0}
  BY <1>1, RegisterOf
<1>3. q \in 0 .. 3 * RQ - 1 /\ i <= Rotate!RRegs(version)
  BY <1>2, Sizes DEF Regs
<1>4. Rotate!SmallAvx512[q]
        = Rotate!Funnel(pick(j + f), pick(j + f + 1), Rotate!Count64)
  BY <1>3 DEF Rotate!SmallAvx512, Rotate!Qwords, RQ
<1>5. ASSUME NEW off \in Nat, off < 2 * w
      PROVE  pick(off) = out[w * i + off]
  <2>1. CASE off < w
    <3>1. pick(off) = Rotate!Loaded(i, off)
      BY <2>1
    <3>2. i <= Regs(version) /\ off \in Nat /\ w = Rotate!W
      BY <1>2, <1>5
    <3> HIDE DEF pick, w, i
    <3>3. Rotate!Loaded(i, off) = out[Rotate!W * i + off]
      BY <1>1, <1>2, <2>1, <3>2, LoadedIs
    <3>4. QED
      BY <3>1, <3>2, <3>3
  <2>2. CASE ~(off < w)
    <3> DEFINE g == off - w
               h == i + 1
    <3>1. /\ g \in Nat /\ g < w /\ h \in Nat /\ h <= Regs(version)
          /\ w * h + g = w * i + off
      <4> HIDE DEF w, i
      <4>1. w * (i + 1) = w * i + w /\ w * i \in Nat
        BY <1>2
      <4>2. QED
        BY <1>2, <1>5, <2>2, <4>1
    <3> HIDE DEF g, h
    <3>2. Rotate!Loaded(h, g) = out[w * h + g]
      BY <1>1, <3>1, LoadedIs
    <3>3. pick(off) = Rotate!Loaded(h, g)
      BY <2>2 DEF g, h
    <3>4. QED
      BY <3>1, <3>2, <3>3
  <2>3. QED
    BY <2>1, <2>2
<1> HIDE DEF w, i, j, f, pick
<1>6. /\ j + f \in Nat /\ j + f < 2 * w
      /\ j + f + 1 \in Nat /\ j + f + 1 < 2 * w
      /\ w * i + (j + f) = q + f
      /\ w * i + (j + f + 1) = q + f + 1
  <2>1. w * i \in Nat
    BY <1>2
  <2>2. QED
    BY <1>1, <1>2, <2>1
<1>7. /\ pick(j + f) = out[q + f]
      /\ pick(j + f + 1) = out[q + f + 1]
  BY <1>5, <1>6
<1>8. QED
  BY <1>4, <1>7 DEF MadeOf, f

(* decode_avx2.c: the turned registers and the blend pick the same two. *)
LEMMA Avx2MadeOf ==
  ASSUME version = "avx2", amount \in 0 .. R - 1, NEW q \in 0 .. RQ - 1
  PROVE  MadeOf(Rotate!SmallAvx2, q)
<1> DEFINE w == Rotate!W
           i == q \div w
           j == q % w
           f == Rotate!FullQws
           turned(off, g) == Rotate!Loaded(off, (g + f) % w)
           in256(g) == IF g + f < w THEN turned(i, g) ELSE turned(i + 1, g)
           inner == IF j < w - 1 THEN in256(j + 1) ELSE turned(i + 1, 0)
<1>1. version \in Rotate!Versions /\ f \in 0..w-1
  BY RestOfAmount DEF Rotate!Versions
<1>2. /\ i \in Nat /\ i < Regs(version) /\ j \in 0..w-1 /\ q = w * i + j
      /\ Regs(version) \in Nat /\ w \in Nat \ {0}
  BY <1>1, RegisterOf
<1>3. q \in 0 .. 3 * RQ - 1 /\ i <= Rotate!RRegs(version)
  BY <1>2, Sizes DEF Regs
<1>4. Rotate!SmallAvx2[q]
        = Rotate!Funnel(in256(j), inner, Rotate!Count64)
  BY <1>3 DEF Rotate!SmallAvx2, Rotate!Qwords, RQ
<1>5. ASSUME NEW off \in Nat, off <= Regs(version), NEW g \in Nat, NEW h \in 0..w-1,
             (g + f) % w = h
      PROVE  turned(off, g) = out[w * off + h]
  <2>1. Rotate!Loaded(off, h) = out[w * off + h]
    BY <1>1, <1>2, <1>5, LoadedIs
  <2>2. QED
    BY <1>5, <2>1
<1> HIDE DEF turned
<1>6. ASSUME NEW g \in 0..w-1
      PROVE  in256(g) = out[w * i + (g + f)]
  <2> DEFINE x == g + f
  <2>1. CASE x < w
    <3>1. x \in 0..w-1 /\ x % w = x
      <4> HIDE DEF w, f, j, i
      <4>1. QED
        BY <1>1, <1>2, <2>1
    <3>2. i <= Regs(version) /\ g \in Nat
      BY <1>2
    <3> HIDE DEF w, f, j, i
    <3>3. turned(i, g) = out[w * i + x]
      BY <1>2, <1>5, <3>1, <3>2
    <3>4. QED
      BY <2>1, <3>3
  <2>2. CASE ~(x < w)
    <3> DEFINE h == x - w
               k == i + 1
    <3> HIDE DEF w, f, j, i
    <3>1. h \in 0..w-1 /\ x = w * 1 + h
      BY <1>1, <1>2, <2>2
    <3>2. x % w = h
      <4> DEFINE d == 1
      <4>1. x = w * d + h /\ d \in Int
        BY <3>1
      <4> HIDE DEF x, h, d
      <4>2. QED
        BY <1>2, <3>1, <4>1, DivisionIs
    <3>3. k \in Nat /\ k <= Regs(version) /\ g \in Nat
      BY <1>2
    <3>4. w * k + h = w * i + x
      <4>1. w * k = w * i + w /\ w * i \in Nat
        BY <1>2
      <4>2. QED
        BY <1>1, <1>2, <4>1
    <3>5. turned(k, g) = out[w * k + h]
      <4> HIDE DEF k, h
      <4>1. QED
        BY <1>5, <3>1, <3>2, <3>3 DEF x
    <3>6. in256(g) = turned(k, g)
      BY <2>2
    <3>7. QED
      BY <3>4, <3>5, <3>6
  <2>3. QED
    BY <2>1, <2>2
<1>7. inner = out[q + f + 1]
  <2>1. CASE j < w - 1
    <3> DEFINE g == j + 1
    <3> HIDE DEF w, f, j, i, in256
    <3>1. g \in 0..w-1 /\ w * i + (g + f) = q + f + 1
      <4>1. w * i \in Nat
        BY <1>2
      <4>2. QED
        BY <1>1, <1>2, <2>1, <4>1
    <3>2. in256(g) = out[w * i + (g + f)]
      <4> HIDE DEF g
      <4>1. QED
        BY <1>6, <3>1
    <3>3. inner = in256(g)
      BY <2>1
    <3>4. QED
      BY <3>1, <3>2, <3>3
  <2>2. CASE ~(j < w - 1)
    <3> DEFINE k == i + 1
    <3>1. inner = turned(k, 0)
      <4> HIDE DEF w, f, j, i, in256
      <4>1. QED
        BY <2>2
    <3> HIDE DEF w, f, j, i, in256, inner
    <3>2. 0 + f = f /\ f % w = f /\ f \in 0..w-1 /\ 0 \in Nat
      BY <1>1, <1>2
    <3>3. k \in Nat /\ k <= Regs(version)
      BY <1>2
    <3>4. w * k + f = q + f + 1
      <4>1. w * k = w * i + w /\ w * i \in Nat
        BY <1>2
      <4>2. j = w - 1
        BY <1>2, <2>2
      <4>3. QED
        BY <1>1, <1>2, <4>1, <4>2
    <3>5. turned(k, 0) = out[w * k + f]
      <4> HIDE DEF k
      <4>1. QED
        BY <1>5, <3>2, <3>3
    <3>6. QED
      BY <3>1, <3>4, <3>5
  <2>3. QED
    BY <2>1, <2>2
<1>8. in256(j) = out[q + f]
  <2> HIDE DEF w, f, j, i, in256
  <2>1. w * i + (j + f) = q + f
    <3>1. w * i \in Nat
      BY <1>2
    <3>2. QED
      BY <1>1, <1>2, <3>1
  <2>2. QED
    BY <1>2, <1>6, <2>1
<1> HIDE DEF in256, inner
<1>9. QED
  BY <1>4, <1>7, <1>8 DEF MadeOf

(* Whole registers to move by, and the registers that hold the syndrome    *)
(* and as many as the turns that are left may move it by.                  *)
WholeRegs == amount \div Rotate!RegBits

TurnsLeft ==
  /\ idx \in Nat \ {0} /\ TwoPower(idx) /\ idx <= Rotate!Half(version)
  /\ num \in 0 .. 2 * idx - 1 /\ num <= WholeRegs
  /\ Turned(out, Rotate!W * (Regs(version) + 2 * idx),
            (WholeRegs - num) * Rotate!RegBits)

RotatedInv ==
  /\ version \in Rotate!Versions
  /\ amount \in 0 .. R - 1
  /\ rotPc \in {"dup", "big", "small", "done"}
  /\ rotPc = "dup" => Single(out)
  /\ rotPc = "big" => TurnsLeft
  /\ rotPc = "small" =>
       Turned(out, Rotate!W * (Regs(version) + 1), WholeRegs * Rotate!RegBits)
  /\ rotPc = "done" => RotatesRight

(* Whole registers and the rest make up the amount, and there are fewer of *)
(* them than the syndrome has.                                             *)
LEMMA AmountSplit ==
  ASSUME version \in Rotate!Versions, amount \in 0 .. R - 1
  PROVE  /\ WholeRegs \in Nat /\ WholeRegs < Regs(version)
         /\ Rotate!RegBits \in Nat \ {0}
         /\ WholeRegs * Rotate!RegBits + (amount % Rotate!RegBits) = amount
<1> DEFINE n == Rotate!RegBits
           d == WholeRegs
           k == Regs(version)
           m == amount % n
<1>1. /\ n \in Nat \ {0} /\ k \in Nat \ {0} /\ n * k >= R /\ R \in Nat
  BY Sizes, RegisterSizes DEF Rotate!W, Rotate!RegBits
<1>2. amount \in Int /\ d = amount \div n /\ m = amount % n
  BY <1>1 DEF WholeRegs
<1> HIDE DEF n, d, k, m
<1>3. d \in Int /\ m \in 0..n-1 /\ amount = n * d + m
  BY ONLY <1>1, <1>2, Divided
<1>4. n * d \in Int /\ n * k \in Int /\ n * d = d * n
  BY <1>1, <1>3
<1>5. d >= 0
  <2>1. d <= -1 => n * d <= -n
    BY <1>1, <1>3
  <2>2. QED
    BY <1>1, <1>3, <1>4, <2>1
<1>6. d < k
  <2>1. d >= k => n * d >= n * k
    BY <1>1, <1>3
  <2>2. QED
    BY <1>1, <1>3, <1>4, <2>1
<1>7. QED
  <2>1. d \in Nat /\ d < k /\ n \in Nat \ {0}
    BY <1>1, <1>3, <1>5, <1>6
  <2>2. d * n + m = amount
    BY <1>3, <1>4
  <2>3. QED
    BY <2>1, <2>2 DEF n, d, k, m

(* The turns begin. *)
LEMMA DupKeeps ==
  ASSUME RotatedInv, Rotate!Dup
  PROVE  RotatedInv'
<1> DEFINE w == Rotate!W
           k == Regs(version)
           h == Rotate!Half(version)
           n == Rotate!RegBits
           d == WholeRegs
           lim == w * (k + 2 * h)
<1>1. /\ version \in Rotate!Versions /\ amount \in 0 .. R - 1 /\ Single(out)
      /\ out' = Rotate!Duplicated(out) /\ num' = d /\ idx' = h /\ rotPc' = "big"
      /\ version' = version /\ amount' = amount
  BY DEF RotatedInv, Rotate!Dup, WholeRegs
<1>2. /\ w' = w /\ k' = k /\ n' = n /\ d' = d /\ Rotate!Half(version') = h
  BY <1>1 DEF Rotate!W, Rotate!RegBits, WholeRegs
<1>3. /\ h \in Nat \ {0} /\ TwoPower(h) /\ k <= 2 * h /\ 3 * RQ > lim
  BY <1>1, HalfIs DEF Rotate!W
<1>4. d \in Nat /\ d < k /\ n \in Nat \ {0}
  BY <1>1, AmountSplit
<1>5. k \in Nat \ {0} /\ w \in Nat \ {0} /\ RQ \in Nat
  BY <1>1, RegisterSizes, Sizes DEF Rotate!W
<1>6. Turned(out', lim, 0)
  <2>1. Turned(out', 3 * RQ - 1, 0)
    BY <1>1, DupRuns
  <2> HIDE DEF w, k, h
  <2>2. lim \in Nat
    <3>1. k + 2 * h \in Nat
      BY <1>3, <1>5
    <3>2. QED
      BY <1>5, <3>1
  <2> HIDE DEF lim
  <2>3. 0 .. lim - 1 \in SUBSET (0 .. 3 * RQ - 1 - 1)
    BY <1>3, <1>5, <2>2
  <2>4. QED
    BY <2>1, <2>3 DEF Turned
<1>7. (d - d) * n = 0
  <2> HIDE DEF d, n
  <2>1. d - d = 0
    BY <1>4
  <2>2. QED
    BY <1>4, <2>1
<1>8. /\ idx' \in Nat \ {0} /\ TwoPower(idx') /\ idx' <= h
      /\ num' \in 0 .. 2 * idx' - 1 /\ num' <= d
  <2> HIDE DEF d, h, k
  <2>1. QED
    BY <1>1, <1>3, <1>4, <1>5
<1>9. Turned(out', w * (k + 2 * idx'), (d - num') * n)
  <2> HIDE DEF d, h, k, w, n
  <2>1. QED
    BY <1>1, <1>6, <1>7
<1>10. TurnsLeft'
  BY <1>1, <1>2, <1>8, <1>9 DEF TurnsLeft, w, k, h, n, d
<1>11. QED
  BY <1>1, <1>10 DEF RotatedInv

(* A turn keeps what the syndrome is turned by and what is left to turn in *)
(* step, and after the last one nothing is left.                           *)
LEMMA BigKeeps ==
  ASSUME RotatedInv, Rotate!RotateBig
  PROVE  RotatedInv'
<1> DEFINE w == Rotate!W
           k == Regs(version)
           n == Rotate!RegBits
           d == WholeRegs
           move == num >= idx
           last == w * (k + idx)
           lim == w * (k + 2 * idx)
           from == (d - num) * n
           t == IF move THEN from + idx * (w * QwBits) ELSE from
<1>1. /\ version \in Rotate!Versions /\ amount \in 0 .. R - 1 /\ TurnsLeft
      /\ version' = version /\ amount' = amount
      /\ out' = [q \in 0 .. 3 * RQ - 1 |->
                   IF move /\ q < last THEN out[q + w * idx] ELSE out[q]]
      /\ num' = IF move THEN num - idx ELSE num
      /\ idx' = idx \div 2
      /\ rotPc' = IF idx' = 0 THEN "small" ELSE "big"
  BY DEF RotatedInv, Rotate!RotateBig, Rotate!Qwords, RQ, Regs
<1>2. /\ w' = w /\ k' = k /\ n' = n /\ d' = d
      /\ Rotate!Half(version') = Rotate!Half(version)
  BY <1>1 DEF Rotate!W, Rotate!RegBits, WholeRegs
<1>3. /\ idx \in Nat \ {0} /\ TwoPower(idx) /\ idx <= Rotate!Half(version)
      /\ num \in 0 .. 2 * idx - 1 /\ num <= d
      /\ Turned(out, lim, from)
  BY <1>1 DEF TurnsLeft
<1>4. d \in Nat /\ n \in Nat \ {0} /\ n = w * QwBits
  BY <1>1, AmountSplit DEF Rotate!RegBits
<1>5. k \in Nat \ {0} /\ w \in Nat \ {0} /\ RQ \in Nat
  BY <1>1, RegisterSizes, Sizes DEF Rotate!W
<1>6. lim < 3 * RQ
  <2> DEFINE h == Rotate!Half(version)
             b == w * (k + 2 * h)
  <2>1. h \in Nat \ {0} /\ 3 * RQ > b
    BY <1>1, HalfIs DEF Rotate!W
  <2>2. idx <= h
    BY <1>3
  <2> HIDE DEF w, k, h
  <2>3. k + 2 * idx <= k + 2 * h /\ k + 2 * idx \in Nat /\ k + 2 * h \in Nat
    BY <1>3, <1>5, <2>1, <2>2
  <2>4. lim <= b /\ lim \in Nat /\ b \in Nat
    BY <1>5, <2>3
  <2> HIDE DEF lim, b
  <2>5. QED
    BY <1>5, <2>1, <2>4
<1>7. from \in Int /\ move \in BOOLEAN
  <2>1. from \in Int
    <3> HIDE DEF d, n
    <3>1. QED
      BY <1>3, <1>4
  <2>2. QED
    BY <2>1
<1>8. Turned(out', last, t)
  <2> DEFINE m == w * idx
             u == m * QwBits
             new == out'
  <2>1. Moved(new, out, m, move, last)
    BY <1>1 DEF Moved
  <2>2. m \in Nat /\ last \in Nat /\ lim = last + m /\ u = idx * (w * QwBits)
    <3> HIDE DEF w, k
    <3>1. w * idx \in Nat /\ w * k \in Nat
      BY <1>3, <1>5
    <3>2. last = w * k + w * idx /\ lim = w * k + 2 * (w * idx)
      BY <1>3, <1>5
    <3>3. u = idx * (w * QwBits)
      BY <1>3, <1>5, Sizes
    <3>4. QED
      BY <3>1, <3>2, <3>3
  <2>3. Turned(out, lim, from)
    BY <1>3
  <2>4. u = m * QwBits /\ t = IF move THEN from + u ELSE from
    BY <2>2
  <2> HIDE DEF m, u, new, from, t, lim, last, move
  <2>5. Turned(new, last, t)
    BY <1>6, <1>7, <2>1, <2>2, <2>3, <2>4, TurnRuns
  <2>6. QED
    BY <2>5 DEF new
<1>9. t = (d - num') * n
  <2> HIDE DEF d, n, w
  <2>1. CASE move
    <3>1. num' = num - idx /\ d - num' = d - num + idx /\ d - num \in Int
      BY <1>1, <1>3, <1>4, <2>1
    <3>2. t = from + idx * n
      BY <1>4, <2>1
    <3> DEFINE off == d - num
    <3>3. (off + idx) * n = off * n + idx * n
      <4>1. off \in Int
        BY <3>1
      <4> HIDE DEF off
      <4>2. QED
        BY <1>3, <1>4, <4>1
    <3>4. QED
      BY <3>1, <3>2, <3>3
  <2>2. CASE ~move
    BY <1>1, <2>2
  <2>3. QED
    BY <2>1, <2>2
<1>10. num' \in 0 .. idx - 1 /\ num' <= d
  <2> HIDE DEF d
  <2>1. QED
    BY <1>1, <1>3, <1>4
<1>11. CASE idx = 1
  <2>1. idx' = 0 /\ num' = 0
    BY <1>1, <1>10, <1>11
  <2>2. rotPc' = "small"
    BY <1>1, <2>1
  <2>3. Turned(out', w * (k + 1), d * n)
    <3>1. t = d * n
      <4> HIDE DEF d, n, t
      <4>1. QED
        BY <1>4, <1>9, <2>1
    <3>2. last = w * (k + 1)
      BY <1>11
    <3> HIDE DEF d, n, w, k, t, last
    <3>3. QED
      BY <1>8, <3>1, <3>2
  <2>4. QED
    BY <1>1, <1>2, <2>2, <2>3 DEF RotatedInv, w, k, n, d
<1>12. CASE idx # 1
  <2>1. idx % 2 = 0 /\ TwoPower(idx \div 2)
    BY <1>3, <1>12, TwoPowers
  <2>2. idx' \in Nat \ {0} /\ 2 * idx' = idx /\ idx' <= idx
    BY <1>1, <1>3, <2>1
  <2>3. rotPc' = "big"
    BY <1>1, <2>2
  <2>4. TwoPower(idx')
    BY <1>1, <2>1
  <2>5. idx' <= Rotate!Half(version)
    <3> DEFINE h == Rotate!Half(version)
    <3>1. h \in Nat /\ idx <= h
      BY <1>1, <1>3, HalfIs
    <3> HIDE DEF h
    <3>2. idx' <= h
      BY <1>3, <2>2, <3>1
    <3>3. QED
      BY <3>2 DEF h
  <2>6. num' \in 0 .. 2 * idx' - 1
    BY <1>10, <2>2
  <2>7. Turned(out', w * (k + 2 * idx'), (d - num') * n)
    <3> HIDE DEF d, n, w, k, t
    <3>1. last = w * (k + 2 * idx')
      BY <2>2
    <3> HIDE DEF last
    <3>2. QED
      BY <1>8, <1>9, <3>1
  <2>8. TurnsLeft'
    BY <1>2, <1>10, <2>2, <2>4, <2>5, <2>6, <2>7 DEF TurnsLeft, w, k, n, d
  <2>9. QED
    BY <1>1, <2>3, <2>8 DEF RotatedInv
<1>13. QED
  BY <1>11, <1>12

(* The last shift leaves the first quad-words turned by the whole amount.  *)
LEMMA SmallRuns ==
  ASSUME version \in Rotate!Versions, amount \in 0 .. R - 1,
         Turned(out, Rotate!W * (Regs(version) + 1),
                WholeRegs * Rotate!RegBits),
         NEW new, \A q \in 0 .. RQ - 1 : MadeOf(new, q)
  PROVE  Turned(new, RQ, amount)
<1> DEFINE w == Rotate!W
           k == Regs(version)
           from == WholeRegs * Rotate!RegBits
           lim == w * (k + 1)
           f == Rotate!FullQws
           c == Rotate!Count64
           m == f * QwBits + c
<1> SUFFICES ASSUME NEW q \in 0 .. RQ - 1
             PROVE  Run(new[q], q * QwBits + amount)
  BY DEF Turned
<1>1. Turned(out, lim, from)
  OBVIOUS
<1>2. /\ w \in Nat \ {0} /\ f \in 0 .. w - 1 /\ c \in 0 .. QwBits - 1
      /\ amount % Rotate!RegBits = m
  BY RestOfAmount
<1>3. from + (amount % Rotate!RegBits) = amount /\ from \in Int
  <2>1. WholeRegs \in Nat /\ Rotate!RegBits \in Nat
        /\ WholeRegs * Rotate!RegBits + (amount % Rotate!RegBits) = amount
    BY AmountSplit
  <2> DEFINE a == WholeRegs
             b == Rotate!RegBits
  <2>2. a \in Nat /\ b \in Nat
    BY <2>1
  <2> HIDE DEF a, b
  <2>3. a * b \in Int
    BY <2>2
  <2>4. QED
    BY <2>1, <2>3 DEF a, b
<1>4. k \in Nat \ {0} /\ RQ \in Nat /\ RQ <= w * k
  BY RegisterSizes, Sizes DEF Rotate!W
<1>5. new[q] = Rotate!Funnel(out[q + f], out[q + f + 1], c)
  BY DEF MadeOf
<1>6. from + m = amount
  <2> HIDE DEF from, m
  <2>1. QED
    BY <1>2, <1>3
<1> HIDE DEF w, k, from, f, c
<1>7. lim \in Nat /\ lim = w * k + w /\ w * k \in Nat
  BY <1>2, <1>4
<1> HIDE DEF lim
<1>8. q \in Nat /\ f \in Nat /\ q + f + 1 < lim
  BY <1>2, <1>4, <1>7
<1>9. m = f * QwBits + c
  OBVIOUS
<1> HIDE DEF m
<1>10. Run(new[q], q * QwBits + (from + m))
  BY <1>1, <1>2, <1>3, <1>5, <1>7, <1>8, <1>9, ShiftRuns
<1>11. QED
  BY <1>6, <1>10

(* Quad-words turned by the amount are the syndrome rotated by it.         *)
LEMMA TurnedIsRotated ==
  ASSUME NEW qws, NEW a \in Nat, Turned(qws, RQ, a), NEW p0 \in 0 .. R - 1
  PROVE  Rotate!BitAt(qws, p0) = (p0 + a) % R
<1> DEFINE q == p0 \div QwBits
           off == p0 % QwBits
<1>1. QwBits \in Nat \ {0} /\ R \in Nat \ {0} /\ RQ \in Nat
      /\ Rotate!Trail \in Nat /\ QwBits * RQ = R + Rotate!Trail
  BY Sizes
<1>2. p0 \in Int /\ q = p0 \div QwBits /\ off = p0 % QwBits
  BY <1>1
<1>3. Rotate!BitAt(qws, p0) = qws[q][off]
  BY DEF Rotate!BitAt
<1> HIDE DEF q, off
<1>4. q \in Int /\ off \in 0 .. QwBits - 1 /\ p0 = QwBits * q + off
  BY ONLY <1>1, <1>2, Divided
<1>5. QwBits * q \in Int /\ q * QwBits = QwBits * q
  BY <1>1, <1>4
<1>6. q \in 0 .. RQ - 1
  <2>1. q <= -1 => QwBits * q <= -QwBits
    BY <1>1, <1>4
  <2>2. q >= RQ => QwBits * q >= QwBits * RQ
    BY <1>1, <1>4
  <2>3. QED
    BY <1>1, <1>4, <1>5, <2>1, <2>2
<1>7. Run(qws[q], q * QwBits + a)
  BY <1>6 DEF Turned
<1>8. qws[q][off] = (q * QwBits + a + off) % R
  BY <1>4, <1>7 DEF Run
<1>9. q * QwBits + a + off = p0 + a
  <2> DEFINE b == q * QwBits
  <2>1. b \in Int /\ p0 = b + off
    BY <1>4, <1>5
  <2> HIDE DEF b
  <2>2. b + a + off = p0 + a
    BY <1>1, <1>4, <2>1
  <2>3. QED
    BY <2>2 DEF b
<1>10. QED
  BY <1>3, <1>8, <1>9

(* The last shift. *)
LEMMA SmallKeeps ==
  ASSUME RotatedInv, Rotate!RotateSmall
  PROVE  RotatedInv'
<1>1. /\ version \in Rotate!Versions /\ amount \in 0 .. R - 1
      /\ Turned(out, Rotate!W * (Regs(version) + 1), WholeRegs * Rotate!RegBits)
      /\ version' = version /\ amount' = amount /\ rotPc' = "done"
  BY DEF RotatedInv, Rotate!RotateSmall
<1>2. \A q \in 0 .. RQ - 1 : MadeOf(out', q)
  <2>1. CASE version = "port" /\ out' = Rotate!SmallPort
    BY <1>1, <2>1, PortMadeOf
  <2>2. CASE version = "avx2" /\ out' = Rotate!SmallAvx2
    BY <1>1, <2>2, Avx2MadeOf
  <2>3. CASE version = "avx512" /\ out' = Rotate!SmallAvx512
    BY <1>1, <2>3, Avx512MadeOf
  <2>4. QED
    BY <2>1, <2>2, <2>3 DEF Rotate!RotateSmall
<1>3. Turned(out', RQ, amount)
  BY <1>1, <1>2, SmallRuns
<1>4. \A p0 \in 0 .. R - 1 : Rotate!BitAt(out', p0) = (p0 + amount) % R
  <2>1. amount \in Nat
    BY <1>1, Sizes
  <2>2. QED
    BY <1>3, <2>1, TurnedIsRotated
<1>5. RotatesRight'
  BY <1>1, <1>4 DEF RotatesRight, Rotate!RotatesRight, Rotate!BitAt
<1>6. QED
  BY <1>1, <1>5 DEF RotatedInv

(* The invariant of rotate_right.                                          *)
LEMMA RotatedInit ==
  ASSUME Rotate!Init
  PROVE  RotatedInv
<1>1. /\ version \in Rotate!Versions /\ amount \in 0 .. R - 1 /\ rotPc = "dup"
      /\ out = [q \in 0 .. 3 * RQ - 1 |->
                  [b \in 0 .. QwBits - 1 |->
                     IF q * QwBits + b < R THEN q * QwBits + b ELSE -1]]
  BY DEF Rotate!Init, Rotate!Qwords, Rotate!BitIds, Rotate!Nil, RQ
<1>2. QwBits \in Nat \ {0} /\ RQ \in Nat
  BY Sizes
<1>3. \A q \in 0 .. 3 * RQ - 1 : \A b \in 0 .. QwBits - 1 :
        q * QwBits + b \in Int
  BY <1>2
<1>4. out \in Words
  BY <1>1, <1>3 DEF Words
<1>5. Single(out)
  BY <1>1, <1>4 DEF Single
<1>6. QED
  BY <1>1, <1>5 DEF RotatedInv

(* Every step keeps it. *)
LEMMA RotatedStep ==
  ASSUME RotatedInv, [Rotate!Next]_rotVars
  PROVE  RotatedInv'
<1>1. CASE Rotate!Dup
  BY <1>1, DupKeeps
<1>2. CASE Rotate!RotateBig
  BY <1>2, BigKeeps
<1>3. CASE Rotate!RotateSmall
  BY <1>3, SmallKeeps
<1>4. CASE UNCHANGED <<version, amount, out, num, idx, rotPc>>
  BY <1>4
     DEF RotatedInv, TurnsLeft, WholeRegs, RotatesRight, Rotate!RotatesRight,
         Rotate!W, Rotate!RegBits, Rotate!BitAt
<1>5. QED
  BY <1>1, <1>2, <1>3, <1>4 DEF Rotate!Next, rotVars

(* At the end it is what was asked for. *)
LEMMA RotatedEnds ==
  ASSUME RotatedInv
  PROVE  RotatesRight
BY DEF RotatedInv, RotatesRight, Rotate!RotatesRight

(* While it runs the quad-words hold the syndrome turned by what was done. *)
THEOREM RotationStepsRight == Rotate!Spec => []RotatedInv
<1>1. Rotate!Init => RotatedInv
  BY RotatedInit
<1>2. RotatedInv /\ [Rotate!Next]_rotVars => RotatedInv'
  BY RotatedStep
<1>3. QED
  BY <1>1, <1>2, PTL DEF Rotate!Spec, Rotate!vars, rotVars

(* rotate_right, of every version and for every size of the syndrome and   *)
(* of the registers, is a rotation by the amount asked for.                *)
THEOREM RotationIsRight == Rotate!Spec => []RotatesRight
<1>1. RotatedInv => RotatesRight
  BY RotatedEnds
<1>2. QED
  BY <1>1, RotationStepsRight, PTL

(* So it is where the counters run beside it. *)
THEOREM RotationsOfTheDecoder == MCSpec => []RotatesRight
<1>1. MCInit => Rotate!Init
  BY DEF MCInit
<1>2. [MCNext]_<<part, vars, rotVars>> => [Rotate!Next]_rotVars
  BY DEF MCNext, rotVars
<1>3. MCSpec => Rotate!Spec
  BY <1>1, <1>2, PTL DEF MCSpec, Rotate!Spec, Rotate!vars, rotVars
<1>4. QED
  BY <1>3, RotationIsRight, PTL

(***************************************************************************)
(* The counter, of UpcCounter.                                             *)
(***************************************************************************)

(* The powers of 2: they exist, ... *)
LEMMA TwoToRule ==
  \A k \in Nat : TwoTo[k] = IF k = 0 THEN 1 ELSE 2 * TwoTo[k-1]
<1> DEFINE val(f, k) == IF k = 0 THEN 1 ELSE 2 * f[k-1]
           A(n) == {f \in [0..n -> Nat] : \A k \in 0..n : f[k] = val(f, k)}
           T == [n \in Nat |-> (CHOOSE f : f \in A(n))[n]]
           Def(f) == f = [k \in Nat |-> val(f, k)]
<1>1. ASSUME NEW n \in Nat
      PROVE  (CHOOSE f : f \in A(n)) \in A(n)
  <2> DEFINE next == [k \in 0..n |-> [f \in [0..n -> Nat] |-> val(f, k)]]
  <2>1. next \in [0..n -> [[0..n -> Nat] -> Nat]]
    OBVIOUS
  <2>2. OnlyBelow(n, Nat, next)
    BY DEF OnlyBelow
  <2>3. PICK f \in [0..n -> Nat] : Recursive(f, n, next)
    <3>1. 0 \in Nat
      OBVIOUS
    <3> HIDE DEF next
    <3>2. QED
      BY <2>1, <2>2, <3>1, RecursionExists
  <2>4. f \in A(n)
    BY <2>3 DEF Recursive
  <2> HIDE DEF A
  <2>5. QED
    BY <2>4
<1>2. ASSUME NEW n \in Nat, NEW f \in A(n), NEW g \in A(n + 1)
      PROVE  f[n] = g[n]
  <2> DEFINE G == {k \in 0..n : f[k] = g[k]}
  <2>1. 0 \in G
    OBVIOUS
  <2>2. ASSUME NEW k \in G, k < n
        PROVE  k + 1 \in G
    BY <2>2
  <2>3. G = 0..n
    <3>1. G \in SUBSET (0..n)
      OBVIOUS
    <3> HIDE DEF G, A
    <3>2. QED
      BY <2>1, <2>2, <3>1, CountingUp
  <2>4. n \in G
    <3> HIDE DEF G
    <3>1. QED
      BY <2>3
  <2>5. QED
    BY <2>4
<1>3. ASSUME NEW n \in Nat
      PROVE  T[n] = val(T, n)
  <2>1. CASE n = 0
    <3> DEFINE f == CHOOSE h : h \in A(n)
    <3>1. f \in A(n)
      BY <1>1
    <3>2. T[n] = f[n]
      OBVIOUS
    <3> HIDE DEF T, f
    <3>3. QED
      BY <2>1, <3>1, <3>2
  <2>2. CASE n # 0
    <3> DEFINE m == n - 1
               f == CHOOSE h : h \in A(m)
               g == CHOOSE h : h \in A(n)
    <3>1. m \in Nat /\ n = m + 1
      BY <2>2
    <3>2. f \in A(m) /\ g \in A(m + 1)
      BY <1>1, <3>1
    <3>3. T[n] = g[n] /\ T[m] = f[m]
      BY <3>1
    <3> HIDE DEF T, f, g
    <3>4. f[m] = g[m]
      <4> HIDE DEF A, m
      <4>1. QED
        BY <1>2, <3>1, <3>2
    <3>5. g[n] = 2 * g[m]
      BY <3>1, <3>2
    <3>6. QED
      BY <2>2, <3>3, <3>4, <3>5
  <2>3. QED
    BY <2>1, <2>2
<1>4. Def(T)
  <2>1. T = [n \in Nat |-> T[n]]
    OBVIOUS
  <2> HIDE DEF T, val
  <2>2. QED
    BY <1>3, <2>1
<1>5. TwoTo = CHOOSE g : Def(g)
  BY DEF TwoTo
<1> HIDE DEF Def
<1>6. Def(TwoTo)
  BY <1>4, <1>5, Zenon
<1> USE DEF Def
<1>7. QED
  BY <1>6

(* ... are positive, grow, and outgrow their exponents. *)
LEMMA TwoToIs ==
  ASSUME NEW k \in Nat
  PROVE  /\ TwoTo[k] \in Nat \ {0} /\ TwoTo[k] > k
         /\ \A j \in 0..k : TwoTo[j] \in Nat \ {0} /\ TwoTo[j] <= TwoTo[k]
<1> DEFINE P(j) == TwoTo[j] \in Nat \ {0} /\ TwoTo[j] > j
           G == {j \in 0..k : P(j) /\ \A i \in 0..j : TwoTo[i] \in Nat \ {0}
                                                      /\ TwoTo[i] <= TwoTo[j]}
<1>1. 0 \in G
  <2>1. TwoTo[0] = 1
    BY TwoToRule
  <2>2. QED
    BY <2>1
<1>2. ASSUME NEW j \in G, j < k
      PROVE  j + 1 \in G
  <2>1. TwoTo[j + 1] = 2 * TwoTo[j]
    BY TwoToRule
  <2>2. TwoTo[j + 1] \in Nat \ {0} /\ TwoTo[j + 1] > j + 1
    BY <2>1
  <2>3. \A i \in 0..j+1 : i = j + 1 \/ i \in 0..j
    OBVIOUS
  <2>4. QED
    BY <1>2, <2>1, <2>2, <2>3
<1>3. G = 0..k
  <2>1. G \in SUBSET (0..k)
    OBVIOUS
  <2> HIDE DEF G
  <2>2. QED
    BY <1>1, <1>2, <2>1, CountingUp
<1>4. QED
  BY <1>3

(* LOG2_MSB has a value, and it is enough bits. *)
LEMMA LOG2_MSBIs ==
  ASSUME NEW v \in Nat
  PROVE  LOG2_MSB(v) \in 0..v /\ TwoTo[LOG2_MSB(v)] > v
<1> DEFINE Good(n) == TwoTo[n] > v /\ (n = 0 \/ TwoTo[n-1] <= v)
<1>1. \E n \in 0..v : Good(n)
  <2> SUFFICES ASSUME \A n \in 0..v : ~Good(n)
               PROVE  FALSE
    OBVIOUS
  <2> DEFINE G == {n \in 0..v : TwoTo[n] <= v}
  <2>0. \A n \in 0..v : TwoTo[n] \in Nat
    BY TwoToIs
  <2>1. 0 \in G
    BY <2>0
  <2>2. ASSUME NEW n \in G, n < v
        PROVE  n + 1 \in G
    BY <2>0, <2>2
  <2>3. G = 0..v
    <3>1. G \in SUBSET (0..v)
      OBVIOUS
    <3> HIDE DEF G, Good
    <3>2. QED
      BY <2>1, <2>2, <3>1, CountingUp
  <2>4. TwoTo[v] > v
    BY TwoToIs
  <2>5. QED
    BY <2>0, <2>3, <2>4
<1>2. LOG2_MSB(v) = CHOOSE n \in 0..v : Good(n)
  BY DEF LOG2_MSB
<1> HIDE DEF Good
<1>3. LOG2_MSB(v) \in 0..v /\ Good(LOG2_MSB(v))
  BY <1>1, <1>2
<1> USE DEF Good
<1>4. QED
  BY <1>3

(* Bit k of a number, in two's complement, and what is below it. *)
Bit(v, k) == (v \div TwoTo[k]) % 2
Low(v, k) == v % TwoTo[k]

(* A number is even or odd. *)
LEMMA Parity ==
  ASSUME NEW d \in Int
  PROVE  d % 2 \in {0, 1} /\ d \div 2 \in Int /\ d = 2 * (d \div 2) + (d % 2)
OBVIOUS

(* A number is made of what is above a bit, the bit, and what is below it. *)
LEMMA BitAndLow ==
  ASSUME NEW v \in Int, NEW k \in Nat
  PROVE  /\ v \div TwoTo[k] \in Int /\ Bit(v, k) \in {0, 1}
         /\ Low(v, k) \in 0 .. TwoTo[k] - 1
         /\ v = TwoTo[k] * (v \div TwoTo[k]) + Low(v, k)
<1> DEFINE t == TwoTo[k]
           d == v \div t
           m == v % t
<1>1. t \in Nat \ {0}
  BY TwoToIs
<1>2. d = v \div t /\ m = v % t
  OBVIOUS
<1> HIDE DEF t, d, m
<1>3. d \in Int /\ m \in 0..t-1 /\ v = t * d + m
  BY <1>1, <1>2, Divided
<1>4. d % 2 \in {0, 1}
  BY <1>3, Parity
<1>5. QED
  BY <1>3, <1>4 DEF Bit, Low, t, d, m

(* One bit more. *)
LEMMA LowStep ==
  ASSUME NEW v \in Int, NEW k \in Nat
  PROVE  Low(v, k + 1) = TwoTo[k] * Bit(v, k) + Low(v, k)
<1> DEFINE t == TwoTo[k]
           d == v \div t
           off == d \div 2
           b == d % 2
           m == Low(v, k)
           u == TwoTo[k + 1]
           a == t * b + m
<1>1. /\ t \in Nat \ {0} /\ d \in Int /\ m \in 0 .. t - 1 /\ v = t * d + m
      /\ b = Bit(v, k)
  BY BitAndLow, TwoToIs DEF Bit
<1>2. u = 2 * t
  BY TwoToRule
<1>3. b \in {0, 1} /\ off \in Int /\ d = 2 * off + b
  BY <1>1, Parity
<1>4. Low(v, k + 1) = v % u
  BY DEF Low
<1> HIDE DEF t, d, off, b, m, u
<1>5. a \in 0 .. u - 1
  <2>1. CASE b = 0
    BY <1>1, <1>2, <2>1
  <2>2. CASE b = 1
    BY <1>1, <1>2, <2>2
  <2>3. QED
    BY <1>3, <2>1, <2>2
<1>6. v = u * off + a
  <2>1. t * d = (2 * t) * off + t * b
    BY <1>1, <1>3
  <2>2. t * d \in Int /\ u * off \in Int /\ t * b \in Int
    BY <1>1, <1>2, <1>3
  <2>3. QED
    BY <1>1, <1>2, <2>1, <2>2
<1>7. u \in Nat \ {0}
  BY <1>1, <1>2
<1> DEFINE c == a
<1>8. c \in 0 .. u - 1 /\ v = u * off + c
  BY <1>5, <1>6
<1> HIDE DEF c
<1>9. v % u = c
  BY <1>3, <1>7, <1>8, DivisionIs
<1>10. QED
  BY <1>1, <1>4, <1>9 DEF c, t, m

(* Nothing is below bit 0. *)
LEMMA LowNone ==
  ASSUME NEW v \in Int
  PROVE  Low(v, 0) = 0 /\ TwoTo[0] = 1
<1>1. TwoTo[0] = 1
  BY TwoToRule
<1>2. Low(v, 0) \in 0 .. TwoTo[0] - 1
  BY BitAndLow
<1>3. QED
  BY <1>1, <1>2

(* The carry: all bits below k are 1 just when what is below k is as large *)
(* as it can be.                                                           *)
AllOnes(v, k) == \A l \in 0..k-1 : Bit(v, l) = 1

(* The carry reaches bit k just when all bits below it are 1. *)
LEMMA LowOnes ==
  ASSUME NEW v \in Int, NEW k \in Nat
  PROVE  AllOnes(v, k) <=> Low(v, k) = TwoTo[k] - 1
<1> DEFINE G == {j \in 0..k : AllOnes(v, j) <=> Low(v, j) = TwoTo[j] - 1}
<1>1. 0 \in G
  BY LowNone DEF AllOnes
<1>2. ASSUME NEW j \in G, j < k
      PROVE  j + 1 \in G
  <2> DEFINE t == TwoTo[j]
             b == Bit(v, j)
             m == Low(v, j)
  <2>1. Low(v, j + 1) = t * b + m /\ TwoTo[j + 1] = 2 * t
    BY LowStep, TwoToRule
  <2>2. b \in {0, 1} /\ m \in 0 .. t - 1 /\ t \in Nat \ {0}
    BY BitAndLow, TwoToIs
  <2>3. AllOnes(v, j + 1) <=> AllOnes(v, j) /\ b = 1
    <3>1. 0 .. (j + 1) - 1 = (0 .. j - 1) \cup {j}
      OBVIOUS
    <3>2. QED
      BY <3>1 DEF AllOnes
  <2>4. AllOnes(v, j) <=> m = t - 1
    OBVIOUS
  <2> HIDE DEF t, b, m
  <2>5. t * b + m = 2 * t - 1 <=> m = t - 1 /\ b = 1
    <3>1. CASE b = 0
      BY <2>2, <3>1
    <3>2. CASE b = 1
      BY <2>2, <3>2
    <3>3. QED
      BY <2>2, <3>1, <3>2
  <2>6. AllOnes(v, j + 1) <=> Low(v, j + 1) = TwoTo[j + 1] - 1
    BY <2>1, <2>3, <2>4, <2>5
  <2>7. QED
    BY <1>2, <2>6
<1>3. G = 0..k
  <2>1. G \in SUBSET (0..k)
    OBVIOUS
  <2> HIDE DEF G
  <2>2. QED
    BY <1>1, <1>2, <2>1, CountingUp
<1>4. k \in G
  <2> HIDE DEF G
  <2>1. QED
    BY <1>3
<1>5. QED
  BY <1>4

(* Adding 1 turns the bits the carry reaches, and no other. *)
LEMMA BitOfNext ==
  ASSUME NEW v \in Int, NEW k \in Nat, NEW w, w = v + 1
  PROVE  Bit(w, k) = IF AllOnes(v, k) THEN 1 - Bit(v, k) ELSE Bit(v, k)
<1> DEFINE t == TwoTo[k]
           d == v \div t
           m == Low(v, k)
<1>1. /\ t \in Nat \ {0} /\ d \in Int /\ m \in 0 .. t - 1 /\ v = t * d + m
      /\ Bit(v, k) = d % 2 /\ Bit(w, k) = (w \div t) % 2
      /\ AllOnes(v, k) <=> m = t - 1
  BY BitAndLow, TwoToIs, LowOnes DEF Bit
<1> HIDE DEF t, d, m
<1>2. CASE m = t - 1
  <2> DEFINE off == d + 1
             z == 0
  <2>1. off \in Int /\ z \in 0 .. t - 1 /\ w = t * off + z
    <3>1. t * (d + 1) = t * d + t /\ t * d \in Int
      BY <1>1
    <3>2. QED
      BY <1>1, <1>2, <3>1
  <2>2. off % 2 = 1 - (d % 2)
    BY <1>1
  <2> HIDE DEF off, z
  <2>3. w \div t = off
    BY <1>1, <2>1, DivisionIs
  <2>4. QED
    BY <1>1, <1>2, <2>2, <2>3
<1>3. CASE m # t - 1
  <2> DEFINE z == m + 1
  <2>1. z \in 0 .. t - 1 /\ w = t * d + z
    <3>1. t * d \in Int
      BY <1>1
    <3>2. QED
      BY <1>1, <1>3, <3>1
  <2> HIDE DEF z
  <2>2. w \div t = d
    BY <1>1, <2>1, DivisionIs
  <2>3. QED
    BY <1>1, <1>3, <2>2
<1>4. QED
  BY <1>2, <1>3

(* Bits that a number is too small to have are 0. *)
LEMMA BitsAbove ==
  ASSUME NEW v \in Nat, NEW k \in Nat, v < TwoTo[k]
  PROVE  Bit(v, k) = 0
<1> DEFINE t == TwoTo[k]
           z == 0
<1>1. t \in Nat \ {0} /\ z \in Int /\ v \in 0 .. t - 1 /\ v = t * z + v
  BY TwoToIs
<1>2. Bit(v, k) = (v \div t) % 2
  BY DEF Bit
<1>3. z % 2 = 0
  OBVIOUS
<1> HIDE DEF t, z
<1>4. v \div t = z
  BY <1>1, DivisionIs
<1>5. QED
  BY <1>2, <1>3, <1>4

(* The borrow of a subtraction, and the bits of a difference. *)
Borrow(x, y, k) == IF Low(x, k) < Low(y, k) THEN 1 ELSE 0

(* The borrow of the next slice, as the full subtractor makes it. *)
LEMMA BorrowStep ==
  ASSUME NEW x \in Int, NEW y \in Int, NEW k \in Nat
  PROVE  Borrow(x, y, k + 1) =
           IF Bit(x, k) - Bit(y, k) - Borrow(x, y, k) < 0 THEN 1 ELSE 0
<1> DEFINE t  == TwoTo[k]
           bx == Bit(x, k)
           by == Bit(y, k)
           mx == Low(x, k)
           my == Low(y, k)
<1>1. /\ Low(x, k + 1) = t * bx + mx /\ Low(y, k + 1) = t * by + my
      /\ t \in Nat \ {0} /\ bx \in {0, 1} /\ by \in {0, 1}
      /\ mx \in 0 .. t - 1 /\ my \in 0 .. t - 1
  BY LowStep, BitAndLow, TwoToIs
<1> DEFINE r  == Borrow(x, y, k)
           r1 == Borrow(x, y, k + 1)
           px == t * bx
           py == t * by
<1>2. /\ r = IF mx < my THEN 1 ELSE 0
      /\ r1 = IF px + mx < py + my THEN 1 ELSE 0
  BY <1>1 DEF Borrow
<1>3. /\ px = IF bx = 0 THEN 0 ELSE t
      /\ py = IF by = 0 THEN 0 ELSE t
  <2> HIDE DEF t, bx, by
  <2>1. t * 0 = 0 /\ t * 1 = t
    BY <1>1
  <2>2. QED
    BY <1>1, <2>1
<1> HIDE DEF t, bx, by, mx, my, r, r1, px, py
<1>4. r1 = IF bx - by - r < 0 THEN 1 ELSE 0
  <2>1. CASE bx = 0 /\ by = 0
    BY <1>1, <1>2, <1>3, <2>1
  <2>2. CASE bx = 0 /\ by = 1
    BY <1>1, <1>2, <1>3, <2>2
  <2>3. CASE bx = 1 /\ by = 0
    BY <1>1, <1>2, <1>3, <2>3
  <2>4. CASE bx = 1 /\ by = 1
    BY <1>1, <1>2, <1>3, <2>4
  <2>5. QED
    BY <1>1, <2>1, <2>2, <2>3, <2>4
<1>5. QED
  BY <1>4 DEF bx, by, r, r1

(* A slice of the full subtractor. *)
LEMMA BitOfDifference ==
  ASSUME NEW x \in Int, NEW y \in Int, NEW k \in Nat, NEW v, v = x - y
  PROVE  Bit(v, k) = (Bit(x, k) + Bit(y, k) + Borrow(x, y, k)) % 2
<1> DEFINE t  == TwoTo[k]
           dx == x \div t
           dy == y \div t
           mx == Low(x, k)
           my == Low(y, k)
           r  == Borrow(x, y, k)
           d  == dx - dy - r
           m  == mx - my + t * r
<1>1. /\ t \in Nat \ {0} /\ dx \in Int /\ dy \in Int
      /\ mx \in 0 .. t - 1 /\ my \in 0 .. t - 1
      /\ x = t * dx + mx /\ y = t * dy + my
      /\ Bit(x, k) = dx % 2 /\ Bit(y, k) = dy % 2 /\ Bit(v, k) = (v \div t) % 2
  BY BitAndLow, TwoToIs DEF Bit
<1>2. r = IF mx < my THEN 1 ELSE 0
  BY DEF Borrow
<1> HIDE DEF t, dx, dy, mx, my, r
<1>3. r \in {0, 1} /\ m \in 0 .. t - 1
  <2>1. CASE mx < my
    BY <1>1, <1>2, <2>1
  <2>2. CASE ~(mx < my)
    BY <1>1, <1>2, <2>2
  <2>3. QED
    BY <2>1, <2>2
<1>4. d \in Int /\ v = t * d + m
  <2>1. d \in Int
    BY <1>1, <1>3
  <2>2. t * (dx - dy - r) = t * dx - t * dy - t * r
    BY <1>1, <1>3
  <2>3. t * dx \in Int /\ t * dy \in Int /\ t * r \in Int
    BY <1>1, <1>3
  <2> DEFINE a == t * dx
             b == t * dy
             c == t * r
             off == t * (dx - dy - r)
  <2>4. off = a - b - c /\ a \in Int /\ b \in Int /\ c \in Int
    BY <2>2, <2>3
  <2>5. x = a + mx /\ y = b + my /\ m = mx - my + c
    BY <1>1
  <2> HIDE DEF a, b, c, off, m
  <2>6. v = off + m
    BY <1>1, <2>4, <2>5
  <2>7. QED
    BY <2>1, <2>6 DEF off
<1>5. ((dx % 2) + (dy % 2) + r) % 2 = d % 2
  <2>1. dx % 2 \in {0, 1} /\ dy % 2 \in {0, 1}
    BY <1>1
  <2>2. QED
    BY <1>1, <1>3, <2>1
<1> HIDE DEF d, m
<1>6. v \div t = d
  BY <1>1, <1>3, <1>4, DivisionIs
<1>7. QED
  BY <1>1, <1>5, <1>6 DEF r

(* The last of n + 1 bits tells the sign of a number that they hold. *)
LEMMA SignBit ==
  ASSUME NEW v \in Int, NEW k \in Nat, -TwoTo[k] <= v, v < TwoTo[k]
  PROVE  Bit(v, k) = 0 <=> v >= 0
<1> DEFINE t == TwoTo[k]
           off == -1
           u == v + t
<1>1. t \in Nat \ {0} /\ Bit(v, k) = (v \div t) % 2 /\ -t <= v /\ v < t
  BY TwoToIs DEF Bit
<1>2. CASE v >= 0
  BY <1>2, BitsAbove
<1>3. CASE v < 0
  <2>1. off \in Int /\ u \in 0 .. t - 1 /\ v = t * off + u /\ off % 2 = 1
    <3> HIDE DEF t
    <3>1. t * (-1) = -t
      BY <1>1
    <3>2. off % 2 \in {0, 1} /\ off \div 2 \in Int /\ off = 2 * (off \div 2) + (off % 2)
      <4>1. off \in Int
        OBVIOUS
      <4> HIDE DEF off
      <4>2. QED
        BY <4>1, Parity
    <3>3. QED
      BY <1>1, <1>3, <3>1, <3>2
  <2> HIDE DEF t, off, u
  <2>2. v \div t = off
    BY <1>1, <2>1, DivisionIs
  <2>3. QED
    BY <1>1, <1>3, <2>1, <2>2
<1>4. QED
  BY <1>2, <1>3

(* A counter that holds v, and what the adder and the subtractor do to it. *)
Holds(sl, v) == \A k \in SliceIds : sl[k] = Bit(v, k)

(* The slices are numbered from 0. *)
LEMMA SliceIdsAre ==
  ASSUME p \in Levels
  PROVE  p.Slices \in Nat \ {0} /\ \A k \in SliceIds : k \in Nat /\ k < p.Slices
BY LevelsAssumption DEF SliceIds

(* The adder adds a bit, if it goes over as many slices as the sum needs. *)
LEMMA AdderAdds ==
  ASSUME p \in Levels, NEW sl, NEW v \in Int, Holds(sl, v),
         NEW bit \in {0, 1}, NEW n \in Nat,
         n >= p.Slices \/ (v \in Nat /\ v + 1 < TwoTo[n]),
         NEW w, w = v + bit
  PROVE  Holds(BitSlicedAdder(sl, bit, n), w)
<1> DEFINE new == BitSlicedAdder(sl, bit, n)
<1> SUFFICES ASSUME NEW k \in SliceIds
             PROVE  new[k] = Bit(w, k)
  BY DEF Holds
<1>1. k \in Nat /\ k < p.Slices /\ p.Slices \in Nat
  BY SliceIdsAre
<1>2. \A l \in 0..k-1 : l \in SliceIds
  BY <1>1 DEF SliceIds
<1>3. /\ \A l \in 0..k-1 : sl[l] = Bit(v, l)
      /\ sl[k] = Bit(v, k)
  BY <1>2 DEF Holds
<1>4. new[k] = IF bit = 1 /\ k < n /\ AllOnes(v, k) THEN 1 - sl[k] ELSE sl[k]
  BY <1>3 DEF BitSlicedAdder, AllOnes
<1>5. CASE bit = 0
  BY <1>3, <1>4, <1>5
<1>6. CASE bit = 1 /\ k < n
  <2>1. w = v + 1
    BY <1>6
  <2>2. Bit(w, k) = IF AllOnes(v, k) THEN 1 - Bit(v, k) ELSE Bit(v, k)
    BY <1>1, <2>1, BitOfNext
  <2>3. QED
    BY <1>3, <1>4, <1>6, <2>2
<1>7. CASE bit = 1 /\ ~(k < n)
  <2>1. n <= k /\ v \in Nat /\ v + 1 < TwoTo[n]
    BY <1>1, <1>7
  <2>2. TwoTo[n] \in Nat /\ TwoTo[k] \in Nat /\ TwoTo[n] <= TwoTo[k]
    BY <1>1, <2>1, TwoToIs
  <2>3. w \in Nat /\ w < TwoTo[k] /\ v < TwoTo[k]
    BY <1>7, <2>1, <2>2
  <2>4. Bit(w, k) = 0 /\ Bit(v, k) = 0
    BY <1>1, <2>1, <2>3, BitsAbove
  <2>5. QED
    BY <1>3, <1>4, <1>7, <2>4
<1>8. QED
  BY <1>5, <1>6, <1>7

(* The subtractor subtracts, whichever is larger. *)
LEMMA SubtractorSubtracts ==
  ASSUME p \in Levels, NEW sl, NEW v \in Int, Holds(sl, v), NEW val \in Int,
         NEW w, w = v - val
  PROVE  Holds(BitSliceFullSubtract(sl, val), w)
<1> DEFINE n == p.Slices
           S == {0, 1}
           b(k) == (val \div TwoTo[k]) % 2
           step(f, k) == IF k = 0 THEN 0
                         ELSE IF sl[k-1] - b(k-1) - f[k-1] < 0 THEN 1 ELSE 0
           next == [k \in 0..n |-> [f \in [0..n -> S] |-> step(f, k)]]
           Def(f) == f = [k \in 0..n |-> step(f, k)]
           br == CHOOSE f : Def(f)
<1>1. n \in Nat
  BY SliceIdsAre
<1>2. \A k \in 0..n : Def(br) => br[k] = step(br, k)
  <2> HIDE DEF br, step
  <2>1. QED
    OBVIOUS
<1>3. Def(br)
  <2>1. next \in [0..n -> [[0..n -> S] -> S]]
    OBVIOUS
  <2>2. OnlyBelow(n, S, next)
    <3> SUFFICES ASSUME NEW k \in 0..n, NEW f \in [0..n -> S],
                        NEW g \in [0..n -> S],
                        \A j \in 0..k-1 : f[j] = g[j]
                 PROVE  next[k][f] = next[k][g]
      <4> HIDE DEF next, S, n
      <4>1. QED
        BY DEF OnlyBelow
    <3>1. step(f, k) = step(g, k)
      <4>1. CASE k = 0
        BY <4>1
      <4>2. CASE k # 0
        <5>1. k - 1 \in 0..k-1
          BY <1>1, <4>2
        <5>2. f[k-1] = g[k-1]
          BY <5>1
        <5>3. QED
          BY <4>2, <5>2
      <4>3. QED
        BY <4>1, <4>2
    <3> HIDE DEF step, S
    <3>2. QED
      BY <3>1
  <2>3. 0 \in S
    OBVIOUS
  <2>4. \E f \in [0..n -> S] : Recursive(f, n, next)
    <3> HIDE DEF next, S, n
    <3>1. QED
      BY <1>1, <2>1, <2>2, <2>3, RecursionExists
  <2>5. PICK f \in [0..n -> S] : Recursive(f, n, next)
    BY <2>4
  <2>6. \A k \in 0..n : f[k] = step(f, k)
    <3> HIDE DEF step, S, n
    <3>1. QED
      BY <2>5 DEF Recursive
  <2>7. Def(f)
    <3> HIDE DEF step, S, n
    <3>1. f = [k \in 0..n |-> f[k]]
      BY <2>5
    <3>2. QED
      BY <2>6, <3>1
  <2> HIDE DEF Def
  <2>8. QED
    BY <2>7
<1>4. BitSliceFullSubtract(sl, val)
        = [k \in SliceIds |-> (sl[k] + b(k) + br[k]) % 2]
  BY DEF BitSliceFullSubtract
<1>5. \A k \in 0..n : br[k] = step(br, k)
  <2> HIDE DEF br, Def, step, n
  <2>1. QED
    BY <1>2, <1>3
<1> HIDE DEF br, next, Def, S
<1>6. ASSUME NEW k \in SliceIds
      PROVE  k \in Nat /\ k < n /\ sl[k] = Bit(v, k) /\ b(k) = Bit(val, k)
  BY <1>6, SliceIdsAre DEF Holds, Bit
<1> DEFINE G == {k \in 0..n : br[k] = Borrow(v, val, k)}
<1>7. 0 \in G
  <2>1. br[0] = 0
    BY <1>1, <1>5
  <2>2. Borrow(v, val, 0) = 0
    BY LowNone DEF Borrow
  <2>3. QED
    BY <1>1, <2>1, <2>2
<1>8. ASSUME NEW k \in G, k < n
      PROVE  k + 1 \in G
  <2>1. /\ k \in SliceIds /\ k \in Nat /\ k + 1 \in 0..n /\ k + 1 # 0
        /\ (k + 1) - 1 = k
    BY <1>1, <1>8 DEF SliceIds
  <2>2. sl[k] = Bit(v, k) /\ b(k) = Bit(val, k) /\ br[k] = Borrow(v, val, k)
    BY <1>6, <2>1
  <2>3. br[k + 1] = IF sl[k] - b(k) - br[k] < 0 THEN 1 ELSE 0
    BY <1>5, <2>1
  <2>4. Borrow(v, val, k + 1)
          = IF Bit(v, k) - Bit(val, k) - Borrow(v, val, k) < 0 THEN 1 ELSE 0
    BY <2>1, BorrowStep
  <2> HIDE DEF b
  <2>5. br[k + 1] = Borrow(v, val, k + 1)
    BY <2>2, <2>3, <2>4
  <2>6. QED
    BY <2>1, <2>5
<1>9. G = 0..n
  <2>1. G \in SUBSET (0..n)
    OBVIOUS
  <2> HIDE DEF G, n
  <2>2. QED
    BY <1>1, <1>7, <1>8, <2>1, CountingUp
<1>10. ASSUME NEW k \in SliceIds
       PROVE  BitSliceFullSubtract(sl, val)[k] = Bit(w, k)
  <2>1. k \in Nat /\ k < n /\ sl[k] = Bit(v, k) /\ b(k) = Bit(val, k)
    BY <1>6
  <2>2. k \in G
    <3>1. k \in 0..n
      BY <1>1, <2>1
    <3> HIDE DEF G
    <3>2. QED
      BY <1>9, <3>1
  <2>3. br[k] = Borrow(v, val, k)
    BY <2>2
  <2>4. Bit(w, k) = (Bit(v, k) + Bit(val, k) + Borrow(v, val, k)) % 2
    BY <2>1, BitOfDifference
  <2> HIDE DEF b
  <2>5. QED
    BY <1>4, <2>1, <2>3, <2>4
<1>11. QED
  BY <1>10 DEF Holds

(* What the counter holds, and how far the loops are. *)
Counted == IF pc = "sign" THEN ones + added - thr ELSE ones

CounterInv ==
  /\ p \in Levels
  /\ pc \in {"sum", "subtract", "sign"}
  /\ ones \in Nat /\ added \in Nat /\ thr \in Int
  /\ pc = "sum" => ones <= added /\ added < p.D
  /\ pc # "sum" => ones <= p.D
  /\ pc = "sign" => added <= p.Delta /\ thr \in Thresholds[p]
  /\ Holds(slice, Counted)

(* A threshold is a number. *)
LEMMA GetThresholdIs ==
  ASSUME NEW q \in Levels, NEW S \in 0..q.R
  PROVE  GetThreshold(q, S) \in Int
<1> DEFINE g == q.Divisor
           h == S \div 2
           h1 == S - S \div 2
           x == q.Coeff1 * h
           y == q.Coeff0 + q.Coeff1 * h1
<1>1. /\ q.R \in Nat /\ g \in Nat \ {0} /\ q.Coeff0 \in Nat /\ q.Coeff1 \in Nat
      /\ q.ThresholdMin \in Nat
  BY LevelsAssumption
<1>2. h \in Int /\ h1 \in Int
  BY <1>1
<1>3. x \in Int /\ y \in Int
  <2> HIDE DEF h, h1
  <2>1. QED
    BY <1>1, <1>2
<1>4. GetThreshold(q, S)
        = LET thr0 == x \div g + y \div g + ((x % g) + (y % g)) \div g
          IN  IF thr0 < q.ThresholdMin THEN q.ThresholdMin ELSE thr0
  BY DEF GetThreshold
<1> HIDE DEF x, y, g
<1>5. x \div g \in Int /\ y \div g \in Int /\ x % g \in Int /\ y % g \in Int
  BY <1>1, <1>3
<1>6. ((x % g) + (y % g)) \div g \in Int
  BY <1>1, <1>5
<1>7. QED
  BY <1>1, <1>4, <1>5, <1>6

(* So is every one that is subtracted. *)
LEMMA ThresholdsAre ==
  ASSUME NEW q \in Levels, NEW t \in Thresholds[q]
  PROVE  t \in Int
<1>1. \/ t \in {GetThreshold(q, S) % 256 : S \in 0..q.R}
      \/ t = (q.D + 1) \div 2 + 1
  BY DEF Thresholds
<1>2. CASE t = (q.D + 1) \div 2 + 1
  BY <1>2, LevelsAssumption
<1>3. CASE t \in {GetThreshold(q, S) % 256 : S \in 0..q.R}
  <2>1. PICK S \in 0..q.R : t = GetThreshold(q, S) % 256
    BY <1>3
  <2> DEFINE a == GetThreshold(q, S)
  <2>2. a \in Int /\ t = a % 256
    BY <2>1, GetThresholdIs
  <2> HIDE DEF a
  <2>3. QED
    BY <2>2
<1>4. QED
  BY <1>1, <1>2, <1>3

(* The counter starts at 0. *)
LEMMA CounterInit ==
  ASSUME Init
  PROVE  CounterInv
<1>1. /\ p \in Levels /\ slice = [k \in SliceIds |-> 0]
      /\ ones = 0 /\ added = 0 /\ thr = 0 /\ pc = "sum"
  BY DEF Init
<1>2. 0 < p.D /\ p.D \in Nat
  BY <1>1, LevelsAssumption
<1>3. Holds(slice, 0)
  <2> SUFFICES ASSUME NEW k \in SliceIds
               PROVE  Bit(0, k) = 0
    BY <1>1 DEF Holds
  <2>1. k \in Nat
    BY <1>1, SliceIdsAre
  <2>2. 0 \in Nat /\ 0 < TwoTo[k]
    BY <2>1, TwoToIs
  <2>3. QED
    BY <2>1, <2>2, BitsAbove
<1>4. QED
  BY <1>1, <1>2, <1>3 DEF CounterInv, Counted

(* Adding the bit of one rotation keeps the invariant. *)
LEMMA AddKeeps ==
  ASSUME CounterInv, NEW bit \in {0, 1}, AddSyndromeBit(bit)
  PROVE  CounterInv'
<1> DEFINE n == LOG2_MSB(added + 1)
           w == ones + bit
<1>1. /\ p \in Levels /\ pc = "sum" /\ ones \in Nat /\ added \in Nat
      /\ thr \in Int
      /\ ones <= added /\ added < p.D /\ Holds(slice, ones)
  BY DEF CounterInv, AddSyndromeBit, Counted
<1>2. /\ slice' = BitSlicedAdder(slice, bit, n) /\ ones' = w
      /\ added' = added + 1
      /\ pc' = (IF added' = p.D THEN "subtract" ELSE "sum")
      /\ p' = p /\ thr' = thr
  BY DEF AddSyndromeBit
<1>3. n \in Nat /\ TwoTo[n] > added + 1
  BY <1>1, LOG2_MSBIs
<1>4. ones \in Int /\ ones \in Nat /\ ones + 1 < TwoTo[n]
  BY <1>1, <1>3, TwoToIs
<1>5. Holds(slice', w)
  <2> HIDE DEF n
  <2>1. w = ones + bit
    OBVIOUS
  <2> HIDE DEF w
  <2>2. Holds(BitSlicedAdder(slice, bit, n), w)
    BY <1>1, <1>3, <1>4, <2>1, AdderAdds
  <2>3. QED
    BY <1>2, <2>2
<1>6. p.D \in Nat
  BY <1>1, LevelsAssumption
<1>7. Counted' = w /\ pc' # "sign"
  BY <1>2 DEF Counted
<1>8. Holds(slice, Counted)'
  BY <1>2, <1>5, <1>7 DEF Holds, SliceIds
<1>9. QED
  BY <1>1, <1>2, <1>6, <1>7, <1>8 DEF CounterInv

(* So does subtracting the threshold, ... *)
LEMMA SubtractKeeps ==
  ASSUME CounterInv, Subtract
  PROVE  CounterInv'
<1>1. /\ p \in Levels /\ pc = "subtract" /\ ones \in Nat /\ ones <= p.D
      /\ Holds(slice, ones)
  BY DEF CounterInv, Subtract, Counted
<1>2. /\ thr' \in Thresholds[p] /\ slice' = BitSliceFullSubtract(slice, thr')
      /\ added' = 0 /\ pc' = "sign" /\ p' = p /\ ones' = ones
  BY DEF Subtract
<1>3. thr' \in Int
  BY <1>1, <1>2, ThresholdsAre
<1> DEFINE t == thr'
           w == ones - t
<1>4. /\ t \in Int /\ w = ones - t /\ ones \in Int
      /\ slice' = BitSliceFullSubtract(slice, t)
  BY <1>1, <1>2, <1>3
<1>5. Counted' = w
  BY <1>1, <1>2, <1>3 DEF Counted
<1> HIDE DEF t, w
<1>6. Holds(slice', w)
  BY <1>1, <1>4, SubtractorSubtracts
<1>7. Holds(slice, Counted)'
  BY <1>2, <1>5, <1>6 DEF Holds, SliceIds
<1>8. p.Delta \in Nat
  BY <1>1, LevelsAssumption
<1>9. QED
  BY <1>1, <1>2, <1>3, <1>7, <1>8 DEF CounterInv

(* ... and adding the ones of step 4. *)
LEMMA GrayKeeps ==
  ASSUME CounterInv, AddForGray
  PROVE  CounterInv'
<1> DEFINE v == ones + added - thr
           w == v + 1
           n == p.Slices
           bit == 1
<1>1. /\ p \in Levels /\ pc = "sign" /\ ones \in Nat /\ added \in Nat
      /\ thr \in Int
      /\ ones <= p.D /\ thr \in Thresholds[p] /\ added < p.Delta
      /\ Holds(slice, v)
  BY DEF CounterInv, AddForGray, Counted
<1>2. /\ slice' = BitSlicedAdder(slice, bit, n) /\ added' = added + 1
      /\ p' = p /\ ones' = ones /\ thr' = thr /\ pc' = pc
  BY DEF AddForGray
<1>3. v \in Int /\ n \in Nat /\ n >= n /\ bit \in {0, 1} /\ w = v + bit
  BY <1>1, SliceIdsAre
<1>4. Counted' = w
  BY <1>1, <1>2 DEF Counted
<1>5. n = p.Slices
  OBVIOUS
<1> HIDE DEF v, w, n, bit
<1>6. Holds(slice', w)
  BY <1>1, <1>2, <1>3, <1>5, AdderAdds
<1>7. Holds(slice, Counted)'
  BY <1>2, <1>4, <1>6 DEF Holds, SliceIds
<1>8. p.Delta \in Nat
  BY <1>1, LevelsAssumption
<1>9. QED
  BY <1>1, <1>2, <1>7, <1>8 DEF CounterInv

(* Every step keeps it. *)
LEMMA CounterStep ==
  ASSUME CounterInv, [Next]_vars
  PROVE  CounterInv'
<1>1. CASE \E bit \in {0, 1} : AddSyndromeBit(bit)
  BY <1>1, AddKeeps
<1>2. CASE Subtract
  BY <1>2, SubtractKeeps
<1>3. CASE AddForGray
  BY <1>3, GrayKeeps
<1>4. CASE UNCHANGED <<p, slice, ones, added, thr, pc>>
  BY <1>4 DEF CounterInv, Counted, Holds, SliceIds
<1>5. QED
  BY <1>1, <1>2, <1>3, <1>4 DEF Next, vars

(* The counter holds the count, and after the subtraction what it is above *)
(* the threshold, with what was added for gray, in two's complement.       *)
THEOREM CounterHoldsCount == Spec => []CounterInv
<1>1. Init => CounterInv
  BY CounterInit
<1>2. CounterInv /\ [Next]_vars => CounterInv'
  BY CounterStep
<1>3. QED
  BY <1>1, <1>2, PTL DEF Spec

(* The slices are enough: no difference of a count and a threshold needs   *)
(* more bits than there are.                                               *)
SlicesSuffice ==
  \A q \in Levels : \A t \in Thresholds[q] :
    /\ t <= TwoTo[q.Slices - 1]
    /\ q.D + q.Delta - t < TwoTo[q.Slices - 1]

(* Then the last slice tells whether the count reaches the threshold.      *)
THEOREM LastSliceTells ==
  ASSUME SlicesSuffice
  PROVE  Spec => []SignTellsErrors
<1>1. CounterInv => SignTellsErrors
  <2> SUFFICES ASSUME CounterInv, pc = "sign"
               PROVE  slice[p.Slices - 1] = 0 <=> ones + added >= thr
    BY DEF SignTellsErrors
  <2> DEFINE k == p.Slices - 1
             v == ones + added - thr
             u == TwoTo[k]
  <2>1. /\ p \in Levels /\ ones \in Nat /\ added \in Nat /\ thr \in Int
        /\ ones <= p.D /\ added <= p.Delta /\ thr \in Thresholds[p]
        /\ Holds(slice, v)
    BY DEF CounterInv, Counted
  <2>2. k \in SliceIds /\ k \in Nat /\ p.D \in Nat /\ p.Delta \in Nat
    BY <2>1, LevelsAssumption DEF SliceIds
  <2>3. thr <= u /\ p.D + p.Delta - thr < u /\ u \in Nat
    BY <2>1, <2>2, TwoToIs DEF SlicesSuffice
  <2>4. slice[k] = Bit(v, k) /\ v \in Int /\ (v >= 0 <=> ones + added >= thr)
    BY <2>1, <2>2 DEF Holds
  <2>5. -u <= v /\ v < u
    <3> HIDE DEF u
    <3>1. QED
      BY <2>1, <2>2, <2>3
  <2> HIDE DEF k, v
  <2>6. Bit(v, k) = 0 <=> v >= 0
    BY <2>2, <2>4, <2>5, SignBit
  <2>7. QED
    BY <2>4, <2>6 DEF k
<1>2. QED
  BY <1>1, CounterHoldsCount, PTL

(* A division of a sum, done in parts. *)
LEMMA DividedInParts ==
  ASSUME NEW g \in Nat \ {0}, NEW x \in Nat, NEW y \in Nat, NEW b \in Nat,
         NEW c, c = b * g, x + y < c,
         NEW d, d = x \div g + y \div g + ((x % g) + (y % g)) \div g
  PROVE  d \in Int /\ d < b
<1> DEFINE dx == x \div g
           dy == y \div g
           mx == x % g
           my == y % g
           m  == mx + my
           dm == m \div g
           off  == m % g
<1>1. /\ x \in Int /\ dx = x \div g /\ mx = x % g
      /\ y \in Int /\ dy = y \div g /\ my = y % g
      /\ m = mx + my /\ dm = m \div g /\ off = m % g /\ d = dx + dy + dm
  OBVIOUS
<1> HIDE DEF dx, dy, mx, my, m, dm, off
<1>2. /\ dx \in Int /\ mx \in 0 .. g - 1 /\ x = g * dx + mx
      /\ dy \in Int /\ my \in 0 .. g - 1 /\ y = g * dy + my
  BY ONLY g \in Nat \ {0}, <1>1, Divided
<1>3. m \in Int
  BY <1>1, <1>2
<1>4. dm \in Int /\ off \in 0 .. g - 1 /\ m = g * dm + off
  <2>1. dm = m \div g /\ off = m % g
    BY <1>1
  <2>2. QED
    BY ONLY g \in Nat \ {0}, <1>3, <2>1, Divided
<1>5. d \in Int /\ g * d = g * dx + g * dy + g * dm
  BY <1>1, <1>2, <1>4
<1>6. /\ g * dx \in Int /\ g * dy \in Int /\ g * dm \in Int /\ g * d \in Int
      /\ c \in Int
  BY <1>2, <1>4, <1>5
<1>7. g * d < c
  BY <1>1, <1>2, <1>4, <1>5, <1>6
<1>8. d >= b => g * d >= c
  BY <1>5
<1>9. QED
  BY <1>5, <1>6, <1>7, <1>8

(* The slices are enough at LEVELs 1 and 5, whose R is what keeps the      *)
(* thresholds down; at LEVEL 3 they are not.                               *)
LEMMA SlicesOfLevels1And5 ==
  ASSUME Levels \subseteq Levels1And5
  PROVE  SlicesSuffice
<1>1. TwoTo[7] = 128 /\ TwoTo[8] = 256
  <2>1. /\ TwoTo[0] = 1 /\ TwoTo[1] = 2 * TwoTo[0] /\ TwoTo[2] = 2 * TwoTo[1]
        /\ TwoTo[3] = 2 * TwoTo[2] /\ TwoTo[4] = 2 * TwoTo[3]
        /\ TwoTo[5] = 2 * TwoTo[4] /\ TwoTo[6] = 2 * TwoTo[5]
        /\ TwoTo[7] = 2 * TwoTo[6] /\ TwoTo[8] = 2 * TwoTo[7]
    BY TwoToRule
  <2>2. QED
    BY <2>1
<1>2. ASSUME NEW q \in Levels, NEW t \in Thresholds[q]
      PROVE  /\ t <= TwoTo[q.Slices - 1]
             /\ q.D + q.Delta - t < TwoTo[q.Slices - 1]
  <2>1. \/ t \in {GetThreshold(q, S) % 256 : S \in 0..q.R}
        \/ t = (q.D + 1) \div 2 + 1
    BY DEF Thresholds
  <2>2. CASE q = Level1
    <3>1. /\ q.R = 12323 /\ q.D = 71 /\ q.Slices = 8 /\ q.Delta = 3
          /\ q.ThresholdMin = 36 /\ q.Coeff0 = 67650000 /\ q.Coeff1 = 34861
          /\ q.Divisor = 5000000
      BY <2>2 DEF Level1
    <3>2. ASSUME NEW S \in Nat, S <= 12323
          PROVE  GetThreshold(q, S) \in Nat /\ GetThreshold(q, S) <= 128
      <4> DEFINE x == 34861 * (S \div 2)
                 y == 67650000 + 34861 * (S - S \div 2)
                 thr0 == x \div 5000000 + y \div 5000000
                           + ((x % 5000000) + (y % 5000000)) \div 5000000
      <4>1. GetThreshold(q, S) = IF thr0 < 36 THEN 36 ELSE thr0
        BY <3>1 DEF GetThreshold
      <4> DEFINE g == 5000000
                 b == 100
                 c == 500000000
      <4>2. /\ x \in Nat /\ y \in Nat /\ x + y < c /\ g \in Nat \ {0}
            /\ b \in Nat
            /\ c = b * g
        BY <3>2
      <4>3. thr0 = x \div g + y \div g + ((x % g) + (y % g)) \div g
        OBVIOUS
      <4> HIDE DEF x, y, g, b, c, thr0
      <4>4. thr0 \in Int /\ thr0 < b
        BY <4>2, <4>3, DividedInParts
      <4>5. QED
        BY <4>1, <4>4 DEF b
    <3>3. t \in Nat /\ t <= 128
      <4>1. CASE t = (q.D + 1) \div 2 + 1
        BY <3>1, <4>1
      <4>2. CASE \E S \in 0..q.R : t = GetThreshold(q, S) % 256
        <5>1. PICK S \in 0..q.R : t = GetThreshold(q, S) % 256
          BY <4>2
        <5> DEFINE a == GetThreshold(q, S)
        <5>2. a \in Nat /\ a <= 128 /\ t = a % 256
          <6>1. S \in Nat /\ S <= 12323
            BY <3>1
          <6>2. a \in Nat /\ a <= 128
            BY <3>2, <6>1
          <6>3. t = a % 256
            BY <5>1
          <6>4. QED
            BY <6>2, <6>3
        <5> HIDE DEF a
        <5>3. QED
          BY <5>2
      <4>3. QED
        BY <2>1, <4>1, <4>2
    <3>4. TwoTo[q.Slices - 1] = 128
      <4>1. q.Slices - 1 = 7
        BY <3>1
      <4>2. QED
        BY <1>1, <4>1
    <3>5. QED
      BY <3>1, <3>3, <3>4
  <2>3. CASE q = Level5
    <3>1. q.D = 137 /\ q.Slices = 9 /\ q.Delta = 3
      BY <2>3 DEF Level5
    <3>2. t \in Nat /\ t <= 255
      <4>1. CASE t = (q.D + 1) \div 2 + 1
        BY <3>1, <4>1
      <4>2. CASE \E S \in 0..q.R : t = GetThreshold(q, S) % 256
        <5>1. PICK S \in 0..q.R : t = GetThreshold(q, S) % 256
          BY <4>2
        <5> DEFINE a == GetThreshold(q, S)
        <5>2. t = a % 256
          BY <5>1
        <5>3. a \in Int
          BY <5>1, GetThresholdIs
        <5> HIDE DEF a
        <5>4. QED
          BY <5>2, <5>3
      <4>3. QED
        BY <2>1, <4>1, <4>2
    <3>3. TwoTo[q.Slices - 1] = 256
      <4>1. q.Slices - 1 = 8
        BY <3>1
      <4>2. QED
        BY <1>1, <4>1
    <3>4. QED
      BY <3>1, <3>2, <3>3
  <2>4. QED
    BY <2>2, <2>3 DEF Levels1And5
<1>3. QED
  BY <1>2 DEF SlicesSuffice

(* So it is at LEVELs 1 and 5, whatever the rotations beside it do.        *)
THEOREM CountersOfTheDecoder ==
  ASSUME Levels \subseteq Levels1And5
  PROVE  MCSpec => []SignTellsErrors
<1>1. MCInit => Init
  BY DEF MCInit
<1>2. [MCNext]_<<part, vars, rotVars>> => [Next]_vars
  BY DEF MCNext
<1>3. MCSpec => Spec
  BY <1>1, <1>2, PTL DEF MCSpec, Spec
<1>4. SlicesSuffice
  BY SlicesOfLevels1And5
<1>5. Spec => []SignTellsErrors
  BY <1>4, LastSliceTells
<1>6. QED
  BY <1>3, <1>5, PTL
-----------------------------------------------------------------------------
(***************************************************************************)
(* The decoder.                                                            *)
(***************************************************************************)

(* What the positions marked and flipped are, and that the two second      *)
(* looks have no position in common.                                       *)
DecodeInv ==
  /\ c0 \in Polynomials
  /\ e \in [Halves -> Polynomials]
  /\ black \in [Halves -> Polynomials]
  /\ gray \in [Halves -> Polynomials]
  /\ \A i \in Halves : gray[i] \cap black[i] = {}

LEMMA CandidatesType ==
  ASSUME NEW limit, NEW bonus
  PROVE  Candidates(limit, bonus) \in [Halves -> Polynomials]
BY DEF Candidates, Polynomials

LEMMA FlipType ==
  ASSUME NEW err \in [Halves -> Polynomials], NEW where \in [Halves -> Polynomials]
  PROVE  /\ Flip(err, where) \in [Halves -> Polynomials]
         /\ \A i \in Halves : SymDiff(err[i], Flip(err, where)[i]) = where[i]
<1>1. \A i \in Halves : Flip(err, where)[i] = Add(err[i], where[i])
  BY DEF Flip
<1>2. \A i \in Halves : Flip(err, where)[i] \in Polynomials
  BY <1>1, Closed
<1>3. Flip(err, where) \in [Halves -> Polynomials]
  BY <1>2 DEF Flip
<1>4. \A i \in Halves : SymDiff(err[i], Flip(err, where)[i]) = where[i]
  BY <1>1 DEF Add, SymDiff
<1>5. QED
  BY <1>3, <1>4

LEMMA BothType ==
  ASSUME NEW a \in [Halves -> Polynomials], NEW b \in [Halves -> Polynomials]
  PROVE  /\ Both(a, b) \in [Halves -> Polynomials]
         /\ \A i \in Halves : Both(a, b)[i] \subseteq a[i]
BY DEF Both, Polynomials

(* Each pass of the decoder leaves the ciphertext alone and takes a new    *)
(* syndrome from the error it has changed.                                 *)
LEMMA FindErr1Step ==
  ASSUME DecodeInv, FindErr1
  PROVE  DecodeInv' /\ s' = RecomputeSyndrome(e') /\ c0' = c0
<1>1. /\ black' \in [Halves -> Polynomials]
      /\ e' = Flip(e, black') /\ s' = RecomputeSyndrome(e') /\ c0' = c0
  BY CandidatesType DEF FindErr1
<1>2. gray' = [i \in Halves |-> Candidates(Threshold(s), Delta)[i] \ black'[i]]
  BY DEF FindErr1, Without
<1>3. gray' \in [Halves -> Polynomials] /\ \A i \in Halves : gray'[i] \cap black'[i] = {}
  BY <1>2, CandidatesType DEF Polynomials
<1>4. e' \in [Halves -> Polynomials]
  BY <1>1, FlipType DEF DecodeInv
<1>5. QED
  BY <1>1, <1>3, <1>4 DEF DecodeInv

LEMMA FindErr2Step ==
  ASSUME DecodeInv, NEW pos \in [Halves -> Polynomials], FindErr2(pos)
  PROVE  /\ DecodeInv' /\ s' = RecomputeSyndrome(e') /\ c0' = c0
         /\ \A i \in Halves : SymDiff(e[i], e'[i]) \subseteq pos[i]
<1> DEFINE where == Both(pos, Candidates(SecondThreshold, 0))
<1>1. where \in [Halves -> Polynomials] /\ \A i \in Halves : where[i] \subseteq pos[i]
  BY CandidatesType, BothType
<1>2. e' = Flip(e, where) /\ s' = RecomputeSyndrome(e') /\ UNCHANGED <<c0, black, gray>>
  BY DEF FindErr2
<1> HIDE DEF where
<1>3. /\ e' \in [Halves -> Polynomials]
      /\ \A i \in Halves : SymDiff(e[i], e'[i]) = where[i]
  BY <1>1, <1>2, FlipType DEF DecodeInv
<1>4. QED
  BY <1>1, <1>2, <1>3 DEF DecodeInv

LEMMA DecodeInitInv ==
  ASSUME DecoderAssumption, DecodeInit
  PROVE  DecodeInv
BY DEF DecodeInit, DecodeInv, NoError, Zero, Polynomials, DecoderAssumption

LEMMA DecodeStep ==
  ASSUME DecodeInv, [DecodeNext]_decodeVars
  PROVE  DecodeInv'
<1>1. CASE FindErr1
  BY <1>1, FindErr1Step
<1>2. CASE SecondLookAtBlack
  BY <1>2, FindErr2Step DEF SecondLookAtBlack, DecodeInv
<1>3. CASE SecondLookAtGray
  BY <1>3, FindErr2Step DEF SecondLookAtGray, DecodeInv
<1>4. CASE UNCHANGED decodeVars
  BY <1>4 DEF DecodeInv, decodeVars
<1>5. QED
  BY <1>1, <1>2, <1>3, <1>4 DEF DecodeNext

(* The error and the marked positions are polynomials, one of each half,   *)
(* and no position is both black and gray.                                 *)
THEOREM DecodeInductive ==
  ASSUME DecoderAssumption
  PROVE  DecodeSpec => []DecodeInv
<1>1. DecodeInit => DecodeInv
  BY DecodeInitInv
<1>2. DecodeInv /\ [DecodeNext]_decodeVars => DecodeInv'
  BY DecodeStep
<1>3. QED
  BY <1>1, <1>2, PTL DEF DecodeSpec
-----------------------------------------------------------------------------
(* The way through the public key, which is where associativity is needed. *)
LEMMA Recomputed ==
  ASSUME RingAssumption, DecoderAssumption, c0 \in Polynomials,
         NEW err \in [Halves -> Polynomials]
  PROVE  RecomputeSyndrome(err)
           = Add(Mul(c0, H0), Add(Mul(err[0], H0), Mul(err[1], H1)))
<1> DEFINE p0 == err[0]
           p1 == err[1]
           x  == Mul(p1, Pk)
<1>1. /\ p0 \in Polynomials /\ p1 \in Polynomials
      /\ H0 \in Polynomials /\ Pk \in Polynomials /\ Mul(Pk, H0) = H1
  BY DEF DecoderAssumption, Halves
<1>2. RecomputeSyndrome(err) = Mul(Add(Add(x, c0), p0), H0)
  BY DEF RecomputeSyndrome, ComputeSyndrome
<1> HIDE DEF p0, p1
<1>3. x \in Polynomials /\ Add(x, c0) \in Polynomials /\ Mul(x, H0) = Mul(p1, H1)
  <2>1. x \in Polynomials
    BY <1>1, Closed
  <2>2. Add(x, c0) \in Polynomials
    BY <2>1, Closed
  <2>3. Mul(x, H0) = Mul(p1, Mul(Pk, H0))
    BY <1>1, MulAssoc
  <2>4. QED
    BY <1>1, <2>1, <2>2, <2>3
<1> HIDE DEF x
<1>4. Mul(Add(Add(x, c0), p0), H0) = Add(Mul(Add(x, c0), H0), Mul(p0, H0))
  BY <1>1, <1>3, MulAddLeft
<1>5. Mul(Add(x, c0), H0) = Add(Mul(x, H0), Mul(c0, H0))
  BY <1>1, <1>3, MulAddLeft
<1>6. Add(Add(Mul(p1, H1), Mul(c0, H0)), Mul(p0, H0))
        = Add(Mul(c0, H0), Add(Mul(p0, H0), Mul(p1, H1)))
  BY DEF Add, SymDiff
<1>7. QED
  BY <1>2, <1>3, <1>4, <1>5, <1>6 DEF p0, p1

(* Whenever a pass begins, the syndrome belongs to the ciphertext with the *)
(* error found so far taken out.                                           *)
THEOREM SyndromeKept ==
  ASSUME RingAssumption, DecoderAssumption
  PROVE  DecodeSpec => []SyndromeOfResidue
<1>1. DecodeInit => SyndromeOfResidue
  <2>1. SUFFICES ASSUME DecodeInit
                 PROVE  SyndromeOfResidue
    OBVIOUS
  <2>2. s = Mul(c0, H0) /\ e[0] = Zero /\ e[1] = Zero
    BY <2>1 DEF DecodeInit, ComputeSyndrome, NoError, Halves
  <2>3. QED
    BY <2>2, MulZero DEF SyndromeOfResidue
<1>2. DecodeInv /\ SyndromeOfResidue /\ [DecodeNext]_decodeVars => SyndromeOfResidue'
  <2>1. SUFFICES ASSUME DecodeInv, SyndromeOfResidue, [DecodeNext]_decodeVars
                 PROVE  SyndromeOfResidue'
    OBVIOUS
  <2>2. CASE UNCHANGED decodeVars
    BY <2>1, <2>2 DEF SyndromeOfResidue, decodeVars
  <2>3. CASE DecodeNext
    <3>1. DecodeInv' /\ s' = RecomputeSyndrome(e') /\ c0' = c0
      <4>1. CASE FindErr1
        BY <2>1, <4>1, FindErr1Step
      <4>2. CASE SecondLookAtBlack
        BY <2>1, <4>2, FindErr2Step DEF SecondLookAtBlack, DecodeInv
      <4>3. CASE SecondLookAtGray
        BY <2>1, <4>3, FindErr2Step DEF SecondLookAtGray, DecodeInv
      <4>4. QED
        BY <2>3, <4>1, <4>2, <4>3 DEF DecodeNext
    <3>2. c0 \in Polynomials /\ e' \in [Halves -> Polynomials]
      BY <2>1, <3>1 DEF DecodeInv
    <3>3. RecomputeSyndrome(e')
            = Add(Mul(c0, H0), Add(Mul(e'[0], H0), Mul(e'[1], H1)))
      BY <3>2, Recomputed
    <3>4. QED
      BY <3>1, <3>3 DEF SyndromeOfResidue
  <2>4. QED
    BY <2>1, <2>2, <2>3
<1>3. QED
  BY <1>1, <1>2, DecodeInductive, PTL DEF DecodeSpec

(* The second looks flip only what find_err1 marked, and none twice. *)
THEOREM SecondLooks ==
  ASSUME DecoderAssumption
  PROVE  DecodeSpec => SecondLookOnlyMarked
<1> DEFINE Marked ==
      /\ call = "black" => \A i \in Halves : SymDiff(e[i], e'[i]) \subseteq black[i]
      /\ call = "gray"  => \A i \in Halves : SymDiff(e[i], e'[i]) \subseteq gray[i] \ black[i]
<1>1. DecodeInv /\ [DecodeNext]_decodeVars => [Marked]_decodeVars
  <2>1. SUFFICES ASSUME DecodeInv, DecodeNext
                 PROVE  Marked
    OBVIOUS
  <2>2. CASE FindErr1
    BY <2>2 DEF FindErr1
  <2>3. CASE SecondLookAtBlack
    BY <2>1, <2>3, FindErr2Step DEF SecondLookAtBlack, DecodeInv
  <2>4. CASE SecondLookAtGray
    BY <2>1, <2>4, FindErr2Step DEF SecondLookAtGray, DecodeInv
  <2>5. QED
    BY <2>1, <2>2, <2>3, <2>4 DEF DecodeNext
<1>2. QED
  BY <1>1, DecodeInductive, PTL DEF DecodeSpec, SecondLookOnlyMarked
-----------------------------------------------------------------------------
LEMMA ZeroFallsShort ==
  ASSUME CounterAssumption, NEW limit \in 1 .. 2 ^ (Slices - 1)
  PROVE  ~Reaches(0, limit)
<1> DEFINE half == 2 ^ (Slices - 1)
<1>1. half \in Nat /\ limit \in 1 .. half /\ 2 ^ Slices = 2 * half
  BY DEF CounterAssumption
<1> HIDE DEF half
<1>2. (0 - limit) % (2 * half) = 2 * half - limit
  BY <1>1
<1>3. QED
  BY <1>1, <1>2 DEF Reaches, half

LEMMA NoCandidates ==
  ASSUME CounterAssumption, s = Zero, NEW limit \in 1 .. 2 ^ (Slices - 1)
  PROVE  Candidates(limit, 0) = NoError
<1>1. \A i \in Halves, j \in Exponents : Upc(i, j) = 0
  BY FS_EmptySet DEF Upc, Rotated, Zero
<1>2. \A i \in Halves : {j \in Exponents : Reaches(Upc(i, j) + 0, limit)} = {}
  BY <1>1, ZeroFallsShort
<1>3. QED
  BY <1>2 DEF Candidates, NoError, Zero

LEMMA ThresholdOfZero ==
  ASSUME CounterAssumption, s = Zero
  PROVE  Threshold(s) \in 1 .. 2 ^ (Slices - 1)
<1>1. Cardinality(s) = 0
  BY FS_EmptySet DEF Zero
<1>2. Coeff0 + Coeff1 * Cardinality(s) = Coeff0
  BY <1>1 DEF CounterAssumption
<1>3. Coeff0 \div Divisor \in Nat
  BY DEF CounterAssumption
<1>4. QED
  BY <1>2, <1>3 DEF Threshold, CounterAssumption

LEMMA FlipNothing ==
  ASSUME NEW err \in [Halves -> Polynomials]
  PROVE  Flip(err, NoError) = err
<1>1. \A i \in Halves : Add(err[i], NoError[i]) = err[i]
  BY MulZero DEF NoError
<1>2. QED
  BY <1>1 DEF Flip

(* A syndrome of zero flips nothing. *)
LEMMA QuietStep ==
  ASSUME RingAssumption, DecoderAssumption, CounterAssumption,
         DecodeInv, DecodeNext, s = Zero
  PROVE  e' = e
<1>1. Candidates(Threshold(s), 0) = NoError
  BY NoCandidates, ThresholdOfZero
<1>2. Candidates(SecondThreshold, 0) = NoError
  <2>1. IsFiniteSet(H0) /\ D \in Nat
    BY FiniteParts DEF D, DecoderAssumption, Polynomials
  <2>2. SecondThreshold \in 1 .. 2 ^ (Slices - 1)
    BY <2>1 DEF SecondThreshold, CounterAssumption, D
  <2>3. QED
    BY <2>2, NoCandidates
<1>3. ASSUME NEW pos, FindErr2(pos)
      PROVE  e' = e
  <2>1. Both(pos, NoError) = NoError
    BY DEF Both, NoError, Zero
  <2>2. QED
    BY <1>2, <1>3, <2>1, FlipNothing DEF FindErr2, DecodeInv
<1>4. CASE FindErr1
  BY <1>1, <1>4, FlipNothing DEF FindErr1, DecodeInv
<1>5. CASE SecondLookAtBlack
  BY <1>3, <1>5 DEF SecondLookAtBlack
<1>6. CASE SecondLookAtGray
  BY <1>3, <1>6 DEF SecondLookAtGray
<1>7. QED
  BY <1>4, <1>5, <1>6 DEF DecodeNext

(* Once the syndrome is zero, the iterations that are left, which run in   *)
(* any case, change nothing.                                               *)
THEOREM FoundStays ==
  ASSUME RingAssumption, DecoderAssumption, CounterAssumption
  PROVE  DecodeSpec => FoundStaysFound
<1>1. DecodeInv /\ [DecodeNext]_decodeVars => [s = Zero => e' = e]_decodeVars
  BY QuietStep
<1>2. QED
  BY <1>1, DecodeInductive, PTL DEF DecodeSpec, FoundStaysFound
-----------------------------------------------------------------------------
(***************************************************************************)
(* Errors that are found.                                                  *)
(***************************************************************************)

LEMMA Sum ==
  ASSUME RingAssumption, NEW i \in Exponents, NEW j \in Exponents
  PROVE  /\ (i + j) % R \in Exponents
         /\ (i + j) % R = IF i + j < R THEN i + j ELSE (i + j) - R
         /\ (i + j) % R = (j + i) % R
<1>1. R \in Nat \ {0} /\ Exponents = 0 .. R - 1
  BY DEF RingAssumption, Exponents
<1>2. i + j \in 0 .. R + R - 1 /\ i + j = j + i
  BY <1>1
<1>3. CASE i + j < R
  BY <1>1, <1>2, <1>3
<1>4. CASE ~(i + j < R)
  BY <1>1, <1>2, <1>4
<1>5. QED
  BY <1>3, <1>4

(* Sums and differences undo each other. *)
LEMMA SumMinus ==
  ASSUME RingAssumption, NEW i \in Exponents, NEW j \in Exponents, NEW k \in Exponents
  PROVE  (i + j) % R = k <=> (k - j) % R = i
<1>1. R \in Nat \ {0} /\ Exponents = 0 .. R - 1
  BY DEF RingAssumption, Exponents
<1>2. (i + j) % R = IF i + j < R THEN i + j ELSE (i + j) - R
  BY Sum
<1>3. (k - j) % R = IF k >= j THEN k - j ELSE (k - j) + R
  BY Difference
<1>4. QED
  BY <1>1, <1>2, <1>3

(* Where a rotated syndrome has its bits: what rotate_right is for. *)
LEMMA RotatedIs ==
  ASSUME RingAssumption, NEW x \in Polynomials, NEW w \in Exponents
  PROVE  Rotated(x, w) = {j \in Exponents : (j + w) % R \in x}
<1>1. \A t \in x : t \in Exponents
  BY DEF Polynomials
<1>2. ASSUME NEW t \in x
      PROVE  (t - w) % R \in Exponents /\ (((t - w) % R) + w) % R = t
  <2>1. PICK u : u = (t - w) % R
    OBVIOUS
  <2>2. u \in Exponents
    BY <1>1, <2>1, Difference
  <2>3. t \in Exponents /\ (t - w) % R = u
    BY <1>1, <2>1
  <2>4. (u + w) % R = t
    BY <2>2, <2>3, SumMinus
  <2>5. QED
    BY <2>1, <2>2, <2>4
<1>3. ASSUME NEW j \in Exponents, (j + w) % R \in x
      PROVE  j \in Rotated(x, w)
  <2>1. PICK t \in x : t = (j + w) % R
    BY <1>3
  <2>2. (t - w) % R = j
    BY <1>1, <2>1, SumMinus
  <2>3. QED
    BY <2>2 DEF Rotated
<1>4. Rotated(x, w) \subseteq {j \in Exponents : (j + w) % R \in x}
  BY <1>2 DEF Rotated
<1>5. QED
  BY <1>3, <1>4

Errors == [Halves -> Polynomials]

LEMMA KeyHalves ==
  ASSUME RingAssumption, DecoderAssumption, NEW i \in Halves
  PROVE  /\ H[i] \in Polynomials /\ IsFiniteSet(H[i])
         /\ Cardinality(H[i]) = D /\ D \in Nat
<1>1. H[i] \in Polynomials /\ Cardinality(H[i]) = D
  BY DEF H, D, DecoderAssumption, Halves
<1>2. QED
  BY <1>1, FiniteParts DEF Polynomials

LEMMA SyndromeOfType ==
  ASSUME RingAssumption, DecoderAssumption, NEW err \in Errors
  PROVE  SyndromeOf(err) \in Polynomials
<1>1. Mul(err[0], H0) \in Polynomials /\ Mul(err[1], H1) \in Polynomials
  BY Closed DEF Errors, Halves, DecoderAssumption
<1>2. QED
  BY <1>1, Closed DEF SyndromeOf

(* A check of position j that no other position of the error is in fails   *)
(* exactly when j is in the error.                                         *)
LEMMA OwnChecks ==
  ASSUME RingAssumption, DecoderAssumption, NEW err \in Errors,
         NEW i \in Halves, NEW j \in Exponents, NEW w \in H[i] \ Shared(err, i, j)
  PROVE  (w + j) % R \in SyndromeOf(err) <=> j \in err[i]
<1>1. PICK t : t = (w + j) % R
  OBVIOUS
<1>2. w \in Exponents /\ t \in Exponents
  <2>1. w \in Exponents
    BY KeyHalves DEF Polynomials
  <2>2. QED
    BY <1>1, <2>1, Sum
<1>3. ASSUME NEW k \in Halves, NEW x \in Meet(err[k], H[k], t)
      PROVE  k = i /\ x = j
  <2>1. x \in err[k] /\ x \in Exponents /\ (t - x) % R \in H[k]
    BY DEF Meet, Errors, Polynomials
  <2>2. PICK v : v = (t - x) % R
    OBVIOUS
  <2>3. v \in H[k] /\ v \in Exponents
    BY <2>1, <2>2, KeyHalves DEF Polynomials
  <2>4. (v + x) % R = t
    BY <1>2, <2>1, <2>2, <2>3, SumMinus
  <2>5. <<k, x>> = <<i, j>>
    BY <1>1, <2>1, <2>3, <2>4 DEF Shared
  <2>6. QED
    BY <2>5
<1>4. j \in err[i] => j \in Meet(err[i], H[i], t)
  <2>1. (t - j) % R = w
    BY <1>1, <1>2, SumMinus
  <2>2. QED
    BY <2>1 DEF Meet
<1>5. \A k \in Halves : Meet(err[k], H[k], t) =
        IF k = i /\ j \in err[i] THEN {j} ELSE {}
  <2>1. SUFFICES ASSUME NEW k \in Halves
                 PROVE  Meet(err[k], H[k], t) =
                          IF k = i /\ j \in err[i] THEN {j} ELSE {}
    OBVIOUS
  <2>2. CASE k = i /\ j \in err[i]
    BY <1>3, <1>4, <2>2
  <2>3. CASE ~(k = i /\ j \in err[i])
    <3>1. ASSUME NEW x \in Meet(err[k], H[k], t)
          PROVE  FALSE
      <4>1. k = i /\ x = j
        BY <1>3
      <4>2. x \in err[k]
        BY DEF Meet
      <4>3. QED
        BY <2>3, <4>1, <4>2
    <3>2. QED
      BY <2>3, <3>1
  <2>4. QED
    BY <2>2, <2>3
<1>6. Odd({j}) /\ ~Odd({})
  <2>1. Cardinality({j}) = 1 /\ Cardinality({}) = 0
    BY FS_EmptySet, FS_Singleton
  <2>2. QED
    BY <2>1 DEF Odd
<1>7. \A k \in Halves : t \in Mul(err[k], H[k]) <=> k = i /\ j \in err[i]
  BY <1>2, <1>5, <1>6, MulMeans
<1>8. SyndromeOf(err) = SymDiff(Mul(err[0], H[0]), Mul(err[1], H[1]))
  BY DEF SyndromeOf, Add, H, Halves
<1>9. QED
  BY <1>1, <1>7, <1>8 DEF SymDiff, Halves

(* So many checks of a position fail. *)
LEMMA CountOfError ==
  ASSUME RingAssumption, DecoderAssumption, NEW err \in Errors, s = SyndromeOf(err),
         NEW i \in Halves, NEW j \in Exponents,
         NEW shared, shared = Cardinality(Shared(err, i, j))
  PROVE  /\ Upc(i, j) \in 0 .. D /\ shared \in Nat
         /\ IF j \in err[i] THEN D - shared <= Upc(i, j) ELSE Upc(i, j) <= shared
<1>1. PICK F : F = {w \in H[i] : j \in Rotated(s, w)}
  OBVIOUS
<1>2. PICK T : T = Shared(err, i, j)
  OBVIOUS
<1>3. /\ Upc(i, j) = Cardinality(F)
      /\ F \subseteq H[i] /\ T \subseteq H[i]
  BY <1>1, <1>2 DEF Upc, Shared
<1>4. /\ IsFiniteSet(H[i]) /\ IsFiniteSet(F) /\ IsFiniteSet(T)
      /\ D \in Nat /\ Cardinality(H[i]) = D
      /\ Cardinality(F) \in 0 .. D /\ shared = Cardinality(T) /\ shared \in Nat
  <2>1. IsFiniteSet(H[i]) /\ D \in Nat /\ Cardinality(H[i]) = D
    BY KeyHalves
  <2>2. /\ IsFiniteSet(F) /\ Cardinality(F) <= D
        /\ IsFiniteSet(T)
    BY <1>3, <2>1, FS_Subset
  <2>3. Cardinality(F) \in Nat /\ Cardinality(T) \in Nat
    BY <2>2, FS_CardinalityType
  <2>4. QED
    BY <1>2, <2>1, <2>2, <2>3
<1>5. ASSUME NEW w \in H[i] \ T
      PROVE  w \in F <=> j \in err[i]
  <2>1. w \in Exponents
    BY KeyHalves DEF Polynomials
  <2>2. w \in F <=> (j + w) % R \in s
    BY <1>1, <2>1, SyndromeOfType, RotatedIs
  <2>3. (j + w) % R = (w + j) % R
    BY <2>1, Sum
  <2>4. QED
    BY <1>2, <2>2, <2>3, OwnChecks
<1>6. CASE j \in err[i]
  <2>1. H[i] \ T \subseteq F
    BY <1>5, <1>6
  <2>2. Cardinality(H[i] \ T) = D - Cardinality(H[i] \cap T)
    BY <1>4, FS_Difference
  <2>3. H[i] \cap T = T
    BY <1>3
  <2>4. Cardinality(H[i] \ T) <= Cardinality(F)
    BY <1>4, <2>1, FS_Subset
  <2>5. QED
    BY <1>3, <1>4, <1>6, <2>2, <2>3, <2>4
<1>7. CASE j \notin err[i]
  <2>1. F \subseteq T
    BY <1>3, <1>5, <1>7
  <2>2. Cardinality(F) <= Cardinality(T)
    BY <1>4, <2>1, FS_Subset
  <2>3. QED
    BY <1>3, <1>4, <1>7, <2>2
<1>8. QED
  BY <1>6, <1>7

(* The sign of the difference is right as long as the difference fits.     *)
LEMMA ReachesMeans ==
  ASSUME CounterAssumption, NEW count \in Nat, NEW limit \in Int,
         count - limit < 2 ^ (Slices - 1), limit <= 2 ^ (Slices - 1)
  PROVE  Reaches(count, limit) <=> count >= limit
<1>1. PICK half : half = 2 ^ (Slices - 1)
  OBVIOUS
<1>2. half \in Nat /\ count - limit < half /\ limit <= half /\ 2 ^ Slices = 2 * half
  BY <1>1 DEF CounterAssumption
<1>3. Reaches(count, limit) <=> (count - limit) % (2 * half) < half
  BY <1>1, <1>2 DEF Reaches
<1>4. CASE count >= limit
  <2>1. (count - limit) % (2 * half) = count - limit
    BY <1>2, <1>4
  <2>2. QED
    BY <1>2, <1>3, <1>4, <2>1
<1>5. CASE count < limit
  <2>1. (count - limit) % (2 * half) = (count - limit) + 2 * half
    BY <1>2, <1>5
  <2>2. QED
    BY <1>2, <1>3, <1>5, <2>1
<1>6. QED
  BY <1>2, <1>4, <1>5

(* The threshold of a separated error is one its counts are compared to    *)
(* rightly.                                                                *)
LEMMA ThresholdFits ==
  ASSUME RingAssumption, DecoderAssumption, CounterAssumption,
         D <= 2 ^ (Slices - 1), NEW err \in Errors, Separated(err)
  PROVE  Threshold(SyndromeOf(err)) \in 1 .. 2 ^ (Slices - 1)
<1>1. PICK th : th = Threshold(SyndromeOf(err))
  OBVIOUS
<1>2. PICK half : half = 2 ^ (Slices - 1)
  OBVIOUS
<1>3. half \in Nat /\ D \in Nat /\ D <= half
  BY <1>2, KeyHalves DEF CounterAssumption, Halves
<1>4. th \in Int /\ th >= 1
  <2>1. Cardinality(SyndromeOf(err)) \in Nat
    BY SyndromeOfType, FiniteParts DEF Polynomials
  <2>2. Coeff1 * Cardinality(SyndromeOf(err)) \in Nat
    BY <2>1 DEF CounterAssumption
  <2>3. PICK x : x = Coeff0 + Coeff1 * Cardinality(SyndromeOf(err))
    OBVIOUS
  <2>4. x \in Nat /\ Divisor \in Nat \ {0}
    BY <2>2, <2>3 DEF CounterAssumption
  <2>5. x \div Divisor \in Int
    BY <2>4
  <2>6. th = IF x \div Divisor < ThresholdMin THEN ThresholdMin ELSE x \div Divisor
    BY <1>1, <2>3 DEF Threshold
  <2>7. ThresholdMin \in Nat /\ ThresholdMin >= 1
    BY <1>2, <1>3 DEF CounterAssumption
  <2>8. QED
    BY <2>5, <2>6, <2>7
<1>5. CASE err = NoError
  <2>1. SyndromeOf(err) = Zero
    <3>1. err[0] = Zero /\ err[1] = Zero
      BY <1>5 DEF NoError, Halves
    <3>2. QED
      BY <3>1, MulZero DEF SyndromeOf
  <2>2. Cardinality(SyndromeOf(err)) = 0
    BY <2>1, FS_EmptySet DEF Zero
  <2>3. Coeff0 + Coeff1 * Cardinality(SyndromeOf(err)) = Coeff0
    BY <2>2 DEF CounterAssumption
  <2>4. Coeff0 \div Divisor \in Nat
    BY DEF CounterAssumption
  <2>5. QED
    BY <2>3, <2>4 DEF Threshold, CounterAssumption
<1>6. CASE err # NoError
  <2>1. PICK i \in Halves : err[i] # {}
    BY <1>6 DEF Errors, NoError, Zero
  <2>2. PICK j : j \in err[i]
    BY <2>1
  <2>3. j \in Exponents
    BY <2>2 DEF Errors, Polynomials
  <2>4. PICK shared : shared = Cardinality(Shared(err, i, j))
    OBVIOUS
  <2>5. th <= D - shared
    BY <1>1, <2>2, <2>3, <2>4 DEF Separated
  <2>6. shared \in Nat
    <3>1. Shared(err, i, j) \subseteq H[i]
      BY DEF Shared
    <3>2. QED
      BY <2>4, <3>1, KeyHalves, FS_Subset, FS_CardinalityType
  <2>7. QED
    BY <1>1, <1>2, <1>3, <1>4, <2>5, <2>6
<1>7. QED
  BY <1>5, <1>6

(* The first pass finds a separated error. *)
LEMMA PassFinds ==
  ASSUME RingAssumption, DecoderAssumption, CounterAssumption,
         D <= 2 ^ (Slices - 1), NEW err \in Errors, Separated(err),
         s = SyndromeOf(err)
  PROVE  Candidates(Threshold(s), 0) = err
<1>1. PICK limit : limit = Threshold(s)
  OBVIOUS
<1>2. limit \in 1 .. 2 ^ (Slices - 1)
  BY <1>1, ThresholdFits
<1>3. 2 ^ (Slices - 1) \in Nat
  BY DEF CounterAssumption
<1>4. ASSUME NEW i \in Halves, NEW j \in Exponents
      PROVE  Reaches(Upc(i, j) + 0, limit) <=> j \in err[i]
  <2>1. PICK shared : shared = Cardinality(Shared(err, i, j))
    OBVIOUS
  <2>2. PICK count : count = Upc(i, j)
    OBVIOUS
  <2>3. /\ count \in 0 .. D /\ shared \in Nat /\ D \in Nat
        /\ IF j \in err[i] THEN D - shared <= count ELSE count <= shared
    BY <2>1, <2>2, CountOfError, KeyHalves
  <2>4. IF j \in err[i] THEN limit <= D - shared ELSE shared < limit
    BY <1>1, <2>1 DEF Separated
  <2>5. count >= limit <=> j \in err[i]
    BY <1>2, <1>3, <2>3, <2>4
  <2>6. /\ count \in Nat /\ limit \in Int /\ count + 0 = count
        /\ count - limit < 2 ^ (Slices - 1) /\ limit <= 2 ^ (Slices - 1)
    BY <1>2, <1>3, <2>3
  <2>7. Reaches(count, limit) <=> count >= limit
    BY <2>6, ReachesMeans
  <2>8. QED
    BY <2>2, <2>5, <2>6, <2>7
<1>5. \A i \in Halves : {j \in Exponents : Reaches(Upc(i, j) + 0, limit)} = err[i]
  BY <1>4 DEF Errors, Polynomials
<1>6. Candidates(limit, 0) = [i \in Halves |-> {j \in Exponents : Reaches(Upc(i, j) + 0, limit)}]
  BY DEF Candidates
<1>7. Candidates(limit, 0) = [i \in Halves |-> err[i]]
  BY <1>5, <1>6
<1>8. err = [i \in Halves |-> err[i]]
  BY DEF Errors
<1>9. QED
  BY <1>1, <1>7, <1>8

LEMMA SyndromeOfEncoded ==
  ASSUME RingAssumption, DecoderAssumption, NEW err \in Errors
  PROVE  Encoded(err) \in Polynomials /\ Mul(Encoded(err), H0) = SyndromeOf(err)
<1>1. PICK p0, p1, y : p0 = err[0] /\ p1 = err[1] /\ y = Mul(p1, Pk)
  OBVIOUS
<1>2. /\ p0 \in Polynomials /\ p1 \in Polynomials
      /\ H0 \in Polynomials /\ Pk \in Polynomials /\ Mul(Pk, H0) = H1
  BY <1>1 DEF Errors, Halves, DecoderAssumption
<1>3. y \in Polynomials
  BY <1>1, <1>2, Closed
<1>4. Add(p0, y) \in Polynomials
  BY <1>2, <1>3, Closed
<1>5. Mul(Add(p0, y), H0) = Add(Mul(p0, H0), Mul(y, H0))
  BY <1>2, <1>3, MulAddLeft
<1>6. Mul(y, H0) = Mul(p1, H1)
  <2>1. Mul(Mul(p1, Pk), H0) = Mul(p1, Mul(Pk, H0))
    BY <1>2, MulAssoc
  <2>2. QED
    BY <1>1, <1>2, <2>1
<1>7. QED
  BY <1>1, <1>4, <1>5, <1>6 DEF Encoded, SyndromeOf

(* What the decoder knows of an error: nothing yet, or all of it. *)
Found(err) ==
  \/ e = NoError /\ s = SyndromeOf(err) /\ call = "err1"
  \/ e = err /\ s = Zero

SeparatedFound ==
  \A err \in Errors : Separated(err) /\ c0 = Encoded(err) => Found(err)

(* After each pass the syndrome is zero if the error is the one sent. *)
LEMMA NothingLeft ==
  ASSUME RingAssumption, DecoderAssumption, DecodeInv, DecodeNext,
         NEW err \in Errors, c0 = Encoded(err), e' = err
  PROVE  s' = Zero
<1>1. s' = RecomputeSyndrome(e') /\ c0 \in Polynomials
  BY FindErr1Step, FindErr2Step DEF DecodeNext, SecondLookAtBlack, SecondLookAtGray,
                                    DecodeInv
<1>2. RecomputeSyndrome(err) = Add(Mul(c0, H0), SyndromeOf(err))
  BY <1>1, Recomputed DEF SyndromeOf, Errors
<1>3. Mul(c0, H0) = SyndromeOf(err)
  BY SyndromeOfEncoded
<1>4. Add(SyndromeOf(err), SyndromeOf(err)) = Zero
  BY DEF Add, SymDiff, Zero
<1>5. QED
  BY <1>1, <1>2, <1>3, <1>4

(* An error whose positions have enough checks of their own, and with      *)
(* which no other position shares too many, is found exactly by the first  *)
(* find_err1, and the passes that follow leave it alone.                   *)
THEOREM SeparatedErrorsFound ==
  ASSUME RingAssumption, DecoderAssumption, CounterAssumption, D <= 2 ^ (Slices - 1)
  PROVE  DecodeSpec => []SeparatedFound
<1>1. DecodeInit => SeparatedFound
  <2>1. SUFFICES ASSUME DecodeInit, NEW err \in Errors, c0 = Encoded(err)
                 PROVE  Found(err)
    BY DEF SeparatedFound
  <2>2. s = Mul(c0, H0) /\ e = NoError /\ call = "err1"
    BY <2>1 DEF DecodeInit, ComputeSyndrome
  <2>3. QED
    BY <2>1, <2>2, SyndromeOfEncoded DEF Found
<1>2. DecodeInv /\ SeparatedFound /\ [DecodeNext]_decodeVars => SeparatedFound'
  <2>1. SUFFICES ASSUME DecodeInv, SeparatedFound, [DecodeNext]_decodeVars,
                        NEW err \in Errors, Separated(err), (c0 = Encoded(err))'
                 PROVE  Found(err)'
    BY DEF SeparatedFound
  <2>2. c0' = c0
    BY <2>1, FindErr1Step, FindErr2Step
       DEF DecodeNext, SecondLookAtBlack, SecondLookAtGray, DecodeInv, decodeVars
  <2>3. Found(err) /\ c0 = Encoded(err)
    BY <2>1, <2>2 DEF SeparatedFound
  <2>4. CASE UNCHANGED decodeVars
    BY <2>3, <2>4 DEF Found, decodeVars
  <2>5. CASE DecodeNext /\ e = err /\ s = Zero
    <3>1. e' = err
      BY <2>1, <2>5, QuietStep
    <3>2. QED
      BY <2>1, <2>3, <2>5, <3>1, NothingLeft DEF Found
  <2>6. CASE DecodeNext /\ e = NoError /\ s = SyndromeOf(err) /\ call = "err1"
    <3>1. e' = Flip(NoError, Candidates(Threshold(s), 0))
      BY <2>6 DEF DecodeNext, FindErr1, SecondLookAtBlack, SecondLookAtGray
    <3>2. Candidates(Threshold(s), 0) = err
      BY <2>1, <2>6, PassFinds
    <3>3. Flip(NoError, err) = err
      <4>1. \A i \in Halves : Add(NoError[i], err[i]) = err[i]
        BY MulZero DEF NoError
      <4>2. Flip(NoError, err) = [i \in Halves |-> err[i]]
        BY <4>1 DEF Flip
      <4>3. QED
        BY <4>2 DEF Errors
    <3>4. e' = err
      BY <3>1, <3>2, <3>3
    <3>5. QED
      BY <2>1, <2>3, <2>6, <3>4, NothingLeft DEF Found
  <2>7. QED
    BY <2>1, <2>3, <2>4, <2>5, <2>6 DEF Found
<1>3. QED
  BY <1>1, <1>2, DecodeInductive, PTL DEF DecodeSpec

(* So a single error is found, wherever it is, with every key whose        *)
(* columns share few enough checks.                                        *)
THEOREM SingleErrors ==
  ASSUME RingAssumption, DecoderAssumption, CounterAssumption, KeyParameters
  PROVE  DecodeSpec => []SingleErrorsFound
<1>1. D <= 2 ^ (Slices - 1) /\ \A err \in AtMostOneError : Separated(err)
  BY DEF KeyParameters
<1>2. AtMostOneError \subseteq Errors
  BY DEF AtMostOneError, Errors, NoError, Zero, Polynomials, Halves
<1>3. SeparatedFound => SingleErrorsFound
  BY <1>1, <1>2 DEF SeparatedFound, SingleErrorsFound, Found
<1>4. QED
  BY <1>1, <1>3, SeparatedErrorsFound, PTL
-----------------------------------------------------------------------------
(***************************************************************************)
(* What the decoder takes of its two parts.                                *)
(***************************************************************************)

(* A rotation of the syndrome, as the decoder counts in it, is what        *)
(* rotate_right makes of it, whatever the syndrome.                        *)
THEOREM RotationsCountedIn ==
  ASSUME NEW x \in Polynomials
  PROVE  Rotate!Spec =>
           [](rotPc = "done" =>
                Rotated(x, amount) = {j \in Exponents : Rotate!BitAt(out, j) \in x})
<1>1. RotatedInv /\ RotatesRight =>
        (rotPc = "done" =>
           Rotated(x, amount) = {j \in Exponents : Rotate!BitAt(out, j) \in x})
  <2>1. SUFFICES ASSUME RotatedInv, RotatesRight, rotPc = "done"
                 PROVE  Rotated(x, amount) = {j \in Exponents : Rotate!BitAt(out, j) \in x}
    OBVIOUS
  <2>2. amount \in Exponents
    BY <2>1 DEF RotatedInv, Exponents
  <2>3. Rotated(x, amount) = {j \in Exponents : (j + amount) % R \in x}
    BY <2>2, RingAssumption, RotatedIs
  <2>4. \A j \in Exponents : Rotate!BitAt(out, j) = (j + amount) % R
    BY <2>1 DEF RotatesRight, Rotate!RotatesRight, Exponents
  <2>5. QED
    BY <2>3, <2>4
<1>2. QED
  BY <1>1, RotationStepsRight, RotationIsRight, PTL

(* And whether a count reaches the threshold is what the last slice tells, *)
(* at a LEVEL with the decoder's number of slices, if they suffice.        *)
THEOREM LastSliceReaches ==
  ASSUME SlicesSuffice, TwoTo[Slices - 1] = 2 ^ (Slices - 1)
  PROVE  Spec => [](pc = "sign" /\ p.Slices = Slices =>
                      (slice[Slices - 1] = 0 <=> Reaches(ones + added, thr)))
<1>1. CounterInv /\ SignTellsErrors =>
        (pc = "sign" /\ p.Slices = Slices =>
           (slice[Slices - 1] = 0 <=> Reaches(ones + added, thr)))
  <2>1. SUFFICES ASSUME CounterInv, SignTellsErrors, pc = "sign", p.Slices = Slices
                 PROVE  slice[Slices - 1] = 0 <=> Reaches(ones + added, thr)
    OBVIOUS
  <2>2. slice[Slices - 1] = 0 <=> ones + added >= thr
    BY <2>1 DEF SignTellsErrors
  <2>3. /\ p \in Levels /\ ones \in Nat /\ added \in Nat /\ thr \in Int
        /\ ones <= p.D /\ added <= p.Delta /\ thr \in Thresholds[p]
    BY <2>1 DEF CounterInv
  <2>4. PICK half : half = 2 ^ (Slices - 1)
    OBVIOUS
  <2>5. half \in Nat /\ thr <= half /\ p.D + p.Delta - thr < half
        /\ p.D \in Nat /\ p.Delta \in Nat
    BY <2>1, <2>3, <2>4, CounterAssumption, LevelsAssumption
       DEF SlicesSuffice, CounterAssumption
  <2>6. thr \in Int
    BY <2>3
  <2>7. PICK count : count = ones + added
    OBVIOUS
  <2>8. count \in Nat /\ count - thr < half
    BY <2>3, <2>5, <2>7
  <2>9. Reaches(count, thr) <=> count >= thr
    BY <2>4, <2>5, <2>6, <2>8, CounterAssumption, ReachesMeans
  <2>10. QED
    BY <2>2, <2>7, <2>9
<1>2. QED
  BY <1>1, CounterHoldsCount, LastSliceTells, PTL
=============================================================================
