------------------------- MODULE SparseSampling_proof -------------------------
(***************************************************************************)
(* Sparse vectors, of SparseBits and SparseSampling: secure_set_bits sets  *)
(* the bits of the list and no other, for every polynomial, register width *)
(* and list; and a key or an error made from it has the promised weight,   *)
(* each of its draws its own bytes of the key stream.  Last SecureSelect:  *)
(* the masks of the library select what branches would, for every width.   *)
(***************************************************************************)
EXTENDS MCKeySampling, FiniteSetTheorems, WellFoundedInduction, TLAPS

(* Counting up from 0 reaches every number up to n. *)
LEMMA CountingUp ==
  ASSUME NEW n \in Nat, NEW G \in SUBSET (0..n),
         0 \in G, \A k \in G : k < n => k + 1 \in G
  PROVE  G = 0..n
<1> DEFINE Missing == (0..n) \ G
           Bad == {s \in SUBSET (0..n) : \E k \in Missing : s = 0..k}
<1>1. SUFFICES ASSUME NEW m \in Missing
               PROVE  FALSE
  OBVIOUS
<1>9. 0..m \in Bad
  OBVIOUS
<1>2. Bad \subseteq FiniteSubsetsOf(0..n)
  BY FS_Interval, FS_Subset DEF FiniteSubsetsOf
<1>3. IsWellFoundedOn(StrictSubsetOrdering(0..n), FiniteSubsetsOf(0..n))
  BY FS_StrictSubsetOrderingWellFounded
<1> HIDE DEF Bad
<1>4. PICK s \in Bad : \A t \in Bad : ~(<<t, s>> \in StrictSubsetOrdering(0..n))
  BY <1>9, <1>2, <1>3, WFMin
<1> USE DEF Bad
<1>5. PICK k \in Missing : s = 0..k
  OBVIOUS
<1>6. k - 1 \in Missing
  BY <1>5
<1>7. <<0..k-1, s>> \in StrictSubsetOrdering(0..n)
  BY <1>5, <1>6 DEF StrictSubsetOrdering
<1>8. QED
  BY <1>4, <1>6, <1>7

(* A function given by its first value and from each value to the next. *)
Iterates(f, n, first, next) ==
  f[0] = first /\ \A j \in 1..n : f[j] = next[j - 1][f[j - 1]]

(* Such a function exists: there is one up to every k. *)
LEMMA IterationExists ==
  ASSUME NEW n \in Nat, NEW S, NEW first \in S, NEW next \in [0..n -> [S -> S]]
  PROVE  \E f \in [0..n -> S] : Iterates(f, n, first, next)
<1> DEFINE Upto(f, k) ==
             f[0] = first /\ \A j \in 1..k : f[j] = next[j - 1][f[j - 1]]
           G == {k \in 0..n : \E f \in [0..n -> S] : Upto(f, k)}
<1>1. 0 \in G
  <2> DEFINE f == [j \in 0..n |-> first]
  <2>1. f \in [0..n -> S] /\ f[0] = first
    OBVIOUS
  <2> HIDE DEF f
  <2>2. Upto(f, 0)
    BY <2>1
  <2>3. \E g \in [0..n -> S] : Upto(g, 0)
    BY <2>1, <2>2
  <2>4. QED
    BY <2>3
<1>2. ASSUME NEW k \in G, k < n
      PROVE  k + 1 \in G
  <2>1. PICK f \in [0..n -> S] : Upto(f, k)
    OBVIOUS
  <2> DEFINE g == [f EXCEPT ![k + 1] = next[k][f[k]]]
  <2>2. k \in 0..n /\ k + 1 \in 0..n /\ next[k][f[k]] \in S
    BY <1>2
  <2>3. g \in [0..n -> S]
    BY <2>2
  <2>4. /\ g[k + 1] = next[k][f[k]]
        /\ \A j \in 0..k : g[j] = f[j]
    BY <2>2
  <2> HIDE DEF g
  <2>5. ASSUME NEW j \in 1..k+1
        PROVE  g[j] = next[j - 1][g[j - 1]]
    <3>1. CASE j = k + 1
      BY <2>4, <2>2, <3>1
    <3>2. CASE j \in 1..k
      BY <2>1, <2>2, <2>4, <3>2
    <3>3. QED
      BY <2>2, <3>1, <3>2
  <2>6. Upto(g, k + 1)
    BY <2>1, <2>2, <2>4, <2>5
  <2>7. QED
    BY <2>2, <2>3, <2>6
<1>3. n \in G
  <2> HIDE DEF G
  <2>1. G = 0..n
    <3>1. G \in SUBSET (0..n)
      BY DEF G
    <3>2. QED
      BY <1>1, <1>2, <3>1, CountingUp
  <2>2. QED
    BY <2>1
<1>4. PICK f \in [0..n -> S] : Upto(f, n)
  BY <1>3
<1>5. Iterates(f, n, first, next)
  BY <1>4 DEF Iterates
<1>6. QED
  BY <1>5

(* The recursive definition of Place has a solution, so Place satisfies it. *)
LEMMA PlaceValues ==
  ASSUME SamplingAssumption
  PROVE  /\ Place \in [0..RandBytes -> Nat \ {0}]
         /\ Place[0] = 1
         /\ \A j \in 0..RandBytes-1 : Place[j + 1] = ByteValues * Place[j]
<1> DEFINE P == Nat \ {0}
           next == [j \in 0..RandBytes |-> [v \in P |-> ByteValues * v]]
           Def(f) == f = [j \in 0..RandBytes |->
                            IF j = 0 THEN 1 ELSE ByteValues * f[j - 1]]
<1>1. RandBytes \in Nat /\ ByteValues \in Nat \ {0}
  BY DEF SamplingAssumption
<1>2. next \in [0..RandBytes -> [P -> P]]
  BY <1>1
<1>3. PICK f \in [0..RandBytes -> P] : Iterates(f, RandBytes, 1, next)
  <2>1. 1 \in P
    OBVIOUS
  <2> HIDE DEF next, P
  <2>2. QED
    BY <1>1, <1>2, <2>1, IterationExists
<1>4. Def(f)
  <2>1. ASSUME NEW j \in 0..RandBytes
        PROVE  f[j] = IF j = 0 THEN 1 ELSE ByteValues * f[j - 1]
    <3>1. CASE j = 0
      BY <1>3, <3>1 DEF Iterates
    <3>2. CASE j # 0
      <4>1. j \in 1..RandBytes /\ j - 1 \in 0..RandBytes
        BY <1>1, <3>2
      <4>2. f[j - 1] \in P
        BY <4>1
      <4>3. QED
        BY <1>3, <4>1, <4>2, <3>2 DEF Iterates
    <3>3. QED
      BY <3>1, <3>2
  <2>2. QED
    BY <2>1
<1>5. Place = CHOOSE g : Def(g)
  BY DEF Place
<1> HIDE DEF Def
<1>6. Def(Place)
  BY <1>4, <1>5, Zenon
<1> USE DEF Def
<1>7. Place[0] = 1
  BY <1>1, <1>6
<1>8. \A j \in 0..RandBytes-1 : Place[j + 1] = ByteValues * Place[j]
  BY <1>1, <1>6
<1>9. {k \in 0..RandBytes : Place[k] \in P} = 0..RandBytes
  <2> DEFINE G == {k \in 0..RandBytes : Place[k] \in P}
  <2>1. 0 \in G /\ G \in SUBSET (0..RandBytes)
    BY <1>1, <1>7
  <2>2. \A k \in G : k < RandBytes => k + 1 \in G
    BY <1>1, <1>8
  <2> HIDE DEF G
  <2>3. G = 0..RandBytes
    BY <1>1, <2>1, <2>2, CountingUp
  <2>4. QED
    BY <2>3 DEF G
<1>10. Place \in [0..RandBytes -> P]
  BY <1>6, <1>9
<1>11. QED
  BY <1>7, <1>8, <1>10
(***************************************************************************)
(* secure_set_bits.                                                        *)
(***************************************************************************)

MaxSigned == IdxRange \div 2
Start(h)  == IF kind = "error" THEN h * R ELSE 0

(* What the assumption on the constants says, in the forms used below. *)
LEMMA BitSizes ==
  /\ R \in Nat \ {0} /\ QwBits \in Nat \ {0} /\ RegQwords \in Nat \ {0}
  /\ Qwords \in Nat \ {0} /\ IdxRange \in Nat \ {0} /\ MaxSigned \in Nat
  /\ IdxRange = 2 * MaxSigned
  /\ Qwords * QwBits \in Nat /\ R <= Qwords * QwBits
  /\ Qwords * QwBits <= MaxSigned
<1>1. /\ R \in Nat \ {0} /\ QwBits \in Nat \ {0} /\ RegQwords \in Nat \ {0}
      /\ Qwords \in Nat \ {0} /\ IdxRange \in Nat \ {0}
      /\ R <= Qwords * QwBits /\ IdxRange % 2 = 0
      /\ Qwords * QwBits <= IdxRange \div 2
  BY SparseBitsAssumption
<1>2. Qwords * QwBits \in Nat
  BY <1>1
<1>3. MaxSigned \in Nat /\ IdxRange = 2 * MaxSigned
  BY <1>1 DEF MaxSigned
<1>4. QED
  BY <1>1, <1>2, <1>3 DEF MaxSigned

(* Quotient and rest, named. *)
LEMMA Divided ==
  ASSUME NEW w \in Int, NEW q \in Nat \ {0},
         NEW d, d = w \div q, NEW m, m = w % q
  PROVE  d \in Int /\ m \in 0..q-1 /\ w = q * d + m
OBVIOUS

(* A quad-word position and a position in it are those of one bit only,    *)
(* even when the position that is compared was negative.                   *)
LEMMA SameBit ==
  ASSUME NEW w \in Int, 0 - MaxSigned <= w, w < MaxSigned, NEW b \in PaddedBits
  PROVE  (PosQw(w) = b \div QwBits /\ w % QwBits = b % QwBits) <=> w = b
<1> DEFINE d == w \div QwBits
           e == b \div QwBits
           m == w % QwBits
           k == b % QwBits
<1>1. /\ b \in Nat /\ b < MaxSigned
  BY BitSizes DEF PaddedBits
<1>2. /\ d \in Int /\ m \in 0..QwBits-1 /\ w = QwBits * d + m
      /\ e \in Int /\ k \in 0..QwBits-1 /\ b = QwBits * e + k
  BY <1>1, BitSizes, Divided
<1> HIDE DEF d, e, m, k
<1>3. e \in 0..MaxSigned-1
  <2>1. QwBits \in Nat \ {0} /\ MaxSigned \in Nat
    BY BitSizes
  <2>2. CASE e < 0
    <3>1. QwBits * e <= 0 - QwBits
      BY <1>2, <2>1, <2>2
    <3>2. QED
      BY <1>1, <1>2, <2>1, <3>1
  <2>3. CASE e >= 0
    <3>1. e <= QwBits * e
      BY <1>2, <2>1, <2>3
    <3>2. QED
      BY <1>1, <1>2, <2>1, <2>3, <3>1
  <2>4. QED
    BY <1>2, <2>2, <2>3
<1>4. CASE w >= 0
  <2>1. d \in 0..MaxSigned-1
    <3>1. QwBits \in Nat \ {0} /\ MaxSigned \in Nat
      BY BitSizes
    <3>2. CASE d < 0
      <4>1. QwBits * d <= 0 - QwBits
        BY <1>2, <3>1, <3>2
      <4>2. QED
        BY <1>2, <1>4, <3>1, <4>1
    <3>3. CASE d >= 0
      <4>1. d <= QwBits * d
        BY <1>2, <3>1, <3>3
      <4>2. QED
        BY <1>2, <1>4, <3>1, <3>3, <4>1
    <3>4. QED
      BY <1>2, <3>2, <3>3
  <2>2. d % IdxRange = d
    BY <2>1, BitSizes
  <2>3. PosQw(w) = d
    BY <2>2 DEF PosQw, d
  <2>4. QED
    BY <1>2, <1>3, <2>1, <2>3 DEF d, e, m, k
<1>5. CASE w < 0
  <2>1. d \in (0 - MaxSigned) .. (0 - 1)
    <3>1. QwBits \in Nat \ {0} /\ MaxSigned \in Nat
      BY BitSizes
    <3>2. CASE d >= 0
      <4>1. QwBits * d >= 0
        BY <1>2, <3>1, <3>2
      <4>2. QED
        BY <1>2, <1>5, <3>1, <4>1
    <3>3. CASE d < 0
      <4>1. QwBits * (d + 1) <= d + 1
        BY <1>2, <3>1, <3>3
      <4>2. QwBits * (d + 1) = QwBits * d + QwBits
        BY <1>2, <3>1
      <4>3. QED
        BY <1>2, <1>5, <3>1, <3>3, <4>1, <4>2
    <3>4. QED
      BY <1>2, <3>2, <3>3
  <2>2. d % IdxRange = d + IdxRange
    BY <2>1, BitSizes
  <2>3. PosQw(w) = d + IdxRange
    BY <2>2 DEF PosQw, d
  <2>4. d + IdxRange # e
    BY <1>2, <1>3, <2>1, BitSizes
  <2>5. w # b
    BY <1>1, <1>5
  <2>6. QED
    BY <2>3, <2>4, <2>5 DEF e
<1>6. QED
  BY <1>4, <1>5

(* The difference of two indices as an int32_t. *)
LEMMA SignedDifference ==
  ASSUME NEW idxv \in 0 .. IdxRange - 1, NEW first \in 0..R,
         NEW b \in PaddedBits
  PROVE  /\ Signed(idxv - first) \in Int
         /\ 0 - MaxSigned <= Signed(idxv - first)
         /\ Signed(idxv - first) < MaxSigned
         /\ Signed(idxv - first) = b <=> idxv = b + first
<1>1. /\ IdxRange \in Nat \ {0} /\ MaxSigned \in Nat
      /\ IdxRange = 2 * MaxSigned
      /\ b \in 0..MaxSigned-1 /\ R <= MaxSigned /\ R \in Nat
  BY BitSizes DEF PaddedBits
<1> DEFINE u == (idxv - first) % IdxRange
<1>2. u = IF idxv >= first THEN idxv - first ELSE idxv - first + IdxRange
  BY <1>1
<1> HIDE DEF u
<1>3. Signed(idxv - first) = IF u < MaxSigned THEN u ELSE u - IdxRange
  BY DEF Signed, MaxSigned, u
<1>4. QED
  BY <1>1, <1>2, <1>3

(* What the registers of a turn get. *)
LEMMA RegisterBitsAre ==
  ASSUME kind \in {"key", "error"}, half \in Halves,
         wlist[half] \subseteq 0 .. IdxRange - 1,
         NEW q \in Nat, q + RegQwords <= Qwords
  PROVE  /\ q * QwBits .. (q + RegQwords) * QwBits - 1 \subseteq PaddedBits
         /\ RegisterBits(q) =
              {b \in q * QwBits .. (q + RegQwords) * QwBits - 1 :
                 b + Start(half) \in wlist[half]}
<1> DEFINE regs == q * QwBits .. (q + RegQwords) * QwBits - 1
<1>1. regs \subseteq PaddedBits
  <2>1. (q + RegQwords) * QwBits <= Qwords * QwBits
    BY BitSizes
  <2>2. q * QwBits \in Nat /\ (q + RegQwords) * QwBits \in Nat
    BY BitSizes
  <2>3. QED
    BY <2>1, <2>2, BitSizes DEF PaddedBits
<1>2. FirstPos = Start(half) /\ FirstPos \in 0..R
  <2>1. half * R \in 0..R
    BY BitSizes DEF Halves
  <2>2. QED
    BY <2>1, BitSizes DEF FirstPos, Start
<1>3. ASSUME NEW b \in regs
      PROVE  (\E idxv \in wlist[half] :
                LET w == Signed(idxv - FirstPos)
                IN  PosQw(w) = b \div QwBits /\ w % QwBits = b % QwBits)
               <=> b + Start(half) \in wlist[half]
  <2>1. b \in PaddedBits
    BY <1>1
  <2>2. \A idxv \in wlist[half] :
          LET w == Signed(idxv - FirstPos)
          IN  (PosQw(w) = b \div QwBits /\ w % QwBits = b % QwBits)
                <=> idxv = b + FirstPos
    <3>1. TAKE idxv \in wlist[half]
    <3>2. idxv \in 0 .. IdxRange - 1
      OBVIOUS
    <3> DEFINE w == Signed(idxv - FirstPos)
    <3>3. /\ w \in Int /\ 0 - MaxSigned <= w /\ w < MaxSigned
          /\ w = b <=> idxv = b + FirstPos
      BY <1>2, <2>1, <3>2, SignedDifference
    <3> HIDE DEF w
    <3>4. (PosQw(w) = b \div QwBits /\ w % QwBits = b % QwBits) <=> w = b
      BY <2>1, <3>3, SameBit
    <3>5. QED
      BY <3>3, <3>4 DEF w
  <2>3. QED
    BY <1>2, <2>2
<1>4. QED
  BY <1>1, <1>3 DEF RegisterBits

(* The bits below n of a half are those of its list. *)
Correct(h, n) == \A b \in 0..n-1 : b \in r[h] <=> b + Start(h) \in wlist[h]

AllBits == Qwords * QwBits

BitsTypeInv ==
  /\ kind \in {"key", "error"}
  /\ half \in Halves
  /\ qw \in Nat
  /\ pc \in {"fill", "clean", "done"}
  /\ r \in [Halves -> SUBSET PaddedBits]
  /\ wlist \in [Halves -> SUBSET (0 .. IdxRange - 1)]
  /\ kind = "key" => wlist \in [Halves -> SUBSET (0 .. R - 1)]

BitsLoopInv ==
  /\ \E k \in Nat : qw = k * RegQwords
  /\ qw + RegQwords <= Qwords
  /\ pc # "fill" => half = 1 /\ qw = 0

(* The halves before this one and the quad-words before qw are right, and  *)
(* so is everything but the padding when the loops are over.               *)
BitsDoneInv ==
  /\ pc = "fill" => /\ \A h \in Halves : h < half => Correct(h, AllBits)
                    /\ Correct(half, qw * QwBits)
  /\ pc = "clean" => kind = "error" /\ \A h \in Halves : Correct(h, AllBits)
  /\ pc = "done" =>
       \A h \in Halves : r[h] = {b \in 0..R-1 : b + Start(h) \in wlist[h]}

BitsInv == BitsTypeInv /\ BitsLoopInv /\ BitsDoneInv

(* The loop ends with the last register, not in the middle of one. *)
LEMMA NextRegister ==
  ASSUME NEW q \in Nat, \E k \in Nat : q = k * RegQwords,
         q + RegQwords <= Qwords
  PROVE  /\ \E k \in Nat : q + RegQwords = k * RegQwords
         /\ q + RegQwords < Qwords =>
              q + RegQwords + RegQwords <= Qwords
         /\ ~(q + RegQwords < Qwords) => q + RegQwords = Qwords
<1>1. PICK k \in Nat : q = k * RegQwords
  OBVIOUS
<1>2. RegQwords \in Nat \ {0} /\ Qwords \in Nat \ {0}
  BY BitSizes
<1>3. (k + 1) * RegQwords = q + RegQwords /\ k + 1 \in Nat
  BY <1>1, <1>2
<1> DEFINE t == Qwords \div RegQwords
           z == Qwords % RegQwords
<1>4. t \in Int /\ z \in 0..RegQwords-1 /\ Qwords = RegQwords * t + z
  BY <1>2, Divided
<1>5. z = 0
  BY SparseBitsAssumption
<1> HIDE DEF t, z
<1>6. Qwords = RegQwords * t
  BY <1>2, <1>4, <1>5
<1>7. q + RegQwords < Qwords => q + RegQwords + RegQwords <= Qwords
  <2>1. SUFFICES ASSUME q + RegQwords < Qwords
                 PROVE  q + RegQwords + RegQwords <= Qwords
    OBVIOUS
  <2>2. k + 1 < t
    <3>1. CASE t <= k + 1
      <4>1. RegQwords * t <= RegQwords * (k + 1)
        BY <1>2, <1>4, <3>1
      <4>2. QED
        BY <1>2, <1>3, <1>4, <1>6, <2>1, <4>1
    <3>2. QED
      BY <1>4, <3>1
  <2>3. (k + 2) * RegQwords <= t * RegQwords
    BY <1>2, <1>4, <2>2
  <2>4. (k + 2) * RegQwords = q + RegQwords + RegQwords
    BY <1>1, <1>2
  <2>5. QED
    BY <1>2, <1>4, <1>6, <2>3, <2>4
<1>8. QED
  BY <1>2, <1>3, <1>7

(* One turn of the loop over registers, with the change of half or phase. *)
LEMMA FillRegistersInv ==
  ASSUME BitsInv, FillRegisters
  PROVE  BitsInv'
<1> DEFINE first == qw * QwBits
           last  == (qw + RegQwords) * QwBits
           regs  == first .. last - 1
<1>1. /\ kind' = kind /\ wlist' = wlist /\ pc = "fill"
      /\ r' = [r EXCEPT ![half] = (@ \ regs) \cup RegisterBits(qw)]
      /\ half \in Halves /\ qw \in Nat /\ qw + RegQwords <= Qwords
      /\ r \in [Halves -> SUBSET PaddedBits]
      /\ \A h : Start(h)' = Start(h)
  BY DEF BitsInv, BitsTypeInv, BitsLoopInv, FillRegisters, Start
<1>2. /\ IF qw + RegQwords < Qwords
         THEN qw' = qw + RegQwords /\ half' = half /\ pc' = pc
         ELSE /\ qw' = 0
              /\ IF half = 0
                 THEN half' = 1 /\ pc' = pc
                 ELSE pc' = (IF kind = "error" THEN "clean" ELSE "done")
                      /\ half' = half
  BY DEF FillRegisters
<1>3. /\ regs \subseteq PaddedBits
      /\ RegisterBits(qw) = {b \in regs : b + Start(half) \in wlist[half]}
  BY <1>1, RegisterBitsAre DEF BitsInv, BitsTypeInv
<1>4. first \in Nat /\ last \in Nat /\ first <= last
  <2>1. last = first + RegQwords * QwBits
    BY <1>1, BitSizes
  <2>2. RegQwords * QwBits \in Nat /\ first \in Nat
    BY <1>1, BitSizes
  <2>3. QED
    BY <2>1, <2>2
<1>5. Correct(half, first)
  BY <1>1 DEF BitsInv, BitsDoneInv
<1> HIDE DEF first, last
<1>6. /\ r' \in [Halves -> SUBSET PaddedBits]
      /\ \A h \in Halves : h # half => r'[h] = r[h]
      /\ r'[half] = (r[half] \ regs) \cup RegisterBits(qw)
  BY <1>1, <1>3
<1>7. \A b \in 0 .. last - 1 :
        b \in r'[half] <=> b + Start(half) \in wlist[half]
  <2>1. TAKE b \in 0 .. last - 1
  <2>2. CASE b \in regs
    BY <1>3, <1>6, <2>2
  <2>3. CASE b \notin regs
    <3>1. b \in 0 .. first - 1
      BY <1>4, <2>3
    <3>2. b \notin RegisterBits(qw)
      BY <1>3, <2>3
    <3>3. QED
      BY <1>5, <1>6, <2>3, <3>1, <3>2 DEF Correct
  <2>4. QED
    BY <2>2, <2>3
<1>8. \A h \in Halves : h < half => Correct(h, AllBits)'
  <2>1. TAKE h \in Halves
  <2>2. SUFFICES ASSUME h < half
                 PROVE  Correct(h, AllBits)'
    OBVIOUS
  <2>3. h # half
    BY <1>1, <2>2 DEF Halves
  <2>4. Correct(h, AllBits)
    BY <1>1, <2>2 DEF BitsInv, BitsDoneInv
  <2>5. QED
    BY <1>1, <1>6, <2>3, <2>4 DEF Correct, AllBits
<1>9. BitsTypeInv'
  BY <1>1, <1>2, <1>6, BitSizes DEF BitsInv, BitsTypeInv, Halves
<1>10. BitsLoopInv'
  <2>1. /\ \E k \in Nat : qw + RegQwords = k * RegQwords
        /\ qw + RegQwords < Qwords => qw + RegQwords + RegQwords <= Qwords
    BY <1>1, NextRegister DEF BitsInv, BitsLoopInv
  <2>2. 0 + RegQwords <= Qwords /\ \E k \in Nat : 0 = k * RegQwords
    BY <1>1, BitSizes
  <2>3. QED
    BY <1>1, <1>2, <2>1, <2>2 DEF BitsLoopInv, Halves
<1>11. BitsDoneInv'
  <2>1. CASE qw + RegQwords < Qwords
    <3>1. qw' * QwBits = last
      BY <1>2, <2>1 DEF last
    <3>2. Correct(half, qw * QwBits)'
      BY <1>1, <1>2, <1>7, <2>1, <3>1 DEF Correct
    <3>3. QED
      BY <1>1, <1>2, <1>8, <2>1, <3>2 DEF BitsDoneInv
  <2>2. CASE ~(qw + RegQwords < Qwords)
    <3>1. last = AllBits
      BY <1>1, <2>2, NextRegister DEF last, AllBits, BitsInv, BitsLoopInv
    <3>2. ASSUME NEW h \in Halves, h <= half
          PROVE  Correct(h, AllBits)'
      <4>1. CASE h < half
        BY <1>8, <4>1
      <4>2. CASE h = half
        BY <1>1, <1>7, <3>1, <4>2 DEF Correct, AllBits
      <4>3. QED
        BY <1>1, <3>2, <4>1, <4>2 DEF Halves
    <3>3. CASE half = 0
      <4>1. half' = 1 /\ pc' = "fill" /\ qw' = 0 /\ Correct(0, AllBits)'
        BY <1>1, <1>2, <2>2, <3>2, <3>3
      <4>2. qw' * QwBits = 0
        BY <4>1, BitSizes
      <4>3. Correct(half, qw * QwBits)'
        BY <4>2 DEF Correct
      <4>4. QED
        BY <4>1, <4>3 DEF BitsDoneInv, Halves
    <3>4. CASE half = 1
      <4>1. \A h \in Halves : Correct(h, AllBits)'
        BY <3>2, <3>4 DEF Halves
      <4>2. CASE kind = "error"
        BY <1>1, <1>2, <2>2, <3>4, <4>1, <4>2 DEF BitsDoneInv
      <4>3. CASE kind = "key"
        <5>1. ASSUME NEW h \in Halves
              PROVE  r'[h] = {b \in 0..R-1 : b + Start(h) \in wlist[h]}
          <6>1. /\ wlist[h] \subseteq 0..R-1 /\ Start(h) = 0
                /\ r'[h] \subseteq 0 .. AllBits - 1
            BY <1>6, <4>3 DEF BitsInv, BitsTypeInv, PaddedBits, AllBits, Start
          <6>2. \A b \in 0 .. AllBits - 1 :
                  b \in r'[h] <=> b + Start(h) \in wlist[h]
            BY <1>1, <4>1 DEF Correct, AllBits
          <6>3. R <= AllBits /\ R \in Nat /\ AllBits \in Nat
            BY BitSizes DEF AllBits
          <6>4. QED
            BY <6>1, <6>2, <6>3
        <5>2. pc' = "done"
          BY <1>2, <2>2, <3>4, <4>3
        <5>3. QED
          BY <1>1, <5>1, <5>2 DEF BitsDoneInv
      <4>4. QED
        BY <4>2, <4>3 DEF BitsInv, BitsTypeInv
    <3>5. QED
      BY <1>1, <3>3, <3>4 DEF Halves
  <2>3. QED
    BY <2>1, <2>2
<1>12. QED
  BY <1>9, <1>10, <1>11 DEF BitsInv

(* The mask of the last quad-word and the clearing of the padding. *)
LEMMA CleanPaddingInv ==
  ASSUME BitsInv, CleanPadding
  PROVE  BitsInv'
<1>1. /\ kind' = kind /\ wlist' = wlist /\ half' = half /\ qw' = qw
      /\ pc = "clean" /\ pc' = "done"
      /\ r' = [h \in Halves |-> {b \in r[h] : b < R}]
      /\ \A h : Start(h)' = Start(h)
  BY DEF CleanPadding, Start
<1>2. \A h \in Halves : r[h] \in SUBSET PaddedBits
  BY DEF BitsInv, BitsTypeInv
<1>3. BitsTypeInv' /\ BitsLoopInv'
  BY <1>1, <1>2 DEF BitsInv, BitsTypeInv, BitsLoopInv
<1>4. ASSUME NEW h \in Halves
      PROVE  r'[h] = {b \in 0..R-1 : b + Start(h) \in wlist[h]}
  <2>1. r'[h] = {b \in r[h] : b < R} /\ r[h] \subseteq 0 .. AllBits - 1
    BY <1>1, <1>2 DEF PaddedBits, AllBits
  <2>2. \A b \in 0 .. AllBits - 1 : b \in r[h] <=> b + Start(h) \in wlist[h]
    BY <1>1 DEF BitsInv, BitsDoneInv, Correct
  <2>3. R <= AllBits /\ R \in Nat /\ AllBits \in Nat
    BY BitSizes DEF AllBits
  <2>4. QED
    BY <2>1, <2>2, <2>3
<1>5. BitsDoneInv'
  BY <1>1, <1>4 DEF BitsDoneInv
<1>6. QED
  BY <1>3, <1>5 DEF BitsInv

(* The invariant only speaks of the variables of SparseBits. *)
LEMMA BitsStutter ==
  ASSUME BitsInv, UNCHANGED vars
  PROVE  BitsInv'
BY DEF BitsInv, BitsTypeInv, BitsLoopInv, BitsDoneInv, Correct, Start, vars

(* All-ones polynomials are right about none of their bits yet. *)
LEMMA BitsInit ==
  ASSUME kind \in {"key", "error"}, half = 0, qw = 0, pc = "fill",
         r = [h \in Halves |-> PaddedBits],
         wlist \in [Halves -> SUBSET (0 .. IdxRange - 1)],
         kind = "key" => wlist \in [Halves -> SUBSET (0 .. R - 1)]
  PROVE  BitsInv
<1>1. BitsTypeInv
  BY DEF BitsTypeInv, Halves
<1>2. BitsLoopInv
  <2>1. 0 + RegQwords <= Qwords
    <3>1. RegQwords \in Nat \ {0} /\ Qwords \in Nat \ {0}
      BY BitSizes
    <3>2. Qwords % RegQwords = 0
      BY SparseBitsAssumption
    <3>3. QED
      BY <3>1, <3>2
  <2>2. 0 = 0 * RegQwords
    BY BitSizes
  <2>3. QED
    BY <2>1, <2>2 DEF BitsLoopInv
<1>3. qw * QwBits = 0
  BY BitSizes
<1>4. BitsDoneInv
  BY <1>3 DEF BitsDoneInv, Correct, Halves
<1>5. QED
  BY <1>1, <1>2, <1>4 DEF BitsInv

(* The polynomials agree with their lists as far as they are filled. *)
THEOREM BitsInductive == Spec => []BitsInv
<1>1. Init => BitsInv
  <2>1. SUFFICES ASSUME Init
                 PROVE  BitsInv
    OBVIOUS
  <2>2. /\ wlist \in [Halves -> SUBSET (0 .. IdxRange - 1)]
        /\ kind = "key" => wlist \in [Halves -> SUBSET (0 .. R - 1)]
    <3>1. CASE kind = "key"
      <4>1. wlist \in [Halves -> KeyLists]
        BY <2>1, <3>1 DEF Init
      <4>2. \A h \in Halves : wlist[h] \in SUBSET (0 .. R - 1)
        BY <4>1, SparseBitsAssumption
      <4>3. 0 .. R - 1 \subseteq 0 .. IdxRange - 1
        BY BitSizes
      <4>4. QED
        BY <4>1, <4>2, <4>3
    <3>2. CASE kind = "error"
      <4>1. PICK l \in ErrorLists : wlist = [h \in Halves |-> l]
        BY <2>1, <3>2 DEF Init
      <4>2. l \in SUBSET (0 .. IdxRange - 1)
        BY SparseBitsAssumption
      <4>3. QED
        BY <3>2, <4>1, <4>2
    <3>3. QED
      BY <2>1, <3>1, <3>2 DEF Init
  <2>3. QED
    BY <2>1, <2>2, BitsInit DEF Init
<1>2. BitsInv /\ [Next]_vars => BitsInv'
  BY FillRegistersInv, CleanPaddingInv, BitsStutter DEF Next
<1>3. QED
  BY <1>1, <1>2, PTL DEF Spec

(* secure_set_bits, for any polynomial, width of the registers and list:   *)
(* the bits of the valid indices and no other, none of the other half and  *)
(* none in the padding.                                                    *)
THEOREM ListBits == Spec => []BitsOfTheList
<1>1. BitsInv => BitsOfTheList
  <2>1. SUFFICES ASSUME BitsInv, pc = "done"
                 PROVE  IF kind = "key"
                        THEN \A h \in Halves : r[h] = wlist[h]
                        ELSE \A h \in Halves :
                               r[h] = {b \in 0..R-1 : b + h * R \in wlist[h]}
    BY DEF BitsOfTheList
  <2>2. \A h \in Halves : r[h] = {b \in 0..R-1 : b + Start(h) \in wlist[h]}
    BY <2>1 DEF BitsInv, BitsDoneInv
  <2>3. CASE kind = "key"
    <3>1. \A h \in Halves : wlist[h] \subseteq 0..R-1 /\ Start(h) = 0
      BY <2>1, <2>3 DEF BitsInv, BitsTypeInv, Start
    <3>2. ASSUME NEW h \in Halves
          PROVE  {b \in 0..R-1 : b + Start(h) \in wlist[h]} = wlist[h]
      <4>1. \A b \in 0..R-1 : b + Start(h) = b
        BY <3>1, BitSizes
      <4>2. QED
        BY <3>1, <4>1
    <3>3. \A h \in Halves : r[h] = wlist[h]
      BY <2>2, <3>2, Zenon
    <3>4. QED
      BY <2>3, <3>3
  <2>4. CASE kind # "key"
    BY <2>1, <2>2, <2>4 DEF BitsInv, BitsTypeInv, Start
  <2>5. QED
    BY <2>3, <2>4
<1>2. QED
  BY <1>1, BitsInductive, PTL

(***************************************************************************)
(* The whole generation of a key or an error.                              *)
(***************************************************************************)

Drawing == step \in {"ask", "generate", "draw"}
Listed  == step \in {"bits", "returned"}

(* The bytes of the stream the j-th draw is made from, from 0 on. *)
WordBytes(j) == [k \in 0..RandBytes-1 |-> j * RandBytes + k]

StepNames == {"ask", "generate", "draw", "bits", "failed", "returned"}

PrfTypeInv ==
  /\ step \in StepNames
  /\ ctr \in Nat /\ idx \in Nat /\ delivered \in Nat
  /\ pos \in 0..BlockBytes
  /\ buffered \in Int
  /\ out \in [0..RandBytes-1 -> Int]
  /\ stream \in Streams

(* The generator: what was delivered are the draws, and the next byte of   *)
(* the stream is under the cursor or in the block to come.                 *)
PrfIdleInv ==
  step \in {"ask", "draw", "bits", "returned"} =>
    /\ prfPc = "idle"
    /\ delivered + (BlockBytes - pos) = ctr * BlockBytes
    /\ pos < BlockBytes => buffered = ctr - 1

PrfBlockInv ==
  step = "generate" =>
    /\ prfPc = "blocks" /\ len = RandBytes
    /\ idx < RandBytes /\ pos = 0
    /\ delivered + idx = ctr * BlockBytes
    /\ \A k \in 0..idx-1 : out[k] = delivered + k

PrfInv ==
  /\ PrfTypeInv /\ PrfIdleInv /\ PrfBlockInv
  /\ step # "failed" =>
       delivered = (Len(used) + (IF step = "draw" THEN 1 ELSE 0)) * RandBytes
  /\ step = "draw" => out = WordBytes(Len(used))

UsedInv ==
  /\ used \in Seq([0..RandBytes-1 -> Int])
  /\ \A j \in 1..Len(used) : used[j] = WordBytes(j - 1)

(* The list being drawn. *)
Bnd   == IF kind = "key" THEN R ELSE 2 * R
Drawn == {sample[j] : j \in todo..Weight-1}

DrawnInv ==
  /\ todo \in 0..Weight
  /\ sample \in [0..Weight-1 -> Int]
  /\ \A j \in todo..Weight-1 : sample[j] \in j..Bnd-1
  /\ IsFiniteSet(Drawn) /\ Cardinality(Drawn) = Weight - todo

(* Where the call is: how much it has drawn, and what is still untouched.  *)
PhaseInv ==
  /\ Drawing => /\ fyPc = "sampling" /\ todo > 0 /\ pc = "fill" /\ qw = 0
                /\ kind = "error" => half = 0
  /\ step = "bits" => todo = 0 /\ pc # "done"
  /\ step = "returned" => pc = "done"
  /\ step \in {"ask", "generate", "draw", "bits"} =>
       Len(used) = (IF kind = "key" THEN half * D ELSE 0) + (Weight - todo)

(* The lists that are complete. *)
ListInv ==
  /\ kind = "key" =>
       \A h \in Halves : h < half \/ (h = half /\ Listed) =>
         IsFiniteSet(wlist[h]) /\ Cardinality(wlist[h]) = D
  /\ kind = "error" =>
       /\ wlist[0] = wlist[1]
       /\ Listed => /\ wlist[0] \subseteq 0 .. 2 * R - 1
                    /\ IsFiniteSet(wlist[0]) /\ Cardinality(wlist[0]) = T

SamplingInv == BitsInv /\ PrfInv /\ UsedInv /\ DrawnInv /\ PhaseInv /\ ListInv

(* What the assumption on the constants says of the sampling. *)
LEMMA SampleSizes ==
  ASSUME SamplingAssumption
  PROVE  /\ D \in Nat \ {0} /\ T \in Nat \ {0}
         /\ BlockBytes \in Nat \ {0} /\ RandBytes \in Nat \ {0}
         /\ ByteValues \in Nat \ {0}
         /\ D <= R /\ T <= 2 * R /\ RandBytes < BlockBytes
         /\ MaxDraws \in Nat /\ 2 * D <= MaxDraws /\ T <= MaxDraws
BY DEF SamplingAssumption, MaxDraws

(* The bytes of a draw are in the stream. *)
LEMMA BytesInStream ==
  ASSUME SamplingAssumption, stream \in Streams, NEW n \in Nat, n < MaxDraws,
         NEW j \in 0..RandBytes-1
  PROVE  /\ WordBytes(n)[j] = n * RandBytes + j
         /\ WordBytes(n)[j] \in 0 .. MaxDraws * RandBytes - 1
         /\ stream[WordBytes(n)[j]] \in 0..ByteValues-1
<1>1. RandBytes \in Nat \ {0} /\ MaxDraws \in Nat
  BY SampleSizes
<1>2. WordBytes(n)[j] = n * RandBytes + j
  BY DEF WordBytes
<1>3. (n + 1) * RandBytes <= MaxDraws * RandBytes
  BY <1>1
<1>4. (n + 1) * RandBytes = n * RandBytes + RandBytes /\ n * RandBytes \in Nat
  BY <1>1
<1>5. MaxDraws * RandBytes \in Nat
  BY <1>1
<1>6. WordBytes(n)[j] \in 0 .. MaxDraws * RandBytes - 1
  BY <1>1, <1>2, <1>3, <1>4, <1>5
<1>7. QED
  BY <1>2, <1>6 DEF SamplingAssumption

(* A number with one more digit is below the next power. *)
LEMMA DigitBelow ==
  ASSUME NEW v \in Nat \ {0}, NEW d \in 0..v-1, NEW p \in Nat \ {0}
  PROVE  d * p <= (v - 1) * p /\ d * p \in Nat
OBVIOUS

(* A word put together of bytes is below RandRange. *)
LEMMA WordInRange ==
  ASSUME SamplingAssumption, stream \in Streams, NEW n \in Nat, n < MaxDraws,
         out = WordBytes(n)
  PROVE  RandRange \in Nat \ {0} /\ Word \in 0..RandRange-1
<1> DEFINE byte(j) == IF out[j] < 0 THEN 0 ELSE stream[out[j]]
           next == [j \in 0..RandBytes |->
                      [v \in Int |-> v + (IF j < RandBytes THEN byte(j) ELSE 0)
                                           * Place[j]]]
           Def(f) == f = [j \in 0..RandBytes |->
                            IF j = 0 THEN 0
                            ELSE f[j - 1] + byte(j - 1) * Place[j - 1]]
           sum == CHOOSE f : Def(f)
<1>1. /\ RandBytes \in Nat \ {0} /\ ByteValues \in Nat \ {0}
      /\ Place \in [0..RandBytes -> Nat \ {0}] /\ Place[0] = 1
      /\ \A j \in 0..RandBytes-1 : Place[j + 1] = ByteValues * Place[j]
  BY SampleSizes, PlaceValues
<1>2. \A j \in 0..RandBytes-1 : byte(j) \in 0..ByteValues-1
  BY BytesInStream
<1> HIDE DEF byte
<1>3. Word = sum[RandBytes]
  BY DEF Word, byte
<1>4. next \in [0..RandBytes -> [Int -> Int]]
  <2>1. ASSUME NEW j \in 0..RandBytes
        PROVE  (IF j < RandBytes THEN byte(j) ELSE 0) * Place[j] \in Int
    <3>1. (IF j < RandBytes THEN byte(j) ELSE 0) \in Int /\ Place[j] \in Int
      BY <1>1, <1>2
    <3>2. QED
      BY <3>1
  <2>2. QED
    BY <2>1
<1>5. PICK f \in [0..RandBytes -> Int] : Iterates(f, RandBytes, 0, next)
  <2> HIDE DEF next
  <2>1. 0 \in Int /\ RandBytes \in Nat
    BY <1>1
  <2>2. QED
    BY <1>4, <2>1, IterationExists
<1>6. Def(f)
  <2>1. ASSUME NEW j \in 0..RandBytes
        PROVE  f[j] = IF j = 0 THEN 0
                      ELSE f[j - 1] + byte(j - 1) * Place[j - 1]
    <3>1. CASE j = 0
      BY <1>5, <3>1 DEF Iterates
    <3>2. CASE j # 0
      <4>1. j \in 1..RandBytes /\ j - 1 \in 0..RandBytes /\ j - 1 < RandBytes
        BY <1>1, <3>2
      <4>2. f[j - 1] \in Int
        BY <4>1
      <4>3. next[j - 1][f[j - 1]] = f[j - 1] + byte(j - 1) * Place[j - 1]
        BY <4>1, <4>2
      <4>4. QED
        BY <1>5, <4>1, <4>3, <3>2 DEF Iterates
    <3>3. QED
      BY <3>1, <3>2
  <2>2. QED
    BY <2>1
<1> HIDE DEF Def
<1>7. Def(sum)
  BY <1>6, Zenon
<1> HIDE DEF sum, next
<1> USE DEF Def
<1>8. {k \in 0..RandBytes : sum[k] \in 0..Place[k]-1} = 0..RandBytes
  <2> DEFINE G == {k \in 0..RandBytes : sum[k] \in 0..Place[k]-1}
  <2>1. 0 \in G /\ G \in SUBSET (0..RandBytes)
    BY <1>1, <1>7
  <2>2. ASSUME NEW k \in G, k < RandBytes
        PROVE  k + 1 \in G
    <3>1. k \in 0..RandBytes-1 /\ k + 1 \in 0..RandBytes /\ k + 1 # 0
      BY <1>1, <2>2
    <3>2. sum[k + 1] = sum[k] + byte(k) * Place[k]
      BY <1>7, <3>1
    <3>3. byte(k) \in 0..ByteValues-1 /\ Place[k] \in Nat \ {0}
      BY <1>1, <1>2, <3>1
    <3>4. /\ byte(k) * Place[k] <= (ByteValues - 1) * Place[k]
          /\ byte(k) * Place[k] \in Nat
      BY <1>1, <3>3, DigitBelow
    <3>5. (ByteValues - 1) * Place[k] = ByteValues * Place[k] - Place[k]
      BY <1>1, <3>3
    <3>6. sum[k] \in 0..Place[k]-1
      OBVIOUS
    <3>7. Place[k + 1] = ByteValues * Place[k] /\ ByteValues * Place[k] \in Nat
      BY <1>1, <3>1, <3>3
    <3>8. sum[k + 1] \in 0..Place[k + 1]-1
      BY <3>2, <3>3, <3>4, <3>5, <3>6, <3>7
    <3>9. QED
      BY <3>1, <3>8
  <2> HIDE DEF G
  <2>3. G = 0..RandBytes
    BY <1>1, <2>1, <2>2, CountingUp
  <2>4. QED
    BY <2>3 DEF G
<1>9. sum[RandBytes] \in 0..Place[RandBytes]-1
  <2>1. RandBytes \in 0..RandBytes
    BY <1>1
  <2>2. QED
    BY <1>8, <2>1
<1>10. QED
  BY <1>1, <1>3, <1>9 DEF RandRange

(* A call of get_prf_output that the buffer serves. *)
LEMMA BufferedStep ==
  ASSUME SamplingAssumption, PrfInv, UsedInv, AskForWord,
         Prf(1)!GetBuffered(RandBytes), step' = "draw"
  PROVE  PrfInv'
<1>1. /\ RandBytes \in Nat \ {0} /\ BlockBytes \in Nat \ {0}
  BY SampleSizes
<1>2. /\ ctr \in Nat /\ idx \in Nat /\ delivered \in Nat
      /\ pos \in 0..BlockBytes /\ buffered \in Int /\ Len(used) \in Nat
      /\ delivered + (BlockBytes - pos) = ctr * BlockBytes
      /\ pos < BlockBytes => buffered = ctr - 1
      /\ delivered = (Len(used) + 0) * RandBytes
      /\ stream \in Streams
  BY DEF PrfInv, PrfTypeInv, PrfIdleInv, UsedInv, AskForWord
<1>3. /\ RandBytes + pos <= BlockBytes
      /\ pos' = pos + RandBytes /\ delivered' = delivered + RandBytes
      /\ ctr' = ctr /\ buffered' = buffered /\ prfPc' = prfPc /\ idx' = idx
      /\ used' = used /\ stream' = stream /\ prfPc = "idle"
  BY DEF AskForWord, Prf!GetBuffered
<1>4. out' = [j \in 0..RandBytes-1 |->
                IF 0 <= j /\ j < 0 + RandBytes
                THEN buffered * BlockBytes + pos + (j - 0) ELSE -1]
  BY DEF Prf!GetBuffered, Prf!Write, Prf!Fresh, Prf!Unwritten
<1>5. buffered * BlockBytes + pos = delivered
  <2>1. buffered = ctr - 1
    BY <1>1, <1>2, <1>3
  <2>2. (ctr - 1) * BlockBytes = ctr * BlockBytes - BlockBytes
    BY <1>1, <1>2
  <2>3. ctr * BlockBytes \in Nat
    BY <1>1, <1>2
  <2>4. QED
    BY <1>1, <1>2, <2>1, <2>2, <2>3
<1>6. delivered = Len(used) * RandBytes
  BY <1>2
<1>7. buffered * BlockBytes \in Int
  BY <1>1, <1>2
<1>8. \A j \in 0..RandBytes-1 :
        (IF 0 <= j /\ j < 0 + RandBytes
         THEN buffered * BlockBytes + pos + (j - 0) ELSE -1)
          = Len(used) * RandBytes + j
  <2>1. TAKE j \in 0..RandBytes-1
  <2> DEFINE p == buffered * BlockBytes
             q == Len(used) * RandBytes
  <2>2. p \in Int /\ p + pos = q
    BY <1>5, <1>6, <1>7
  <2> HIDE DEF p, q
  <2>3. (IF 0 <= j /\ j < 0 + RandBytes THEN p + pos + (j - 0) ELSE -1) = q + j
    BY <1>1, <1>2, <2>2
  <2>4. QED
    BY <2>3 DEF p, q
<1>9. out' = WordBytes(Len(used))
  BY <1>4, <1>8 DEF WordBytes
<1>10. out' \in [0..RandBytes-1 -> Int]
  <2>1. \A j \in 0..RandBytes-1 : Len(used) * RandBytes + j \in Int
    BY <1>1, <1>2
  <2>2. QED
    BY <1>9, <2>1 DEF WordBytes
<1>11. PrfTypeInv'
  BY <1>1, <1>2, <1>3, <1>10 DEF PrfTypeInv, StepNames
<1>12. PrfIdleInv' /\ PrfBlockInv'
  <2>1. delivered' + (BlockBytes - pos') = delivered + (BlockBytes - pos)
    BY <1>1, <1>2, <1>3
  <2>2. pos' < BlockBytes => buffered = ctr - 1
    BY <1>1, <1>2, <1>3
  <2>3. QED
    BY <1>2, <1>3, <2>1, <2>2 DEF PrfIdleInv, PrfBlockInv
<1>13. delivered' = (Len(used) + 1) * RandBytes
  <2>1. (Len(used) + 1) * RandBytes = Len(used) * RandBytes + RandBytes
    BY <1>1, <1>2
  <2>2. QED
    BY <1>3, <1>6, <2>1
<1>14. WordBytes(Len(used))' = WordBytes(Len(used))
  BY <1>3 DEF WordBytes
<1>15. QED
  BY <1>3, <1>9, <1>11, <1>12, <1>13, <1>14 DEF PrfInv

(* One that begins with what is left in it. *)
LEMMA RefillStep ==
  ASSUME SamplingAssumption, PrfInv, UsedInv, AskForWord,
         Prf(1)!GetRefill(RandBytes), step' = "generate"
  PROVE  PrfInv'
<1>1. /\ RandBytes \in Nat \ {0} /\ BlockBytes \in Nat \ {0}
  BY SampleSizes
<1>2. /\ ctr \in Nat /\ idx \in Nat /\ delivered \in Nat
      /\ pos \in 0..BlockBytes /\ buffered \in Int
      /\ delivered + (BlockBytes - pos) = ctr * BlockBytes
      /\ pos < BlockBytes => buffered = ctr - 1
      /\ delivered = (Len(used) + 0) * RandBytes
      /\ stream \in Streams
  BY DEF PrfInv, PrfTypeInv, PrfIdleInv, AskForWord
<1>3. /\ RandBytes + pos > BlockBytes
      /\ pos' = 0 /\ delivered' = delivered /\ len' = RandBytes
      /\ ctr' = ctr /\ buffered' = buffered /\ prfPc' = "blocks"
      /\ idx' = BlockBytes - pos
      /\ used' = used /\ stream' = stream
  BY DEF AskForWord, Prf!GetRefill
<1>4. out' = [j \in 0..RandBytes-1 |->
                IF 0 <= j /\ j < 0 + (BlockBytes - pos)
                THEN buffered * BlockBytes + pos + (j - 0) ELSE -1]
  BY DEF Prf!GetRefill, Prf!Write, Prf!Fresh, Prf!Unwritten
<1>5. pos < BlockBytes => buffered * BlockBytes + pos = delivered
  <2>1. SUFFICES ASSUME pos < BlockBytes
                 PROVE  buffered * BlockBytes + pos = delivered
    OBVIOUS
  <2>2. buffered = ctr - 1
    BY <1>2, <2>1
  <2>3. (ctr - 1) * BlockBytes = ctr * BlockBytes - BlockBytes
    BY <1>1, <1>2
  <2>4. ctr * BlockBytes \in Nat
    BY <1>1, <1>2
  <2>5. QED
    BY <1>1, <1>2, <2>2, <2>3, <2>4
<1> DEFINE p == buffered * BlockBytes
<1>6. p \in Int
  BY <1>1, <1>2
<1>7. /\ out' = [j \in 0..RandBytes-1 |->
                   IF 0 <= j /\ j < BlockBytes - pos
                   THEN p + pos + (j - 0) ELSE -1]
      /\ pos < BlockBytes => p + pos = delivered
  <2>1. 0 + (BlockBytes - pos) = BlockBytes - pos
    BY <1>1, <1>2
  <2>2. QED
    BY <1>4, <1>5, <2>1
<1> HIDE DEF p
<1>8. out' \in [0..RandBytes-1 -> Int]
  <2>1. \A j \in 0..RandBytes-1 :
          (IF 0 <= j /\ j < BlockBytes - pos THEN p + pos + (j - 0) ELSE -1)
            \in Int
    BY <1>1, <1>2, <1>6
  <2>2. QED
    BY <1>7, <2>1
<1>9. \A k \in 0..idx'-1 : out'[k] = delivered' + k
  <2>1. TAKE k \in 0..idx'-1
  <2>2. /\ k \in 0..RandBytes-1 /\ k < BlockBytes - pos /\ 0 <= k
        /\ pos < BlockBytes
    BY <1>1, <1>2, <1>3
  <2>3. out'[k] = p + pos + (k - 0)
    BY <1>7, <2>2
  <2>4. QED
    BY <1>2, <1>3, <1>6, <1>7, <2>2, <2>3
<1>10. PrfTypeInv'
  BY <1>1, <1>2, <1>3, <1>8 DEF PrfTypeInv, StepNames
<1>11. PrfIdleInv' /\ PrfBlockInv'
  <2>1. idx' < RandBytes /\ delivered' + idx' = ctr' * BlockBytes
    BY <1>1, <1>2, <1>3
  <2>2. QED
    BY <1>3, <1>9, <2>1 DEF PrfIdleInv, PrfBlockInv
<1>12. QED
  BY <1>2, <1>3, <1>10, <1>11 DEF PrfInv

(* The block the rest of a call comes from. *)
LEMMA GenerateStep ==
  ASSUME SamplingAssumption, PrfInv, UsedInv, GenerateBlock
  PROVE  PrfInv'
<1>1. /\ RandBytes \in Nat \ {0} /\ BlockBytes \in Nat \ {0}
      /\ RandBytes < BlockBytes
  BY SampleSizes
<1>2. /\ ctr \in Nat /\ idx \in Nat /\ delivered \in Nat /\ Len(used) \in Nat
      /\ out \in [0..RandBytes-1 -> Int]
      /\ len = RandBytes /\ idx < RandBytes
      /\ delivered + idx = ctr * BlockBytes
      /\ \A k \in 0..idx-1 : out[k] = delivered + k
      /\ delivered = (Len(used) + 0) * RandBytes
      /\ stream \in Streams
  BY DEF PrfInv, PrfTypeInv, PrfBlockInv, UsedInv, GenerateBlock
<1>3. /\ pos' = len - idx /\ delivered' = delivered + len
      /\ ctr' = ctr + 1 /\ buffered' = ctr /\ prfPc' = "idle"
      /\ idx' = idx /\ used' = used /\ stream' = stream /\ step' = "draw"
  BY DEF GenerateBlock, Prf!TailBlock, Prf!PerformAes
<1>4. out' = [j \in DOMAIN out |->
                IF idx <= j /\ j < idx + (len - idx)
                THEN ctr * BlockBytes + 0 + (j - idx) ELSE out[j]]
  BY DEF GenerateBlock, Prf!TailBlock, Prf!Write
<1> DEFINE p == ctr * BlockBytes
           q == Len(used) * RandBytes
<1>5. /\ p \in Int /\ delivered + idx = p
      /\ q \in Int /\ delivered = q
      /\ out' = [j \in DOMAIN out |->
                   IF idx <= j /\ j < idx + (len - idx)
                   THEN p + 0 + (j - idx) ELSE out[j]]
  BY <1>1, <1>2, <1>4
<1> HIDE DEF p, q
<1>6. \A j \in 0..RandBytes-1 :
        (IF idx <= j /\ j < idx + (len - idx) THEN p + 0 + (j - idx)
                                              ELSE out[j]) = q + j
  <2>1. TAKE j \in 0..RandBytes-1
  <2>2. CASE j < idx
    <3>1. out[j] = q + j /\ ~(idx <= j)
      BY <1>2, <1>5, <2>2
    <3>2. QED
      BY <3>1
  <2>3. CASE j >= idx
    <3>1. /\ idx <= j /\ j < idx + (len - idx)
          /\ p + 0 + (j - idx) = q + j
      BY <1>1, <1>2, <1>5, <2>3
    <3>2. QED
      BY <3>1
  <2>4. QED
    BY <1>2, <2>2, <2>3
<1>7. out' = [j \in 0..RandBytes-1 |-> q + j]
  <2>1. DOMAIN out = 0..RandBytes-1
    BY <1>2
  <2>2. QED
    BY <1>5, <1>6, <2>1
<1>8. out' = WordBytes(Len(used)) /\ out' \in [0..RandBytes-1 -> Int]
  <2>1. out' = WordBytes(Len(used))
    BY <1>7 DEF WordBytes, q
  <2>2. \A j \in 0..RandBytes-1 : q + j \in Int
    BY <1>1, <1>5
  <2>3. QED
    BY <1>7, <2>1, <2>2
<1>9. PrfTypeInv'
  BY <1>1, <1>2, <1>3, <1>8 DEF PrfTypeInv, StepNames
<1>10. PrfIdleInv' /\ PrfBlockInv'
  <2>1. (ctr + 1) * BlockBytes = p + BlockBytes
    BY <1>1, <1>2 DEF p
  <2>2. delivered' + (BlockBytes - pos') = (ctr + 1) * BlockBytes
    <3>1. /\ delivered \in Int /\ idx \in Int /\ len \in Int
          /\ BlockBytes \in Int /\ p \in Int /\ delivered + idx = p
      BY <1>1, <1>2, <1>5
    <3>2. delivered + len + (BlockBytes - (len - idx)) = p + BlockBytes
      BY <3>1
    <3>3. QED
      BY <1>3, <2>1, <3>2
  <2>3. buffered' = ctr' - 1
    BY <1>2, <1>3
  <2>4. QED
    BY <1>3, <2>2, <2>3 DEF PrfIdleInv, PrfBlockInv
<1>11. delivered' = (Len(used) + 1) * RandBytes
  <2>1. (Len(used) + 1) * RandBytes = q + RandBytes
    BY <1>1, <1>2 DEF q
  <2>2. QED
    BY <1>2, <1>3, <1>5, <2>1
<1>12. WordBytes(Len(used))' = WordBytes(Len(used))
  BY <1>3 DEF WordBytes
<1>13. QED
  BY <1>3, <1>8, <1>9, <1>10, <1>11, <1>12 DEF PrfInv

(* Neither the calls of the generator nor a failure touch the rest. *)
LEMMA RestUnchanged ==
  ASSUME BitsInv, UsedInv, DrawnInv, PhaseInv, ListInv, Drawing,
         UNCHANGED <<vars, used, todo, sample>>,
         \/ step' \in {"ask", "generate", "draw"} /\ fyPc' = fyPc
         \/ step' = "failed"
  PROVE  BitsInv' /\ UsedInv' /\ DrawnInv' /\ PhaseInv' /\ ListInv'
<1>1. /\ kind' = kind /\ wlist' = wlist /\ r' = r /\ half' = half /\ qw' = qw
      /\ pc' = pc /\ used' = used /\ todo' = todo /\ sample' = sample
      /\ Weight' = Weight /\ Bnd' = Bnd
  BY DEF vars, Weight, Bnd
<1>2. BitsInv'
  BY BitsStutter
<1>3. UsedInv'
  <2>1. \A j : WordBytes(j)' = WordBytes(j)
    BY DEF WordBytes
  <2>2. QED
    BY <1>1, <2>1 DEF UsedInv
<1>4. DrawnInv'
  BY <1>1 DEF DrawnInv, Drawn
<1>5. PhaseInv'
  BY <1>1 DEF PhaseInv, Drawing
<1>6. ListInv'
  BY <1>1 DEF ListInv, Listed, Drawing
<1>7. QED
  BY <1>2, <1>3, <1>4, <1>5, <1>6

(* A word comes from the buffer, or a new block is asked for. *)
LEMMA AskForWordInv ==
  ASSUME SamplingAssumption, SamplingInv, AskForWord
  PROVE  SamplingInv'
<1>1. PrfInv'
  BY BufferedStep, RefillStep DEF SamplingInv, AskForWord
<1>2. BitsInv' /\ UsedInv' /\ DrawnInv' /\ PhaseInv' /\ ListInv'
  BY RestUnchanged DEF SamplingInv, AskForWord, Drawing, fyVars
<1>3. QED
  BY <1>1, <1>2 DEF SamplingInv

(* One block of the generator, copied whole or in part. *)
LEMMA GenerateBlockInv ==
  ASSUME SamplingAssumption, SamplingInv, GenerateBlock
  PROVE  SamplingInv'
<1>1. PrfInv'
  BY GenerateStep DEF SamplingInv
<1>2. BitsInv' /\ UsedInv' /\ DrawnInv' /\ PhaseInv' /\ ListInv'
  BY RestUnchanged DEF SamplingInv, GenerateBlock, Drawing, fyVars
<1>3. QED
  BY <1>1, <1>2 DEF SamplingInv

(* A failing AES call ends the generation. *)
LEMMA PrfFailsInv ==
  ASSUME SamplingAssumption, SamplingInv, PrfFails
  PROVE  SamplingInv'
<1>1. PrfInv'
  BY DEF SamplingInv, PrfInv, PrfTypeInv, PrfIdleInv, PrfBlockInv, StepNames,
         PrfFails, Prf!OverUsed, Prf!AesError
<1>2. BitsInv' /\ UsedInv' /\ DrawnInv' /\ PhaseInv' /\ ListInv'
  BY RestUnchanged DEF SamplingInv, PrfFails, Drawing, Fy!PrfFails
<1>3. QED
  BY <1>1, <1>2 DEF SamplingInv

(* The index a draw adds is in its range and not there yet, whatever the   *)
(* word.                                                                   *)
LEMMA NewIndex ==
  ASSUME NEW top \in Nat, NEW words \in Nat \ {0}, NEW p \in Nat, p < top,
         NEW rand \in 0..words-1, NEW taken, p \notin taken,
         NEW l, l = p + (rand * (top - p)) \div words,
         NEW new, new = IF l \in taken THEN p ELSE l
  PROVE  new \in p..top-1 /\ new \notin taken
<1> DEFINE width == top - p
           quotient == (rand * width) \div words
<1>1. width \in Nat \ {0}
  OBVIOUS
<1>2. l = p + quotient
  OBVIOUS
<1> HIDE DEF width
<1>3. rand * width \in Nat /\ rand * width <= (words - 1) * width
  BY <1>1
<1>4. (words - 1) * width < words * width
  BY <1>1
<1>5. /\ quotient \in Int
      /\ words * quotient <= rand * width
      /\ rand * width < words * quotient + words
  BY <1>1
<1> HIDE DEF quotient
<1>6. quotient >= 0
  BY <1>3, <1>5
<1>7. quotient < width
  BY <1>1, <1>3, <1>4, <1>5
<1>8. l \in p..top-1
  BY <1>2, <1>5, <1>6, <1>7 DEF width
<1>9. QED
  BY <1>8

(* The number of indices and their bound, of the kind at hand. *)
LEMMA WeightIs ==
  ASSUME SamplingAssumption, BitsInv
  PROVE  /\ Weight \in Nat \ {0} /\ Bnd \in Nat /\ Weight <= Bnd
         /\ Bnd <= IdxRange
         /\ kind = "key" => Weight = D /\ Bnd = R
         /\ kind = "error" => Weight = T /\ Bnd = 2 * R
         /\ kind = "key" \/ kind = "error"
<1>1. /\ D \in Nat \ {0} /\ T \in Nat \ {0} /\ D <= R /\ T <= 2 * R
      /\ R \in Nat /\ 2 * R <= IdxRange /\ R <= IdxRange /\ IdxRange \in Nat
  BY SampleSizes, BitSizes
<1>2. QED
  BY <1>1 DEF Weight, Bnd, BitsInv, BitsTypeInv

(* One round of Fisher-Yates. *)
LEMMA DrawnStep ==
  ASSUME SamplingAssumption, SamplingInv, DrawIndex
  PROVE  /\ todo \in 1..Weight /\ todo' = todo - 1
         /\ sample' \in [0..Weight-1 -> Int]
         /\ DrawnInv'
         /\ fyPc' = IF todo = 1 THEN "done" ELSE "sampling"
<1>1. /\ step = "draw" /\ kind' = kind /\ fyPc = "sampling" /\ todo > 0
      /\ todo \in 0..Weight /\ sample \in [0..Weight-1 -> Int]
      /\ \A j \in todo..Weight-1 : sample[j] \in j..Bnd-1
      /\ IsFiniteSet(Drawn) /\ Cardinality(Drawn) = Weight - todo
      /\ Weight' = Weight /\ Bnd' = Bnd
  BY DEF SamplingInv, DrawnInv, PhaseInv, Drawing, DrawIndex, Weight, Bnd
<1>2. /\ Weight \in Nat \ {0} /\ Bnd \in Nat /\ Weight <= Bnd
      /\ kind = "key" => Weight = D /\ Bnd = R
      /\ kind = "error" => Weight = T /\ Bnd = 2 * R
      /\ kind = "key" \/ kind = "error"
  BY WeightIs DEF SamplingInv
<1> DEFINE p == todo - 1
           l == p + (Word * (Bnd - p)) \div RandRange
           new == IF l \in Drawn THEN p ELSE l
<1>3. /\ todo' = todo - 1
      /\ sample' = [sample EXCEPT ![p] = new]
      /\ fyPc' = IF todo = 1 THEN "done" ELSE "sampling"
  <2>1. CASE kind = "key"
    BY <1>2, <2>1
    DEF DrawIndex, Fy!Draw, Fy!Selected, Fy!Scaled, Fy!Chosen, Fy!Filled, Drawn
  <2>2. CASE kind = "error"
    BY <1>2, <2>2
    DEF DrawIndex, Fy!Draw, Fy!Selected, Fy!Scaled, Fy!Chosen, Fy!Filled, Drawn
  <2>3. QED
    BY <1>2, <2>1, <2>2
<1>4. p \in Nat /\ p < Bnd /\ p \in 0..Weight-1 /\ p = todo - 1
  BY <1>1, <1>2
<1>5. p \notin Drawn
  BY <1>1, <1>2 DEF Drawn
<1>6. RandRange \in Nat \ {0} /\ Word \in 0..RandRange-1
  <2>1. /\ out = WordBytes(Len(used)) /\ stream \in Streams
        /\ Len(used) \in Nat /\ half \in {0, 1}
        /\ Len(used) = (IF kind = "key" THEN half * D ELSE 0) + (Weight - todo)
    BY <1>1 DEF SamplingInv, PrfInv, PrfTypeInv, UsedInv, PhaseInv, BitsInv,
                BitsTypeInv, Halves
  <2>2. /\ D \in Nat /\ MaxDraws \in Nat
        /\ 2 * D <= MaxDraws /\ T <= MaxDraws
    BY SampleSizes
  <2>3. half * D = IF half = 0 THEN 0 ELSE D
    BY <2>1, <2>2
  <2>4. Len(used) < MaxDraws
    BY <1>1, <1>2, <2>1, <2>2, <2>3
  <2>5. QED
    BY <2>1, <2>4, WordInRange
<1>7. new \in p..Bnd-1 /\ new \notin Drawn
  <2> DEFINE taken == Drawn
             rand == Word
  <2>1. /\ Bnd \in Nat /\ RandRange \in Nat \ {0} /\ p \in Nat /\ p < Bnd
        /\ Word \in 0..RandRange-1 /\ p \notin Drawn
        /\ l = p + (Word * (Bnd - p)) \div RandRange
        /\ new = IF l \in Drawn THEN p ELSE l
    BY <1>2, <1>4, <1>5, <1>6
  <2> HIDE DEF p, l, new
  <2>2. QED
    BY <2>1, NewIndex
<1> HIDE DEF new, p
<1>8. new \in Int /\ sample' \in [0..Weight-1 -> Int]
  BY <1>1, <1>2, <1>3, <1>4, <1>7
<1>9. /\ sample'[p] = new
      /\ \A j \in todo..Weight-1 : sample'[j] = sample[j]
      /\ todo'..Weight-1 = (todo..Weight-1) \cup {p}
  BY <1>1, <1>2, <1>3, <1>4
<1>10. \A j \in todo'..Weight-1 : sample'[j] \in j..Bnd-1
  BY <1>1, <1>7, <1>9
<1>11. Drawn' = Drawn \cup {new}
  <2>1. Drawn' = {sample'[j] : j \in todo'..Weight-1}
    BY <1>1 DEF Drawn
  <2>2. QED
    BY <1>9, <2>1 DEF Drawn
<1>12. IsFiniteSet(Drawn') /\ Cardinality(Drawn') = Weight - todo'
  <2>1. /\ IsFiniteSet(Drawn')
        /\ Cardinality(Drawn') = Cardinality(Drawn) + 1
    BY <1>1, <1>7, <1>11, FS_AddElement
  <2>2. QED
    BY <1>1, <1>2, <1>3, <2>1
<1>13. todo' \in 0..Weight /\ todo \in 1..Weight
  BY <1>1, <1>2, <1>3
<1>14. DrawnInv'
  BY <1>1, <1>8, <1>10, <1>12, <1>13 DEF DrawnInv
<1>15. QED
  BY <1>3, <1>8, <1>13, <1>14

(* What is copied out after the last round. *)
LEMMA CopiedList ==
  ASSUME SamplingAssumption, SamplingInv, DrawIndex, fyPc' = "done"
  PROVE  /\ Range(sample') \subseteq 0..Bnd-1
         /\ IsFiniteSet(Range(sample')) /\ Cardinality(Range(sample')) = Weight
         /\ todo' = 0 /\ Copied /\ step' = "bits"
<1>1. /\ todo' = 0 /\ sample' \in [0..Weight-1 -> Int] /\ DrawnInv'
      /\ Weight' = Weight /\ Bnd' = Bnd
  <2>1. Weight' = Weight /\ Bnd' = Bnd
    BY DEF DrawIndex, Weight, Bnd
  <2>2. QED
    BY <2>1, DrawnStep
<1>2. Range(sample') = Drawn'
  <2>1. Range(sample') = {sample'[j] : j \in 0..Weight-1}
    BY <1>1 DEF Range
  <2>2. Drawn' = {sample'[j] : j \in 0..Weight-1}
    BY <1>1 DEF Drawn
  <2>3. QED
    BY <2>1, <2>2
<1>3. \A j \in 0..Weight-1 : sample'[j] \in j..Bnd-1
  BY <1>1 DEF DrawnInv
<1>4. Drawn' \subseteq 0..Bnd-1
  <2>1. /\ Weight \in Nat \ {0} /\ Bnd \in Nat
    BY WeightIs DEF SamplingInv
  <2>2. QED
    BY <1>1, <1>3, <2>1 DEF Drawn
<1>5. IsFiniteSet(Drawn') /\ Cardinality(Drawn') = Weight
  <2>1. Weight \in Nat
    BY WeightIs DEF SamplingInv
  <2>2. QED
    BY <1>1, <2>1 DEF DrawnInv
<1>6. QED
  BY <1>1, <1>2, <1>4, <1>5 DEF DrawIndex

(* An index is placed; with the last of a list, the next half or the bits. *)
LEMMA DrawIndexInv ==
  ASSUME SamplingAssumption, SamplingInv, DrawIndex
  PROVE  SamplingInv'
<1>1. /\ step = "draw" /\ kind' = kind /\ r' = r /\ half' = half /\ qw' = qw
      /\ pc' = pc /\ stream' = stream /\ ctr' = ctr /\ idx' = idx
      /\ buffered' = buffered /\ pos' = pos /\ prfPc' = prfPc /\ len' = len
      /\ out' = out /\ delivered' = delivered
      /\ used' = Append(used, out)
      /\ Weight' = Weight /\ Bnd' = Bnd
  BY DEF DrawIndex, prfVars, Weight, Bnd
<1>2. /\ todo \in 1..Weight /\ todo' = todo - 1 /\ DrawnInv'
      /\ fyPc' = IF todo = 1 THEN "done" ELSE "sampling"
  BY DrawnStep
<1>3. /\ fyPc = "sampling" /\ pc = "fill" /\ qw = 0
      /\ kind = "error" => half = 0
      /\ Len(used) = (IF kind = "key" THEN half * D ELSE 0) + (Weight - todo)
  BY <1>1 DEF SamplingInv, PhaseInv, Drawing
<1>4. /\ used \in Seq([0..RandBytes-1 -> Int]) /\ Len(used) \in Nat
      /\ \A j \in 1..Len(used) : used[j] = WordBytes(j - 1)
      /\ out = WordBytes(Len(used)) /\ out \in [0..RandBytes-1 -> Int]
      /\ delivered = (Len(used) + 1) * RandBytes
  BY <1>1 DEF SamplingInv, UsedInv, PrfInv, PrfTypeInv
<1>5. /\ used' \in Seq([0..RandBytes-1 -> Int]) /\ Len(used') = Len(used) + 1
      /\ \A j \in 1..Len(used) : used'[j] = used[j]
      /\ used'[Len(used) + 1] = out
  BY <1>1, <1>4
<1>6. UsedInv'
  <2>1. \A j : WordBytes(j)' = WordBytes(j)
    BY DEF WordBytes
  <2>2. ASSUME NEW j \in 1..Len(used')
        PROVE  used'[j] = WordBytes(j - 1)
    <3>1. CASE j = Len(used) + 1
      BY <1>4, <1>5, <3>1
    <3>2. CASE j \in 1..Len(used)
      BY <1>4, <1>5, <3>2
    <3>3. QED
      BY <1>4, <1>5, <3>1, <3>2
  <2>3. QED
    BY <1>5, <2>1, <2>2 DEF UsedInv
<1>7. step' \in {"ask", "bits"}
  BY DEF DrawIndex
<1>8. PrfInv'
  <2>1. delivered' = (Len(used') + 0) * RandBytes
    <3>1. Len(used') + 0 = Len(used) + 1
      BY <1>4, <1>5
    <3>2. QED
      BY <1>1, <1>4, <3>1
  <2>2. PrfTypeInv' /\ PrfIdleInv' /\ PrfBlockInv'
    BY <1>1, <1>7
    DEF SamplingInv, PrfInv, PrfTypeInv, PrfIdleInv, PrfBlockInv, StepNames
  <2>3. QED
    BY <1>7, <2>1, <2>2 DEF PrfInv
<1>9. CASE fyPc' # "done"
  <2>1. /\ step' = "ask" /\ wlist' = wlist /\ todo > 1 /\ fyPc' = "sampling"
    BY <1>2, <1>9 DEF DrawIndex
  <2>2. BitsInv'
    BY <1>1, <2>1, BitsStutter DEF SamplingInv, vars
  <2>3. PhaseInv'
    <3>1. Weight \in Nat
      BY WeightIs DEF SamplingInv
    <3>2. Len(used') = (IF kind = "key" THEN half * D ELSE 0)
                         + (Weight - todo')
      <4>1. (IF kind = "key" THEN half * D ELSE 0) \in Int
        BY SampleSizes DEF SamplingInv, BitsInv, BitsTypeInv, Halves
      <4>2. QED
        BY <1>2, <1>3, <1>5, <3>1, <4>1
    <3>3. QED
      BY <1>1, <1>2, <1>3, <2>1, <3>2 DEF PhaseInv, Drawing
  <2>4. ListInv'
    BY <1>1, <2>1 DEF SamplingInv, ListInv, Listed
  <2>5. QED
    BY <1>2, <1>6, <1>8, <2>2, <2>3, <2>4 DEF SamplingInv
<1>10. CASE fyPc' = "done"
  <2> DEFINE new == Range(sample')
  <2>1. /\ new \subseteq 0..Bnd-1
        /\ IsFiniteSet(new) /\ Cardinality(new) = Weight
        /\ todo' = 0 /\ step' = "bits"
        /\ wlist' = [h \in Halves |->
                       IF kind = "error" \/ h = half THEN new ELSE wlist[h]]
    BY <1>10, CopiedList DEF Copied
  <2> HIDE DEF new
  <2>2. /\ Weight \in Nat /\ Bnd \in Nat /\ Bnd <= IdxRange
        /\ IdxRange \in Nat
        /\ kind = "key" => Weight = D /\ Bnd = R
        /\ kind = "error" => Weight = T /\ Bnd = 2 * R
        /\ kind = "key" \/ kind = "error"
    BY WeightIs, BitSizes DEF SamplingInv
  <2>3. /\ half \in Halves /\ BitsTypeInv /\ BitsLoopInv /\ BitsDoneInv
    BY DEF SamplingInv, BitsInv, BitsTypeInv
  <2>4. BitsInv'
    <3>1. new \in SUBSET (0 .. IdxRange - 1)
      BY <2>1, <2>2
    <3>2. wlist' \in [Halves -> SUBSET (0 .. IdxRange - 1)]
      BY <2>1, <2>3, <3>1 DEF BitsTypeInv
    <3>3. kind = "key" => wlist' \in [Halves -> SUBSET (0 .. R - 1)]
      BY <2>1, <2>2, <2>3 DEF BitsTypeInv
    <3>4. BitsTypeInv'
      BY <1>1, <2>3, <3>2, <3>3 DEF BitsTypeInv
    <3>5. BitsLoopInv'
      BY <1>1, <2>3 DEF BitsLoopInv
    <3>6. \A h \in Halves : h < half => Correct(h, AllBits)'
      <4>1. TAKE h \in Halves
      <4>2. SUFFICES ASSUME h < half
                     PROVE  Correct(h, AllBits)'
        OBVIOUS
      <4>3. kind = "key" /\ h # half
        BY <1>3, <2>2, <2>3, <4>2 DEF Halves
      <4>4. wlist'[h] = wlist[h] /\ r'[h] = r[h] /\ Start(h)' = Start(h)
        BY <1>1, <2>1, <4>3 DEF Start
      <4>5. Correct(h, AllBits)
        BY <1>3, <2>3, <4>2 DEF BitsDoneInv
      <4>6. QED
        BY <4>4, <4>5 DEF Correct, AllBits
    <3>7. Correct(half, qw * QwBits)'
      <4>1. qw' * QwBits = 0
        BY <1>1, <1>3, BitSizes
      <4>2. QED
        BY <4>1 DEF Correct
    <3>8. BitsDoneInv'
      BY <1>1, <1>3, <3>6, <3>7 DEF BitsDoneInv
    <3>9. QED
      BY <3>4, <3>5, <3>8 DEF BitsInv
  <2>5. PhaseInv'
    <3>1. Len(used') = (IF kind = "key" THEN half * D ELSE 0)
                         + (Weight - todo')
      <4>1. (IF kind = "key" THEN half * D ELSE 0) \in Int
        BY SampleSizes DEF SamplingInv, BitsInv, BitsTypeInv, Halves
      <4>2. QED
        BY <1>2, <1>3, <1>5, <2>1, <2>2, <4>1
    <3>2. QED
      BY <1>1, <1>3, <2>1, <3>1 DEF PhaseInv, Drawing
  <2>6. ListInv'
    <3>1. CASE kind = "key"
      <4>1. ASSUME NEW h \in Halves, h < half \/ h = half
            PROVE  IsFiniteSet(wlist'[h]) /\ Cardinality(wlist'[h]) = D
        <5>1. CASE h = half
          BY <2>1, <2>2, <3>1, <5>1
        <5>2. CASE h < half
          <6>1. h # half
            BY <2>3, <5>2 DEF Halves
          <6>2. wlist'[h] = wlist[h]
            BY <2>1, <3>1, <6>1
          <6>3. QED
            BY <3>1, <5>2, <6>2 DEF SamplingInv, ListInv
        <5>3. QED
          BY <4>1, <5>1, <5>2
      <4>2. QED
        BY <1>1, <3>1, <4>1 DEF ListInv
    <3>2. CASE kind = "error"
      <4>1. /\ wlist'[0] = new /\ wlist'[1] = new
            /\ new \subseteq 0 .. 2 * R - 1
            /\ IsFiniteSet(new) /\ Cardinality(new) = T
        BY <2>1, <2>2, <3>2 DEF Halves
      <4>2. QED
        BY <1>1, <3>2, <4>1 DEF ListInv
    <3>3. QED
      BY <2>2, <3>1, <3>2
  <2>7. QED
    BY <1>2, <1>6, <1>8, <2>4, <2>5, <2>6 DEF SamplingInv
<1>11. QED
  BY <1>9, <1>10

(* No index is drawn yet. *)
LEMMA DrawnStart ==
  ASSUME NEW w \in Nat, NEW b \in Int, NEW s \in [0..w-1 -> Int]
  PROVE  /\ w \in 0..w
         /\ \A j \in w..w-1 : s[j] \in j..b-1
         /\ {s[j] : j \in w..w-1} = {}
         /\ IsFiniteSet({s[j] : j \in w..w-1})
         /\ Cardinality({s[j] : j \in w..w-1}) = w - w
<1>1. w..w-1 = {}
  OBVIOUS
<1>2. {s[j] : j \in w..w-1} = {}
  BY <1>1
<1>3. IsFiniteSet({}) /\ Cardinality({}) = w - w
  BY FS_EmptySet
<1>4. w \in 0..w
  OBVIOUS
<1>5. \A j \in w..w-1 : s[j] \in j..b-1
  BY <1>1, Zenon
<1>6. QED
  BY <1>2, <1>3, <1>4, <1>5, Zenon

(* A list that nothing has been drawn to yet. *)
LEMMA FreshList ==
  ASSUME SamplingAssumption, kind \in {"key", "error"}, kind' = kind,
         todo' = Weight, sample' = Uninitialized
  PROVE  DrawnInv'
<1>1. /\ Weight \in Nat /\ Bnd \in Int /\ Weight' = Weight /\ Bnd' = Bnd
  BY SampleSizes, BitSizes DEF Weight, Bnd
<1>2. Uninitialized \in [0..Weight-1 -> Int]
  BY DEF Uninitialized
<1>3. Drawn' = {sample'[j] : j \in Weight..Weight-1}
  BY <1>1 DEF Drawn
<1>4. /\ Weight \in 0..Weight
      /\ \A j \in Weight..Weight-1 : sample'[j] \in j..Bnd-1
      /\ IsFiniteSet(Drawn') /\ Cardinality(Drawn') = Weight - Weight
  <2>1. sample' \in [0..Weight-1 -> Int]
    BY <1>2
  <2>2. QED
    BY <1>1, <1>3, <2>1, DrawnStart
<1>5. QED
  BY <1>1, <1>2, <1>4 DEF DrawnInv

(* The steps of secure_set_bits leave the lists and the draws alone. *)
LEMMA SetBitsInv ==
  ASSUME SamplingAssumption, SamplingInv, SetBits
  PROVE  SamplingInv'
<1>1. /\ step = "bits" /\ FillRegisters /\ pc = "fill"
      /\ kind' = kind /\ wlist' = wlist /\ used' = used /\ stream' = stream
      /\ ctr' = ctr /\ idx' = idx /\ buffered' = buffered /\ pos' = pos
      /\ prfPc' = prfPc /\ len' = len /\ out' = out
      /\ delivered' = delivered
      /\ Weight' = Weight /\ Bnd' = Bnd
  BY DEF SetBits, FillRegisters, prfVars, Weight, Bnd
<1>2. BitsInv'
  BY <1>1, FillRegistersInv DEF SamplingInv
<1>3. UsedInv'
  <2>1. \A j : WordBytes(j)' = WordBytes(j)
    BY DEF WordBytes
  <2>2. QED
    BY <1>1, <2>1 DEF SamplingInv, UsedInv
<1>4. step' \in {"ask", "bits", "returned"}
  BY DEF SetBits
<1>5. PrfInv'
  BY <1>1, <1>4
  DEF SamplingInv, PrfInv, PrfTypeInv, PrfIdleInv, PrfBlockInv, StepNames
<1>6. /\ Weight \in Nat \ {0} /\ D \in Nat
      /\ kind = "key" => Weight = D
      /\ kind = "key" \/ kind = "error"
      /\ half \in {0, 1} /\ todo = 0
      /\ Len(used) = (IF kind = "key" THEN half * D ELSE 0) + (Weight - 0)
  BY <1>1, WeightIs, SampleSizes
  DEF SamplingInv, PhaseInv, BitsInv, BitsTypeInv, Halves
<1>7. \/ /\ half' = half /\ (pc' = pc \/ pc' \in {"clean", "done"})
         /\ pc' = "done" => kind # "error"
      \/ half = 0 /\ half' = 1 /\ pc' = pc /\ qw' = 0
  BY <1>6 DEF SetBits, FillRegisters
<1>8. CASE kind = "key" /\ half' # half
  <2>1. /\ step' = "ask" /\ todo' = Weight /\ sample' = Uninitialized
        /\ fyPc' = "sampling" /\ half = 0 /\ half' = 1
        /\ pc' = "fill" /\ qw' = 0
    BY <1>1, <1>7, <1>8 DEF SetBits
  <2>2. DrawnInv'
    BY <1>1, <1>8, <2>1, FreshList
  <2>3. PhaseInv'
    <3>1. Len(used) = 1 * D + (Weight - Weight)
      BY <1>6, <1>8, <2>1
    <3>2. QED
      BY <1>1, <1>6, <1>8, <2>1, <3>1 DEF PhaseInv, Drawing
  <2>4. ListInv'
    <3>1. ASSUME NEW h \in Halves, h < 1
          PROVE  IsFiniteSet(wlist[h]) /\ Cardinality(wlist[h]) = D
      <4>1. h = half
        BY <2>1, <3>1 DEF Halves
      <4>2. QED
        BY <1>1, <1>8, <4>1 DEF SamplingInv, ListInv, Listed
    <3>2. QED
      BY <1>1, <1>8, <2>1, <3>1 DEF ListInv, Listed
  <2>5. QED
    BY <1>2, <1>3, <1>5, <2>2, <2>3, <2>4 DEF SamplingInv
<1>9. CASE ~(kind = "key" /\ half' # half)
  <2>1. /\ step' = (IF pc' = "done" THEN "returned" ELSE "bits")
        /\ todo' = todo /\ sample' = sample /\ fyPc' = fyPc
    BY <1>9 DEF SetBits, fyVars
  <2>2. DrawnInv'
    BY <1>1, <2>1 DEF SamplingInv, DrawnInv, Drawn
  <2>3. PhaseInv'
    BY <1>1, <1>6, <1>9, <2>1 DEF PhaseInv, Drawing
  <2>4. ListInv'
    BY <1>1, <1>6, <1>9, <2>1 DEF SamplingInv, ListInv, Listed
  <2>5. QED
    BY <1>2, <1>3, <1>5, <2>2, <2>3, <2>4 DEF SamplingInv
<1>10. QED
  BY <1>8, <1>9

(* So does the clearing of the padding. *)
LEMMA ClearPaddingInv ==
  ASSUME SamplingAssumption, SamplingInv, ClearPadding
  PROVE  SamplingInv'
<1>1. /\ step = "bits" /\ step' = "returned" /\ CleanPadding
      /\ kind' = kind /\ wlist' = wlist /\ half' = half /\ pc' = "done"
      /\ used' = used /\ stream' = stream
      /\ ctr' = ctr /\ idx' = idx /\ buffered' = buffered /\ pos' = pos
      /\ prfPc' = prfPc /\ len' = len /\ out' = out
      /\ delivered' = delivered /\ todo' = todo /\ sample' = sample
      /\ Weight' = Weight /\ Bnd' = Bnd
  BY DEF ClearPadding, CleanPadding, prfVars, fyVars, Weight, Bnd
<1>2. BitsInv'
  BY <1>1, CleanPaddingInv DEF SamplingInv
<1>3. UsedInv'
  <2>1. \A j : WordBytes(j)' = WordBytes(j)
    BY DEF WordBytes
  <2>2. QED
    BY <1>1, <2>1 DEF SamplingInv, UsedInv
<1>4. PrfInv'
  BY <1>1
  DEF SamplingInv, PrfInv, PrfTypeInv, PrfIdleInv, PrfBlockInv, StepNames
<1>5. DrawnInv'
  BY <1>1 DEF SamplingInv, DrawnInv, Drawn
<1>6. PhaseInv'
  BY <1>1 DEF PhaseInv, Drawing
<1>7. ListInv'
  BY <1>1 DEF SamplingInv, ListInv, Listed
<1>8. QED
  BY <1>2, <1>3, <1>4, <1>5, <1>6, <1>7 DEF SamplingInv

(* Every part of the invariant is about the variables listed. *)
LEMMA SamplingStutter ==
  ASSUME SamplingInv, UNCHANGED samplingVars
  PROVE  SamplingInv'
<1>1. /\ UNCHANGED vars /\ kind' = kind /\ wlist' = wlist /\ half' = half
      /\ pc' = pc /\ qw' = qw /\ step' = step /\ fyPc' = fyPc
      /\ used' = used /\ stream' = stream
      /\ ctr' = ctr /\ idx' = idx /\ buffered' = buffered /\ pos' = pos
      /\ prfPc' = prfPc /\ len' = len /\ out' = out
      /\ delivered' = delivered /\ todo' = todo /\ sample' = sample
      /\ Weight' = Weight /\ Bnd' = Bnd
  BY DEF samplingVars, vars, prfVars, fyVars, Weight, Bnd
<1>2. BitsInv'
  BY <1>1, BitsStutter DEF SamplingInv
<1>3. \A j : WordBytes(j)' = WordBytes(j)
  BY DEF WordBytes
<1>4. UsedInv' /\ PrfInv'
  BY <1>1, <1>3
  DEF SamplingInv, UsedInv, PrfInv, PrfTypeInv, PrfIdleInv, PrfBlockInv,
      StepNames
<1>5. DrawnInv' /\ PhaseInv' /\ ListInv'
  BY <1>1
  DEF SamplingInv, DrawnInv, Drawn, PhaseInv, Drawing, ListInv, Listed
<1>6. QED
  BY <1>2, <1>4, <1>5 DEF SamplingInv

(* The generator is fresh, nothing is drawn, and the lists are empty. *)
LEMMA SamplingInitInv ==
  ASSUME SamplingAssumption, SamplingInit
  PROVE  SamplingInv
<1>1. /\ kind \in {"key", "error"} /\ wlist = [h \in Halves |-> {}]
      /\ half = 0 /\ qw = 0 /\ pc = "fill" /\ stream \in Streams
      /\ r = [h \in Halves |-> PaddedBits]
      /\ todo = Weight /\ sample = Uninitialized /\ fyPc = "sampling"
      /\ used = <<>> /\ step = "ask"
  BY DEF SamplingInit
<1>2. /\ ctr = 0 /\ pos = BlockBytes /\ prfPc = "idle" /\ len = 0 /\ idx = 0
      /\ buffered = -1 /\ out = [j \in 0..RandBytes-1 |-> -1] /\ delivered = 0
  BY DEF SamplingInit, Prf!Init, Prf!NoBlock, Prf!Fresh, Prf!Unwritten
<1>3. BitsInv
  <2>1. /\ wlist \in [Halves -> SUBSET (0 .. IdxRange - 1)]
        /\ wlist \in [Halves -> SUBSET (0 .. R - 1)]
    BY <1>1
  <2>2. QED
    BY <1>1, <2>1, BitsInit
<1>4. Len(used) = 0 /\ used \in Seq([0..RandBytes-1 -> Int])
  BY <1>1
<1>5. UsedInv
  BY <1>4 DEF UsedInv
<1>6. PrfInv
  <2>1. /\ RandBytes \in Nat \ {0} /\ BlockBytes \in Nat \ {0}
    BY SampleSizes
  <2>2. PrfTypeInv
    BY <1>1, <1>2, <2>1 DEF PrfTypeInv, StepNames
  <2>3. PrfIdleInv /\ PrfBlockInv
    BY <1>1, <1>2, <2>1 DEF PrfIdleInv, PrfBlockInv
  <2>4. delivered = (Len(used) + 0) * RandBytes
    BY <1>2, <1>4, <2>1
  <2>5. QED
    BY <1>1, <2>2, <2>3, <2>4 DEF PrfInv
<1>7. Weight \in Nat \ {0} /\ Bnd \in Int
  BY <1>3, WeightIs
<1>8. DrawnInv
  <2>1. Uninitialized \in [0..Weight-1 -> Int]
    BY DEF Uninitialized
  <2>2. /\ Weight \in 0..Weight
        /\ \A j \in Weight..Weight-1 : sample[j] \in j..Bnd-1
        /\ IsFiniteSet(Drawn) /\ Cardinality(Drawn) = Weight - Weight
    <3>1. sample \in [0..Weight-1 -> Int]
      BY <1>1, <2>1
    <3>2. Drawn = {sample[j] : j \in Weight..Weight-1}
      BY <1>1 DEF Drawn
    <3>3. QED
      BY <1>7, <3>1, <3>2, DrawnStart
  <2>3. QED
    BY <1>1, <2>1, <2>2 DEF DrawnInv
<1>9. PhaseInv
  <2>1. (IF kind = "key" THEN half * D ELSE 0) + (Weight - todo) = 0
    BY <1>1, <1>7, SampleSizes
  <2>2. QED
    BY <1>1, <1>4, <1>7, <2>1 DEF PhaseInv, Drawing
<1>10. ListInv
  BY <1>1 DEF ListInv, Listed, Halves
<1>11. QED
  BY <1>3, <1>5, <1>6, <1>8, <1>9, <1>10 DEF SamplingInv

(* The generator, the list being drawn and the polynomials being filled    *)
(* stay in step through a whole call.                                      *)
THEOREM SamplingInductive ==
  ASSUME SamplingAssumption
  PROVE  SamplingSpec => []SamplingInv
<1>1. SamplingInit => SamplingInv
  BY SamplingInitInv
<1>2. SamplingInv /\ [SamplingNext]_samplingVars => SamplingInv'
  BY AskForWordInv, GenerateBlockInv, PrfFailsInv, DrawIndexInv, SetBitsInv,
     ClearPaddingInv, SamplingStutter DEF SamplingNext
<1>3. QED
  BY <1>1, <1>2, PTL DEF SamplingSpec

(* Each draw has its own bytes of the key stream, the next ones, whatever  *)
(* blocks they come in.                                                    *)
THEOREM DrawsFresh ==
  ASSUME SamplingAssumption
  PROVE  SamplingSpec => []FreshWords
<1>1. SamplingInv => FreshWords
  BY DEF SamplingInv, UsedInv, FreshWords, WordBytes
<1>2. QED
  BY <1>1, SamplingInductive, PTL

(* A list of indices below 2R falls into two halves. *)
LEMMA HalvesWeigh ==
  ASSUME NEW L \in SUBSET (0 .. 2 * R - 1), IsFiniteSet(L),
         NEW A, A = {b \in 0..R-1 : b + 0 * R \in L},
         NEW B, B = {b \in 0..R-1 : b + 1 * R \in L}
  PROVE  Cardinality(A) + Cardinality(B) = Cardinality(L)
<1>1. R \in Nat
  BY BitSizes
<1>2. \A e \in L : e \in Int /\ 0 <= e /\ e < 2 * R
  BY <1>1
<1>3. A = {e \in L : e < R} /\ B = {b \in 0..R-1 : b + R \in L}
  <2>1. \A b \in 0..R-1 : b + 0 * R = b /\ b + 1 * R = b + R
    BY <1>1
  <2>2. B = {b \in 0..R-1 : b + R \in L}
    BY <2>1
  <2>3. A = {b \in 0..R-1 : b \in L}
    BY <2>1
  <2>4. {b \in 0..R-1 : b \in L} = {e \in L : e < R}
    <3>1. \A b \in 0..R-1 : b < R
      BY <1>1
    <3>2. \A e \in L : e < R => e \in 0..R-1
      BY <1>1, <1>2
    <3>3. QED
      BY <3>1, <3>2, Zenon
  <2>5. QED
    BY <2>2, <2>3, <2>4
<1> DEFINE C == L \ A
<1>8. C = {e \in L : ~(e < R)}
  BY <1>3
<1>4. /\ IsFiniteSet(C)
      /\ Cardinality(C) = Cardinality(L) - Cardinality(A)
  <2>1. L \cap A = A
    BY <1>3
  <2>2. QED
    BY <2>1, FS_Difference
<1>5. Cardinality(B) = Cardinality(C)
  <2> DEFINE f == [e \in C |-> e - R]
  <2>1. f \in [C -> B]
    <3>1. ASSUME NEW e \in C
          PROVE  e - R \in B
      <4>1. e \in L /\ ~(e < R) /\ e \in Int /\ e < 2 * R
        BY <1>2, <1>8
      <4>2. e - R \in 0..R-1 /\ (e - R) + R = e
        BY <1>1, <4>1
      <4>3. QED
        BY <1>3, <4>1, <4>2
    <3>2. QED
      BY <3>1
  <2>2. \A e, e2 \in C : f[e] = f[e2] => e = e2
    BY <1>1, <1>2
  <2>3. \A b \in B : b + R \in C /\ f[b + R] = b
    BY <1>1, <1>3, <1>8
  <2> HIDE DEF f, C
  <2>4. \A b \in B : \E e \in C : f[e] = b
    BY <2>3
  <2>5. f \in Bijection(C, B)
    BY <2>1, <2>2, <2>4 DEF Bijection, Injection, IsInjective,
                                Surjection
  <2>6. ExistsBijection(C, B)
    BY <2>5 DEF ExistsBijection
  <2>7. QED
    BY <1>4, <2>6, FS_Bijection
<1>6. Cardinality(L) \in Nat /\ Cardinality(A) \in Nat
  <2>1. A \in SUBSET L
    BY <1>3
  <2>2. QED
    BY <2>1, FS_CardinalityType, FS_Subset
<1>7. QED
  BY <1>4, <1>5, <1>6

(* On success the halves of a key have weight D each and those of an error *)
(* weight T together, with no bit at R_BITS or above.                      *)
THEOREM SparseWeights ==
  ASSUME SamplingAssumption
  PROVE  SamplingSpec => []SparseAsPromised
<1>1. SamplingInv => SparseAsPromised
  <2>1. SUFFICES ASSUME SamplingInv, step = "returned"
                 PROVE  SparseAsPromised
    BY DEF SparseAsPromised
  <2>2. /\ \A h \in Halves : r[h] = {b \in 0..R-1 : b + Start(h) \in wlist[h]}
        /\ kind = "key" \/ kind = "error"
        /\ half = 1
    BY <2>1 DEF SamplingInv, PhaseInv, BitsInv, BitsDoneInv, BitsLoopInv,
                BitsTypeInv
  <2>3. \A h \in Halves : r[h] \subseteq 0..R-1
    BY <2>2
  <2>4. CASE kind = "key"
    <3>1. ASSUME NEW h \in Halves
          PROVE  r[h] = wlist[h] /\ Cardinality(wlist[h]) = D
      <4>1. /\ wlist[h] \subseteq 0..R-1 /\ Start(h) = 0
            /\ Cardinality(wlist[h]) = D
        BY <2>1, <2>2, <2>4
        DEF SamplingInv, BitsInv, BitsTypeInv, ListInv, Listed, Start, Halves
      <4>2. \A b \in 0..R-1 : b + Start(h) = b
        BY <4>1, BitSizes
      <4>3. {b \in 0..R-1 : b + Start(h) \in wlist[h]} = wlist[h]
        BY <4>1, <4>2
      <4>4. r[h] = {b \in 0..R-1 : b + Start(h) \in wlist[h]}
        BY <2>2
      <4>5. r[h] = wlist[h]
        BY <4>3, <4>4, Zenon
      <4>6. QED
        BY <4>1, <4>5
    <3>2. \A h \in Halves : r[h] = wlist[h] /\ Cardinality(r[h]) = D
      BY <3>1
    <3>3. QED
      BY <2>3, <2>4, <3>2 DEF SparseAsPromised
  <2>5. CASE kind = "error"
    <3>1. /\ wlist[0] \in SUBSET (0 .. 2 * R - 1) /\ wlist[1] = wlist[0]
          /\ IsFiniteSet(wlist[0]) /\ Cardinality(wlist[0]) = T
      BY <2>1, <2>5 DEF SamplingInv, ListInv, Listed
    <3>2. /\ r[0] = {b \in 0..R-1 : b + 0 * R \in wlist[0]}
          /\ r[1] = {b \in 0..R-1 : b + 1 * R \in wlist[0]}
      BY <2>2, <2>5, <3>1 DEF Start, Halves
    <3>3. Cardinality(r[0]) + Cardinality(r[1]) = T
      BY <3>1, <3>2, HalvesWeigh
    <3>4. QED
      BY <2>3, <2>5, <3>3 DEF SparseAsPromised
  <2>6. QED
    BY <2>2, <2>4, <2>5
<1>2. QED
  BY <1>1, SamplingInductive, PTL
-----------------------------------------------------------------------------
(***************************************************************************)
(* SecureSelect: masks instead of branches.                                *)
(***************************************************************************)

(* The powers of two, and what the widths of the types say of them. *)
LEMMA TwoPowers ==
  ASSUME Selection!SelectAssumption
  PROVE  /\ LongBits \in Nat /\ Selection!TwoTo \in [0..LongBits -> Nat \ {0}]
         /\ Selection!TwoTo[0] = 1
         /\ \A k \in 0..LongBits-1 : Selection!TwoTo[k + 1] = 2 * Selection!TwoTo[k]
<1> DEFINE P == Nat \ {0}
           next == [j \in 0..LongBits |-> [p \in P |-> 2 * p]]
           Def(f) == f = [j \in 0..LongBits |-> IF j = 0 THEN 1 ELSE 2 * f[j - 1]]
<1>1. LongBits \in Nat
  BY DEF Selection!SelectAssumption
<1>2. next \in [0..LongBits -> [P -> P]]
  OBVIOUS
<1>3. PICK f \in [0..LongBits -> P] : Iterates(f, LongBits, 1, next)
  <2>1. 1 \in P
    OBVIOUS
  <2> HIDE DEF next, P
  <2>2. QED
    BY <1>1, <1>2, <2>1, IterationExists
<1>4. Def(f)
  <2>1. ASSUME NEW j \in 0..LongBits
        PROVE  f[j] = IF j = 0 THEN 1 ELSE 2 * f[j - 1]
    <3>1. CASE j = 0
      BY <1>3, <3>1 DEF Iterates
    <3>2. CASE j # 0
      <4>1. j \in 1..LongBits /\ j - 1 \in 0..LongBits
        BY <1>1, <3>2
      <4>2. f[j - 1] \in P
        BY <4>1
      <4>3. QED
        BY <1>3, <4>1, <4>2, <3>2 DEF Iterates
    <3>3. QED
      BY <3>1, <3>2
  <2>2. QED
    BY <2>1
<1>5. Selection!TwoTo = CHOOSE g : Def(g)
  BY DEF Selection!TwoTo
<1> HIDE DEF Def
<1>6. Def(Selection!TwoTo)
  BY <1>4, <1>5, Zenon
<1> USE DEF Def
<1>7. Selection!TwoTo[0] = 1
  BY <1>1, <1>6
<1>8. \A j \in 0..LongBits-1 : Selection!TwoTo[j + 1] = 2 * Selection!TwoTo[j]
  BY <1>1, <1>6
<1>9. {k \in 0..LongBits : Selection!TwoTo[k] \in P} = 0..LongBits
  <2> DEFINE G == {k \in 0..LongBits : Selection!TwoTo[k] \in P}
  <2>1. 0 \in G /\ G \in SUBSET (0..LongBits)
    BY <1>1, <1>7
  <2>2. \A k \in G : k < LongBits => k + 1 \in G
    BY <1>1, <1>8
  <2> HIDE DEF G
  <2>3. G = 0..LongBits
    BY <1>1, <2>1, <2>2, CountingUp
  <2>4. QED
    BY <2>3 DEF G
<1>10. Selection!TwoTo \in [0..LongBits -> P]
  BY <1>6, <1>9
<1>11. QED
  BY <1>1, <1>7, <1>8, <1>10

LEMMA TwoToSum ==
  ASSUME Selection!SelectAssumption, NEW j \in 0..LongBits, NEW k \in 0..LongBits-j
  PROVE  Selection!TwoTo[j + k] = Selection!TwoTo[j] * Selection!TwoTo[k]
<1> DEFINE Two == Selection!TwoTo
           G == {i \in 0..LongBits-j : Two[j + i] = Two[j] * Two[i]}
<1>1. /\ LongBits \in Nat /\ Two \in [0..LongBits -> Nat \ {0}]
      /\ Two[0] = 1 /\ \A i \in 0..LongBits-1 : Two[i + 1] = 2 * Two[i]
  BY TwoPowers
<1> HIDE DEF Two
<1>2. 0 \in G
  BY <1>1
<1>3. ASSUME NEW i \in G, i < LongBits - j
      PROVE  i + 1 \in G
  <2>1. /\ i + 1 \in 0..LongBits-j /\ i \in 0..LongBits-1
        /\ j + i \in 0..LongBits-1 /\ j + (i + 1) = (j + i) + 1
    BY <1>1, <1>3
  <2>2. Two[j + (i + 1)] = 2 * Two[j + i] /\ Two[i + 1] = 2 * Two[i]
    BY <1>1, <2>1
  <2>3. Two[j + i] = Two[j] * Two[i]
    OBVIOUS
  <2>4. Two[j] \in Nat /\ Two[i] \in Nat
    BY <1>1, <2>1
  <2>5. 2 * (Two[j] * Two[i]) = Two[j] * (2 * Two[i])
    BY <2>4
  <2>6. QED
    BY <2>1, <2>2, <2>3, <2>5
<1>4. G = 0..LongBits-j
  <2>1. G \in SUBSET (0..LongBits-j) /\ LongBits - j \in Nat
    BY <1>1
  <2> HIDE DEF G
  <2>2. QED
    BY <1>2, <1>3, <2>1, CountingUp
<1>5. QED
  BY <1>4 DEF Two

(* What the types can hold. *)
LEMMA Widths ==
  ASSUME Selection!SelectAssumption,
         NEW tb, tb = Selection!TwoTo[ByteBits],
         NEW tw, tw = Selection!TwoTo[WordBits],
         NEW tl, tl = Selection!TwoTo[LongBits],
         NEW th, th = Selection!TwoTo[WordBits - 1],
         NEW tm, tm = Selection!TwoTo[LongBits - 1]
  PROVE  /\ tb \in Nat \ {0} /\ tw \in Nat \ {0} /\ tl \in Nat \ {0}
         /\ th \in Nat \ {0} /\ tm \in Nat \ {0}
         /\ 2 <= tb /\ tb <= th /\ tw = 2 * th /\ tl = tw * tw /\ tl = 2 * tm
         /\ tw <= tm
         /\ \E k \in Nat \ {0} : tw = tb * k
<1> DEFINE Two == Selection!TwoTo
<1>1. /\ LongBits \in Nat /\ Two \in [0..LongBits -> Nat \ {0}]
      /\ Two[0] = 1 /\ \A i \in 0..LongBits-1 : Two[i + 1] = 2 * Two[i]
  BY TwoPowers
<1>2. /\ ByteBits \in Nat \ {0} /\ WordBits \in Nat \ {0} /\ LongBits \in Nat \ {0}
      /\ ByteBits < WordBits /\ LongBits = 2 * WordBits
  BY DEF Selection!SelectAssumption
<1>3. \A j \in 0..LongBits : \A k \in 0..LongBits-j : Two[j + k] = Two[j] * Two[k]
  BY TwoToSum
<1> HIDE DEF Two
<1>4. /\ tb = Two[ByteBits] /\ tw = Two[WordBits] /\ tl = Two[LongBits]
      /\ th = Two[WordBits - 1] /\ tm = Two[LongBits - 1]
  BY DEF Two
<1>5. /\ tb \in Nat \ {0} /\ tw \in Nat \ {0} /\ tl \in Nat \ {0}
      /\ th \in Nat \ {0} /\ tm \in Nat \ {0}
  <2>1. {ByteBits, WordBits, LongBits, WordBits - 1, LongBits - 1} \subseteq 0..LongBits
    BY <1>2
  <2>2. \A i \in 0..LongBits : Two[i] \in Nat \ {0}
    BY <1>1, Zenon
  <2>3. QED
    BY <1>4, <2>1, <2>2, Zenon
<1>6. tw = 2 * th /\ tl = 2 * tm
  <2>1. (WordBits - 1) + 1 = WordBits /\ (LongBits - 1) + 1 = LongBits
        /\ WordBits - 1 \in 0..LongBits-1 /\ LongBits - 1 \in 0..LongBits-1
    BY <1>2
  <2>2. QED
    BY <1>1, <1>4, <2>1
<1>7. 2 <= tb
  <2>1. ByteBits - 1 \in 0..LongBits-1 /\ (ByteBits - 1) + 1 = ByteBits
    BY <1>2
  <2>2. Two[ByteBits] = 2 * Two[ByteBits - 1] /\ Two[ByteBits - 1] \in Nat \ {0}
    BY <1>1, <2>1
  <2>3. QED
    BY <1>4, <2>2
<1>8. tl = tw * tw
  <2>1. WordBits \in 0..LongBits /\ WordBits \in 0..LongBits-WordBits
        /\ WordBits + WordBits = LongBits
    BY <1>2
  <2>2. QED
    BY <1>3, <1>4, <2>1
<1>9. tm = tw * th
  <2>1. WordBits \in 0..LongBits /\ WordBits - 1 \in 0..LongBits-WordBits
        /\ WordBits + (WordBits - 1) = LongBits - 1
    BY <1>2
  <2>2. QED
    BY <1>3, <1>4, <2>1
<1>10. tw <= tm
  BY <1>5, <1>9
<1>11. PICK k \in Nat \ {0} : th = tb * k
  <2> DEFINE k == Two[(WordBits - 1) - ByteBits]
  <2>1. /\ ByteBits \in 0..LongBits
        /\ (WordBits - 1) - ByteBits \in 0..LongBits-ByteBits
        /\ (WordBits - 1) - ByteBits \in 0..LongBits
        /\ ByteBits + ((WordBits - 1) - ByteBits) = WordBits - 1
    BY <1>2
  <2>2. k \in Nat \ {0} /\ th = tb * k
    BY <1>1, <1>3, <1>4, <2>1
  <2> HIDE DEF k
  <2>3. QED
    BY <2>2
<1>12. tb <= th
  BY <1>5, <1>11
<1>13. 2 * k \in Nat \ {0} /\ tw = tb * (2 * k)
  BY <1>5, <1>6, <1>11
<1>14. QED
  BY <1>5, <1>6, <1>7, <1>8, <1>10, <1>12, <1>13

(* A number is its lowest bit and its half. *)
LEMMA LowestBit ==
  ASSUME NEW a \in Nat
  PROVE  /\ a \div 2 \in Nat /\ a % 2 \in {0, 1}
         /\ a = 2 * (a \div 2) + (a % 2)
OBVIOUS

LEMMA BitProduct ==
  ASSUME NEW u \in {0, 1}, NEW v \in {0, 1}
  PROVE  u * v = IF u = 1 /\ v = 1 THEN 1 ELSE 0
OBVIOUS

(* And is the function its recursive definition describes. *)
LEMMA AndValues ==
  ASSUME Selection!SelectAssumption
  PROVE  /\ \A a, b \in Nat : Selection!And[0][a][b] = 0
         /\ \A n \in 0..LongBits-1 : \A a, b \in Nat :
              Selection!And[n + 1][a][b]
                = 2 * Selection!And[n][a \div 2][b \div 2] + (a % 2) * (b % 2)
         /\ \A n \in 0..LongBits : \A a, b \in Nat : Selection!And[n][a][b] \in Nat
<1> DEFINE S == [Nat -> [Nat -> Nat]]
           One(h) == [a \in Nat |-> [b \in Nat |->
                        2 * h[a \div 2][b \div 2] + (a % 2) * (b % 2)]]
           first == [a \in Nat |-> [b \in Nat |-> 0]]
           next == [j \in 0..LongBits |-> [h \in S |-> One(h)]]
           Def(f) == f = [n \in 0..LongBits |-> [a \in Nat |-> [b \in Nat |->
                            IF n = 0 THEN 0
                            ELSE 2 * f[n - 1][a \div 2][b \div 2] + (a % 2) * (b % 2)]]]
<1>1. LongBits \in Nat
  BY DEF Selection!SelectAssumption
<1>2. \A a \in Nat : a \div 2 \in Nat /\ a % 2 \in Nat
  OBVIOUS
<1>3. \A h \in S : One(h) \in S
  <2>1. ASSUME NEW h \in S, NEW a \in Nat, NEW b \in Nat
        PROVE  2 * h[a \div 2][b \div 2] + (a % 2) * (b % 2) \in Nat
    <3>1. /\ a \div 2 \in Nat /\ b \div 2 \in Nat /\ (a % 2) * (b % 2) \in {0, 1}
      BY LowestBit, BitProduct
    <3>2. h[a \div 2] \in [Nat -> Nat]
      BY <3>1, Zenon
    <3>3. h[a \div 2][b \div 2] \in Nat
      BY <3>1, <3>2, Zenon
    <3>4. PICK c \in Nat, p \in {0, 1} :
            c = h[a \div 2][b \div 2] /\ p = (a % 2) * (b % 2)
      BY <3>1, <3>3, Zenon
    <3>5. 2 * c + p \in Nat
      OBVIOUS
    <3>6. QED
      BY <3>4, <3>5, Zenon
  <2>2. QED
    BY <2>1
<1>4. first \in S
  OBVIOUS
<1>5. next \in [0..LongBits -> [S -> S]]
  <2> HIDE DEF S, One
  <2>1. QED
    BY <1>3
<1>6. PICK f \in [0..LongBits -> S] : Iterates(f, LongBits, first, next)
  <2> HIDE DEF next, S, first
  <2>1. QED
    BY <1>1, <1>4, <1>5, IterationExists
<1>7. f[0] = first /\ \A j \in 1..LongBits : f[j] = One(f[j - 1])
  <2>1. \A j \in 1..LongBits : j - 1 \in 0..LongBits /\ f[j - 1] \in S
    <3> HIDE DEF S
    <3>1. QED
      BY <1>1
  <2> HIDE DEF S, One, first
  <2>2. QED
    BY <1>1, <1>6, <2>1 DEF Iterates
<1>8. Def(f)
  <2> DEFINE e(n) == [a \in Nat |-> [b \in Nat |->
                        IF n = 0 THEN 0
                        ELSE 2 * f[n - 1][a \div 2][b \div 2] + (a % 2) * (b % 2)]]
  <2>1. ASSUME NEW n \in 0..LongBits
        PROVE  f[n] = e(n)
    <3>1. CASE n = 0
      <4>1. e(n) = first
        BY <3>1
      <4>2. QED
        BY <1>7, <3>1, <4>1
    <3>2. CASE n # 0
      <4>1. e(n) = One(f[n - 1])
        BY <3>2
      <4>2. n \in 1..LongBits
        BY <1>1, <3>2
      <4> HIDE DEF e, One
      <4>3. QED
        BY <1>7, <4>1, <4>2
    <3>3. QED
      BY <3>1, <3>2
  <2>2. f = [n \in 0..LongBits |-> e(n)]
    <3> HIDE DEF e, S
    <3>1. QED
      BY <2>1
  <2>3. QED
    BY <2>2, Zenon
<1>9. Selection!And = CHOOSE g : Def(g)
  BY DEF Selection!And
<1> HIDE DEF Def
<1>10. Def(Selection!And)
  BY <1>8, <1>9, Zenon
<1> USE DEF Def
<1>11. \A n \in 0..LongBits : \A a, b \in Nat :
         Selection!And[n][a][b]
           = IF n = 0 THEN 0
             ELSE 2 * Selection!And[n - 1][a \div 2][b \div 2] + (a % 2) * (b % 2)
  <2> DEFINE g == Selection!And
  <2>1. Def(g)
    BY <1>10
  <2> HIDE DEF g
  <2> DEFINE e(n, a, b) == IF n = 0 THEN 0
                           ELSE 2 * g[n - 1][a \div 2][b \div 2] + (a % 2) * (b % 2)
  <2>2. g = [n \in 0..LongBits |-> [a \in Nat |-> [b \in Nat |-> e(n, a, b)]]]
    BY <2>1, Zenon
  <2> HIDE DEF e
  <2>3. \A n \in 0..LongBits : \A a, b \in Nat : g[n][a][b] = e(n, a, b)
    BY <2>2, Zenon
  <2> USE DEF e
  <2>4. \A n \in 0..LongBits : \A a, b \in Nat :
          g[n][a][b] = IF n = 0 THEN 0
                       ELSE 2 * g[n - 1][a \div 2][b \div 2] + (a % 2) * (b % 2)
    BY <2>3, Zenon
  <2>5. QED
    BY <2>4, Zenon DEF g
<1>12. \A a, b \in Nat : Selection!And[0][a][b] = 0
  <2>1. 0 \in 0..LongBits
    BY <1>1
  <2>2. QED
    BY <1>11, <2>1, Zenon
<1>13. ASSUME NEW n \in 0..LongBits-1, NEW a \in Nat, NEW b \in Nat
       PROVE  Selection!And[n + 1][a][b]
                = 2 * Selection!And[n][a \div 2][b \div 2] + (a % 2) * (b % 2)
  <2>1. n + 1 \in 0..LongBits /\ n + 1 # 0 /\ (n + 1) - 1 = n
    BY <1>1
  <2>2. PICK j \in 0..LongBits : j = n + 1 /\ j # 0 /\ j - 1 = n
    BY <2>1, Zenon
  <2>3. Selection!And[j][a][b]
          = 2 * Selection!And[j - 1][a \div 2][b \div 2] + (a % 2) * (b % 2)
    BY <1>11, <2>2, Zenon
  <2>4. QED
    BY <2>2, <2>3, Zenon
<1>14. \A n \in 0..LongBits : \A a, b \in Nat : Selection!And[n][a][b] \in Nat
  <2> DEFINE G == {n \in 0..LongBits : \A a, b \in Nat : Selection!And[n][a][b] \in Nat}
  <2>1. 0 \in G
    <3>1. \A a, b \in Nat : Selection!And[0][a][b] \in Nat
      <4>1. 0 \in Nat
        OBVIOUS
      <4>2. QED
        BY <1>12, <4>1, Zenon
    <3>2. 0 \in 0..LongBits
      BY <1>1
    <3>3. QED
      BY <3>1, <3>2, Zenon
  <2>2. ASSUME NEW n \in G, n < LongBits
        PROVE  n + 1 \in G
    <3>1. n \in 0..LongBits-1 /\ n + 1 \in 0..LongBits
      BY <1>1, <2>2
    <3>2. ASSUME NEW a \in Nat, NEW b \in Nat
          PROVE  Selection!And[n + 1][a][b] \in Nat
      <4>1. /\ a \div 2 \in Nat /\ b \div 2 \in Nat /\ (a % 2) * (b % 2) \in {0, 1}
        BY LowestBit, BitProduct
      <4>2. Selection!And[n][a \div 2][b \div 2] \in Nat
        BY <2>2, <4>1
      <4>3. PICK c \in Nat, p \in {0, 1} :
              /\ c = Selection!And[n][a \div 2][b \div 2]
              /\ p = (a % 2) * (b % 2)
        BY <4>1, <4>2, Zenon
      <4>4. 2 * c + p \in Nat
        OBVIOUS
      <4>5. Selection!And[n + 1][a][b]
              = 2 * Selection!And[n][a \div 2][b \div 2] + (a % 2) * (b % 2)
        BY <1>13, <3>1, Zenon
      <4>6. QED
        BY <4>3, <4>4, <4>5, Zenon
    <3>3. QED
      BY <3>1, <3>2
  <2>3. G \in SUBSET (0..LongBits)
    OBVIOUS
  <2> HIDE DEF G
  <2>4. G = 0..LongBits
    BY <1>1, <2>1, <2>2, <2>3, CountingUp
  <2>5. QED
    BY <2>4 DEF G
<1>15. QED
  BY <1>12, <1>13, <1>14

(* The bits of both are bits of each, and all bits fit; no bits, and all   *)
(* of k bits, are what 0 and a mask as wide as the number have in common   *)
(* with it.                                                                *)
LEMMA AndIs ==
  ASSUME Selection!SelectAssumption, NEW n \in 0..LongBits
  PROVE  /\ \A a, b \in 0 .. Selection!TwoTo[n] - 1 :
              LET c == Selection!And[n][a][b]
              IN  c <= a /\ c <= b /\ (a + b) - c < Selection!TwoTo[n]
         /\ \A a \in Nat : Selection!And[n][0][a] = 0 /\ Selection!And[n][a][0] = 0
         /\ \A k \in 0..n : \A a \in 0 .. Selection!TwoTo[k] - 1 :
              /\ Selection!And[n][Selection!TwoTo[k] - 1][a] = a
              /\ Selection!And[n][a][Selection!TwoTo[k] - 1] = a
<1> DEFINE Two == Selection!TwoTo
           F == Selection!And
           Fits(m) == \A a, b \in 0 .. Two[m] - 1 :
                        /\ F[m][a][b] <= a /\ F[m][a][b] <= b
                        /\ (a + b) - F[m][a][b] < Two[m]
           Zero(m) == \A a \in Nat : F[m][0][a] = 0 /\ F[m][a][0] = 0
           Ones(m) == \A k \in 0..m : \A a \in 0 .. Two[k] - 1 :
                        F[m][Two[k] - 1][a] = a /\ F[m][a][Two[k] - 1] = a
           G == {m \in 0..LongBits : Fits(m) /\ Zero(m) /\ Ones(m)}
<1>1. /\ LongBits \in Nat /\ Two \in [0..LongBits -> Nat \ {0}]
      /\ Two[0] = 1 /\ \A i \in 0..LongBits-1 : Two[i + 1] = 2 * Two[i]
  BY TwoPowers
<1>2. /\ \A a, b \in Nat : F[0][a][b] = 0
      /\ \A m \in 0..LongBits-1 : \A a, b \in Nat :
           F[m + 1][a][b] = 2 * F[m][a \div 2][b \div 2] + (a % 2) * (b % 2)
      /\ \A m \in 0..LongBits : \A a, b \in Nat : F[m][a][b] \in Nat
  BY AndValues
<1> HIDE DEF Two, F
<1>3. 0 \in G
  <2>1. \A a \in 0 .. Two[0] - 1 : a = 0
    BY <1>1
  <2>2. Fits(0) /\ Zero(0)
    BY <1>1, <1>2, <2>1
  <2>3. Ones(0)
    BY <1>1, <1>2, <2>1
  <2>4. QED
    BY <1>1, <2>2, <2>3
<1>4. ASSUME NEW m \in G, m < LongBits
      PROVE  m + 1 \in G
  <2>1. m \in 0..LongBits-1 /\ m + 1 \in 0..LongBits
    BY <1>1, <1>4
  <2>2. Fits(m) /\ Zero(m) /\ Ones(m)
    OBVIOUS
  <2>3. Two[m + 1] = 2 * Two[m] /\ Two[m] \in Nat \ {0}
    BY <1>1, <2>1
  <2>4. ASSUME NEW a \in Nat, NEW b \in Nat
        PROVE  F[m + 1][a][b] = 2 * F[m][a \div 2][b \div 2] + (a % 2) * (b % 2)
    BY <1>2, <2>1
  <2>5. ASSUME NEW a \in Nat, NEW b \in Nat
        PROVE  F[m][a][b] \in Nat
    BY <1>2, <2>1
  <2> HIDE DEF G, Fits, Zero, Ones
  <2>6. Fits(m + 1)
    <3>1. ASSUME NEW a \in 0 .. Two[m + 1] - 1, NEW b \in 0 .. Two[m + 1] - 1
          PROVE  /\ F[m + 1][a][b] <= a /\ F[m + 1][a][b] <= b
                 /\ (a + b) - F[m + 1][a][b] < Two[m + 1]
      <4> DEFINE c == F[m][a \div 2][b \div 2]
      <4>1. /\ a \in Nat /\ b \in Nat /\ a \div 2 \in Nat /\ b \div 2 \in Nat
            /\ a \div 2 \in 0 .. Two[m] - 1 /\ b \div 2 \in 0 .. Two[m] - 1
        BY <2>3
      <4>2. /\ a = 2 * (a \div 2) + (a % 2) /\ a % 2 \in {0, 1}
            /\ b = 2 * (b \div 2) + (b % 2) /\ b % 2 \in {0, 1}
        BY <4>1, LowestBit
      <4>3. c \in Nat /\ c <= a \div 2 /\ c <= b \div 2
            /\ (a \div 2 + b \div 2) - c < Two[m]
        BY <2>2, <2>5, <4>1 DEF Fits
      <4>4. F[m + 1][a][b] = 2 * c + (a % 2) * (b % 2)
        BY <2>4, <4>1
      <4> HIDE DEF c
      <4>5. PICK u \in {0, 1}, v \in {0, 1}, p \in Nat, q \in Nat :
              u = a % 2 /\ v = b % 2 /\ p = a \div 2 /\ q = b \div 2
        BY <4>1, <4>2
      <4>6. (a % 2) * (b % 2) = IF u = 1 /\ v = 1 THEN 1 ELSE 0
        BY <4>5, BitProduct
      <4>7. QED
        BY <2>3, <4>1, <4>2, <4>3, <4>4, <4>5, <4>6
    <3>2. QED
      BY <3>1 DEF Fits
  <2>7. Zero(m + 1)
    <3>1. ASSUME NEW a \in Nat
          PROVE  F[m + 1][0][a] = 0 /\ F[m + 1][a][0] = 0
      <4>1. /\ a \div 2 \in Nat /\ a % 2 \in {0, 1} /\ 0 \in Nat
            /\ 0 \div 2 = 0 /\ 0 % 2 = 0 /\ 0 * (a % 2) = 0 /\ (a % 2) * 0 = 0
        BY LowestBit
      <4>2. F[m][0][a \div 2] = 0 /\ F[m][a \div 2][0] = 0
        BY <2>2, <4>1 DEF Zero
      <4>3. /\ F[m + 1][0][a] = 2 * F[m][0 \div 2][a \div 2] + (0 % 2) * (a % 2)
            /\ F[m + 1][a][0] = 2 * F[m][a \div 2][0 \div 2] + (a % 2) * (0 % 2)
        BY <2>4, <4>1, Zenon
      <4>4. /\ F[m + 1][0][a] = 2 * 0 + 0
            /\ F[m + 1][a][0] = 2 * 0 + 0
        BY <4>1, <4>2, <4>3, Zenon
      <4>5. QED
        BY <4>4
    <3>2. QED
      BY <3>1 DEF Zero
  <2>8. Ones(m + 1)
    <3>1. ASSUME NEW k \in 0..m+1, NEW a \in 0 .. Two[k] - 1
          PROVE  F[m + 1][Two[k] - 1][a] = a /\ F[m + 1][a][Two[k] - 1] = a
      <4>1. CASE k = 0
        <5>1. a = 0 /\ Two[k] - 1 = 0
          BY <1>1, <4>1
        <5>2. QED
          BY <2>7, <5>1 DEF Zero
      <4>2. CASE k # 0
        <5> DEFINE t == Two[k - 1]
        <5>1. /\ k - 1 \in 0..LongBits-1 /\ k - 1 \in 0..m
              /\ (k - 1) + 1 = k
          BY <1>1, <2>1, <4>2
        <5>2. t \in Nat \ {0} /\ Two[k] = 2 * t
          BY <1>1, <5>1
        <5> HIDE DEF t
        <5>3. /\ a \in Nat /\ a \div 2 \in 0 .. t - 1 /\ a \div 2 \in Nat
              /\ a = 2 * (a \div 2) + (a % 2) /\ a % 2 \in {0, 1}
          BY <5>2, LowestBit
        <5>4. /\ 2 * t - 1 \in Nat /\ (2 * t - 1) \div 2 = t - 1
              /\ (2 * t - 1) % 2 = 1
          BY <5>2
        <5>5. /\ F[m][t - 1][a \div 2] = a \div 2
              /\ F[m][a \div 2][t - 1] = a \div 2
          BY <2>2, <5>1, <5>3 DEF Ones, t
        <5>6. F[m + 1][2 * t - 1][a] = 2 * F[m][t - 1][a \div 2] + 1 * (a % 2)
          BY <2>4, <5>3, <5>4
        <5>7. F[m + 1][a][2 * t - 1] = 2 * F[m][a \div 2][t - 1] + (a % 2) * 1
          BY <2>4, <5>3, <5>4
        <5>8. QED
          BY <5>2, <5>3, <5>5, <5>6, <5>7
      <4>3. QED
        BY <4>1, <4>2
    <3>2. QED
      BY <3>1 DEF Ones
  <2>9. QED
    BY <2>1, <2>6, <2>7, <2>8 DEF G
<1>5. G = 0..LongBits
  <2>1. G \in SUBSET (0..LongBits)
    OBVIOUS
  <2> HIDE DEF G
  <2>2. QED
    BY <1>1, <1>3, <1>4, <2>1, CountingUp
<1>6. Fits(n) /\ Zero(n) /\ Ones(n)
  BY <1>5
<1>7. QED
  BY <1>6 DEF Two, F

(* The operators: a mask of no bits or of all of a width, as & and | see   *)
(* it, and that | keeps the top bit of each.                               *)
LEMMA Masking ==
  ASSUME Selection!SelectAssumption,
         NEW a \in 0 .. Selection!TwoTo[LongBits] - 1
  PROVE  /\ Selection!&(0, a) = 0 /\ Selection!&(a, 0) = 0
         /\ Selection!|(0, a) = a /\ Selection!|(a, 0) = a
         /\ \A k \in 0..LongBits :
              a < Selection!TwoTo[k] =>
                /\ Selection!&(Selection!TwoTo[k] - 1, a) = a
                /\ Selection!&(a, Selection!TwoTo[k] - 1) = a
         /\ \A b \in 0 .. Selection!TwoTo[LongBits] - 1 :
              /\ Selection!|(a, b) \in 0 .. Selection!TwoTo[LongBits] - 1
              /\ a <= Selection!|(a, b) /\ b <= Selection!|(a, b)
<1> DEFINE Two == Selection!TwoTo
           F == Selection!And
           n == LongBits
<1>1. n \in Nat /\ Two \in [0..n -> Nat \ {0}]
  BY TwoPowers
<1>2. \A p, q \in Nat : F[n][p][q] \in Nat
  BY <1>1, AndValues
<1>3. /\ \A p, q \in 0 .. Two[n] - 1 :
           /\ F[n][p][q] <= p /\ F[n][p][q] <= q
           /\ (p + q) - F[n][p][q] < Two[n]
      /\ \A p \in Nat : F[n][0][p] = 0 /\ F[n][p][0] = 0
      /\ \A k \in 0..n : \A p \in 0 .. Two[k] - 1 :
           F[n][Two[k] - 1][p] = p /\ F[n][p][Two[k] - 1] = p
  <2>1. n \in 0..LongBits
    BY <1>1
  <2>2. QED
    BY <2>1, AndIs
<1> HIDE DEF Two, F, n
<1>4. \A p, q : Selection!&(p, q) = F[n][p][q]
  BY DEF Selection!&, F, n
<1>5. \A p, q : Selection!|(p, q) = p + q - F[n][p][q]
  BY <1>4 DEF Selection!|
<1>6. a \in 0 .. Two[n] - 1 /\ a \in Nat
  BY DEF Two, n
<1>7. ASSUME NEW b \in 0 .. Two[n] - 1
      PROVE  /\ Selection!|(a, b) \in 0 .. Two[n] - 1
             /\ a <= Selection!|(a, b) /\ b <= Selection!|(a, b)
  <2>1. PICK c \in Nat : c = F[n][a][b]
    BY <1>2, <1>6
  <2>2. c <= a /\ c <= b /\ (a + b) - c < Two[n]
    BY <1>3, <1>6, <2>1, Zenon
  <2>3. Selection!|(a, b) = a + b - c
    BY <1>5, <2>1, Zenon
  <2>4. Two[n] \in Nat /\ b \in Nat
    BY <1>1
  <2>5. QED
    BY <1>6, <2>2, <2>3, <2>4
<1>8. ASSUME NEW k \in 0..n, a < Two[k]
      PROVE  Selection!&(Two[k] - 1, a) = a /\ Selection!&(a, Two[k] - 1) = a
  <2>1. a \in 0 .. Two[k] - 1
    BY <1>1, <1>6, <1>8
  <2>2. QED
    BY <1>3, <1>4, <2>1
<1>9. /\ Selection!&(0, a) = 0 /\ Selection!&(a, 0) = 0
      /\ Selection!|(0, a) = a /\ Selection!|(a, 0) = a
  BY <1>3, <1>4, <1>5, <1>6
<1>10. QED
  BY <1>7, <1>8, <1>9 DEF Two, n

(* One of two numbers under a mask and its complement. *)
LEMMA Blended ==
  ASSUME Selection!SelectAssumption, NEW k \in 0..LongBits,
         NEW full, full = Selection!TwoTo[k] - 1,
         NEW a \in 0..full, NEW b \in 0..full, NEW m \in {0, full}
  PROVE  LET chosenOne == IF m = 0 THEN b ELSE a
         IN  /\ Selection!|(Selection!&(m, a), Selection!&(full - m, b)) = chosenOne
             /\ Selection!|(Selection!&(a, m), Selection!&(full - m, b)) = chosenOne
             /\ Selection!|(Selection!&(a, m), Selection!&(b, full - m)) = chosenOne
<1>1. /\ LongBits \in Nat /\ Selection!TwoTo[k] \in Nat \ {0}
      /\ Selection!TwoTo[LongBits - k] \in Nat \ {0}
      /\ Selection!TwoTo[LongBits] = Selection!TwoTo[k] * Selection!TwoTo[LongBits - k]
  <2>1. LongBits \in Nat /\ LongBits - k \in 0..LongBits
        /\ LongBits - k \in 0..LongBits-k /\ k + (LongBits - k) = LongBits
    BY TwoPowers
  <2>2. \A i \in 0..LongBits : Selection!TwoTo[i] \in Nat \ {0}
    BY TwoPowers
  <2>3. Selection!TwoTo[k + (LongBits - k)]
          = Selection!TwoTo[k] * Selection!TwoTo[LongBits - k]
    BY <2>1, TwoToSum
  <2>4. QED
    BY <2>1, <2>2, <2>3
<1>2. Selection!TwoTo[k] <= Selection!TwoTo[LongBits]
  <2>1. PICK u \in Nat \ {0}, v \in Nat \ {0} :
          u = Selection!TwoTo[k] /\ v = Selection!TwoTo[LongBits - k]
    BY <1>1
  <2>2. u <= u * v
    BY SMT
  <2>3. QED
    BY <1>1, <2>1, <2>2
<1>3. /\ full \in Nat
      /\ a \in 0 .. Selection!TwoTo[LongBits] - 1 /\ a < Selection!TwoTo[k]
      /\ b \in 0 .. Selection!TwoTo[LongBits] - 1 /\ b < Selection!TwoTo[k]
      /\ 0 \in 0 .. Selection!TwoTo[LongBits] - 1
  BY <1>1, <1>2
<1>4. ASSUME NEW c \in {a, b}
      PROVE  /\ Selection!&(0, c) = 0 /\ Selection!&(c, 0) = 0
             /\ Selection!|(0, c) = c /\ Selection!|(c, 0) = c
             /\ Selection!&(full, c) = c /\ Selection!&(c, full) = c
  <2>1. c \in 0 .. Selection!TwoTo[LongBits] - 1 /\ c < Selection!TwoTo[k]
    BY <1>3
  <2>2. QED
    BY <2>1, Masking
<1>5. full - 0 = full /\ full - full = 0
  BY <1>3
<1>6. CASE m = 0
  <2>1. /\ Selection!&(m, a) = 0 /\ Selection!&(a, m) = 0
        /\ Selection!&(full - m, b) = b /\ Selection!&(b, full - m) = b
    BY <1>4, <1>5, <1>6, Zenon
  <2>2. Selection!|(0, b) = b
    BY <1>4
  <2>3. QED
    BY <1>6, <2>1, <2>2
<1>7. CASE m # 0
  <2>1. m = full
    BY <1>7
  <2>2. /\ Selection!&(m, a) = a /\ Selection!&(a, m) = a
        /\ Selection!&(full - m, b) = 0 /\ Selection!&(b, full - m) = 0
    BY <1>4, <1>5, <2>1, Zenon
  <2>3. Selection!|(a, 0) = a
    BY <1>4
  <2>4. QED
    BY <1>7, <2>2, <2>3
<1>8. QED
  BY <1>6, <1>7

(* Remainders and quotients by a symbolic number, where they are near. *)
LEMMA NearRemainders ==
  ASSUME NEW q \in Nat \ {0}, NEW v \in (-q) .. 2 * q - 1
  PROVE  /\ v % q = IF v < 0 THEN v + q ELSE IF v < q THEN v ELSE v - q
<1>1. CASE v < 0
  BY <1>1
<1>2. CASE 0 <= v /\ v < q
  BY <1>2
<1>3. CASE q <= v
  BY <1>3
<1>4. QED
  BY <1>1, <1>2, <1>3

LEMMA QuotientIs ==
  ASSUME NEW q \in Nat \ {0}, NEW d \in Int, NEW m \in 0 .. q-1
  PROVE  (q * d + m) \div q = d /\ (q * d + m) % q = m
OBVIOUS

(* The comparisons on every kind of CPU: secure_l32_mask is 0 or all ones, *)
(* secure_cmpeq64_mask all ones or 0.                                      *)
LEMMA Comparisons ==
  ASSUME Selection!SelectAssumption, cpu \in {"aarch64", "x86_64", "other"},
         NEW p \in Compared, NEW q \in Compared
  PROVE  /\ Selection!secure_cmp32(p, q) = IF p = q THEN 1 ELSE 0
         /\ Selection!secure_l32(p, q) = IF p < q THEN 1 ELSE 0
         /\ Selection!secure_l32_mask(p, q)
              = IF p < q THEN 0 ELSE Selection!TwoTo[WordBits] - 1
         /\ Selection!secure_cmpeq64_mask(p, q)
              = IF p = q THEN Selection!TwoTo[LongBits] - 1 ELSE 0
<1>1. PICK tb, tw, tl, th, tm :
        /\ tb = Selection!TwoTo[ByteBits] /\ tw = Selection!TwoTo[WordBits]
        /\ tl = Selection!TwoTo[LongBits]
        /\ th = Selection!TwoTo[WordBits - 1] /\ tm = Selection!TwoTo[LongBits - 1]
  OBVIOUS
<1>2. /\ tb \in Nat \ {0} /\ tw \in Nat \ {0} /\ tl \in Nat \ {0}
      /\ th \in Nat \ {0} /\ tm \in Nat \ {0}
      /\ 2 <= tb /\ tb <= th /\ tw = 2 * th /\ tl = tw * tw /\ tl = 2 * tm
      /\ tw <= tm
  BY <1>1, Widths
<1>3. p \in 0..th-1 /\ q \in 0..th-1
  BY <1>1 DEF Selection!SelectAssumption
<1>4. /\ \A v : Selection!Long(v) = v % tl
      /\ \A v : Selection!Word(v) = v % tw
      /\ \A v : Selection!NotWord(v) = (tw - 1) - v
      /\ \A v : Selection!Signed(v) = IF v < th THEN v ELSE v - tw
  BY <1>1 DEF Selection!Long, Selection!Word, Selection!NotWord, Selection!Signed
<1>5. Selection!secure_cmp32(p, q) = IF p = q THEN 1 ELSE 0
  BY DEF Selection!secure_cmp32, Selection!Flag
<1>6. Selection!secure_l32(p, q) = IF p < q THEN 1 ELSE 0
  <2>1. Selection!Signed(p) = p /\ Selection!Signed(q) = q
    BY <1>2, <1>3, <1>4
  <2>2. QED
    BY <2>1 DEF Selection!secure_l32, Selection!Flag
<1>7. Selection!secure_l32_mask(p, q) = IF p < q THEN 0 ELSE tw - 1
  <2>1. CASE cpu # "other"
    <3>1. Selection!secure_l32_mask(p, q) = (Selection!secure_l32(p, q) - 1) % tw
      BY <1>4, <2>1 DEF Selection!secure_l32_mask
    <3>2. 0 % tw = 0 /\ (-1) % tw = tw - 1 /\ 1 - 1 = 0 /\ 0 - 1 = -1
      BY <1>2
    <3>3. QED
      BY <1>6, <3>1, <3>2
  <2>2. CASE cpu = "other"
    <3>1. Selection!secure_l32_mask(p, q) = (tw - 1) - (((p - q) % tl) \div tw)
      BY <1>1, <1>4, <2>2 DEF Selection!secure_l32_mask
    <3>2. p - q \in (-tl) .. 2 * tl - 1 /\ p - q < tl
      BY <1>2, <1>3
    <3>3. (p - q) % tl = IF p < q THEN (p - q) + tl ELSE p - q
      <4>1. PICK e \in (-tl) .. 2 * tl - 1 : e = p - q
        BY <3>2
      <4>2. e % tl = IF e < 0 THEN e + tl ELSE IF e < tl THEN e ELSE e - tl
        BY <1>2, NearRemainders
      <4>3. e < tl /\ (e < 0 <=> p < q)
        BY <1>2, <1>3, <4>1
      <4>4. QED
        BY <4>1, <4>2, <4>3
    <3>4. CASE p < q
      <4>1. (p - q) + tw \in 0..tw-1
        BY <1>2, <1>3, <3>4
      <4>2. (p - q) + tl = tw * (tw - 1) + ((p - q) + tw)
        BY <1>2, <1>3
      <4>3. ((p - q) + tl) \div tw = tw - 1
        BY <1>2, <4>1, <4>2, QuotientIs
      <4>4. QED
        BY <1>2, <3>1, <3>3, <3>4, <4>3
    <3>5. CASE ~(p < q)
      <4>1. p - q \in 0..tw-1 /\ p - q = tw * 0 + (p - q)
        BY <1>2, <1>3, <3>5
      <4>2. (p - q) \div tw = 0
        BY <1>2, <4>1
      <4>3. QED
        BY <1>2, <3>1, <3>3, <3>5, <4>2
    <3>6. QED
      BY <3>4, <3>5
  <2>3. QED
    BY <2>1, <2>2
<1>8. Selection!secure_cmpeq64_mask(p, q) = IF p = q THEN tl - 1 ELSE 0
  <2>1. PICK u, v : u = (p - q) % tl /\ v = (q - p) % tl
    OBVIOUS
  <2>2. /\ u = IF p < q THEN (p - q) + tl ELSE p - q
        /\ v = IF q < p THEN (q - p) + tl ELSE q - p
    <3>1. /\ p - q \in (-tl) .. 2 * tl - 1 /\ p - q < tl
          /\ q - p \in (-tl) .. 2 * tl - 1 /\ q - p < tl
      BY <1>2, <1>3
    <3>2. PICK e \in (-tl) .. 2 * tl - 1, f \in (-tl) .. 2 * tl - 1 :
            e = p - q /\ f = q - p
      BY <3>1
    <3>3. /\ e % tl = IF e < 0 THEN e + tl ELSE IF e < tl THEN e ELSE e - tl
          /\ f % tl = IF f < 0 THEN f + tl ELSE IF f < tl THEN f ELSE f - tl
      BY <1>2, NearRemainders
    <3>4. e < tl /\ f < tl /\ (e < 0 <=> p < q) /\ (f < 0 <=> q < p)
      BY <1>2, <1>3, <3>2
    <3>5. QED
      BY <2>1, <3>2, <3>3, <3>4
  <2>3. u \in 0 .. tl - 1 /\ v \in 0 .. tl - 1
    BY <1>2, <1>3, <2>2
  <2>4. PICK d : d = Selection!|(u, v)
    OBVIOUS
  <2>5. d \in 0 .. tl - 1 /\ u <= d /\ v <= d
    BY <1>1, <2>3, <2>4, Masking
  <2>6. Selection!secure_cmpeq64_mask(p, q) = (-(1 - (d \div tm))) % tl
    BY <1>1, <1>4, <2>1, <2>4 DEF Selection!secure_cmpeq64_mask
  <2>7. CASE p = q
    <3>1. u = 0 /\ v = 0
      BY <1>2, <1>3, <2>2, <2>7
    <3>2. d = 0
      BY <1>1, <2>3, <2>4, <3>1, Masking
    <3>3. 0 \div tm = 0 /\ (-(1 - 0)) = -1 /\ (-1) % tl = tl - 1
      BY <1>2
    <3>4. QED
      BY <2>6, <2>7, <3>2, <3>3
  <2>8. CASE p # q
    <3>1. tm <= d
      BY <1>2, <1>3, <2>2, <2>3, <2>5, <2>8
    <3>2. d - tm \in 0..tm-1 /\ d = tm * 1 + (d - tm)
      BY <1>2, <2>5, <3>1
    <3>3. d \div tm = 1
      BY <1>2, <3>2
    <3>4. 0 % tl = 0
      BY <1>2, NearRemainders
    <3>5. (-(1 - (d \div tm))) = 0
      BY <3>3
    <3>6. QED
      BY <2>6, <2>8, <3>4, <3>5
  <2>9. QED
    BY <2>7, <2>8
<1>9. QED
  BY <1>1, <1>5, <1>6, <1>7, <1>8

(* What holds all along: the values fit their types, the result compared   *)
(* is that of v1 and v2, and what is chosen the branch's.                  *)
Compares ==
  res = IF use \in {"set bits", "append"} THEN IF v1 = v2 THEN 1 ELSE 0
        ELSE IF use = "count" THEN IF v1 < v2 THEN 1 ELSE 0
        ELSE IF use = "window"
          THEN IF v1 = v2 THEN Selection!TwoTo[LongBits] - 1 ELSE 0
        ELSE IF v1 < v2 THEN 0 ELSE Selection!TwoTo[WordBits] - 1

SelectInv ==
  /\ cpu \in {"aarch64", "x86_64", "other"}
  /\ use \in Selection!Uses
  /\ v1 \in Compared /\ v2 \in Compared
  /\ use = "rotate vectors" => v2 < Selection!TwoTo[ByteBits]
  /\ use = "secret" => v1 = 0 /\ v2 \in {0, 1}
  /\ x \in Longs /\ y \in Longs
  /\ use = "threshold" => x = v1 /\ y = v2
  /\ use = "secret" => x < Selection!TwoTo[ByteBits] /\ y < Selection!TwoTo[ByteBits]
  /\ use = "append" => x < Selection!TwoTo[WordBits] /\ y < Selection!TwoTo[WordBits]
  /\ use = "count" => x \in {0, 1}
  /\ use \in {"count", "set bits", "window"} => y = 0
  /\ selPc \in {"compare", "select", "done"}
  /\ selPc = "select" => Compares
  /\ SelectsAsBranch

LEMMA CompareInv ==
  ASSUME Selection!SelectAssumption, SelectInv, Selection!Compare
  PROVE  SelectInv'
<1>1. /\ selPc = "compare" /\ selPc' = "select"
      /\ cpu' = cpu /\ use' = use /\ v1' = v1 /\ v2' = v2 /\ x' = x /\ y' = y
  BY DEF Selection!Compare
<1>2. /\ Selection!secure_cmp32(v1, v2) = IF v1 = v2 THEN 1 ELSE 0
      /\ Selection!secure_l32(v1, v2) = IF v1 < v2 THEN 1 ELSE 0
      /\ Selection!secure_l32_mask(v1, v2)
           = IF v1 < v2 THEN 0 ELSE Selection!TwoTo[WordBits] - 1
      /\ Selection!secure_cmpeq64_mask(v1, v2)
           = IF v1 = v2 THEN Selection!TwoTo[LongBits] - 1 ELSE 0
  BY Comparisons DEF SelectInv
<1>3. Compares'
  <2>1. res' = IF use \in {"set bits", "append"} THEN Selection!secure_cmp32(v1, v2)
               ELSE IF use = "count" THEN Selection!secure_l32(v1, v2)
               ELSE IF use = "window" THEN Selection!secure_cmpeq64_mask(v1, v2)
               ELSE Selection!secure_l32_mask(v1, v2)
    <3>1. CASE use \in {"set bits", "append"}
      BY <3>1 DEF Selection!Compare
    <3>2. CASE use = "count"
      BY <3>2 DEF Selection!Compare
    <3>3. CASE use = "window"
      BY <3>3 DEF Selection!Compare
    <3>4. CASE use \notin {"set bits", "append", "count", "window"}
      BY <3>4 DEF Selection!Compare
    <3>5. QED
      BY <3>1, <3>2, <3>3, <3>4
  <2>2. QED
    BY <1>1, <1>2, <2>1 DEF Compares
<1>4. SelectsAsBranch'
  BY <1>1 DEF SelectsAsBranch, Selection!SelectsAsBranch
<1>5. QED
  BY <1>1, <1>3, <1>4 DEF SelectInv

LEMMA SelectStepInv ==
  ASSUME Selection!SelectAssumption, SelectInv, Selection!Select
  PROVE  SelectInv'
<1>1. /\ selPc = "select" /\ selPc' = "done" /\ Compares
      /\ cpu' = cpu /\ use' = use /\ v1' = v1 /\ v2' = v2 /\ x' = x /\ y' = y
  BY DEF Selection!Select, SelectInv
<1>2. PICK tb, tw, tl, th, tm :
        /\ tb = Selection!TwoTo[ByteBits] /\ tw = Selection!TwoTo[WordBits]
        /\ tl = Selection!TwoTo[LongBits]
        /\ th = Selection!TwoTo[WordBits - 1] /\ tm = Selection!TwoTo[LongBits - 1]
  OBVIOUS
<1>3. /\ tb \in Nat \ {0} /\ tw \in Nat \ {0} /\ tl \in Nat \ {0}
      /\ th \in Nat \ {0} /\ tm \in Nat \ {0}
      /\ 2 <= tb /\ tb <= th /\ tw = 2 * th /\ tl = tw * tw /\ tl = 2 * tm
      /\ tw <= tm
      /\ \E k \in Nat \ {0} : tw = tb * k
  BY <1>2, Widths
<1>4. /\ \A v : Selection!Long(v) = v % tl
      /\ \A v : Selection!Word(v) = v % tw
      /\ \A v : Selection!Byte(v) = v % tb
      /\ \A v : Selection!NotWord(v) = (tw - 1) - v
      /\ \A v : Selection!NotLong(v) = (tl - 1) - v
      /\ \A v : Selection!NotByte(v) = (tb - 1) - v
  BY <1>2 DEF Selection!Long, Selection!Word, Selection!Byte, Selection!NotWord,
              Selection!NotLong, Selection!NotByte
<1>5. /\ v1 \in 0..th-1 /\ v2 \in 0..th-1 /\ x \in 0..tl-1 /\ y \in 0..tl-1
      /\ v1 \in 0..tl-1 /\ v2 \in 0..tl-1
  <2>1. v1 \in 0..th-1 /\ v2 \in 0..th-1 /\ x \in 0..tl-1 /\ y \in 0..tl-1
    BY <1>2 DEF SelectInv, Selection!SelectAssumption
  <2>2. QED
    BY <1>3, <2>1
(* Each number selected or masked, and the masks of its width or wider. *)
<1>6. ASSUME NEW a \in 0..tl-1
      PROVE  /\ Selection!&(0, a) = 0 /\ Selection!&(a, 0) = 0
             /\ Selection!|(0, a) = a /\ Selection!|(a, 0) = a
             /\ Selection!&(tl - 1, a) = a /\ Selection!&(a, tl - 1) = a
             /\ a < tw => Selection!&(tw - 1, a) = a /\ Selection!&(a, tw - 1) = a
             /\ a < tb => Selection!&(tb - 1, a) = a /\ Selection!&(a, tb - 1) = a
             /\ a < 2 => Selection!&(1, a) = a /\ Selection!&(a, 1) = a
  <2>1. /\ {ByteBits, WordBits, LongBits, 1} \subseteq 0..LongBits
        /\ LongBits \in Nat \ {0} /\ 0 \in 0..LongBits-1 /\ 0 + 1 = 1
    BY DEF Selection!SelectAssumption
  <2>2. Selection!TwoTo[1] = 2
    BY <2>1, TwoPowers
  <2>3. a \in 0 .. Selection!TwoTo[LongBits] - 1 /\ a < tl
    BY <1>2, <1>3
  <2>4. \A k \in 0..LongBits :
          a < Selection!TwoTo[k] =>
            /\ Selection!&(Selection!TwoTo[k] - 1, a) = a
            /\ Selection!&(a, Selection!TwoTo[k] - 1) = a
    BY <2>3, Masking
  <2>5. a < tl => Selection!&(tl - 1, a) = a /\ Selection!&(a, tl - 1) = a
    BY <1>2, <2>1, <2>4, Zenon
  <2>6. a < tw => Selection!&(tw - 1, a) = a /\ Selection!&(a, tw - 1) = a
    BY <1>2, <2>1, <2>4, Zenon
  <2>7. a < tb => Selection!&(tb - 1, a) = a /\ Selection!&(a, tb - 1) = a
    BY <1>2, <2>1, <2>4, Zenon
  <2>8. a < 2 => Selection!&(2 - 1, a) = a /\ Selection!&(a, 2 - 1) = a
    BY <2>1, <2>2, <2>4, Zenon
  <2>9. 2 - 1 = 1
    OBVIOUS
  <2>10. /\ Selection!&(0, a) = 0 /\ Selection!&(a, 0) = 0
         /\ Selection!|(0, a) = a /\ Selection!|(a, 0) = a
    BY <2>3, Masking
  <2>11. QED
    BY <2>3, <2>5, <2>6, <2>7, <2>8, <2>9, <2>10, Zenon
<1>7. /\ 0 % tl = 0 /\ (-1) % tl = tl - 1 /\ 0 % tw = 0 /\ (-1) % tw = tw - 1
      /\ 1 % tw = 1 /\ tw % tw = 0 /\ 0 % tb = 0 /\ (tw - 1) % tb = tb - 1
  <2>1. /\ {-1, 0} \subseteq (-tl) .. 2 * tl - 1
        /\ {-1, 0, 1, tw} \subseteq (-tw) .. 2 * tw - 1
        /\ 0 \in (-tb) .. 2 * tb - 1
        /\ 0 < tl /\ 0 < tw /\ 0 < tb /\ 1 < tw
    BY <1>3
  <2>2. 0 % tl = 0 /\ (-1) % tl = tl - 1
    BY <1>3, <2>1, NearRemainders
  <2>3. 0 % tw = 0 /\ (-1) % tw = tw - 1
    BY <1>3, <2>1, NearRemainders
  <2>4. 1 % tw = 1 /\ tw % tw = 0
    BY <1>3, <2>1, NearRemainders
  <2>5. 0 % tb = 0
    BY <1>3, <2>1, NearRemainders
  <2>6. (tw - 1) % tb = tb - 1
    <3>1. PICK k \in Nat \ {0} : tw = tb * k
      BY <1>3
    <3>2. tw - 1 = tb * (k - 1) + (tb - 1)
      BY <1>3, <3>1
    <3>3. k - 1 \in Int /\ tb - 1 \in 0 .. tb - 1
      BY <1>3
    <3>4. QED
      BY <1>3, <3>2, <3>3, QuotientIs
  <2>7. QED
    BY <2>2, <2>3, <2>4, <2>5, <2>6
<1>8. /\ WordBits \in 0..LongBits /\ ByteBits \in 0..LongBits /\ LongBits \in 0..LongBits
      /\ tw - 1 # 0 /\ tb - 1 # 0 /\ tl - 1 # 0
  BY <1>3 DEF Selection!SelectAssumption
<1>blend. ASSUME NEW full \in {tl - 1, tw - 1, tb - 1},
                 NEW a \in 0..full, NEW b \in 0..full, NEW m \in {0, full}
          PROVE  LET chosenOne == IF m = 0 THEN b ELSE a
                 IN  /\ Selection!|(Selection!&(m, a), Selection!&(full - m, b)) = chosenOne
                     /\ Selection!|(Selection!&(a, m), Selection!&(full - m, b)) = chosenOne
                     /\ Selection!|(Selection!&(a, m), Selection!&(b, full - m)) = chosenOne
  <2>1. PICK k \in 0..LongBits : full = Selection!TwoTo[k] - 1
    BY <1>2, <1>8
  <2>2. QED
    BY <2>1, Blended
<1>9. ASSUME use = "threshold"
      PROVE  chosen' = Selection!Branch
  <2>1. /\ chosen' = <<Selection!|(Selection!&(res, x), Selection!&((tw - 1) - res, y))>>
        /\ res = IF v1 < v2 THEN 0 ELSE tw - 1
    BY <1>1, <1>2, <1>4, <1>9 DEF Selection!Select, Selection!Threshold, Compares
  <2>2. x \in 0..tw-1 /\ y \in 0..tw-1 /\ res \in {0, tw - 1}
    BY <1>3, <1>5, <1>9, <2>1 DEF SelectInv
  <2>3. Selection!|(Selection!&(res, x), Selection!&((tw - 1) - res, y))
          = IF res = 0 THEN y ELSE x
    BY <2>2, <1>blend
  <2>4. chosen' = <<IF v1 < v2 THEN y ELSE x>>
    BY <1>8, <2>1, <2>3
  <2>5. QED
    BY <1>9, <2>4 DEF Selection!Branch
<1>10. ASSUME use = "rotate"
       PROVE  chosen' = Selection!Branch
  <2>1. PICK m : m = (((res + 1) % tw) - 1) % tl
    OBVIOUS
  <2>2. /\ chosen' = <<(v1 - Selection!&(v2, m)) % tl,
                       Selection!|(Selection!&(x, (tl - 1) - m), Selection!&(y, m))>>
        /\ res = IF v1 < v2 THEN 0 ELSE tw - 1
    BY <1>1, <1>2, <1>4, <1>10, <2>1 DEF Selection!Select, Selection!Rotate, Compares
  <2>3. m = IF v1 < v2 THEN 0 ELSE tl - 1
    <3>1. CASE v1 < v2
      BY <1>7, <2>1, <2>2, <3>1
    <3>2. CASE ~(v1 < v2)
      <4>1. (tw - 1) + 1 = tw /\ 0 - 1 = -1
        BY <1>3
      <4>2. QED
        BY <1>7, <2>1, <2>2, <3>2, <4>1
    <3>3. QED
      BY <3>1, <3>2
  <2>4. Selection!|(Selection!&(x, (tl - 1) - m), Selection!&(y, m))
          = IF m = 0 THEN x ELSE y
    <3>1. /\ x \in 0..tl-1 /\ y \in 0..tl-1 /\ m \in {0, tl - 1}
          /\ (tl - 1) - ((tl - 1) - m) = m /\ (tl - 1) - m \in {0, tl - 1}
          /\ (tl - 1) - m = 0 <=> m # 0
      BY <1>3, <1>5, <1>8, <2>3
    <3>2. PICK nm \in {0, tl - 1} : nm = (tl - 1) - m /\ m = (tl - 1) - nm
      BY <3>1
    <3>3. Selection!|(Selection!&(x, nm), Selection!&(y, (tl - 1) - nm))
            = IF nm = 0 THEN y ELSE x
      BY <3>1, <1>blend
    <3>4. QED
      BY <3>1, <3>2, <3>3
  <2>5. (v1 - Selection!&(v2, m)) % tl = IF v1 < v2 THEN v1 ELSE v1 - v2
    <3>1. CASE v1 < v2
      <4>1. Selection!&(v2, m) = 0
        BY <1>5, <1>6, <2>3, <3>1
      <4>2. (v1 - 0) % tl = v1
        BY <1>3, <1>5
      <4>3. QED
        BY <3>1, <4>1, <4>2
    <3>2. CASE ~(v1 < v2)
      <4>1. Selection!&(v2, m) = v2
        BY <1>5, <1>6, <2>3, <3>2
      <4>2. (v1 - v2) % tl = v1 - v2
        BY <1>3, <1>5, <3>2
      <4>3. QED
        BY <3>2, <4>1, <4>2
    <3>3. QED
      BY <3>1, <3>2
  <2>6. chosen' = IF v1 < v2 THEN <<v1, x>> ELSE <<v1 - v2, y>>
    BY <1>8, <2>2, <2>3, <2>4, <2>5
  <2>7. QED
    BY <1>10, <2>6 DEF Selection!Branch
<1>11. ASSUME use = "rotate vectors"
       PROVE  chosen' = Selection!Branch
  <2>1. PICK m : m = res % tb
    OBVIOUS
  <2>2. /\ chosen' = <<(v1 - Selection!&(v2, m)) % tl,
                       IF m = tb - 1 THEN y ELSE x>>
        /\ res = IF v1 < v2 THEN 0 ELSE tw - 1
    BY <1>1, <1>2, <1>4, <1>11, <2>1
       DEF Selection!Select, Selection!RotateVectors, Compares
  <2>3. m = IF v1 < v2 THEN 0 ELSE tb - 1
    BY <1>7, <2>1, <2>2
  <2>4. v2 < tb
    BY <1>2, <1>11 DEF SelectInv
  <2>5. (v1 - Selection!&(v2, m)) % tl = IF v1 < v2 THEN v1 ELSE v1 - v2
    <3>1. CASE v1 < v2
      <4>1. Selection!&(v2, m) = 0
        BY <1>5, <1>6, <2>3, <3>1
      <4>2. (v1 - 0) % tl = v1
        BY <1>3, <1>5
      <4>3. QED
        BY <3>1, <4>1, <4>2
    <3>2. CASE ~(v1 < v2)
      <4>1. Selection!&(v2, m) = v2
        BY <1>5, <1>6, <2>3, <2>4, <3>2
      <4>2. (v1 - v2) % tl = v1 - v2
        BY <1>3, <1>5, <3>2
      <4>3. QED
        BY <3>2, <4>1, <4>2
    <3>3. QED
      BY <3>1, <3>2
  <2>6. chosen' = IF v1 < v2 THEN <<v1, x>> ELSE <<v1 - v2, y>>
    BY <1>8, <2>2, <2>3, <2>5
  <2>7. QED
    BY <1>11, <2>6 DEF Selection!Branch
<1>12. ASSUME use = "secret"
       PROVE  chosen' = Selection!Branch
  <2>1. PICK m : m = res % tb
    OBVIOUS
  <2>2. /\ chosen' = <<Selection!|(Selection!&(x, (tb - 1) - m), Selection!&(m, y))>>
        /\ res = IF v1 < v2 THEN 0 ELSE tw - 1
    BY <1>1, <1>2, <1>4, <1>12, <2>1 DEF Selection!Select, Selection!Secret, Compares
  <2>3. /\ v1 < v2 <=> v2 = 1
        /\ x \in 0..tb-1 /\ y \in 0..tb-1
    BY <1>2, <1>3, <1>5, <1>12 DEF SelectInv
  <2>4. m = IF v2 = 1 THEN 0 ELSE tb - 1
    BY <1>7, <2>1, <2>2, <2>3
  <2>5. Selection!|(Selection!&(x, (tb - 1) - m), Selection!&(m, y))
          = IF m = 0 THEN x ELSE y
    <3>1. /\ (tb - 1) - ((tb - 1) - m) = m /\ (tb - 1) - m \in {0, tb - 1}
          /\ (tb - 1) - m = 0 <=> m # 0
      BY <1>3, <1>8, <2>4
    <3>2. PICK nm \in {0, tb - 1} : nm = (tb - 1) - m /\ m = (tb - 1) - nm
      BY <3>1
    <3>3. Selection!|(Selection!&(x, nm), Selection!&((tb - 1) - nm, y))
            = IF nm = 0 THEN y ELSE x
      BY <2>3, <1>blend
    <3>4. QED
      BY <3>1, <3>2, <3>3
  <2>6. chosen' = <<IF v2 = 1 THEN x ELSE y>>
    BY <1>8, <2>2, <2>4, <2>5
  <2>7. QED
    BY <1>12, <2>6 DEF Selection!Branch
<1>13. ASSUME use = "set bits"
       PROVE  chosen' = Selection!Branch
  <2>1. PICK m : m = (-1 + (1 - res)) % tl
    OBVIOUS
  <2>2. chosen' = <<Selection!&(x, m)>> /\ res = IF v1 = v2 THEN 1 ELSE 0
    BY <1>1, <1>4, <1>13, <2>1 DEF Selection!Select, Selection!SetBits, Compares
  <2>3. m = IF v1 = v2 THEN tl - 1 ELSE 0
    <3>1. -1 + (1 - 1) = -1 /\ -1 + (1 - 0) = 0
      OBVIOUS
    <3>2. CASE v1 = v2
      BY <1>7, <2>1, <2>2, <3>1, <3>2, Zenon
    <3>3. CASE v1 # v2
      BY <1>7, <2>1, <2>2, <3>1, <3>3, Zenon
    <3>4. QED
      BY <3>2, <3>3
  <2>4. chosen' = <<IF v1 = v2 THEN x ELSE 0>>
    BY <1>5, <1>6, <2>2, <2>3
  <2>5. QED
    BY <1>13, <2>4 DEF Selection!Branch
<1>14. ASSUME use = "append"
       PROVE  chosen' = Selection!Branch
  <2>1. PICK m : m = (-res) % tw
    OBVIOUS
  <2>2. /\ chosen' = <<Selection!|(Selection!&((tw - 1) - m, x), Selection!&(m, y))>>
        /\ res = IF v1 = v2 THEN 1 ELSE 0
    BY <1>1, <1>4, <1>14, <2>1 DEF Selection!Select, Selection!AppendIndex, Compares
  <2>3. m = IF v1 = v2 THEN tw - 1 ELSE 0
    BY <1>7, <2>1, <2>2
  <2>4. x \in 0..tw-1 /\ y \in 0..tw-1
    BY <1>2, <1>3, <1>5, <1>14 DEF SelectInv
  <2>5. Selection!|(Selection!&((tw - 1) - m, x), Selection!&(m, y))
          = IF m = 0 THEN x ELSE y
    <3>1. /\ (tw - 1) - ((tw - 1) - m) = m /\ (tw - 1) - m \in {0, tw - 1}
          /\ (tw - 1) - m = 0 <=> m # 0
      BY <1>3, <1>8, <2>3
    <3>2. PICK nm \in {0, tw - 1} : nm = (tw - 1) - m /\ m = (tw - 1) - nm
      BY <3>1
    <3>3. Selection!|(Selection!&(nm, x), Selection!&((tw - 1) - nm, y))
            = IF nm = 0 THEN y ELSE x
      BY <2>4, <1>blend
    <3>4. QED
      BY <3>1, <3>2, <3>3
  <2>6. chosen' = <<IF v1 = v2 THEN y ELSE x>>
    BY <1>8, <2>2, <2>3, <2>5
  <2>7. QED
    BY <1>14, <2>6 DEF Selection!Branch
<1>15. ASSUME use = "count"
       PROVE  chosen' = Selection!Branch
  <2>1. chosen' = <<Selection!&(1 - x, res)>> /\ res = IF v1 < v2 THEN 1 ELSE 0
    BY <1>1, <1>15 DEF Selection!Select, Selection!CountUp, Compares
  <2>2. x \in {0, 1} /\ 1 \in 0..tl-1 /\ 1 < 2 /\ 1 - 0 = 1 /\ 1 - 1 = 0
    BY <1>3, <1>15 DEF SelectInv
  <2>3. chosen' = <<IF v1 < v2 /\ x = 0 THEN 1 ELSE 0>>
    <3>1. CASE x = 0 /\ v1 < v2
      BY <1>6, <2>1, <2>2, <3>1, Zenon
    <3>2. CASE x = 0 /\ ~(v1 < v2)
      BY <1>6, <2>1, <2>2, <3>2, Zenon
    <3>3. CASE x = 1
      <4>1. res \in 0..tl-1 /\ x # 0
        BY <1>3, <2>1, <2>2, <3>3
      <4>2. Selection!&(0, res) = 0
        BY <1>6, <4>1
      <4>3. QED
        BY <2>1, <2>2, <3>3, <4>1, <4>2, Zenon
    <3>4. QED
      BY <2>2, <3>1, <3>2, <3>3
  <2>4. QED
    BY <1>15, <2>3 DEF Selection!Branch
<1>16. ASSUME use = "window"
       PROVE  chosen' = Selection!Branch
  <2>1. chosen' = <<Selection!&(x, res)>> /\ res = IF v1 = v2 THEN tl - 1 ELSE 0
    BY <1>1, <1>2, <1>16 DEF Selection!Select, Selection!Window, Compares
  <2>2. chosen' = <<IF v1 = v2 THEN x ELSE 0>>
    BY <1>5, <1>6, <2>1
  <2>3. QED
    BY <1>16, <2>2 DEF Selection!Branch
<1>17. chosen' = Selection!Branch
  BY <1>9, <1>10, <1>11, <1>12, <1>13, <1>14, <1>15, <1>16
     DEF SelectInv, Selection!Uses
<1>18. Selection!Branch' = Selection!Branch
  BY <1>1 DEF Selection!Branch
<1>19. SelectsAsBranch'
  BY <1>17, <1>18 DEF SelectsAsBranch, Selection!SelectsAsBranch
<1>20. QED
  BY <1>1, <1>19 DEF SelectInv

(* Instead of a branch, masks: for every width of the types, on each kind  *)
(* of CPU and at each place where a comparison is made, the value chosen   *)
(* is the one a branch on the comparison would have taken.                 *)
THEOREM Selects ==
  ASSUME Selection!SelectAssumption
  PROVE  Selection!Spec => []SelectsAsBranch
<1>1. Selection!Init => SelectInv
  BY DEF Selection!Init, SelectInv, SelectsAsBranch, Selection!SelectsAsBranch
<1>2. SelectInv /\ [Selection!Next]_selVars => SelectInv'
  <2>1. SUFFICES ASSUME SelectInv, [Selection!Next]_selVars
                 PROVE  SelectInv'
    OBVIOUS
  <2>2. CASE Selection!Compare
    BY <2>1, <2>2, CompareInv
  <2>3. CASE Selection!Select
    BY <2>1, <2>3, SelectStepInv
  <2>4. CASE UNCHANGED selVars
    <3>1. /\ cpu' = cpu /\ use' = use /\ v1' = v1 /\ v2' = v2 /\ x' = x /\ y' = y
          /\ res' = res /\ chosen' = chosen /\ selPc' = selPc
      BY <2>4 DEF selVars
    <3>2. Selection!Branch' = Selection!Branch
      BY <3>1 DEF Selection!Branch
    <3>3. SelectsAsBranch'
      BY <2>1, <3>1, <3>2 DEF SelectInv, SelectsAsBranch, Selection!SelectsAsBranch
    <3>4. QED
      BY <2>1, <3>1, <3>3 DEF SelectInv, Compares
  <2>5. QED
    BY <2>1, <2>2, <2>3, <2>4 DEF Selection!Next
<1>3. SelectInv => SelectsAsBranch
  BY DEF SelectInv
<1>4. QED
  BY <1>1, <1>2, <1>3, PTL DEF Selection!Spec, Selection!vars, selVars
=============================================================================
