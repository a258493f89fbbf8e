---------------------------- MODULE Samplers_proof ----------------------------
(***************************************************************************)
(* The samplers of sparse vectors: each returns distinct indices below its *)
(* bound, for every number of indices, bound and range of a word; and over *)
(* all words Fisher-Yates spreads evenly over the sets of indices.         *)
(***************************************************************************)
EXTENDS MCSampling, Sequences, FiniteSetTheorems, WellFoundedInduction, TLAPS

(***************************************************************************)
(* sample_indices_fisher_yates, of FisherYates.                            *)
(***************************************************************************)

(* The inductive invariant.  AtLeastPosition is the heart of it: it is why *)
(* index i is free when position i is reached.                             *)
FilledInv ==
  \A j \in Filled : out[j] \in Indices

CountInv ==
  /\ IsFiniteSet(Chosen)
  /\ Cardinality(Chosen) = NumIndices - todo

LoopInv ==
  /\ pc = "sampling" => todo > 0
  /\ pc = "done" => todo = 0

IInv == TypeOK /\ FilledInv /\ PositionStillFree /\ CountInv /\ LoopInv

USE FisherYatesAssumption

(* The scaling by multiplication and shift never reaches the bound. *)
LEMMA ScaledInRange ==
  ASSUME NEW top \in Nat, NEW words \in Nat \ {0}, NEW p \in Nat, p < top,
         NEW rand \in 0..words-1
  PROVE  Scaled(top, words, p, rand) \in p..top-1
<1> DEFINE width == top - p
<1> DEFINE quotient == (rand * width) \div words
<1>1. width \in Nat \ {0}
  OBVIOUS
<1> HIDE DEF width
<1>2. rand * width \in Nat /\ rand * width <= (words - 1) * width
  BY <1>1
<1>3. (words - 1) * width < words * width
  BY <1>1
<1>4. /\ quotient \in Int
      /\ words * quotient <= rand * width
      /\ rand * width < words * quotient + words
  BY <1>1
<1> HIDE DEF quotient
<1>5. quotient >= 0
  BY <1>2, <1>4
<1>6. quotient < width
  BY <1>1, <1>2, <1>3, <1>4
<1>7. Scaled(top, words, p, rand) = p + quotient
  BY DEF Scaled, quotient, width
<1>8. QED
  BY <1>4, <1>5, <1>6, <1>7 DEF width

(* Whatever word is drawn, position i gets a new index, at least i. *)
LEMMA SelectedIsNew ==
  ASSUME NEW top \in Nat, NEW words \in Nat \ {0}, NEW p \in Nat, p < top,
         NEW rand \in 0..words-1,
         NEW used, p \notin used
  PROVE  /\ Selected(top, words, p, used, rand) \in p..top-1
         /\ Selected(top, words, p, used, rand) \notin used
<1>1. Scaled(top, words, p, rand) \in p..top-1
  BY ScaledInRange
<1>2. p \in p..top-1
  OBVIOUS
<1>3. QED
  BY <1>1, <1>2 DEF Selected

LEMMA InitIInv == Init => IInv
<1>1. SUFFICES ASSUME Init
               PROVE  IInv
  OBVIOUS
<1>2. Filled = {} /\ Chosen = {}
  BY <1>1 DEF Init, Filled, Chosen
<1>3. QED
  BY <1>1, <1>2, FS_EmptySet
  DEF Init, IInv, TypeOK, FilledInv, PositionStillFree, CountInv, LoopInv

(* What one round does to the set of indices drawn. *)
LEMMA DrawStep ==
  ASSUME IInv, NEW rand \in 0..RandRange-1, Draw(rand)
  PROVE  \E x \in (todo-1)..MaxIdxVal-1 :
           /\ x \notin Chosen
           /\ out' = [out EXCEPT ![todo-1] = x]
           /\ Chosen' = Chosen \cup {x}
           /\ todo - 1 \in Positions
<1> DEFINE x == Selected(MaxIdxVal, RandRange, todo - 1, Chosen, rand)
<1>1. todo - 1 \in Positions /\ todo - 1 < MaxIdxVal /\ todo - 1 \in Nat
  BY DEF IInv, TypeOK, LoopInv, Draw, Positions
<1>2. todo - 1 \notin Chosen
  BY <1>1
  DEF IInv, PositionStillFree, Chosen, Filled, TypeOK, FilledInv, Indices
<1>3. x \in (todo-1)..MaxIdxVal-1 /\ x \notin Chosen
  BY <1>1, <1>2, SelectedIsNew
<1>4. out' = [out EXCEPT ![todo-1] = x] /\ todo' = todo - 1
  BY DEF Draw
<1> HIDE DEF x
<1>5. Filled' = Filled \cup {todo - 1} /\ todo - 1 \notin Filled
  BY <1>1, <1>4 DEF Filled, Positions, IInv, TypeOK
<1>6. out'[todo-1] = x /\ \A j \in Filled : out'[j] = out[j]
  BY <1>1, <1>4, <1>5 DEF IInv, TypeOK, Filled, Positions
<1>7. Chosen' = Chosen \cup {x}
  BY <1>5, <1>6 DEF Chosen
<1>8. QED
  BY <1>1, <1>3, <1>4, <1>7

LEMMA DrawIInv ==
  ASSUME IInv, NEW rand \in 0..RandRange-1, Draw(rand)
  PROVE  IInv'
<1>1. PICK x \in (todo-1)..MaxIdxVal-1 :
         /\ x \notin Chosen
         /\ out' = [out EXCEPT ![todo-1] = x]
         /\ Chosen' = Chosen \cup {x}
         /\ todo - 1 \in Positions
  BY DrawStep
<1>2. /\ todo' = todo - 1 /\ todo \in Nat /\ todo > 0
      /\ pc' = IF todo = 1 THEN "done" ELSE "sampling"
  BY DEF Draw, IInv, TypeOK, LoopInv
<1>3. x \in Indices
  BY <1>1, <1>2 DEF Indices
<1>4. TypeOK'
  BY <1>1, <1>2, <1>3 DEF IInv, TypeOK
<1>5. /\ out'[todo-1] = x
      /\ \A j \in Filled : j \in Positions /\ out'[j] = out[j]
      /\ Filled' = Filled \cup {todo - 1}
  BY <1>1, <1>2 DEF IInv, TypeOK, Filled, Positions
<1>6. FilledInv'
  BY <1>3, <1>5 DEF IInv, FilledInv
<1>7. PositionStillFree'
  BY <1>1, <1>5 DEF IInv, PositionStillFree
<1>8. CountInv'
  BY <1>1, <1>2, FS_AddElement DEF IInv, CountInv, TypeOK
<1>9. LoopInv'
  BY <1>2 DEF LoopInv
<1>10. QED
  BY <1>4, <1>6, <1>7, <1>8, <1>9 DEF IInv

LEMMA NextIInv ==
  ASSUME IInv, [Next]_vars
  PROVE  IInv'
<1>1. ASSUME NEW rand \in 0..RandRange-1, Draw(rand)
      PROVE  IInv'
  BY <1>1, DrawIInv
<1>2. ASSUME PrfFails \/ UNCHANGED vars
      PROVE  IInv'
  <2>1. UNCHANGED <<todo, out>> /\ pc' \in {pc, "failed"}
    BY <1>2 DEF PrfFails, vars
  <2>2. Filled' = Filled /\ Chosen' = Chosen
    BY <2>1 DEF Filled, Chosen
  <2>3. QED
    BY <2>1, <2>2
    DEF IInv, TypeOK, FilledInv, PositionStillFree, CountInv, LoopInv
<1>3. QED
  BY <1>1, <1>2 DEF Next

THEOREM Inductive == Spec => []IInv
<1>1. Init => IInv
  BY InitIInv
<1>2. IInv /\ [Next]_vars => IInv'
  BY NextIInv
<1>3. QED
  BY <1>1, <1>2, PTL DEF Spec

(* Types, and that the loop never leaves the caller's array. *)
THEOREM TypeCorrect == Spec => []TypeOK
<1>1. IInv => TypeOK
  BY DEF IInv
<1>2. QED
  BY <1>1, Inductive, PTL

(* A position never holds an index below itself. *)
THEOREM StillFree == Spec => []PositionStillFree
<1>1. IInv => PositionStillFree
  BY DEF IInv
<1>2. QED
  BY <1>1, Inductive, PTL

(* SUCCESS means NumIndices distinct indices below MaxIdxVal: the weight   *)
(* of key halves and errors is exact, whatever the random words were.      *)
THEOREM Weight == Spec => []ExactWeight
<1>1. IInv => ExactWeight
  <2>1. SUFFICES ASSUME IInv, pc = "done"
                 PROVE  /\ Range(out) \subseteq Indices
                        /\ Cardinality(Range(out)) = NumIndices
    BY DEF ExactWeight
  <2>2. todo = 0 /\ Filled = Positions
    BY <2>1 DEF IInv, LoopInv, Filled, Positions
  <2>3. Range(out) = Chosen
    BY <2>1, <2>2 DEF Range, Chosen, IInv, TypeOK
  <2>4. Chosen \subseteq Indices
    BY <2>1 DEF IInv, FilledInv, Chosen
  <2>5. Cardinality(Chosen) = NumIndices
    BY <2>1, <2>2 DEF IInv, CountInv
  <2>6. QED
    BY <2>3, <2>4, <2>5
<1>2. QED
  BY <1>1, Inductive, PTL

(* DistinctSample reaches the library's Cardinality by another path. *)
LEMMA SameCardinality ==
  ASSUME NEW S
  PROVE  Sample!Cardinality(S) = Cardinality(S)
BY DEF Cardinality, Sample!Cardinality

(* The loop implements DistinctSample. *)
THEOREM Refinement == Spec => RefinesSample
<1>1. Init => Sample!Init
  BY DEF Init, Sample!Init, Chosen, Filled
<1>2. IInv /\ IInv' /\ [Next]_vars => [Sample!Next]_(Sample!vars)
  <2>1. SUFFICES ASSUME IInv, IInv', [Next]_vars
                 PROVE  [Sample!Next]_(Sample!vars)
    OBVIOUS
  <2>2. ASSUME NEW rand \in 0..RandRange-1, Draw(rand)
        PROVE  Sample!Next
    <3>1. PICK x \in (todo-1)..MaxIdxVal-1 :
             x \notin Chosen /\ Chosen' = Chosen \cup {x}
      BY <2>1, <2>2, DrawStep
    <3>2. /\ pc = "sampling"
          /\ pc' = IF todo = 1 THEN "done" ELSE "sampling"
          /\ todo' = todo - 1 /\ todo \in Nat /\ todo > 0
      BY <2>1, <2>2 DEF Draw, IInv, TypeOK, LoopInv
    <3>3. Cardinality(Chosen') = NumIndices <=> todo = 1
      BY <2>1, <3>2 DEF IInv, CountInv, TypeOK
    <3>4. x \in 0..MaxIdxVal-1
      BY <3>2
    <3>5. pc' = IF Cardinality(Chosen') = NumIndices THEN "done" ELSE "sampling"
      BY <3>2, <3>3
    <3>6. Sample!Pick(x)
      BY <3>1, <3>2, <3>5, SameCardinality DEF Sample!Pick
    <3>7. QED
      BY <3>4, <3>6 DEF Sample!Next, Sample!Pick
  <2>3. ASSUME PrfFails
        PROVE  Sample!Fail
    BY <2>3 DEF PrfFails, Sample!Fail, Chosen, Filled
  <2>4. CASE UNCHANGED vars
    BY <2>4 DEF vars, Sample!vars, Chosen, Filled
  <2>5. QED
    BY <2>1, <2>2, <2>3, <2>4 DEF Next, Sample!Next
<1>3. QED
  BY <1>1, <1>2, Inductive, PTL DEF Spec, RefinesSample, Sample!Spec
(***************************************************************************)
(* generate_indices_mod_z, of RejectionSample.                             *)
(***************************************************************************)

(* The inductive invariant: ctr counts the different indices kept, and the *)
(* loop goes on only while there is room for one more.                     *)
RejectionTypeInv ==
  /\ rejOut \in [Rejection!Positions -> Int]
  /\ rejCtr \in Nat
  /\ rejCtr <= KeyNum

RejectionCountInv ==
  /\ IsFiniteSet(Rejection!Kept)
  /\ Cardinality(Rejection!Kept) = rejCtr

RejectionLoopInv == rejPc = "sampling" => rejCtr < KeyNum

RejectionIInv == RejectionTypeInv /\ RejectionCountInv /\ RejectionLoopInv

LEMMA RejectionInitIInv ==
  ASSUME Rejection!RejectionAssumption, Rejection!Init
  PROVE  RejectionIInv
<1>1. Rejection!Kept = {}
  BY DEF Rejection!Init, Rejection!Kept
<1>2. rejOut \in [Rejection!Positions -> Int]
  BY DEF Rejection!Init, Rejection!Unset
<1>3. QED
  BY <1>1, <1>2, FS_EmptySet
  DEF Rejection!Init, RejectionIInv, RejectionTypeInv, RejectionCountInv,
      RejectionLoopInv, Rejection!RejectionAssumption

(* A word is a natural number, whatever the mask is. *)
LEMMA RejectionWordIsNat ==
  ASSUME NEW idx \in Rejection!MaskedWords
  PROVE  idx \in Nat
<1> DEFINE top == 2^Rejection!BitScanReverse(Z)
<1>1. idx \in 0 .. top - 1
  BY DEF Rejection!MaskedWords
<1> HIDE DEF top
<1>2. QED
  BY <1>1

(* One word adds itself to the indices kept, or leaves them alone although *)
(* it is written behind them.                                              *)
LEMMA RejectionDrawStep ==
  ASSUME Rejection!RejectionAssumption, RejectionIInv, NEW idx \in Nat,
         Rejection!Draw(idx)
  PROVE  /\ RejectionIInv'
         /\ \/ /\ idx \in 0..Z-1 /\ idx \notin Rejection!Kept
               /\ Rejection!Kept' = Rejection!Kept \cup {idx}
               /\ rejPc' = IF Cardinality(Rejection!Kept') = KeyNum
                        THEN "done" ELSE "sampling"
            \/ Rejection!Kept' = Rejection!Kept /\ rejPc' = rejPc
<1>1. /\ rejCtr \in Rejection!Positions /\ rejCtr \in Nat
      /\ KeyNum \in Nat /\ Z \in Nat
      /\ rejPc = "sampling" /\ rejCtr < KeyNum
  BY DEF Rejection!Draw, RejectionIInv, RejectionTypeInv, RejectionLoopInv,
         Rejection!Positions, Rejection!RejectionAssumption
<1>2. /\ rejOut' \in [Rejection!Positions -> Int]
      /\ rejOut'[rejCtr] = idx
      /\ \A j \in 0..rejCtr-1 : rejOut'[j] = rejOut[j]
  BY <1>1
  DEF Rejection!Draw, RejectionIInv, RejectionTypeInv, Rejection!Positions
<1>3. idx \notin Rejection!Kept <=> Rejection!IsNew(idx)
  BY DEF Rejection!Kept, Rejection!IsNew
<1>4. CASE idx < Z /\ Rejection!IsNew(idx)
  <2>1. /\ rejCtr' = rejCtr + 1
        /\ rejPc' = IF rejCtr + 1 < KeyNum THEN "sampling" ELSE "done"
    BY <1>4 DEF Rejection!Draw
  <2>2. 0 .. rejCtr' - 1 = (0 .. rejCtr - 1) \cup {rejCtr}
    BY <1>1, <2>1
  <2>3. Rejection!Kept' = Rejection!Kept \cup {idx}
    BY <1>2, <2>2 DEF Rejection!Kept
  <2>4. /\ IsFiniteSet(Rejection!Kept')
        /\ Cardinality(Rejection!Kept') = rejCtr + 1
    BY <1>1, <1>3, <1>4, <2>3, FS_AddElement
    DEF RejectionIInv, RejectionCountInv
  <2>5. RejectionIInv'
    BY <1>1, <1>2, <2>1, <2>4
    DEF RejectionIInv, RejectionTypeInv, RejectionCountInv, RejectionLoopInv
  <2>6. QED
    BY <1>1, <1>3, <1>4, <2>1, <2>3, <2>4, <2>5
<1>5. CASE ~(idx < Z /\ Rejection!IsNew(idx))
  <2>1. rejCtr' = rejCtr /\ rejPc' = "sampling"
    BY <1>1, <1>5 DEF Rejection!Draw
  <2>2. Rejection!Kept' = Rejection!Kept
    BY <1>2, <2>1 DEF Rejection!Kept
  <2>3. RejectionIInv'
    BY <1>1, <1>2, <2>1, <2>2
    DEF RejectionIInv, RejectionTypeInv, RejectionCountInv, RejectionLoopInv
  <2>4. QED
    BY <1>1, <2>1, <2>2, <2>3
<1>6. QED
  BY <1>4, <1>5

LEMMA RejectionOtherStep ==
  ASSUME RejectionIInv, Rejection!PrfFails \/ UNCHANGED Rejection!vars
  PROVE  RejectionIInv' /\ Rejection!Kept' = Rejection!Kept
<1>1. UNCHANGED <<rejOut, rejCtr>> /\ rejPc' \in {rejPc, "failed"}
  BY DEF Rejection!PrfFails, Rejection!vars
<1>2. Rejection!Kept' = Rejection!Kept
  BY <1>1 DEF Rejection!Kept
<1>3. QED
  BY <1>1, <1>2
  DEF RejectionIInv, RejectionTypeInv, RejectionCountInv, RejectionLoopInv

LEMMA RejectionNextIInv ==
  ASSUME Rejection!RejectionAssumption, RejectionIInv,
         [Rejection!Next]_(Rejection!vars)
  PROVE  RejectionIInv'
<1>1. ASSUME NEW idx \in Rejection!MaskedWords, Rejection!Draw(idx)
      PROVE  RejectionIInv'
  BY <1>1, RejectionWordIsNat, RejectionDrawStep
<1>2. QED
  BY <1>1, RejectionOtherStep DEF Rejection!Next

(* ctr is the number of different indices kept, in every reachable state. *)
THEOREM RejectionInductive ==
  ASSUME Rejection!RejectionAssumption
  PROVE  Rejection!Spec => []RejectionIInv
<1>1. Rejection!Init => RejectionIInv
  BY RejectionInitIInv
<1>2. RejectionIInv /\ [Rejection!Next]_(Rejection!vars) => RejectionIInv'
  BY RejectionNextIInv
<1>3. QED
  BY <1>1, <1>2, PTL DEF Rejection!Spec

(* DistinctSample reaches the library's Cardinality by another path. *)
LEMMA RejectionSameCardinality ==
  ASSUME NEW S
  PROVE  Rejection!Sample!Cardinality(S) = Cardinality(S)
BY DEF Cardinality, Rejection!Sample!Cardinality

LEMMA RejectionStepRefines ==
  ASSUME Rejection!RejectionAssumption, RejectionIInv,
         [Rejection!Next]_(Rejection!vars)
  PROVE  [Rejection!Sample!Next]_(Rejection!Sample!vars)
<1>1. ASSUME NEW idx \in Rejection!MaskedWords, Rejection!Draw(idx)
      PROVE  Rejection!Sample!Next \/ UNCHANGED Rejection!Sample!vars
  <2>1. idx \in Nat /\ rejPc = "sampling"
    BY <1>1, RejectionWordIsNat DEF Rejection!Draw
  <2>2. CASE Rejection!Kept' = Rejection!Kept /\ rejPc' = rejPc
    BY <2>2 DEF Rejection!Sample!vars
  <2>3. CASE /\ idx \in 0..Z-1 /\ idx \notin Rejection!Kept
             /\ Rejection!Kept' = Rejection!Kept \cup {idx}
             /\ rejPc' = IF Cardinality(Rejection!Kept') = KeyNum
                      THEN "done" ELSE "sampling"
    <3>1. Rejection!Sample!Pick(idx)
      BY <2>1, <2>3, RejectionSameCardinality DEF Rejection!Sample!Pick
    <3>2. QED
      BY <2>3, <3>1 DEF Rejection!Sample!Next
  <2>4. QED
    BY <1>1, <2>1, <2>2, <2>3, RejectionDrawStep
<1>2. ASSUME Rejection!PrfFails
      PROVE  Rejection!Sample!Fail
  BY <1>2, RejectionOtherStep DEF Rejection!PrfFails, Rejection!Sample!Fail
<1>3. ASSUME UNCHANGED Rejection!vars
      PROVE  UNCHANGED Rejection!Sample!vars
  BY <1>3, RejectionOtherStep DEF Rejection!vars, Rejection!Sample!vars
<1>4. QED
  BY <1>1, <1>2, <1>3 DEF Rejection!Next, Rejection!Sample!Next

(* The rejection loop implements DistinctSample: a word that is rejected   *)
(* changes nothing, one that is kept is new and below Z, and SUCCESS comes *)
(* with the last of NumIndices different indices.                          *)
THEOREM RejectionRefinement ==
  ASSUME Rejection!RejectionAssumption
  PROVE  Rejection!Spec => RejectionRefines
<1>1. Rejection!Init => Rejection!Sample!Init
  BY DEF Rejection!Init, Rejection!Sample!Init, Rejection!Kept
<1>2. RejectionIInv /\ [Rejection!Next]_(Rejection!vars)
        => [Rejection!Sample!Next]_(Rejection!Sample!vars)
  BY RejectionStepRefines
<1>3. QED
  BY <1>1, <1>2, RejectionInductive, PTL
  DEF Rejection!Spec, RejectionRefines, Rejection!RejectionRefines,
      Rejection!Sample!Spec
(***************************************************************************)
(* The constant-time sampler of the error, of ConstTimeSample.             *)
(***************************************************************************)

ConstTimeTypeInv ==
  /\ wlist \in [ConstTime!Positions -> Int]
  /\ ctr \in Nat
  /\ seen \in Seq(Int)

ConstTimeInSeen(idx) == \E k \in 1..Len(seen) : seen[k] = idx

(* Up to the end of the list ctr is the number of words in seen and both   *)
(* hold the same; beyond it the list is full of the first of them.         *)
ConstTimeKeptInv ==
  /\ ctr <= Width => ctr = Len(seen)
  /\ Len(seen) < Width => ctr <= Width
  /\ \A j \in ConstTime!Positions :
       j < ctr => j < Len(seen) /\ wlist[j] = seen[j + 1]

(* What stands behind them is not valid or in seen: this is why comparing  *)
(* a word with all of the list takes no new one for a duplicate.           *)
ConstTimeRestInv ==
  \A j \in ConstTime!Positions :
    j >= ctr => ~ConstTime!IsValid(wlist[j]) \/ ConstTimeInSeen(wlist[j])

ConstTimeIInv == ConstTimeTypeInv /\ ConstTimeKeptInv /\ ConstTimeRestInv

LEMMA ConstTimeInitIInv ==
  ASSUME ConstTime!SampleAssumption, ConstTime!Init
  PROVE  ConstTimeIInv
<1>1. /\ wlist = [j \in ConstTime!Positions |-> WordRange]
      /\ ctr = 0 /\ seen = <<>>
      /\ WordRange \in Nat /\ Bound \in Nat /\ Bound <= WordRange
      /\ Width \in Nat
  BY DEF ConstTime!Init, ConstTime!Invalid, ConstTime!SampleAssumption
<1>2. ConstTimeTypeInv
  BY <1>1 DEF ConstTimeTypeInv
<1>3. ConstTimeKeptInv
  BY <1>1 DEF ConstTimeKeptInv, ConstTime!Positions
<1>4. ConstTimeRestInv
  BY <1>1 DEF ConstTimeRestInv, ConstTime!IsValid
<1>5. QED
  BY <1>2, <1>3, <1>4 DEF ConstTimeIInv

(* A valid word is a duplicate, in the list, exactly when it was drawn     *)
(* before, as long as the list is not full.                                *)
LEMMA ConstTimeDupMeansSeen ==
  ASSUME ConstTime!SampleAssumption, ConstTimeIInv, ctr <= Width,
         NEW idx \in ConstTime!Words, ConstTime!IsValid(idx)
  PROVE  ConstTime!IsDup(idx) <=> ConstTimeInSeen(idx)
<1>1. ASSUME ConstTime!IsDup(idx)
      PROVE  ConstTimeInSeen(idx)
  <2>1. PICK j \in ConstTime!Positions : wlist[j] = idx
    BY <1>1 DEF ConstTime!IsDup
  <2>2. CASE j < ctr
    <3>1. j + 1 \in 1..Len(seen) /\ seen[j + 1] = idx
      BY <2>1, <2>2
      DEF ConstTimeIInv, ConstTimeTypeInv, ConstTimeKeptInv, ConstTime!Positions
    <3>2. QED
      BY <3>1 DEF ConstTimeInSeen
  <2>3. CASE j >= ctr
    BY <2>1, <2>3 DEF ConstTimeIInv, ConstTimeRestInv
  <2>4. QED
    BY <2>2, <2>3 DEF ConstTime!Positions, ConstTimeIInv, ConstTimeTypeInv
<1>2. ASSUME ConstTimeInSeen(idx)
      PROVE  ConstTime!IsDup(idx)
  <2>1. PICK k \in 1..Len(seen) : seen[k] = idx
    BY <1>2 DEF ConstTimeInSeen
  <2>2. k - 1 \in ConstTime!Positions /\ k - 1 < ctr
    BY <2>1
    DEF ConstTimeIInv, ConstTimeTypeInv, ConstTimeKeptInv, ConstTime!Positions,
        ConstTime!SampleAssumption
  <2>3. wlist[k - 1] = seen[(k - 1) + 1] /\ (k - 1) + 1 = k
    BY <2>2 DEF ConstTimeIInv, ConstTimeKeptInv
  <2>4. QED
    BY <2>1, <2>2, <2>3 DEF ConstTime!IsDup
<1>3. QED
  BY <1>1, <1>2

(* What a word does to seen. *)
LEMMA ConstTimeSeenStep ==
  ASSUME ConstTimeIInv, NEW idx \in ConstTime!Words, ConstTime!Draw(idx)
  PROVE  seen' = IF ConstTime!IsValid(idx) /\ ~ConstTimeInSeen(idx)
                   THEN Append(seen, idx) ELSE seen
BY DEF ConstTime!Draw, ConstTimeInSeen

LEMMA ConstTimeSeenGrows ==
  ASSUME ConstTimeTypeInv, NEW idx \in Int,
         seen' = seen \/ seen' = Append(seen, idx)
  PROVE  /\ seen' \in Seq(Int)
         /\ Len(seen') >= Len(seen)
         /\ \A k \in 1..Len(seen) : seen'[k] = seen[k]
<1>1. seen \in Seq(Int)
  BY DEF ConstTimeTypeInv
<1>2. QED
  BY <1>1

(* A word while the list is not full: it goes to position ctr in any case. *)
LEMMA ConstTimeDrawInside ==
  ASSUME ConstTime!SampleAssumption, ConstTimeIInv,
         NEW idx \in ConstTime!Words, ConstTime!Draw(idx), ctr < Width
  PROVE  ConstTimeIInv'
<1>1. /\ ctr \in ConstTime!Positions /\ ctr \in Nat
      /\ Width \in Nat /\ idx \in Int
      /\ ctr = Len(seen) /\ seen \in Seq(Int)
  BY DEF ConstTimeIInv, ConstTimeTypeInv, ConstTimeKeptInv,
         ConstTime!Positions, ConstTime!SampleAssumption, ConstTime!Words
<1>2. /\ wlist' \in [ConstTime!Positions -> Int]
      /\ wlist'[ctr] = idx
      /\ \A j \in ConstTime!Positions : j # ctr => wlist'[j] = wlist[j]
  BY <1>1 DEF ConstTime!Draw, ConstTimeIInv, ConstTimeTypeInv
<1>3. /\ seen' = IF ConstTime!IsValid(idx) /\ ~ConstTimeInSeen(idx)
                   THEN Append(seen, idx) ELSE seen
      /\ ctr' = IF ~ConstTime!IsDup(idx) /\ ConstTime!IsValid(idx)
                  THEN ctr + 1 ELSE ctr
      /\ ConstTime!IsValid(idx)
           => (ConstTime!IsDup(idx) <=> ConstTimeInSeen(idx))
  <2>1. ctr' = IF ~ConstTime!IsDup(idx) /\ ConstTime!IsValid(idx)
                 THEN ctr + 1 ELSE ctr
    BY DEF ConstTime!Draw
  <2>2. QED
    BY <1>1, <2>1, ConstTimeSeenStep, ConstTimeDupMeansSeen
<1>4. \A j \in ConstTime!Positions : j < ctr => wlist[j] = seen[j + 1]
  BY DEF ConstTimeIInv, ConstTimeKeptInv
<1>5. CASE ConstTime!IsValid(idx) /\ ~ConstTimeInSeen(idx)
  <2>1. seen' = Append(seen, idx) /\ ctr' = ctr + 1
    BY <1>3, <1>5
  <2>2. /\ seen' \in Seq(Int) /\ Len(seen') = ctr + 1 /\ seen'[ctr + 1] = idx
        /\ \A k \in 1..ctr : seen'[k] = seen[k]
    BY <1>1, <2>1
  <2>3. ASSUME NEW j \in ConstTime!Positions, j < ctr'
        PROVE  j < Len(seen') /\ wlist'[j] = seen'[j + 1]
    <3>1. CASE j = ctr
      BY <1>1, <1>2, <2>1, <2>2, <3>1
    <3>2. CASE j < ctr
      <4>1. j + 1 \in 1..ctr
        BY <1>1, <3>2 DEF ConstTime!Positions
      <4>2. j # ctr
        BY <1>1, <3>2
      <4>3. wlist'[j] = wlist[j]
        BY <1>2, <4>2
      <4>4. wlist[j] = seen[j + 1] /\ seen'[j + 1] = seen[j + 1]
        BY <1>4, <2>2, <3>2, <4>1
      <4>5. j < Len(seen')
        BY <1>1, <2>2, <3>2 DEF ConstTime!Positions
      <4>6. QED
        BY <4>3, <4>4, <4>5
    <3>3. QED
      BY <1>1, <2>1, <2>3, <3>1, <3>2 DEF ConstTime!Positions
  <2>4. ConstTimeKeptInv'
    <3>1. /\ ctr' <= Width => ctr' = Len(seen')
          /\ Len(seen') < Width => ctr' <= Width
      BY <1>1, <2>1, <2>2
    <3>2. QED
      BY <2>3, <3>1 DEF ConstTimeKeptInv, ConstTime!Positions
  <2>5. ASSUME NEW j \in ConstTime!Positions, j >= ctr'
        PROVE  (~ConstTime!IsValid(wlist[j]) \/ ConstTimeInSeen(wlist[j]))'
    <3>1. wlist'[j] = wlist[j] /\ j >= ctr
      BY <1>1, <1>2, <2>1, <2>5 DEF ConstTime!Positions
    <3>2. ~ConstTime!IsValid(wlist[j]) \/ ConstTimeInSeen(wlist[j])
      BY <3>1 DEF ConstTimeIInv, ConstTimeRestInv
    <3>3. ConstTime!IsValid(wlist[j])' <=> ConstTime!IsValid(wlist[j])
      BY <3>1 DEF ConstTime!IsValid
    <3>4. ASSUME ConstTimeInSeen(wlist[j])
          PROVE  ConstTimeInSeen(wlist[j])'
      <4>1. PICK k \in 1..Len(seen) : seen[k] = wlist[j]
        BY <3>4 DEF ConstTimeInSeen
      <4>2. k \in 1..Len(seen') /\ seen'[k] = wlist'[j]
        BY <1>1, <2>2, <3>1, <4>1
      <4>3. QED
        BY <4>2 DEF ConstTimeInSeen
    <3>5. QED
      BY <3>2, <3>3, <3>4
  <2>6. ConstTimeRestInv'
    BY <2>5 DEF ConstTimeRestInv, ConstTime!Positions
  <2>7. QED
    BY <1>1, <1>2, <2>1, <2>2, <2>4, <2>6 DEF ConstTimeIInv, ConstTimeTypeInv
<1>6. CASE ~(ConstTime!IsValid(idx) /\ ~ConstTimeInSeen(idx))
  <2>1. seen' = seen /\ ctr' = ctr
    BY <1>3, <1>6
  <2>2. ConstTimeKeptInv'
    <3>1. \A j \in ConstTime!Positions : j < ctr => wlist'[j] = wlist[j]
      BY <1>1, <1>2 DEF ConstTime!Positions
    <3>2. QED
      BY <2>1, <3>1 DEF ConstTimeIInv, ConstTimeKeptInv, ConstTime!Positions
  <2>3. ASSUME NEW j \in ConstTime!Positions, j >= ctr
        PROVE  (~ConstTime!IsValid(wlist[j]) \/ ConstTimeInSeen(wlist[j]))'
    <3>1. CASE j = ctr
      BY <1>2, <1>6, <2>1, <3>1 DEF ConstTime!IsValid, ConstTimeInSeen
    <3>2. CASE j # ctr
      <4>1. ~ConstTime!IsValid(wlist[j]) \/ ConstTimeInSeen(wlist[j])
        BY <2>3 DEF ConstTimeIInv, ConstTimeRestInv
      <4>2. wlist'[j] = wlist[j]
        BY <1>2, <3>2
      <4>3. QED
        BY <2>1, <4>1, <4>2 DEF ConstTime!IsValid, ConstTimeInSeen
    <3>3. QED
      BY <3>1, <3>2
  <2>4. ConstTimeRestInv'
    BY <2>1, <2>3 DEF ConstTimeRestInv, ConstTime!Positions
  <2>5. QED
    BY <1>2, <2>1, <2>2, <2>4 DEF ConstTimeIInv, ConstTimeTypeInv
<1>7. QED
  BY <1>5, <1>6

(* A word once the list is full: nothing is written any more. *)
LEMMA ConstTimeDrawBeyond ==
  ASSUME ConstTime!SampleAssumption, ConstTimeIInv,
         NEW idx \in ConstTime!Words, ConstTime!Draw(idx), ctr >= Width
  PROVE  ConstTimeIInv'
<1>1. /\ Width \in Nat /\ ctr \in Nat /\ idx \in Int /\ seen \in Seq(Int)
      /\ Width <= Len(seen)
  BY DEF ConstTimeIInv, ConstTimeTypeInv, ConstTimeKeptInv,
         ConstTime!SampleAssumption, ConstTime!Words
<1>2. wlist' = wlist
  BY <1>1
  DEF ConstTime!Draw, ConstTimeIInv, ConstTimeTypeInv, ConstTime!Positions
<1>3. /\ seen' \in Seq(Int) /\ Len(seen') >= Len(seen)
      /\ \A k \in 1..Len(seen) : seen'[k] = seen[k]
  BY <1>1, ConstTimeSeenStep, ConstTimeSeenGrows DEF ConstTimeIInv
<1>4. ctr' \in {ctr, ctr + 1}
  BY DEF ConstTime!Draw
<1>5. ctr' <= Width => ctr' = Len(seen')
  <2>1. SUFFICES ASSUME ctr' <= Width
                 PROVE  ctr' = Len(seen')
    OBVIOUS
  <2>2. ctr' = ctr /\ ctr = Width
    BY <1>1, <1>4, <2>1
  <2>3. ~(ConstTime!IsValid(idx) /\ ~ConstTimeInSeen(idx))
    BY <1>1, <2>2, ConstTimeDupMeansSeen DEF ConstTime!Draw
  <2>4. seen' = seen
    BY <2>3, ConstTimeSeenStep
  <2>5. QED
    BY <2>2, <2>4 DEF ConstTimeIInv, ConstTimeKeptInv
<1>6. ConstTimeKeptInv'
  BY <1>1, <1>2, <1>3, <1>4, <1>5
  DEF ConstTimeIInv, ConstTimeKeptInv, ConstTime!Positions
<1>7. ConstTimeRestInv'
  BY <1>1, <1>4 DEF ConstTimeRestInv, ConstTime!Positions
<1>8. QED
  BY <1>1, <1>2, <1>3, <1>4, <1>6, <1>7 DEF ConstTimeIInv, ConstTimeTypeInv

LEMMA ConstTimeNextIInv ==
  ASSUME ConstTime!SampleAssumption, ConstTimeIInv,
         [ConstTime!Next]_(ConstTime!vars)
  PROVE  ConstTimeIInv'
<1>1. ASSUME NEW idx \in ConstTime!Words, ConstTime!Draw(idx)
      PROVE  ConstTimeIInv'
  <2>1. ctr < Width \/ ctr >= Width
    BY DEF ConstTimeIInv, ConstTimeTypeInv, ConstTime!SampleAssumption
  <2>2. QED
    BY <1>1, <2>1, ConstTimeDrawInside, ConstTimeDrawBeyond
<1>2. ASSUME ConstTime!PrfFails \/ UNCHANGED ConstTime!vars
      PROVE  ConstTimeIInv'
  <2>1. UNCHANGED <<wlist, ctr, seen>>
    BY <1>2 DEF ConstTime!PrfFails, ConstTime!vars
  <2>2. QED
    BY <2>1
    DEF ConstTimeIInv, ConstTimeTypeInv, ConstTimeKeptInv, ConstTimeRestInv,
        ConstTimeInSeen
<1>3. QED
  BY <1>1, <1>2 DEF ConstTime!Next

(* List, counter and the words drawn agree in every reachable state. *)
THEOREM ConstTimeInductive ==
  ASSUME ConstTime!SampleAssumption
  PROVE  ConstTime!Spec => []ConstTimeIInv
<1>1. ConstTime!Init => ConstTimeIInv
  BY ConstTimeInitIInv
<1>2. ConstTimeIInv /\ [ConstTime!Next]_(ConstTime!vars) => ConstTimeIInv'
  BY ConstTimeNextIInv
<1>3. QED
  BY <1>1, <1>2, PTL DEF ConstTime!Spec

(* The first different valid words are the ones kept, none missed. *)
THEOREM ConstTimeFirstKept ==
  ASSUME ConstTime!SampleAssumption
  PROVE  ConstTime!Spec => []FirstDrawnKept
<1>1. ConstTimeIInv => FirstDrawnKept
  BY DEF ConstTimeIInv, ConstTimeTypeInv, ConstTimeKeptInv,
         FirstDrawnKept, ConstTime!FirstDrawnKept, ConstTime!Min2,
         ConstTime!Positions,
         ConstTime!SampleAssumption
<1>2. QED
  BY <1>1, ConstTimeInductive, PTL

(* A short sample adds no index that was not drawn. *)
THEOREM ConstTimeNoStray ==
  ASSUME ConstTime!SampleAssumption
  PROVE  ConstTime!Spec => []NoStrayIndex
<1>1. ConstTimeIInv => NoStrayIndex
  <2>1. SUFFICES ASSUME ConstTimeIInv, NEW j \in 0..Count-1, j >= Len(seen)
                 PROVE  \/ ~ConstTime!IsValid(wlist[j])
                        \/ ConstTimeInSeen(wlist[j])
    BY DEF NoStrayIndex, ConstTime!NoStrayIndex, ConstTimeInSeen
  <2>2. j \in ConstTime!Positions /\ j < Width
    BY DEF ConstTime!Positions, ConstTime!SampleAssumption
  <2>3. j >= ctr
    BY <2>1, <2>2
    DEF ConstTimeIInv, ConstTimeTypeInv, ConstTimeKeptInv, ConstTime!Positions,
        ConstTime!SampleAssumption
  <2>4. QED
    BY <2>1, <2>2, <2>3 DEF ConstTimeIInv, ConstTimeRestInv
<1>2. QED
  BY <1>1, ConstTimeInductive, PTL
-----------------------------------------------------------------------------
(***************************************************************************)
(* How evenly sample_indices_fisher_yates spreads, of FisherYatesBias.     *)
(***************************************************************************)

(* h sums up g over the subsets of S in the order of MapThenSumSet. *)
Summing(h, g, S) ==
  h = [s \in SUBSET S |->
         IF s = {} THEN 0
         ELSE g[CHOOSE x \in s : TRUE] + h[s \ {CHOOSE x \in s : TRUE}]]

(* Counting up from 0 reaches every number up to n. *)
LEMMA CountingUp ==
  ASSUME NEW n \in Nat, NEW G \in SUBSET (0..n),
         0 \in G, \A k \in G : k < n => k + 1 \in G
  PROVE  n \in G
<1> DEFINE Bad == {x \in SUBSET (0..n) : \E k \in (0..n) \ G : x = 0..k}
<1>1. SUFFICES ASSUME n \notin G
               PROVE  FALSE
  OBVIOUS
<1>2. 0..n \in Bad
  BY <1>1
<1>3. Bad \subseteq FiniteSubsetsOf(0..n)
  BY FS_Interval, FS_Subset DEF FiniteSubsetsOf
<1>4. IsWellFoundedOn(StrictSubsetOrdering(0..n), FiniteSubsetsOf(0..n))
  BY FS_StrictSubsetOrderingWellFounded
<1> HIDE DEF Bad
<1>5. PICK x \in Bad : \A y \in Bad : ~(<<y, x>> \in StrictSubsetOrdering(0..n))
  BY <1>2, <1>3, <1>4, WFMin
<1> USE DEF Bad
<1>6. PICK k \in (0..n) \ G : x = 0..k
  OBVIOUS
<1>7. k - 1 \in (0..n) \ G
  BY <1>6
<1>8. <<0..k-1, x>> \in StrictSubsetOrdering(0..n)
  BY <1>6, <1>7 DEF StrictSubsetOrdering
<1>9. QED
  BY <1>5, <1>7, <1>8

(* There is such a sum: it is right for ever larger subsets. *)
LEMMA SumExists ==
  ASSUME NEW S, IsFiniteSet(S), NEW g \in [S -> Nat]
  PROVE  \E h : Summing(h, g, S)
<1> DEFINE pick(s) == CHOOSE x \in s : TRUE
           Next1(h) == [s \in SUBSET S |-> IF s = {} THEN 0 ELSE g[pick(s)] + h[s \ {pick(s)}]]
           Upto(h, k) == \A s \in SUBSET S : Cardinality(s) <= k => h[s] = Next1(h)[s]
           n == Cardinality(S)
           G == {k \in 0..n : \E h \in [SUBSET S -> Nat] : Upto(h, k)}
<1>1. n \in Nat
  BY FS_CardinalityType
<1>2. \A s \in SUBSET S : IsFiniteSet(s) /\ Cardinality(s) \in 0..n
  BY FS_Subset, FS_CardinalityType
<1>3. \A s \in SUBSET S : s # {} => pick(s) \in s
  OBVIOUS
<1> HIDE DEF n, pick
<1>4. 0 \in G
  <2> DEFINE h == [s \in SUBSET S |-> 0]
  <2>1. h \in [SUBSET S -> Nat]
    OBVIOUS
  <2>2. \A s \in SUBSET S : Cardinality(s) <= 0 => s = {}
    BY <1>1, <1>2, FS_EmptySet
  <2>3. Upto(h, 0)
    <3>1. Next1(h)[{}] = 0 /\ h[{}] = 0
      OBVIOUS
    <3>2. QED
      BY <2>2, <3>1
  <2> HIDE DEF h, Upto
  <2>4. QED
    BY <1>1, <2>1, <2>3
<1>5. ASSUME NEW k \in G, k < n
      PROVE  k + 1 \in G
  <2>1. PICK h \in [SUBSET S -> Nat] : Upto(h, k)
    OBVIOUS
  <2> DEFINE next == Next1(h)
  <2>2. next \in [SUBSET S -> Nat]
    BY <1>3
  <2>3. ASSUME NEW s \in SUBSET S, Cardinality(s) <= k + 1
        PROVE  next[s] = Next1(next)[s]
    <3>1. CASE s = {}
      BY <3>1
    <3>2. CASE s # {}
      <4>1. /\ s \ {pick(s)} \in SUBSET S
            /\ Cardinality(s \ {pick(s)}) = Cardinality(s) - 1
        BY <1>2, <1>3, <3>2, FS_RemoveElement
      <4>2. Cardinality(s \ {pick(s)}) <= k
        BY <1>1, <1>2, <2>3, <4>1
      <4>3. h[s \ {pick(s)}] = next[s \ {pick(s)}]
        BY <2>1, <4>1, <4>2
      <4>4. QED
        BY <3>2, <4>3
    <3>3. QED
      BY <3>1, <3>2
  <2>4. Upto(next, k + 1)
    BY <2>3
  <2> HIDE DEF next, Upto
  <2>5. k + 1 \in 0..n
    BY <1>1, <1>5
  <2>6. QED
    BY <2>2, <2>4, <2>5
<1>6. n \in G
  <2>1. G \in SUBSET (0..n)
    OBVIOUS
  <2> HIDE DEF G
  <2>2. QED
    BY <1>1, <1>4, <1>5, <2>1, CountingUp
<1>7. PICK h \in [SUBSET S -> Nat] : Upto(h, n)
  BY <1>6
<1>8. ASSUME NEW s \in SUBSET S
      PROVE  h[s] = Next1(h)[s]
  <2>1. Cardinality(s) <= n
    BY <1>1, <1>2
  <2>2. QED
    BY <1>7, <2>1
<1>9. h = Next1(h)
  BY <1>8
<1>10. QED
  BY <1>9 DEF Summing, pick

(* If what is summed up is 0 outside V and between low and high inside,    *)
(* the sum is so many times between these.                                 *)
LEMMA SumBetween ==
  ASSUME NEW S, IsFiniteSet(S), NEW g \in [S -> Nat], NEW h, Summing(h, g, S),
         NEW V \in SUBSET S, NEW low \in Nat, NEW high \in Nat,
         \A x \in S : IF x \in V THEN low <= g[x] /\ g[x] <= high ELSE g[x] = 0
  PROVE  /\ h[S] \in Nat
         /\ Cardinality(V) * low <= h[S] /\ h[S] <= Cardinality(V) * high
<1> DEFINE Right(s) ==
             /\ h[s] \in Nat
             /\ Cardinality(V \cap s) * low <= h[s]
             /\ h[s] <= Cardinality(V \cap s) * high
           Bad == {s \in SUBSET S : ~Right(s)}
<1>1. SUFFICES ASSUME Bad # {}
               PROVE  FALSE
  <2>1. CASE Bad = {}
    <3>1. Right(S) /\ V \cap S = V
      BY <2>1
    <3>2. QED
      BY <3>1
  <2>2. QED
    BY <2>1
<1>2. Bad \subseteq FiniteSubsetsOf(S)
  BY FS_Subset DEF FiniteSubsetsOf
<1>3. IsWellFoundedOn(StrictSubsetOrdering(S), FiniteSubsetsOf(S))
  BY FS_StrictSubsetOrderingWellFounded
<1> HIDE DEF Bad
<1>4. PICK s \in Bad : \A y \in Bad : ~(<<y, s>> \in StrictSubsetOrdering(S))
  BY <1>1, <1>2, <1>3, WFMin
<1>5. s \in SUBSET S /\ ~Right(s)
  BY DEF Bad
<1>6. s # {}
  <2>1. SUFFICES ASSUME s = {}
                 PROVE  FALSE
    OBVIOUS
  <2>2. h[{}] = 0
    BY DEF Summing
  <2>3. Cardinality(V \cap s) = 0
    BY <2>1, FS_EmptySet
  <2>4. QED
    BY <1>5, <2>1, <2>2, <2>3
<1>7. PICK x : x = CHOOSE y \in s : TRUE
  OBVIOUS
<1>8. x \in s
  BY <1>6, <1>7
<1> DEFINE rest == s \ {x}
<1>9. h[s] = g[x] + h[rest]
  <2>1. s \in SUBSET S
    BY <1>5
  <2>2. h[s] = IF s = {} THEN 0
               ELSE g[CHOOSE y \in s : TRUE] + h[s \ {CHOOSE y \in s : TRUE}]
    BY <2>1 DEF Summing
  <2>3. QED
    BY <1>6, <1>7, <2>2
<1>10. Right(rest)
  <2>1. rest \in SUBSET S /\ <<rest, s>> \in StrictSubsetOrdering(S)
    BY <1>5, <1>8 DEF StrictSubsetOrdering
  <2>2. rest \notin Bad
    BY <1>4, <2>1
  <2>3. QED
    BY <2>1, <2>2 DEF Bad
<1>11. IsFiniteSet(V \cap s) /\ IsFiniteSet(V \cap rest) /\ Cardinality(V \cap rest) \in Nat
  BY <1>5, FS_Subset, FS_CardinalityType
<1>12. Cardinality(V \cap s) = IF x \in V THEN Cardinality(V \cap rest) + 1
                               ELSE Cardinality(V \cap rest)
  <2>1. CASE x \in V
    <3>1. V \cap s = (V \cap rest) \cup {x} /\ x \notin V \cap rest
      BY <1>8, <2>1
    <3>2. QED
      BY <1>11, <2>1, <3>1, FS_AddElement
  <2>2. CASE x \notin V
    <3>1. V \cap s = V \cap rest
      BY <2>2
    <3>2. QED
      BY <2>2, <3>1
  <2>3. QED
    BY <2>1, <2>2
<1>13. x \in S /\ g[x] \in Nat
  BY <1>5, <1>8
<1> DEFINE m == Cardinality(V \cap rest)
<1>14. m \in Nat /\ m * low <= h[rest] /\ h[rest] <= m * high /\ h[rest] \in Nat
  BY <1>10, <1>11
<1> HIDE DEF m, rest
<1>15. CASE x \in V
  <2>1. low <= g[x] /\ g[x] <= high
    BY <1>13, <1>15
  <2>2. (m + 1) * low = m * low + low /\ (m + 1) * high = m * high + high
    BY <1>14
  <2>3. m * low \in Nat /\ m * high \in Nat
    BY <1>14
  <2>4. (m + 1) * low <= h[s] /\ h[s] <= (m + 1) * high /\ h[s] \in Nat
    BY <1>9, <1>13, <1>14, <2>1, <2>2, <2>3
  <2>5. QED
    BY <1>5, <1>12, <1>15, <2>4 DEF m
<1>16. CASE x \notin V
  <2>1. h[s] = h[rest]
    BY <1>9, <1>13, <1>14, <1>16
  <2>2. QED
    BY <1>5, <1>12, <1>14, <1>16, <2>1 DEF m
<1>17. QED
  BY <1>15, <1>16

(***************************************************************************)
(* The words that are scaled to given values.                              *)
(***************************************************************************)

(* Least quotients: x \div w rounded up. *)
LEMMA RoundedUp ==
  ASSUME NEW x \in Nat, NEW w \in Nat \ {0}, NEW c, c = (x + w - 1) \div w
  PROVE  /\ c \in Nat /\ w * c >= x /\ w * c <= x + w - 1
         /\ \A y \in Int : c <= y <=> x <= w * y
<1>1. c \in Int /\ w * c <= x + w - 1 /\ x + w - 1 < w * c + w
  OBVIOUS
<1>2. c \in Nat
  <2>1. SUFFICES ASSUME c <= -1
                 PROVE  FALSE
    BY <1>1
  <2>2. w * c <= w * (-1)
    BY <1>1, <2>1
  <2>3. QED
    BY <1>1, <2>2
<1>3. w * c \in Int
  BY <1>1
<1>4. ASSUME NEW y \in Int
      PROVE  c <= y <=> x <= w * y
  <2>1. w * y \in Int
    OBVIOUS
  <2>2. c <= y => w * c <= w * y
    BY <1>2
  <2>3. CASE c > y
    <3>1. y + 1 <= c
      BY <1>2, <2>3
    <3>2. w * (y + 1) <= w * c
      BY <1>2, <3>1
    <3>3. w * (y + 1) = w * y + w
      OBVIOUS
    <3>4. QED
      BY <1>1, <1>2, <1>3, <2>1, <2>3, <3>2, <3>3
  <2>4. QED
    BY <1>1, <1>3, <2>1, <2>2, <2>3
<1>5. QED
  BY <1>1, <1>2, <1>3, <1>4

(* The words that a multiplication by w and a division by r bring to k:    *)
(* r \div w of them, rounded down or up.                                   *)
LEMMA WordsToValue ==
  ASSUME NEW r \in Nat \ {0}, NEW w \in Nat \ {0}, NEW k \in 0..w-1
  PROVE  LET W == {rand \in 0..r-1 : (rand * w) \div r = k}
         IN  /\ IsFiniteSet(W)
             /\ r \div w <= Cardinality(W)
             /\ Cardinality(W) <= (r + w - 1) \div w
<1> DEFINE W == {rand \in 0..r-1 : (rand * w) \div r = k}
<1>1. PICK a, b : a = (k * r + w - 1) \div w /\ b = ((k + 1) * r + w - 1) \div w
  OBVIOUS
<1>2. k * r \in Nat /\ (k + 1) * r \in Nat /\ (k + 1) * r = k * r + r
  OBVIOUS
<1>3. /\ a \in Nat /\ w * a >= k * r /\ w * a <= k * r + w - 1
      /\ \A y \in Int : a <= y <=> k * r <= w * y
  BY <1>1, <1>2, RoundedUp
<1>4. /\ b \in Nat /\ w * b >= (k + 1) * r /\ w * b <= (k + 1) * r + w - 1
      /\ \A y \in Int : b <= y <=> (k + 1) * r <= w * y
  BY <1>1, <1>2, RoundedUp
<1>5. b <= r
  <2>1. (k + 1) * r <= w * r
    OBVIOUS
  <2>2. QED
    BY <1>4, <2>1
<1>6. ASSUME NEW rand \in 0..r-1
      PROVE  (rand * w) \div r = k <=> a <= rand /\ ~(b <= rand)
  <2>1. PICK x, q : x = rand * w /\ q = x \div r
    OBVIOUS
  <2>2. x \in Nat /\ w * rand = x
    BY <2>1
  <2>3. q \in Int /\ r * q <= x /\ x < r * q + r
    BY <2>1, <2>2
  <2>4. q = k <=> k * r <= x /\ x < (k + 1) * r
    <3>1. CASE q = k
      BY <1>2, <2>2, <2>3, <3>1
    <3>2. CASE q < k
      <4>1. r * (q + 1) <= r * k
        BY <2>3, <3>2
      <4>2. r * (q + 1) = r * q + r /\ r * k = k * r
        BY <2>3
      <4>3. x < k * r
        BY <1>2, <2>2, <2>3, <4>1, <4>2
      <4>4. QED
        BY <1>2, <2>2, <3>2, <4>3
    <3>3. CASE q > k
      <4>1. r * (k + 1) <= r * q
        BY <2>3, <3>3
      <4>2. r * (k + 1) = (k + 1) * r
        OBVIOUS
      <4>3. (k + 1) * r <= x
        BY <1>2, <2>2, <2>3, <4>1, <4>2
      <4>4. QED
        BY <1>2, <2>2, <3>3, <4>3
    <3>4. QED
      BY <2>3, <3>1, <3>2, <3>3
  <2>5. a <= rand <=> k * r <= x
    BY <1>3, <2>2
  <2>6. b <= rand <=> (k + 1) * r <= x
    BY <1>4, <2>2
  <2>7. QED
    BY <1>2, <2>1, <2>2, <2>4, <2>5, <2>6
<1>7. a <= b
  <2>1. k * r <= w * b
    BY <1>2, <1>4
  <2>2. QED
    BY <1>3, <1>4, <2>1
<1>8. W = a .. b-1
  BY <1>3, <1>4, <1>5, <1>6
<1>9. IsFiniteSet(W) /\ Cardinality(W) = b - a
  <2>1. PICK e : e = b - 1
    OBVIOUS
  <2>2. a \in Int /\ e \in Int /\ W = a..e
    BY <1>3, <1>4, <1>8, <2>1
  <2>3. IsFiniteSet(a..e) /\ Cardinality(a..e) = IF a > e THEN 0 ELSE e - a + 1
    BY ONLY <2>2, FS_Interval
  <2>4. (IF a > e THEN 0 ELSE e - a + 1) = b - a
    BY <1>3, <1>4, <1>7, <2>1
  <2>5. QED
    BY <2>2, <2>3, <2>4
<1>10. PICK q : q = r \div w
  OBVIOUS
<1>11. q \in Int /\ w * q <= r
  BY <1>10
<1>12. q <= b - a
  <2>1. SUFFICES ASSUME b <= a + q - 1
                 PROVE  FALSE
    BY <1>3, <1>4, <1>11
  <2>2. w * b <= w * (a + q - 1)
    BY <1>3, <1>4, <1>11, <2>1
  <2>3. w * (a + q - 1) = w * a + w * q - w
    BY <1>3, <1>11
  <2>4. w * a \in Int /\ w * b \in Int /\ w * q \in Int
    BY <1>3, <1>4, <1>11
  <2>5. QED
    BY <1>2, <1>3, <1>4, <1>11, <2>2, <2>3, <2>4
<1>13. PICK u : u = (r + w - 1) \div w
  OBVIOUS
<1>14. u \in Nat /\ w * u >= r
  BY <1>13, RoundedUp
<1>15. b - a <= u
  <2>1. k * r <= w * a /\ r <= w * u /\ w * (a + u) = w * a + w * u
    BY <1>3, <1>14
  <2>2. w * a \in Int /\ w * u \in Int
    BY <1>3, <1>14
  <2>3. (k + 1) * r <= w * (a + u)
    BY <1>2, <2>1, <2>2
  <2>4. QED
    BY <1>3, <1>4, <1>14, <2>3
<1>16. QED
  BY <1>9, <1>10, <1>12, <1>13, <1>15

LEMMA Quotients ==
  ASSUME NEW r \in Nat \ {0}, NEW w \in Nat \ {0}
  PROVE  r \div w \in Nat /\ (r + w - 1) \div w \in Nat
<1>1. PICK q : q = r \div w
  OBVIOUS
<1>2. q \in Int /\ w * q <= r /\ r < w * q + w
  BY <1>1
<1>3. q >= 0
  <2>1. SUFFICES ASSUME q <= -1
                 PROVE  FALSE
    BY <1>2
  <2>2. w * q <= w * (-1)
    BY <1>2, <2>1
  <2>3. QED
    BY <1>2, <2>2
<1>4. (r + w - 1) \div w \in Nat
  BY RoundedUp
<1>5. QED
  BY <1>1, <1>2, <1>3, <1>4

(* And to the values of V at position p. *)
LEMMA WordsToValues ==
  ASSUME NEW top \in Nat, NEW r \in Nat \ {0}, NEW p \in Nat,
         NEW w \in Nat \ {0}, w = top - p,
         NEW V \in SUBSET (p .. top-1), NEW W \in SUBSET (0..r-1),
         \A rand \in 0..r-1 : rand \in W <=> Scaled(top, r, p, rand) \in V
  PROVE  /\ Cardinality(W) \in Nat
         /\ Cardinality(V) * (r \div w) <= Cardinality(W)
         /\ Cardinality(W) <= Cardinality(V) * ((r + w - 1) \div w)
<1>0. PICK low, high : low = r \div w /\ high = (r + w - 1) \div w
  OBVIOUS
<1> DEFINE Words(U) == {rand \in 0..r-1 : Scaled(top, r, p, rand) \in U}
           Right(U) ==
             /\ Cardinality(U) * low <= Cardinality(Words(U))
             /\ Cardinality(Words(U)) <= Cardinality(U) * high
           S == p .. top-1
           Bad == {U \in SUBSET S : ~Right(U)}
<1>1. \A U : IsFiniteSet(Words(U)) /\ Cardinality(Words(U)) \in Nat
  <2>1. IsFiniteSet(0..r-1)
    BY FS_Interval
  <2>2. QED
    BY <2>1, FS_Subset, FS_CardinalityType
<1>2. IsFiniteSet(S)
  BY FS_Interval
<1>3. low \in Nat /\ high \in Nat
  BY <1>0, Quotients
<1>4. ASSUME NEW v \in S
      PROVE  /\ low <= Cardinality(Words({v})) /\ Cardinality(Words({v})) <= high
  <2>1. PICK k : k = v - p
    OBVIOUS
  <2>2. k \in 0..w-1
    BY <2>1
  <2>4. ASSUME NEW rand \in 0..r-1
        PROVE  Scaled(top, r, p, rand) \in {v} <=> (rand * w) \div r = k
    <3>1. PICK q : q = (rand * w) \div r
      OBVIOUS
    <3>2. q \in Int
      BY <2>2, <3>1
    <3>3. Scaled(top, r, p, rand) = p + q
      BY <2>1, <3>1 DEF Scaled
    <3>4. QED
      BY <2>1, <3>1, <3>2, <3>3
  <2>5. Words({v}) = {rand \in 0..r-1 : (rand * w) \div r = k}
    BY <2>4
  <2>6. QED
    BY <1>0, <2>2, <2>5, WordsToValue
<1>5. SUFFICES ASSUME Bad # {}
               PROVE  FALSE
  <2>1. CASE Bad = {}
    <3>1. Right(V)
      BY <2>1
    <3>2. W = Words(V)
      OBVIOUS
    <3>3. QED
      BY <1>0, <1>1, <3>1, <3>2
  <2>2. QED
    BY <2>1
<1>6. Bad \subseteq FiniteSubsetsOf(S)
  BY <1>2, FS_Subset DEF FiniteSubsetsOf
<1>7. IsWellFoundedOn(StrictSubsetOrdering(S), FiniteSubsetsOf(S))
  BY FS_StrictSubsetOrderingWellFounded
<1> HIDE DEF Bad
<1>8. PICK U \in Bad : \A y \in Bad : ~(<<y, U>> \in StrictSubsetOrdering(S))
  BY <1>5, <1>6, <1>7, WFMin
<1>9. U \in SUBSET S /\ ~Right(U)
  BY DEF Bad
<1>10. U # {}
  <2>1. SUFFICES ASSUME U = {}
                 PROVE  FALSE
    OBVIOUS
  <2>2. Words({}) = {}
    OBVIOUS
  <2>3. Cardinality({}) = 0
    BY FS_EmptySet
  <2>4. 0 * low = 0 /\ 0 * high = 0
    BY ONLY <1>3
  <2>5. Cardinality(Words({})) = 0
    BY <2>2, <2>3, Zenon
  <2>6. Right({})
    BY <2>3, <2>4, <2>5
  <2>7. QED
    BY <1>9, <2>1, <2>6
<1>11. PICK v \in U : TRUE
  BY <1>10
<1> DEFINE rest == U \ {v}
<1>12. Right(rest)
  <2>1. rest \in SUBSET S /\ <<rest, U>> \in StrictSubsetOrdering(S)
    BY <1>9, <1>11 DEF StrictSubsetOrdering
  <2>2. rest \notin Bad
    BY <1>8, <2>1
  <2>3. QED
    BY <2>1, <2>2 DEF Bad
<1>13. /\ IsFiniteSet(rest) /\ Cardinality(rest) \in Nat
       /\ Cardinality(U) = Cardinality(rest) + 1
  <2>1. IsFiniteSet(U)
    BY <1>2, <1>9, FS_Subset
  <2>2. IsFiniteSet(rest) /\ Cardinality(rest) = Cardinality(U) - 1 /\ Cardinality(U) \in Nat
    BY <1>11, <2>1, FS_RemoveElement, FS_CardinalityType
  <2>3. QED
    BY <2>2, FS_CardinalityType
<1>14. Cardinality(Words(U)) = Cardinality(Words(rest)) + Cardinality(Words({v}))
  <2>1. Words(U) = Words(rest) \cup Words({v}) /\ Words(rest) \cap Words({v}) = {}
    BY <1>11
  <2>2. Cardinality(Words(rest) \cap Words({v})) = 0
    BY <2>1, FS_EmptySet
  <2>3. PICK A, B : A = Words(rest) /\ B = Words({v})
    OBVIOUS
  <2> HIDE DEF Words
  <2>4. /\ IsFiniteSet(A) /\ Cardinality(A) \in Nat
        /\ IsFiniteSet(B) /\ Cardinality(B) \in Nat
    BY <1>1, <2>3, Zenon
  <2>5. Cardinality(A \cup B) = Cardinality(A) + Cardinality(B) - Cardinality(A \cap B)
    BY ONLY <2>4, FS_Union
  <2>6. Cardinality(A \cap B) = 0 /\ Cardinality(A \cup B) = Cardinality(Words(U))
    BY <2>1, <2>2, <2>3, Zenon
  <2>7. Cardinality(Words(U)) = Cardinality(A) + Cardinality(B)
    BY ONLY <2>4, <2>5, <2>6
  <2>8. QED
    BY <2>3, <2>7
<1>15. low <= Cardinality(Words({v})) /\ Cardinality(Words({v})) <= high
  BY <1>4, <1>9, <1>11
<1>16. PICK m, x, y : m = Cardinality(rest) /\ x = Cardinality(Words(rest)) /\ y = Cardinality(Words({v}))
  OBVIOUS
<1>17. /\ m \in Nat /\ x \in Nat /\ y \in Nat /\ m * low <= x /\ x <= m * high
       /\ low <= y /\ y <= high
  BY <1>1, <1>12, <1>13, <1>15, <1>16
<1>18. (m + 1) * low <= x + y /\ x + y <= (m + 1) * high
  <2>1. (m + 1) * low = m * low + low /\ (m + 1) * high = m * high + high
    BY ONLY <1>3, <1>17
  <2>2. m * low \in Nat /\ m * high \in Nat
    BY ONLY <1>3, <1>17
  <2>3. QED
    BY <1>3, <1>17, <2>1, <2>2
<1>19. Cardinality(U) = m + 1 /\ Cardinality(Words(U)) = x + y
  BY <1>13, <1>14, <1>16
<1>20. QED
  BY <1>9, <1>18, <1>19

(***************************************************************************)
(* The sets drawn.                                                         *)
(***************************************************************************)

LEMMA BiasSameCardinality ==
  \A S : Bias!Cardinality(S) = Cardinality(S)
BY DEF Bias!Cardinality, Cardinality, Bias!IsFiniteSet, IsFiniteSet

LEMMA SetsOfSize ==
  \A size : Bias!Sets(size) = {U \in SUBSET (0..max-1) : Cardinality(U) = size}
BY BiasSameCardinality DEF Bias!Sets, Bias!kSubset

(* The inductive invariant: ways is about the sets of the size drawn.      *)
BiasInv ==
  /\ max \in Nat \ {0} /\ num \in 1..max /\ range \in Nat \ {0}
  /\ biasTodo \in 0..num
  /\ ways \in [Bias!Sets(num - biasTodo) -> Nat]
  /\ lo \in Nat /\ hi \in Nat
  /\ NearlyUniform

LEMMA BiasInit ==
  ASSUME Bias!BiasAssumption
  PROVE  Bias!Init => BiasInv
<1>1. SUFFICES ASSUME Bias!Init
               PROVE  BiasInv
  OBVIOUS
<1>2. /\ max \in Nat \ {0} /\ num \in 1..max /\ range \in Nat \ {0}
      /\ biasTodo = num /\ ways = [U \in {{}} |-> 1] /\ lo = 1 /\ hi = 1
  BY <1>1 DEF Bias!Init, Bias!BiasAssumption
<1>3. Bias!Sets(num - biasTodo) = {{}}
  <2>1. num - biasTodo = 0
    BY <1>2
  <2>2. ASSUME NEW U \in SUBSET (0..max-1)
        PROVE  Cardinality(U) = 0 <=> U = {}
    <3>1. IsFiniteSet(U)
      <4>1. IsFiniteSet(0..max-1)
        BY <1>2, FS_Interval
      <4>2. QED
        BY <4>1, FS_Subset
    <3>2. QED
      BY <3>1, FS_EmptySet
  <2>3. Bias!Sets(0) = {U \in SUBSET (0..max-1) : Cardinality(U) = 0}
    BY SetsOfSize
  <2>4. {U \in SUBSET (0..max-1) : Cardinality(U) = 0} = {{}}
    BY <2>2
  <2>5. QED
    BY <2>1, <2>3, <2>4
<1>4. NearlyUniform
  BY <1>2 DEF NearlyUniform, Bias!NearlyUniform
<1>5. QED
  BY <1>2, <1>3, <1>4 DEF BiasInv

(* A set of one member more. *)
LEMMA OneMore ==
  ASSUME NEW to, IsFiniteSet(to), NEW from, from \subseteq to,
         Cardinality(to) = Cardinality(from) + 1
  PROVE  \E x \in to : from = to \ {x}
<1>1. IsFiniteSet(from) /\ Cardinality(from) \in Nat
  BY FS_Subset, FS_CardinalityType
<1>2. PICK x \in to : x \notin from
  <2>1. SUFFICES ASSUME to = from
                 PROVE  FALSE
    OBVIOUS
  <2>2. Cardinality(to) = Cardinality(from)
    BY <2>1, Zenon
  <2>3. QED
    BY <1>1, <2>2
<1>3. IsFiniteSet(to \ {x}) /\ Cardinality(to \ {x}) = Cardinality(to) - 1
  BY <1>2, FS_RemoveElement
<1>4. from \subseteq to \ {x} /\ Cardinality(from) = Cardinality(to \ {x})
  BY <1>1, <1>2, <1>3
<1>5. from = to \ {x}
  <2>1. PICK rest : rest = to \ {x}
    OBVIOUS
  <2>2. ASSUME NEW y \in rest, y \notin from
        PROVE  FALSE
    <3>1. IsFiniteSet(rest \ {y}) /\ Cardinality(rest \ {y}) = Cardinality(rest) - 1
      BY <1>3, <2>1, <2>2, FS_RemoveElement
    <3>2. from \subseteq rest \ {y}
      BY <1>4, <2>1, <2>2
    <3>3. Cardinality(from) <= Cardinality(rest \ {y})
      BY <3>1, <3>2, FS_Subset
    <3>4. QED
      BY <1>1, <1>4, <2>1, <3>1, <3>3
  <2>3. QED
    BY <1>4, <2>1, <2>2
<1>6. QED
  BY <1>5

(* There are as many sets of one member less as there are members. *)
LEMMA OneLessEach ==
  ASSUME NEW to, IsFiniteSet(to)
  PROVE  /\ IsFiniteSet({to \ {x} : x \in to})
         /\ Cardinality({to \ {x} : x \in to}) = Cardinality(to)
<1> DEFINE S == {to \ {x} : x \in to}
           remove == [x \in to |-> to \ {x}]
<1>1. remove \in Bijection(to, S)
  <2>1. remove \in [to -> S]
    OBVIOUS
  <2>2. \A x, y \in to : remove[x] = remove[y] => x = y
    OBVIOUS
  <2>3. \A s \in S : \E x \in to : remove[x] = s
    OBVIOUS
  <2>4. QED
    BY <2>1, <2>2, <2>3 DEF Bijection, Injection, IsInjective, Surjection
<1>2. ExistsBijection(to, S)
  BY <1>1 DEF ExistsBijection
<1>3. QED
  BY <1>2, FS_Bijection

(* The sum of a round, for one set. *)
Added(to) ==
  [from \in {from \in DOMAIN ways : from \subseteq to} |->
     ways[from] * Cardinality(Bias!WordsTo(from, to))]

Drawn(to) ==
  Bias!MapThenSumSet(LAMBDA from : ways[from] * Bias!Cardinality(Bias!WordsTo(from, to)),
                     {from \in DOMAIN ways : from \subseteq to})

LEMMA DrawnIsSum ==
  ASSUME NEW to, NEW S, S = {from \in DOMAIN ways : from \subseteq to}, IsFiniteSet(S),
         Added(to) \in [S -> Nat]
  PROVE  \E h : Summing(h, Added(to), S) /\ Drawn(to) = h[S]
<1> DEFINE Def(h) == h = [s \in SUBSET S |->
                            IF s = {} THEN 0
                            ELSE (ways[CHOOSE x \in s : TRUE]
                                    * Bias!Cardinality(Bias!WordsTo(CHOOSE x \in s : TRUE, to)))
                                 + h[s \ {CHOOSE x \in s : TRUE}]]
<1>1. ASSUME NEW h
      PROVE  Def(h) <=> Summing(h, Added(to), S)
  <2>1. ASSUME NEW s \in SUBSET S, s # {}
        PROVE  Added(to)[CHOOSE x \in s : TRUE]
                 = ways[CHOOSE x \in s : TRUE]
                     * Bias!Cardinality(Bias!WordsTo(CHOOSE x \in s : TRUE, to))
    <3>1. PICK x : x = CHOOSE y \in s : TRUE
      OBVIOUS
    <3>2. x \in S
      BY <2>1, <3>1
    <3>3. Added(to)[x] = ways[x] * Bias!Cardinality(Bias!WordsTo(x, to))
      BY <3>2, BiasSameCardinality DEF Added
    <3>4. QED
      BY <3>1, <3>3
  <2>2. QED
    BY <2>1 DEF Summing
<1>2. \E h : Def(h)
  <2>1. \E h : Summing(h, Added(to), S)
    BY SumExists, Zenon
  <2> HIDE DEF Def
  <2>2. QED
    BY <1>1, <2>1
<1>3. Def(CHOOSE h : Def(h))
  BY <1>2, Zenon
<1>4. Drawn(to) = (CHOOSE h : Def(h))[S]
  BY DEF Drawn, Bias!MapThenSumSet, Bias!MapThenFoldSet
<1>5. QED
  BY <1>1, <1>3, <1>4

(* The words that lead from one set to the next, position pos being drawn, *)
(* where the set is possible: those scaled to the member that is new, or,  *)
(* if the position itself is new, to any member.                           *)
LEMMA WordsLead ==
  ASSUME BiasInv, biasTodo > 0, NEW pos, pos = biasTodo - 1,
         NEW from, from \subseteq biasTodo .. max-1, NEW to
  PROVE  /\ ~(to \subseteq pos .. max-1) => Bias!WordsTo(from, to) = {}
         /\ \A x : to = from \cup {x} /\ x \notin from =>
              \A rand \in 0..range-1 :
                rand \in Bias!WordsTo(from, to)
                  <=> Scaled(max, range, pos, rand) \in IF x = pos THEN to ELSE {x}
<1>1. /\ max \in Nat /\ range \in Nat \ {0} /\ pos \in Nat /\ pos < max
      /\ biasTodo = pos + 1 /\ biasTodo \in Nat
  BY DEF BiasInv
<1>2. pos \notin from /\ from \subseteq pos .. max-1
  BY <1>1
<1>3. Bias!WordsTo(from, to) =
        {rand \in 0..range-1 : to = from \cup {Selected(max, range, pos, from, rand)}}
  BY DEF Bias!WordsTo, Bias!Selected, Bias!Scaled, Selected, Scaled
<1>4. ASSUME NEW rand \in 0..range-1
      PROVE  /\ Selected(max, range, pos, from, rand) \in pos .. max-1
             /\ Selected(max, range, pos, from, rand) \notin from
  BY <1>1, <1>2, SelectedIsNew
<1>5. ASSUME ~(to \subseteq pos .. max-1)
      PROVE  Bias!WordsTo(from, to) = {}
  <2>1. ASSUME NEW rand \in 0..range-1, to = from \cup {Selected(max, range, pos, from, rand)}
        PROVE  FALSE
    <3>1. PICK y : y = Selected(max, range, pos, from, rand)
      OBVIOUS
    <3>2. y \in pos .. max-1 /\ to = from \cup {y}
      BY <1>4, <2>1, <3>1
    <3>3. QED
      BY <1>2, <1>5, <3>2
  <2>2. QED
    BY <1>3, <2>1
<1>6. ASSUME NEW x, to = from \cup {x}, x \notin from, NEW rand \in 0..range-1
      PROVE  to = from \cup {Selected(max, range, pos, from, rand)}
               <=> Scaled(max, range, pos, rand) \in IF x = pos THEN to ELSE {x}
  <2>1. PICK y : y = Selected(max, range, pos, from, rand)
    OBVIOUS
  <2>2. PICK z : z = Scaled(max, range, pos, rand)
    OBVIOUS
  <2>3. y \notin from /\ y = IF z \in from THEN pos ELSE z
    BY <1>4, <2>1, <2>2 DEF Selected
  <2>4. to = from \cup {y} <=> y = x
    BY <1>6, <2>3
  <2>5. CASE x = pos
    <3>1. y = pos <=> z \in to
      BY <1>2, <1>6, <2>3, <2>5
    <3>2. QED
      BY <2>1, <2>2, <2>4, <2>5, <3>1
  <2>6. CASE x # pos
    <3>1. y = x <=> z = x
      BY <1>6, <2>3, <2>6
    <3>2. QED
      BY <2>1, <2>2, <2>4, <2>6, <3>1
  <2>7. QED
    BY <2>5, <2>6
<1>7. ASSUME NEW x, to = from \cup {x}, x \notin from, NEW rand \in 0..range-1
      PROVE  rand \in Bias!WordsTo(from, to)
               <=> Scaled(max, range, pos, rand) \in IF x = pos THEN to ELSE {x}
  BY <1>3, <1>6, <1>7
<1>8. QED
  BY <1>5, <1>7

LEMMA ProductsBetween ==
  ASSUME NEW x \in Nat, NEW y \in Nat, NEW x0 \in Nat, NEW y0 \in Nat, x0 <= x, y0 <= y
  PROVE  x0 * y0 <= x * y /\ x0 * y0 \in Nat /\ x * y \in Nat
<1>1. x0 * y0 <= x * y0 /\ x * y0 <= x * y
  OBVIOUS
<1>2. x0 * y0 \in Nat /\ x * y0 \in Nat /\ x * y \in Nat
  OBVIOUS
<1>3. QED
  BY <1>1, <1>2

(* One round of all words for one set. *)
LEMMA DrawnBetween ==
  ASSUME BiasInv, biasTodo > 0, NEW pos, pos = biasTodo - 1,
         NEW size, size = num - biasTodo + 1, NEW to \in Bias!Sets(size),
         NEW w, w = max - pos,
         NEW low, low = range \div w, NEW high, high = (range + w - 1) \div w
  PROVE  /\ Drawn(to) \in Nat
         /\ IF to \subseteq pos .. max-1
            THEN size * (lo * low) <= Drawn(to) /\ Drawn(to) <= size * (hi * high)
            ELSE Drawn(to) = 0
<1>1. /\ max \in Nat /\ num \in 1..max /\ range \in Nat \ {0} /\ pos \in Nat /\ pos < max
      /\ biasTodo = pos + 1 /\ biasTodo \in Nat /\ size \in Nat \ {0}
      /\ num - biasTodo = size - 1 /\ lo \in Nat /\ hi \in Nat
  BY DEF BiasInv
<1>2. /\ w \in Nat \ {0} /\ w = max - pos /\ low = range \div w /\ high = (range + w - 1) \div w
      /\ low \in Nat /\ high \in Nat
  BY <1>1, Quotients
<1>3. to \subseteq 0..max-1 /\ IsFiniteSet(to) /\ Cardinality(to) = size
  <2>1. to \in SUBSET (0..max-1) /\ Cardinality(to) = size
    BY SetsOfSize
  <2>2. IsFiniteSet(0..max-1)
    BY <1>1, FS_Interval
  <2>3. QED
    BY <2>1, <2>2, FS_Subset
<1> DEFINE S == {from \in DOMAIN ways : from \subseteq to}
<1>4. ASSUME NEW from \in S
      PROVE  /\ from \in DOMAIN ways /\ from \subseteq to
             /\ Cardinality(from) = size - 1 /\ ways[from] \in Nat
             /\ Cardinality(Bias!WordsTo(from, to)) \in Nat
             /\ IF from \subseteq biasTodo .. max-1
                THEN lo <= ways[from] /\ ways[from] <= hi ELSE ways[from] = 0
  <2>1. from \in Bias!Sets(size - 1) /\ ways[from] \in Nat /\ DOMAIN ways = Bias!Sets(size - 1)
    BY <1>1 DEF BiasInv
  <2>2. Cardinality(from) = size - 1
    BY <2>1, SetsOfSize
  <2>3. IF from \subseteq biasTodo .. max-1
        THEN lo <= ways[from] /\ ways[from] <= hi ELSE ways[from] = 0
    BY DEF BiasInv, NearlyUniform, Bias!NearlyUniform
  <2>4. Bias!WordsTo(from, to) \subseteq 0..range-1 /\ IsFiniteSet(0..range-1)
    BY <1>1, FS_Interval DEF Bias!WordsTo
  <2>5. Cardinality(Bias!WordsTo(from, to)) \in Nat
    BY <2>4, FS_Subset, FS_CardinalityType
  <2>6. QED
    BY <2>1, <2>2, <2>3, <2>5
<1>5. IsFiniteSet(S)
  <2>1. S \in SUBSET (SUBSET to)
    OBVIOUS
  <2>2. IsFiniteSet(SUBSET to)
    BY <1>3, FS_SUBSET
  <2>3. QED
    BY <2>1, <2>2, FS_Subset
<1> DEFINE sum == Added(to)
<1>6. \A from \in S : sum[from] = ways[from] * Cardinality(Bias!WordsTo(from, to))
  BY DEF Added
<1>7. sum \in [S -> Nat]
  <2>1. \A from \in S : ways[from] * Cardinality(Bias!WordsTo(from, to)) \in Nat
    BY <1>4
  <2>2. QED
    BY <2>1 DEF Added
<1> HIDE DEF sum
<1>8. PICK h : Summing(h, sum, S) /\ Drawn(to) = h[S]
  BY <1>5, <1>7, DrawnIsSum DEF sum
<1>9. \A from \in S : ~(from \subseteq biasTodo .. max-1) => sum[from] = 0
  <2>1. ASSUME NEW from \in S, ~(from \subseteq biasTodo .. max-1)
        PROVE  sum[from] = 0
    <3>1. ways[from] = 0 /\ Cardinality(Bias!WordsTo(from, to)) \in Nat
      BY <1>4, <2>1
    <3>2. QED
      BY <1>6, <3>1
  <2>2. QED
    BY <2>1
<1>10. CASE ~(to \subseteq pos .. max-1)
  <2>1. \A from \in S : sum[from] = 0
    <3>1. ASSUME NEW from \in S, from \subseteq biasTodo .. max-1
          PROVE  sum[from] = 0
      <4>1. Bias!WordsTo(from, to) = {}
        BY <1>10, <3>1, WordsLead
      <4>2. Cardinality(Bias!WordsTo(from, to)) = 0
        BY <4>1, FS_EmptySet
      <4>3. QED
        BY <1>4, <1>6, <4>2
    <3>2. QED
      BY <1>9, <3>1
  <2>2. /\ Cardinality({}) = 0 /\ {} \in SUBSET S
    BY FS_EmptySet
  <2>3. h[S] \in Nat /\ 0 * 0 <= h[S] /\ h[S] <= 0 * 0
    BY <1>5, <1>7, <1>8, <2>1, <2>2, SumBetween
  <2>4. h[S] = 0
    BY <2>3
  <2>5. QED
    BY <1>8, <1>10, <2>4
<1>11. CASE to \subseteq pos .. max-1 /\ pos \in to
  <2>1. PICK rest : rest = to \ {pos}
    OBVIOUS
  <2>2. /\ rest \subseteq biasTodo .. max-1 /\ to = rest \cup {pos} /\ pos \notin rest
    BY <1>1, <1>11, <2>1
  <2>3. Cardinality(rest) = size - 1 /\ rest \in SUBSET (0..max-1)
    BY <1>1, <1>3, <1>11, <2>1, FS_RemoveElement
  <2>4. rest \in S
    <3>1. rest \in Bias!Sets(size - 1) /\ DOMAIN ways = Bias!Sets(size - 1)
      BY <1>1, <2>3, SetsOfSize DEF BiasInv
    <3>2. QED
      BY <2>1, <3>1
  <2>5. ASSUME NEW from \in S, from # rest
        PROVE  sum[from] = 0
    <3>1. Cardinality(to) = Cardinality(from) + 1 /\ from \subseteq to
      BY <1>1, <1>3, <1>4
    <3>2. PICK x \in to : from = to \ {x}
      BY <1>3, <3>1, OneMore
    <3>3. pos \in from
      BY <1>11, <2>1, <2>5, <3>2
    <3>4. ~(from \subseteq biasTodo .. max-1)
      BY <1>1, <3>3
    <3>5. QED
      BY <1>9, <3>4
  <2>6. Bias!WordsTo(rest, to) =
          {rand \in 0..range-1 : Scaled(max, range, pos, rand) \in to}
    <3>1. PICK x : x = pos
      OBVIOUS
    <3>2. to = rest \cup {x} /\ x \notin rest
      BY <2>2, <3>1
    <3>3. \A rand \in 0..range-1 :
            rand \in Bias!WordsTo(rest, to)
              <=> Scaled(max, range, pos, rand) \in IF x = pos THEN to ELSE {x}
      BY <2>2, <3>2, WordsLead
    <3>4. Bias!WordsTo(rest, to) \subseteq 0..range-1
      BY DEF Bias!WordsTo
    <3>5. QED
      BY <3>1, <3>3, <3>4
  <2>7. PICK count : count = Cardinality(Bias!WordsTo(rest, to))
    OBVIOUS
  <2>8. count \in Nat /\ size * low <= count /\ count <= size * high
    <3>1. to \in SUBSET (pos .. max-1)
      BY <1>11
    <3>2. PICK W : W = {rand \in 0..range-1 : Scaled(max, range, pos, rand) \in to}
      OBVIOUS
    <3>3. W \in SUBSET (0..range-1)
          /\ \A rand \in 0..range-1 : rand \in W <=> Scaled(max, range, pos, rand) \in to
      BY <3>2
    <3>4. /\ Cardinality(W) \in Nat
          /\ Cardinality(to) * low <= Cardinality(W)
          /\ Cardinality(W) <= Cardinality(to) * high
      BY ONLY <1>1, <1>2, <3>1, <3>3, WordsToValues, Zenon
    <3>5. count = Cardinality(W)
      BY <2>6, <2>7, <3>2, Zenon
    <3>6. QED
      BY <1>3, <3>4, <3>5
  <2>9. ways[rest] \in Nat /\ lo <= ways[rest] /\ ways[rest] <= hi
    BY <1>4, <2>2, <2>4
  <2>10. sum[rest] = ways[rest] * count
    BY <1>6, <2>4, <2>7
  <2>11. size * low \in Nat /\ size * high \in Nat
    BY ONLY <1>1, <1>2
  <2>12. /\ lo * (size * low) <= ways[rest] * count /\ lo * (size * low) \in Nat
         /\ ways[rest] * count <= hi * (size * high) /\ hi * (size * high) \in Nat
    BY <1>1, <2>8, <2>9, <2>11, ProductsBetween
  <2>13. Cardinality({rest}) = 1 /\ {rest} \in SUBSET S
    BY <2>4, FS_Singleton
  <2>14. PICK n0, n1 : n0 = lo * (size * low) /\ n1 = hi * (size * high)
    OBVIOUS
  <2>15. h[S] \in Nat /\ 1 * n0 <= h[S] /\ h[S] <= 1 * n1
    <3>1. \A x \in S : IF x \in {rest} THEN n0 <= sum[x] /\ sum[x] <= n1 ELSE sum[x] = 0
      BY <2>5, <2>10, <2>12, <2>14
    <3>2. n0 \in Nat /\ n1 \in Nat
      BY <2>12, <2>14
    <3>3. QED
      BY <1>5, <1>7, <1>8, <2>13, <3>1, <3>2, SumBetween
  <2>16. n0 = size * (lo * low) /\ n1 = size * (hi * high)
    BY ONLY <1>1, <1>2, <2>14
  <2>17. QED
    BY <1>8, <1>11, <2>12, <2>14, <2>15, <2>16
<1>12. CASE to \subseteq pos .. max-1 /\ pos \notin to
  <2>1. to \subseteq biasTodo .. max-1
    BY <1>1, <1>12
  <2>2. S = {to \ {x} : x \in to}
    <3>1. ASSUME NEW from \in S
          PROVE  \E x \in to : from = to \ {x}
      <4>1. Cardinality(to) = Cardinality(from) + 1 /\ from \subseteq to
        BY <1>1, <1>3, <1>4
      <4>2. QED
        BY <1>3, <4>1, OneMore
    <3>2. ASSUME NEW x \in to
          PROVE  to \ {x} \in S
      <4>1. PICK rest : rest = to \ {x}
        OBVIOUS
      <4>2. Cardinality(rest) = size - 1 /\ rest \in SUBSET (0..max-1)
        BY <1>1, <1>3, <4>1, FS_RemoveElement
      <4>3. rest \in Bias!Sets(size - 1) /\ DOMAIN ways = Bias!Sets(size - 1)
        BY <1>1, <4>2, SetsOfSize DEF BiasInv
      <4>4. QED
        BY <4>1, <4>3
    <3>3. QED
      BY <3>1, <3>2
  <2>3. Cardinality(S) = size
    BY <1>3, <2>2, OneLessEach
  <2>4. ASSUME NEW from \in S
        PROVE  lo * low <= sum[from] /\ sum[from] <= hi * high
    <3>1. PICK x \in to : from = to \ {x}
      BY <2>2
    <3>2. x # pos /\ to = from \cup {x} /\ x \notin from /\ x \in pos .. max-1
      BY <1>12, <3>1
    <3>3. from \subseteq biasTodo .. max-1
      BY <2>1, <3>1
    <3>4. Bias!WordsTo(from, to) =
            {rand \in 0..range-1 : Scaled(max, range, pos, rand) \in {x}}
      <4>1. \A rand \in 0..range-1 :
              rand \in Bias!WordsTo(from, to)
                <=> Scaled(max, range, pos, rand) \in IF x = pos THEN to ELSE {x}
        BY <3>2, <3>3, WordsLead
      <4>2. Bias!WordsTo(from, to) \subseteq 0..range-1
        BY DEF Bias!WordsTo
      <4>3. QED
        BY <3>2, <4>1, <4>2
    <3>5. PICK count : count = Cardinality(Bias!WordsTo(from, to))
      OBVIOUS
    <3>6. count \in Nat /\ 1 * low <= count /\ count <= 1 * high
      <4>1. {x} \in SUBSET (pos .. max-1) /\ Cardinality({x}) = 1
        BY <3>2, FS_Singleton
      <4>2. PICK V : V = {x}
        OBVIOUS
      <4>3. PICK W : W = {rand \in 0..range-1 : Scaled(max, range, pos, rand) \in V}
        OBVIOUS
      <4>4. W \in SUBSET (0..range-1)
            /\ \A rand \in 0..range-1 : rand \in W <=> Scaled(max, range, pos, rand) \in V
        BY <4>3
      <4>5. V \in SUBSET (pos .. max-1) /\ Cardinality(V) = 1
        BY <4>1, <4>2, Zenon
      <4>6. /\ Cardinality(W) \in Nat
            /\ Cardinality(V) * low <= Cardinality(W)
            /\ Cardinality(W) <= Cardinality(V) * high
        BY ONLY <1>1, <1>2, <4>4, <4>5, WordsToValues, Zenon
      <4>7. count = Cardinality(W)
        BY <3>4, <3>5, <4>2, <4>3, Zenon
      <4>8. QED
        BY <4>5, <4>6, <4>7
    <3>7. ways[from] \in Nat /\ lo <= ways[from] /\ ways[from] <= hi
      BY <1>4, <3>3
    <3>8. low <= count /\ count <= high
      BY ONLY <1>2, <3>6
    <3>9. lo * low <= ways[from] * count /\ ways[from] * count <= hi * high
      BY <1>1, <1>2, <3>6, <3>7, <3>8, ProductsBetween
    <3>10. QED
      BY <1>6, <3>5, <3>9
  <2>5. PICK n0, n1 : n0 = lo * low /\ n1 = hi * high
    OBVIOUS
  <2>6. n0 \in Nat /\ n1 \in Nat
    BY ONLY <1>1, <1>2, <2>5
  <2>7. h[S] \in Nat /\ size * n0 <= h[S] /\ h[S] <= size * n1
    <3>1. \A x \in S : IF x \in S THEN n0 <= sum[x] /\ sum[x] <= n1 ELSE sum[x] = 0
      BY <2>4, <2>5
    <3>2. QED
      BY <1>5, <1>7, <1>8, <2>3, <2>6, <3>1, SumBetween
  <2>8. QED
    BY <1>8, <1>12, <2>5, <2>7
<1>13. QED
  BY <1>10, <1>11, <1>12

LEMMA BiasDraw ==
  ASSUME BiasInv, Bias!Draw
  PROVE  BiasInv'
<1>1. PICK pos, size, w :
        /\ pos = biasTodo - 1 /\ size = num - biasTodo + 1 /\ w = max - (biasTodo - 1)
  OBVIOUS
<1>2. PICK low, high : low = range \div w /\ high = (range + w - 1) \div w
  OBVIOUS
<1>3. /\ biasTodo > 0 /\ biasTodo' = biasTodo - 1
      /\ lo' = lo * size * low /\ hi' = hi * size * high
      /\ max' = max /\ num' = num /\ range' = range
  BY <1>1, <1>2 DEF Bias!Draw
<1>4. ways' = [to \in Bias!Sets(size) |-> Drawn(to)]
  BY <1>1 DEF Bias!Draw, Drawn
<1>5. /\ max \in Nat \ {0} /\ num \in 1..max /\ range \in Nat \ {0} /\ biasTodo \in 0..num
      /\ lo \in Nat /\ hi \in Nat
  BY DEF BiasInv
<1>6. /\ w \in Nat \ {0} /\ w = max - pos /\ size \in Nat /\ low \in Nat /\ high \in Nat
      /\ num - (biasTodo - 1) = size
  BY <1>1, <1>2, <1>3, <1>5, Quotients
<1>7. ASSUME NEW to \in Bias!Sets(size)
      PROVE  /\ Drawn(to) \in Nat
             /\ IF to \subseteq pos .. max-1
                THEN size * (lo * low) <= Drawn(to) /\ Drawn(to) <= size * (hi * high)
                ELSE Drawn(to) = 0
  BY <1>1, <1>2, <1>3, <1>6, DrawnBetween
<1>8. ways' \in [Bias!Sets(size) -> Nat]
  BY <1>4, <1>7
<1>9. Bias!Sets(num - biasTodo)' = Bias!Sets(size)
  BY <1>3, <1>6 DEF Bias!Sets
<1>10. /\ lo' = size * (lo * low) /\ lo' \in Nat
       /\ hi' = size * (hi * high) /\ hi' \in Nat
  BY ONLY <1>3, <1>5, <1>6
<1>11. NearlyUniform'
  <2>1. \A to \in DOMAIN ways' :
          IF to \subseteq pos .. max-1 THEN lo' <= ways'[to] /\ ways'[to] <= hi'
                                      ELSE ways'[to] = 0
    BY <1>4, <1>7, <1>10
  <2>2. QED
    BY <1>1, <1>3, <2>1 DEF NearlyUniform, Bias!NearlyUniform
<1>12. QED
  BY <1>3, <1>5, <1>8, <1>9, <1>10, <1>11 DEF BiasInv

(* Every set of indices is reached by as many sequences of words as any    *)
(* other, up to the rounding of each scaling, and no other set is.         *)
THEOREM Spread ==
  ASSUME Bias!BiasAssumption
  PROVE  Bias!Spec => []NearlyUniform
<1>1. Bias!Init => BiasInv
  BY BiasInit
<1>2. BiasInv /\ [Bias!Next]_biasVars => BiasInv'
  <2>1. SUFFICES ASSUME BiasInv, [Bias!Next]_biasVars
                 PROVE  BiasInv'
    OBVIOUS
  <2>2. CASE Bias!Draw
    BY <2>1, <2>2, BiasDraw
  <2>3. CASE UNCHANGED biasVars
    <3>1. /\ max' = max /\ num' = num /\ range' = range /\ biasTodo' = biasTodo
          /\ ways' = ways /\ lo' = lo /\ hi' = hi
      BY <2>3 DEF biasVars
    <3>2. Bias!Sets(num - biasTodo)' = Bias!Sets(num - biasTodo)
      BY <3>1 DEF Bias!Sets
    <3>3. NearlyUniform'
      BY <2>1, <3>1 DEF BiasInv, NearlyUniform, Bias!NearlyUniform
    <3>4. QED
      BY <2>1, <3>1, <3>2, <3>3 DEF BiasInv
  <2>4. QED
    BY <2>1, <2>2, <2>3 DEF Bias!Next
<1>3. BiasInv => NearlyUniform
  BY DEF BiasInv
<1>4. QED
  BY <1>1, <1>2, <1>3, PTL DEF Bias!Spec, Bias!vars, biasVars
=============================================================================
