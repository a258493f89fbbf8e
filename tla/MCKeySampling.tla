---------------------------- MODULE MCKeySampling ----------------------------
(***************************************************************************)
(* The two ways to look at sparse vectors: secure_set_bits on any lists    *)
(* of three indices at most, and the whole generation of a key or an error *)
(* from any key stream.  Each part runs by itself while the other rests.   *)
(*                                                                         *)
(* R = 5 bits in 4 quad-words of 2, filled two at a time; an error list    *)
(* may hold any masked word, also those from 2R on, and the label of an    *)
(* empty place.  A block of the generator has two words, as many as a list *)
(* of a key needs, and the budgets end before, in and after the second.    *)
(*                                                                         *)
(* A third part are the comparisons and masks by which these and the rest  *)
(* of the library avoid branches.                                          *)
(***************************************************************************)
EXTENDS SparseSampling, FiniteSetsExt

CONSTANTS ByteBits, WordBits, LongBits, Compared, Longs   \* of SecureSelect

VARIABLES cpu, use, v1, v2, x, y, res, chosen, selPc

selVars == <<cpu, use, v1, v2, x, y, res, chosen, selPc>>

Selection == INSTANCE SecureSelect WITH pc <- selPc

ASSUME SamplingParameters == SamplingAssumption
ASSUME SelectParameters   == Selection!SelectAssumption

UpTo3(S) == UNION {kSubset(n, S) : n \in 0..3}

MCKeyLists   == UpTo3(0 .. R - 1)
MCErrorLists == UpTo3(0 .. 15 \cup {IdxRange - 1})

(* Of two halves of D, or of T. *)
MCStreams == [0 .. 2 * D * RandBytes - 1 -> 0 .. ByteValues - 1]

Resting ==
  /\ stream = [j \in {} |-> 0]
  /\ Prf(1)!Init
  /\ Fy(1, 1)!Init
  /\ used = <<>>

ListsInit == Init /\ Resting /\ step = "lists"

NothingSelected ==
  /\ cpu = "other" /\ use = "count" /\ v1 = 0 /\ v2 = 0 /\ x = 0 /\ y = 0
  /\ res = 0 /\ chosen = <<>> /\ selPc = "compare"

SelectInit ==
  /\ Selection!Init
  /\ kind = "key" /\ wlist = [h \in Halves |-> {}] /\ r = [h \in Halves |-> {}]
  /\ half = 0 /\ qw = 0 /\ pc = "fill"
  /\ Resting
  /\ step = "select"

MCInit == ((ListsInit \/ SamplingInit) /\ NothingSelected) \/ SelectInit

ListsNext ==
  /\ step = "lists"
  /\ Next
  /\ UNCHANGED <<stream, prfVars, fyVars, used, step, selVars>>

SelectNext ==
  /\ step = "select"
  /\ Selection!Next
  /\ UNCHANGED samplingVars

MCNext == ListsNext \/ SelectNext \/ (SamplingNext /\ UNCHANGED selVars)

MCSpec == MCInit /\ [][MCNext]_<<samplingVars, selVars>>

(* SecureSelect's: a masked value is the one a branch would have given.    *)
SelectsAsBranch == Selection!SelectsAsBranch
=============================================================================
