----------------------------- MODULE CpuDispatch -----------------------------
(***************************************************************************)
(* Which version of each routine runs.  common/cpu_features.c reads the    *)
(* capabilities of the CPU into four flags when the program calls          *)
(* cpu_features_init, which nothing in the library does; gf2x_ctx_init,    *)
(* decode_ctx_init and sampling_ctx_init fill tables of functions from     *)
(* them at the start of each operation.                                    *)
(***************************************************************************)
EXTENDS Integers

CONSTANT Cpus   \* the features of the CPUs the program may run on

(* "leaf7" is there when CPUID has the leaf of the extended features. *)
Features == {"leaf7", "avx2", "avx512f", "avx512bw", "avx512dq",
             "pclmul", "vpclmul"}

ASSUME CpusAssumption == Cpus \subseteq SUBSET Features

VARIABLES
  cpu,     \* the features of the CPU at hand
  flags,   \* the flags that are not 0
  init,    \* the statement of cpu_features_init that is next
  gf2x,    \* the gf2x_ctx of the latest operation
  ctx      \* the version in its decode_ctx or sampling_ctx

dispatchVars == <<cpu, flags, init, gf2x, ctx>>

None == "none"

(* What a version's code is compiled with (compilation-flags.cmake). *)
AVX512Flags == {"avx512f", "avx512bw", "avx512dq"}

Needs(version) ==
  CASE version \in {"port", None} -> {}
    [] version = "avx2"    -> {"avx2"}
    [] version = "avx512"  -> AVX512Flags
    [] version = "pclmul"  -> {"pclmul"}
    [] version = "vpclmul" -> {"vpclmul"} \cup AVX512Flags

(* mul_base_qwords, and REG_QWORDS of the additions. *)
BaseQwords(mul) == CASE mul = "port" -> 1 [] mul = "pclmul" -> 8 [] mul = "vpclmul" -> 16
RegQwords(v)    == CASE v = "port" -> 1 [] v = "avx2" -> 4 [] v = "avx512" -> 8
-----------------------------------------------------------------------------
DispatchInit ==
  /\ cpu \in Cpus
  /\ flags = {}
  /\ init = "uncalled"
  /\ gf2x = [version |-> None, mul |-> None]
  /\ ctx = None

Assign(flag, bit) == flags' = IF bit \in cpu THEN flags \cup {flag} ELSE flags \ {flag}

(* cpu_features_init, which leaves the flags alone when CPUID is too old.  *)
InitStarts ==
  /\ init \in {"uncalled", "returned"}
  /\ init' = IF "leaf7" \in cpu THEN "avx2" ELSE "returned"
  /\ UNCHANGED <<cpu, flags, gf2x, ctx>>

(* The early return before the last assignment is not taken: a CPU that    *)
(* has leaf 7 has leaf 1.  That the system saves the registers is not read.*)
InitAssigns ==
  /\ \/ init = "avx2"    /\ Assign("avx2", "avx2")       /\ init' = "avx512"
     \/ init = "avx512"  /\ Assign("avx512", "avx512f")  /\ init' = "vpclmul"
     \/ init = "vpclmul" /\ Assign("vpclmul", "vpclmul") /\ init' = "pclmul"
     \/ init = "pclmul"  /\ Assign("pclmul", "pclmul")   /\ init' = "returned"
  /\ UNCHANGED <<cpu, gf2x, ctx>>

(* The library is called before cpu_features_init or after it, not while   *)
(* it runs: the flags are plain variables and one thread is assumed.       *)
MayCall == init \in {"uncalled", "returned"}

Vector ==
  IF "avx512" \in flags THEN "avx512" ELSE IF "avx2" \in flags THEN "avx2" ELSE "port"

(* Mutants: VPCLMUL without AVX-512; no PCLMUL. *)
Gf2xCtxInitVpclmul ==
  /\ MayCall
  /\ gf2x' = [version |-> Vector,
              mul |-> IF "vpclmul" \in flags THEN "vpclmul"
                      ELSE IF "pclmul" \in flags THEN "pclmul" ELSE "port"]
  /\ ctx' = None
  /\ UNCHANGED <<cpu, flags, init>>

Gf2xCtxInitNoPclmul ==
  /\ MayCall
  /\ gf2x' = [version |-> Vector,
              mul |-> IF {"vpclmul", "avx512"} \subseteq flags THEN "vpclmul"
                      ELSE "port"]
  /\ ctx' = None
  /\ UNCHANGED <<cpu, flags, init>>

Gf2xCtxInit ==
  /\ MayCall
  /\ gf2x' = [version |-> Vector,
              mul |-> IF {"vpclmul", "avx512"} \subseteq flags THEN "vpclmul"
                      ELSE IF "pclmul" \in flags THEN "pclmul" ELSE "port"]
  /\ ctx' = None
  /\ UNCHANGED <<cpu, flags, init>>

(* decode_ctx_init and sampling_ctx_init choose alike. *)
OtherCtxInit ==
  /\ MayCall
  /\ ctx' = Vector
  /\ gf2x' = [version |-> None, mul |-> None]
  /\ UNCHANGED <<cpu, flags, init>>

DispatchNext == InitStarts \/ InitAssigns \/ Gf2xCtxInit \/ OtherCtxInit

DispatchSpec == DispatchInit /\ [][DispatchNext]_dispatchVars
-----------------------------------------------------------------------------
(* "detects the CPU capabilities and runs the ... available code path"     *)
(* (README.md): no table of functions needs what the CPU does not have.    *)
RunsOnThisCpu ==
  \A v \in {gf2x.version, gf2x.mul, ctx} : Needs(v) \subseteq cpu

(* "assert(qwords_len % REG_QWORDS == 0)" (gf2x_mul_*.c): karatzuba splits *)
(* operands longer than mul_base_qwords, down to halves of that length,    *)
(* and the additions work on whole registers.                              *)
AdditionsAligned ==
  gf2x.mul # None => BaseQwords(gf2x.mul) % RegQwords(gf2x.version) = 0
=============================================================================
