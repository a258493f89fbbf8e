---------------------------- MODULE MCCpuDispatch ----------------------------
EXTENDS CpuDispatch

(* A CPU with AVX-512 has AVX2, all have PCLMULQDQ from AVX2 on, and the   *)
(* byte, word, double and quad-word instructions come with AVX-512: the    *)
(* x86 server CPUs.                                                        *)
Common ==
  {f \in SUBSET Features :
     /\ f \cap ({"avx2", "vpclmul"} \cup AVX512Flags) # {} => "leaf7" \in f
     /\ "avx512f" \in f => "avx2" \in f
     /\ AVX512Flags \cap f \in {{}, AVX512Flags}
     /\ "avx2" \in f => "pclmul" \in f}

(* Knights Landing: AVX-512 without BW and DQ. *)
WithoutBW == {{"leaf7", "avx2", "avx512f", "pclmul"}}

(* A virtual machine that hides PCLMULQDQ. *)
WithoutPclmul == {{"leaf7", "avx2"}}
=============================================================================
