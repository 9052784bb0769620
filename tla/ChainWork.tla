----------------------------- MODULE ChainWork ------------------------------
(***************************************************************************)
(* The work a block contributes to chain selection: GetAlgoWeight and      *)
(* GetBlockProof (pow.cpp).  nChainWork, the sum of GetBlockProof over a   *)
(* block's ancestors, is kept by main.cpp and compared there.              *)
(***************************************************************************)
EXTENDS CompactCodec, HeaderVersion

\* GetAlgoWeight: 10 for QUARK, 4000000 for ARGON2, 1 otherwise.
GetAlgoWeight(algo) ==
  CASE algo = ALGO_QUARK  -> 10
    [] algo = ALGO_ARGON2 -> 4000000
    [] OTHER              -> 1

(***************************************************************************)
(* GetBlockProof: 0 for a negative, overflowing or zero target, else       *)
(* ~bnTarget / (bnTarget / weight + 1) + 1.  uint256(algo_weight) holds    *)
(* the weight exactly at the code's width, so the division is by the       *)
(* weight itself, not by its value modulo the scaled width.                *)
(***************************************************************************)
\* Mutation of GetBlockProof: the target is used where its complement is.
GetBlockProofNoComplement(nBits, algo) ==
  LET d == SetCompact(nBits)
  IN IF d.negative \/ d.overflow \/ d.value = 0 THEN 0
     ELSE d.value \div (d.value \div GetAlgoWeight(algo) + 1) + 1

GetBlockProof(nBits, algo) ==
  LET d == SetCompact(nBits)
  IN IF d.negative \/ d.overflow \/ d.value = 0 THEN 0
     ELSE (MaxTarget - d.value) \div (d.value \div GetAlgoWeight(algo) + 1) + 1
=============================================================================
