--------------------------- MODULE MC_MultiPowChain --------------------------
(***************************************************************************)
(* Model-checking instance of MultiPowChain on a scaled target space:      *)
(* 4-bit digits and 4-digit (16-bit) targets, so that every uint256        *)
(* product of the code stays inside TLC's integers while the weighted      *)
(* limits still wrap exactly as ~uint256(0)>>1 times the weight does.      *)
(* Times are scaled with the same ratios as the code: resurrection after   *)
(* 10 spacings, a window of PastBlocks same-algorithm blocks.  Heights    *)
(* and flags are the test network's parameters.                          *)
(***************************************************************************)
EXTENDS MultiPowChain, ChainParams, TLC

\* The heights, spacing and flags of the test network (CTestNetParams):
\* PoW to 150, the multi-algorithm fork at 300.
MCParams == Params("test")
MCLastPowBlock == MCParams.nLastPOWBlock
MCMultiPowStartHeight == MCParams.nMultiPowStartHeight
MCTargetSpacing == MCParams.nTargetSpacing
MCIsTestnet == MCParams.networkID = "test"
MCSkipProofOfWorkCheck == MCParams.fSkipProofOfWorkCheck

\* Blocks past the fork the model explores.
MaxForkBlocks == 5

\* 0x1d00ffff scaled: size 4, mantissa 0x0ff (a target of 0xff0).
MCMinDiffBits == 4 * 4096 + 255

\* Anchor targets 0x400 and 0x100: pre-fork PoS targets are at most
\* ~uint256(0)>>24, so the first PoS retarget (times 60) cannot wrap.
MCAnchorBits == { 3 * 4096 + 1024, 3 * 4096 + 256 }

ChainBound == Len(chain) <= MedianSpan + MaxForkBlocks
=============================================================================
