--------------------------- MODULE MC_GenesisChain ---------------------------
(***************************************************************************)
(* MultiPowChain from the genesis block through all regimes of             *)
(* GetNextWorkRequired, on the 16-bit target space of MC_MultiPowChain:    *)
(* warm-up up to height LegacyPastBlocks - 1, DGW3 up to LAST_POW_BLOCK,   *)
(* PoS up to MultiPowStartHeight - 2, the multi-algorithm retarget after.  *)
(* Heights and spacings are scaled down; the ratios that decide branches   *)
(* (a DGW3 timespan inside and outside [T/3, 3T], a PoS spacing above and  *)
(* below the target) are kept by TimeSteps.                                *)
(***************************************************************************)
EXTENDS ChainReports, TLC

\* The highest block the model grows the chain to: three blocks past the fork.
MaxHeight == MultiPowStartHeight + 2

MCMinDiffBits == 4 * 4096 + 255

ChainBound == chain[Len(chain)].height <= MaxHeight
=============================================================================
