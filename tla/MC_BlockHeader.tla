---------------------------- MODULE MC_BlockHeader --------------------------
(***************************************************************************)
(* Inputs of the header calls.  SetAlgo gets every algorithm and one int   *)
(* outside the enumeration.  SetChainId gets the network's auxpow chain id *)
(* (0x005C, chainparams.cpp) and an id that is negative as an int16.  The  *)
(* wire versions are a merge-mined SHA256D version of this chain, the same *)
(* with chain id 0x805C (a negative int32), and an ARGON2 version with the *)
(* update flag and no auxpow flag.                                         *)
(***************************************************************************)
EXTENDS BlockHeader

MCAlgoInputs == Algos \union {4}

MCChainIdInputs == {92, -32676}

MCWireVersions ==
  { Int32Of(92, CURRENT_VERSION + BLOCK_VERSION_AUXPOW + BLOCK_VERSION_OF[ALGO_SHA256D]),
    Int32Of(-32676, CURRENT_VERSION + BLOCK_VERSION_AUXPOW + BLOCK_VERSION_OF[ALGO_SHA256D]),
    CURRENT_VERSION + BLOCK_VERSION_UPDATE_SSF + BLOCK_VERSION_OF[ALGO_ARGON2] }
=============================================================================
