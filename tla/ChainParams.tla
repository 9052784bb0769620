----------------------------- MODULE ChainParams -----------------------------
(***************************************************************************)
(* The consensus parameters of each network (chainparams.cpp), as records  *)
(* holding the fields the proof-of-work code reads through Params().  The  *)
(* class hierarchy is kept: CTestNetParams derives from CMainParams,       *)
(* CRegTestParams from CTestNetParams, CUnitTestParams from CMainParams;   *)
(* a derived constructor overrides only what it assigns.  Ports, seeds,    *)
(* keys, address prefixes, checkpoints and the zerocoin and budget         *)
(* settings are left out: nothing modelled reads them.                     *)
(***************************************************************************)
EXTENDS Integers

\* CBaseChainParams::Network
Networks == {"main", "test", "regtest", "unittest"}

(***************************************************************************)
(* CMainParams: bnProofOfWorkLimit = ~uint256(0) >> powLimitShift, chain   *)
(* id 0x005C, a one-minute spacing, PoW to 90200, the multi-algorithm fork *)
(* at 1984412, and the genesis header (nVersion 1, nBits 0x207fffff).      *)
(***************************************************************************)
MainParams ==
  [ networkID            |-> "main",
    powLimitShift        |-> 1,
    nAuxpowChainId       |-> 92,
    nTargetTimespan      |-> 60,
    nTargetSpacing       |-> 60,
    nLastPOWBlock        |-> 90200,
    nMultiPowStartHeight |-> 1984412,
    genesisVersion       |-> 1,
    genesisBits          |-> 545259519,
    fAllowMinDifficultyBlocks |-> FALSE,
    fSkipProofOfWorkCheck     |-> FALSE,
    fMineBlocksOnDemand       |-> FALSE ]

\* CTestNetParams: PoW to 150 and the fork at 300; the genesis keeps nBits.
TestNetParams ==
  [ MainParams EXCEPT
      !.networkID = "test",
      !.nLastPOWBlock = 150,
      !.nMultiPowStartHeight = 300,
      !.fAllowMinDifficultyBlocks = TRUE ]

\* CRegTestParams: proof of work "forever" (999999999); the fork height of
\* the testnet it derives from is not overridden.
RegTestParams ==
  [ TestNetParams EXCEPT
      !.networkID = "regtest",
      !.nTargetTimespan = 24 * 60 * 60,
      !.nLastPOWBlock = 999999999,
      !.fMineBlocksOnDemand = TRUE ]

\* CUnitTestParams: the main network's consensus values, mined on demand.
UnitTestParams ==
  [ MainParams EXCEPT
      !.networkID = "unittest",
      !.fMineBlocksOnDemand = TRUE ]

\* Params(network): the parameter object SelectParams installs.
Params(network) ==
  CASE network = "main"    -> MainParams
    [] network = "test"    -> TestNetParams
    [] network = "regtest" -> RegTestParams
    [] network = "unittest" -> UnitTestParams
=============================================================================
