\* The chain from genesis, 16-bit targets: 3-block DGW3 window, PoW up to
\* height 5, PoS at heights 6-7, multi-algorithm blocks from height 8.
CONSTANTS
  DigitBits = 4
  Digits = 4
  MultiPowStartHeight = 8
  nForkHeight = 8
  PastBlocks = 3
  DGWTimespanPoW = 3
  DGWTimespanPoS = 1
  InRowSurgePoW = 2
  InRowSurgePoS = 3
  MinDiffBits <- MCMinDiffBits
  IsTestnet = FALSE
  SkipProofOfWorkCheck = FALSE
  LAST_POW_BLOCK = 5
  LegacyPastBlocks = 3
  TargetSpacing = 4
  PosTargetSpacing = 4
  PosTargetTimespan = 16
  PosLimitShift = 6
  MinedAlgos = {1, 2, 3}
  TimeSteps = {1, 16}
  MedianSpan = 3
  AnchorBits = {}
INIT GenesisInit
NEXT Next
CONSTRAINT ChainBound
INVARIANT LegacyRetargetAsSpecified
