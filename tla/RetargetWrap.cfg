\* The multi-algorithm retarget against the same computation in arbitrary
\* precision, on the chains of MC_MultiPowChain.cfg.
CONSTANTS
  DigitBits = 4
  Digits = 4
  MultiPowStartHeight <- MCMultiPowStartHeight
  nForkHeight = 200
  PastBlocks = 3
  DGWTimespanPoW = 3
  DGWTimespanPoS = 1
  InRowSurgePoW = 2
  InRowSurgePoS = 3
  MinDiffBits <- MCMinDiffBits
  IsTestnet <- MCIsTestnet
  SkipProofOfWorkCheck <- MCSkipProofOfWorkCheck
  LAST_POW_BLOCK <- MCLastPowBlock
  LegacyPastBlocks = 24
  TargetSpacing <- MCTargetSpacing
  PosTargetSpacing = 60
  PosTargetTimespan = 2400
  PosLimitShift = 6
  MinedAlgos = {1, 2, 3}
  TimeSteps = {1, 16}
  MedianSpan = 3
  AnchorBits <- MCAnchorBits
SPECIFICATION Spec
CONSTRAINT ChainBound
INVARIANT RetargetWrapFree
