\* getdifficulty against getblock on the chain from genesis through the
\* multi-algorithm fork (heights as in MC_GenesisChain.cfg).
CONSTANTS
  DigitBits = 4
  Digits = 4
  MultiPowStartHeight = 8
  nForkHeight = 8
  PastBlocks = 3
  DGWTimespanPoW = 3
  DGWTimespanPoS = 1
  InRowSurgePoW = 2
  InRowSurgePoS = 3
  MinDiffBits <- MCMinDiffBits
  IsTestnet = FALSE
  SkipProofOfWorkCheck = FALSE
  LAST_POW_BLOCK = 5
  LegacyPastBlocks = 3
  TargetSpacing = 4
  PosTargetSpacing = 4
  PosTargetTimespan = 16
  PosLimitShift = 6
  MinedAlgos = {1, 2, 3}
  TimeSteps = {1, 16}
  MedianSpan = 3
  AnchorBits = {}
INIT GenesisInit
NEXT Next
CONSTRAINT ChainBound
INVARIANT DifficultyForecastKept
