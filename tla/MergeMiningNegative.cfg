CONSTANTS
  OurChainId <- MCChainId
  BlockVersions <- MCBlockVersionsNeg
  Payloads <- MCPayloads
  Parents <- MCParents
SPECIFICATION Spec
INVARIANT NoDoubleCommit
