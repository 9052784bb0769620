CONSTANTS
  OurChainId <- MCChainId
  BlockVersions <- MCBlockVersions
  Payloads <- MCPayloads
  Parents <- MCParents
SPECIFICATION Spec
INVARIANTS NoDoubleCommit NoSelfParent
