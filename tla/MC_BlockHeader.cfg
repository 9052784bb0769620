CONSTANTS
  AlgoInputs <- MCAlgoInputs
  ChainIdInputs <- MCChainIdInputs
  WireVersions <- MCWireVersions
SPECIFICATION Spec
INVARIANTS TypeOK LowFieldsAsSet PowCommitsToWire
