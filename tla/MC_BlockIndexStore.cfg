\* The block index across crashes and restarts: five hashes, two crashes.
CONSTANTS
  g = g
  h1 = h1
  h2 = h2
  h3 = h3
  h4 = h4
  NULL = NULL
  Hashes <- MCHashes
  Genesis = g
  MaxCrashes = 2
SPECIFICATION Spec
INVARIANTS TypeOK BestBlockIndexed RunningTipsReported
PROPERTY AbstractIndexSpec
