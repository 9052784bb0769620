CONSTANTS
  c1 = c1  c2 = c2  s1 = s1  t1 = t1  t2 = t2  k1 = k1  v1 = v1
  PubCoins <- MCPubCoins
  Serials <- MCSerials
  Txs <- MCTxs
  Checksums = {k1}
  AccValues = {v1}
SPECIFICATION Spec
INVARIANT WipeCoinsEmpties
