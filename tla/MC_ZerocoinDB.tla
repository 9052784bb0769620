---------------------------- MODULE MC_ZerocoinDB ----------------------------
EXTENDS ZerocoinDB

CONSTANTS c1, c2, s1, t1, t2, k1, v1

MCPubCoins == {c1, c2}
MCSerials  == {s1}
MCTxs      == {t1, t2}
=============================================================================
