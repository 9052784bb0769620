------------------------------ MODULE ChainTips ------------------------------
(***************************************************************************)
(* The block index as a tree and the getchaintips RPC                     *)
(* (rpc/blockchain.cpp) that reports its tips.  mapBlockIndex is pprev, a  *)
(* function from the hashes of the known blocks to their parent (NULL for  *)
(* genesis); chainActive is given by its tip.  Blocks enter the index and  *)
(* the active tip moves in main.cpp (AddToBlockIndex, ActivateBestChain,   *)
(* InvalidateBlock, ReconsiderBlock), outside src/: here any known block   *)
(* may be added to or become the tip, which covers every tree and active   *)
(* chain those functions can produce.                                      *)
(***************************************************************************)
EXTENDS Integers, FiniteSets, TLC

CONSTANTS
  Hashes,    \* block hashes, genesis included
  Genesis,   \* hashGenesisBlock
  NULL       \* a NULL CBlockIndex*

ASSUME Genesis \in Hashes /\ NULL \notin Hashes

VARIABLES pprev, tip

vars == <<pprev, tip>>

Known == DOMAIN pprev

RECURSIVE Height(_)
Height(b) == IF pprev[b] = NULL THEN 0 ELSE 1 + Height(pprev[b])

\* The block and its ancestors.
RECURSIVE Lineage(_)
Lineage(b) == IF b = NULL THEN {} ELSE {b} \union Lineage(pprev[b])

\* CChain::Contains: the block is the active chain's entry at its height.
Contains(b) == b \in Lineage(tip)

\* CChain::FindFork: the last block of b's lineage on the active chain.
RECURSIVE FindFork(_)
FindFork(b) == IF Contains(b) THEN b ELSE FindFork(pprev[b])

Init == pprev = (Genesis :> NULL) /\ tip = Genesis

\* A block with hash h and parent p enters mapBlockIndex.
AddBlock(h, p) ==
  /\ h \notin Known /\ p \in Known
  /\ pprev' = pprev @@ (h :> p)
  /\ UNCHANGED tip

\* chainActive.SetTip(b): the active chain becomes b's lineage.
SetTip(b) ==
  /\ b \in Known
  /\ tip' = b
  /\ UNCHANGED pprev

Next ==
  \/ \E h \in Hashes, p \in Known : AddBlock(h, p)
  \/ \E b \in Known : SetTip(b)

Spec == Init /\ [][Next]_vars

-----------------------------------------------------------------------------
(***************************************************************************)
(* getchaintips: the blocks off the active chain ("orphans") and their     *)
(* parents, then every orphan that is nobody's parent, then the active     *)
(* tip.  setTips orders by CompareBlocksByHeight, which tells blocks of    *)
(* equal height apart by address, so it is a set of blocks.  Each entry    *)
(* carries its height and branchlen.                                       *)
(***************************************************************************)
\* Mutation of Orphans: every block other than the active tip is taken.
OrphansNotTip == { b \in Known : b # tip }

Orphans == { b \in Known : ~Contains(b) }

GetChainTips ==
  LET setOrphans == Orphans
      setPrevs   == { pprev[b] : b \in setOrphans }
      setTips    == { b \in setOrphans : b \notin setPrevs } \union {tip}
  IN { [block |-> b, height |-> Height(b), branchlen |-> Height(b) - Height(FindFork(b))]
       : b \in setTips }

-----------------------------------------------------------------------------
(***************************************************************************)
(* getchaintips reports exactly the tips of the block tree (the blocks no  *)
(* block builds on) and the active tip, which may have children not yet   *)
(* connected; each with branchlen the number of its blocks off the active  *)
(* chain.  The two passes over orphans and their parents must not lose a   *)
(* tip nor report an interior block, whatever the tree and active chain.   *)
(***************************************************************************)
ChainTipsReported ==
  LET res == GetChainTips
  IN /\ { r.block : r \in res } = { b \in Known : \A c \in Known : pprev[c] # b } \union {tip}
     /\ \A r \in res : r.branchlen = Cardinality({ a \in Lineage(r.block) : ~Contains(a) })
=============================================================================
