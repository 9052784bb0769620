------------------------------- MODULE AuxPow --------------------------------
(***************************************************************************)
(* The merge-mining proof check CAuxPow::check and its slot function       *)
(* CAuxPow::getExpectedIndex (primitives/transaction.cpp).                 *)
(*                                                                         *)
(* Hashes are collision-free, so a hash is the value hashed:               *)
(*  - a chain merkle tree is a record [height, leaves] (leaves: the slots  *)
(*    0 .. 2^height - 1 to block hashes), and its root is the tree;        *)
(*  - CheckMerkleBranch(hash, branch, index) over the branch of tree T is  *)
(*    the root of T with leaf (index mod 2^height) replaced by hash: the   *)
(*    branch supplies the siblings, the low bits of index the path.        *)
(* The parent coinbase script is a sequence of items, each with its byte   *)
(* length: the merged-mining marker, a chain merkle root followed by the   *)
(* 8 bytes of tree size and nonce, a root the script ends after, and       *)
(* padding.  std::search finds the first item that matches.                *)
(***************************************************************************)
EXTENDS HeaderVersion, SequencesExt

MarkerBytes == 4        \* sizeof(pchMergedMiningHeader)
RootBytes   == 32       \* a uint256 chain merkle root
TailBytes   == 8        \* int nSize, int nNonce
PadBytes    == 4        \* extraNonce-like filler
MaxChainMerkleBranch == 30

Marker == [kind |-> "marker"]
Pad    == [kind |-> "pad"]
RootItem(tree, size, nonce) == [kind |-> "root", tree |-> tree, size |-> size, nonce |-> nonce]
RootEnd(tree) == [kind |-> "rootEnd", tree |-> tree]

ItemBytes(it) ==
  CASE it.kind = "marker"  -> MarkerBytes
    [] it.kind = "pad"     -> PadBytes
    [] it.kind = "root"    -> RootBytes + TailBytes
    [] it.kind = "rootEnd" -> RootBytes

\* pc - script.begin() for the item at index i.
Offset(script, i) == MapThenSumSet(LAMBDA j : ItemBytes(script[j]), 1 .. (i - 1))

\* CBlock::CheckMerkleBranch(hashAuxBlock, vChainMerkleBranch, nChainIndex).
ChainMerkleRoot(hashAux, branchTree, nChainIndex) ==
  [branchTree EXCEPT !.leaves[nChainIndex % (2^branchTree.height)] = hashAux]

(***************************************************************************)
(* getExpectedIndex(nNonce, nChainId, h): the LCG on a 32-bit unsigned,    *)
(* reduced modulo 2^h.  Since 2^h divides 2^32 every step is computed      *)
(* modulo 2^h, which keeps the numbers small.                              *)
(***************************************************************************)
getExpectedIndex(nNonce, nChainId, h) ==
  LET m    == 2^h
      mul  == 1103515245 % m
      rand == ((nNonce % m) * mul + 12345) % m
  IN (((rand + nChainId) % m) * mul + 12345) % m

(***************************************************************************)
(* Lines 335-356: with a marker, it must occur once and just before the    *)
(* root; without one, the root must start in the first 20 bytes.           *)
(***************************************************************************)
\* Mutation: the backward-compatible path does not bound the root's offset.
RootPlacementNoOffset(script, pcHead, pc) ==
  IF pcHead # 0
  THEN /\ ~\E j \in (pcHead + 1) .. Len(script) : script[j].kind = "marker"
       /\ pcHead + 1 = pc
  ELSE TRUE

RootPlacementOK(script, pcHead, pc) ==
  IF pcHead # 0
  THEN /\ ~\E j \in (pcHead + 1) .. Len(script) : script[j].kind = "marker"
       /\ pcHead + 1 = pc
  ELSE Offset(script, pc) <= 20

(***************************************************************************)
(* CAuxPow::check(hashAuxBlock, nChainId): the reason of the first failing *)
(* check, in the code's order, or "ok".  A proof is a record with nIndex,  *)
(* the parent header's nVersion and coinbase script, whether the coinbase  *)
(* branch leads to the parent's merkle root (txInParent), the tree its     *)
(* chain merkle branch is taken from, and nChainIndex.                     *)
(***************************************************************************)
check(proof, hashAuxBlock, nChainId) ==
  LET script == proof.parentScript
      h      == proof.branchTree.height
      root   == ChainMerkleRoot(hashAuxBlock, proof.branchTree, proof.nChainIndex)
      pc     == SelectInSeq(script, LAMBDA it : it.kind \in {"root", "rootEnd"}
                                                /\ it.tree = root)
      pcHead == SelectInSeq(script, LAMBDA it : it.kind = "marker")
  IN IF proof.nIndex # 0 THEN "not a generate"
     ELSE IF GetChainId(proof.parentVersion) = nChainId THEN "parent has our chain ID"
     ELSE IF h > MaxChainMerkleBranch THEN "chain merkle branch too long"
     ELSE IF ~proof.txInParent THEN "merkle root incorrect"
     ELSE IF pc = 0 THEN "aux hash not in parent coinbase"
     ELSE IF ~RootPlacementOK(script, pcHead, pc) THEN "chain merkle root misplaced"
     ELSE IF script[pc].kind = "rootEnd" THEN "missing tree size and nonce"
     ELSE IF script[pc].size # 2^h THEN "merkle branch size mismatch"
     ELSE IF proof.nChainIndex # getExpectedIndex(script[pc].nonce, nChainId, h)
          THEN "wrong index"
     ELSE "ok"
=============================================================================
