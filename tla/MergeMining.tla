---------------------------- MODULE MergeMining -----------------------------
(***************************************************************************)
(* Blocks submitted to a node, checked by CheckAuxPowProofOfWork           *)
(* (pow.cpp:389-453) with the network's chain id.  One parent block of a   *)
(* foreign chain (its nVersion and coinbase script) is fixed per behaviour *)
(* and every merge-mined submission proves its work through it; accepted   *)
(* records the blocks the check let through.                               *)
(*                                                                         *)
(* A block is [nVersion, payload, pauxpow]: payload stands for the other   *)
(* header fields, so GetHash() is the pair (nVersion, payload); pauxpow    *)
(* says whether a proof is attached.  CheckProofOfWork on the block's own  *)
(* PoW hash and on the parent's is an input (ownPowOK, parentPowOK): the   *)
(* target check is modelled in Pow, the hash functions are not.            *)
(***************************************************************************)
EXTENDS AuxPow, FiniteSets

CONSTANTS
  OurChainId,      \* Params().GetAuxpowChainId() (0x005C)
  BlockVersions,   \* nVersion values of submitted blocks
  Payloads,        \* the remaining header fields, abstracted
  Parents          \* candidate parent blocks: [parentVersion, parentScript]

VARIABLES parent, accepted

vars == <<parent, accepted>>

Hash(b) == [nVersion |-> b.nVersion, payload |-> b.payload]

\* The roots a parent script holds: the trees a chain merkle branch for it
\* can be taken from (a branch of any other tree yields a root the script
\* does not hold, so it fails exactly as these can).
ScriptTrees(script) ==
  { script[i].tree : i \in { j \in 1 .. Len(script) : script[j].kind \in {"root", "rootEnd"} } }

\* Mutation: the chain-id comparison of line 397 is left out.
ChainIdGuardOff(block, chainId) == FALSE

\* Line 397: an auxpow-flagged block of version > 3 must carry our chain id.
ChainIdGuard(block, chainId) ==
  /\ block.nVersion > 3
  /\ IsAuxpow(block.nVersion)
  /\ GetChainId(block.nVersion) # chainId

(***************************************************************************)
(* CheckAuxPowProofOfWork(block, chainId): the reason of the first failing *)
(* check, or "ok".  The proof is checked against the block's own chain id  *)
(* (block.GetChainId(), line 431), not against chainId.                    *)
(***************************************************************************)
CheckAuxPowProofOfWork(block, proof, ownPowOK, parentPowOK, chainId) ==
  IF ChainIdGuard(block, chainId) THEN "block does not have our chain ID"
  ELSE IF ~block.pauxpow
       THEN IF IsAuxpow(block.nVersion) THEN "no auxpow on block with auxpow version"
            ELSE IF ~ownPowOK THEN "non-AUX proof of work failed"
            ELSE "ok"
  ELSE IF ~IsAuxpow(block.nVersion) THEN "auxpow on block with non-auxpow version"
  ELSE IF GetAlgo(block.nVersion, -1) = ALGO_QUARK THEN "QUARK cannot be merge-mined"
  ELSE IF check(proof, Hash(block), GetChainId(block.nVersion)) # "ok"
       THEN "AUX POW is not valid"
  ELSE IF ~parentPowOK THEN "AUX proof of work failed"
  ELSE "ok"

Blocks == [nVersion : BlockVersions, payload : Payloads, pauxpow : BOOLEAN]

\* The proofs a miner can attach using the fixed parent.
Proofs ==
  UNION { { [nIndex |-> ni, txInParent |-> tx, parentVersion |-> parent.parentVersion,
             parentScript |-> parent.parentScript, branchTree |-> t, nChainIndex |-> ci]
            : ci \in 0 .. (2^t.height - 1) }
          : ni \in {0, 1}, tx \in BOOLEAN, t \in ScriptTrees(parent.parentScript) }

NoProof == [nIndex |-> 0]

Init == parent \in Parents /\ accepted = {}

Accept(block) ==
  accepted' = accepted \union {[hash |-> Hash(block), merged |-> block.pauxpow]}

\* A block without a proof: only its own proof of work is consulted.
SubmitPlain(block, ownPowOK) ==
  /\ ~block.pauxpow
  /\ CheckAuxPowProofOfWork(block, NoProof, ownPowOK, FALSE, OurChainId) = "ok"
  /\ Accept(block)
  /\ UNCHANGED parent

\* A block with a proof through the parent.
SubmitMerged(block, proof, parentPowOK) ==
  /\ block.pauxpow
  /\ CheckAuxPowProofOfWork(block, proof, FALSE, parentPowOK, OurChainId) = "ok"
  /\ Accept(block)
  /\ UNCHANGED parent

Next ==
  \/ \E b \in Blocks, ok \in BOOLEAN : SubmitPlain(b, ok)
  \/ \E b \in Blocks, p \in Proofs, ok \in BOOLEAN : SubmitMerged(b, p, ok)

Spec == Init /\ [][Next]_vars

-----------------------------------------------------------------------------
(***************************************************************************)
(* One parent's work is used for at most one block of this chain: the      *)
(* slot rule (getExpectedIndex of the chain id), the single-marker rule    *)
(* and the 20-byte rule of CAuxPow::check together let a parent coinbase   *)
(* commit to one of our blocks, whatever trees and scripts a miner builds. *)
(***************************************************************************)
NoDoubleCommit == Cardinality({ a \in accepted : a.merged }) <= 1

(***************************************************************************)
(* Spec 4.6 step 2: a block is never merge-mined on a parent of our own    *)
(* chain.  CAuxPow::check compares the parent's chain id with the id the   *)
(* block carries, and CheckAuxPowProofOfWork (line 397) ties that id to    *)
(* the network's: together the parent's id differs from ours.              *)
(***************************************************************************)
NoSelfParent ==
  (\E a \in accepted : a.merged) => GetChainId(parent.parentVersion) # OurChainId
=============================================================================
