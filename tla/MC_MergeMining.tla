---------------------------- MODULE MC_MergeMining --------------------------
(***************************************************************************)
(* Submitted versions: a merge-mined SHA256D version with this network's   *)
(* chain id 0x005C, the same with chain id 0x005D (a foreign chain), a     *)
(* merge-mined QUARK version, a plain SHA256D version, and (in the         *)
(* negative-version run) SHA256D with chain id 0x805D, a negative int32.   *)
(*                                                                         *)
(* Parents are of chain 1 or claim chain 0x005C.  Their scripts hold       *)
(* roots of every chain merkle tree of height 0 or 1 over four block       *)
(* hashes, in the placements CAuxPow::check tells apart: first in the      *)
(* script, after the marker, after 20 and 24 bytes of padding, with the    *)
(* marker not adjacent, with a second marker, without the size and nonce,  *)
(* and two roots in one script.                                            *)
(***************************************************************************)
EXTENDS MergeMining, ChainParams

\* The main network's chain id, 0x005C.
MCChainId == Params("main").nAuxpowChainId

AuxLow   == CURRENT_VERSION + BLOCK_VERSION_AUXPOW
VOur     == Int32Of(92, AuxLow + BLOCK_VERSION_OF[ALGO_SHA256D])
VForeign == Int32Of(93, AuxLow + BLOCK_VERSION_OF[ALGO_SHA256D])
VQuark   == Int32Of(92, AuxLow + BLOCK_VERSION_OF[ALGO_QUARK])
VPlain   == Int32Of(92, CURRENT_VERSION + BLOCK_VERSION_OF[ALGO_SHA256D])
VNeg     == Int32Of(-32675, AuxLow + BLOCK_VERSION_OF[ALGO_SHA256D])

MCPayloads == {1, 2}

MCBlockVersions    == {VOur, VForeign, VQuark, VPlain}
MCBlockVersionsNeg == MCBlockVersions \union {VNeg}

LeafHashes ==
  { [nVersion |-> VOur, payload |-> 1], [nVersion |-> VOur, payload |-> 2],
    [nVersion |-> VForeign, payload |-> 1], [nVersion |-> VNeg, payload |-> 1] }

Trees0 == { [height |-> 0, leaves |-> (0 :> x)] : x \in LeafHashes }
Trees  == Trees0 \union
          { [height |-> 1, leaves |-> (0 :> x @@ 1 :> y)] : x, y \in LeafHashes }

Pads(n) == [i \in 1 .. n |-> Pad]

OneRootScripts ==
  UNION { { <<RootItem(t, 2^t.height + d, n)>>, <<Marker, RootItem(t, 2^t.height + d, n)>> }
          : t \in Trees, d \in {0, 1}, n \in {0, 1} }
  \union
  UNION { { Pads(5) \o <<RootItem(t, 2^t.height, 0)>>,
            Pads(6) \o <<RootItem(t, 2^t.height, 0)>>,
            <<Marker, Pad, RootItem(t, 2^t.height, 0)>>,
            <<Marker, RootItem(t, 2^t.height, 0), Marker>>,
            <<RootEnd(t)>> } : t \in Trees }

TwoRootScripts ==
  UNION { { <<RootItem(t1, 1, 0), RootItem(t2, 1, 0)>>,
            <<Marker, RootItem(t1, 1, 0), Marker, RootItem(t2, 1, 0)>>,
            <<RootItem(t1, 1, 0), Marker, RootItem(t2, 1, 0)>> }
          : t1, t2 \in Trees0 }

MCParents ==
  [ parentVersion : { Int32Of(1, CURRENT_VERSION), Int32Of(92, CURRENT_VERSION) },
    parentScript  : OneRootScripts \union TwoRootScripts ]
=============================================================================
