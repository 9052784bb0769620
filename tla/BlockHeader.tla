---------------------------- MODULE BlockHeader -----------------------------
(***************************************************************************)
(* A CBlockHeader object (primitives/block.h) and the calls that change    *)
(* its version field: SetNull, SetAlgo, SetChainId, SetUpdateSSF, the two  *)
(* SetAuxpow overloads and deserialization from the wire.  pauxpow is      *)
(* whether an auxiliary proof is attached, parentAlgo the algoParent the   *)
(* attached proof's parent header carries (-1 when none is attached).      *)
(*                                                                         *)
(* intent is a history variable: what the calls since the last reset      *)
(* asked for.  fresh says the reset was SetNull (not a wire version), and  *)
(* algos collects every algorithm passed to SetAlgo since.                 *)
(***************************************************************************)
EXTENDS HeaderVersion, FiniteSets

CONSTANTS
  AlgoInputs,      \* int32 arguments of SetAlgo (enumerated or not)
  ChainIdInputs,   \* arguments of SetChainId
  WireVersions     \* nVersion values a peer can send

VARIABLES nVersion, pauxpow, parentAlgo, intent

vars == <<nVersion, pauxpow, parentAlgo, intent>>

Intents == [fresh : BOOLEAN, algos : SUBSET Algos, aux : BOOLEAN,
            ssf : BOOLEAN]

\* CBlockHeader::SetNull: CPureBlockHeader::SetNull then pauxpow.reset().
SetNull ==
  /\ nVersion' = CURRENT_VERSION
  /\ pauxpow' = FALSE
  /\ parentAlgo' = -1
  /\ intent' = [fresh |-> TRUE, algos |-> {}, aux |-> FALSE, ssf |-> FALSE]

Init ==
  /\ nVersion = CURRENT_VERSION
  /\ pauxpow = FALSE
  /\ parentAlgo = -1
  /\ intent = [fresh |-> TRUE, algos |-> {}, aux |-> FALSE, ssf |-> FALSE]

DoSetAlgo(algo) ==
  /\ nVersion' = SetAlgo(nVersion, algo)
  /\ intent' = [intent EXCEPT !.algos = @ \union ({algo} \intersect Algos)]
  /\ UNCHANGED <<pauxpow, parentAlgo>>

DoSetChainId(id) ==
  /\ nVersion' = SetChainId(nVersion, id)
  /\ UNCHANGED <<pauxpow, parentAlgo, intent>>

DoSetUpdateSSF ==
  /\ nVersion' = SetUpdateSSF(nVersion)
  /\ intent' = [intent EXCEPT !.ssf = TRUE]
  /\ UNCHANGED <<pauxpow, parentAlgo>>

\* CBlockHeader::SetAuxpow(bool): only the flag; the proof is left alone.
SetAuxpowFlag(auxpow) ==
  /\ nVersion' = SetAuxpow(nVersion, auxpow)
  /\ intent' = [intent EXCEPT !.aux = auxpow]
  /\ UNCHANGED <<pauxpow, parentAlgo>>

\* CBlockHeader::SetAuxpow(CAuxPow*): attaching stamps the parent header
\* with the block's current algorithm; NULL detaches.  Both set the flag.
AttachAuxpow(apow) ==
  /\ parentAlgo' = IF apow THEN GetAlgo(nVersion, -1) ELSE -1
  /\ pauxpow' = apow
  /\ nVersion' = SetAuxpow(nVersion, apow)
  /\ intent' = [intent EXCEPT !.aux = apow]

\* SerializationOp for read: nVersion from the wire; a proof is read (and
\* its parent stamped with GetAlgo()) exactly when the flag is set.
Deserialize(v) ==
  /\ nVersion' = v
  /\ pauxpow' = IsAuxpow(v)
  /\ parentAlgo' = IF IsAuxpow(v) THEN GetAlgo(v, -1) ELSE -1
  /\ intent' = [fresh |-> FALSE, algos |-> {}, aux |-> IsAuxpow(v),
                ssf |-> IsUpdateSSF(v)]

(***************************************************************************)
(* The header's fields in serialization order; a serialized or a hashed   *)
(* byte range starting at nVersion is named by the last field it reaches. *)
(***************************************************************************)
FIELD_NONCE      == 6   \* nVersion, hashPrevBlock, ..., nBits, nNonce
FIELD_CHECKPOINT == 7   \* ..., nNonce, nAccumulatorCheckpoint

\* CPureBlockHeader::SerializationOp: nAccumulatorCheckpoint goes on the
\* wire only for a version above 3 of a header that is not a parent.
WireEnd(v, isParent) ==
  IF v > 3 /\ ~isParent THEN FIELD_CHECKPOINT ELSE FIELD_NONCE

\* Mutation of PowHashEnd: the isParent test of the SHA256D case inverted.
PowHashEndParentSwapped(v, isParent, algo) ==
  CASE algo = ALGO_SHA256D -> IF isParent THEN FIELD_CHECKPOINT ELSE FIELD_NONCE
    [] algo = ALGO_ARGON2 /\ isParent -> FIELD_NONCE
    [] algo = ALGO_POS     -> FIELD_CHECKPOINT
    [] algo \notin {ALGO_SHA256D, ALGO_ARGON2, ALGO_POS} ->
         IF v < 4 THEN FIELD_NONCE ELSE FIELD_CHECKPOINT

(***************************************************************************)
(* GetPoWHash(algo): the last field of BEGIN(nVersion) .. END(x) hashed.   *)
(* SHA256D stops at nNonce for a parent header, POS always reaches the     *)
(* checkpoint, any other algorithm dispatches on nVersion.  ARGON2 of a    *)
(* parent hashes 80 bytes (through nNonce); without the parent flag it     *)
(* hashes hash_argon2's default length, which is defined outside this      *)
(* repository, so PowCommitsToWire leaves that case out.                   *)
(***************************************************************************)
PowHashEnd(v, isParent, algo) ==
  CASE algo = ALGO_SHA256D -> IF isParent THEN FIELD_NONCE ELSE FIELD_CHECKPOINT
    [] algo = ALGO_ARGON2 /\ isParent -> FIELD_NONCE
    [] algo = ALGO_POS     -> FIELD_CHECKPOINT
    [] algo \notin {ALGO_SHA256D, ALGO_ARGON2, ALGO_POS} ->
         IF v < 4 THEN FIELD_NONCE ELSE FIELD_CHECKPOINT

\* GetPoWHash(): the hash for the header's own algorithm.
GetPoWHashEnd(v) == PowHashEnd(v, FALSE, GetAlgo(v, -1))

Next ==
  \/ SetNull
  \/ \E a \in AlgoInputs : DoSetAlgo(a)
  \/ \E id \in ChainIdInputs : DoSetChainId(id)
  \/ DoSetUpdateSSF
  \/ \E b \in BOOLEAN : SetAuxpowFlag(b)
  \/ \E b \in BOOLEAN : AttachAuxpow(b)
  \/ \E v \in WireVersions : Deserialize(v)

Spec == Init /\ [][Next]_vars

-----------------------------------------------------------------------------
Int32 == -(2^30) - 2^30 .. 2^30 + (2^30 - 1)

TypeOK == /\ nVersion \in Int32
          /\ pauxpow \in BOOLEAN
          /\ parentAlgo \in Algos \union {-1}
          /\ intent \in Intents

(***************************************************************************)
(* The fields of the version word are independent: on a header built from  *)
(* SetNull, after any sequence of SetChainId, SetUpdateSSF, SetAuxpow and  *)
(* at most one SetAlgo (the spec's condition for SetAlgo, which ORs),      *)
(* GetAlgo returns the algorithm set (QUARK when none), IsAuxpow the last  *)
(* flag set, and the update flag is set iff SetUpdateSSF was called.       *)
(* SetChainId's "%=" must keep the low half, also of a negative nVersion.  *)
(***************************************************************************)
LowFieldsAsSet ==
  /\ intent.fresh /\ Cardinality(intent.algos) <= 1 =>
       GetAlgo(nVersion, -1) = IF intent.algos = {} THEN ALGO_QUARK
                               ELSE CHOOSE a \in intent.algos : TRUE
  /\ IsAuxpow(nVersion) = intent.aux
  /\ IsUpdateSSF(nVersion) = intent.ssf

(***************************************************************************)
(* Every header field a peer receives is covered by the block's proof of   *)
(* work: the range GetPoWHash() hashes reaches at least as far as the      *)
(* fields SerializationOp writes, whatever sequence of SetAlgo,            *)
(* SetChainId, SetUpdateSSF, SetAuxpow and deserialization produced the    *)
(* version word.  A field outside the range could be changed in transit    *)
(* without invalidating the work.  (ARGON2 without the parent flag is left *)
(* out: its hashed length is not defined in this repository.)              *)
(***************************************************************************)
PowCommitsToWire ==
  GetAlgo(nVersion, -1) # ALGO_ARGON2 =>
    WireEnd(nVersion, FALSE) <= GetPoWHashEnd(nVersion)
=============================================================================
