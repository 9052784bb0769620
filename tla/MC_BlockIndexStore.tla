-------------------------- MODULE MC_BlockIndexStore --------------------------
(***************************************************************************)
(* Block trees of up to five blocks, with up to two crashes anywhere: in   *)
(* the middle of a flush, during a reload, or after it.                    *)
(***************************************************************************)
EXTENDS BlockIndexStore

CONSTANTS g, h1, h2, h3, h4

MCHashes == {g, h1, h2, h3, h4}
=============================================================================
