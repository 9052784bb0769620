--------------------------- MODULE BlockIndexStore ---------------------------
(***************************************************************************)
(* The block index across a crash and restart.  In memory: mapBlockIndex   *)
(* (pprev, with loaded the entries that hold a block's data; the others    *)
(* are placeholders InsertBlockIndex made for a parent not yet read) and   *)
(* chainActive's tip, both as in ChainTips.  On disk: the block-tree       *)
(* database's 'b' records (diskIndex) and the chainstate's best block 'B'  *)
(* (diskBest), two LevelDB databases written by two separate batches.      *)
(*                                                                         *)
(* FlushStateToDisk (main.cpp) writes the dirty index entries with         *)
(* CBlockTreeDB::WriteBatchSync and then the chainstate with               *)
(* CCoinsViewDB::BatchWrite; it holds cs_main, so no block is added and no *)
(* tip set between the two, but the process can die there.  After a crash *)
(* LoadBlockIndexGuts reads the 'b' records back in key (hash) order, one  *)
(* per loop iteration, and LoadBlockIndexDB (main.cpp) sets the tip to the *)
(* chainstate's best block.  Every record on disk was accepted by the same *)
(* proof-of-work checks the loop repeats, so the re-check passes and is    *)
(* not a step of its own here (Pow and MergeMining model those checks).    *)
(***************************************************************************)
EXTENDS Integers, FiniteSets, TLC

CONSTANTS
  Hashes, Genesis, NULL,
  MaxCrashes     \* crashes per behaviour

VARIABLES
  pprev, tip,        \* mapBlockIndex and chainActive.Tip()
  loaded,            \* entries holding a block's data
  dirty,             \* setDirtyBlockIndex
  flushing,          \* FlushStateToDisk between its two writes
  diskIndex,         \* the 'b' records: hash -> hashPrev
  diskBest,          \* the chainstate's 'B' record
  phase,             \* "running" or "loading"
  pending,           \* the 'b' keys the load cursor has not reached
  crashes

vars == <<pprev, tip, loaded, dirty, flushing, diskIndex, diskBest, phase, pending, crashes>>

Tips == INSTANCE ChainTips

Init ==
  /\ pprev = (Genesis :> NULL) /\ tip = Genesis /\ loaded = {Genesis}
  /\ dirty = {} /\ flushing = FALSE
  /\ diskIndex = (Genesis :> NULL) /\ diskBest = Genesis
  /\ phase = "running" /\ pending = {} /\ crashes = 0

Idle == phase = "running" /\ ~flushing   \* cs_main is free

\* AddToBlockIndex: the new entry is marked dirty.
AddBlock(h, p) ==
  /\ Idle
  /\ Tips!AddBlock(h, p)
  /\ loaded' = loaded \union {h}
  /\ dirty' = dirty \union {h}
  /\ UNCHANGED <<flushing, diskIndex, diskBest, phase, pending, crashes>>

\* ActivateBestChain / InvalidateBlock / ReconsiderBlock move the tip.
SetTip(b) ==
  /\ Idle
  /\ Tips!SetTip(b)
  /\ UNCHANGED <<loaded, dirty, flushing, diskIndex, diskBest, phase, pending, crashes>>

\* Mutation of FlushIndex: the batch holds one dirty entry, all are cleared.
FlushIndexOne ==
  /\ Idle
  /\ diskIndex' = IF dirty = {} THEN diskIndex
                   ELSE LET h == CHOOSE x \in dirty : TRUE IN (h :> pprev[h]) @@ diskIndex
  /\ dirty' = {} /\ flushing' = TRUE
  /\ UNCHANGED <<pprev, tip, loaded, diskBest, phase, pending, crashes>>

\* WriteBatchSync(vFiles, nLastBlockFile, vBlocks): one synced batch of a
\* 'b' record (CDiskBlockIndex) per dirty entry; the dirty set is emptied.
FlushIndex ==
  /\ Idle
  /\ diskIndex' = [h \in dirty |-> pprev[h]] @@ diskIndex
  /\ dirty' = {} /\ flushing' = TRUE
  /\ UNCHANGED <<pprev, tip, loaded, diskBest, phase, pending, crashes>>

\* Mutation of FlushCoins: the chainstate is written without the index first.
FlushCoinsUnordered ==
  /\ phase = "running"
  /\ diskBest' = tip /\ flushing' = FALSE
  /\ UNCHANGED <<pprev, tip, loaded, dirty, diskIndex, phase, pending, crashes>>

\* CCoinsViewDB::BatchWrite(mapCoins, hashBlock): BatchWriteHashBestChain
\* writes 'B' = the tip in the same batch as the coins.
FlushCoins ==
  /\ phase = "running" /\ flushing
  /\ diskBest' = tip /\ flushing' = FALSE
  /\ UNCHANGED <<pprev, tip, loaded, dirty, diskIndex, phase, pending, crashes>>

\* The process dies: memory is lost, the synced batches stay; at restart
\* the cursor is positioned at the first 'b' key.
Crash ==
  /\ crashes < MaxCrashes
  /\ pprev' = [h \in {} |-> NULL] /\ tip' = NULL /\ loaded' = {}
  /\ dirty' = {} /\ flushing' = FALSE
  /\ phase' = "loading" /\ pending' = DOMAIN diskIndex
  /\ crashes' = crashes + 1
  /\ UNCHANGED <<diskIndex, diskBest>>

\* Mutation of InsertBlockIndex: the hash == 0 test is left out.
InsertBlockIndexNoNullTest(m, h) ==
  IF h \in DOMAIN m THEN m ELSE m @@ (h :> NULL)

\* InsertBlockIndex(hash): NULL for hash 0, the existing entry, or a new
\* empty one.
InsertBlockIndex(m, h) ==
  IF h = NULL \/ h \in DOMAIN m THEN m ELSE m @@ (h :> NULL)

(***************************************************************************)
(* One iteration of the LoadBlockIndexGuts loop on the 'b' record of h:    *)
(* the entry for h and, through InsertBlockIndex(hashPrev), one for its    *)
(* parent; the fields of the record are copied into h's entry.             *)
(***************************************************************************)
LoadStep(h) ==
  /\ phase = "loading" /\ h \in pending
  /\ pprev' = [InsertBlockIndex(InsertBlockIndex(pprev, h), diskIndex[h])
                 EXCEPT ![h] = diskIndex[h]]
  /\ loaded' = loaded \union {h}
  /\ pending' = pending \ {h}
  /\ UNCHANGED <<tip, dirty, flushing, diskIndex, diskBest, phase, crashes>>

\* The cursor is past the last 'b' key; LoadBlockIndexDB sets the tip to
\* the block pcoinsTip->GetBestBlock() names, if the index has it.
LoadDone ==
  /\ phase = "loading" /\ pending = {}
  /\ phase' = "running"
  /\ tip' = IF diskBest \in DOMAIN pprev THEN diskBest ELSE NULL
  /\ UNCHANGED <<pprev, loaded, dirty, flushing, diskIndex, diskBest, pending, crashes>>

Next ==
  \/ \E h \in Hashes, p \in DOMAIN pprev : AddBlock(h, p)
  \/ \E b \in DOMAIN pprev : SetTip(b)
  \/ FlushIndex
  \/ FlushCoins
  \/ Crash
  \/ \E h \in pending : LoadStep(h)
  \/ LoadDone

Spec == Init /\ [][Next]_vars

-----------------------------------------------------------------------------
TypeOK ==
  /\ DOMAIN pprev \subseteq Hashes /\ \A h \in DOMAIN pprev : pprev[h] \in Hashes \union {NULL}
  /\ loaded \subseteq DOMAIN pprev /\ dirty \subseteq loaded
  /\ DOMAIN diskIndex \subseteq Hashes /\ diskBest \in Hashes
  /\ phase \in {"running", "loading"} /\ pending \subseteq DOMAIN diskIndex
  /\ flushing \in BOOLEAN /\ crashes \in 0..MaxCrashes

(***************************************************************************)
(* The chainstate never names a best block the block-tree database lacks,  *)
(* whenever the process dies, and after a restart the active tip is a      *)
(* loaded block: FlushStateToDisk must sync the index batch before the     *)
(* chainstate batch, and LoadBlockIndexDB finds the best block in the      *)
(* index the loop rebuilt.                                                 *)
(***************************************************************************)
BestBlockIndexed ==
  /\ diskBest \in DOMAIN diskIndex
  /\ phase = "running" => tip \in loaded

(***************************************************************************)
(* Once loading is done, getchaintips reports the tips of the rebuilt      *)
(* tree (ChainTips' ChainTipsReported on the same mapBlockIndex).          *)
(***************************************************************************)
RunningTipsReported == phase = "running" => Tips!ChainTipsReported

(***************************************************************************)
(* Refinement: the index the node works with (in memory while running, on  *)
(* disk while it restarts) behaves as BlockIndexAbstract: a crash loses    *)
(* only blocks nothing remembered builds on, and the reload rebuilds       *)
(* exactly the remembered tree, with no entry for a block it never read.   *)
(***************************************************************************)
Abs == INSTANCE BlockIndexAbstract WITH index <- IF phase = "running" THEN pprev ELSE diskIndex

AbstractIndexSpec == Abs!Spec

=============================================================================
