# TLA+ models of the Helix proof-of-work subsystem

These modules model the consensus code of `src/pow.cpp` and what it calls: the
compact target codec, the algorithm weights, the per-algorithm navigator
`get_pprev_algo`, the whole retarget `GetNextWorkRequired` (warm-up, legacy
DGW3, PoS, and the multi-algorithm `GetNextWorkRequiredMpow`),
`CheckProofOfWork`, the merge-mining check, the header version codec, the
network parameters and two RPC reports built on them, and the block index
that txdb.cpp writes to and reloads from disk across a crash. The TLC runs
check them on every chain of a bounded length.

## 1. The system

| Part | Code | State it reads or changes |
|---|---|---|
| Compact codec | `uint256::SetCompact/GetCompact` (uint256.cpp, outside `src/`) | pure: nBits ⇄ 256-bit target, negative/overflow flags |
| Weights | `GetAlgoWeight` (pow.cpp:21) | pure: QUARK 10, ARGON2 4000000, others 1 |
| Navigator | `get_pprev_algo` (pow.cpp:36) | reads the `pprev` chain of `CBlockIndex` |
| Dispatch | `GetNextWorkRequired` (pow.cpp:266) | height chooses the regime: start-up limit, multi-algorithm (from `MultiPow_StartHeight()-1`), PoS exponential, legacy DGW3 |
| Multi-algorithm retarget | `GetNextWorkRequiredMpow` (pow.cpp:57-264) | walks up to 25 same-algorithm ancestors back to the pre-fork anchor |
| PoW check | `CheckProofOfWork` (pow.cpp:363) | range check against `ProofOfWorkLimit()*weight`, then hash ≤ target |
| Merge-mining check | `CheckAuxPowProofOfWork` (pow.cpp:389) | chain id in `nVersion`, auxpow presence, then `CAuxPow::check` and `CheckProofOfWork` |
| AuxPow verifier | `CAuxPow::check`, `getExpectedIndex` (primitives/transaction.cpp:265-403) | the parent coinbase script, the chain merkle branch and its slot |
| Block work | `GetBlockProof` (pow.cpp:455) | `(~t)/(t/weight+1)+1` |
| Header version | `CPureBlockHeader` (primitives/pureheader.h) | int32 `nVersion`: algorithm bits 9-10, auxpow bit 8, chain id from bit 16 |
| Parameters | `CMainParams` and its subclasses (chainparams.cpp:143-492) | limits, fork heights, chain id, skip flag, per network |
| Chain tips | `getchaintips` (rpc/blockchain.cpp:954) | reads `mapBlockIndex` and `chainActive` |
| Block spacing report | `GetAverageBlockSpacing` (rpc/blockchain.cpp:262) | walks back from the tip over one algorithm's blocks |
| Block index database | `CBlockTreeDB::WriteBatchSync`, `CCoinsViewDB::BatchWrite`/`GetBestBlock`, `LoadBlockIndexGuts` (txdb.cpp:51-103, 269-352) | the 'b' records of the block index and the chainstate's best block 'B', in two LevelDB databases; the index is rebuilt from them at start-up |
| Zerocoin database | `CZerocoinDB` (txdb.cpp:354-470) | mint ('m'), spend ('s') and accumulator ('2') records in a third LevelDB database, and `WipeCoins` |
| Other RPCs, transactions | rpc/blockchain.cpp, transaction.cpp | reporting and serialization around the above |

How they interact. Each new block's `nBits` must equal
`GetNextWorkRequired(tip, algo)`, and the block must pass `CheckProofOfWork`.
These acceptance rules are in main.cpp, outside `src/`. So the retarget's
output decides whether the next block of an algorithm can exist at all. It is
fed back into later retargets through `nBits` and the median time past.

Apart from the crash between the two database writes of a flush, the
system has no concurrency to speak of: main.cpp holds `cs_main` around
the flush, the index and the tip. What makes it hard is the sequence of blocks:
- which algorithms arrive;
- in what order;
- with what gaps.

All of this drives the run and surge bookkeeping, the resurrection
multiplier, and the uint256 arithmetic that wraps modulo 2^256.

## 2. Modules

- **CompactCodec**: `SetCompact` (value and flags), `GetCompact` with
  truncation and sign normalisation, uint256 shifts and `MulMod`
  (`operator*=`, modulo 2^W). Written from spec §4.1, because uint256.cpp is
  not under `src/`.
  - The target width is a parameter: `DigitBits` bits per digit (a byte in
    the code), `Digits` digits (32 in the code).
  - The compact layout keeps three mantissa digits under a size field, with
    the top mantissa bit as the sign.
- **Pow**: a translation of pow.cpp over a chain, as a sequence of
  block-index records `[height, algo, time, mtp, bits]`. Entry i-1 is the
  `pprev` of entry i, and 0 is `NULL`.
  - The retarget's `for` loop is `MpowWalk`, one step per iteration over a
    record of the loop's locals:
    - `AnchorStep`: the pre-fork block, which ends the walk;
    - `OtherAlgoStep`: a block of another algorithm;
    - `SameAlgoStep`: a block of the algorithm being retargeted.
  - `RunBelow` is the `pastInRow` loop.
  - `MpowRetarget` is everything after the loop: the surge flags,
    resurrection, the timespan clamp, the three branches on `CountBlocks`,
    and `ClampToLimit`.
  - It returns the encoded bits together with the quantities the decision
    used.
  - The pre-fork regimes follow the same pattern:
    - `DGWWalk`/`DGWStep` is the legacy DGW3 `for` loop, and `DGWDecide` the
      clamp and scaling after it.
    - `PosRetarget` is the PoS branch.
  - `GetNextWorkRequired` is the dispatch on the tip's height:
    - below `LegacyPastBlocks`, the unweighted `ProofOfWorkLimit`;
    - from `MultiPowStartHeight - 1`, the Mpow retarget;
    - above `LAST_POW_BLOCK`, PoS;
    - otherwise, DGW3.
- **MultiPowChain**: the state machine. Its variable `chain` is the block
  index from the tip back to before the fork.
  - `Init`: `MedianSpan` pre-fork PoS blocks. The last of them is the anchor.
  - `GenesisInit`: the genesis block alone (nVersion 1, nBits 0x207fffff,
    the compact form of `ProofOfWorkLimit`).
  - Below the fork, the next block's algorithm is fixed (`PreForkAlgo`):
    QUARK up to `LAST_POW_BLOCK`, PoS after it.
  - `MineBlock(algo, dt)`: a block of `algo` arrives `dt` after the tip.
    - Its `nBits` are `GetNextWorkRequired(tip, algo)`.
    - It must pass `CheckProofOfWork` with the best hash (0).
    - Its time must be above the tip's median time past.
    - Its own median time past is computed like
      `CBlockIndex::GetMedianTimePast`.
  - The module also holds the spec's arbitrary-precision reference
    (`SpecTarget`, with the reference running average `RunningAverage`) and
    the properties. The pre-fork reference is `SpecLegacyTarget` and
    `SpecPosTarget`, taken either in arbitrary precision or modulo 2^W.
- **MC_MultiPowChain**: the bounded instance (its constants and the
  `ChainBound` constraint).
- **MC_GenesisChain**: the chain from genesis through every regime:
  - warm-up at tip heights 0-2;
  - DGW3 over 3 blocks up to height 5;
  - PoS at heights 6-7;
  - Mpow from the fork at 8, up to height 10.
- **HeaderVersion**: the `BLOCK_VERSION_*` layout and every codec
  operation of `CPureBlockHeader` on a full-width two's-complement `int32_t`.
  - An int32 is kept as two 16-bit halves: a signed high half and an
    unsigned low half. `|` and `&` are Bitwise operations on each half, so
    no value leaves TLC's integers.
  - `SetChainId` keeps the C++ truncating `%` (`CRem`) and the wrapping
    product `id * 65536`. `GetChainId` is the arithmetic shift.
- **BlockHeader**: a `CBlockHeader` object as a state machine. Variables:
  `nVersion`; `pauxpow`; `parentAlgo`, the `algoParent` stamped on an
  attached proof's parent.
  - Actions: `SetNull`, `SetAlgo`, `SetChainId`, `SetUpdateSSF`, both
    `SetAuxpow` overloads, and `Deserialize` of a wire version.
    `Deserialize` attaches a proof exactly when bit 8 is set, as
    `SerializationOp` does.
  - Operators `WireEnd` and `PowHashEnd` give the last header field that
    `CPureBlockHeader::SerializationOp` writes and that `GetPoWHash(algo)`
    hashes (fields numbered in declaration order, `nNonce` 6,
    `nAccumulatorCheckpoint` 7). The hashed length of `hash_argon2` without
    the parent flag is defined outside the repository and is left undefined.
  - A history variable `intent` records what the calls since the last
    reset asked for.
- **AuxPow**: `CAuxPow::check` as the first failing reason, in the code's
  order, and `getExpectedIndex`.
  - Hashes are collision-free, so a hash is the value hashed. A chain merkle
    tree is `[height, leaves]`, and its root is the tree itself.
  - `CheckMerkleBranch` over a tree's branch replaces the leaf at
    `nChainIndex mod 2^height`.
  - The coinbase script is a sequence of items with byte lengths: the
    marker (4), a root with its size and nonce (32+8), a root the script
    ends after (32), and padding (4). `std::search` is the first matching
    item.
  - `getExpectedIndex` is computed modulo 2^h. Since 2^h divides 2^32, that
    equals the code's 32-bit unsigned result modulo 2^h.
- **MergeMining**: a node receiving blocks and accepting those
  `CheckAuxPowProofOfWork` passes, with the network's chain id.
  - One foreign parent block (its version and coinbase script) is chosen
    in `Init`, and every merge-mined submission proves its work through it.
    A behaviour is then "what can be done with one parent's work".
  - The two hash-versus-target comparisons are inputs. `CheckProofOfWork`
    itself is modelled in Pow.
- **MC_BlockHeader** and **MC_MergeMining**: the inputs (below).
- **ChainWork**: `GetAlgoWeight` and `GetBlockProof`. The weight divides
  the target at full width: `uint256(algo_weight)` does not wrap in the code.
  Pow extends it.
- **ChainTips**: the block index as a tree, with `pprev` a function over
  the known hashes, and the active chain given by its `tip`.
  - `AddBlock` and `SetTip` stand for main.cpp's index insertion and chain
    activation. They may build any tree and choose any active tip.
  - `GetChainTips` is the RPC's two passes: orphans with their parents,
    then the orphans that are nobody's parent, plus the active tip.
  - BlockIndexStore instantiates it as `Tips`, and checks it on every tree
    the crash-and-reload behaviours build.
- **BlockIndexStore**: the block index across crashes. Memory holds
  `pprev` (mapBlockIndex; `loaded` are the entries with a block's data,
  the others placeholders), `tip` and `dirty` (setDirtyBlockIndex); disk
  holds `diskIndex` (the 'b' records: hash ↦ hashPrev) and `diskBest`
  ('B').
  - `AddBlock`, `SetTip`: ChainTips' actions, while the node runs and no
    flush is between its writes (cs_main).
  - `FlushIndex` is `WriteBatchSync` of the dirty entries; `FlushCoins` is
    `CCoinsViewDB::BatchWrite` writing 'B' = the tip. `flushing` is the
    point between the two in FlushStateToDisk.
  - `Crash` loses memory at any point, the flush included; `LoadStep(h)` is
    one iteration of the `LoadBlockIndexGuts` loop over the 'b' key of h, in
    any key order, with `InsertBlockIndex` creating the parent's placeholder;
    `LoadDone` sets the tip to `GetBestBlock()`.
  - The proof-of-work re-check in the loop is not a step: every record on
    disk passed the same check (Pow, MergeMining) when accepted.
- **BlockIndexAbstract**: what the index promises: a tree rooted at
  genesis that grows by one block (`Add`) or forgets a set of blocks
  nothing remaining builds on (`Forget`). BlockIndexStore refines it with
  the mapping "the in-memory index while running, the disk index while
  loading".
- **MC_BlockIndexStore**: five hashes as model values, two crashes.
- **ZerocoinDB**: `CZerocoinDB` as a function `db` from `<<type, hash>>`
  keys to values, one action per write or erase method and `WipeCoins`,
  with `lastCall`/`lastResult` the last call and what it returned. A
  pubcoin, serial or checksum stands for its (injective) hash; transaction
  hashes are a separate set, as 256-bit hashes of different things are.
  `WipeCoins` is one action: it runs on one thread and deletes only after
  its scan. MC_ZerocoinDB gives two pubcoins, one serial, two transactions
  and one checksum.
- **ChainParams**: the parameter objects of the four networks as records
  of the fields the proof-of-work code reads. `TestNetParams` is
  `MainParams` with the fields `CTestNetParams` assigns replaced, and so on
  down the class hierarchy. `Params(network)` selects one.
  MC_MultiPowChain takes `LAST_POW_BLOCK`, the fork height, the spacing and
  the flags from the test network's record, MC_MergeMining the chain id
  from the main network's. Regtest inherits the testnet fork height 300
  while proof of work "never" ends there (999999999), so from height 299
  the multi-algorithm retarget, PoS blocks included, runs on regtest.
- **ChainReports**: `GetAverageBlockSpacing` over the chains of
  MultiPowChain. `SpacingWalk` is its `for` loop, one call per iteration
  over a record of the loop's locals; the returned double is the fraction
  `nActualTimespan / (averagingInterval * 60)`. MC_GenesisChain extends it.
  `GetDifficulty` keeps its double exactly as `num / den * weight`
  (`DifficultyOf`); `getdifficulty` resolves a height with `chainActive[]`
  (NULL outside the chain, which means the tip), and `BlockDifficulty` is
  the difficulty field of `getblock` and `getblockheader`.
- **CompactCodecCheck**: hands the codec every target of a 12-bit space in
  turn. It checks `GetCompact` against a declarative reference: the greatest
  representable value not above t.

## 3. Runs

| Run | Cfg | Expect | What it shows |
|---|---|---|---|
| multipow_safety | MC_MultiPowChain.cfg | pass | On every chain of up to 5 post-fork blocks (algorithms SHA256D, ARGON2, PoS; gaps 1 and 16; two anchor targets), every algorithm always has a next target `CheckProofOfWork` accepts (`NoAlgoLockedOut`); `get_pprev_algo` returns the nearest on-fork block of the algorithm for every block and algorithm (`NavigatorFindsNearest`); every stored `nBits` is a canonical compact (`TypeOK`). The resurrector fires only when, in median time past, the algorithm's newest block (or the pre-fork anchor when it has none) is more than `resurrectTime` behind the tip (`ResurrectionNeedsAbsence`): the anchor's raw `nTime` (pow.cpp:100) only ever shortens the gap. Deadlock is checked: a state where no algorithm can extend the chain would be reported. |
| retarget_wrap | RetargetWrap.cfg | violation | `RetargetWrapFree`: the code's target differs from the spec's arbitrary-precision one. `bnNew *= nActualTimespan` (pow.cpp:213) wraps, and an easing retarget returns a harder target. |
| resurrection_surge | ResurrectionSurge.cfg | violation | `ResurrectionEases`: an algorithm resurrected after a surge-length run gets `LastDifficultyAlgo/3` (pow.cpp:209), or its last target unchanged when `justHadSurge` holds, where the spec says `×3·gap/resurrectTime`. |
| header_fields | MC_BlockHeader.cfg | pass | Every sequence of header calls and wire versions (1688 states, including negative versions and chain ids): with at most one `SetAlgo` after `SetNull`, `GetAlgo`, `IsAuxpow` and the update flag return what was set (`LowFieldsAsSet`). `SetChainId`'s `%=` keeps the low half of a negative version too (the high half stays all ones there, unlike the spec's "clears bits 16-31"; no caller under src/ sets a chain id on a negative version). The range `GetPoWHash()` hashes reaches every field `SerializationOp` writes (`PowCommitsToWire`); the converse fails for a negative version, whose SHA256D hash covers a checkpoint that is never sent (no run of its own; listed as a hazard). |
| merge_mining | MC_MergeMining.cfg | pass | For 616 parents (chain 1 or chain 0x5C; every tree of height ≤ 1 over four block hashes in every placement `CAuxPow::check` distinguishes), and all submissions of four versions with non-negative chain ids: at most one of our blocks is accepted on one parent's work (`NoDoubleCommit`), and never on a parent claiming our chain id (`NoSelfParent`). |
| merge_mining_negative_version | MergeMiningNegative.cfg | violation | Adding a block version with chain id 0x805D (negative `nVersion`): it skips the chain-id test at pow.cpp:397 and gets its own slot, so the same parent coinbase commits to it and to a 0x5C block. |
| genesis_regimes | MC_GenesisChain.cfg | pass | On every chain from genesis to three blocks past the fork (33279 states), the DGW3 loop and the PoS branch return the spec's formulas evaluated in uint256 arithmetic (`LegacyRetargetAsSpecified`). That covers the window of the last `LegacyPastBlocks` blocks above genesis, the telescoped timespan, both timespan clamps and the regime boundaries. |
| legacy_retarget_wrap | LegacyRetargetWrap.cfg | violation | `LegacyRetargetWrapFree`: the first DGW3 retarget after genesis wraps. `PastDifficultyAveragePrev * CountBlocks` (pow.cpp:325) overflows on targets near `~0>>1`, and the average of three limit targets comes out as 10906 instead of 32752. |
| block_index_restart | MC_BlockIndexStore.cfg | pass | Over five hashes, every interleaving of block additions, tip moves, the two flush writes and up to two crashes with a reload in any key order (118055 states): the chainstate's best block always has a 'b' record, and after a reload the tip is a loaded block (`BestBlockIndexed`); `getchaintips` on the rebuilt index reports exactly the leaves plus the tip with their branch lengths (`RunningTipsReported`); the index refines BlockIndexAbstract, so a reload never invents a block nor keeps a child without its parent (`AbstractIndexSpec`). |
| compact_codec | CompactCodecCheck.cfg | pass | For all 4096 targets: decode(encode(t)) is the greatest representable target ≤ t with clean flags (`EncodeRoundsDown`). `GetBlockProof` never gives less work to a harder target, nor to a heavier algorithm at the same nBits (`BlockWorkOrdered`). So the spec's law decode(encode(t)) = t (section 8) holds only for representable targets: 257 at this scale encodes to a compact that decodes to 256. |
| difficulty_forecast | DifficultyForecast.cfg | violation | `DifficultyForecastKept`: what `getdifficulty(algo, h)` forecasts for the next block equals what `getblock` reports for the block of that algorithm mined at h + 1. It fails at the last pre-fork height: an ARGON2 block at the fork height carries the forecast nBits, but the forecast is unweighted (factor 1) and the report weighted (factor 4000000). `GetDifficulty` weights by whether the given block is on the fork, while `GetNextWorkRequired` switches to weighted targets one height earlier (pow.cpp:283). |
| zerocoin_wipe | ZerocoinWipe.cfg | violation | `WipeCoinsEmpties`: after `WriteCoinMint(c1, t1)`, `WipeCoins("mints")` returns true and `ReadCoinMint(c1)` still finds t1. The scan puts each record's value (a transaction hash) into `setDelete` (txdb.cpp:436-437) and erases `(type, value)` (line 448), a key no record has. |

Each property of a passing run is paired in PROJECT.json with a mutant, a
plausible bug in a mapped definition that TLC catches:
- **SetCompact:** `SetCompact` without the right shift for sizes ≤ 3 breaks
  `TypeOK`.
- **Clamp:** a dropped limit clamp breaks `NoAlgoLockedOut`.
- **Time base:** a walk that takes the other-algorithm time from the first
  block's raw `nTime` instead of its median time past resurrects an
  algorithm early and breaks `ResurrectionNeedsAbsence`.
- **Navigator:** a navigator that starts at `p` rather than `p->pprev` breaks
  `NavigatorFindsNearest`.
- **GetCompact:** `GetCompact` without the sign normalisation breaks both
  codec properties.
- **GetBlockProof:** a `GetBlockProof` dividing the target rather than its
  complement breaks `BlockWorkOrdered`.
- **GetAlgo:** a `GetAlgo` returning the masked bits unshifted breaks
  `BlockHeader`'s `TypeOK`.
- **SetChainId:** a `SetChainId` assigning `id * 65536` instead of keeping the
  low half breaks `LowFieldsAsSet`.
- **GetPoWHash:** inverting the `isParent` test of the SHA256D case breaks
  `PowCommitsToWire`.
- **20-byte rule:** dropping it from `CAuxPow::check` breaks
  `NoDoubleCommit`. With it gone, a script with two roots commits to two
  blocks.
- **Chain-id guard:** dropping pow.cpp:397 breaks `NoSelfParent`.
- **Orphans:** taking every block but the tip as an orphan breaks
  `RunningTipsReported`.
- **Block index store:** an `InsertBlockIndex` without the `hash == 0` test
  makes a NULL entry (`TypeOK`); writing 'B' without first syncing the index
  batch breaks `BestBlockIndexed`; a `WriteBatchSync` that writes one dirty
  entry and clears them all loses a block a later one builds on
  (`AbstractIndexSpec`).
- **DGW3 step:** a `DGWStep` that keeps `LastBlockTime` from the first
  iteration breaks `LegacyRetargetAsSpecified`.

## 4. Bounds and scaling

TLC's integers are 32 bits, so the 256-bit target space is scaled:
- **Target width.** W = 16 bits: 4-bit digits, 4 digits. `MulMod` splits the
  factor into bytes so every intermediate fits.
- **What scaling keeps.** It keeps the structure that matters:
  - `ProofOfWorkLimit = ~0 >> 1`.
  - `limit * weight` wraps for QUARK and ARGON2, to 2^W − 10 and
    2^W − 2304 (ARGON2's weight modulo 2^16 is 2304).
  - A target above 2^W / nActualTimespan wraps when scaled.
  - At full scale the same holds with 2^256.
- **Anchors.** The anchor targets (0x400, 0x100) obey the code's pre-fork PoS
  limit `~0 >> 24`, so the first PoS retarget's `×60` cannot wrap, as in the
  code.
- **Minimum difficulty.** `0x1d00ffff` becomes size 4 with mantissa 0x0ff.
- **Time constants.** They keep the code's ratios:
  - resurrection after 10 target spacings (PoW spacing 3, PoS 1);
  - window `PastBlocks` = 3 (25 in the code);
  - surge runs of 2 (PoW) and 3 (PoS);
  - `MedianSpan` = 3 (11).
- **Why the bounds are enough.** With 5 post-fork blocks and gaps {1, 16},
  every branch of the retarget is reached, and we checked that with probe
  invariants:
  - the full-window timespan retarget;
  - the 2..24 branch;
  - the first-block branch;
  - the surge protector;
  - `justHadSurge`;
  - resurrection, also in the full-window branch.
- **Heights.** In MC_MultiPowChain they are the test network's, taken from
  `ChainParams`: proof of work to 150, the fork at 300; `nForkHeight` = 200.
  The testnet surge override applies above 1232, beyond these chains.
- **Genesis run.** MC_GenesisChain scales the heights down so that every
  regime gets blocks:
  - DGW3 window 3 (24 in the code);
  - `LAST_POW_BLOCK` 5;
  - fork at 8;
  - `TargetSpacing` 4.
  With gaps {1, 16}, the DGW3 timespan falls below T/3, inside the range
  and at 3T. The PoS spacing falls below and above the target.
  `PosLimitShift` 6 makes the PoS limit 0x3ff, the analogue of `~0>>24`.

**Merge-mining inputs.**
- **Versions.** The block versions are merge-mined SHA256D with chain id
  0x5C (the network's), 0x5D (foreign), QUARK with 0x5C, and plain SHA256D;
  the negative-version run adds 0x805D.
- **Slots.** The multiplier 1103515245 and the increment 12345 are odd, so
  in a height-1 tree the slot is (nonce + chain id) mod 2. The two slots of
  such a tree are therefore reachable by chain ids of different parity,
  and the runs include both parities.
- **Scripts.** They cover every branch of lines 329-373: root first, after
  the marker, after 20 bytes (the boundary) and after 24, marker not
  adjacent, two markers, no size and nonce, wrong size, and two roots in
  every arrangement.

**Block index inputs.** Five hashes (genesis and four) give trees of depth
four, forks, a child flushed before or after its parent, and reloads whose
key order puts a child before its parent; two crashes reach a crash during
a reload and a reload of an index flushed after a first restart. No symmetry
is declared: the refinement property names the hashes.

**Fairness.** None is assumed. Every property checked is a safety
property (invariants, and `AbstractIndexSpec`, whose abstract specification
has no fairness either): adding blocks, moving the tip, flushing, crashing and
reloading are all steps the program may or may not take next.

## 5. Not modelled yet, and the plan

Planned next, in this order:
1. **A testnet configuration above height 1232** (pow.cpp:181), where
   `justHadSurge` is forced off.
2. **The reload's proof-of-work re-check** (txdb.cpp:323-327), which
   re-checks only at PoW heights, for non-PoS blocks of version above 3:
   a block accepted before the restart is re-checked with the parameters of
   the restarted node.

Not modelled, by design:
- The rest of txdb.cpp: the coin records, file info, txindex, address,
  spent-index, flag and reindex records are plain reads and writes nothing modelled depends on. The `pnext` link
  loaded from `hashNext` is left out: `CDiskBlockIndex` is not under
  `src/`. LevelDB batches are atomic, so a crash keeps a batch whole or
  drops it.
- The other RPCs. The hashrates, `GetNBlocksUpdateSSF` and
  `GetMoneySupply` read `update_ssf_next`, `nSSF` and `nMoneySupplyAlgo`,
  which chain.h and main.cpp keep outside `src/` and the spec does not
  describe.
- The spacing report's divisor: it divides the span of `interval` samples,
  `interval - 1` gaps apart, by `interval` (and by `interval` still when the
  algorithm has fewer blocks). The RPC help calls the
  result the average spacing over an interval of blocks, which disagrees with
  that divisor; `GetAverageBlockSpacing` models the code, and no run checks
  the report against the help. `getchaintips`' status strings
  read `nStatus` flags that main.cpp maintains.
- Transaction serialization and value sums. `GetValueOut`'s wrap test (transaction.cpp:150) is itself a signed overflow an optimiser may fold away; whether a sum that large reaches it depends on main.cpp's `MoneyRange` checks, outside `src/`.
- Hashing: a hash is abstracted to the best case, 0, in `MultiPowChain`, and to a collision-free value in `AuxPow`. `GetPoWHash`'s per-algorithm byte ranges are modelled (`PowHashEnd`), its hash functions are not.
- `GetAlgoName` (strings).
- A PoS block with the same `nTime` as its parent (spacing 0, which the
  code does not floor to 1, unlike the spec). It needs a time step of 0,
  which the runs leave out to keep the state space small.
- The warm-up returns the unweighted `ProofOfWorkLimit` (pow.cpp:279),
  whereas spec §4.4 item 1 says "scaled by the algorithm's weight". Before
  the fork only QUARK and PoS blocks exist, so this never locks anything out.
- main.cpp's acceptance rules, beyond what `MineBlock` states from the spec.
