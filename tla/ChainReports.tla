---------------------------- MODULE ChainReports -----------------------------
(***************************************************************************)
(* The per-algorithm chain statistics the RPC layer reports                *)
(* (rpc/blockchain.cpp), computed over the chains of MultiPowChain.        *)
(* GetAverageBlockSpacing walks back from the tip over the blocks of one   *)
(* algorithm (algo >= 0) or over all blocks (algo = -1); a block below the *)
(* multi-algorithm fork has no algorithm for it (block_algo = -1).  The    *)
(* returned double is kept as the fraction num / den.                      *)
(***************************************************************************)
EXTENDS MultiPowChain

\* The loop's locals: CountBlocks, nActualTimespan, LastBlockTime.
SpacingStart == [CountBlocks |-> 0, nActualTimespan |-> 0, LastBlockTime |-> 0]

\* The sample step: the first counted block fixes LastBlockTime, every later
\* one overwrites the timespan with LastBlockTime minus its own median time.
SpacingSample(ch, i, s) ==
  [ CountBlocks     |-> s.CountBlocks + 1,
    nActualTimespan |-> IF s.LastBlockTime > 0 THEN s.LastBlockTime - ch[i].mtp
                        ELSE s.nActualTimespan,
    LastBlockTime   |-> IF s.LastBlockTime > 0 THEN s.LastBlockTime ELSE ch[i].mtp ]

(***************************************************************************)
(* The for loop of GetAverageBlockSpacing from chain index i (0 is NULL):  *)
(* it stops at genesis, at a NULL pprev, or once averagingInterval blocks  *)
(* are counted; a block of another algorithm is stepped over.              *)
(***************************************************************************)
RECURSIVE SpacingWalk(_, _, _, _, _)
SpacingWalk(ch, algo, averagingInterval, i, s) ==
  IF i = 0 \/ ch[i].height <= 0 \/ s.CountBlocks >= averagingInterval THEN s
  ELSE LET block_algo == IF OnFork(ch, i) THEN ch[i].algo ELSE -1
       IN IF algo >= 0 /\ block_algo # algo
          THEN SpacingWalk(ch, algo, averagingInterval, i - 1, s)
          ELSE SpacingWalk(ch, algo, averagingInterval, i - 1, SpacingSample(ch, i, s))

\* GetAverageBlockSpacing(tip, algo, averagingInterval), in minutes:
\* nActualTimespan / averagingInterval / 60; 0 for an interval of at most 1.
GetAverageBlockSpacing(ch, algo, averagingInterval) ==
  IF averagingInterval <= 1 THEN [num |-> 0, den |-> 1]
  ELSE LET s == SpacingWalk(ch, algo, averagingInterval, Len(ch), SpacingStart)
       IN [num |-> s.nActualTimespan, den |-> averagingInterval * 60]


-----------------------------------------------------------------------------
(***************************************************************************)
(* GetDifficulty's double, kept exactly as num / den * weight: 0xffff      *)
(* over the 24 low bits of nBits, times 256 for each step the size field   *)
(* is below 29 and over 256 for each step above.  0xffff and 29 are the    *)
(* mantissa and the size of the minimum-difficulty nBits 0x1d00ffff.       *)
(***************************************************************************)
DifficultyOf(nBits, weight) ==
  LET nShift == nBits \div MantMod
      shift1 == MinDiffBits \div MantMod
  IN [num    |-> (MinDiffBits % MantMod)
                   * 2^(DigitBits * (IF nShift < shift1 THEN shift1 - nShift ELSE 0)),
      den    |-> (nBits % MantMod)
                   * 2^(DigitBits * (IF nShift > shift1 THEN nShift - shift1 ELSE 0)),
      weight |-> weight]

(***************************************************************************)
(* GetDifficulty(blockindex, algo, weighted, next): NULL means the tip, a  *)
(* negative algo the block's own.  next asks GetNextWorkRequired on the    *)
(* block; otherwise a block on the fork of another algorithm is replaced   *)
(* by its nearest ancestor of algo (every caller passing next = false      *)
(* passes algo -1, so that ancestor is never NULL), and the genesis block  *)
(* reports the weighted limit.  The weight multiplies the result only when *)
(* the block itself is on the fork.                                       *)
(***************************************************************************)
GetDifficulty(ch, blockindex, algo, weighted, next) ==
  LET i           == IF blockindex = NULL THEN Len(ch) ELSE blockindex
      a           == IF algo < 0 THEN ch[i].algo ELSE algo
      algoWeight  == IF weighted THEN GetAlgoWeight(a) ELSE 1
      blockOnFork == ch[i].height > 0 /\ OnFork(ch, i)
      j           == IF blockOnFork /\ ch[i].algo # a THEN get_pprev_algo(ch, i, a) ELSE i
      nBits       == IF next THEN GetNextWorkRequired(SubSeq(ch, 1, i), a)
                     ELSE IF ch[i].height > 0 THEN ch[j].bits
                     ELSE GetCompact(MulMod(ProofOfWorkLimit, algoWeight))
  IN DifficultyOf(nBits, IF blockOnFork THEN algoWeight ELSE 1)

\* chainActive[height]: the block at that height, NULL outside the chain.
ChainActiveAt(ch, height) ==
  IF \E i \in 1..Len(ch) : ch[i].height = height
  THEN CHOOSE i \in 1..Len(ch) : ch[i].height = height ELSE NULL

\* getdifficulty(algo, height): a negative height (or none) asks for the tip;
\* the weighted difficulty of the next block after the block at height.
getdifficulty(ch, algo, height) ==
  GetDifficulty(ch, IF height >= 0 THEN ChainActiveAt(ch, height) ELSE NULL,
                algo, TRUE, TRUE)

\* The "difficulty" field of getblock and getblockheader (blockToJSON,
\* blockheaderToJSON): the block's own weighted difficulty.
BlockDifficulty(ch, i) == GetDifficulty(ch, i, -1, TRUE, FALSE)

(***************************************************************************)
(* What getdifficulty forecasts for algorithm a at height h is what        *)
(* getblock then reports for the block of a mined at h + 1: both read the  *)
(* same nBits (the block must carry GetNextWorkRequired's target), and the *)
(* forecast is weighted as the report is.                                  *)
(***************************************************************************)
DifficultyForecastKept ==
  \A i \in 1..Len(chain) - 1 :
    getdifficulty(chain, chain[i + 1].algo, chain[i].height) = BlockDifficulty(chain, i + 1)
=============================================================================
