-------------------------------- MODULE Pow ---------------------------------
(***************************************************************************)
(* src/pow.cpp: algorithm weights, the per-algorithm ancestor navigator    *)
(* get_pprev_algo, the multi-algorithm retarget GetNextWorkRequiredMpow    *)
(* and CheckProofOfWork, as pure operators over a chain.                   *)
(*                                                                         *)
(* A chain is a sequence of block-index records; the parent (pprev) of     *)
(* entry i is entry i-1 and index 0 stands for NULL.  A record carries     *)
(* what the code reads from a CBlockIndex: nHeight, the algorithm,         *)
(* nTime, the median time past and nBits.                                  *)
(***************************************************************************)
EXTENDS Integers, Sequences, ChainWork

CONSTANTS
  MultiPowStartHeight,  \* Params().MultiPow_StartHeight(): onFork() from here
  nForkHeight,          \* the "min fork height" literal of the walk (200)
  PastBlocks,           \* PastBlocksMin = PastBlocksMax (25)
  DGWTimespanPoW,       \* 30*60: per-block target spacing of a PoW algorithm
  DGWTimespanPoS,       \* 67: per-block target spacing of PoS
  InRowSurgePoW,        \* 9: run length that counts as a PoW surge
  InRowSurgePoS,        \* 95: run length that counts as a PoS surge
  MinDiffBits,          \* 0x1d00ffff: the minimum-difficulty compact target
  IsTestnet,            \* Params().NetworkID() == CBaseChainParams::TESTNET
  SkipProofOfWorkCheck, \* Params().SkipProofOfWorkCheck()
  LAST_POW_BLOCK,       \* Params().LAST_POW_BLOCK(): the last PoW height
  LegacyPastBlocks,     \* PastBlocksMin = PastBlocksMax (24) of the legacy DGW3
  TargetSpacing,        \* Params().TargetSpacing() (60)
  PosTargetSpacing,     \* nTargetSpacing of the PoS regime (60)
  PosTargetTimespan,    \* nTargetTimespan of the PoS regime (60*40)
  PosLimitShift         \* bnTargetLimit = ~uint256(0) >> 24

ASSUME /\ nForkHeight <= MultiPowStartHeight
       /\ PastBlocks \in Nat \ {0, 1}
       /\ IsTestnet \in BOOLEAN /\ SkipProofOfWorkCheck \in BOOLEAN
       /\ LegacyPastBlocks \in Nat \ {0} /\ TargetSpacing \in Nat \ {0}
       /\ PosTargetTimespan \div PosTargetSpacing >= 1

NULL == 0   \* the chain index standing for a NULL CBlockIndex*

\* Params().ProofOfWorkLimit() is ~uint256(0) >> 1 on every network.
ProofOfWorkLimit == MaxTarget \div 2

\* ProofOfWorkLimit()*algoWeight, a uint256 product: it wraps for weight > 1.
WeightedLimit(algo) == MulMod(ProofOfWorkLimit, GetAlgoWeight(algo))

\* CBlockIndex::onFork(): the block is at or above the multi-algorithm start.
OnFork(ch, i) == ch[i].height >= MultiPowStartHeight

(***************************************************************************)
(* get_pprev_algo(p, use_algo): the nearest strict ancestor of p mined by  *)
(* use_algo (p's own algorithm when use_algo < 0), looking only while the  *)
(* ancestors are on the fork.  NULL for a NULL or pre-fork p.              *)
(***************************************************************************)
RECURSIVE PrevAlgoFrom(_, _, _)
PrevAlgoFrom(ch, i, algo) ==
  IF i = NULL \/ ~OnFork(ch, i) THEN NULL
  ELSE IF ch[i].algo = algo THEN i
  ELSE PrevAlgoFrom(ch, i - 1, algo)

\* Mutation of get_pprev_algo: the search starts at p instead of p->pprev.
get_pprev_algo_from_self(ch, p, use_algo) ==
  IF p = NULL \/ ~OnFork(ch, p) THEN NULL
  ELSE PrevAlgoFrom(ch, p, IF use_algo >= 0 THEN use_algo ELSE ch[p].algo)

get_pprev_algo(ch, p, use_algo) ==
  IF p = NULL \/ ~OnFork(ch, p) THEN NULL
  ELSE PrevAlgoFrom(ch, p - 1, IF use_algo >= 0 THEN use_algo ELSE ch[p].algo)

(***************************************************************************)
(* The per-algorithm constants of GetNextWorkRequiredMpow.                 *)
(***************************************************************************)
DGWTimespan(algo)  == IF algo = ALGO_POS THEN DGWTimespanPoS ELSE DGWTimespanPoW
InRowSurge(algo)   == IF algo = ALGO_POS THEN InRowSurgePoS ELSE InRowSurgePoW
ResurrectTime(algo) == 10 * DGWTimespan(algo)   \* 300*60 resp. 10*67

(***************************************************************************)
(* The walk of GetNextWorkRequiredMpow: one iteration of the for loop per  *)
(* step, over the loop's local variables kept in a record.  "reading" is   *)
(* BlockReading; "broke" records a break.                                  *)
(***************************************************************************)
MpowStart(ch) ==
  [ reading |-> Len(ch), broke |-> FALSE,
    nActualTimespan |-> 0, LastBlockTime |-> 0, CountBlocks |-> 0,
    PastDifficultyAverage |-> 0, PastDifficultyAveragePrev |-> 0,
    LastDifficultyAlgo |-> 0, time_since_last_algo |-> -1,
    LastBlockTimeOtherAlgos |-> 0,
    lastInRow |-> 0, lastInRowDone |-> FALSE,
    nInRow |-> 0, nInRowDone |-> FALSE ]

\* A run shorter than the surge threshold is forgotten; a longer one stops
\* the count (the if/else on nInRow at each break in the run).
EndRun(s, algo) ==
  [ s EXCEPT !.nInRow     = IF s.nInRow < InRowSurge(algo) THEN 0 ELSE @,
             !.nInRowDone = @ \/ s.nInRow >= InRowSurge(algo) ]

\* The last block before the fork: close the timespan and the gap, stop.
AnchorStep(ch, algo, s) ==
  LET b == ch[s.reading]
  IN EndRun([ s EXCEPT
        !.nActualTimespan = IF s.LastBlockTime > 0 THEN s.LastBlockTime - b.time ELSE @,
        !.time_since_last_algo =
            IF s.LastBlockTimeOtherAlgos > 0 /\ @ = -1
            THEN s.LastBlockTimeOtherAlgos - b.time ELSE @,
        !.CountBlocks = @ + 1,
        !.broke = TRUE ], algo)

\* A block of another algorithm: skip it; it ends the runs being counted.
OtherAlgoStep(s, algo) ==
  EndRun([ s EXCEPT !.reading = @ - 1,
                    !.lastInRowDone = @ \/ s.CountBlocks # 0 ], algo)

\* A block of the algorithm: average its target in and count the runs.
SameAlgoStep(ch, algo, s) ==
  LET b      == ch[s.reading]
      target == Decode(b.bits)
      cb     == s.CountBlocks + 1
      first  == cb = 1
      inWin  == cb <= PastBlocks
      avg    == IF first THEN target
                ELSE ((MulMod(s.PastDifficultyAveragePrev, cb - 1) + target)
                        % TargetMod) \div cb
      s1 == [ s EXCEPT
              !.LastDifficultyAlgo = IF s.CountBlocks = 0 THEN target ELSE @,
              !.CountBlocks = cb,
              !.nInRow    = IF s.nInRowDone THEN @ ELSE @ + 1,
              !.lastInRow = IF s.lastInRowDone THEN @ ELSE @ + 1,
              !.PastDifficultyAverage     = IF inWin THEN avg ELSE @,
              !.PastDifficultyAveragePrev = IF inWin THEN avg ELSE @,
              !.time_since_last_algo =
                  IF inWin /\ first /\ s.LastBlockTimeOtherAlgos > 0
                  THEN s.LastBlockTimeOtherAlgos - b.mtp ELSE @,
              !.LastBlockTime = IF inWin /\ first THEN b.mtp ELSE @ ]
      stop == s.reading - 1 = NULL \/ cb >= PastBlocks
  IN [ s1 EXCEPT
       !.nActualTimespan = IF stop /\ s1.LastBlockTime > 0
                           THEN s1.LastBlockTime - b.mtp ELSE @,
       !.broke   = stop,
       !.reading = IF stop THEN @ ELSE @ - 1 ]

\* Mutation of MpowStep: the other-algorithm time is the raw nTime
\* (GetBlockTime) of the first on-fork block, not its median time past.
MpowStepRawTime(ch, algo, s) ==
  IF ~OnFork(ch, s.reading) THEN AnchorStep(ch, algo, s)
  ELSE LET s1 == IF s.LastBlockTimeOtherAlgos = 0
                 THEN [s EXCEPT !.LastBlockTimeOtherAlgos = ch[s.reading].time]
                 ELSE s
       IN IF ch[s.reading].algo # algo THEN OtherAlgoStep(s1, algo)
          ELSE SameAlgoStep(ch, algo, s1)

MpowStep(ch, algo, s) ==
  IF ~OnFork(ch, s.reading) THEN AnchorStep(ch, algo, s)
  ELSE LET s1 == IF s.LastBlockTimeOtherAlgos = 0
                 THEN [s EXCEPT !.LastBlockTimeOtherAlgos = ch[s.reading].mtp]
                 ELSE s
       IN IF ch[s.reading].algo # algo THEN OtherAlgoStep(s1, algo)
          ELSE SameAlgoStep(ch, algo, s1)

RECURSIVE MpowWalk(_, _, _)
MpowWalk(ch, algo, s) ==
  IF s.broke \/ s.reading = NULL \/ ch[s.reading].height < nForkHeight - 1
  THEN s
  ELSE MpowWalk(ch, algo, MpowStep(ch, algo, s))

\* Consecutive on-fork blocks of algo from index i down (the BlockPast loop).
RECURSIVE RunBelow(_, _, _)
RunBelow(ch, algo, i) ==
  IF i = NULL \/ ch[i].algo # algo \/ ~OnFork(ch, i) THEN 0
  ELSE 1 + RunBelow(ch, algo, i - 1)

(***************************************************************************)
(* After the loop: pastInRow (the BlockPast loop), the surge flags, the    *)
(* resurrection multiplier and the clamped nActualTimespan, for the walk's *)
(* final locals s.                                                         *)
(***************************************************************************)
MpowFlags(ch, algo, s) ==
  LET surge     == InRowSurge(algo)
      extend    == /\ \/ s.nInRow # 0 /\ ~s.nInRowDone
                      \/ s.lastInRow # 0 /\ ~s.lastInRowDone
                   /\ s.reading # NULL
      pastInRow == IF extend THEN RunBelow(ch, algo, s.reading - 1) ELSE 0
      lastInRow == IF extend /\ ~s.lastInRowDone THEN s.lastInRow + pastInRow
                   ELSE s.lastInRow
      tsla      == s.time_since_last_algo
      smultiply == tsla > ResurrectTime(algo)
      T         == (s.CountBlocks - 1) * DGWTimespan(algo)
  IN [ lastInRow    |-> lastInRow,
       \* lastInRow>=nInRowSurge && !lastInRowMod: the surge protector
       surgeProtect |-> lastInRow >= surge /\ lastInRow % surge = 0,
       justHadSurge |->
         /\ \/ s.nInRow >= surge
            \/ /\ s.nInRow # 0 /\ pastInRow # 0
               /\ s.nInRow + pastInRow >= surge /\ pastInRow % surge # 0
         /\ ~(IsTestnet /\ ch[Len(ch)].height > 1232),
       tsla |-> tsla, smultiply |-> smultiply,
       smultiplier |-> IF smultiply THEN tsla \div ResurrectTime(algo) ELSE 1,
       TargetTimespan |-> T ]

\* The two clamps of nActualTimespan, after resurrection has replaced it.
ClampTimespan(s, f) ==
  LET T    == f.TargetTimespan
      act1 == IF f.smultiply THEN 10 * f.smultiplier * T ELSE s.nActualTimespan
      act2 == IF act1 < T \div 3 \/ f.surgeProtect THEN T \div 3 ELSE act1
  IN IF act2 > T * 3 THEN f.smultiplier * T * 3 ELSE act2

\* The target of the first block of an algorithm after the fork.
FirstBase(ch, algo, s) ==
  IF algo = ALGO_POS
  THEN MulMod(Decode(ch[s.reading].bits), 60 * GetAlgoWeight(algo))
         \div (67 * GetAlgoWeight(ALGO_POS))
  ELSE MulMod(Decode(MinDiffBits), GetAlgoWeight(algo)) \div 128

\* bnNew before the limit clamp: the three branches on CountBlocks.
MpowTarget(ch, algo, s, f, act) ==
  LET bnNew0 == IF f.justHadSurge \/ f.smultiply THEN s.LastDifficultyAlgo
                ELSE s.PastDifficultyAverage
      resurrected(x) == IF f.smultiply THEN MulMod(x, f.smultiplier * 3) ELSE x
  IN CASE s.CountBlocks >= PastBlocks ->
            IF f.surgeProtect THEN bnNew0 \div 3
            ELSE IF ~f.justHadSurge THEN MulMod(bnNew0, act) \div f.TargetTimespan
            ELSE bnNew0
       [] s.CountBlocks = 1 -> resurrected(FirstBase(ch, algo, s))
       [] OTHER ->
            IF f.surgeProtect THEN resurrected(bnNew0) \div 3 ELSE resurrected(bnNew0)

\* The clamp closing the retarget: bnNew > ProofOfWorkLimit()*algoWeight
\* falls back to that (wrapped) product; the ~uint256(0) clamp after it can
\* never fire on a uint256 and is left out.
\* Mutation of ClampToLimit: the clamp is forgotten.
ClampToLimitDropped(algo, t) == t
ClampToLimit(algo, t) == IF t > WeightedLimit(algo) THEN WeightedLimit(algo) ELSE t

MpowResult(ch, algo, s, f, act) ==
  LET bnNew == ClampToLimit(algo, MpowTarget(ch, algo, s, f, act))
  IN [ bits |-> GetCompact(bnNew), target |-> bnNew,
       CountBlocks |-> s.CountBlocks, LastDifficultyAlgo |-> s.LastDifficultyAlgo,
       PastDifficultyAverage |-> s.PastDifficultyAverage,
       firstBase |-> FirstBase(ch, algo, s), nActualTimespan |-> act,
       lastInRow |-> f.lastInRow, surgeProtect |-> f.surgeProtect,
       justHadSurge |-> f.justHadSurge, tsla |-> f.tsla,
       smultiply |-> f.smultiply, smultiplier |-> f.smultiplier,
       TargetTimespan |-> f.TargetTimespan ]

MpowDecide(ch, algo, s) ==
  LET f == MpowFlags(ch, algo, s) IN MpowResult(ch, algo, s, f, ClampTimespan(s, f))

(***************************************************************************)
(* GetNextWorkRequiredMpow(pindexLast, algo) for pindexLast = the tip of   *)
(* ch.  The result carries the returned compact bits, the target before    *)
(* encoding, and the quantities the decision was taken on.                 *)
(***************************************************************************)
MpowRetarget(ch, algo) == MpowDecide(ch, algo, MpowWalk(ch, algo, MpowStart(ch)))

GetNextWorkRequiredMpow(ch, algo) ==
  IF ch[Len(ch)].height = 0 \/ ch[Len(ch)].height < PastBlocks
  THEN GetCompact(WeightedLimit(algo))
  ELSE MpowRetarget(ch, algo).bits

-----------------------------------------------------------------------------
(***************************************************************************)
(* The proof-of-stake regime of GetNextWorkRequired (pindexLast above      *)
(* LAST_POW_BLOCK, below the multi-algorithm start): the tip's target is   *)
(* moved exponentially toward the target spacing.  A negative spacing      *)
(* becomes 1; a result of 0 or above ~uint256(0)>>24 becomes that limit.   *)
(***************************************************************************)
PosTargetLimit == ShiftRight(MaxTarget, PosLimitShift)

PosRetarget(ch) ==
  LET n         == Len(ch)
      spacing0  == IF ch[n].height # 0 THEN ch[n].time - ch[n - 1].time ELSE 0
      spacing   == IF spacing0 < 0 THEN 1 ELSE spacing0
      nInterval == PosTargetTimespan \div PosTargetSpacing
      bnNew     == MulMod(Decode(ch[n].bits),
                          (nInterval - 1) * PosTargetSpacing + spacing + spacing)
                     \div ((nInterval + 1) * PosTargetSpacing)
  IN GetCompact(IF bnNew <= 0 \/ bnNew > PosTargetLimit THEN PosTargetLimit ELSE bnNew)

(***************************************************************************)
(* The legacy DarkGravity v3 regime: the for loop over at most             *)
(* LegacyPastBlocks ancestors above height 0, one step per iteration, and  *)
(* the retarget after it.  The running average weighs the previous         *)
(* average by CountBlocks and divides by CountBlocks + 1, in uint256.      *)
(***************************************************************************)
DGWStart(ch) ==
  [ reading |-> Len(ch), done |-> FALSE, CountBlocks |-> 0,
    PastDifficultyAverage |-> 0, PastDifficultyAveragePrev |-> 0,
    nActualTimespan |-> 0, LastBlockTime |-> 0 ]

\* Mutation of DGWStep: LastBlockTime is kept from the first iteration, so
\* every difference is taken from the tip's time.
DGWStepLastSampleOnly(ch, s) ==
  LET b   == ch[s.reading]
      cb  == s.CountBlocks + 1
      avg == IF cb = 1 THEN Decode(b.bits)
             ELSE ((MulMod(s.PastDifficultyAveragePrev, cb) + Decode(b.bits)) % TargetMod)
                    \div (cb + 1)
      win == cb <= LegacyPastBlocks
  IN [ s EXCEPT
       !.CountBlocks = cb,
       !.PastDifficultyAverage     = IF win THEN avg ELSE @,
       !.PastDifficultyAveragePrev = IF win THEN avg ELSE @,
       !.nActualTimespan = IF s.LastBlockTime > 0 THEN @ + (s.LastBlockTime - b.time) ELSE @,
       !.LastBlockTime = IF s.LastBlockTime > 0 THEN @ ELSE b.time,
       !.done    = s.reading - 1 = NULL,
       !.reading = IF s.reading - 1 = NULL THEN @ ELSE @ - 1 ]

DGWStep(ch, s) ==
  LET b   == ch[s.reading]
      cb  == s.CountBlocks + 1
      avg == IF cb = 1 THEN Decode(b.bits)
             ELSE ((MulMod(s.PastDifficultyAveragePrev, cb) + Decode(b.bits)) % TargetMod)
                    \div (cb + 1)
      win == cb <= LegacyPastBlocks
  IN [ s EXCEPT
       !.CountBlocks = cb,
       !.PastDifficultyAverage     = IF win THEN avg ELSE @,
       !.PastDifficultyAveragePrev = IF win THEN avg ELSE @,
       !.nActualTimespan = IF s.LastBlockTime > 0 THEN @ + (s.LastBlockTime - b.time) ELSE @,
       !.LastBlockTime = b.time,
       !.done    = s.reading - 1 = NULL,
       !.reading = IF s.reading - 1 = NULL THEN @ ELSE @ - 1 ]

RECURSIVE DGWWalk(_, _)
DGWWalk(ch, s) ==
  IF s.done \/ ch[s.reading].height <= 0 \/ s.CountBlocks >= LegacyPastBlocks
  THEN s
  ELSE DGWWalk(ch, DGWStep(ch, s))

DGWDecide(s) ==
  LET T     == s.CountBlocks * TargetSpacing
      act1  == IF s.nActualTimespan < T \div 3 THEN T \div 3 ELSE s.nActualTimespan
      act   == IF act1 > T * 3 THEN T * 3 ELSE act1
      bnNew == MulMod(s.PastDifficultyAverage, act) \div T
  IN [ bits |-> GetCompact(IF bnNew > ProofOfWorkLimit THEN ProofOfWorkLimit ELSE bnNew),
       PastDifficultyAverage |-> s.PastDifficultyAverage, nActualTimespan |-> act,
       TargetTimespan |-> T ]

LegacyRetarget(ch) == DGWDecide(DGWWalk(ch, DGWStart(ch)))

(***************************************************************************)
(* GetNextWorkRequired(pindexLast, algo): the proof-of-work limit while    *)
(* the chain is shorter than the legacy window, the multi-algorithm        *)
(* retarget from MultiPow_StartHeight()-1 on, the PoS regime above         *)
(* LAST_POW_BLOCK, the legacy DGW3 regime below.                           *)
(***************************************************************************)
GetNextWorkRequired(ch, algo) ==
  LET h == ch[Len(ch)].height
  IN IF h = 0 \/ h < LegacyPastBlocks THEN GetCompact(ProofOfWorkLimit)
     ELSE IF h >= MultiPowStartHeight - 1 THEN GetNextWorkRequiredMpow(ch, algo)
     ELSE IF h > LAST_POW_BLOCK THEN PosRetarget(ch)
     ELSE LegacyRetarget(ch).bits

(***************************************************************************)
(* CheckProofOfWork(hash, nBits, algo): nBits must decode to a positive,   *)
(* non-overflowing target within the weighted limit, and the hash must be  *)
(* at or below it.                                                         *)
(***************************************************************************)
CheckProofOfWork(hash, nBits, algo) ==
  \/ SkipProofOfWorkCheck
  \/ LET d == SetCompact(nBits)
     IN /\ ~d.negative /\ d.value # 0 /\ ~d.overflow
        /\ d.value <= WeightedLimit(algo)
        /\ hash <= d.value
=============================================================================
