---------------------------- MODULE MultiPowChain ----------------------------
(***************************************************************************)
(* The chain after the multi-algorithm fork, grown one block at a time.    *)
(* Each step is a block of some algorithm arriving on the tip: its nBits   *)
(* are what GetNextWorkRequired demands for that algorithm, it must pass   *)
(* CheckProofOfWork, and its timestamp must be above the tip's median      *)
(* time past.  The acceptance rules and CBlockIndex live outside src/      *)
(* (main.cpp, chain.h) and follow the spec; the retarget, the navigator    *)
(* and the proof-of-work check are the translations of pow.cpp in Pow.     *)
(***************************************************************************)
EXTENDS Pow, TLC

CONSTANTS
  MinedAlgos,     \* the algorithms miners produce blocks with
  TimeSteps,      \* offsets of a new block's nTime from the tip's nTime
  MedianSpan,     \* nMedianTimeSpan (11): blocks in the median time past
  AnchorBits      \* possible nBits of the last block before the fork

ASSUME /\ MinedAlgos \subseteq Algos
       /\ MedianSpan \in Nat \ {0}

VARIABLE chain

vars == <<chain>>

\* CBlockIndex::GetMedianTimePast: the median nTime of the block and the
\* MedianSpan - 1 blocks before it.
MedianTimePast(times) ==
  LET n == Len(times)
      w == SubSeq(times, IF n > MedianSpan THEN n - MedianSpan + 1 ELSE 1, n)
  IN SortSeq(w, <)[(Len(w) \div 2) + 1]

Times(ch) == [i \in 1..Len(ch) |-> ch[i].time]

(***************************************************************************)
(* The MedianSpan blocks before the fork, the last one being the anchor    *)
(* the retarget walks stop at.  The pre-fork blocks are proof-of-stake     *)
(* blocks; their algorithm field is never read (onFork() is tested first). *)
(***************************************************************************)
Init ==
  \E bits \in AnchorBits :
    chain = [ i \in 1..MedianSpan |->
              [ height |-> MultiPowStartHeight - MedianSpan + i - 1,
                algo   |-> ALGO_POS,
                time   |-> i,
                mtp    |-> MedianTimePast([j \in 1..i |-> j]),
                bits   |-> bits ] ]

(***************************************************************************)
(* A block of algorithm algo, dt seconds after the tip's nTime, is         *)
(* accepted: ContextualCheckBlockHeader requires nBits to equal            *)
(* GetNextWorkRequired(tip, algo) and nTime to exceed the tip's median     *)
(* time past; CheckBlockHeader requires CheckProofOfWork to pass (for the  *)
(* best hash a miner can find, 0).                                         *)
(***************************************************************************)
AppendBlock(algo, nTime, nBits) ==
  LET tip == chain[Len(chain)]
  IN /\ nTime > tip.mtp
     /\ CheckProofOfWork(0, nBits, algo)
     /\ chain' = Append(chain, [ height |-> tip.height + 1, algo |-> algo,
                                 time |-> nTime,
                                 mtp |-> MedianTimePast(Append(Times(chain), nTime)),
                                 bits |-> nBits ])

MineBlock(algo, dt) ==
  AppendBlock(algo, chain[Len(chain)].time + dt, GetNextWorkRequired(chain, algo))

\* The algorithm of a block below the multi-algorithm start: proof of work
\* (nVersion 1 or above, GetAlgo() = QUARK) up to LAST_POW_BLOCK, proof of
\* stake after it.
PreForkAlgo(h) == IF h > LAST_POW_BLOCK THEN ALGO_POS ELSE ALGO_QUARK

Next ==
  \E dt \in TimeSteps :
    LET h == chain[Len(chain)].height + 1
    IN \/ h >= MultiPowStartHeight /\ \E algo \in MinedAlgos : MineBlock(algo, dt)
       \/ h < MultiPowStartHeight /\ MineBlock(PreForkAlgo(h), dt)

Spec == Init /\ [][Next]_vars

\* The genesis block of chainparams.cpp: nVersion 1, nBits 0x207fffff (the
\* compact form of ProofOfWorkLimit), a positive nTime.
GenesisInit ==
  chain = << [ height |-> 0, algo |-> ALGO_QUARK, time |-> 1, mtp |-> 1,
               bits |-> GetCompact(ProofOfWorkLimit) ] >>

GenesisSpec == GenesisInit /\ [][Next]_vars

-----------------------------------------------------------------------------
\* The fields of a block-index record, with the values pow.cpp can read.
IsBlockRecord(b) ==
  /\ DOMAIN b = {"height", "algo", "time", "mtp", "bits"}
  /\ b.height \in Nat /\ b.algo \in Algos /\ b.time \in Int /\ b.mtp \in Int
  /\ b.bits \in Compacts /\ GetCompact(Decode(b.bits)) = b.bits

TypeOK == /\ Len(chain) >= 1
          /\ \A i \in 1..Len(chain) : IsBlockRecord(chain[i])

(***************************************************************************)
(* No algorithm is ever locked out: for every algorithm the next block     *)
(* may use (each one past the fork, the PoW or PoS algorithm before it),   *)
(* the target GetNextWorkRequired demands is one that CheckProofOfWork     *)
(* accepts a hash for.  A target that decodes to zero, or above the        *)
(* weighted limit, would reject every future block of that algorithm.      *)
(***************************************************************************)
NextAlgos ==
  LET h == chain[Len(chain)].height + 1
  IN IF h >= MultiPowStartHeight THEN Algos ELSE {PreForkAlgo(h)}

NoAlgoLockedOut ==
  \A algo \in NextAlgos : CheckProofOfWork(0, GetNextWorkRequired(chain, algo), algo)

(***************************************************************************)
(* get_pprev_algo finds, from every on-fork block and for every            *)
(* algorithm, the highest strictly lower block of that algorithm among     *)
(* the contiguous on-fork ancestors, and NULL when there is none: the      *)
(* ancestor chain serves as one subchain per algorithm.                    *)
(***************************************************************************)
NearestOfAlgo(i, algo) ==
  LET cands == { j \in 1..(i - 1) : OnFork(chain, j) /\ chain[j].algo = algo }
  IN IF cands = {} THEN NULL ELSE CHOOSE j \in cands : \A k \in cands : k <= j

NavigatorFindsNearest ==
  \A i \in 1..Len(chain), algo \in Algos :
    OnFork(chain, i) => get_pprev_algo(chain, i, algo) = NearestOfAlgo(i, algo)
(***************************************************************************)
(* The resurrector fires only for an algorithm really absent for longer    *)
(* than resurrectTime, measured on one time base: the tip's median time    *)
(* past minus that of the algorithm's newest block, or of the last block   *)
(* before the fork when it has none.  The walk takes the gap from median   *)
(* times, except at the anchor, whose raw nTime it subtracts (pow.cpp:100);*)
(* mixing the bases must never make the gap look longer than it is, or an  *)
(* algorithm would get a resurrected (eased) target early.                 *)
(***************************************************************************)
RECURSIVE LastSeenMtp(_, _)
LastSeenMtp(i, algo) ==
  IF ~OnFork(chain, i) \/ chain[i].algo = algo THEN chain[i].mtp
  ELSE LastSeenMtp(i - 1, algo)

ResurrectionNeedsAbsence ==
  OnFork(chain, Len(chain)) =>
    \A algo \in Algos :
      MpowRetarget(chain, algo).smultiply =>
        chain[Len(chain)].mtp - LastSeenMtp(Len(chain), algo) > ResurrectTime(algo)

-----------------------------------------------------------------------------
(***************************************************************************)
(* The target the spec prescribes, in arbitrary precision (spec section 7: *)
(* "arbitrary-precision (256-bit) semantics ... (target math)"), for the   *)
(* same branch decisions the code took.  The per-algorithm averaging is    *)
(* the reference incremental average over the same-algorithm blocks of the *)
(* window; every product is exact; the clamp is to                         *)
(* proofOfWorkLimit * weight and to the 256-bit maximum.                   *)
(***************************************************************************)
RECURSIVE SameAlgoTargets(_, _, _)
SameAlgoTargets(i, algo, n) ==
  IF i = NULL \/ n = 0 \/ ~OnFork(chain, i) THEN << >>
  ELSE IF chain[i].algo = algo
       THEN << Decode(chain[i].bits) >> \o SameAlgoTargets(i - 1, algo, n - 1)
       ELSE SameAlgoTargets(i - 1, algo, n)

\* avg_1 = t_1, avg_k = (avg_(k-1) * (k-1) + t_k) / k, without wrap-around.
RECURSIVE RunningAverage(_, _)
RunningAverage(ts, k) ==
  IF k = 1 THEN ts[1] ELSE (RunningAverage(ts, k - 1) * (k - 1) + ts[k]) \div k

\* A product that only matters up to the clamp: exact below Cap.
Cap == 2^30
CappedMul(x, k) == IF x # 0 /\ k > Cap \div x THEN Cap ELSE x * k

SpecClamp(algo, t) ==
  IF GetAlgoWeight(algo) >= 2 THEN IF t > MaxTarget THEN MaxTarget ELSE t
  ELSE IF t > ProofOfWorkLimit THEN ProofOfWorkLimit ELSE t

SpecTargetOf(algo, r) ==
  LET ts   == SameAlgoTargets(Len(chain), algo, PastBlocks)
      avg  == IF ts = << >> THEN 0 ELSE RunningAverage(ts, Len(ts))
      base == IF r.justHadSurge \/ r.smultiply THEN r.LastDifficultyAlgo ELSE avg
      res(x) == IF r.smultiply THEN CappedMul(x, r.smultiplier * 3) ELSE x
      raw  == CASE r.CountBlocks >= PastBlocks ->
                     IF r.surgeProtect THEN base \div 3
                     ELSE IF ~r.justHadSurge
                          THEN CappedMul(base, r.nActualTimespan) \div r.TargetTimespan
                     ELSE base
                [] r.CountBlocks = 1 -> res(r.firstBase)
                [] OTHER -> IF r.surgeProtect THEN res(base) \div 3 ELSE res(base)
  IN SpecClamp(algo, raw)

SpecTarget(algo) == SpecTargetOf(algo, MpowRetarget(chain, algo))

(***************************************************************************)
(* The retarget never wraps: the nBits GetNextWorkRequiredMpow returns     *)
(* encode the target the same computation gives in arbitrary precision.   *)
(* The code multiplies uint256 values in place (the running average, the   *)
(* timespan scaling, the resurrection multiplier) and clamps to a          *)
(* ProofOfWorkLimit()*algoWeight that itself wraps for weights above 1.    *)
(***************************************************************************)
RetargetWrapFree ==
  \A algo \in MinedAlgos :
    GetNextWorkRequired(chain, algo) = GetCompact(SpecTarget(algo))

(***************************************************************************)
(* Resurrection eases (spec section 8): an algorithm that reappears after  *)
(* more than resurrectTime without a block gets its last target times      *)
(* 3 * gap / resurrectTime (clamped), whatever the surge bookkeeping of    *)
(* the same walk says.                                                     *)
(***************************************************************************)
ResurrectedTarget(algo, r) ==
  r.smultiply /\ r.CountBlocks > 1 =>
    r.target = SpecClamp(algo, CappedMul(r.LastDifficultyAlgo, 3 * r.smultiplier))

ResurrectionEases ==
  \A algo \in MinedAlgos : ResurrectedTarget(algo, MpowRetarget(chain, algo))

-----------------------------------------------------------------------------
(***************************************************************************)
(* The pre-fork regimes as spec section 4.4 items 3 and 4 state them: the  *)
(* DGW3 average over the last LegacyPastBlocks blocks above genesis        *)
(* (avg_1 = t_1, avg_k = (avg_(k-1) * k + t_k) / (k + 1)), the raw         *)
(* timespan between the newest and oldest sample clamped to [T/3, 3T],     *)
(* and the PoS moving target with the spacing floored at 1.  With wrap,    *)
(* sums and products are taken modulo 2^256 as a uint256 holds them;       *)
(* without it, in arbitrary precision.                                     *)
(***************************************************************************)
U(wrap, x) == IF wrap THEN x % TargetMod ELSE x

RECURSIVE LegacyAverage(_, _, _)
LegacyAverage(wrap, ts, k) ==
  IF k = 1 THEN ts[1]
  ELSE U(wrap, LegacyAverage(wrap, ts, k - 1) * k + ts[k]) \div (k + 1)

SpecLegacyTarget(wrap) ==
  LET n    == Len(chain)
      cnt  == IF chain[n].height < LegacyPastBlocks THEN chain[n].height ELSE LegacyPastBlocks
      ts   == [k \in 1..cnt |-> Decode(chain[n - k + 1].bits)]
      T    == cnt * TargetSpacing
      act0 == chain[n].time - chain[n - cnt + 1].time
      act  == IF act0 < T \div 3 THEN T \div 3 ELSE IF act0 > 3 * T THEN 3 * T ELSE act0
      raw  == U(wrap, LegacyAverage(wrap, ts, cnt) * act) \div T
  IN IF raw > ProofOfWorkLimit THEN ProofOfWorkLimit ELSE raw

SpecPosTarget(wrap) ==
  LET n       == Len(chain)
      spacing == IF chain[n].time - chain[n - 1].time < 1 THEN 1
                 ELSE chain[n].time - chain[n - 1].time
      nInt    == PosTargetTimespan \div PosTargetSpacing
      raw     == U(wrap, Decode(chain[n].bits) * ((nInt - 1) * PosTargetSpacing + 2 * spacing))
                   \div ((nInt + 1) * PosTargetSpacing)
  IN IF raw <= 0 \/ raw > PosTargetLimit THEN PosTargetLimit ELSE raw

\* The spec's pre-fork target for the next block, from the first DGW3
\* height up to the multi-algorithm start (FALSE outside that range).
PreForkRetargetIs(wrap) ==
  LET h == chain[Len(chain)].height
  IN h >= LegacyPastBlocks /\ h < MultiPowStartHeight - 1 =>
       GetNextWorkRequired(chain, PreForkAlgo(h + 1))
         = GetCompact(IF h > LAST_POW_BLOCK THEN SpecPosTarget(wrap) ELSE SpecLegacyTarget(wrap))

(***************************************************************************)
(* The DGW3 loop and the PoS branch of GetNextWorkRequired compute the     *)
(* spec's formulas, in the code's uint256 arithmetic: the loop's running   *)
(* average is the weighted average of exactly the last LegacyPastBlocks    *)
(* blocks above genesis, its summed differences telescope to the raw       *)
(* timespan, and the regime boundaries are those of the spec.             *)
(***************************************************************************)
LegacyRetargetAsSpecified == PreForkRetargetIs(TRUE)

(***************************************************************************)
(* The pre-fork retargets never wrap: they return the compact form of the  *)
(* target the spec's formulas give in arbitrary precision.  The code       *)
(* multiplies uint256 values in place (PastDifficultyAveragePrev *         *)
(* CountBlocks, bnNew *= nActualTimespan, the PoS bnNew *= ...).           *)
(***************************************************************************)
LegacyRetargetWrapFree == PreForkRetargetIs(FALSE)
=============================================================================
