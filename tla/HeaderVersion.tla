--------------------------- MODULE HeaderVersion ----------------------------
(***************************************************************************)
(* The version field of a block header: the bit codec of                  *)
(* CPureBlockHeader (primitives/pureheader.h) on a two's-complement        *)
(* int32_t nVersion, at full width.  An int32 is kept as its two 16-bit    *)
(* halves, v = Hi(v) * 2^16 + Lo(v) with Hi(v) a signed int16, so the      *)
(* bitwise operators are 16-bit Bitwise operations on each half and every *)
(* value stays inside TLC's integers.                                      *)
(***************************************************************************)
EXTENDS Integers, Bitwise

\* The algorithm enumeration of primitives/pureheader.h.
ALGO_QUARK   == 0
ALGO_SHA256D == 1
ALGO_ARGON2  == 2
ALGO_POS     == 3
Algos == {ALGO_QUARK, ALGO_SHA256D, ALGO_ARGON2, ALGO_POS}

\* The BLOCK_VERSION_* bit layout.
BLOCK_VERSION_AUXPOW     == 2^8
BLOCK_VERSION_ALGO       == 3 * 2^9
BLOCK_VERSION_OF         == [a \in Algos |-> a * 2^9]  \* _QUARK .. _POS
BLOCK_VERSION_UPDATE_SSF == 2^12
BLOCK_VERSION_CHAIN      == 2^16
CURRENT_VERSION          == 5

-----------------------------------------------------------------------------
\* int32_t as two halves; Int32Of wraps the high half as a 32-bit store does.
Half == 2^16
Lo(v) == v % Half
Hi(v) == (v - Lo(v)) \div Half
Int16(u) == LET w == u % Half IN IF w >= Half \div 2 THEN w - Half ELSE w
Int32Of(h, l) == Int16(h) * Half + l

BitOr(x, y)  == Int32Of((Hi(x) % Half) | (Hi(y) % Half), Lo(x) | Lo(y))
BitAnd(x, y) == Int32Of((Hi(x) % Half) & (Hi(y) % Half), Lo(x) & Lo(y))
BitNot(x)    == -x - 1

\* C++ a % b on int: the remainder takes the sign of a (truncation).
CRem(a, b) == IF a >= 0 \/ a % b = 0 THEN a % b ELSE (a % b) - b

-----------------------------------------------------------------------------
\* SetAlgo: ORs the algorithm's pattern in without clearing bits 9-10; an
\* algorithm outside the enumeration falls to "default: break".
SetAlgo(v, algo) == IF algo \in Algos THEN BitOr(v, BLOCK_VERSION_OF[algo]) ELSE v

\* Mutation of GetAlgo: the masked bits are returned without the shift.
GetAlgoUnshifted(v, algoParent) ==
  IF algoParent # -1 THEN algoParent ELSE BitAnd(v, BLOCK_VERSION_ALGO)

\* GetAlgo: the out-of-band algoParent of a parent header when it is set,
\* else the algorithm whose pattern bits 9-10 hold (the switch is total).
GetAlgo(v, algoParent) ==
  IF algoParent # -1 THEN algoParent
  ELSE CHOOSE a \in Algos : BLOCK_VERSION_OF[a] = BitAnd(v, BLOCK_VERSION_ALGO)

\* Mutation of SetChainId: the low half is overwritten instead of kept.
SetChainIdAssign(v, id) == Int32Of(id, 0)

\* SetChainId: nVersion %= BLOCK_VERSION_CHAIN; nVersion |= id * BLOCK_VERSION_CHAIN.
\* The product is a signed int multiplication: it wraps at 32 bits.
SetChainId(v, id) == BitOr(CRem(v, BLOCK_VERSION_CHAIN), Int32Of(id, 0))

\* GetChainId: nVersion >> 16, an arithmetic shift of a signed int.
GetChainId(v) == Hi(v)

SetUpdateSSF(v) == BitOr(v, BLOCK_VERSION_UPDATE_SSF)
IsUpdateSSF(v) == BitAnd(v, BLOCK_VERSION_UPDATE_SSF) # 0

\* Mutation of SetAuxpow: clearing masks with the flag instead of its
\* complement.
SetAuxpowMaskNoNot(v, auxpow) ==
  IF auxpow THEN BitOr(v, BLOCK_VERSION_AUXPOW) ELSE BitAnd(v, BLOCK_VERSION_AUXPOW)

\* CPureBlockHeader::SetAuxpow(bool): sets or clears bit 8.
SetAuxpow(v, auxpow) ==
  IF auxpow THEN BitOr(v, BLOCK_VERSION_AUXPOW) ELSE BitAnd(v, BitNot(BLOCK_VERSION_AUXPOW))

IsAuxpow(v) == BitAnd(v, BLOCK_VERSION_AUXPOW) # 0
=============================================================================
