---------------------------- MODULE CompactCodec ----------------------------
(***************************************************************************)
(* The compact ("nBits") encoding of a proof-of-work target:               *)
(* uint256::SetCompact and uint256::GetCompact.  The code lives in         *)
(* uint256.cpp, which is not part of src/, so these operators follow the   *)
(* spec (section 4.1) and the historical Bitcoin definition it describes.  *)
(*                                                                         *)
(* The 256-bit target space is scaled: a "digit" has DigitBits bits (8, a  *)
(* byte, in the code) and a target has Digits digits (32 in the code).     *)
(* The compact value keeps the code's layout: a size field above a         *)
(* mantissa of three digits whose top bit is the sign bit.  Every          *)
(* shift, truncation, normalisation and overflow test is kept.             *)
(***************************************************************************)
EXTENDS Integers

CONSTANTS
  DigitBits,   \* bits per digit of the encoding (8 in the code)
  Digits       \* digits in a target (32 in the code: a uint256)

ASSUME DigitBits \in 1..8 /\ Digits \in 4..8

TargetBits == DigitBits * Digits
TargetMod  == 2^TargetBits          \* uint256 arithmetic is modulo this
MaxTarget  == TargetMod - 1         \* ~uint256(0)
MantBits   == 3 * DigitBits         \* the low three digits of nCompact
MantMod    == 2^MantBits            \* nCompact >> 24 is the size field
SignBit    == 2^(MantBits - 1)      \* 0x00800000

Targets == 0..MaxTarget

\* x << n and x >> n on a uint256: bits shifted past the top are lost.
ShiftLeft(x, n)  == IF n >= TargetBits THEN 0 ELSE (x * 2^n) % TargetMod
ShiftRight(x, n) == IF n >= TargetBits THEN 0 ELSE x \div 2^n

\* uint256 * uint32 (base_uint::operator*=): the product modulo 2^TargetBits.
\* The factor is split so that no intermediate leaves TLC's 32-bit range.
ASSUME TargetBits <= 16
MulMod(x, k) ==
  LET kk == k % TargetMod
  IN ((((x * (kk \div 256)) % TargetMod) * 256) + x * (kk % 256)) % TargetMod

\* base_uint::bits(): the position of the highest set bit, 0 for zero.
NumBits(x) == IF x = 0 THEN 0
              ELSE CHOOSE b \in 1..TargetBits : 2^(b-1) <= x /\ x < 2^b

(***************************************************************************)
(* SetCompact(nCompact, &fNegative, &fOverflow): the decoded target and    *)
(* the two flags.  nWord is masked without the sign bit; when the size is  *)
(* at most 3 the word itself is shifted right before the flags are taken.  *)
(***************************************************************************)
\* Mutation of SetCompact: a size of at most 3 does not shift the word down.
SetCompactNoShift(c) ==
  LET nSize == c \div MantMod
      nWord == c % SignBit
  IN [ value    |-> IF nSize <= 3 THEN nWord
                    ELSE ShiftLeft(nWord, DigitBits * (nSize - 3)),
       negative |-> nWord # 0 /\ (c % MantMod) >= SignBit,
       overflow |-> nWord # 0 /\ \/ nSize > Digits + 2
                                 \/ nWord > 2^DigitBits - 1 /\ nSize > Digits + 1
                                 \/ nWord > 2^(2 * DigitBits) - 1 /\ nSize > Digits ]

SetCompact(c) ==
  LET nSize == c \div MantMod
      word0 == c % SignBit
      nWord == IF nSize <= 3 THEN word0 \div 2^(DigitBits * (3 - nSize))
                             ELSE word0
  IN [ value    |-> IF nSize <= 3 THEN nWord
                    ELSE ShiftLeft(nWord, DigitBits * (nSize - 3)),
       negative |-> nWord # 0 /\ (c % MantMod) >= SignBit,
       overflow |-> nWord # 0 /\ \/ nSize > Digits + 2
                                 \/ nWord > 2^DigitBits - 1 /\ nSize > Digits + 1
                                 \/ nWord > 2^(2 * DigitBits) - 1 /\ nSize > Digits ]

Decode(c) == SetCompact(c).value

(***************************************************************************)
(* GetCompact(): keep the three most significant digits (truncating), and  *)
(* if the mantissa's top bit is set move it down a digit so it does not    *)
(* read as a sign.  fNegative is false at every call site in src/.         *)
(***************************************************************************)
\* Mutation of GetCompact: the mantissa is not moved off the sign bit.
GetCompactNoSignFix(t) ==
  LET nSize0 == (NumBits(t) + DigitBits - 1) \div DigitBits
  IN nSize0 * MantMod + IF nSize0 <= 3 THEN t * 2^(DigitBits * (3 - nSize0))
                        ELSE ShiftRight(t, DigitBits * (nSize0 - 3))

GetCompact(t) ==
  LET nSize0 == (NumBits(t) + DigitBits - 1) \div DigitBits
      mant0  == IF nSize0 <= 3 THEN t * 2^(DigitBits * (3 - nSize0))
                               ELSE ShiftRight(t, DigitBits * (nSize0 - 3))
      signed == mant0 >= SignBit
      mant   == IF signed THEN mant0 \div 2^DigitBits ELSE mant0
      nSize  == IF signed THEN nSize0 + 1 ELSE nSize0
  IN nSize * MantMod + mant

\* The range of the values GetCompact returns: the size field is at most
\* Digits + 1 (a full-width target whose mantissa is moved down a digit).
Compacts == 0..((Digits + 2) * MantMod - 1)
=============================================================================
