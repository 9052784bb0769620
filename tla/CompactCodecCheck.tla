-------------------------- MODULE CompactCodecCheck --------------------------
(***************************************************************************)
(* The compact codec against a reference.  The codec is stateless; the     *)
(* harness hands it every target of the scaled space in turn (t, then     *)
(* t + 1 modulo the space) and checks what GetCompact and SetCompact do    *)
(* with it.  The reference is declarative: encoding keeps the greatest     *)
(* value not above t whose mantissa fits below the sign bit.               *)
(***************************************************************************)
EXTENDS ChainWork

VARIABLE t

Init == t = 0

\* The next target handed to the codec.
NextTarget == t' = (t + 1) % TargetMod

Spec == Init /\ [][NextTarget]_t

\* m * 2^(DigitBits*e): what a compact value with mantissa m and size e+3
\* stands for.
Representable == { m * 2^(DigitBits * e) : m \in 0..(SignBit - 1), e \in 0..Digits }

\* The greatest representable value not above x.
RoundDown(x) ==
  CHOOSE v \in Representable : v <= x /\ \A w \in Representable : w <= x => w <= v

(***************************************************************************)
(* Encoding then decoding a target rounds it down to a three-digit         *)
(* mantissa and never yields a negative or overflowing compact: what       *)
(* GetCompact writes into nBits (pow.cpp:263), SetCompact reads back as    *)
(* the largest representable target not above the one computed.           *)
(***************************************************************************)
EncodeRoundsDown ==
  LET d == SetCompact(GetCompact(t))
  IN ~d.negative /\ ~d.overflow /\ d.value = RoundDown(t)

(***************************************************************************)
(* Block work is ordered as chain selection needs it: GetBlockProof of a   *)
(* block whose nBits encode a harder (nonzero) target is never smaller,  *)
(* and of two algorithms with the same nBits the heavier weight never     *)
(* gets less work.  The first makes a harder chain heavier; the second is *)
(* what the weight in the divisor is for.                                 *)
(***************************************************************************)
BlockWorkOrdered ==
  /\ 0 < t /\ t < MaxTarget =>
       \A a \in Algos : GetBlockProof(GetCompact(t), a) >= GetBlockProof(GetCompact(t + 1), a)
  /\ \A a, b \in Algos :
       GetAlgoWeight(a) <= GetAlgoWeight(b) =>
         GetBlockProof(GetCompact(t), a) <= GetBlockProof(GetCompact(t), b)

=============================================================================
