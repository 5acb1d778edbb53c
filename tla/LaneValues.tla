----------------------------- MODULE LaneValues -----------------------------
(***************************************************************************)
(* The host's floating-point conversions, as far as loads and stores tell   *)
(* them apart.  A double is a double word; a single is a word; widening a   *)
(* single and narrowing it again gives it back, and narrowing loses the     *)
(* low half.  A single that is a number stands for its signed word, and one *)
(* pattern is not a number.  With them, the sizes loads and stores know.    *)
(***************************************************************************)
EXTENDS GuestWord

CONSTANTS
  ScaleBits,       \* bits of a quantization scale, 6 in the code
  GprCount,        \* 32 in the code
  StringBits,      \* XER bits that hold a byte count, 7 in the code
  StringDefault,   \* bytes an immediate count of zero stands for, 32 in the code
  CacheBlock       \* bytes dcbz clears, 32 in the code

\* A string never fills more registers than there are.
ASSUME LaneValuesAssumption ==
  /\ ScaleBits \in Nat \ {0} /\ StringBits \in Nat /\ GprCount \in Nat /\ StringDefault \in Nat
  /\ TwoTo[StringBits] <= 4 * GprCount /\ StringDefault <= 4 * GprCount
  /\ CacheBlock \in Nat \ {0} /\ Modulus % CacheBlock = 0

Widen(single)  == single * Modulus
Narrow(double) == double \div Modulus
NaN            == Smallest
IsNaN(single)  == single = NaN
One            == 1

Clamp(z, low, high) == IF z < low THEN low ELSE IF z > high THEN high ELSE z
NumberOf(single) == Signed(single)
SingleOf(z)      == Unsigned(Clamp(z, 1 - Smallest, Smallest - 1))
\* A product with a power of two, truncated as stores do; loads keep the fraction.
Scaled(z, exponent) ==
  IF exponent >= 0 THEN z * TwoTo[exponent]
  ELSE IF z >= 0 THEN z \div TwoTo[-exponent] ELSE -((-z) \div TwoTo[-exponent])
\* The sign of a scale field.
SignedScale(field) == IF field >= TwoTo[ScaleBits - 1] THEN field - TwoTo[ScaleBits] ELSE field
=============================================================================
