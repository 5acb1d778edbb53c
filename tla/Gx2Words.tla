------------------------------ MODULE Gx2Words ------------------------------
(***************************************************************************)
(* The 32-bit register words of GX2, as the sets of their one bits: TLC's   *)
(* integers have a sign bit in the way.  A number is put into a word and    *)
(* taken from it field by field, as the code does with shifts and masks.    *)
(***************************************************************************)
EXTENDS Gx2Basics, Integers, Sequences, FiniteSetsExt

WordBits == 0..31
Zero     == {}

\* (x & (2^n - 1)) << lo; a negative x has its two's complement bits.
Put(x, lo, n)   == {lo + k : k \in {j \in 0..n - 1 : (x \div 2^j) % 2 = 1}}
\* (x != 0 ? 1 : 0) << lo
Flag(x, lo)     == IF x # 0 THEN {lo} ELSE {}
\* (w >> lo) & (2^n - 1)
Field(w, lo, n) == MapThenSumSet(LAMBDA k : 2^(k - lo), w \cap lo..lo + n - 1)
\* w & ~(2^n - 1 << lo)
Without(w, lo, n) == w \ lo..lo + n - 1
Or(words)       == UNION words

\* Rounding towards zero and saturation of float-to-integer conversions.
Truncated(z, d) == IF z >= 0 THEN z \div d ELSE -((-z) \div d)
Clamp(z, low, high) == IF z < low THEN low ELSE IF z > high THEN high ELSE z
\* fpr_float_argument_bits: the bits of a single stand for the number.
FloatBits(x)    == Put(x, 0, 31)

\* f(x), with x evaluated once: TLC passes the arguments of an operator unevaluated.
Evaluated(f(_), x) == CHOOSE y \in {f(z) : z \in {x}} : TRUE
=============================================================================
