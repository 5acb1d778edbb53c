----------------------------- MODULE GuestWord -----------------------------
(***************************************************************************)
(* Guest words.  The code computes on std::uint32_t; here a word has       *)
(* WordBits bits, a byte a quarter of them and a halfword half of them, so *)
(* that every wrap, sign and mask of the code is there on a small word.    *)
(* The condition register is a word of four-bit fields, so it has          *)
(* WordBits \div 4 of them; XER keeps SO, OV and CA in its top bits.       *)
(***************************************************************************)
EXTENDS Integers, FiniteSets

CONSTANT WordBits   \* 32 in the code

\* A word is made of whole condition fields and its bytes of whole bits.
ASSUME WordBitsAssumption == WordBits \in Nat /\ WordBits >= 4 /\ WordBits % 4 = 0

\* 2^k, as a recursive function.
TwoTo[k \in Nat] == IF k = 0 THEN 1 ELSE 2 * TwoTo[k - 1]
Modulus  == TwoTo[WordBits]
Words    == 0 .. (Modulus - 1)
AllOnes  == Modulus - 1
BitIndex == 0 .. (WordBits - 1)          \* 0 is the least significant bit
SignBit  == WordBits - 1
Smallest == TwoTo[SignBit]                 \* the bits of INT32_MIN
HalfBits == WordBits \div 2
ByteBits == WordBits \div 4

Unsigned(z)    == z % Modulus
Signed(x)      == IF x >= Smallest THEN x - Modulus ELSE x
Negative(x)    == x >= Smallest
FitsSigned(z)  == -Smallest <= z /\ z < Smallest

\* A word as the set of its bits, and back.
Bits  == [x \in Words |-> {k \in BitIndex : (x \div TwoTo[k]) % 2 = 1}]
ToWord == [S \in SUBSET BitIndex |-> CHOOSE x \in Words : Bits[x] = S]

And(x, y) == ToWord[Bits[x] \cap Bits[y]]
Or(x, y)  == ToWord[Bits[x] \cup Bits[y]]
Xor(x, y) == ToWord[(Bits[x] \ Bits[y]) \cup (Bits[y] \ Bits[x])]
Not(x)    == AllOnes - x

\* PowerPC numbers bits from the most significant end.
PpcBit(n) == SignBit - n
\* The bits of condition field f, most significant first: LT, GT, EQ, SO.
FieldBits(f)    == {PpcBit(4 * f + n) : n \in 0..3}
ConditionFields == 0 .. (WordBits \div 4 - 1)
LT(f) == PpcBit(4 * f)
GT(f) == PpcBit(4 * f + 1)
EQ(f) == PpcBit(4 * f + 2)
UN(f) == PpcBit(4 * f + 3)

SO == PpcBit(0)
OV == PpcBit(1)
CA == PpcBit(2)
Carry(xer) == IF CA \in xer THEN 1 ELSE 0

rotate_mask(begin, end) ==
  ToWord[{PpcBit(n) : n \in {b \in BitIndex : IF begin <= end
                                              THEN begin <= b /\ b <= end
                                              ELSE begin <= b \/ b <= end}}]
RotateLeft(x, n)   == ((x * TwoTo[n]) % Modulus) + (x \div TwoTo[WordBits - n])
ShiftRightSigned(x, n) == Unsigned(Signed(x) \div TwoTo[n])

\* What an addition or a subtraction of the host leaves: the word, CF and OF.
HostAdd(a, b, c) == [value |-> Unsigned(a + b + c), carry |-> a + b + c >= Modulus,
                     overflow |-> ~FitsSigned(Signed(a) + Signed(b) + c)]
HostSub(a, b, c) == [value |-> Unsigned(a - b - c), carry |-> a < b + c,
                     overflow |-> ~FitsSigned(Signed(a) - Signed(b) - c)]
=============================================================================
