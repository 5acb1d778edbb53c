---------------------------- MODULE FloatValues ----------------------------
(***************************************************************************)
(* What the two engines' floating-point code distinguishes: the class and  *)
(* the sign of a binary64 value, and (as its provenance) which value it is.*)
(* The FPSCR is the set of its bits that are one.  Arithmetic itself is    *)
(* the host's: an outcome r says what a correctly rounded operation gave.  *)
(***************************************************************************)
EXTENDS Naturals, Sequences, FiniteSets

\* A value; from tells which, as a sequence of names: where it came from and
\* what was computed from it.
Value(cls, neg, from) == [cls |-> cls, neg |-> neg, from |-> from]
Classes    == {"quiet", "signalling", "infinity", "tiny", "zero", "normal"}
IsValue(v) == v = Value(v.cls, v.neg, v.from) /\ v.cls \in Classes /\ v.neg \in BOOLEAN

Nan(v)          == v.cls \in {"quiet", "signalling"}
Signalling(v)   == v.cls = "signalling"
Zero(v)         == v.cls = "zero"
Infinite(v)     == v.cls = "infinity"
NormalOrZero(v) == v.cls \in {"normal", "zero"}
Flip(v)         == [v EXCEPT !.neg = ~@]
Labelled(l, v)  == [v EXCEPT !.from = <<l>> \o @]
DefaultNan      == Value("quiet", FALSE, <<"default">>)
NoNan           == Value("zero", FALSE, <<"zero">>)
Infinity(neg)   == Value("infinity", neg, <<"infinity">>)

\* The first of an instruction's sources that is signalling, or a NaN.
FirstSignalling(sources) ==
  sources[CHOOSE n \in 1..Len(sources) :
            Signalling(sources[n]) /\ \A k \in 1..(n - 1) : ~Signalling(sources[k])]
FirstNan(sources) ==
  sources[CHOOSE n \in 1..Len(sources) :
            Nan(sources[n]) /\ \A k \in 1..(n - 1) : ~Nan(sources[k])]

\* A single-precision result in its register: a single denormal is a normal double.
Extended(v) == IF v.cls = "tiny" THEN [v EXCEPT !.cls = "normal"] ELSE v
FlushDenormal(v) == IF v.cls = "tiny" THEN [v EXCEPT !.cls = "zero"] ELSE v

\* What the host computes: the class and sign of outcome r, and the formula.
Computed(formula, operands, r) ==
  Value(r.cls, r.neg,
        <<formula>> \o operands[1].from
          \o (IF Len(operands) > 1 THEN operands[2].from ELSE << >>)
          \o (IF Len(operands) > 2 THEN operands[3].from ELSE << >>))

\* The same in one lane of a pair, whose NaNs the host propagates.
LaneOf(formula, operands, r) ==
  [Computed(formula, operands, r) EXCEPT
     !.cls = IF \E n \in 1..Len(operands) : Nan(operands[n]) THEN "quiet" ELSE @]

\* The outcomes of a rounding: inexact results, possibly away from zero.
Inexact(err) == err # "exact"

InvalidBits == {"VXSNAN", "VXISI", "VXIDI", "VXZDZ", "VXIMZ", "VXVC",
                "VXSOFT", "VXSQRT", "VXCVI"}
Enabled     == {<<"VX", "VE">>, <<"ZX", "ZE">>, <<"OX", "OE">>,
                <<"UX", "UE">>, <<"XX", "XE">>}
ConditionBits == {"FL", "FG", "FE", "FU"}
ResultBits    == {"C"} \cup ConditionBits

\* The eight four-bit fields of the register, most significant first.
FpscrField ==
  <<{"FX", "FEX", "VX", "OX"}, {"UX", "ZX", "XX", "VXSNAN"},
    {"VXISI", "VXIDI", "VXZDZ", "VXIMZ"}, {"VXVC", "FR", "FI", "C"},
    ConditionBits, {"Reserved", "VXSOFT", "VXSQRT", "VXCVI"},
    {"VE", "OE", "UE", "ZE"}, {"XE", "NI", "RN1", "RN0"}>>
FpscrBits == UNION {FpscrField[i] : i \in 1..8}
=============================================================================
