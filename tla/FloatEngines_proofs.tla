-------------------------- MODULE FloatEngines_proofs --------------------------
(***************************************************************************)
(* The recompiler's floating-point code leaves the state the interpreter    *)
(* leaves, for every operand, mode, outcome of the host's arithmetic and    *)
(* length of program; FEX and VX follow from the other bits throughout; and *)
(* an enabled exception writes no register.                                 *)
(***************************************************************************)
EXTENDS FloatEngines, SequenceTheorems, TLAPS

----------------------------------------------------------------------------
(* The FPSCR.                                                               *)

Causes == {"VX", "ZX", "OX", "UX", "XX"}
Summarised(f) == /\ "VX" \in f <=> f \cap InvalidBits # {}
                 /\ "FEX" \in f <=> \E p \in Enabled : {p[1], p[2]} \subseteq f

\* The two engines compute the same summaries.
LEMMA SameSummaries ==
  ASSUME NEW f
  PROVE  native_update_fpscr_summaries(f) = update_fpscr_summaries(f)
<1>. DEFINE vx == IF f \cap InvalidBits # {} THEN {"VX"} ELSE {}
            causes == (f \cap {"ZX", "OX", "UX", "XX"}) \cup vx
            bits == (f \ {"VX", "FEX"}) \cup vx
            enabled == \E p \in Enabled : p[1] \in causes /\ p[2] \in f
            held == \E p \in Enabled : {p[1], p[2]} \subseteq bits
<1>1. ASSUME NEW p \in Enabled PROVE p[1] \in causes /\ p[2] \in f <=> {p[1], p[2]} \subseteq bits
  <2>1. /\ p[1] \in Causes /\ p[2] \notin {"VX", "FEX"} /\ p[1] # "FEX"
        /\ p[2] \in {"VE", "ZE", "OE", "UE", "XE"}
    BY DEF Enabled, Causes
  <2>2. p[1] \in causes <=> p[1] \in bits
    <3>1. "VX" \notin f \ {"VX", "FEX"}
      OBVIOUS
    <3>. QED BY <2>1, <3>1 DEF Causes
  <2>3. p[2] \in f <=> p[2] \in bits
    BY <2>1
  <2>. HIDE DEF causes, bits
  <2>. QED BY <2>2, <2>3
<1>2. enabled <=> held
  <2>. HIDE DEF causes, bits
  <2>. QED BY <1>1
<1>3. native_update_fpscr_summaries(f) = bits \cup (IF enabled THEN {"FEX"} ELSE {})
  BY DEF native_update_fpscr_summaries
<1>4. update_fpscr_summaries(f) = bits \cup (IF held THEN {"FEX"} ELSE {})
  BY DEF update_fpscr_summaries
<1>. HIDE DEF enabled, held, bits
<1>. QED BY <1>2, <1>3, <1>4

\* Recomputed summaries follow from the bits, and only they may differ from what was given.
LEMMA SummariesComputed ==
  ASSUME NEW f
  PROVE  /\ Summarised(update_fpscr_summaries(f))
         /\ \A bit : bit \notin {"VX", "FEX"} => (bit \in update_fpscr_summaries(f) <=> bit \in f)
<1>. DEFINE vx == IF f \cap InvalidBits # {} THEN {"VX"} ELSE {}
            bits == (f \ {"VX", "FEX"}) \cup vx
            held == \E p \in Enabled : {p[1], p[2]} \subseteq bits
            g == bits \cup (IF held THEN {"FEX"} ELSE {})
<1>1. update_fpscr_summaries(f) = g
  BY DEF update_fpscr_summaries
<1>2. \A bit : bit \notin {"VX", "FEX"} => (bit \in g <=> bit \in f)
  OBVIOUS
<1>3. "VX" \in g <=> g \cap InvalidBits # {}
  <2>1. "VX" \in g <=> f \cap InvalidBits # {}
    OBVIOUS
  <2>2. "VX" \notin InvalidBits /\ "FEX" \notin InvalidBits
    BY DEF InvalidBits
  <2>3. g \cap InvalidBits = f \cap InvalidBits
    <3>. HIDE DEF g
    <3>. QED BY <1>2, <2>2
  <2>. HIDE DEF g
  <2>. QED BY <2>1, <2>3
<1>4. "FEX" \in g <=> \E p \in Enabled : {p[1], p[2]} \subseteq g
  <2>1. "FEX" \in g <=> held
    OBVIOUS
  <2>2. \A p \in Enabled : p[1] # "FEX" /\ p[2] # "FEX"
    BY DEF Enabled
  <2>3. \A bit : bit # "FEX" => (bit \in g <=> bit \in bits)
    OBVIOUS
  <2>. HIDE DEF g, bits
  <2>. QED BY <2>1, <2>2, <2>3
<1>. QED BY <1>1, <1>2, <1>3, <1>4 DEF Summarised

----------------------------------------------------------------------------
(* The machine state.                                                       *)

IsLanes(p) == p = [n \in FloatRegisters |-> p[n]] /\ \A n \in FloatRegisters : IsValue(p[n])
Built(f, p, q, c) == [fpscr |-> f, ps0 |-> p, ps1 |-> q, cr |-> c]
IsMachine(s) == s = Built(s.fpscr, s.ps0, s.ps1, s.cr)
IsState(s) ==
  /\ IsMachine(s)
  /\ IsLanes(s.ps0) /\ IsLanes(s.ps1) /\ Summarised(s.fpscr)

LEMMA BuiltFields ==
  ASSUME NEW f, NEW p, NEW q, NEW c
  PROVE  /\ Built(f, p, q, c).fpscr = f /\ Built(f, p, q, c).ps0 = p
         /\ Built(f, p, q, c).ps1 = q /\ Built(f, p, q, c).cr = c
         /\ IsMachine(Built(f, p, q, c))
BY DEF Built, IsMachine

LEMMA BuiltState ==
  ASSUME NEW f, NEW p, NEW q, NEW c, IsLanes(p), IsLanes(q), Summarised(f)
  PROVE  IsState(Built(f, p, q, c))
<1>. DEFINE s == Built(f, p, q, c)
<1>1. s.fpscr = f /\ s.ps0 = p /\ s.ps1 = q /\ s.cr = c
  BY BuiltFields
<1>2. IsMachine(s)
  BY BuiltFields
<1>. HIDE DEF s
<1>3. IsState(s)
  BY <1>1, <1>2, Zenon DEF IsState
<1>. QED BY <1>3 DEF s

LEMMA LaneWritten ==
  ASSUME NEW p, IsLanes(p), NEW d \in FloatRegisters, NEW v, IsValue(v)
  PROVE  IsLanes([p EXCEPT ![d] = v])
<1>. DEFINE q == [p EXCEPT ![d] = v]
<1>1. DOMAIN p = FloatRegisters
  <2>1. p = [n \in FloatRegisters |-> p[n]]
    BY Zenon DEF IsLanes
  <2>. QED BY <2>1
<1>2. q = [n \in FloatRegisters |-> q[n]]
  BY <1>1
<1>3. \A n \in FloatRegisters : q[n] = IF n = d THEN v ELSE p[n]
  BY <1>1
<1>. HIDE DEF q
<1>4. \A n \in FloatRegisters : IsValue(q[n])
  <2>1. \A n \in FloatRegisters : IsValue(p[n])
    BY Zenon DEF IsLanes
  <2>. QED BY <1>3, <2>1
<1>5. IsLanes(q)
  BY <1>2, <1>4, Zenon DEF IsLanes
<1>. QED BY <1>5 DEF q

LEMMA LaneValue ==
  ASSUME NEW s, IsState(s), NEW n \in FloatRegisters
  PROVE  IsValue(s.ps0[n]) /\ IsValue(s.ps1[n])
BY Zenon DEF IsState, IsLanes

\* Values stay values under what both engines do to them.
LEMMA ValueMade ==
  ASSUME NEW cls \in Classes, NEW neg \in BOOLEAN, NEW from
  PROVE  IsValue(Value(cls, neg, from))
BY DEF IsValue, Value

LEMMA ValueChanged ==
  ASSUME NEW v, IsValue(v)
  PROVE  /\ \A cls \in Classes : IsValue([v EXCEPT !.cls = cls])
         /\ \A neg \in BOOLEAN : IsValue([v EXCEPT !.neg = neg])
         /\ IsValue(Flip(v)) /\ Flip(v).cls = v.cls /\ Flip(v).neg = ~v.neg
         /\ IsValue(Extended(v)) /\ IsValue(FlushDenormal(v))
         /\ \A l : IsValue(Labelled(l, v)) /\ Labelled(l, v).cls = v.cls /\ Labelled(l, v).neg = v.neg
<1>1. v = [cls |-> v.cls, neg |-> v.neg, from |-> v.from] /\ v.cls \in Classes /\ v.neg \in BOOLEAN
  BY DEF IsValue, Value
<1>2. ASSUME NEW cls \in Classes PROVE IsValue([v EXCEPT !.cls = cls])
  <2>1. [v EXCEPT !.cls = cls] = Value(cls, v.neg, v.from)
    BY <1>1 DEF Value
  <2>. QED BY <1>1, <2>1, ValueMade
<1>3. ASSUME NEW neg \in BOOLEAN
      PROVE  IsValue([v EXCEPT !.neg = neg]) /\ [v EXCEPT !.neg = neg].cls = v.cls
             /\ [v EXCEPT !.neg = neg].neg = neg
  <2>1. [v EXCEPT !.neg = neg] = Value(v.cls, neg, v.from)
    BY <1>1 DEF Value
  <2>. QED BY <1>1, <2>1, ValueMade DEF Value
<1>4. IsValue(Flip(v)) /\ Flip(v).cls = v.cls /\ Flip(v).neg = ~v.neg
  <2>1. (~v.neg) \in BOOLEAN
    BY <1>1
  <2>2. Flip(v) = [v EXCEPT !.neg = ~v.neg]
    BY DEF Flip
  <2>. QED BY <1>3, <2>1, <2>2
<1>5. IsValue(Extended(v)) /\ IsValue(FlushDenormal(v))
  <2>1. "normal" \in Classes /\ "zero" \in Classes
    BY DEF Classes
  <2>. QED BY <1>2, <2>1 DEF Extended, FlushDenormal
<1>6. ASSUME NEW l PROVE IsValue(Labelled(l, v)) /\ Labelled(l, v).cls = v.cls /\ Labelled(l, v).neg = v.neg
  <2>. DEFINE from == <<l>> \o v.from
  <2>1. Labelled(l, v) = [v EXCEPT !.from = from]
    BY DEF Labelled
  <2>. HIDE DEF from
  <2>2. [v EXCEPT !.from = from] = Value(v.cls, v.neg, from)
    BY <1>1 DEF Value
  <2>. QED BY <1>1, <2>1, <2>2, ValueMade DEF Value
<1>. QED BY <1>2, <1>3, <1>4, <1>5, <1>6

LEMMA Constants ==
  /\ IsValue(DefaultNan) /\ IsValue(NoNan) /\ ~Nan(NoNan)
  /\ \A neg \in BOOLEAN : IsValue(Infinity(neg))
  /\ \A neg \in BOOLEAN : IsValue(Value("zero", neg, <<"zero">>))
  /\ \A from : IsValue(Value("quiet", TRUE, from))
<1>1. "quiet" \in Classes /\ "zero" \in Classes /\ "infinity" \in Classes
  BY DEF Classes
<1>2. NoNan.cls = "zero"
  BY DEF NoNan, Value
<1>. QED BY <1>1, <1>2, ValueMade DEF DefaultNan, NoNan, Infinity, Nan

IsOutcome(r) == r.cls \in {"infinity", "tiny", "zero", "normal"} /\ r.neg \in BOOLEAN

LEMMA ComputedValue ==
  ASSUME NEW formula, NEW operands, NEW r, IsOutcome(r)
  PROVE  /\ IsValue(Computed(formula, operands, r)) /\ ~Nan(Computed(formula, operands, r))
         /\ IsValue(LaneOf(formula, operands, r))
<1>. DEFINE from == <<formula>> \o operands[1].from
                      \o (IF Len(operands) > 1 THEN operands[2].from ELSE << >>)
                      \o (IF Len(operands) > 2 THEN operands[3].from ELSE << >>)
            v == Computed(formula, operands, r)
<1>1. v = Value(r.cls, r.neg, from)
  BY DEF Computed
<1>2. r.cls \in Classes /\ r.cls \notin {"quiet", "signalling"} /\ r.neg \in BOOLEAN
  BY DEF IsOutcome, Classes
<1>. HIDE DEF from, v
<1>3. IsValue(v) /\ v.cls = r.cls
  BY <1>1, <1>2, ValueMade DEF Value
<1>4. IsValue(LaneOf(formula, operands, r))
  <2>1. LaneOf(formula, operands, r) = [v EXCEPT !.cls = "quiet"] \/ LaneOf(formula, operands, r) = [v EXCEPT !.cls = v.cls]
    BY DEF LaneOf, v
  <2>2. "quiet" \in Classes /\ v.cls \in Classes
    BY <1>2, <1>3 DEF Classes
  <2>. QED BY <1>3, <2>1, <2>2, ValueChanged
<1>. QED BY <1>2, <1>3, <1>4 DEF v, Nan

----------------------------------------------------------------------------
(* How a result reaches its register, in both engines.                      *)

LEMMA FieldExcepts ==
  ASSUME NEW s, IsMachine(s), NEW f, NEW c, NEW p, NEW q
  PROVE  /\ [s EXCEPT !.fpscr = f] = Built(f, s.ps0, s.ps1, s.cr)
         /\ [s EXCEPT !.ps0 = p] = Built(s.fpscr, p, s.ps1, s.cr)
         /\ [s EXCEPT !.ps1 = q] = Built(s.fpscr, s.ps0, q, s.cr)
         /\ [s EXCEPT !.cr = c] = Built(s.fpscr, s.ps0, s.ps1, c)
<1>1. s = [fpscr |-> s.fpscr, ps0 |-> s.ps0, ps1 |-> s.ps1, cr |-> s.cr]
  BY Zenon DEF IsMachine, Built
<1>2. [s EXCEPT !.fpscr = f] = [fpscr |-> f, ps0 |-> s.ps0, ps1 |-> s.ps1, cr |-> s.cr]
  BY <1>1
<1>3. [s EXCEPT !.ps0 = p] = [fpscr |-> s.fpscr, ps0 |-> p, ps1 |-> s.ps1, cr |-> s.cr]
  BY <1>1
<1>4. [s EXCEPT !.ps1 = q] = [fpscr |-> s.fpscr, ps0 |-> s.ps0, ps1 |-> q, cr |-> s.cr]
  BY <1>1
<1>5. [s EXCEPT !.cr = c] = [fpscr |-> s.fpscr, ps0 |-> s.ps0, ps1 |-> s.ps1, cr |-> c]
  BY <1>1
<1>. QED BY <1>2, <1>3, <1>4, <1>5, Zenon DEF Built

\* The updates the instructions make, as operators.
PutStatus(s, f)           == [s EXCEPT !.fpscr = f]
PutLow(s, d, v)           == [s EXCEPT !.ps0[d] = v]
PutHigh(s, d, v)          == [s EXCEPT !.ps1[d] = v]
PutPair(s, d, v, w)       == [s EXCEPT !.ps0[d] = v, !.ps1[d] = w]
PutField(s, c, f)         == [s EXCEPT !.cr = c, !.fpscr = f]
PutResult(s, f, d, v)     == [s EXCEPT !.fpscr = f, !.ps0[d] = v]
PutResults(s, d, v, w, f) == [s EXCEPT !.ps0[d] = v, !.ps1[d] = w, !.fpscr = f]

LEMMA Statuses ==
  ASSUME NEW s, IsMachine(s), NEW f
  PROVE  PutStatus(s, f) = Built(f, s.ps0, s.ps1, s.cr)
<1>1. [s EXCEPT !.fpscr = f] = Built(f, s.ps0, s.ps1, s.cr)
  BY FieldExcepts
<1>. QED BY <1>1, Zenon DEF PutStatus

LEMMA Lows ==
  ASSUME NEW s, IsMachine(s), NEW d, NEW v
  PROVE  PutLow(s, d, v) = Built(s.fpscr, [s.ps0 EXCEPT ![d] = v], s.ps1, s.cr)
<1>. DEFINE p == [s.ps0 EXCEPT ![d] = v]
<1>1. [s EXCEPT !.ps0[d] = v] = [s EXCEPT !.ps0 = p]
  OBVIOUS
<1>. HIDE DEF p
<1>2. [s EXCEPT !.ps0 = p] = Built(s.fpscr, p, s.ps1, s.cr)
  BY FieldExcepts
<1>. QED BY <1>1, <1>2, Zenon DEF p, PutLow

LEMMA Highs ==
  ASSUME NEW s, IsMachine(s), NEW d, NEW v
  PROVE  PutHigh(s, d, v) = Built(s.fpscr, s.ps0, [s.ps1 EXCEPT ![d] = v], s.cr)
<1>. DEFINE q == [s.ps1 EXCEPT ![d] = v]
<1>1. [s EXCEPT !.ps1[d] = v] = [s EXCEPT !.ps1 = q]
  OBVIOUS
<1>. HIDE DEF q
<1>2. [s EXCEPT !.ps1 = q] = Built(s.fpscr, s.ps0, q, s.cr)
  BY FieldExcepts
<1>. QED BY <1>1, <1>2, Zenon DEF q, PutHigh

LEMMA Pairs ==
  ASSUME NEW s, IsMachine(s), NEW d, NEW v, NEW w
  PROVE  PutPair(s, d, v, w) = Built(s.fpscr, [s.ps0 EXCEPT ![d] = v], [s.ps1 EXCEPT ![d] = w], s.cr)
<1>. DEFINE t == PutLow(s, d, v)
<1>1. PutPair(s, d, v, w) = PutHigh(t, d, w)
  <2>1. [s EXCEPT !.ps0[d] = v, !.ps1[d] = w] = [[s EXCEPT !.ps0[d] = v] EXCEPT !.ps1[d] = w]
    OBVIOUS
  <2>. QED BY <2>1, Zenon DEF PutPair, PutHigh, PutLow
<1>2. t = Built(s.fpscr, [s.ps0 EXCEPT ![d] = v], s.ps1, s.cr)
  BY Lows
<1>. HIDE DEF t
<1>3. IsMachine(t) /\ t.fpscr = s.fpscr /\ t.ps0 = [s.ps0 EXCEPT ![d] = v] /\ t.ps1 = s.ps1 /\ t.cr = s.cr
  BY <1>2, BuiltFields
<1>4. PutHigh(t, d, w) = Built(t.fpscr, t.ps0, [t.ps1 EXCEPT ![d] = w], t.cr)
  BY <1>3, Highs
<1>. QED BY <1>1, <1>3, <1>4, Zenon

LEMMA Fields ==
  ASSUME NEW s, IsMachine(s), NEW c, NEW f
  PROVE  PutField(s, c, f) = Built(f, s.ps0, s.ps1, c)
<1>. DEFINE t == [s EXCEPT !.cr = c]
<1>1. PutField(s, c, f) = PutStatus(t, f)
  <2>1. [s EXCEPT !.cr = c, !.fpscr = f] = [[s EXCEPT !.cr = c] EXCEPT !.fpscr = f]
    OBVIOUS
  <2>. QED BY <2>1, Zenon DEF PutField, PutStatus
<1>2. t = Built(s.fpscr, s.ps0, s.ps1, c)
  BY FieldExcepts
<1>. HIDE DEF t
<1>3. IsMachine(t) /\ t.fpscr = s.fpscr /\ t.ps0 = s.ps0 /\ t.ps1 = s.ps1 /\ t.cr = c
  BY <1>2, BuiltFields
<1>4. PutStatus(t, f) = Built(f, t.ps0, t.ps1, t.cr)
  BY <1>3, Statuses
<1>. QED BY <1>1, <1>3, <1>4, Zenon

LEMMA Results ==
  ASSUME NEW s, IsMachine(s), NEW f, NEW d, NEW v
  PROVE  /\ PutResult(s, f, d, v) = Built(f, [s.ps0 EXCEPT ![d] = v], s.ps1, s.cr)
         /\ PutLow(PutStatus(s, f), d, v) = Built(f, [s.ps0 EXCEPT ![d] = v], s.ps1, s.cr)
<1>. DEFINE t == PutStatus(s, f)
<1>1. PutResult(s, f, d, v) = PutLow(t, d, v)
  <2>1. [s EXCEPT !.fpscr = f, !.ps0[d] = v] = [[s EXCEPT !.fpscr = f] EXCEPT !.ps0[d] = v]
    OBVIOUS
  <2>. QED BY <2>1, Zenon DEF PutResult, PutLow, PutStatus
<1>2. t = Built(f, s.ps0, s.ps1, s.cr)
  BY Statuses
<1>. HIDE DEF t
<1>3. IsMachine(t) /\ t.fpscr = f /\ t.ps0 = s.ps0 /\ t.ps1 = s.ps1 /\ t.cr = s.cr
  BY <1>2, BuiltFields
<1>4. PutLow(t, d, v) = Built(t.fpscr, [t.ps0 EXCEPT ![d] = v], t.ps1, t.cr)
  BY <1>3, Lows
<1>. QED BY <1>1, <1>3, <1>4, Zenon DEF t

LEMMA PairResults ==
  ASSUME NEW s, IsMachine(s), NEW d, NEW v, NEW w, NEW f
  PROVE  LET built == Built(f, [s.ps0 EXCEPT ![d] = v], [s.ps1 EXCEPT ![d] = w], s.cr) IN
         /\ PutResults(s, d, v, w, f) = built
         /\ PutPair(PutStatus(s, f), d, v, w) = built
<1>. DEFINE t == PutPair(s, d, v, w)
            u == PutStatus(s, f)
<1>1. PutResults(s, d, v, w, f) = PutStatus(t, f)
  <2>1. [s EXCEPT !.ps0[d] = v, !.ps1[d] = w, !.fpscr = f]
          = [[s EXCEPT !.ps0[d] = v, !.ps1[d] = w] EXCEPT !.fpscr = f]
    OBVIOUS
  <2>. QED BY <2>1, Zenon DEF PutResults, PutStatus, PutPair
<1>2. /\ t = Built(s.fpscr, [s.ps0 EXCEPT ![d] = v], [s.ps1 EXCEPT ![d] = w], s.cr)
      /\ u = Built(f, s.ps0, s.ps1, s.cr)
  BY Pairs, Statuses
<1>. HIDE DEF t, u
<1>3. /\ IsMachine(t) /\ t.ps0 = [s.ps0 EXCEPT ![d] = v] /\ t.ps1 = [s.ps1 EXCEPT ![d] = w] /\ t.cr = s.cr
      /\ IsMachine(u) /\ u.fpscr = f /\ u.ps0 = s.ps0 /\ u.ps1 = s.ps1 /\ u.cr = s.cr
  BY <1>2, BuiltFields
<1>4. PutStatus(t, f) = Built(f, t.ps0, t.ps1, t.cr)
  BY <1>3, Statuses
<1>5. PutPair(u, d, v, w) = Built(u.fpscr, [u.ps0 EXCEPT ![d] = v], [u.ps1 EXCEPT ![d] = w], u.cr)
  BY <1>3, Pairs
<1>6. PutResults(s, d, v, w, f) = Built(f, [s.ps0 EXCEPT ![d] = v], [s.ps1 EXCEPT ![d] = w], s.cr)
  BY <1>1, <1>3, <1>4, Zenon
<1>7. PutPair(u, d, v, w) = Built(f, [s.ps0 EXCEPT ![d] = v], [s.ps1 EXCEPT ![d] = w], s.cr)
  BY <1>3, <1>5, Zenon
<1>. QED BY <1>6, <1>7, Zenon DEF u

ArithmeticStatus(f, v, err) ==
  update_fpscr_summaries((f \ (ResultBits \cup {"FI", "FR"})) \cup binary64_result_fprf(v)
                         \cup (IF Inexact(err) THEN {"FI", "XX", "FX"} ELSE {})
                         \cup (IF err = "away" THEN {"FR"} ELSE {}))
ClassStatus(f, v)    == (f \ ResultBits) \cup binary64_result_fprf(v)
RaisedStatus(f, bit) == update_fpscr_summaries(f \cup {bit, "FX"})

DoubleForm(s, d, v, err) == Built(ArithmeticStatus(s.fpscr, v, err), [s.ps0 EXCEPT ![d] = v], s.ps1, s.cr)
SingleForm(s, d, v, err) ==
  Built(ArithmeticStatus(s.fpscr, v, err), [s.ps0 EXCEPT ![d] = Extended(v)],
        [s.ps1 EXCEPT ![d] = Extended(v)], s.cr)
UnclassifiedForm(s, d, v) == Built(ClassStatus(s.fpscr, v), [s.ps0 EXCEPT ![d] = v], s.ps1, s.cr)
RaisedForm(s, bit) == Built(RaisedStatus(s.fpscr, bit), s.ps0, s.ps1, s.cr)

LEMMA InterpreterForms ==
  ASSUME NEW s, IsState(s), NEW d, NEW v, NEW err, NEW bit
  PROVE  /\ CommitDouble(s, d, v, err) = DoubleForm(s, d, v, err)
         /\ CommitSingle(s, d, v, err) = SingleForm(s, d, v, err)
         /\ CommitUnclassified(s, d, v) = UnclassifiedForm(s, d, v)
         /\ raise_fpscr_exception(s, bit) = RaisedForm(s, bit)
<1>. DEFINE f == ArithmeticStatus(s.fpscr, v, err)
            g == ClassStatus(s.fpscr, v)
            h == RaisedStatus(s.fpscr, bit)
            w == Extended(v)
<1>1. IsMachine(s)
  BY Zenon DEF IsState
<1>2. /\ CommitDouble(s, d, v, err) = PutLow(PutStatus(s, f), d, v)
      /\ CommitSingle(s, d, v, err) = PutPair(PutStatus(s, f), d, w, w)
  BY Zenon DEF CommitDouble, CommitSingle, set_double_arithmetic_result_status, ArithmeticStatus,
               PutStatus, PutLow, PutPair
<1>3. CommitUnclassified(s, d, v) = PutLow(PutStatus(s, g), d, v)
  BY Zenon DEF CommitUnclassified, set_double_arithmetic_fprf, ClassStatus, PutStatus, PutLow
<1>4. raise_fpscr_exception(s, bit) = PutStatus(s, h)
  BY Zenon DEF raise_fpscr_exception, RaisedStatus, PutStatus
<1>. HIDE DEF f, g, h, w
<1>5. CommitDouble(s, d, v, err) = Built(f, [s.ps0 EXCEPT ![d] = v], s.ps1, s.cr)
  BY <1>1, <1>2, Results
<1>6. CommitSingle(s, d, v, err) = Built(f, [s.ps0 EXCEPT ![d] = w], [s.ps1 EXCEPT ![d] = w], s.cr)
  BY <1>1, <1>2, PairResults
<1>7. CommitUnclassified(s, d, v) = Built(g, [s.ps0 EXCEPT ![d] = v], s.ps1, s.cr)
  BY <1>1, <1>3, Results
<1>8. raise_fpscr_exception(s, bit) = Built(h, s.ps0, s.ps1, s.cr)
  BY <1>1, <1>4, Statuses
<1>. QED BY <1>5, <1>6, <1>7, <1>8, Zenon
         DEF f, g, h, w, DoubleForm, SingleForm, UnclassifiedForm, RaisedForm

\* The class of a result reads the same in both engines.
LEMMA SameFprf ==
  ASSUME NEW v, IsValue(v)
  PROVE  native_double_result_fprf(v) = binary64_result_fprf(v)
<1>1. v.cls \in Classes /\ v.neg \in BOOLEAN
  BY DEF IsValue
<1>2. CASE v.cls \in {"quiet", "signalling"}
  BY <1>2 DEF native_double_result_fprf, binary64_result_fprf, Nan, Infinite, Zero, Signed
<1>3. CASE v.cls = "infinity"
  BY <1>1, <1>3 DEF native_double_result_fprf, binary64_result_fprf, Nan, Infinite, Zero, Signed
<1>4. CASE v.cls = "tiny"
  BY <1>1, <1>4 DEF native_double_result_fprf, binary64_result_fprf, Nan, Infinite, Zero, Signed
<1>5. CASE v.cls = "zero"
  BY <1>1, <1>5 DEF native_double_result_fprf, binary64_result_fprf, Nan, Infinite, Zero, Signed
<1>6. CASE v.cls = "normal"
  BY <1>1, <1>6 DEF native_double_result_fprf, binary64_result_fprf, Nan, Infinite, Zero, Signed
<1>. QED BY <1>1, <1>2, <1>3, <1>4, <1>5, <1>6 DEF Classes

LEMMA NativeCommits ==
  ASSUME NEW s, IsState(s), NEW d, NEW v, IsValue(v), NEW e,
         NEW inexact \in BOOLEAN, NEW up \in BOOLEAN, inexact <=> Inexact(e), up <=> e = "away"
  PROVE  /\ CommitFpr(s, d, v, inexact, up) = DoubleForm(s, d, v, e)
         /\ CommitSingleBits(s, d, v, inexact, up) = SingleForm(s, d, v, e)
<1>0. IsMachine(s)
  BY Zenon DEF IsState
<1>. DEFINE g == ResultCleared(s) \cup native_double_result_fprf(v) \cup RoundingBits(inexact, up)
            f == native_update_fpscr_summaries(g)
            w == Extended(v)
<1>1. f = ArithmeticStatus(s.fpscr, v, e)
  <2>. DEFINE h == (s.fpscr \ (ResultBits \cup {"FI", "FR"})) \cup binary64_result_fprf(v)
                   \cup (IF Inexact(e) THEN {"FI", "XX", "FX"} ELSE {})
                   \cup (IF e = "away" THEN {"FR"} ELSE {})
  <2>1. ResultCleared(s) = s.fpscr \ (ResultBits \cup {"FI", "FR"})
    BY DEF ResultCleared, ResultBits, ConditionBits
  <2>2. RoundingBits(inexact, up) = (IF Inexact(e) THEN {"FI", "XX", "FX"} ELSE {})
                                    \cup (IF e = "away" THEN {"FR"} ELSE {})
    BY DEF RoundingBits, Inexact
  <2>3. g = h
    BY <2>1, <2>2, SameFprf
  <2>4. f = update_fpscr_summaries(g)
    BY SameSummaries
  <2>5. ArithmeticStatus(s.fpscr, v, e) = update_fpscr_summaries(h)
    BY Zenon DEF ArithmeticStatus
  <2>. HIDE DEF g, h, f
  <2>. QED BY <2>3, <2>4, <2>5
<1>2. CommitFpr(s, d, v, inexact, up) = PutLow(PutStatus(s, f), d, v)
  BY Zenon DEF CommitFpr, native_set_double_result_status, PutStatus, PutLow
<1>3. CommitSingleBits(s, d, v, inexact, up) = PutResults(s, d, w, w, f)
  BY Zenon DEF CommitSingleBits, native_single_result_fprf, PutResults
<1>. HIDE DEF f, w
<1>4. CommitFpr(s, d, v, inexact, up) = Built(f, [s.ps0 EXCEPT ![d] = v], s.ps1, s.cr)
  BY <1>0, <1>2, Results
<1>5. CommitSingleBits(s, d, v, inexact, up)
        = Built(f, [s.ps0 EXCEPT ![d] = w], [s.ps1 EXCEPT ![d] = w], s.cr)
  BY <1>0, <1>3, PairResults
<1>. QED BY <1>1, <1>4, <1>5, Zenon DEF w, DoubleForm, SingleForm

LEMMA NativeForms ==
  ASSUME NEW s, IsState(s), NEW d, NEW v, IsValue(v), NEW bit
  PROVE  /\ CommitFpr(s, d, v, FALSE, FALSE) = DoubleForm(s, d, v, "exact")
         /\ CommitSingleBits(s, d, v, FALSE, FALSE) = SingleForm(s, d, v, "exact")
         /\ CommitFprOnly(s, d, v) = UnclassifiedForm(s, d, v)
         /\ native_raise_fpscr_exception(s, bit) = RaisedForm(s, bit)
<1>1. IsMachine(s)
  BY Zenon DEF IsState
<1>4. /\ CommitFpr(s, d, v, FALSE, FALSE) = DoubleForm(s, d, v, "exact")
      /\ CommitSingleBits(s, d, v, FALSE, FALSE) = SingleForm(s, d, v, "exact")
  <2>1. FALSE \in BOOLEAN /\ (FALSE <=> Inexact("exact")) /\ (FALSE <=> "exact" = "away")
    BY DEF Inexact
  <2>2. CommitFpr(s, d, v, FALSE, FALSE) = DoubleForm(s, d, v, "exact")
        /\ CommitSingleBits(s, d, v, FALSE, FALSE) = SingleForm(s, d, v, "exact")
    BY <2>1, NativeCommits
  <2>. QED BY <2>2, Zenon
<1>5. CommitFprOnly(s, d, v) = UnclassifiedForm(s, d, v)
  <2>. DEFINE g == (s.fpscr \ {"C", "FL", "FG", "FE", "FU"}) \cup native_double_result_fprf(v)
  <2>1. g = ClassStatus(s.fpscr, v)
    BY SameFprf DEF ClassStatus, ResultBits, ConditionBits
  <2>2. CommitFprOnly(s, d, v) = PutLow(PutStatus(s, g), d, v)
    BY Zenon DEF CommitFprOnly, native_set_double_fprf, PutStatus, PutLow
  <2>. HIDE DEF g
  <2>3. CommitFprOnly(s, d, v) = Built(g, [s.ps0 EXCEPT ![d] = v], s.ps1, s.cr)
    BY <1>1, <2>2, Results
  <2>. QED BY <2>1, <2>3, Zenon DEF UnclassifiedForm
<1>6. native_raise_fpscr_exception(s, bit) = RaisedForm(s, bit)
  <2>. DEFINE f == native_update_fpscr_summaries(s.fpscr \cup {bit, "FX"})
  <2>1. f = RaisedStatus(s.fpscr, bit)
    BY SameSummaries DEF RaisedStatus
  <2>2. native_raise_fpscr_exception(s, bit) = PutStatus(s, f)
    BY Zenon DEF native_raise_fpscr_exception, PutStatus
  <2>. HIDE DEF f
  <2>3. native_raise_fpscr_exception(s, bit) = Built(f, s.ps0, s.ps1, s.cr)
    BY <1>1, <2>2, Statuses
  <2>. QED BY <2>1, <2>3, Zenon DEF RaisedForm
<1>. QED BY <1>4, <1>5, <1>6

----------------------------------------------------------------------------
(* What a form keeps: a state stays a state, and an exception whose enable  *)
(* bit is set has left the registers alone.                                 *)

Watched == InvalidBits \cup {"ZX", "VE", "ZE"}
Quiescent(f, g) == \A w \in Watched : w \in g <=> w \in f
Suppressed(s, t) == Raises(s.fpscr, t.fpscr) => t.ps0 = s.ps0 /\ t.ps1 = s.ps1
Sound(s, t) == IsState(t) /\ Suppressed(s, t)

LEMMA ResultClass ==
  ASSUME NEW v
  PROVE  binary64_result_fprf(v) \subseteq ResultBits
BY DEF binary64_result_fprf, ResultBits, ConditionBits

LEMMA WatchedBits ==
  /\ Watched \cap ResultBits = {} /\ Watched \cap {"FI", "FR", "XX", "FX", "VX", "FEX"} = {}
  /\ InvalidBits \cap {"FI", "FR", "XX", "FX", "VX", "FEX", "ZX", "VE", "ZE"} = {}
  /\ InvalidBits \cap ResultBits = {}
  /\ \A p \in Enabled : p[1] \notin ResultBits /\ p[2] \notin ResultBits
  /\ "VX" \notin ResultBits /\ "FEX" \notin ResultBits
BY DEF Watched, InvalidBits, ResultBits, ConditionBits, Enabled

LEMMA ArithmeticKeeps ==
  ASSUME NEW f, NEW v, NEW err
  PROVE  Summarised(ArithmeticStatus(f, v, err)) /\ Quiescent(f, ArithmeticStatus(f, v, err))
<1>. DEFINE rounded == (IF Inexact(err) THEN {"FI", "XX", "FX"} ELSE {})
                         \cup (IF err = "away" THEN {"FR"} ELSE {})
            class == binary64_result_fprf(v)
            g == (f \ (ResultBits \cup {"FI", "FR"})) \cup class
                   \cup (IF Inexact(err) THEN {"FI", "XX", "FX"} ELSE {})
                   \cup (IF err = "away" THEN {"FR"} ELSE {})
<1>1. rounded \subseteq {"FI", "FR", "XX", "FX"}
  OBVIOUS
<1>2. class \subseteq ResultBits
  BY ResultClass
<1>3. g = (f \ (ResultBits \cup {"FI", "FR"})) \cup class \cup rounded
  OBVIOUS
<1>4. ArithmeticStatus(f, v, err) = update_fpscr_summaries(g)
  BY Zenon DEF ArithmeticStatus
<1>. HIDE DEF rounded, class, g
<1>5. ASSUME NEW w \in Watched PROVE w \in g <=> w \in f
  BY <1>1, <1>2, <1>3, WatchedBits
<1>6. /\ Summarised(update_fpscr_summaries(g))
      /\ \A bit : bit \notin {"VX", "FEX"} => (bit \in update_fpscr_summaries(g) <=> bit \in g)
  BY SummariesComputed
<1>7. \A w \in Watched : w \notin {"VX", "FEX"}
  BY WatchedBits
<1>. QED BY <1>4, <1>5, <1>6, <1>7 DEF Quiescent

LEMMA ClassKeeps ==
  ASSUME NEW f, Summarised(f), NEW v
  PROVE  Summarised(ClassStatus(f, v)) /\ Quiescent(f, ClassStatus(f, v))
<1>. DEFINE g == ClassStatus(f, v)
<1>1. \A bit : bit \notin ResultBits => (bit \in g <=> bit \in f)
  BY ResultClass DEF ClassStatus
<1>. HIDE DEF g
<1>2. g \cap InvalidBits = f \cap InvalidBits
  BY <1>1, WatchedBits
<1>3. ASSUME NEW p \in Enabled PROVE {p[1], p[2]} \subseteq g <=> {p[1], p[2]} \subseteq f
  BY <1>1, WatchedBits
<1>4. Summarised(g)
  BY <1>1, <1>2, <1>3, WatchedBits DEF Summarised
<1>5. Quiescent(f, g)
  BY <1>1, WatchedBits DEF Quiescent
<1>. QED BY <1>4, <1>5 DEF g

LEMMA RaisedKeeps ==
  ASSUME NEW f, NEW bit \in Watched
  PROVE  /\ Summarised(RaisedStatus(f, bit))
         /\ \A w \in Watched : w \in RaisedStatus(f, bit) <=> w \in f \/ w = bit
<1>. DEFINE g == f \cup {bit, "FX"}
<1>1. /\ Summarised(update_fpscr_summaries(g))
      /\ \A w : w \notin {"VX", "FEX"} => (w \in update_fpscr_summaries(g) <=> w \in g)
  BY SummariesComputed
<1>2. RaisedStatus(f, bit) = update_fpscr_summaries(g)
  BY Zenon DEF RaisedStatus
<1>3. \A w \in Watched : w \notin {"VX", "FEX"} /\ w # "FX"
  BY WatchedBits
<1>. QED BY <1>1, <1>2, <1>3

\* A form whose status raises nothing that is enabled is sound whatever it writes.
LEMMA QuiescentRaises ==
  ASSUME NEW f, NEW g, Quiescent(f, g)
  PROVE  ~Raises(f, g)
BY DEF Quiescent, Raises, Watched

ResultForm(kind, s, d, v, err) ==
  IF kind = "double" THEN DoubleForm(s, d, v, err) ELSE SingleForm(s, d, v, err)
QuietOf(kind, v) == IF kind = "double" THEN quiet_nan_binary64_bits(v) ELSE quiet_nan_single_bits(v)
NanForm(kind, s, d, v) == ResultForm(kind, s, d, QuietOf(kind, v), "exact")

LEMMA QuietValue ==
  ASSUME NEW v, IsValue(v), NEW kind
  PROVE  IsValue(quiet_nan_binary64_bits(v)) /\ IsValue(quiet_nan_single_bits(v)) /\ IsValue(QuietOf(kind, v))
<1>1. "quiet" \in Classes
  BY DEF Classes
<1>2. IsValue(quiet_nan_binary64_bits(v))
  BY <1>1, ValueChanged, Constants DEF quiet_nan_binary64_bits
<1>3. IsValue(quiet_nan_single_bits(v))
  <2>. DEFINE w == quiet_nan_binary64_bits(v)
  <2>. HIDE DEF w
  <2>1. IsValue(w)
    BY <1>2 DEF w
  <2>2. IsValue(Labelled("single", w))
    BY <2>1, ValueChanged
  <2>. QED BY <2>2, Zenon DEF quiet_nan_single_bits, w
<1>. QED BY <1>2, <1>3, Zenon DEF QuietOf

LEMMA ResultFields ==
  ASSUME NEW s, IsState(s), NEW d \in FloatRegisters, NEW v, IsValue(v), NEW err, NEW kind
  PROVE  /\ IsState(ResultForm(kind, s, d, v, err)) /\ IsState(UnclassifiedForm(s, d, v))
         /\ Quiescent(s.fpscr, ResultForm(kind, s, d, v, err).fpscr)
         /\ Quiescent(s.fpscr, UnclassifiedForm(s, d, v).fpscr)
<1>. DEFINE f == ArithmeticStatus(s.fpscr, v, err)
            g == ClassStatus(s.fpscr, v)
            low == [s.ps0 EXCEPT ![d] = v]
            low1 == [s.ps0 EXCEPT ![d] = Extended(v)]
            high1 == [s.ps1 EXCEPT ![d] = Extended(v)]
<1>1. IsLanes(s.ps0) /\ IsLanes(s.ps1) /\ Summarised(s.fpscr)
  BY Zenon DEF IsState
<1>2. Summarised(f) /\ Quiescent(s.fpscr, f) /\ Summarised(g) /\ Quiescent(s.fpscr, g)
  BY <1>1, ArithmeticKeeps, ClassKeeps
<1>3. IsValue(Extended(v))
  BY ValueChanged
<1>4. IsLanes(low)
  BY <1>1, LaneWritten
<1>5. IsLanes(low1) /\ IsLanes(high1)
  <2>. DEFINE w == Extended(v)
  <2>. HIDE DEF w
  <2>1. IsValue(w)
    BY <1>3 DEF w
  <2>2. IsLanes([s.ps0 EXCEPT ![d] = w]) /\ IsLanes([s.ps1 EXCEPT ![d] = w])
    BY <1>1, <2>1, LaneWritten
  <2>. QED BY <2>2, Zenon DEF w
<1>. HIDE DEF f, g, low, low1, high1
<1>6. IsState(Built(f, low, s.ps1, s.cr)) /\ Built(f, low, s.ps1, s.cr).fpscr = f
  BY <1>1, <1>2, <1>4, BuiltState, BuiltFields
<1>7. IsState(Built(f, low1, high1, s.cr)) /\ Built(f, low1, high1, s.cr).fpscr = f
  BY <1>2, <1>5, BuiltState, BuiltFields
<1>8. IsState(Built(g, low, s.ps1, s.cr)) /\ Built(g, low, s.ps1, s.cr).fpscr = g
  BY <1>1, <1>2, <1>4, BuiltState, BuiltFields
<1>9. DoubleForm(s, d, v, err) = Built(f, low, s.ps1, s.cr) /\ SingleForm(s, d, v, err) = Built(f, low1, high1, s.cr)
      /\ UnclassifiedForm(s, d, v) = Built(g, low, s.ps1, s.cr)
  BY Zenon DEF DoubleForm, SingleForm, UnclassifiedForm, f, g, low, low1, high1
<1>. QED BY <1>2, <1>6, <1>7, <1>8, <1>9 DEF ResultForm

LEMMA ResultSound ==
  ASSUME NEW s, IsState(s), NEW d \in FloatRegisters, NEW v, IsValue(v), NEW err, NEW kind
  PROVE  Sound(s, ResultForm(kind, s, d, v, err)) /\ Sound(s, UnclassifiedForm(s, d, v))
BY ResultFields, QuiescentRaises DEF Sound, Suppressed

LEMMA RaisedSound ==
  ASSUME NEW s, IsState(s), NEW bit \in Watched
  PROVE  /\ Sound(s, RaisedForm(s, bit)) /\ RaisedForm(s, bit).fpscr = RaisedStatus(s.fpscr, bit)
<1>. DEFINE t == RaisedForm(s, bit)
<1>1. t.fpscr = RaisedStatus(s.fpscr, bit) /\ t.ps0 = s.ps0 /\ t.ps1 = s.ps1
  BY BuiltFields DEF RaisedForm
<1>2. IsLanes(s.ps0) /\ IsLanes(s.ps1)
  BY Zenon DEF IsState
<1>3. IsState(t)
  BY <1>2, RaisedKeeps, BuiltState DEF RaisedForm
<1>. HIDE DEF t
<1>4. Sound(s, t)
  BY <1>1, <1>3 DEF Sound, Suppressed
<1>. QED BY <1>1, <1>4 DEF t

\* After an exception that is not enabled, a result may be written.
LEMMA RaisedThenWritten ==
  ASSUME NEW s, IsState(s), NEW bit \in InvalidBits \cup {"ZX"}, NEW t, IsState(t),
         Quiescent(RaisedForm(s, bit).fpscr, t.fpscr),
         (IF bit = "ZX" THEN "ZE" ELSE "VE") \notin RaisedForm(s, bit).fpscr
  PROVE  Sound(s, t)
<1>. DEFINE f == s.fpscr
            g == RaisedForm(s, bit).fpscr
            h == t.fpscr
<1>1. bit \in Watched /\ \A w \in Watched : w \in g <=> w \in f \/ w = bit
  BY RaisedSound, RaisedKeeps DEF Watched
<1>2. \A w \in Watched : w \in h <=> w \in g
  BY DEF Quiescent
<1>. HIDE DEF f, g, h
<1>3. "VE" \in Watched /\ "ZE" \in Watched /\ "ZX" \in Watched /\ InvalidBits \subseteq Watched /\ "ZX" \notin InvalidBits
  BY DEF Watched, InvalidBits
<1>4. ~Raises(f, h)
  BY <1>1, <1>2, <1>3 DEF Raises, g
<1>. QED BY <1>4 DEF f, h, Sound, Suppressed

InvalidForm(kind, s, d, bit, v) ==
  IF "VE" \in RaisedForm(s, bit).fpscr THEN RaisedForm(s, bit)
  ELSE NanForm(kind, RaisedForm(s, bit), d, v)
ZeroForm(kind, s, d, v) ==
  IF "ZE" \in RaisedForm(s, "ZX").fpscr THEN RaisedForm(s, "ZX")
  ELSE ResultForm(kind, RaisedForm(s, "ZX"), d, v, "exact")

LEMMA ExceptionSound ==
  ASSUME NEW s, IsState(s), NEW d \in FloatRegisters, NEW v, IsValue(v), NEW kind,
         NEW bit \in InvalidBits
  PROVE  Sound(s, InvalidForm(kind, s, d, bit, v)) /\ Sound(s, ZeroForm(kind, s, d, v))
         /\ Sound(s, NanForm(kind, s, d, v))
<1>1. bit \in Watched /\ "ZX" \in Watched /\ bit # "ZX"
  BY DEF Watched, InvalidBits
<1>2. /\ Sound(s, RaisedForm(s, bit)) /\ IsState(RaisedForm(s, bit))
      /\ Sound(s, RaisedForm(s, "ZX")) /\ IsState(RaisedForm(s, "ZX"))
  BY <1>1, RaisedSound DEF Sound
<1>. DEFINE w == QuietOf(kind, v)
            t == NanForm(kind, RaisedForm(s, bit), d, v)
            u == ResultForm(kind, RaisedForm(s, "ZX"), d, v, "exact")
<1>3. IsValue(w)
  BY QuietValue
<1>4. IsState(t) /\ Quiescent(RaisedForm(s, bit).fpscr, t.fpscr)
  <2>. HIDE DEF w
  <2>1. t = ResultForm(kind, RaisedForm(s, bit), d, w, "exact")
    BY Zenon DEF NanForm, w
  <2>. QED BY <1>2, <1>3, <2>1, ResultFields
<1>5. IsState(u) /\ Quiescent(RaisedForm(s, "ZX").fpscr, u.fpscr)
  BY <1>2, ResultFields
<1>. HIDE DEF t, u
<1>6. ASSUME "VE" \notin RaisedForm(s, bit).fpscr PROVE Sound(s, t)
  BY <1>1, <1>4, <1>6, RaisedThenWritten
<1>7. ASSUME "ZE" \notin RaisedForm(s, "ZX").fpscr PROVE Sound(s, u)
  BY <1>5, <1>7, RaisedThenWritten
<1>8. Sound(s, NanForm(kind, s, d, v))
  <2>. HIDE DEF w
  <2>1. Sound(s, ResultForm(kind, s, d, w, "exact"))
    BY <1>3, ResultSound
  <2>. QED BY <2>1, Zenon DEF NanForm, w
<1>. QED BY <1>2, <1>6, <1>7, <1>8, Zenon DEF InvalidForm, ZeroForm, t, u

----------------------------------------------------------------------------
(* The sources of an instruction, and the early returns for NaNs and        *)
(* invalid operations in both engines.                                      *)

IsSources(sources) == Len(sources) \in 1..3 /\ \A n \in 1..Len(sources) : IsValue(sources[n])

LEMMA FirstIsSource ==
  ASSUME NEW sources, IsSources(sources)
  PROVE  /\ (\E n \in 1..Len(sources) : Signalling(sources[n])) => IsValue(FirstSignalling(sources))
         /\ (\E n \in 1..Len(sources) : Nan(sources[n])) => IsValue(FirstNan(sources))
<1>. DEFINE len == Len(sources)
            IsFirstSignalling(n) == Signalling(sources[n]) /\ \A k \in 1..(n - 1) : ~Signalling(sources[k])
            IsFirstNan(n) == Nan(sources[n]) /\ \A k \in 1..(n - 1) : ~Nan(sources[k])
<1>1. len \in {1, 2, 3} /\ \A n \in 1..len : IsValue(sources[n])
  BY DEF IsSources
<1>. HIDE DEF len
<1>2. ASSUME NEW n \in 1..len, Signalling(sources[n]) PROVE \E m \in 1..len : IsFirstSignalling(m)
  <2>1. CASE Signalling(sources[1])
    BY <1>1, <2>1
  <2>2. CASE ~Signalling(sources[1]) /\ len >= 2 /\ Signalling(sources[2])
    BY <1>1, <2>2
  <2>3. CASE ~Signalling(sources[1]) /\ (len < 2 \/ ~Signalling(sources[2]))
    <3>1. len = 3 /\ Signalling(sources[3])
      BY <1>1, <1>2, <2>3
    <3>2. \A k \in 1..(3 - 1) : ~Signalling(sources[k])
      BY <2>3, <3>1
    <3>. QED BY <3>1, <3>2
  <2>. QED BY <1>1, <2>1, <2>2, <2>3
<1>3. ASSUME NEW n \in 1..len, Nan(sources[n]) PROVE \E m \in 1..len : IsFirstNan(m)
  <2>1. CASE Nan(sources[1])
    BY <1>1, <2>1
  <2>2. CASE ~Nan(sources[1]) /\ len >= 2 /\ Nan(sources[2])
    BY <1>1, <2>2
  <2>3. CASE ~Nan(sources[1]) /\ (len < 2 \/ ~Nan(sources[2]))
    <3>1. len = 3 /\ Nan(sources[3])
      BY <1>1, <1>3, <2>3
    <3>2. \A k \in 1..(3 - 1) : ~Nan(sources[k])
      BY <2>3, <3>1
    <3>. QED BY <3>1, <3>2
  <2>. QED BY <1>1, <2>1, <2>2, <2>3
<1>4. FirstSignalling(sources) = sources[CHOOSE n \in 1..len : IsFirstSignalling(n)]
  BY Zenon DEF FirstSignalling, len
<1>5. FirstNan(sources) = sources[CHOOSE n \in 1..len : IsFirstNan(n)]
  BY Zenon DEF FirstNan, len
<1>. HIDE DEF IsFirstSignalling, IsFirstNan
<1>6. ASSUME \E n \in 1..len : Signalling(sources[n]) PROVE IsValue(FirstSignalling(sources))
  <2>1. (CHOOSE n \in 1..len : IsFirstSignalling(n)) \in 1..len
    BY <1>2, <1>6
  <2>. QED BY <1>1, <1>4, <2>1
<1>7. ASSUME \E n \in 1..len : Nan(sources[n]) PROVE IsValue(FirstNan(sources))
  <2>1. (CHOOSE n \in 1..len : IsFirstNan(n)) \in 1..len
    BY <1>3, <1>7
  <2>. QED BY <1>1, <1>5, <2>1
<1>. QED BY <1>6, <1>7 DEF len

LEMMA TupleSources ==
  /\ \A a : IsValue(a) => IsSources(<<a>>)
  /\ \A a, b : IsValue(a) /\ IsValue(b) => IsSources(<<a, b>>)
  /\ \A a, b, c : IsValue(a) /\ IsValue(b) /\ IsValue(c) => IsSources(<<a, b, c>>)
<1>1. ASSUME NEW a, IsValue(a) PROVE IsSources(<<a>>)
  BY <1>1 DEF IsSources
<1>2. ASSUME NEW a, NEW b, IsValue(a), IsValue(b) PROVE IsSources(<<a, b>>)
  BY <1>2 DEF IsSources
<1>3. ASSUME NEW a, NEW b, NEW c, IsValue(a), IsValue(b), IsValue(c) PROVE IsSources(<<a, b, c>>)
  BY <1>3 DEF IsSources
<1>. QED BY <1>1, <1>2, <1>3

\* The early returns of each engine, with their commits filled in.
InvalidDouble(s, d, bit, v) == SignalInvalid(s, d, bit, v, CommitDoubleNan)
InvalidSingle(s, d, bit, v) == SignalInvalid(s, d, bit, v, CommitSingleNan)
ZeroDouble(s, d, v)         == DivideByZero(s, d, v, CommitDouble)
ZeroSingle(s, d, v)         == DivideByZero(s, d, v, CommitSingle)
CheckedDouble(s, d, sources, invalid, result) == Checked(s, d, sources, invalid, CommitDoubleNan, result)
CheckedSingle(s, d, sources, invalid, result) == Checked(s, d, sources, invalid, CommitSingleNan, result)
NativeInvalidDouble(s, d, bit, v) == native_invalid(s, d, bit, v, CommitNan)
NativeInvalidSingle(s, d, bit, v) == native_invalid(s, d, bit, v, CommitNanSingle)
NativeZeroDouble(s, d, v)         == native_zero_divide(s, d, v, CommitFpr)
NativeZeroSingle(s, d, v)         == native_zero_divide(s, d, v, CommitSingleBits)
FreeDouble(s, d, sources, rest)   == NanFree(s, d, sources, CommitNan, rest)
FreeSingle(s, d, sources, rest)   == NanFree(s, d, sources, CommitNanSingle, rest)

LEMMA NanCommits ==
  ASSUME NEW s, IsState(s), NEW d, NEW v, IsValue(v)
  PROVE  /\ CommitDoubleNan(s, d, v) = NanForm("double", s, d, v)
         /\ CommitSingleNan(s, d, v) = NanForm("single", s, d, v)
         /\ CommitNan(s, d, v) = NanForm("double", s, d, v)
         /\ CommitNanSingle(s, d, v) = NanForm("single", s, d, v)
<1>. DEFINE x == quiet_nan_binary64_bits(v)
            y == quiet_nan_single_bits(v)
<1>1. IsValue(x) /\ IsValue(y)
  BY QuietValue
<1>2. Quiet(v) = x /\ QuietSingle(v) = y
  BY Zenon DEF Quiet, QuietSingle, quiet_nan_binary64_bits, quiet_nan_single_bits
<1>3. NanForm("double", s, d, v) = DoubleForm(s, d, x, "exact") /\ NanForm("single", s, d, v) = SingleForm(s, d, y, "exact")
  BY DEF NanForm, ResultForm, QuietOf
<1>. HIDE DEF x, y
<1>4. CommitDouble(s, d, x, "exact") = DoubleForm(s, d, x, "exact") /\ CommitSingle(s, d, y, "exact") = SingleForm(s, d, y, "exact")
  BY InterpreterForms
<1>5. CommitFpr(s, d, x, FALSE, FALSE) = DoubleForm(s, d, x, "exact")
  BY <1>1, NativeForms
<1>6. CommitSingleBits(s, d, y, FALSE, FALSE) = SingleForm(s, d, y, "exact")
  BY <1>1, NativeForms
<1>7. CommitDoubleNan(s, d, v) = CommitDouble(s, d, x, "exact") /\ CommitSingleNan(s, d, v) = CommitSingle(s, d, y, "exact")
  BY Zenon DEF CommitDoubleNan, CommitSingleNan, x, y
<1>8. CommitNan(s, d, v) = CommitFpr(s, d, x, FALSE, FALSE) /\ CommitNanSingle(s, d, v) = CommitSingleBits(s, d, y, FALSE, FALSE)
  BY <1>2, Zenon DEF CommitNan, CommitNanSingle
<1>. QED BY <1>3, <1>4, <1>5, <1>6, <1>7, <1>8, Zenon

LEMMA SameInvalid ==
  ASSUME NEW s, IsState(s), NEW d, NEW v, IsValue(v), NEW bit \in InvalidBits
  PROVE  /\ InvalidDouble(s, d, bit, v) = InvalidForm("double", s, d, bit, v)
         /\ InvalidSingle(s, d, bit, v) = InvalidForm("single", s, d, bit, v)
         /\ NativeInvalidDouble(s, d, bit, v) = InvalidForm("double", s, d, bit, v)
         /\ NativeInvalidSingle(s, d, bit, v) = InvalidForm("single", s, d, bit, v)
<1>. DEFINE t == RaisedForm(s, bit)
<1>1. raise_fpscr_exception(s, bit) = t /\ native_raise_fpscr_exception(s, bit) = t
  <2>1. raise_fpscr_exception(s, bit) = t
    BY InterpreterForms
  <2>2. native_raise_fpscr_exception(s, bit) = t
    BY NativeForms
  <2>. QED BY <2>1, <2>2
<1>2. IsState(t)
  BY RaisedSound DEF Watched, Sound
<1>. HIDE DEF t
<1>3. /\ CommitDoubleNan(t, d, v) = NanForm("double", t, d, v)
      /\ CommitSingleNan(t, d, v) = NanForm("single", t, d, v)
      /\ CommitNan(t, d, v) = NanForm("double", t, d, v)
      /\ CommitNanSingle(t, d, v) = NanForm("single", t, d, v)
  BY <1>2, NanCommits
<1>4. \A kind : InvalidForm(kind, s, d, bit, v) = IF "VE" \in t.fpscr THEN t ELSE NanForm(kind, t, d, v)
  BY Zenon DEF InvalidForm, t
<1>5. InvalidDouble(s, d, bit, v) = IF "VE" \in t.fpscr THEN t ELSE CommitDoubleNan(t, d, v)
  BY <1>1, Zenon DEF InvalidDouble, SignalInvalid
<1>6. InvalidSingle(s, d, bit, v) = IF "VE" \in t.fpscr THEN t ELSE CommitSingleNan(t, d, v)
  BY <1>1, Zenon DEF InvalidSingle, SignalInvalid
<1>7. NativeInvalidDouble(s, d, bit, v) = IF "VE" \in t.fpscr THEN t ELSE CommitNan(t, d, v)
  BY <1>1, Zenon DEF NativeInvalidDouble, native_invalid
<1>8. NativeInvalidSingle(s, d, bit, v) = IF "VE" \in t.fpscr THEN t ELSE CommitNanSingle(t, d, v)
  BY <1>1, Zenon DEF NativeInvalidSingle, native_invalid
<1>. QED BY <1>3, <1>4, <1>5, <1>6, <1>7, <1>8

LEMMA SameZeroDivide ==
  ASSUME NEW s, IsState(s), NEW d, NEW v, IsValue(v)
  PROVE  /\ ZeroDouble(s, d, v) = ZeroForm("double", s, d, v)
         /\ ZeroSingle(s, d, v) = ZeroForm("single", s, d, v)
         /\ NativeZeroDouble(s, d, v) = ZeroForm("double", s, d, v)
         /\ NativeZeroSingle(s, d, v) = ZeroForm("single", s, d, v)
<1>. DEFINE t == RaisedForm(s, "ZX")
<1>1. raise_fpscr_exception(s, "ZX") = t /\ native_raise_fpscr_exception(s, "ZX") = t
  <2>1. raise_fpscr_exception(s, "ZX") = t
    BY InterpreterForms
  <2>2. native_raise_fpscr_exception(s, "ZX") = t
    BY NativeForms
  <2>. QED BY <2>1, <2>2
<1>2. IsState(t)
  BY RaisedSound DEF Watched, Sound
<1>. HIDE DEF t
<1>3. CommitDouble(t, d, v, "exact") = DoubleForm(t, d, v, "exact") /\ CommitSingle(t, d, v, "exact") = SingleForm(t, d, v, "exact")
  BY <1>2, InterpreterForms
<1>4. CommitFpr(t, d, v, FALSE, FALSE) = DoubleForm(t, d, v, "exact")
  BY <1>2, NativeForms
<1>5. CommitSingleBits(t, d, v, FALSE, FALSE) = SingleForm(t, d, v, "exact")
  BY <1>2, NativeForms
<1>6. ZeroForm("double", s, d, v) = IF "ZE" \in t.fpscr THEN t ELSE DoubleForm(t, d, v, "exact")
  BY DEF ZeroForm, ResultForm, t
<1>7. ZeroForm("single", s, d, v) = IF "ZE" \in t.fpscr THEN t ELSE SingleForm(t, d, v, "exact")
  BY DEF ZeroForm, ResultForm, t
<1>8. ZeroDouble(s, d, v) = IF "ZE" \in t.fpscr THEN t ELSE CommitDouble(t, d, v, "exact")
  BY <1>1, Zenon DEF ZeroDouble, DivideByZero
<1>9. ZeroSingle(s, d, v) = IF "ZE" \in t.fpscr THEN t ELSE CommitSingle(t, d, v, "exact")
  BY <1>1, Zenon DEF ZeroSingle, DivideByZero
<1>10. NativeZeroDouble(s, d, v) = IF "ZE" \in t.fpscr THEN t ELSE CommitFpr(t, d, v, FALSE, FALSE)
  BY <1>1, Zenon DEF NativeZeroDouble, native_zero_divide
<1>11. NativeZeroSingle(s, d, v) = IF "ZE" \in t.fpscr THEN t ELSE CommitSingleBits(t, d, v, FALSE, FALSE)
  BY <1>1, Zenon DEF NativeZeroSingle, native_zero_divide
<1>12. ZeroDouble(s, d, v) = ZeroForm("double", s, d, v)
  <2>1. ZeroDouble(s, d, v) = IF "ZE" \in t.fpscr THEN t ELSE DoubleForm(t, d, v, "exact")
    BY <1>3, <1>8
  <2>. QED BY <1>6, <2>1
<1>13. ZeroSingle(s, d, v) = ZeroForm("single", s, d, v)
  <2>1. ZeroSingle(s, d, v) = IF "ZE" \in t.fpscr THEN t ELSE SingleForm(t, d, v, "exact")
    BY <1>3, <1>9
  <2>. QED BY <1>7, <2>1
<1>14. NativeZeroDouble(s, d, v) = ZeroForm("double", s, d, v)
  <2>1. NativeZeroDouble(s, d, v) = IF "ZE" \in t.fpscr THEN t ELSE DoubleForm(t, d, v, "exact")
    BY <1>4, <1>10
  <2>. QED BY <1>6, <2>1
<1>15. NativeZeroSingle(s, d, v) = ZeroForm("single", s, d, v)
  <2>1. NativeZeroSingle(s, d, v) = IF "ZE" \in t.fpscr THEN t ELSE SingleForm(t, d, v, "exact")
    BY <1>5, <1>11
  <2>. QED BY <1>7, <2>1
<1>. QED BY <1>12, <1>13, <1>14, <1>15, Zenon

\* NaNs first, then an operation that is invalid, then the result.
FreeForm(kind, s, d, sources, rest) ==
  IF \E n \in 1..Len(sources) : Signalling(sources[n])
  THEN InvalidForm(kind, s, d, "VXSNAN", FirstSignalling(sources))
  ELSE IF \E n \in 1..Len(sources) : Nan(sources[n])
       THEN NanForm(kind, s, d, FirstNan(sources)) ELSE rest
InvalidOr(kind, s, d, invalid, result) ==
  IF invalid # "none" THEN InvalidForm(kind, s, d, invalid, NoNan) ELSE result

LEMMA SameChecks ==
  ASSUME NEW s, IsState(s), NEW d, NEW sources, IsSources(sources), NEW result,
         NEW invalid \in InvalidBits \cup {"none"}
  PROVE  /\ CheckedDouble(s, d, sources, invalid, result)
              = FreeForm("double", s, d, sources, InvalidOr("double", s, d, invalid, result))
         /\ CheckedSingle(s, d, sources, invalid, result)
              = FreeForm("single", s, d, sources, InvalidOr("single", s, d, invalid, result))
         /\ FreeDouble(s, d, sources, result) = FreeForm("double", s, d, sources, result)
         /\ FreeSingle(s, d, sources, result) = FreeForm("single", s, d, sources, result)
<1>. DEFINE A == \E n \in 1..Len(sources) : Signalling(sources[n])
            B == \E n \in 1..Len(sources) : Nan(sources[n])
            x == FirstSignalling(sources)
            y == FirstNan(sources)
<1>1. A => IsValue(x)
  BY FirstIsSource
<1>2. B => IsValue(y)
  BY FirstIsSource
<1>3. \A kind, rest : FreeForm(kind, s, d, sources, rest)
                        = IF A THEN InvalidForm(kind, s, d, "VXSNAN", x)
                          ELSE IF B THEN NanForm(kind, s, d, y) ELSE rest
  BY Zenon DEF FreeForm
<1>4. CheckedDouble(s, d, sources, invalid, result)
        = IF A THEN InvalidDouble(s, d, "VXSNAN", x)
          ELSE IF B THEN CommitDoubleNan(s, d, y)
          ELSE IF invalid # "none" THEN InvalidDouble(s, d, invalid, NoNan) ELSE result
  BY Zenon DEF CheckedDouble, Checked, InvalidDouble, SignalInvalid
<1>5. CheckedSingle(s, d, sources, invalid, result)
        = IF A THEN InvalidSingle(s, d, "VXSNAN", x)
          ELSE IF B THEN CommitSingleNan(s, d, y)
          ELSE IF invalid # "none" THEN InvalidSingle(s, d, invalid, NoNan) ELSE result
  BY Zenon DEF CheckedSingle, Checked, InvalidSingle, SignalInvalid
<1>6. FreeDouble(s, d, sources, result)
        = IF A THEN NativeInvalidDouble(s, d, "VXSNAN", x) ELSE IF B THEN CommitNan(s, d, y) ELSE result
  BY Zenon DEF FreeDouble, NanFree, NativeInvalidDouble, native_invalid
<1>7. FreeSingle(s, d, sources, result)
        = IF A THEN NativeInvalidSingle(s, d, "VXSNAN", x) ELSE IF B THEN CommitNanSingle(s, d, y) ELSE result
  BY Zenon DEF FreeSingle, NanFree, NativeInvalidSingle, native_invalid
<1>. HIDE DEF A, B, x, y
<1>8. "VXSNAN" \in InvalidBits /\ IsValue(NoNan)
  BY Constants DEF InvalidBits
<1>9. A => /\ InvalidDouble(s, d, "VXSNAN", x) = InvalidForm("double", s, d, "VXSNAN", x)
           /\ InvalidSingle(s, d, "VXSNAN", x) = InvalidForm("single", s, d, "VXSNAN", x)
           /\ NativeInvalidDouble(s, d, "VXSNAN", x) = InvalidForm("double", s, d, "VXSNAN", x)
           /\ NativeInvalidSingle(s, d, "VXSNAN", x) = InvalidForm("single", s, d, "VXSNAN", x)
  BY <1>1, <1>8, SameInvalid
<1>10. B => /\ CommitDoubleNan(s, d, y) = NanForm("double", s, d, y)
            /\ CommitSingleNan(s, d, y) = NanForm("single", s, d, y)
            /\ CommitNan(s, d, y) = NanForm("double", s, d, y)
            /\ CommitNanSingle(s, d, y) = NanForm("single", s, d, y)
  BY <1>2, NanCommits
<1>11. invalid # "none" =>
         /\ InvalidDouble(s, d, invalid, NoNan) = InvalidForm("double", s, d, invalid, NoNan)
         /\ InvalidSingle(s, d, invalid, NoNan) = InvalidForm("single", s, d, invalid, NoNan)
  BY <1>8, SameInvalid
<1>. QED BY <1>3, <1>4, <1>5, <1>6, <1>7, <1>9, <1>10, <1>11 DEF InvalidOr

LEMMA FreeSound ==
  ASSUME NEW s, IsState(s), NEW d \in FloatRegisters, NEW sources, IsSources(sources),
         NEW kind, NEW invalid \in InvalidBits \cup {"none"}, NEW result, Sound(s, result)
  PROVE  Sound(s, FreeForm(kind, s, d, sources, InvalidOr(kind, s, d, invalid, result)))
<1>1. "VXSNAN" \in InvalidBits /\ IsValue(NoNan)
  BY Constants DEF InvalidBits
<1>. DEFINE A == \E n \in 1..Len(sources) : Signalling(sources[n])
            B == \E n \in 1..Len(sources) : Nan(sources[n])
            x == FirstSignalling(sources)
            y == FirstNan(sources)
            rest == InvalidOr(kind, s, d, invalid, result)
<1>2. Sound(s, rest)
  BY <1>1, ExceptionSound DEF InvalidOr
<1>3. A => IsValue(x)
  BY FirstIsSource
<1>4. B => IsValue(y)
  BY FirstIsSource
<1>5. FreeForm(kind, s, d, sources, rest)
        = IF A THEN InvalidForm(kind, s, d, "VXSNAN", x) ELSE IF B THEN NanForm(kind, s, d, y) ELSE rest
  BY Zenon DEF FreeForm
<1>. HIDE DEF A, B, x, y, rest
<1>6. A => Sound(s, InvalidForm(kind, s, d, "VXSNAN", x))
  BY <1>1, <1>3, ExceptionSound
<1>7. B => Sound(s, NanForm(kind, s, d, y))
  BY <1>1, <1>4, ExceptionSound
<1>8. Sound(s, FreeForm(kind, s, d, sources, rest))
  BY <1>2, <1>5, <1>6, <1>7
<1>. QED BY <1>8 DEF rest

----------------------------------------------------------------------------
(* Results that are numbers.                                                *)

IsInsn(i) == i.d \in FloatRegisters /\ i.a \in FloatRegisters /\ i.b \in FloatRegisters /\ i.c \in FloatRegisters

LEMMA Sources ==
  ASSUME NEW s, IsState(s), NEW i, IsInsn(i)
  PROVE  /\ i.d \in FloatRegisters
         /\ IsValue(s.ps0[i.a]) /\ IsValue(s.ps0[i.b]) /\ IsValue(s.ps0[i.c])
         /\ IsValue(s.ps1[i.a]) /\ IsValue(s.ps1[i.b]) /\ IsValue(s.ps1[i.c])
BY LaneValue DEF IsInsn

\* Two engines that check alike, and whose results and exceptions have one form, agree.
LEMMA DoubleAgrees ==
  ASSUME NEW s, IsState(s), NEW d \in FloatRegisters, NEW sources, IsSources(sources),
         NEW invalid \in InvalidBits \cup {"none"}, NEW result, Sound(s, result),
         NEW rest, rest = InvalidOr("double", s, d, invalid, result)
  PROVE  /\ CheckedDouble(s, d, sources, invalid, result) = FreeDouble(s, d, sources, rest)
         /\ Sound(s, FreeDouble(s, d, sources, rest))
<1>1. CheckedDouble(s, d, sources, invalid, result) = FreeForm("double", s, d, sources, rest)
  BY SameChecks
<1>2. FreeDouble(s, d, sources, rest) = FreeForm("double", s, d, sources, rest)
  BY SameChecks
<1>3. Sound(s, FreeForm("double", s, d, sources, InvalidOr("double", s, d, invalid, result)))
  BY FreeSound
<1>. QED BY <1>1, <1>2, <1>3

LEMMA SingleAgrees ==
  ASSUME NEW s, IsState(s), NEW d \in FloatRegisters, NEW sources, IsSources(sources),
         NEW invalid \in InvalidBits \cup {"none"}, NEW result, Sound(s, result),
         NEW rest, rest = InvalidOr("single", s, d, invalid, result)
  PROVE  /\ CheckedSingle(s, d, sources, invalid, result) = FreeSingle(s, d, sources, rest)
         /\ Sound(s, FreeSingle(s, d, sources, rest))
<1>1. CheckedSingle(s, d, sources, invalid, result) = FreeForm("single", s, d, sources, rest)
  BY SameChecks
<1>2. FreeSingle(s, d, sources, rest) = FreeForm("single", s, d, sources, rest)
  BY SameChecks
<1>3. Sound(s, FreeForm("single", s, d, sources, InvalidOr("single", s, d, invalid, result)))
  BY FreeSound
<1>. QED BY <1>1, <1>2, <1>3

\* A double result, classified when neither operand is out of the normal range.
LEMMA SameDoubleResult ==
  ASSUME NEW s, IsState(s), NEW d \in FloatRegisters, NEW a, NEW b, NEW v, IsValue(v),
         NEW lost \in BOOLEAN, NEW r
  PROVE  /\ Classified(s, d, a, b, v, lost, r) = DoubleResult(s, d, a, b, v, lost, r.err)
         /\ Sound(s, DoubleResult(s, d, a, b, v, lost, r.err))
<1>. DEFINE err == r.err
            inexact == Inexact(err)
            up == err = "away"
<1>1. /\ CommitDouble(s, d, v, "exact") = DoubleForm(s, d, v, "exact")
      /\ CommitDouble(s, d, v, err) = DoubleForm(s, d, v, err)
      /\ CommitUnclassified(s, d, v) = UnclassifiedForm(s, d, v)
  BY InterpreterForms
<1>2. /\ CommitFpr(s, d, v, FALSE, FALSE) = DoubleForm(s, d, v, "exact")
      /\ CommitFprOnly(s, d, v) = UnclassifiedForm(s, d, v)
      /\ CommitFpr(s, d, v, inexact, up) = DoubleForm(s, d, v, err)
  <2>1. /\ CommitFpr(s, d, v, FALSE, FALSE) = DoubleForm(s, d, v, "exact")
        /\ CommitFprOnly(s, d, v) = UnclassifiedForm(s, d, v)
    BY NativeForms
  <2>2. inexact \in BOOLEAN /\ up \in BOOLEAN /\ (inexact <=> Inexact(err)) /\ (up <=> err = "away")
    BY Zenon DEF Inexact
  <2>. HIDE DEF inexact, up, err
  <2>3. CommitFpr(s, d, v, inexact, up) = DoubleForm(s, d, v, err)
    BY <2>2, NativeCommits
  <2>. QED BY <2>1, <2>3, Zenon
<1>3. /\ Sound(s, DoubleForm(s, d, v, "exact")) /\ Sound(s, DoubleForm(s, d, v, err))
      /\ Sound(s, UnclassifiedForm(s, d, v))
  <2>1. ResultForm("double", s, d, v, "exact") = DoubleForm(s, d, v, "exact") /\ ResultForm("double", s, d, v, err) = DoubleForm(s, d, v, err)
    BY DEF ResultForm
  <2>2. Sound(s, ResultForm("double", s, d, v, "exact")) /\ Sound(s, ResultForm("double", s, d, v, err))
        /\ Sound(s, UnclassifiedForm(s, d, v))
    BY ResultSound
  <2>. QED BY <2>1, <2>2, Zenon
<1>. DEFINE infinite == Infinite(a) \/ Infinite(b)
            ordinary == NormalOrZero(a) /\ NormalOrZero(b) /\ NormalOrZero(v) /\ ~lost
<1>4. DoubleResult(s, d, a, b, v, lost, err)
        = IF infinite THEN DoubleForm(s, d, v, "exact")
          ELSE IF ordinary THEN DoubleForm(s, d, v, err) ELSE UnclassifiedForm(s, d, v)
  BY <1>1, Zenon DEF DoubleResult
<1>5. Classified(s, d, a, b, v, lost, r)
        = IF infinite THEN DoubleForm(s, d, v, "exact")
          ELSE IF ordinary THEN DoubleForm(s, d, v, err) ELSE UnclassifiedForm(s, d, v)
  <2>. DEFINE extraordinary == ~NormalOrZero(a) \/ ~NormalOrZero(b) \/ ~NormalOrZero(v) \/ lost
  <2>1. Classified(s, d, a, b, v, lost, r)
          = IF infinite THEN CommitFpr(s, d, v, FALSE, FALSE)
            ELSE IF extraordinary THEN CommitFprOnly(s, d, v)
            ELSE CommitFpr(s, d, v, inexact, up)
    BY Zenon DEF Classified
  <2>2. extraordinary <=> ~ordinary
    BY Zenon
  <2>. HIDE DEF infinite, ordinary, extraordinary, inexact, up
  <2>3. Classified(s, d, a, b, v, lost, r)
          = IF infinite THEN DoubleForm(s, d, v, "exact")
            ELSE IF extraordinary THEN UnclassifiedForm(s, d, v) ELSE DoubleForm(s, d, v, err)
    BY <1>2, <2>1, Zenon
  <2>. QED BY <2>2, <2>3
<1>. HIDE DEF infinite, ordinary
<1>6. Classified(s, d, a, b, v, lost, r) = DoubleResult(s, d, a, b, v, lost, err)
  BY <1>4, <1>5
<1>7. Sound(s, DoubleResult(s, d, a, b, v, lost, err))
  BY <1>3, <1>4
<1>. QED BY <1>6, <1>7

LEMMA SameSingleResult ==
  ASSUME NEW s, IsState(s), NEW d \in FloatRegisters, NEW v, IsValue(v), NEW r
  PROVE  /\ RoundedSingle(s, d, v, r) = CommitSingle(s, d, v, r.err)
         /\ CommitSingleBits(s, d, v, FALSE, FALSE) = CommitSingle(s, d, v, "exact")
         /\ Sound(s, CommitSingle(s, d, v, r.err)) /\ Sound(s, CommitSingle(s, d, v, "exact"))
<1>. DEFINE err == r.err
            inexact == Inexact(err)
            up == err = "away"
<1>1. CommitSingle(s, d, v, "exact") = SingleForm(s, d, v, "exact") /\ CommitSingle(s, d, v, err) = SingleForm(s, d, v, err)
  BY InterpreterForms
<1>2. /\ CommitSingleBits(s, d, v, FALSE, FALSE) = SingleForm(s, d, v, "exact")
      /\ CommitSingleBits(s, d, v, inexact, up) = SingleForm(s, d, v, err)
  <2>1. CommitSingleBits(s, d, v, FALSE, FALSE) = SingleForm(s, d, v, "exact")
    BY NativeForms
  <2>2. inexact \in BOOLEAN /\ up \in BOOLEAN /\ (inexact <=> Inexact(err)) /\ (up <=> err = "away")
    BY Zenon DEF Inexact
  <2>. HIDE DEF inexact, up, err
  <2>3. CommitSingleBits(s, d, v, inexact, up) = SingleForm(s, d, v, err)
    BY <2>2, NativeCommits
  <2>. QED BY <2>1, <2>3, Zenon
<1>3. ResultForm("single", s, d, v, "exact") = SingleForm(s, d, v, "exact") /\ ResultForm("single", s, d, v, err) = SingleForm(s, d, v, err)
  BY DEF ResultForm
<1>4. Sound(s, ResultForm("single", s, d, v, "exact")) /\ Sound(s, ResultForm("single", s, d, v, err))
  BY ResultSound
<1>5. RoundedSingle(s, d, v, r) = CommitSingleBits(s, d, v, inexact, up)
  BY Zenon DEF RoundedSingle
<1>. HIDE DEF inexact, up
<1>. QED BY <1>1, <1>2, <1>3, <1>4, <1>5, Zenon

\* The kinds of an operand that is an infinity or a zero, and of its sign.
LEMMA Kinds ==
  ASSUME NEW v, IsValue(v)
  PROVE  /\ v.neg \in BOOLEAN /\ Flip(v).neg = ~v.neg /\ (Infinite(Flip(v)) <=> Infinite(v))
         /\ ~(Zero(v) /\ Infinite(v)) /\ (Nan(v) => ~Zero(v) /\ ~Infinite(v))
BY ValueChanged DEF IsValue, Infinite, Zero, Nan

----------------------------------------------------------------------------
(* Sums.                                                                    *)

LEMMA SumInvalidity ==
  ASSUME NEW a, NEW b, IsValue(a), IsValue(b)
  PROVE  /\ SumInvalid(a, b) \in InvalidBits \cup {"none"} /\ SumInvalid(a, Flip(b)) \in InvalidBits \cup {"none"}
         /\ Infinite(a) /\ Infinite(b) /\ a.neg # b.neg => SumInvalid(a, b) = "VXISI"
         /\ ~(Infinite(a) /\ Infinite(b) /\ a.neg # b.neg) => SumInvalid(a, b) = "none"
         /\ Infinite(a) /\ Infinite(b) /\ a.neg = b.neg => SumInvalid(a, Flip(b)) = "VXISI"
         /\ ~(Infinite(a) /\ Infinite(b) /\ a.neg = b.neg) => SumInvalid(a, Flip(b)) = "none"
<1>1. a.neg \in BOOLEAN /\ b.neg \in BOOLEAN /\ Flip(b).neg = ~b.neg /\ (Infinite(Flip(b)) <=> Infinite(b))
  BY Kinds
<1>2. "VXISI" \in InvalidBits
  BY DEF InvalidBits
<1>3. SumInvalid(a, b) = IF Infinite(a) /\ Infinite(b) /\ a.neg # b.neg THEN "VXISI" ELSE "none"
  BY Zenon DEF SumInvalid
<1>4. SumInvalid(a, Flip(b)) = IF Infinite(a) /\ Infinite(Flip(b)) /\ a.neg # Flip(b).neg THEN "VXISI" ELSE "none"
  BY Zenon DEF SumInvalid
<1>5. a.neg # Flip(b).neg <=> a.neg = b.neg
  BY <1>1
<1>. QED BY <1>1, <1>2, <1>3, <1>4, <1>5

LEMMA AddsAgree ==
  ASSUME NEW s, IsState(s), NEW i, IsInsn(i), NEW r, IsOutcome(r)
  PROVE  floating_add_double(s, i, r) = native_fadd(s, i, r) /\ Sound(s, native_fadd(s, i, r))
<1>. DEFINE d == i.d
            a == s.ps0[i.a]
            b == s.ps0[i.b]
            v == Computed("a+b", <<a, b>>, r)
            invalid == SumInvalid(a, b)
            result == DoubleResult(s, d, a, b, v, FALSE, r.err)
            rest == IF Infinite(a) /\ Infinite(b) /\ a.neg # b.neg
                    THEN NativeInvalidDouble(s, d, "VXISI", NoNan)
                    ELSE Classified(s, d, a, b, v, FALSE, r)
<1>1. d \in FloatRegisters /\ IsValue(a) /\ IsValue(b) /\ IsSources(<<a, b>>)
  BY Sources, TupleSources
<1>2. IsValue(v)
  BY ComputedValue
<1>3. floating_add_double(s, i, r) = CheckedDouble(s, d, <<a, b>>, invalid, result)
  BY Zenon DEF floating_add_double, CheckedDouble, Checked, SignalInvalid
<1>4. native_fadd(s, i, r) = FreeDouble(s, d, <<a, b>>, rest)
  BY Zenon DEF native_fadd, FreeDouble, NanFree, native_invalid, NativeInvalidDouble
<1>. HIDE DEF d, a, b, v
<1>5. Classified(s, d, a, b, v, FALSE, r) = result /\ Sound(s, result)
  BY <1>1, <1>2, SameDoubleResult
<1>6. NativeInvalidDouble(s, d, "VXISI", NoNan) = InvalidForm("double", s, d, "VXISI", NoNan)
  BY Constants, SameInvalid DEF InvalidBits
<1>. HIDE DEF result
<1>7. rest = InvalidOr("double", s, d, invalid, result) /\ invalid \in InvalidBits \cup {"none"}
  BY <1>1, <1>5, <1>6, SumInvalidity DEF InvalidOr
<1>. HIDE DEF rest, invalid
<1>. QED BY <1>1, <1>3, <1>4, <1>5, <1>7, DoubleAgrees

LEMMA SubtractsAgree ==
  ASSUME NEW s, IsState(s), NEW i, IsInsn(i), NEW r, IsOutcome(r)
  PROVE  floating_subtract_double(s, i, r) = native_fsub(s, i, r) /\ Sound(s, native_fsub(s, i, r))
<1>. DEFINE d == i.d
            a == s.ps0[i.a]
            b == s.ps0[i.b]
            v == Computed("a-b", <<a, b>>, r)
            invalid == SumInvalid(a, Flip(b))
            result == DoubleResult(s, d, a, b, v, FALSE, r.err)
            rest == IF Infinite(a) /\ Infinite(b) /\ a.neg = b.neg
                    THEN NativeInvalidDouble(s, d, "VXISI", NoNan)
                    ELSE Classified(s, d, a, b, v, FALSE, r)
<1>1. d \in FloatRegisters /\ IsValue(a) /\ IsValue(b) /\ IsSources(<<a, b>>)
  BY Sources, TupleSources
<1>2. IsValue(v)
  BY ComputedValue
<1>3. floating_subtract_double(s, i, r) = CheckedDouble(s, d, <<a, b>>, invalid, result)
  BY Zenon DEF floating_subtract_double, CheckedDouble, Checked, SignalInvalid
<1>4. native_fsub(s, i, r) = FreeDouble(s, d, <<a, b>>, rest)
  BY Zenon DEF native_fsub, FreeDouble, NanFree, native_invalid, NativeInvalidDouble
<1>. HIDE DEF d, a, b, v
<1>5. Classified(s, d, a, b, v, FALSE, r) = result /\ Sound(s, result)
  BY <1>1, <1>2, SameDoubleResult
<1>6. NativeInvalidDouble(s, d, "VXISI", NoNan) = InvalidForm("double", s, d, "VXISI", NoNan)
  BY Constants, SameInvalid DEF InvalidBits
<1>. HIDE DEF result
<1>7. rest = InvalidOr("double", s, d, invalid, result) /\ invalid \in InvalidBits \cup {"none"}
  BY <1>1, <1>5, <1>6, SumInvalidity DEF InvalidOr
<1>. HIDE DEF rest, invalid
<1>. QED BY <1>1, <1>3, <1>4, <1>5, <1>7, DoubleAgrees

LEMMA SingleAddsAgree ==
  ASSUME NEW s, IsState(s), NEW i, IsInsn(i), NEW r, IsOutcome(r)
  PROVE  floating_add_single(s, i, r) = native_fadds(s, i, r) /\ Sound(s, native_fadds(s, i, r))
<1>. DEFINE d == i.d
            a == s.ps0[i.a]
            b == s.ps0[i.b]
            v == Computed("single a+b", <<a, b>>, r)
            invalid == SumInvalid(a, b)
            result == CommitSingle(s, d, v, r.err)
            rest == IF Infinite(a) /\ Infinite(b) /\ a.neg # b.neg
                    THEN NativeInvalidSingle(s, d, "VXISI", NoNan)
                    ELSE RoundedSingle(s, d, v, r)
<1>1. d \in FloatRegisters /\ IsValue(a) /\ IsValue(b) /\ IsSources(<<a, b>>)
  BY Sources, TupleSources
<1>2. IsValue(v)
  BY ComputedValue
<1>3. floating_add_single(s, i, r) = CheckedSingle(s, d, <<a, b>>, invalid, result)
  BY Zenon DEF floating_add_single, CheckedSingle, Checked, SignalInvalid
<1>4. native_fadds(s, i, r) = FreeSingle(s, d, <<a, b>>, rest)
  BY Zenon DEF native_fadds, FreeSingle, NanFree, native_invalid, NativeInvalidSingle
<1>. HIDE DEF d, a, b, v
<1>5. RoundedSingle(s, d, v, r) = result /\ Sound(s, result)
  BY <1>1, <1>2, SameSingleResult
<1>6. NativeInvalidSingle(s, d, "VXISI", NoNan) = InvalidForm("single", s, d, "VXISI", NoNan)
  BY Constants, SameInvalid DEF InvalidBits
<1>. HIDE DEF result
<1>7. rest = InvalidOr("single", s, d, invalid, result) /\ invalid \in InvalidBits \cup {"none"}
  BY <1>1, <1>5, <1>6, SumInvalidity DEF InvalidOr
<1>. HIDE DEF rest, invalid
<1>. QED BY <1>1, <1>3, <1>4, <1>5, <1>7, SingleAgrees

LEMMA SingleSubtractsAgree ==
  ASSUME NEW s, IsState(s), NEW i, IsInsn(i), NEW r, IsOutcome(r)
  PROVE  floating_subtract_single(s, i, r) = native_fsubs(s, i, r) /\ Sound(s, native_fsubs(s, i, r))
<1>. DEFINE d == i.d
            a == s.ps0[i.a]
            b == s.ps0[i.b]
            v == Computed("single a-b", <<a, b>>, r)
            invalid == SumInvalid(a, Flip(b))
            result == CommitSingle(s, d, v, r.err)
            rest == IF Infinite(a) /\ Infinite(b) /\ a.neg = b.neg
                    THEN NativeInvalidSingle(s, d, "VXISI", NoNan)
                    ELSE RoundedSingle(s, d, v, r)
<1>1. d \in FloatRegisters /\ IsValue(a) /\ IsValue(b) /\ IsSources(<<a, b>>)
  BY Sources, TupleSources
<1>2. IsValue(v)
  BY ComputedValue
<1>3. floating_subtract_single(s, i, r) = CheckedSingle(s, d, <<a, b>>, invalid, result)
  BY Zenon DEF floating_subtract_single, CheckedSingle, Checked, SignalInvalid
<1>4. native_fsubs(s, i, r) = FreeSingle(s, d, <<a, b>>, rest)
  BY Zenon DEF native_fsubs, FreeSingle, NanFree, native_invalid, NativeInvalidSingle
<1>. HIDE DEF d, a, b, v
<1>5. RoundedSingle(s, d, v, r) = result /\ Sound(s, result)
  BY <1>1, <1>2, SameSingleResult
<1>6. NativeInvalidSingle(s, d, "VXISI", NoNan) = InvalidForm("single", s, d, "VXISI", NoNan)
  BY Constants, SameInvalid DEF InvalidBits
<1>. HIDE DEF result
<1>7. rest = InvalidOr("single", s, d, invalid, result) /\ invalid \in InvalidBits \cup {"none"}
  BY <1>1, <1>5, <1>6, SumInvalidity DEF InvalidOr
<1>. HIDE DEF rest, invalid
<1>. QED BY <1>1, <1>3, <1>4, <1>5, <1>7, SingleAgrees

----------------------------------------------------------------------------
(* Products.                                                                *)

LEMMA ProductInvalidity ==
  ASSUME NEW a, NEW c
  PROVE  /\ ProductInvalid(a, c) \in InvalidBits \cup {"none"}
         /\ InfinityTimesZero(a, c) => ProductInvalid(a, c) = "VXIMZ"
         /\ ~InfinityTimesZero(a, c) => ProductInvalid(a, c) = "none"
<1>1. "VXIMZ" \in InvalidBits
  BY DEF InvalidBits
<1>2. ProductInvalid(a, c) = IF InfinityTimesZero(a, c) THEN "VXIMZ" ELSE "none"
  BY Zenon DEF ProductInvalid, InfinityTimesZero
<1>. QED BY <1>1, <1>2

LEMMA MultipliesAgree ==
  ASSUME NEW s, IsState(s), NEW i, IsInsn(i), NEW r, IsOutcome(r)
  PROVE  floating_multiply_double(s, i, r) = native_fmul(s, i, r) /\ Sound(s, native_fmul(s, i, r))
<1>. DEFINE d == i.d
            a == s.ps0[i.a]
            c == s.ps0[i.c]
            v == Computed("a*c", <<a, c>>, r)
            invalid == ProductInvalid(a, c)
            lost == Zero(v) /\ ~Zero(a) /\ ~Zero(c)
            result == DoubleResult(s, d, a, c, v, lost, r.err)
            rest == IF InfinityTimesZero(a, c)
                    THEN NativeInvalidDouble(s, d, "VXIMZ", NoNan)
                    ELSE Classified(s, d, a, c, v, lost, r)
<1>1. d \in FloatRegisters /\ IsValue(a) /\ IsValue(c) /\ IsSources(<<a, c>>)
  BY Sources, TupleSources
<1>2. IsValue(v)
  BY ComputedValue
<1>3. floating_multiply_double(s, i, r) = CheckedDouble(s, d, <<a, c>>, invalid, result)
  BY Zenon DEF floating_multiply_double, CheckedDouble, Checked, SignalInvalid
<1>4. native_fmul(s, i, r) = FreeDouble(s, d, <<a, c>>, rest)
  BY Zenon DEF native_fmul, FreeDouble, NanFree, native_invalid, NativeInvalidDouble
<1>. HIDE DEF d, a, c, v
<1>8. lost \in BOOLEAN
  BY Zenon DEF Zero
<1>. HIDE DEF lost
<1>5. Classified(s, d, a, c, v, lost, r) = result /\ Sound(s, result)
  BY <1>1, <1>2, <1>8, SameDoubleResult
<1>6. NativeInvalidDouble(s, d, "VXIMZ", NoNan) = InvalidForm("double", s, d, "VXIMZ", NoNan)
  BY Constants, SameInvalid DEF InvalidBits
<1>. HIDE DEF result
<1>7. rest = InvalidOr("double", s, d, invalid, result) /\ invalid \in InvalidBits \cup {"none"}
  BY <1>1, <1>5, <1>6, ProductInvalidity DEF InvalidOr
<1>. HIDE DEF rest, invalid
<1>. QED BY <1>1, <1>3, <1>4, <1>5, <1>7, DoubleAgrees

LEMMA SingleMultipliesAgree ==
  ASSUME NEW s, IsState(s), NEW i, IsInsn(i), NEW r, IsOutcome(r)
  PROVE  floating_multiply_single(s, i, r) = native_fmuls(s, i, r) /\ Sound(s, native_fmuls(s, i, r))
<1>. DEFINE d == i.d
            a == s.ps0[i.a]
            c == s.ps0[i.c]
            v == Computed("single a*c", <<a, round_multiply_operand_25bit(c)>>, r)
            invalid == ProductInvalid(a, c)
            result == CommitSingle(s, d, v, r.err)
            rest == IF InfinityTimesZero(a, c)
                    THEN NativeInvalidSingle(s, d, "VXIMZ", NoNan)
                    ELSE RoundedSingle(s, d, v, r)
<1>1. d \in FloatRegisters /\ IsValue(a) /\ IsValue(c) /\ IsSources(<<a, c>>)
  BY Sources, TupleSources
<1>2. IsValue(v)
  BY ComputedValue
<1>3. floating_multiply_single(s, i, r) = CheckedSingle(s, d, <<a, c>>, invalid, result)
  BY Zenon DEF floating_multiply_single, CheckedSingle, Checked, SignalInvalid, round_multiply_operand_25bit, Rounded25
<1>4. native_fmuls(s, i, r) = FreeSingle(s, d, <<a, c>>, rest)
  BY Zenon DEF native_fmuls, FreeSingle, NanFree, native_invalid, NativeInvalidSingle, round_multiply_operand_25bit, Rounded25
<1>. HIDE DEF d, a, c, v
<1>5. RoundedSingle(s, d, v, r) = result /\ Sound(s, result)
  BY <1>1, <1>2, SameSingleResult
<1>6. NativeInvalidSingle(s, d, "VXIMZ", NoNan) = InvalidForm("single", s, d, "VXIMZ", NoNan)
  BY Constants, SameInvalid DEF InvalidBits
<1>. HIDE DEF result
<1>7. rest = InvalidOr("single", s, d, invalid, result) /\ invalid \in InvalidBits \cup {"none"}
  BY <1>1, <1>5, <1>6, ProductInvalidity DEF InvalidOr
<1>. HIDE DEF rest, invalid
<1>. QED BY <1>1, <1>3, <1>4, <1>5, <1>7, SingleAgrees

----------------------------------------------------------------------------
(* Quotients and reciprocals.                                               *)

LEMMA ZeroDivides ==
  ASSUME NEW s, IsState(s), NEW d \in FloatRegisters, NEW v, IsValue(v)
  PROVE  /\ NativeZeroDouble(s, d, v) = ZeroDouble(s, d, v) /\ Sound(s, ZeroDouble(s, d, v))
         /\ NativeZeroSingle(s, d, v) = ZeroSingle(s, d, v) /\ Sound(s, ZeroSingle(s, d, v))
<1>1. "VXSNAN" \in InvalidBits
  BY DEF InvalidBits
<1>2. Sound(s, ZeroForm("double", s, d, v)) /\ Sound(s, ZeroForm("single", s, d, v))
  BY <1>1, ExceptionSound
<1>. QED BY <1>2, SameZeroDivide

LEMMA QuotientInvalidity ==
  ASSUME NEW a, NEW b
  PROVE  /\ DivideInvalid(a, b) \in InvalidBits \cup {"none"}
         /\ Zero(a) /\ Zero(b) => DivideInvalid(a, b) = "VXZDZ"
         /\ ~(Zero(a) /\ Zero(b)) /\ Infinite(a) /\ Infinite(b) => DivideInvalid(a, b) = "VXIDI"
         /\ ~(Zero(a) /\ Zero(b)) /\ ~(Infinite(a) /\ Infinite(b)) => DivideInvalid(a, b) = "none"
BY DEF DivideInvalid, InvalidBits

LEMMA DividesAgree ==
  ASSUME NEW s, IsState(s), NEW i, IsInsn(i), NEW r, IsOutcome(r)
  PROVE  floating_divide_double(s, i, r) = native_fdiv(s, i, r) /\ Sound(s, native_fdiv(s, i, r))
<1>. DEFINE d == i.d
            a == s.ps0[i.a]
            b == s.ps0[i.b]
            v == Computed("a/b", <<a, b>>, r)
            infinity == Infinity(a.neg # b.neg)
            invalid == DivideInvalid(a, b)
            lost == Zero(v) /\ ~Zero(a)
            zero == ZeroDouble(s, d, infinity)
            quotient == DoubleResult(s, d, a, b, v, lost, r.err)
            result == IF Zero(b) THEN zero ELSE quotient
            rest == CASE Zero(a) /\ Zero(b) -> NativeInvalidDouble(s, d, "VXZDZ", NoNan)
                      [] Infinite(a) /\ Infinite(b) -> NativeInvalidDouble(s, d, "VXIDI", NoNan)
                      [] Zero(b) /\ ~Zero(a) -> NativeZeroDouble(s, d, infinity)
                      [] OTHER -> Classified(s, d, a, b, v, lost, r)
<1>1. d \in FloatRegisters /\ IsValue(a) /\ IsValue(b) /\ IsSources(<<a, b>>)
  BY Sources, TupleSources
<1>2. IsValue(v)
  BY ComputedValue
<1>3. IsValue(infinity)
  <2>. DEFINE neg == a.neg # b.neg
  <2>1. neg \in BOOLEAN
    BY Zenon
  <2>. HIDE DEF neg
  <2>2. IsValue(Infinity(neg))
    BY <2>1, Constants
  <2>. QED BY <2>2, Zenon DEF neg
<1>4. floating_divide_double(s, i, r) = CheckedDouble(s, d, <<a, b>>, invalid, result)
  BY Zenon DEF floating_divide_double, CheckedDouble, Checked, SignalInvalid, ZeroDouble, DivideByZero
<1>5. native_fdiv(s, i, r) = FreeDouble(s, d, <<a, b>>, rest)
  BY Zenon DEF native_fdiv, FreeDouble, NanFree, native_invalid, NativeInvalidDouble,
               native_zero_divide, NativeZeroDouble
<1>. HIDE DEF d, a, b, v, infinity
<1>6. lost \in BOOLEAN
  BY Zenon DEF Zero
<1>. HIDE DEF lost
<1>7. Classified(s, d, a, b, v, lost, r) = quotient /\ Sound(s, quotient)
  BY <1>1, <1>2, <1>6, SameDoubleResult
<1>8. NativeZeroDouble(s, d, infinity) = zero /\ Sound(s, zero)
  BY <1>1, <1>3, ZeroDivides
<1>9. /\ NativeInvalidDouble(s, d, "VXZDZ", NoNan) = InvalidForm("double", s, d, "VXZDZ", NoNan)
      /\ NativeInvalidDouble(s, d, "VXIDI", NoNan) = InvalidForm("double", s, d, "VXIDI", NoNan)
  BY Constants, SameInvalid DEF InvalidBits
<1>. HIDE DEF quotient, zero
<1>10. invalid \in InvalidBits \cup {"none"} /\ Sound(s, result)
  BY <1>7, <1>8, QuotientInvalidity
<1>11. rest = InvalidOr("double", s, d, invalid, result)
  <2>1. ~(Zero(a) /\ Infinite(a)) /\ ~(Zero(b) /\ Infinite(b))
    BY <1>1, Kinds
  <2>2. CASE Zero(a) /\ Zero(b)
    <3>1. rest = NativeInvalidDouble(s, d, "VXZDZ", NoNan)
      BY <2>1, <2>2
    <3>2. invalid = "VXZDZ"
      BY <2>2, QuotientInvalidity
    <3>. QED BY <1>9, <3>1, <3>2 DEF InvalidOr
  <2>3. CASE Infinite(a) /\ Infinite(b)
    <3>1. rest = NativeInvalidDouble(s, d, "VXIDI", NoNan)
      BY <2>1, <2>3
    <3>2. invalid = "VXIDI"
      BY <2>1, <2>3, QuotientInvalidity
    <3>. QED BY <1>9, <3>1, <3>2 DEF InvalidOr
  <2>4. CASE Zero(b) /\ ~Zero(a)
    <3>1. rest = zero
      BY <1>8, <2>1, <2>4
    <3>2. invalid = "none" /\ result = zero
      BY <2>1, <2>4, QuotientInvalidity
    <3>. QED BY <3>1, <3>2 DEF InvalidOr
  <2>5. CASE ~Zero(b) /\ ~(Infinite(a) /\ Infinite(b))
    <3>1. rest = quotient
      BY <1>7, <2>5
    <3>2. invalid = "none" /\ result = quotient
      BY <2>5, QuotientInvalidity
    <3>. QED BY <3>1, <3>2 DEF InvalidOr
  <2>. QED BY <2>2, <2>3, <2>4, <2>5
<1>. HIDE DEF rest, result, invalid
<1>. QED BY <1>1, <1>4, <1>5, <1>10, <1>11, DoubleAgrees

LEMMA SingleDividesAgree ==
  ASSUME NEW s, IsState(s), NEW i, IsInsn(i), NEW r, IsOutcome(r)
  PROVE  floating_divide_single(s, i, r) = native_fdivs(s, i, r) /\ Sound(s, native_fdivs(s, i, r))
<1>. DEFINE d == i.d
            a == s.ps0[i.a]
            b == s.ps0[i.b]
            v == Computed("single a/b", <<a, b>>, r)
            infinity == Infinity(a.neg # b.neg)
            invalid == DivideInvalid(a, b)
            zero == ZeroSingle(s, d, infinity)
            infinite == CommitSingle(s, d, infinity, "exact")
            quotient == CommitSingle(s, d, v, r.err)
            result == IF Zero(b) /\ Infinite(a) THEN infinite ELSE IF Zero(b) THEN zero ELSE quotient
            rest == CASE Zero(a) /\ Zero(b) -> NativeInvalidSingle(s, d, "VXZDZ", NoNan)
                      [] Infinite(a) /\ Infinite(b) -> NativeInvalidSingle(s, d, "VXIDI", NoNan)
                      [] Zero(b) /\ ~Zero(a) /\ ~Infinite(a) -> NativeZeroSingle(s, d, infinity)
                      [] Zero(b) /\ Infinite(a) -> CommitSingleBits(s, d, infinity, FALSE, FALSE)
                      [] OTHER -> RoundedSingle(s, d, v, r)
<1>1. d \in FloatRegisters /\ IsValue(a) /\ IsValue(b) /\ IsSources(<<a, b>>)
  BY Sources, TupleSources
<1>2. IsValue(v)
  BY ComputedValue
<1>3. IsValue(infinity)
  <2>. DEFINE neg == a.neg # b.neg
  <2>1. neg \in BOOLEAN
    BY Zenon
  <2>. HIDE DEF neg
  <2>2. IsValue(Infinity(neg))
    BY <2>1, Constants
  <2>. QED BY <2>2, Zenon DEF neg
<1>4. floating_divide_single(s, i, r) = CheckedSingle(s, d, <<a, b>>, invalid, result)
  BY Zenon DEF floating_divide_single, CheckedSingle, Checked, SignalInvalid, ZeroSingle, DivideByZero
<1>5. native_fdivs(s, i, r) = FreeSingle(s, d, <<a, b>>, rest)
  BY Zenon DEF native_fdivs, FreeSingle, NanFree, native_invalid, NativeInvalidSingle,
               native_zero_divide, NativeZeroSingle
<1>. HIDE DEF d, a, b, v, infinity
<1>6. CommitSingleBits(s, d, infinity, FALSE, FALSE) = infinite /\ Sound(s, infinite)
  BY <1>1, <1>3, SameSingleResult
<1>7. RoundedSingle(s, d, v, r) = quotient /\ Sound(s, quotient)
  BY <1>1, <1>2, SameSingleResult
<1>8. NativeZeroSingle(s, d, infinity) = zero /\ Sound(s, zero)
  BY <1>1, <1>3, ZeroDivides
<1>9. /\ NativeInvalidSingle(s, d, "VXZDZ", NoNan) = InvalidForm("single", s, d, "VXZDZ", NoNan)
      /\ NativeInvalidSingle(s, d, "VXIDI", NoNan) = InvalidForm("single", s, d, "VXIDI", NoNan)
  BY Constants, SameInvalid DEF InvalidBits
<1>. DEFINE bits == CommitSingleBits(s, d, infinity, FALSE, FALSE)
<1>. HIDE DEF quotient, zero, infinite, bits
<1>10. invalid \in InvalidBits \cup {"none"} /\ Sound(s, result)
  BY <1>6, <1>7, <1>8, QuotientInvalidity
<1>11. rest = InvalidOr("single", s, d, invalid, result)
  <2>1. ~(Zero(a) /\ Infinite(a)) /\ ~(Zero(b) /\ Infinite(b))
    BY <1>1, Kinds
  <2>2. CASE Zero(a) /\ Zero(b)
    <3>1. rest = NativeInvalidSingle(s, d, "VXZDZ", NoNan)
      BY <2>1, <2>2
    <3>2. invalid = "VXZDZ"
      BY <2>2, QuotientInvalidity
    <3>. QED BY <1>9, <3>1, <3>2 DEF InvalidOr
  <2>3. CASE Infinite(a) /\ Infinite(b)
    <3>1. rest = NativeInvalidSingle(s, d, "VXIDI", NoNan)
      BY <2>1, <2>3
    <3>2. invalid = "VXIDI"
      BY <2>1, <2>3, QuotientInvalidity
    <3>. QED BY <1>9, <3>1, <3>2 DEF InvalidOr
  <2>4. CASE Zero(b) /\ ~Zero(a) /\ ~Infinite(a)
    <3>1. rest = zero
      BY <1>8, <2>1, <2>4
    <3>2. invalid = "none" /\ result = zero
      BY <2>1, <2>4, QuotientInvalidity
    <3>. QED BY <3>1, <3>2 DEF InvalidOr
  <2>5. CASE Zero(b) /\ Infinite(a)
    <3>1. rest = infinite
      BY <1>6, <2>1, <2>5
    <3>2. invalid = "none" /\ result = infinite
      BY <2>1, <2>5, QuotientInvalidity
    <3>3. InvalidOr("single", s, d, "none", result) = result
      BY DEF InvalidOr
    <3>. HIDE DEF rest, result, invalid
    <3>. QED BY <3>1, <3>2, <3>3
  <2>6. CASE ~Zero(b) /\ ~(Infinite(a) /\ Infinite(b))
    <3>1. rest = quotient
      BY <1>7, <2>6
    <3>2. invalid = "none" /\ result = quotient
      BY <2>6, QuotientInvalidity
    <3>. QED BY <3>1, <3>2 DEF InvalidOr
  <2>. QED BY <2>2, <2>3, <2>4, <2>5, <2>6
<1>. HIDE DEF rest, result, invalid
<1>. QED BY <1>1, <1>4, <1>5, <1>10, <1>11, SingleAgrees

LEMMA RoundsAgree ==
  ASSUME NEW s, IsState(s), NEW i, IsInsn(i), NEW r, IsOutcome(r)
  PROVE  floating_round_to_single(s, i, r) = native_frsp(s, i, r) /\ Sound(s, native_frsp(s, i, r))
<1>. DEFINE d == i.d
            a == s.ps0[i.a]
            v == Computed("single a", <<a>>, r)
            result == CommitSingle(s, d, v, r.err)
            rest == RoundedSingle(s, d, v, r)
<1>1. d \in FloatRegisters /\ IsValue(a) /\ IsSources(<<a>>)
  BY Sources, TupleSources
<1>2. IsValue(v)
  BY ComputedValue
<1>3. floating_round_to_single(s, i, r) = CheckedSingle(s, d, <<a>>, "none", result)
  BY Zenon DEF floating_round_to_single, CheckedSingle, Checked, SignalInvalid
<1>4. native_frsp(s, i, r) = FreeSingle(s, d, <<a>>, rest)
  BY Zenon DEF native_frsp, FreeSingle, NanFree, native_invalid
<1>. HIDE DEF d, a, v
<1>5. rest = result /\ Sound(s, result)
  BY <1>1, <1>2, SameSingleResult
<1>. HIDE DEF result, rest
<1>6. rest = InvalidOr("single", s, d, "none", result)
  BY <1>5 DEF InvalidOr
<1>. QED BY <1>1, <1>3, <1>4, <1>5, <1>6, SingleAgrees

LEMMA ReciprocalsAgree ==
  ASSUME NEW s, IsState(s), NEW i, IsInsn(i), NEW r, IsOutcome(r)
  PROVE  floating_reciprocal_estimate_single(s, i, r) = native_fres(s, i, r) /\ Sound(s, native_fres(s, i, r))
<1>. DEFINE d == i.d
            b == s.ps0[i.b]
            v == Computed("single 1/b", <<b>>, r)
            infinity == Infinity(b.neg)
            nothing == Value("zero", b.neg, <<"zero">>)
            zero == ZeroSingle(s, d, infinity)
            vanished == CommitSingle(s, d, nothing, "exact")
            estimate == CommitSingle(s, d, v, r.err)
            result == IF Zero(b) THEN zero ELSE IF Infinite(b) THEN vanished ELSE estimate
            rest == CASE Zero(b) -> NativeZeroSingle(s, d, infinity)
                      [] Infinite(b) -> CommitSingleBits(s, d, nothing, FALSE, FALSE)
                      [] OTHER -> RoundedSingle(s, d, v, r)
<1>1. d \in FloatRegisters /\ IsValue(b) /\ IsSources(<<b>>)
  BY Sources, TupleSources
<1>2. IsValue(v)
  BY ComputedValue
<1>3. IsValue(infinity) /\ IsValue(nothing)
  BY <1>1, Constants DEF IsValue
<1>4. floating_reciprocal_estimate_single(s, i, r) = CheckedSingle(s, d, <<b>>, "none", result)
  BY Zenon DEF floating_reciprocal_estimate_single, CheckedSingle, Checked, SignalInvalid, ZeroSingle, DivideByZero
<1>5. native_fres(s, i, r) = FreeSingle(s, d, <<b>>, rest)
  BY Zenon DEF native_fres, FreeSingle, NanFree, native_invalid, native_zero_divide, NativeZeroSingle
<1>. HIDE DEF d, b, v, infinity, nothing
<1>6. CommitSingleBits(s, d, nothing, FALSE, FALSE) = vanished /\ Sound(s, vanished)
  BY <1>1, <1>3, SameSingleResult
<1>7. RoundedSingle(s, d, v, r) = estimate /\ Sound(s, estimate)
  BY <1>1, <1>2, SameSingleResult
<1>8. NativeZeroSingle(s, d, infinity) = zero /\ Sound(s, zero)
  BY <1>1, <1>3, ZeroDivides
<1>. HIDE DEF zero, vanished, estimate
<1>9. ~(Zero(b) /\ Infinite(b))
  BY <1>1, Kinds
<1>10. rest = result /\ Sound(s, result)
  BY <1>6, <1>7, <1>8, <1>9
<1>. HIDE DEF rest, result
<1>11. rest = InvalidOr("single", s, d, "none", result)
  BY <1>10 DEF InvalidOr
<1>. QED BY <1>1, <1>4, <1>5, <1>10, <1>11, SingleAgrees

----------------------------------------------------------------------------
(* Fused multiply and add.                                                  *)

Addend(subtract, b) == IF subtract THEN Flip(b) ELSE b
FusedFreeDouble(s, i, subtract, rest) == FusedFree(s, i, subtract, CommitNan, rest)
FusedFreeSingle(s, i, subtract, rest) == FusedFree(s, i, subtract, CommitNanSingle, rest)
FusedWhole(s, i, subtract, r)   == Fused(s, i, subtract, Whole, r)
FusedRounded(s, i, subtract, r) == Fused(s, i, subtract, Rounded25, r)

LEMMA FusedValues ==
  ASSUME NEW s, NEW i, NEW r, IsOutcome(r)
  PROVE  /\ FusedWhole(s, i, FALSE, r) = FusedDoubleOf(s, i, "a*c+b", r)
         /\ FusedWhole(s, i, TRUE, r) = FusedDoubleOf(s, i, "a*c-b", r)
         /\ FusedRounded(s, i, FALSE, r) = FusedSingleOf(s, i, "a*c+b", r)
         /\ FusedRounded(s, i, TRUE, r) = FusedSingleOf(s, i, "a*c-b", r)
         /\ \A formula : /\ IsValue(FusedDoubleOf(s, i, formula, r)) /\ IsValue(Negated(FusedDoubleOf(s, i, formula, r)))
                         /\ IsValue(FusedSingleOf(s, i, formula, r)) /\ IsValue(Negated(FusedSingleOf(s, i, formula, r)))
         /\ \A v : NegatedNumber(v) = Negated(v)
<1>1. FusedWhole(s, i, FALSE, r) = FusedDoubleOf(s, i, "a*c+b", r)
  BY Zenon DEF FusedWhole, Fused, Whole, FusedDoubleOf
<1>2. FusedWhole(s, i, TRUE, r) = FusedDoubleOf(s, i, "a*c-b", r)
  BY Zenon DEF FusedWhole, Fused, Whole, FusedDoubleOf
<1>3. FusedRounded(s, i, FALSE, r) = FusedSingleOf(s, i, "a*c+b", r)
  BY Zenon DEF FusedRounded, Fused, Rounded25, round_multiply_operand_25bit, FusedSingleOf
<1>4. FusedRounded(s, i, TRUE, r) = FusedSingleOf(s, i, "a*c-b", r)
  BY Zenon DEF FusedRounded, Fused, Rounded25, round_multiply_operand_25bit, FusedSingleOf
<1>5. ASSUME NEW v, IsValue(v) PROVE IsValue(Negated(v))
  BY <1>5, ValueChanged DEF Negated
<1>6. ASSUME NEW formula
      PROVE  /\ IsValue(FusedDoubleOf(s, i, formula, r)) /\ IsValue(Negated(FusedDoubleOf(s, i, formula, r)))
             /\ IsValue(FusedSingleOf(s, i, formula, r)) /\ IsValue(Negated(FusedSingleOf(s, i, formula, r)))
  <2>1. IsValue(FusedDoubleOf(s, i, formula, r)) /\ IsValue(FusedSingleOf(s, i, formula, r))
    BY ComputedValue DEF FusedDoubleOf, FusedSingleOf
  <2>. QED BY <1>5, <2>1
<1>7. \A v : NegatedNumber(v) = Negated(v)
  BY Zenon DEF NegatedNumber, Negated
<1>. QED BY <1>1, <1>2, <1>3, <1>4, <1>6, <1>7, Zenon

\* Infinity times zero, and infinities of unlike sign once the addend's sign is taken into account.
LEMMA FusedInvalidity ==
  ASSUME NEW a, NEW c, NEW b, IsValue(a), IsValue(b), IsValue(c), NEW subtract \in BOOLEAN
  PROVE  LET unlike == (Infinite(a) \/ Infinite(c)) /\ Infinite(b)
                       /\ (IF subtract THEN (a.neg # c.neg) = b.neg ELSE (a.neg # c.neg) # b.neg)
             invalid == FusedInvalid(a, c, Addend(subtract, b)) IN
         /\ invalid \in InvalidBits \cup {"none"}
         /\ InfinityTimesZero(a, c) => invalid = "VXIMZ"
         /\ ~InfinityTimesZero(a, c) /\ unlike => invalid = "VXISI"
         /\ ~InfinityTimesZero(a, c) /\ ~unlike => invalid = "none"
<1>. DEFINE x == Addend(subtract, b)
            unlike == (Infinite(a) \/ Infinite(c)) /\ Infinite(b)
                      /\ (IF subtract THEN (a.neg # c.neg) = b.neg ELSE (a.neg # c.neg) # b.neg)
            met == (Infinite(a) \/ Infinite(c)) /\ Infinite(x) /\ (a.neg # c.neg) # x.neg
            invalid == FusedInvalid(a, c, x)
<1>1. a.neg \in BOOLEAN /\ c.neg \in BOOLEAN /\ b.neg \in BOOLEAN /\ Flip(b).neg = ~b.neg
      /\ (Infinite(Flip(b)) <=> Infinite(b))
  BY Kinds
<1>2. unlike <=> met
  <2>1. CASE subtract = TRUE
    <3>1. x = Flip(b)
      BY <2>1 DEF Addend
    <3>2. (a.neg # c.neg) = b.neg <=> (a.neg # c.neg) # (~b.neg)
      BY <1>1
    <3>. QED BY <1>1, <2>1, <3>1, <3>2
  <2>2. CASE subtract = FALSE
    <3>1. x = b
      BY <2>2 DEF Addend
    <3>. QED BY <2>2, <3>1
  <2>. QED BY <2>1, <2>2
<1>3. invalid = IF ProductInvalid(a, c) # "none" THEN "VXIMZ" ELSE IF met THEN "VXISI" ELSE "none"
  BY Zenon DEF FusedInvalid
<1>4. InfinityTimesZero(a, c) <=> ProductInvalid(a, c) # "none"
  BY ProductInvalidity
<1>5. "VXIMZ" \in InvalidBits /\ "VXISI" \in InvalidBits
  BY DEF InvalidBits
<1>. HIDE DEF unlike, met, invalid
<1>6. /\ invalid \in InvalidBits \cup {"none"}
      /\ InfinityTimesZero(a, c) => invalid = "VXIMZ"
      /\ ~InfinityTimesZero(a, c) /\ unlike => invalid = "VXISI"
      /\ ~InfinityTimesZero(a, c) /\ ~unlike => invalid = "none"
  BY <1>2, <1>3, <1>4, <1>5
<1>. QED BY <1>6, Zenon DEF unlike, invalid, x

LEMMA FusedDoubleAgrees ==
  ASSUME NEW s, IsState(s), NEW i, IsInsn(i), NEW subtract \in BOOLEAN, NEW result, Sound(s, result)
  PROVE  LET a == s.ps0[i.a]  b == s.ps0[i.b]  c == s.ps0[i.c] IN
         /\ CheckedDouble(s, i.d, <<a, c, b>>, FusedInvalid(a, c, Addend(subtract, b)), result)
              = FusedFreeDouble(s, i, subtract, result)
         /\ Sound(s, FusedFreeDouble(s, i, subtract, result))
<1>. DEFINE d == i.d
            a == s.ps0[i.a]
            b == s.ps0[i.b]
            c == s.ps0[i.c]
            unlike == (Infinite(a) \/ Infinite(c)) /\ Infinite(b)
                      /\ (IF subtract THEN (a.neg # c.neg) = b.neg ELSE (a.neg # c.neg) # b.neg)
            invalid == FusedInvalid(a, c, Addend(subtract, b))
            rest == IF InfinityTimesZero(a, c) THEN NativeInvalidDouble(s, d, "VXIMZ", NoNan)
                    ELSE IF unlike THEN NativeInvalidDouble(s, d, "VXISI", NoNan) ELSE result
<1>1. d \in FloatRegisters /\ IsValue(a) /\ IsValue(b) /\ IsValue(c) /\ IsSources(<<a, c, b>>)
  BY Sources, TupleSources
<1>2. FusedFreeDouble(s, i, subtract, result) = FreeDouble(s, d, <<a, c, b>>, rest)
  BY Zenon DEF FusedFreeDouble, FusedFree, FreeDouble, NanFree, native_invalid, NativeInvalidDouble
<1>3. /\ NativeInvalidDouble(s, d, "VXIMZ", NoNan) = InvalidForm("double", s, d, "VXIMZ", NoNan)
      /\ NativeInvalidDouble(s, d, "VXISI", NoNan) = InvalidForm("double", s, d, "VXISI", NoNan)
  BY Constants, SameInvalid DEF InvalidBits
<1>. HIDE DEF d, a, b, c
<1>4. /\ invalid \in InvalidBits \cup {"none"}
      /\ InfinityTimesZero(a, c) => invalid = "VXIMZ"
      /\ ~InfinityTimesZero(a, c) /\ unlike => invalid = "VXISI"
      /\ ~InfinityTimesZero(a, c) /\ ~unlike => invalid = "none"
  BY <1>1, FusedInvalidity, Zenon
<1>. HIDE DEF unlike, invalid
<1>5. rest = InvalidOr("double", s, d, invalid, result)
  BY <1>3, <1>4 DEF InvalidOr
<1>. HIDE DEF rest
<1>6. /\ CheckedDouble(s, d, <<a, c, b>>, invalid, result) = FreeDouble(s, d, <<a, c, b>>, rest)
      /\ Sound(s, FreeDouble(s, d, <<a, c, b>>, rest))
  BY <1>1, <1>4, <1>5, DoubleAgrees
<1>. QED BY <1>2, <1>6, Zenon DEF d, a, b, c, invalid

LEMMA FusedSingleAgrees ==
  ASSUME NEW s, IsState(s), NEW i, IsInsn(i), NEW subtract \in BOOLEAN, NEW result, Sound(s, result)
  PROVE  LET a == s.ps0[i.a]  b == s.ps0[i.b]  c == s.ps0[i.c] IN
         /\ CheckedSingle(s, i.d, <<a, c, b>>, FusedInvalid(a, c, Addend(subtract, b)), result)
              = FusedFreeSingle(s, i, subtract, result)
         /\ Sound(s, FusedFreeSingle(s, i, subtract, result))
<1>. DEFINE d == i.d
            a == s.ps0[i.a]
            b == s.ps0[i.b]
            c == s.ps0[i.c]
            unlike == (Infinite(a) \/ Infinite(c)) /\ Infinite(b)
                      /\ (IF subtract THEN (a.neg # c.neg) = b.neg ELSE (a.neg # c.neg) # b.neg)
            invalid == FusedInvalid(a, c, Addend(subtract, b))
            rest == IF InfinityTimesZero(a, c) THEN NativeInvalidSingle(s, d, "VXIMZ", NoNan)
                    ELSE IF unlike THEN NativeInvalidSingle(s, d, "VXISI", NoNan) ELSE result
<1>1. d \in FloatRegisters /\ IsValue(a) /\ IsValue(b) /\ IsValue(c) /\ IsSources(<<a, c, b>>)
  BY Sources, TupleSources
<1>2. FusedFreeSingle(s, i, subtract, result) = FreeSingle(s, d, <<a, c, b>>, rest)
  BY Zenon DEF FusedFreeSingle, FusedFree, FreeSingle, NanFree, native_invalid, NativeInvalidSingle
<1>3. /\ NativeInvalidSingle(s, d, "VXIMZ", NoNan) = InvalidForm("single", s, d, "VXIMZ", NoNan)
      /\ NativeInvalidSingle(s, d, "VXISI", NoNan) = InvalidForm("single", s, d, "VXISI", NoNan)
  BY Constants, SameInvalid DEF InvalidBits
<1>. HIDE DEF d, a, b, c
<1>4. /\ invalid \in InvalidBits \cup {"none"}
      /\ InfinityTimesZero(a, c) => invalid = "VXIMZ"
      /\ ~InfinityTimesZero(a, c) /\ unlike => invalid = "VXISI"
      /\ ~InfinityTimesZero(a, c) /\ ~unlike => invalid = "none"
  BY <1>1, FusedInvalidity, Zenon
<1>. HIDE DEF unlike, invalid
<1>5. rest = InvalidOr("single", s, d, invalid, result)
  BY <1>3, <1>4 DEF InvalidOr
<1>. HIDE DEF rest
<1>6. /\ CheckedSingle(s, d, <<a, c, b>>, invalid, result) = FreeSingle(s, d, <<a, c, b>>, rest)
      /\ Sound(s, FreeSingle(s, d, <<a, c, b>>, rest))
  BY <1>1, <1>4, <1>5, SingleAgrees
<1>. QED BY <1>2, <1>6, Zenon DEF d, a, b, c, invalid

LEMMA SameFusedDouble ==
  ASSUME NEW s, IsState(s), NEW i, IsInsn(i), NEW subtract \in BOOLEAN, NEW v, IsValue(v),
         NEW exact \in BOOLEAN
  PROVE  LET b == s.ps0[i.b] IN
         /\ FusedDouble(s, i, Addend(subtract, b), v, exact)
              = FusedFreeDouble(s, i, subtract, FusedResult(s, i, v, exact))
         /\ Sound(s, FusedFreeDouble(s, i, subtract, FusedResult(s, i, v, exact)))
<1>. DEFINE d == i.d
            a == s.ps0[i.a]
            b == s.ps0[i.b]
            c == s.ps0[i.c]
            x == Addend(subtract, b)
            result == FusedResult(s, i, v, exact)
            other == IF exact \/ \E y \in {a, c, x} : Infinite(y)
                     THEN CommitDouble(s, d, v, "exact") ELSE CommitUnclassified(s, d, v)
<1>1. d \in FloatRegisters /\ IsValue(b)
  BY Sources
<1>2. FusedDouble(s, i, x, v, exact) = CheckedDouble(s, d, <<a, c, b>>, FusedInvalid(a, c, x), other)
  BY Zenon DEF FusedDouble, CheckedDouble, Checked, SignalInvalid
<1>3. result = IF exact \/ Infinite(a) \/ Infinite(b) \/ Infinite(c)
               THEN CommitFpr(s, d, v, FALSE, FALSE) ELSE CommitFprOnly(s, d, v)
  BY Zenon DEF FusedResult
<1>4. Infinite(x) <=> Infinite(b)
  BY <1>1, Kinds DEF Addend
<1>5. CommitDouble(s, d, v, "exact") = DoubleForm(s, d, v, "exact") /\ CommitUnclassified(s, d, v) = UnclassifiedForm(s, d, v)
  BY InterpreterForms
<1>6. CommitFpr(s, d, v, FALSE, FALSE) = DoubleForm(s, d, v, "exact") /\ CommitFprOnly(s, d, v) = UnclassifiedForm(s, d, v)
  BY NativeForms
<1>7. Sound(s, DoubleForm(s, d, v, "exact")) /\ Sound(s, UnclassifiedForm(s, d, v))
  <2>1. Sound(s, ResultForm("double", s, d, v, "exact")) /\ Sound(s, UnclassifiedForm(s, d, v))
    BY <1>1, ResultSound
  <2>2. ResultForm("double", s, d, v, "exact") = DoubleForm(s, d, v, "exact")
    BY DEF ResultForm
  <2>. QED BY <2>1, <2>2, Zenon
<1>. HIDE DEF d, a, b, c, x, result
<1>8. result = IF exact \/ Infinite(a) \/ Infinite(b) \/ Infinite(c)
               THEN DoubleForm(s, d, v, "exact") ELSE UnclassifiedForm(s, d, v)
  BY <1>3, <1>6, Zenon
<1>9. other = IF exact \/ \E y \in {a, c, x} : Infinite(y)
              THEN DoubleForm(s, d, v, "exact") ELSE UnclassifiedForm(s, d, v)
  BY <1>5, Zenon
<1>10. other = result /\ Sound(s, result)
  BY <1>4, <1>7, <1>8, <1>9
<1>. HIDE DEF other
<1>11. /\ CheckedDouble(s, d, <<a, c, b>>, FusedInvalid(a, c, x), result) = FusedFreeDouble(s, i, subtract, result)
       /\ Sound(s, FusedFreeDouble(s, i, subtract, result))
  BY <1>10, FusedDoubleAgrees, Zenon DEF d, a, b, c, x
<1>. QED BY <1>2, <1>10, <1>11, Zenon DEF result, x, b

LEMMA SameFusedSingle ==
  ASSUME NEW s, IsState(s), NEW i, IsInsn(i), NEW subtract \in BOOLEAN, NEW v, IsValue(v), NEW r
  PROVE  LET b == s.ps0[i.b]
             result == RoundedSingle(s, i.d, Labelled("single", v), r) IN
         /\ FusedSingle(s, i, Addend(subtract, b), v, r.err) = FusedFreeSingle(s, i, subtract, result)
         /\ Sound(s, FusedFreeSingle(s, i, subtract, result))
<1>. DEFINE d == i.d
            a == s.ps0[i.a]
            b == s.ps0[i.b]
            c == s.ps0[i.c]
            x == Addend(subtract, b)
            w == Labelled("single", v)
            result == RoundedSingle(s, d, w, r)
            other == CommitSingle(s, d, w, r.err)
<1>1. d \in FloatRegisters
  BY Sources
<1>2. IsValue(w)
  BY ValueChanged
<1>3. FusedSingle(s, i, x, v, r.err) = CheckedSingle(s, d, <<a, c, b>>, FusedInvalid(a, c, x), other)
  BY Zenon DEF FusedSingle, CheckedSingle, Checked, SignalInvalid
<1>. HIDE DEF d, a, b, c, x, w
<1>4. result = other /\ Sound(s, other)
  BY <1>1, <1>2, SameSingleResult
<1>. HIDE DEF result, other
<1>5. /\ CheckedSingle(s, d, <<a, c, b>>, FusedInvalid(a, c, x), result) = FusedFreeSingle(s, i, subtract, result)
      /\ Sound(s, FusedFreeSingle(s, i, subtract, result))
  BY <1>4, FusedSingleAgrees, Zenon DEF d, a, b, c, x
<1>. QED BY <1>3, <1>4, <1>5, Zenon DEF result, x, b, w, d

LEMMA MultiplyAddsAgree ==
  ASSUME NEW s, IsState(s), NEW i, IsInsn(i), NEW r, IsOutcome(r)
  PROVE  floating_multiply_add_double(s, i, r) = native_fmadd(s, i, r) /\ Sound(s, native_fmadd(s, i, r))
<1>. DEFINE v == FusedDoubleOf(s, i, "a*c+b", r)
            w == FusedWhole(s, i, FALSE, r)
            x == s.ps0[i.b]
            exact == Zero(s.ps0[i.a]) \/ Zero(s.ps0[i.c])
<1>1. floating_multiply_add_double(s, i, r) = FusedDouble(s, i, x, v, exact)
  BY Zenon DEF floating_multiply_add_double
<1>2. native_fmadd(s, i, r) = FusedFreeDouble(s, i, FALSE, FusedResult(s, i, w, exact))
  BY Zenon DEF native_fmadd, FusedFreeDouble, FusedFree, NanFree, native_invalid, FusedWhole, Fused
<1>3. w = v /\ IsValue(v)
  BY FusedValues, Zenon
<1>4. x = Addend(FALSE, s.ps0[i.b])
  BY Zenon DEF Addend
<1>5. exact \in BOOLEAN
  BY Zenon DEF Zero
<1>. HIDE DEF v, w, x, exact
<1>6. /\ FusedDouble(s, i, Addend(FALSE, s.ps0[i.b]), v, exact) = FusedFreeDouble(s, i, FALSE, FusedResult(s, i, v, exact))
      /\ Sound(s, FusedFreeDouble(s, i, FALSE, FusedResult(s, i, v, exact)))
  BY <1>3, <1>5, SameFusedDouble, Zenon
<1>. QED BY <1>1, <1>2, <1>3, <1>4, <1>6, Zenon

LEMMA MultiplySubtractsAgree ==
  ASSUME NEW s, IsState(s), NEW i, IsInsn(i), NEW r, IsOutcome(r)
  PROVE  floating_multiply_subtract_double(s, i, r) = native_fmsub(s, i, r) /\ Sound(s, native_fmsub(s, i, r))
<1>. DEFINE v == FusedDoubleOf(s, i, "a*c-b", r)
            w == FusedWhole(s, i, TRUE, r)
            x == Flip(s.ps0[i.b])
            exact == Zero(s.ps0[i.a]) \/ Zero(s.ps0[i.c])
<1>1. floating_multiply_subtract_double(s, i, r) = FusedDouble(s, i, x, v, exact)
  BY Zenon DEF floating_multiply_subtract_double
<1>2. native_fmsub(s, i, r) = FusedFreeDouble(s, i, TRUE, FusedResult(s, i, w, exact))
  BY Zenon DEF native_fmsub, FusedFreeDouble, FusedFree, NanFree, native_invalid, FusedWhole, Fused
<1>3. w = v /\ IsValue(v)
  BY FusedValues, Zenon
<1>4. x = Addend(TRUE, s.ps0[i.b])
  BY Zenon DEF Addend
<1>5. exact \in BOOLEAN
  BY Zenon DEF Zero
<1>. HIDE DEF v, w, x, exact
<1>6. /\ FusedDouble(s, i, Addend(TRUE, s.ps0[i.b]), v, exact) = FusedFreeDouble(s, i, TRUE, FusedResult(s, i, v, exact))
      /\ Sound(s, FusedFreeDouble(s, i, TRUE, FusedResult(s, i, v, exact)))
  BY <1>3, <1>5, SameFusedDouble, Zenon
<1>. QED BY <1>1, <1>2, <1>3, <1>4, <1>6, Zenon

LEMMA NegativeMultiplyAddsAgree ==
  ASSUME NEW s, IsState(s), NEW i, IsInsn(i), NEW r, IsOutcome(r)
  PROVE  floating_negative_multiply_add_double(s, i, r) = native_fnmadd(s, i, r) /\ Sound(s, native_fnmadd(s, i, r))
<1>. DEFINE v == Negated(FusedDoubleOf(s, i, "a*c+b", r))
            w == NegatedNumber(FusedWhole(s, i, FALSE, r))
            x == s.ps0[i.b]
            exact == Zero(s.ps0[i.a]) \/ Zero(s.ps0[i.c])
<1>1. floating_negative_multiply_add_double(s, i, r) = FusedDouble(s, i, x, v, exact)
  BY Zenon DEF floating_negative_multiply_add_double
<1>2. native_fnmadd(s, i, r) = FusedFreeDouble(s, i, FALSE, FusedResult(s, i, w, exact))
  BY Zenon DEF native_fnmadd, FusedFreeDouble, FusedFree, NanFree, native_invalid, FusedWhole, Fused
<1>3. w = v /\ IsValue(v)
  BY FusedValues, Zenon
<1>4. x = Addend(FALSE, s.ps0[i.b])
  BY Zenon DEF Addend
<1>5. exact \in BOOLEAN
  BY Zenon DEF Zero
<1>. HIDE DEF v, w, x, exact
<1>6. /\ FusedDouble(s, i, Addend(FALSE, s.ps0[i.b]), v, exact) = FusedFreeDouble(s, i, FALSE, FusedResult(s, i, v, exact))
      /\ Sound(s, FusedFreeDouble(s, i, FALSE, FusedResult(s, i, v, exact)))
  BY <1>3, <1>5, SameFusedDouble, Zenon
<1>. QED BY <1>1, <1>2, <1>3, <1>4, <1>6, Zenon

LEMMA NegativeMultiplySubtractsAgree ==
  ASSUME NEW s, IsState(s), NEW i, IsInsn(i), NEW r, IsOutcome(r)
  PROVE  floating_negative_multiply_subtract_double(s, i, r) = native_fnmsub(s, i, r) /\ Sound(s, native_fnmsub(s, i, r))
<1>. DEFINE v == Negated(FusedDoubleOf(s, i, "a*c-b", r))
            w == NegatedNumber(FusedWhole(s, i, TRUE, r))
            x == Flip(s.ps0[i.b])
            exact == Zero(s.ps0[i.c])
<1>1. floating_negative_multiply_subtract_double(s, i, r) = FusedDouble(s, i, x, v, exact)
  BY Zenon DEF floating_negative_multiply_subtract_double
<1>2. native_fnmsub(s, i, r) = FusedFreeDouble(s, i, TRUE, FusedResult(s, i, w, exact))
  BY Zenon DEF native_fnmsub, FusedFreeDouble, FusedFree, NanFree, native_invalid, FusedWhole, Fused
<1>3. w = v /\ IsValue(v)
  BY FusedValues, Zenon
<1>4. x = Addend(TRUE, s.ps0[i.b])
  BY Zenon DEF Addend
<1>5. exact \in BOOLEAN
  BY Zenon DEF Zero
<1>. HIDE DEF v, w, x, exact
<1>6. /\ FusedDouble(s, i, Addend(TRUE, s.ps0[i.b]), v, exact) = FusedFreeDouble(s, i, TRUE, FusedResult(s, i, v, exact))
      /\ Sound(s, FusedFreeDouble(s, i, TRUE, FusedResult(s, i, v, exact)))
  BY <1>3, <1>5, SameFusedDouble, Zenon
<1>. QED BY <1>1, <1>2, <1>3, <1>4, <1>6, Zenon

LEMMA SingleMultiplyAddsAgree ==
  ASSUME NEW s, IsState(s), NEW i, IsInsn(i), NEW r, IsOutcome(r)
  PROVE  floating_multiply_add_single(s, i, r) = native_fmadds(s, i, r) /\ Sound(s, native_fmadds(s, i, r))
<1>. DEFINE v == FusedSingleOf(s, i, "a*c+b", r)
            w == FusedRounded(s, i, FALSE, r)
            x == s.ps0[i.b]
<1>1. floating_multiply_add_single(s, i, r) = FusedSingle(s, i, x, v, r.err)
  BY Zenon DEF floating_multiply_add_single
<1>2. native_fmadds(s, i, r)
        = FusedFreeSingle(s, i, FALSE, RoundedSingle(s, i.d, Labelled("single", w), r))
  BY Zenon DEF native_fmadds, FusedFreeSingle, FusedFree, NanFree, native_invalid, FusedRounded, Fused
<1>3. w = v /\ IsValue(v)
  BY FusedValues, Zenon
<1>4. x = Addend(FALSE, s.ps0[i.b])
  BY Zenon DEF Addend
<1>. HIDE DEF v, w, x
<1>5. /\ FusedSingle(s, i, Addend(FALSE, s.ps0[i.b]), v, r.err)
           = FusedFreeSingle(s, i, FALSE, RoundedSingle(s, i.d, Labelled("single", v), r))
      /\ Sound(s, FusedFreeSingle(s, i, FALSE, RoundedSingle(s, i.d, Labelled("single", v), r)))
  BY <1>3, SameFusedSingle, Zenon
<1>. QED BY <1>1, <1>2, <1>3, <1>4, <1>5, Zenon

LEMMA SingleMultiplySubtractsAgree ==
  ASSUME NEW s, IsState(s), NEW i, IsInsn(i), NEW r, IsOutcome(r)
  PROVE  floating_multiply_subtract_single(s, i, r) = native_fnmsubs(s, i, TRUE, FALSE, r) /\ Sound(s, native_fnmsubs(s, i, TRUE, FALSE, r))
<1>. DEFINE v == FusedSingleOf(s, i, "a*c-b", r)
            w == FusedRounded(s, i, TRUE, r)
            x == Flip(s.ps0[i.b])
<1>1. floating_multiply_subtract_single(s, i, r) = FusedSingle(s, i, x, v, r.err)
  BY Zenon DEF floating_multiply_subtract_single
<1>2. native_fnmsubs(s, i, TRUE, FALSE, r)
        = FusedFreeSingle(s, i, TRUE, RoundedSingle(s, i.d, Labelled("single", w), r))
  BY Zenon DEF native_fnmsubs, FusedFreeSingle, FusedFree, NanFree, native_invalid, FusedRounded, Fused
<1>3. w = v /\ IsValue(v)
  BY FusedValues, Zenon
<1>4. x = Addend(TRUE, s.ps0[i.b])
  BY Zenon DEF Addend
<1>. HIDE DEF v, w, x
<1>5. /\ FusedSingle(s, i, Addend(TRUE, s.ps0[i.b]), v, r.err)
           = FusedFreeSingle(s, i, TRUE, RoundedSingle(s, i.d, Labelled("single", v), r))
      /\ Sound(s, FusedFreeSingle(s, i, TRUE, RoundedSingle(s, i.d, Labelled("single", v), r)))
  BY <1>3, SameFusedSingle, Zenon
<1>. QED BY <1>1, <1>2, <1>3, <1>4, <1>5, Zenon

LEMMA SingleNegativeMultiplyAddsAgree ==
  ASSUME NEW s, IsState(s), NEW i, IsInsn(i), NEW r, IsOutcome(r)
  PROVE  floating_negative_multiply_add_single(s, i, r) = native_fnmsubs(s, i, FALSE, TRUE, r) /\ Sound(s, native_fnmsubs(s, i, FALSE, TRUE, r))
<1>. DEFINE v == Negated(FusedSingleOf(s, i, "a*c+b", r))
            w == NegatedNumber(FusedRounded(s, i, FALSE, r))
            x == s.ps0[i.b]
<1>1. floating_negative_multiply_add_single(s, i, r) = FusedSingle(s, i, x, v, r.err)
  BY Zenon DEF floating_negative_multiply_add_single
<1>2. native_fnmsubs(s, i, FALSE, TRUE, r)
        = FusedFreeSingle(s, i, FALSE, RoundedSingle(s, i.d, Labelled("single", w), r))
  BY Zenon DEF native_fnmsubs, FusedFreeSingle, FusedFree, NanFree, native_invalid, FusedRounded, Fused
<1>3. w = v /\ IsValue(v)
  BY FusedValues, Zenon
<1>4. x = Addend(FALSE, s.ps0[i.b])
  BY Zenon DEF Addend
<1>. HIDE DEF v, w, x
<1>5. /\ FusedSingle(s, i, Addend(FALSE, s.ps0[i.b]), v, r.err)
           = FusedFreeSingle(s, i, FALSE, RoundedSingle(s, i.d, Labelled("single", v), r))
      /\ Sound(s, FusedFreeSingle(s, i, FALSE, RoundedSingle(s, i.d, Labelled("single", v), r)))
  BY <1>3, SameFusedSingle, Zenon
<1>. QED BY <1>1, <1>2, <1>3, <1>4, <1>5, Zenon

LEMMA SingleNegativeMultiplySubtractsAgree ==
  ASSUME NEW s, IsState(s), NEW i, IsInsn(i), NEW r, IsOutcome(r)
  PROVE  floating_negative_multiply_subtract_single(s, i, r) = native_fnmsubs(s, i, TRUE, TRUE, r) /\ Sound(s, native_fnmsubs(s, i, TRUE, TRUE, r))
<1>. DEFINE v == Negated(FusedSingleOf(s, i, "a*c-b", r))
            w == NegatedNumber(FusedRounded(s, i, TRUE, r))
            x == Flip(s.ps0[i.b])
<1>1. floating_negative_multiply_subtract_single(s, i, r) = FusedSingle(s, i, x, v, r.err)
  BY Zenon DEF floating_negative_multiply_subtract_single
<1>2. native_fnmsubs(s, i, TRUE, TRUE, r)
        = FusedFreeSingle(s, i, TRUE, RoundedSingle(s, i.d, Labelled("single", w), r))
  BY Zenon DEF native_fnmsubs, FusedFreeSingle, FusedFree, NanFree, native_invalid, FusedRounded, Fused
<1>3. w = v /\ IsValue(v)
  BY FusedValues, Zenon
<1>4. x = Addend(TRUE, s.ps0[i.b])
  BY Zenon DEF Addend
<1>. HIDE DEF v, w, x
<1>5. /\ FusedSingle(s, i, Addend(TRUE, s.ps0[i.b]), v, r.err)
           = FusedFreeSingle(s, i, TRUE, RoundedSingle(s, i.d, Labelled("single", v), r))
      /\ Sound(s, FusedFreeSingle(s, i, TRUE, RoundedSingle(s, i.d, Labelled("single", v), r)))
  BY <1>3, SameFusedSingle, Zenon
<1>. QED BY <1>1, <1>2, <1>3, <1>4, <1>5, Zenon

----------------------------------------------------------------------------
(* The estimate of a reciprocal square root.                                *)

EnableOf(bit) == IF bit = "ZX" THEN "ZE" ELSE "VE"
EstimateForm(s, d, bit, v) ==
  IF EnableOf(bit) \in RaisedForm(s, bit).fpscr THEN RaisedForm(s, bit)
  ELSE UnclassifiedForm(RaisedForm(s, bit), d, v)

\* What the interpreter does once it knows the exception, and the helper's Raised.
Estimate(s, d, bit, v) ==
  LET t == IF bit = "none" THEN s ELSE raise_fpscr_exception(s, bit)
  IN  IF bit # "none" /\ (IF bit = "ZX" THEN "ZE" ELSE "VE") \in t.fpscr THEN t
      ELSE CommitUnclassified(t, d, v)
NativeEstimate(s, d, bit, enable, v) ==
  LET t == native_raise_fpscr_exception(s, bit)
  IN  IF enable \in t.fpscr THEN t ELSE CommitFprOnly(t, d, v)

LEMMA Estimates ==
  ASSUME NEW s, IsState(s), NEW d \in FloatRegisters, NEW v, IsValue(v),
         NEW bit \in InvalidBits \cup {"ZX"}
  PROVE  /\ Estimate(s, d, bit, v) = EstimateForm(s, d, bit, v)
         /\ NativeEstimate(s, d, bit, EnableOf(bit), v) = EstimateForm(s, d, bit, v)
         /\ Sound(s, EstimateForm(s, d, bit, v))
<1>. DEFINE t == RaisedForm(s, bit)
            u == UnclassifiedForm(t, d, v)
<1>1. bit \in Watched /\ bit # "none"
  BY DEF Watched, InvalidBits
<1>2. Sound(s, t) /\ IsState(t)
  BY <1>1, RaisedSound DEF Sound
<1>3. raise_fpscr_exception(s, bit) = t
  BY InterpreterForms
<1>4. native_raise_fpscr_exception(s, bit) = t
  BY NativeForms
<1>5. EstimateForm(s, d, bit, v) = IF EnableOf(bit) \in t.fpscr THEN t ELSE u
  BY Zenon DEF EstimateForm
<1>6. Estimate(s, d, bit, v) = IF EnableOf(bit) \in t.fpscr THEN t ELSE CommitUnclassified(t, d, v)
  BY <1>1, <1>3, Zenon DEF Estimate, EnableOf
<1>7. NativeEstimate(s, d, bit, EnableOf(bit), v) = IF EnableOf(bit) \in t.fpscr THEN t ELSE CommitFprOnly(t, d, v)
  BY <1>4, Zenon DEF NativeEstimate
<1>8. IsState(u) /\ Quiescent(t.fpscr, u.fpscr)
  BY <1>2, ResultFields
<1>9. CommitUnclassified(t, d, v) = u
  BY <1>2, InterpreterForms
<1>10. CommitFprOnly(t, d, v) = u
  BY <1>2, NativeForms
<1>11. ASSUME EnableOf(bit) \notin t.fpscr PROVE Sound(s, u)
  <2>1. (IF bit = "ZX" THEN "ZE" ELSE "VE") \notin t.fpscr
    BY <1>11, Zenon DEF EnableOf
  <2>. HIDE DEF u
  <2>. QED BY <1>8, <2>1, RaisedThenWritten
<1>. HIDE DEF t, u
<1>. QED BY <1>2, <1>5, <1>6, <1>7, <1>9, <1>10, <1>11

LEMMA RootsAgree ==
  ASSUME NEW s, IsState(s), NEW i, IsInsn(i), NEW r, IsOutcome(r)
  PROVE  /\ floating_reciprocal_square_root_estimate(s, i, r) = native_frsqrte(s, i, r)
         /\ Sound(s, native_frsqrte(s, i, r))
<1>. DEFINE d == i.d
            b == s.ps0[i.b]
            computed == Computed("1/sqrt b", <<b>>, r)
            nothing == Value("zero", FALSE, <<"zero">>)
            infinity == Infinity(b.neg)
            bit == IF Signalling(b) THEN "VXSNAN" ELSE IF Nan(b) THEN "none"
                   ELSE IF Zero(b) THEN "ZX" ELSE IF b.neg THEN "VXSQRT" ELSE "none"
            v == IF Nan(b) THEN quiet_nan_binary64_bits(b)
                 ELSE IF Zero(b) THEN infinity
                 ELSE IF b.neg THEN quiet_nan_binary64_bits(NoNan)
                 ELSE IF Infinite(b) THEN nothing
                 ELSE computed
            result == CASE Signalling(b) -> NativeEstimate(s, d, "VXSNAN", "VE", Quiet(b))
                        [] b.cls = "quiet" -> CommitFprOnly(s, d, b)
                        [] ~Nan(b) /\ b.neg /\ ~Zero(b) -> NativeEstimate(s, d, "VXSQRT", "VE", DefaultNan)
                        [] Zero(b) -> NativeEstimate(s, d, "ZX", "ZE", infinity)
                        [] Infinite(b) /\ ~b.neg -> CommitFprOnly(s, d, nothing)
                        [] OTHER -> CommitFprOnly(s, d, computed)
<1>1. d \in FloatRegisters /\ IsValue(b)
  BY Sources
<1>2. IsValue(computed) /\ IsValue(nothing) /\ IsValue(infinity) /\ IsValue(DefaultNan)
  <2>1. IsValue(computed)
    BY ComputedValue
  <2>2. b.neg \in BOOLEAN
    BY <1>1 DEF IsValue
  <2>3. IsValue(nothing) /\ IsValue(DefaultNan)
    BY Constants
  <2>4. IsValue(infinity)
    BY <2>2, Constants
  <2>. QED BY <2>1, <2>3, <2>4
<1>3. floating_reciprocal_square_root_estimate(s, i, r) = Estimate(s, d, bit, v)
  BY Zenon DEF floating_reciprocal_square_root_estimate, Estimate
<1>4. native_frsqrte(s, i, r) = result
  BY Zenon DEF native_frsqrte, NativeEstimate
<1>5. Quiet(b) = quiet_nan_binary64_bits(b) /\ IsValue(Quiet(b)) /\ quiet_nan_binary64_bits(NoNan) = DefaultNan
  BY <1>1, QuietValue, Constants DEF Quiet, quiet_nan_binary64_bits
<1>6. b.cls = "quiet" => quiet_nan_binary64_bits(b) = b
  BY <1>1 DEF quiet_nan_binary64_bits, Nan, IsValue, Value
<1>7. b.cls \in Classes /\ b.neg \in BOOLEAN
  BY <1>1 DEF IsValue
<1>. HIDE DEF d, b, computed, nothing, infinity
<1>8. ASSUME NEW w, IsValue(w)
      PROVE  /\ Estimate(s, d, "VXSNAN", w) = NativeEstimate(s, d, "VXSNAN", "VE", w)
             /\ Estimate(s, d, "VXSQRT", w) = NativeEstimate(s, d, "VXSQRT", "VE", w)
             /\ Estimate(s, d, "ZX", w) = NativeEstimate(s, d, "ZX", "ZE", w)
             /\ Estimate(s, d, "none", w) = CommitFprOnly(s, d, w)
             /\ Sound(s, Estimate(s, d, "VXSNAN", w)) /\ Sound(s, Estimate(s, d, "VXSQRT", w))
             /\ Sound(s, Estimate(s, d, "ZX", w)) /\ Sound(s, Estimate(s, d, "none", w))
  <2>1. /\ "VXSNAN" \in InvalidBits \cup {"ZX"} /\ "VXSQRT" \in InvalidBits \cup {"ZX"} /\ "ZX" \in InvalidBits \cup {"ZX"}
        /\ EnableOf("VXSNAN") = "VE" /\ EnableOf("VXSQRT") = "VE" /\ EnableOf("ZX") = "ZE"
    BY DEF EnableOf, InvalidBits
  <2>2. Estimate(s, d, "VXSNAN", w) = EstimateForm(s, d, "VXSNAN", w)
        /\ NativeEstimate(s, d, "VXSNAN", EnableOf("VXSNAN"), w) = EstimateForm(s, d, "VXSNAN", w)
        /\ Sound(s, EstimateForm(s, d, "VXSNAN", w))
    BY <1>1, <1>8, <2>1, Estimates
  <2>3. Estimate(s, d, "VXSQRT", w) = EstimateForm(s, d, "VXSQRT", w)
        /\ NativeEstimate(s, d, "VXSQRT", EnableOf("VXSQRT"), w) = EstimateForm(s, d, "VXSQRT", w)
        /\ Sound(s, EstimateForm(s, d, "VXSQRT", w))
    BY <1>1, <1>8, <2>1, Estimates
  <2>4. Estimate(s, d, "ZX", w) = EstimateForm(s, d, "ZX", w)
        /\ NativeEstimate(s, d, "ZX", EnableOf("ZX"), w) = EstimateForm(s, d, "ZX", w)
        /\ Sound(s, EstimateForm(s, d, "ZX", w))
    BY <1>1, <1>8, <2>1, Estimates
  <2>5. Estimate(s, d, "none", w) = CommitUnclassified(s, d, w)
    BY Zenon DEF Estimate
  <2>6. CommitUnclassified(s, d, w) = UnclassifiedForm(s, d, w)
    BY InterpreterForms
  <2>7. CommitFprOnly(s, d, w) = UnclassifiedForm(s, d, w)
    BY <1>8, NativeForms
  <2>8. Sound(s, UnclassifiedForm(s, d, w))
    BY <1>1, <1>8, ResultSound
  <2>. QED BY <2>1, <2>2, <2>3, <2>4, <2>5, <2>6, <2>7, <2>8
<1>9. CASE Signalling(b)
  <2>1. bit = "VXSNAN" /\ v = Quiet(b)
    BY <1>5, <1>9 DEF Signalling, Nan
  <2>2. result = NativeEstimate(s, d, "VXSNAN", "VE", Quiet(b))
    BY <1>9 DEF Signalling, Nan, Zero, Infinite
  <2>. HIDE DEF bit, v, result
  <2>. QED BY <1>3, <1>4, <1>5, <1>8, <2>1, <2>2
<1>10. CASE b.cls = "quiet"
  <2>1. bit = "none" /\ v = b
    BY <1>6, <1>10 DEF Signalling, Nan
  <2>2. result = CommitFprOnly(s, d, b)
    BY <1>10 DEF Signalling, Nan, Zero, Infinite
  <2>. HIDE DEF bit, v, result
  <2>. QED BY <1>1, <1>3, <1>4, <1>8, <2>1, <2>2
<1>11. CASE Zero(b)
  <2>1. bit = "ZX" /\ v = infinity
    BY <1>11 DEF Signalling, Nan, Zero
  <2>2. result = NativeEstimate(s, d, "ZX", "ZE", infinity)
    BY <1>11 DEF Signalling, Nan, Zero, Infinite
  <2>. HIDE DEF bit, v, result
  <2>. QED BY <1>2, <1>3, <1>4, <1>8, <2>1, <2>2
<1>12. CASE ~Nan(b) /\ ~Zero(b) /\ b.neg
  <2>1. bit = "VXSQRT" /\ v = DefaultNan
    BY <1>5, <1>12 DEF Signalling, Nan
  <2>2. result = NativeEstimate(s, d, "VXSQRT", "VE", DefaultNan)
    BY <1>12 DEF Signalling, Nan, Zero, Infinite
  <2>. HIDE DEF bit, v, result
  <2>. QED BY <1>2, <1>3, <1>4, <1>8, <2>1, <2>2
<1>13. CASE ~Nan(b) /\ ~Zero(b) /\ ~b.neg /\ Infinite(b)
  <2>1. bit = "none" /\ v = nothing
    BY <1>13 DEF Signalling, Nan
  <2>2. result = CommitFprOnly(s, d, nothing)
    BY <1>13 DEF Signalling, Nan, Zero, Infinite
  <2>. HIDE DEF bit, v, result
  <2>. QED BY <1>2, <1>3, <1>4, <1>8, <2>1, <2>2
<1>14. CASE ~Nan(b) /\ ~Zero(b) /\ ~b.neg /\ ~Infinite(b)
  <2>1. bit = "none" /\ v = computed
    BY <1>14 DEF Signalling, Nan
  <2>2. result = CommitFprOnly(s, d, computed)
    BY <1>14 DEF Signalling, Nan, Zero, Infinite
  <2>. HIDE DEF bit, v, result
  <2>. QED BY <1>2, <1>3, <1>4, <1>8, <2>1, <2>2
<1>15. Nan(b) => Signalling(b) \/ b.cls = "quiet"
  BY DEF Nan, Signalling
<1>. QED BY <1>7, <1>9, <1>10, <1>11, <1>12, <1>13, <1>14, <1>15

----------------------------------------------------------------------------
(* Conversions to a word: up to two exceptions, then the rounding, then the *)
(* register unless the conversion was invalid and VE is set.                *)

ConversionRaised(s, invalid, snan) ==
  LET t == IF invalid THEN RaisedForm(s, "VXCVI") ELSE s
  IN  IF snan THEN RaisedForm(t, "VXSNAN") ELSE t
ConversionStatus(f, err) ==
  update_fpscr_summaries((f \ {"FI", "FR"}) \cup (IF Inexact(err) THEN {"FI", "XX", "FX"} ELSE {})
                         \cup (IF err = "away" THEN {"FR"} ELSE {}))
ConversionForm(s, d, invalid, snan, err, v) ==
  LET t == ConversionRaised(s, invalid, snan)
      f == ConversionStatus(t.fpscr, err)
  IN  IF invalid /\ "VE" \in f THEN Built(f, t.ps0, t.ps1, t.cr)
      ELSE Built(f, [t.ps0 EXCEPT ![d] = v], t.ps1, t.cr)

LEMMA ConversionKeeps ==
  ASSUME NEW f, NEW err
  PROVE  Summarised(ConversionStatus(f, err)) /\ Quiescent(f, ConversionStatus(f, err))
<1>. DEFINE rounded == (IF Inexact(err) THEN {"FI", "XX", "FX"} ELSE {})
                         \cup (IF err = "away" THEN {"FR"} ELSE {})
            g == (f \ {"FI", "FR"}) \cup (IF Inexact(err) THEN {"FI", "XX", "FX"} ELSE {})
                   \cup (IF err = "away" THEN {"FR"} ELSE {})
<1>1. rounded \subseteq {"FI", "FR", "XX", "FX"}
  OBVIOUS
<1>2. g = (f \ {"FI", "FR"}) \cup rounded
  OBVIOUS
<1>3. ConversionStatus(f, err) = update_fpscr_summaries(g)
  BY Zenon DEF ConversionStatus
<1>. HIDE DEF rounded, g
<1>4. ASSUME NEW w \in Watched PROVE w \in g <=> w \in f
  BY <1>1, <1>2, WatchedBits
<1>5. /\ Summarised(update_fpscr_summaries(g))
      /\ \A bit : bit \notin {"VX", "FEX"} => (bit \in update_fpscr_summaries(g) <=> bit \in g)
  BY SummariesComputed
<1>6. \A w \in Watched : w \notin {"VX", "FEX"}
  BY WatchedBits
<1>. QED BY <1>3, <1>4, <1>5, <1>6 DEF Quiescent

LEMMA ConversionRaises ==
  ASSUME NEW s, IsState(s), NEW invalid \in BOOLEAN, NEW snan \in BOOLEAN
  PROVE  LET t == ConversionRaised(s, invalid, snan) IN
         /\ IsState(t) /\ t.ps0 = s.ps0 /\ t.ps1 = s.ps1
         /\ ~invalid /\ ~snan => t = s
         /\ \A w \in Watched : w \notin {"VXCVI", "VXSNAN"} => (w \in t.fpscr <=> w \in s.fpscr)
<1>. DEFINE u == IF invalid THEN RaisedForm(s, "VXCVI") ELSE s
            t == IF snan THEN RaisedForm(u, "VXSNAN") ELSE u
<1>1. "VXCVI" \in Watched /\ "VXSNAN" \in Watched
  BY DEF Watched, InvalidBits
<1>2. ASSUME NEW x, IsState(x), NEW bit \in Watched
      PROVE  /\ IsState(RaisedForm(x, bit)) /\ RaisedForm(x, bit).ps0 = x.ps0 /\ RaisedForm(x, bit).ps1 = x.ps1
             /\ \A w \in Watched : w \in RaisedForm(x, bit).fpscr <=> w \in x.fpscr \/ w = bit
  <2>1. Sound(x, RaisedForm(x, bit)) /\ RaisedForm(x, bit).fpscr = RaisedStatus(x.fpscr, bit)
    BY <1>2, RaisedSound
  <2>2. RaisedForm(x, bit).ps0 = x.ps0 /\ RaisedForm(x, bit).ps1 = x.ps1
    BY BuiltFields DEF RaisedForm
  <2>3. \A w \in Watched : w \in RaisedStatus(x.fpscr, bit) <=> w \in x.fpscr \/ w = bit
    BY <1>2, RaisedKeeps
  <2>. QED BY <2>1, <2>2, <2>3 DEF Sound
<1>3. /\ IsState(u) /\ u.ps0 = s.ps0 /\ u.ps1 = s.ps1 /\ (~invalid => u = s)
      /\ \A w \in Watched : w # "VXCVI" => (w \in u.fpscr <=> w \in s.fpscr)
  BY <1>1, <1>2
<1>. HIDE DEF u
<1>4. /\ IsState(t) /\ t.ps0 = u.ps0 /\ t.ps1 = u.ps1 /\ (~snan => t = u)
      /\ \A w \in Watched : w # "VXSNAN" => (w \in t.fpscr <=> w \in u.fpscr)
  BY <1>1, <1>2, <1>3
<1>5. ConversionRaised(s, invalid, snan) = t
  BY Zenon DEF ConversionRaised, u
<1>. HIDE DEF t
<1>. QED BY <1>3, <1>4, <1>5

LEMMA ConversionSound ==
  ASSUME NEW s, IsState(s), NEW d \in FloatRegisters, NEW v, IsValue(v), NEW err,
         NEW invalid \in BOOLEAN, NEW snan \in BOOLEAN, snan => invalid
  PROVE  Sound(s, ConversionForm(s, d, invalid, snan, err, v))
<1>. DEFINE t == ConversionRaised(s, invalid, snan)
            f == ConversionStatus(t.fpscr, err)
            low == [t.ps0 EXCEPT ![d] = v]
            x == Built(f, t.ps0, t.ps1, t.cr)
            y == Built(f, low, t.ps1, t.cr)
<1>1. /\ IsState(t) /\ t.ps0 = s.ps0 /\ t.ps1 = s.ps1 /\ (~invalid => t = s)
      /\ \A w \in Watched : w \notin {"VXCVI", "VXSNAN"} => (w \in t.fpscr <=> w \in s.fpscr)
  BY ConversionRaises
<1>2. ConversionForm(s, d, invalid, snan, err, v) = IF invalid /\ "VE" \in f THEN x ELSE y
  BY Zenon DEF ConversionForm
<1>. HIDE DEF t
<1>3. Summarised(f) /\ Quiescent(t.fpscr, f)
  BY ConversionKeeps
<1>4. IsLanes(t.ps0) /\ IsLanes(t.ps1)
  BY <1>1, Zenon DEF IsState
<1>5. IsLanes(low)
  BY <1>4, LaneWritten
<1>. HIDE DEF f, low
<1>6. /\ IsState(x) /\ x.fpscr = f /\ x.ps0 = t.ps0 /\ x.ps1 = t.ps1
      /\ IsState(y) /\ y.fpscr = f
  BY <1>3, <1>4, <1>5, BuiltState, BuiltFields
<1>7. Sound(s, x)
  <2>. HIDE DEF x
  <2>. QED BY <1>1, <1>6 DEF Sound, Suppressed
<1>8. ASSUME ~(invalid /\ "VE" \in f) PROVE ~Raises(s.fpscr, f)
  <2>1. "VE" \in Watched /\ "ZX" \in Watched /\ "ZX" \notin {"VXCVI", "VXSNAN"} /\ InvalidBits \subseteq Watched
    BY DEF Watched
  <2>2. \A w \in Watched : w \in f <=> w \in t.fpscr
    BY <1>3 DEF Quiescent
  <2>3. CASE ~invalid
    <3>1. \A w \in Watched : w \in f <=> w \in s.fpscr
      BY <1>1, <2>2, <2>3
    <3>. QED BY <2>1, <3>1 DEF Raises
  <2>4. CASE "VE" \notin f
    <3>1. "ZX" \in f <=> "ZX" \in s.fpscr
      BY <1>1, <2>1, <2>2
    <3>. QED BY <2>4, <3>1 DEF Raises
  <2>. QED BY <1>8, <2>3, <2>4
<1>. HIDE DEF x, y
<1>. QED BY <1>2, <1>6, <1>7, <1>8 DEF Sound, Suppressed

LEMMA ConversionsAgree ==
  ASSUME NEW s, IsState(s), NEW i, IsInsn(i), i.truncate \in BOOLEAN, NEW r, IsOutcome(r)
  PROVE  floating_convert_to_integer_word(s, i, r) = native_fctiw(s, i, r) /\ Sound(s, native_fctiw(s, i, r))
<1>. DEFINE d == i.d
            b == s.ps0[i.b]
            mode == IF i.truncate THEN {"RN0"} ELSE s.fpscr \cap {"RN1", "RN0"}
            over == Infinite(b) \/ (b.cls = "normal" /\ r.cls = "infinity")
            invalid == Nan(b) \/ over
            snan == Signalling(b)
            err == IF invalid \/ Zero(b) THEN "exact" ELSE r.err
            empty == <<"zero", IF b.neg THEN "negative" ELSE "positive">>
            word == IF Nan(b) \/ (over /\ b.neg) THEN <<"minimum">>
                    ELSE IF over THEN <<"maximum">>
                    ELSE IF Zero(b) \/ r.cls = "zero" THEN empty ELSE <<"integer">>
            v == Value("quiet", TRUE, word \o ModeName(mode) \o b.from)
            t1 == IF invalid THEN raise_fpscr_exception(s, "VXCVI") ELSE s
            t2 == IF snan THEN raise_fpscr_exception(t1, "VXSNAN") ELSE t1
            f == ConversionStatus(t2.fpscr, err)
            fits == ~Nan(b) /\ ~Infinite(b) /\ ~(b.cls = "normal" /\ r.cls = "infinity")
            native_word == CASE Nan(b) -> <<"minimum">>
                             [] fits /\ (Zero(b) \/ r.cls = "zero") -> empty
                             [] fits /\ ~Zero(b) /\ r.cls # "zero" -> <<"integer">>
                             [] OTHER -> IF b.neg THEN <<"minimum">> ELSE <<"maximum">>
            inexact == fits /\ ~Zero(b) /\ Inexact(r.err)
            u1 == IF fits THEN s ELSE native_raise_fpscr_exception(s, "VXCVI")
            u2 == IF snan THEN native_raise_fpscr_exception(u1, "VXSNAN") ELSE u1
            g == native_update_fpscr_summaries((u2.fpscr \ {"FI", "FR"}) \cup RoundingBits(inexact, r.err = "away"))
            rounding == CASE mode = {} -> <<"nearest">> [] mode = {"RN0"} -> <<"truncate">>
                          [] mode = {"RN1"} -> <<"ceil">> [] OTHER -> <<"floor">>
            w == Value("quiet", TRUE, native_word \o rounding \o b.from)
<1>1. d \in FloatRegisters /\ IsValue(b)
  BY Sources
<1>2. floating_convert_to_integer_word(s, i, r)
        = IF invalid /\ "VE" \in f THEN PutStatus(t2, f) ELSE PutResult(t2, f, d, v)
  BY Zenon DEF floating_convert_to_integer_word, ConversionStatus, PutStatus, PutResult
<1>3. native_fctiw(s, i, r)
        = IF ~fits /\ "VE" \in PutStatus(u2, g).fpscr THEN PutStatus(u2, g) ELSE PutLow(PutStatus(u2, g), d, w)
  BY Zenon DEF native_fctiw, PutStatus, PutLow
<1>4. invalid \in BOOLEAN /\ snan \in BOOLEAN /\ (snan => invalid) /\ (fits <=> ~invalid)
  BY DEF Nan, Signalling, Infinite
<1>5. rounding = ModeName(mode)
  <2>. HIDE DEF mode
  <2>. QED BY DEF ModeName
<1>6. native_word = word
  <2>. HIDE DEF empty, b
  <2>. QED BY <1>4 DEF Infinite, Zero, Nan
<1>7. w = v
  <2>. HIDE DEF word, native_word, rounding, mode, b
  <2>. QED BY <1>5, <1>6
<1>8. (inexact <=> Inexact(err)) /\ (inexact /\ r.err = "away" <=> err = "away")
  BY <1>4 DEF Inexact
<1>. HIDE DEF d, b, mode, over, err, empty, word, v, native_word, rounding, w, inexact
<1>9. v = Value("quiet", TRUE, word \o ModeName(mode) \o b.from)
  BY Zenon DEF v
<1>10. IsValue(v)
  <2>. DEFINE from == word \o ModeName(mode) \o b.from
  <2>. HIDE DEF from
  <2>1. v = Value("quiet", TRUE, from)
    BY <1>9, Zenon DEF from
  <2>. QED BY <2>1, Constants
<1>. HIDE DEF invalid, snan, fits
<1>. DEFINE t == ConversionRaised(s, invalid, snan)
<1>11. t1 = (IF invalid THEN RaisedForm(s, "VXCVI") ELSE s) /\ u1 = t1 /\ IsState(t1)
  <2>1. raise_fpscr_exception(s, "VXCVI") = RaisedForm(s, "VXCVI")
    BY InterpreterForms
  <2>2. native_raise_fpscr_exception(s, "VXCVI") = RaisedForm(s, "VXCVI")
    BY Constants, NativeForms
  <2>3. IsState(RaisedForm(s, "VXCVI"))
    BY RaisedSound DEF Watched, InvalidBits, Sound
  <2>. QED BY <1>4, <2>1, <2>2, <2>3
<1>12. t2 = t /\ u2 = t
  <2>. HIDE DEF t1, u1
  <2>1. raise_fpscr_exception(t1, "VXSNAN") = RaisedForm(t1, "VXSNAN")
    BY <1>11, InterpreterForms
  <2>2. native_raise_fpscr_exception(t1, "VXSNAN") = RaisedForm(t1, "VXSNAN")
    BY <1>11, Constants, NativeForms
  <2>3. ConversionRaised(s, invalid, snan) = IF snan THEN RaisedForm(t1, "VXSNAN") ELSE t1
    BY <1>11, Zenon DEF ConversionRaised
  <2>. QED BY <1>11, <2>1, <2>2, <2>3
<1>13. IsState(t) /\ IsMachine(t)
  BY <1>4, ConversionRaises DEF IsState
<1>. HIDE DEF t, t2, u2
<1>14. g = f
  <2>. DEFINE h == (t.fpscr \ {"FI", "FR"}) \cup (IF Inexact(err) THEN {"FI", "XX", "FX"} ELSE {})
                     \cup (IF err = "away" THEN {"FR"} ELSE {})
              k == (u2.fpscr \ {"FI", "FR"}) \cup RoundingBits(inexact, r.err = "away")
  <2>1. RoundingBits(inexact, r.err = "away")
          = (IF Inexact(err) THEN {"FI", "XX", "FX"} ELSE {}) \cup (IF err = "away" THEN {"FR"} ELSE {})
    BY <1>8 DEF RoundingBits
  <2>2. k = h
    BY <1>12, <2>1
  <2>3. g = update_fpscr_summaries(k)
    BY SameSummaries
  <2>4. f = update_fpscr_summaries(h)
    BY <1>12, Zenon DEF ConversionStatus
  <2>. HIDE DEF h, k, f, g
  <2>. QED BY <2>2, <2>3, <2>4
<1>15. f = ConversionStatus(t.fpscr, err)
  BY <1>12
<1>. HIDE DEF f, g
<1>16. PutStatus(t, f) = Built(f, t.ps0, t.ps1, t.cr) /\ PutStatus(t, f).fpscr = f
  BY <1>13, Statuses, BuiltFields
<1>17. PutResult(t, f, d, v) = Built(f, [t.ps0 EXCEPT ![d] = v], t.ps1, t.cr)
       /\ PutLow(PutStatus(t, f), d, v) = Built(f, [t.ps0 EXCEPT ![d] = v], t.ps1, t.cr)
  BY <1>13, Results
<1>18. ConversionForm(s, d, invalid, snan, err, v)
         = IF invalid /\ "VE" \in f THEN Built(f, t.ps0, t.ps1, t.cr)
           ELSE Built(f, [t.ps0 EXCEPT ![d] = v], t.ps1, t.cr)
  BY <1>15, Zenon DEF ConversionForm, t
<1>19. floating_convert_to_integer_word(s, i, r) = ConversionForm(s, d, invalid, snan, err, v)
  BY <1>2, <1>12, <1>16, <1>17, <1>18
<1>20. native_fctiw(s, i, r) = ConversionForm(s, d, invalid, snan, err, v)
  BY <1>3, <1>4, <1>7, <1>12, <1>14, <1>16, <1>17, <1>18
<1>21. Sound(s, ConversionForm(s, d, invalid, snan, err, v))
  BY <1>1, <1>4, <1>10, ConversionSound
<1>. QED BY <1>19, <1>20, <1>21

----------------------------------------------------------------------------
(* Comparisons: the interpreter writes the condition before it raises, the  *)
(* emitted code after.                                                      *)

Compared(f, bits) == (f \ ConditionBits) \cup bits

LEMMA ConditionKeeps ==
  ASSUME NEW f, Summarised(f), NEW bits, bits \subseteq ConditionBits
  PROVE  /\ Summarised(Compared(f, bits))
         /\ \A bit : bit \notin ConditionBits => (bit \in Compared(f, bits) <=> bit \in f)
<1>. DEFINE g == Compared(f, bits)
<1>1. \A bit : bit \notin ConditionBits => (bit \in g <=> bit \in f)
  BY DEF Compared
<1>2. ConditionBits \subseteq ResultBits
  BY DEF ResultBits
<1>. HIDE DEF g
<1>3. g \cap InvalidBits = f \cap InvalidBits
  BY <1>1, <1>2, WatchedBits
<1>4. ASSUME NEW p \in Enabled PROVE {p[1], p[2]} \subseteq g <=> {p[1], p[2]} \subseteq f
  BY <1>1, <1>2, WatchedBits
<1>5. Summarised(g)
  BY <1>1, <1>2, <1>3, <1>4, WatchedBits DEF Summarised
<1>. QED BY <1>1, <1>5 DEF g

\* Summaries are decided by the other bits.
LEMMA SummariesDecided ==
  ASSUME NEW f, NEW g, Summarised(f), Summarised(g),
         \A bit : bit \notin {"VX", "FEX"} => (bit \in f <=> bit \in g)
  PROVE  f = g
<1>1. "VX" \notin InvalidBits /\ "FEX" \notin InvalidBits
  BY DEF InvalidBits
<1>2. f \cap InvalidBits = g \cap InvalidBits
  BY <1>1
<1>3. "VX" \in f <=> "VX" \in g
  BY <1>2 DEF Summarised
<1>4. \A p \in Enabled : p[1] # "FEX" /\ p[2] # "FEX"
  BY DEF Enabled
<1>5. ASSUME NEW p \in Enabled PROVE {p[1], p[2]} \subseteq f <=> {p[1], p[2]} \subseteq g
  BY <1>3, <1>4
<1>6. "FEX" \in f <=> "FEX" \in g
  BY <1>5 DEF Summarised
<1>7. \A bit : bit \in f <=> bit \in g
  BY <1>3, <1>6
<1>. QED BY <1>7

LEMMA RaisedCompared ==
  ASSUME NEW f, Summarised(f), NEW bits, bits \subseteq ConditionBits, NEW bit \in Watched
  PROVE  RaisedStatus(Compared(f, bits), bit) = Compared(RaisedStatus(f, bit), bits)
<1>. DEFINE g == RaisedStatus(f, bit)
            h == RaisedStatus(Compared(f, bits), bit)
<1>1. Summarised(g) /\ Summarised(h)
  BY RaisedKeeps
<1>2. ASSUME NEW k PROVE \A w : w \notin {"VX", "FEX"} => (w \in RaisedStatus(k, bit) <=> w \in k \/ w \in {bit, "FX"})
  <2>. DEFINE l == k \cup {bit, "FX"}
  <2>1. \A w : w \notin {"VX", "FEX"} => (w \in update_fpscr_summaries(l) <=> w \in l)
    BY SummariesComputed
  <2>2. RaisedStatus(k, bit) = update_fpscr_summaries(l)
    BY Zenon DEF RaisedStatus
  <2>. QED BY <2>1, <2>2
<1>3. bit \notin ConditionBits /\ "FX" \notin ConditionBits /\ "VX" \notin ConditionBits /\ "FEX" \notin ConditionBits
  BY WatchedBits DEF ResultBits, ConditionBits
<1>4. \A w : w \notin {"VX", "FEX"} => (w \in g <=> w \in f \/ w \in {bit, "FX"})
  BY <1>2
<1>5. \A w : w \notin {"VX", "FEX"} => (w \in h <=> w \in Compared(f, bits) \/ w \in {bit, "FX"})
  BY <1>2
<1>. HIDE DEF g, h
<1>6. Summarised(Compared(g, bits))
  BY <1>1, ConditionKeeps
<1>7. \A w : w \notin {"VX", "FEX"} => (w \in h <=> w \in Compared(g, bits))
  BY <1>3, <1>4, <1>5 DEF Compared
<1>8. h = Compared(g, bits)
  BY <1>1, <1>6, <1>7, SummariesDecided
<1>. QED BY <1>8 DEF g, h

\* The state after a comparison: f is the status with every exception raised.
ComparedForm(s, f, bits) == Built(Compared(f, bits), s.ps0, s.ps1, bits)

LEMMA RaisesAfterCompared ==
  ASSUME NEW s, IsState(s), NEW f, Summarised(f), NEW bits, bits \subseteq ConditionBits, NEW bit \in Watched
  PROVE  /\ Sound(s, ComparedForm(s, f, bits))
         /\ raise_fpscr_exception(ComparedForm(s, f, bits), bit) = ComparedForm(s, RaisedStatus(f, bit), bits)
         /\ Summarised(RaisedStatus(f, bit))
<1>. DEFINE t == ComparedForm(s, f, bits)
<1>1. Summarised(Compared(f, bits)) /\ IsLanes(s.ps0) /\ IsLanes(s.ps1)
  BY ConditionKeeps, Zenon DEF IsState
<1>2. /\ IsState(t) /\ t.fpscr = Compared(f, bits) /\ t.ps0 = s.ps0 /\ t.ps1 = s.ps1 /\ t.cr = bits
  BY <1>1, BuiltState, BuiltFields DEF ComparedForm
<1>. HIDE DEF t
<1>3. Sound(s, t)
  BY <1>2 DEF Sound, Suppressed
<1>4. raise_fpscr_exception(t, bit) = RaisedForm(t, bit)
  BY <1>2, InterpreterForms
<1>5. RaisedForm(t, bit) = Built(RaisedStatus(t.fpscr, bit), t.ps0, t.ps1, t.cr)
  BY Zenon DEF RaisedForm
<1>6. RaisedStatus(t.fpscr, bit) = Compared(RaisedStatus(f, bit), bits)
  BY <1>2, RaisedCompared
<1>7. raise_fpscr_exception(t, bit) = ComparedForm(s, RaisedStatus(f, bit), bits)
  BY <1>2, <1>4, <1>5, <1>6, Zenon DEF ComparedForm
<1>8. Summarised(RaisedStatus(f, bit))
  BY RaisedKeeps
<1>. QED BY <1>3, <1>7, <1>8 DEF t

LEMMA ComparesAfterRaised ==
  ASSUME NEW s, IsState(s), NEW f, Summarised(f), NEW bits, bits \subseteq ConditionBits, NEW bit \in Watched
  PROVE  /\ PutField(Built(f, s.ps0, s.ps1, s.cr), bits, Compared(f, bits)) = ComparedForm(s, f, bits)
         /\ native_raise_fpscr_exception(Built(f, s.ps0, s.ps1, s.cr), bit)
              = Built(RaisedStatus(f, bit), s.ps0, s.ps1, s.cr)
<1>. DEFINE t == Built(f, s.ps0, s.ps1, s.cr)
<1>1. IsLanes(s.ps0) /\ IsLanes(s.ps1)
  BY Zenon DEF IsState
<1>2. IsState(t) /\ IsMachine(t) /\ t.fpscr = f /\ t.ps0 = s.ps0 /\ t.ps1 = s.ps1 /\ t.cr = s.cr
  BY <1>1, BuiltState, BuiltFields
<1>. HIDE DEF t
<1>3. PutField(t, bits, Compared(f, bits)) = Built(Compared(f, bits), t.ps0, t.ps1, bits)
  BY <1>2, Fields
<1>4. native_raise_fpscr_exception(t, bit) = RaisedForm(t, bit)
  BY <1>2, Constants, NativeForms
<1>5. RaisedForm(t, bit) = Built(RaisedStatus(t.fpscr, bit), t.ps0, t.ps1, t.cr)
  BY Zenon DEF RaisedForm
<1>. QED BY <1>2, <1>3, <1>4, <1>5, Zenon DEF ComparedForm, t

LEMMA ComparesAgree ==
  ASSUME NEW s, IsState(s), NEW i, IsInsn(i), i.lane \in {0, 1}, i.ordered \in BOOLEAN,
         NEW r, r.order \in {"FL", "FG", "FE"}
  PROVE  floating_compare(s, i, r) = EmittedCompare(s, i, r) /\ Sound(s, EmittedCompare(s, i, r))
<1>. DEFINE lane == IF i.lane = 0 THEN s.ps0 ELSE s.ps1
            a == lane[i.a]
            b == lane[i.b]
            snan == Signalling(a) \/ Signalling(b)
            nan == Nan(a) \/ Nan(b)
            bits == IF nan THEN {"FU"} ELSE {r.order}
            f == s.fpscr
            f1 == RaisedStatus(f, "VXSNAN")
            t == PutField(s, bits, (s.fpscr \ ConditionBits) \cup bits)
            u == raise_fpscr_exception(t, "VXSNAN")
            na == IF i.lane = 1 THEN s.ps1[i.a] ELSE s.ps0[i.a]
            nb == IF i.lane = 1 THEN s.ps1[i.b] ELSE s.ps0[i.b]
            raised == IF snan THEN native_raise_fpscr_exception(s, "VXSNAN") ELSE s
            invalid == IF (snan /\ "VE" \notin raised.fpscr) \/ (~snan /\ nan)
                       THEN native_raise_fpscr_exception(raised, "VXVC") ELSE raised
            nt == IF ~nan THEN s ELSE IF i.ordered THEN invalid ELSE raised
            final == IF ~nan THEN f
                     ELSE IF snan THEN (IF i.ordered /\ "VE" \notin f1 THEN RaisedStatus(f1, "VXVC") ELSE f1)
                     ELSE (IF i.ordered THEN RaisedStatus(f, "VXVC") ELSE f)
<1>1. na = a /\ nb = b
  OBVIOUS
<1>2. floating_compare(s, i, r)
        = IF snan
          THEN IF i.ordered /\ "VE" \notin u.fpscr THEN raise_fpscr_exception(u, "VXVC") ELSE u
          ELSE IF i.ordered /\ nan THEN raise_fpscr_exception(t, "VXVC") ELSE t
  BY Zenon DEF floating_compare, PutField
<1>3. EmittedCompare(s, i, r) = PutField(nt, bits, Compared(nt.fpscr, bits))
  <2>. DEFINE A == Signalling(na) \/ Signalling(nb)
              B == Nan(na) \/ Nan(nb)
              nbits == IF B THEN {"FU"} ELSE {r.order}
              x1 == IF A THEN native_raise_fpscr_exception(s, "VXSNAN") ELSE s
              x2 == IF (A /\ "VE" \notin x1.fpscr) \/ (~A /\ B)
                    THEN native_raise_fpscr_exception(x1, "VXVC") ELSE x1
              x == IF ~B THEN s ELSE IF i.ordered THEN x2 ELSE x1
  <2>1. EmittedCompare(s, i, r) = PutField(x, nbits, (x.fpscr \ {"FL", "FG", "FE", "FU"}) \cup nbits)
    BY Zenon DEF EmittedCompare, PutField, native_raise_fpscr_compare_invalid_if_present,
                 native_raise_fpscr_snan_if_present
  <2>2. ConditionBits = {"FL", "FG", "FE", "FU"}
    BY Zenon DEF ConditionBits
  <2>3. EmittedCompare(s, i, r) = PutField(x, nbits, Compared(x.fpscr, nbits))
    BY <2>1, <2>2, Zenon DEF Compared
  <2>4. A = snan /\ B = nan
    BY <1>1, Zenon
  <2>5. x1 = raised
    BY <2>4, Zenon
  <2>6. x2 = invalid
    <3>. HIDE DEF A, B, snan, nan, x1, raised
    <3>. QED BY <2>4, <2>5, Zenon
  <2>. HIDE DEF A, B, snan, nan, x1, x2, raised, invalid
  <2>7. x = nt /\ nbits = bits
    BY <2>4, <2>5, <2>6, Zenon
  <2>. QED BY <2>3, <2>7, Zenon
<1>4. snan => nan
  BY DEF Nan, Signalling
<1>5. bits \subseteq ConditionBits
  BY DEF ConditionBits
<1>6. "VXSNAN" \in Watched /\ "VXVC" \in Watched /\ "VE" \notin ConditionBits
  BY DEF Watched, InvalidBits, ConditionBits
<1>7. Summarised(f) /\ IsMachine(s) /\ IsLanes(s.ps0) /\ IsLanes(s.ps1) /\ s = Built(f, s.ps0, s.ps1, s.cr)
  BY Zenon DEF IsState, IsMachine
<1>. HIDE DEF lane, a, b, snan, nan, bits
<1>8. t = ComparedForm(s, f, bits)
  <2>1. PutField(s, bits, Compared(f, bits)) = Built(Compared(f, bits), s.ps0, s.ps1, bits)
    BY <1>7, Fields
  <2>. QED BY <2>1, Zenon DEF ComparedForm, Compared
<1>. HIDE DEF t
<1>9. /\ u = ComparedForm(s, f1, bits) /\ Summarised(f1)
      /\ raise_fpscr_exception(t, "VXVC") = ComparedForm(s, RaisedStatus(f, "VXVC"), bits)
      /\ Summarised(RaisedStatus(f, "VXVC"))
  BY <1>5, <1>6, <1>7, <1>8, RaisesAfterCompared
<1>. HIDE DEF u
<1>10. /\ raise_fpscr_exception(u, "VXVC") = ComparedForm(s, RaisedStatus(f1, "VXVC"), bits)
       /\ Summarised(RaisedStatus(f1, "VXVC"))
  BY <1>5, <1>6, <1>9, RaisesAfterCompared
<1>11. "VE" \in u.fpscr <=> "VE" \in f1
  <2>1. u.fpscr = Compared(f1, bits)
    BY <1>9, BuiltFields DEF ComparedForm
  <2>. QED BY <1>5, <1>6, <1>9, <2>1, ConditionKeeps
<1>. HIDE DEF f1
<1>12. floating_compare(s, i, r) = ComparedForm(s, final, bits)
  BY <1>2, <1>4, <1>8, <1>9, <1>10, <1>11
<1>13. Summarised(final)
  BY <1>7, <1>9, <1>10
<1>14. nt = Built(final, s.ps0, s.ps1, s.cr)
  <2>1. native_raise_fpscr_exception(s, "VXSNAN") = Built(f1, s.ps0, s.ps1, s.cr)
        /\ native_raise_fpscr_exception(s, "VXVC") = Built(RaisedStatus(f, "VXVC"), s.ps0, s.ps1, s.cr)
    <3>1. native_raise_fpscr_exception(Built(f, s.ps0, s.ps1, s.cr), "VXSNAN")
            = Built(RaisedStatus(f, "VXSNAN"), s.ps0, s.ps1, s.cr)
      BY <1>5, <1>6, <1>7, ComparesAfterRaised
    <3>2. native_raise_fpscr_exception(Built(f, s.ps0, s.ps1, s.cr), "VXVC")
            = Built(RaisedStatus(f, "VXVC"), s.ps0, s.ps1, s.cr)
      BY <1>5, <1>6, <1>7, ComparesAfterRaised
    <3>. QED BY <1>7, <3>1, <3>2, Zenon DEF f1
  <2>2. native_raise_fpscr_exception(Built(f1, s.ps0, s.ps1, s.cr), "VXVC")
          = Built(RaisedStatus(f1, "VXVC"), s.ps0, s.ps1, s.cr)
    BY <1>5, <1>6, <1>9, ComparesAfterRaised
  <2>3. Built(f1, s.ps0, s.ps1, s.cr).fpscr = f1
    BY BuiltFields
  <2>. QED BY <1>4, <1>7, <2>1, <2>2, <2>3
<1>. HIDE DEF nt, final
<1>15. PutField(nt, bits, Compared(nt.fpscr, bits)) = ComparedForm(s, final, bits)
  <2>1. nt.fpscr = final
    BY <1>14, BuiltFields
  <2>. QED BY <1>5, <1>6, <1>13, <1>14, <2>1, ComparesAfterRaised
<1>16. Sound(s, ComparedForm(s, final, bits))
  BY <1>5, <1>6, <1>13, RaisesAfterCompared
<1>. QED BY <1>3, <1>12, <1>15, <1>16

----------------------------------------------------------------------------
(* Moves of the low lane.                                                   *)

LEMMA LowSound ==
  ASSUME NEW s, IsState(s), NEW d \in FloatRegisters, NEW v, IsValue(v)
  PROVE  Sound(s, PutLow(s, d, v))
<1>. DEFINE low == [s.ps0 EXCEPT ![d] = v]
<1>1. IsMachine(s) /\ IsLanes(s.ps0) /\ IsLanes(s.ps1) /\ Summarised(s.fpscr)
  BY Zenon DEF IsState
<1>2. PutLow(s, d, v) = Built(s.fpscr, low, s.ps1, s.cr)
  BY <1>1, Lows
<1>3. IsLanes(low)
  BY <1>1, LaneWritten
<1>. HIDE DEF low
<1>4. IsState(PutLow(s, d, v)) /\ PutLow(s, d, v).fpscr = s.fpscr
  BY <1>1, <1>2, <1>3, BuiltState, BuiltFields
<1>5. ~Raises(s.fpscr, s.fpscr)
  BY DEF Raises
<1>. QED BY <1>4, <1>5 DEF Sound, Suppressed

LEMMA PairSound ==
  ASSUME NEW s, IsState(s), NEW d \in FloatRegisters, NEW v, IsValue(v), NEW w, IsValue(w)
  PROVE  Sound(s, PutPair(s, d, v, w))
<1>. DEFINE low == [s.ps0 EXCEPT ![d] = v]
            high == [s.ps1 EXCEPT ![d] = w]
<1>1. IsMachine(s) /\ IsLanes(s.ps0) /\ IsLanes(s.ps1) /\ Summarised(s.fpscr)
  BY Zenon DEF IsState
<1>2. PutPair(s, d, v, w) = Built(s.fpscr, low, high, s.cr)
  BY <1>1, Pairs
<1>3. IsLanes(low) /\ IsLanes(high)
  BY <1>1, LaneWritten
<1>. HIDE DEF low, high
<1>4. IsState(PutPair(s, d, v, w)) /\ PutPair(s, d, v, w).fpscr = s.fpscr
  BY <1>1, <1>2, <1>3, BuiltState, BuiltFields
<1>5. ~Raises(s.fpscr, s.fpscr)
  BY DEF Raises
<1>. QED BY <1>4, <1>5 DEF Sound, Suppressed

LEMMA SelectsAgree ==
  ASSUME NEW s, IsState(s), NEW i, IsInsn(i)
  PROVE  floating_select(s, i) = native_fsel(s, i) /\ Sound(s, native_fsel(s, i))
<1>. DEFINE d == i.d
            a == s.ps0[i.a]
            b == s.ps0[i.b]
            c == s.ps0[i.c]
            v == IF ~Nan(a) /\ (~a.neg \/ Zero(a)) THEN c ELSE b
            w == IF ~Nan(a) /\ (a.neg => Zero(a)) THEN c ELSE b
<1>1. d \in FloatRegisters /\ IsValue(b) /\ IsValue(c)
  BY Sources
<1>2. floating_select(s, i) = PutLow(s, d, v)
  BY Zenon DEF floating_select, PutLow
<1>3. native_fsel(s, i) = PutLow(s, d, w)
  BY Zenon DEF native_fsel, PutLow
<1>4. w = v
  BY Zenon
<1>. HIDE DEF a, b, c
<1>5. IsValue(v)
  BY <1>1
<1>. HIDE DEF d, v, w
<1>6. Sound(s, PutLow(s, d, v))
  BY <1>1, <1>5, LowSound
<1>. QED BY <1>2, <1>3, <1>4, <1>6, Zenon

LEMMA LowMovesAgree ==
  ASSUME NEW s, IsState(s), NEW i, IsInsn(i), NEW op \in LowMoves
  PROVE  InterpretedMove(op, s, i) = EmittedMove(s, i, op) /\ Sound(s, EmittedMove(s, i, op))
<1>. DEFINE d == i.d
            b == s.ps0[i.b]
            neg == CASE op = "fmr" -> b.neg [] op = "fneg" -> ~b.neg
                     [] op = "fabs" -> FALSE [] op = "fnabs" -> TRUE
            w == [b EXCEPT !.neg = neg]
<1>1. d \in FloatRegisters /\ IsValue(b)
  BY Sources
<1>2. EmittedMove(s, i, op) = PutLow(s, d, w)
  BY Zenon DEF EmittedMove, PutLow
<1>3. /\ floating_move_register(s, i) = PutLow(s, d, b)
      /\ floating_negate(s, i) = PutLow(s, d, Flip(b))
      /\ floating_absolute_value(s, i) = PutLow(s, d, [b EXCEPT !.neg = FALSE])
      /\ floating_negative_absolute_value(s, i) = PutLow(s, d, [b EXCEPT !.neg = TRUE])
  BY Zenon DEF floating_move_register, floating_negate, floating_absolute_value,
               floating_negative_absolute_value, PutLow
<1>. HIDE DEF d, b
<1>4. b = [b EXCEPT !.neg = b.neg] /\ Flip(b) = [b EXCEPT !.neg = ~b.neg] /\ b.neg \in BOOLEAN
  BY <1>1 DEF IsValue, Value, Flip
<1>5. InterpretedMove(op, s, i) = PutLow(s, d, w) /\ neg \in BOOLEAN
  <2>1. CASE op = "fmr"
    <3>1. InterpretedMove(op, s, i) = PutLow(s, d, b) /\ neg = b.neg
      BY <1>3, <2>1 DEF InterpretedMove
    <3>. HIDE DEF neg
    <3>. QED BY <1>4, <3>1
  <2>2. CASE op = "fneg"
    <3>1. InterpretedMove(op, s, i) = PutLow(s, d, Flip(b))
      BY <1>3, <2>2 DEF InterpretedMove
    <3>2. neg = (~b.neg)
      BY <2>2
    <3>3. (~b.neg) \in BOOLEAN
      BY <1>4
    <3>. HIDE DEF neg
    <3>. QED BY <1>4, <3>1, <3>2, <3>3
  <2>3. CASE op = "fabs"
    <3>1. InterpretedMove(op, s, i) = PutLow(s, d, [b EXCEPT !.neg = FALSE]) /\ neg = FALSE
      BY <1>3, <2>3 DEF InterpretedMove
    <3>. HIDE DEF neg
    <3>. QED BY <3>1
  <2>4. CASE op = "fnabs"
    <3>1. InterpretedMove(op, s, i) = PutLow(s, d, [b EXCEPT !.neg = TRUE]) /\ neg = TRUE
      BY <1>3, <2>4 DEF InterpretedMove
    <3>. HIDE DEF neg
    <3>. QED BY <3>1
  <2>. QED BY <2>1, <2>2, <2>3, <2>4 DEF LowMoves
<1>. HIDE DEF neg
<1>6. IsValue(w)
  BY <1>1, <1>5, ValueChanged
<1>. HIDE DEF w
<1>7. Sound(s, PutLow(s, d, w))
  BY <1>1, <1>6, LowSound
<1>. QED BY <1>2, <1>5, <1>7, Zenon

----------------------------------------------------------------------------
(* Moves of pairs.                                                          *)

LEMMA MergesAgree ==
  ASSUME NEW s, IsState(s), NEW i, IsInsn(i), i.merge \in {"00", "01", "10", "11"}
  PROVE  paired_single_merge(s, i) = EmittedMerge(s, i) /\ Sound(s, EmittedMerge(s, i))
<1>. DEFINE d == i.d
            v == IF i.merge \in {"10", "11"} THEN s.ps1[i.a] ELSE s.ps0[i.a]
            w == IF i.merge \in {"01", "11"} THEN s.ps1[i.b] ELSE s.ps0[i.b]
            nv == IF i.merge \in {"00", "01"} THEN s.ps0[i.a] ELSE s.ps1[i.a]
            nw == IF i.merge \in {"00", "10"} THEN s.ps0[i.b] ELSE s.ps1[i.b]
<1>1. d \in FloatRegisters /\ IsValue(s.ps0[i.a]) /\ IsValue(s.ps1[i.a]) /\ IsValue(s.ps0[i.b]) /\ IsValue(s.ps1[i.b])
  BY Sources
<1>2. paired_single_merge(s, i) = PutPair(s, d, v, w)
  BY Zenon DEF paired_single_merge, MovePair, PutPair
<1>3. EmittedMerge(s, i) = PutPair(s, d, nv, nw)
  BY Zenon DEF EmittedMerge, PutPair
<1>4. IsValue(v) /\ IsValue(w)
  BY <1>1, ValueChanged
<1>5. nv = v /\ nw = w
  OBVIOUS
<1>. HIDE DEF d, v, w, nv, nw
<1>6. Sound(s, PutPair(s, d, v, w))
  BY <1>1, <1>4, PairSound
<1>. QED BY <1>2, <1>3, <1>5, <1>6, Zenon

LEMMA PairMovesAgree ==
  ASSUME NEW s, IsState(s), NEW i, IsInsn(i)
  PROVE  paired_single_move_register(s, i) = EmittedPairMove(s, i) /\ Sound(s, EmittedPairMove(s, i))
<1>. DEFINE d == i.d
            v == s.ps0[i.b]
            w == s.ps1[i.b]
            nv == s.ps0[i.b]
            nw == s.ps1[i.b]
<1>1. d \in FloatRegisters /\ IsValue(s.ps0[i.a]) /\ IsValue(s.ps1[i.a]) /\ IsValue(s.ps0[i.b]) /\ IsValue(s.ps1[i.b])
  BY Sources
<1>2. paired_single_move_register(s, i) = PutPair(s, d, v, w)
  BY Zenon DEF paired_single_move_register, MovePair, PutPair
<1>3. EmittedPairMove(s, i) = PutPair(s, d, nv, nw)
  BY Zenon DEF EmittedPairMove, PutPair
<1>4. IsValue(v) /\ IsValue(w)
  BY <1>1, ValueChanged
<1>5. nv = v /\ nw = w
  OBVIOUS
<1>. HIDE DEF d, v, w, nv, nw
<1>6. Sound(s, PutPair(s, d, v, w))
  BY <1>1, <1>4, PairSound
<1>. QED BY <1>2, <1>3, <1>5, <1>6, Zenon

LEMMA PairNegatesAgree ==
  ASSUME NEW s, IsState(s), NEW i, IsInsn(i)
  PROVE  paired_single_negate(s, i) = EmittedPairNeg(s, i) /\ Sound(s, EmittedPairNeg(s, i))
<1>. DEFINE d == i.d
            v == Flip(s.ps0[i.b])
            w == Flip(s.ps1[i.b])
            nv == Flip(s.ps0[i.b])
            nw == Flip(s.ps1[i.b])
<1>1. d \in FloatRegisters /\ IsValue(s.ps0[i.a]) /\ IsValue(s.ps1[i.a]) /\ IsValue(s.ps0[i.b]) /\ IsValue(s.ps1[i.b])
  BY Sources
<1>2. paired_single_negate(s, i) = PutPair(s, d, v, w)
  BY Zenon DEF paired_single_negate, MovePair, PutPair
<1>3. EmittedPairNeg(s, i) = PutPair(s, d, nv, nw)
  BY Zenon DEF EmittedPairNeg, PutPair
<1>4. IsValue(v) /\ IsValue(w)
  BY <1>1, ValueChanged
<1>5. nv = v /\ nw = w
  OBVIOUS
<1>. HIDE DEF d, v, w, nv, nw
<1>6. Sound(s, PutPair(s, d, v, w))
  BY <1>1, <1>4, PairSound
<1>. QED BY <1>2, <1>3, <1>5, <1>6, Zenon

LEMMA PairAbsolutesAgree ==
  ASSUME NEW s, IsState(s), NEW i, IsInsn(i)
  PROVE  paired_single_absolute_value(s, i) = EmittedPairAbs(s, i) /\ Sound(s, EmittedPairAbs(s, i))
<1>. DEFINE d == i.d
            v == [s.ps0[i.b] EXCEPT !.neg = FALSE]
            w == [s.ps1[i.b] EXCEPT !.neg = FALSE]
            nv == [s.ps0[i.b] EXCEPT !.neg = FALSE]
            nw == [s.ps1[i.b] EXCEPT !.neg = FALSE]
<1>1. d \in FloatRegisters /\ IsValue(s.ps0[i.a]) /\ IsValue(s.ps1[i.a]) /\ IsValue(s.ps0[i.b]) /\ IsValue(s.ps1[i.b])
  BY Sources
<1>2. paired_single_absolute_value(s, i) = PutPair(s, d, v, w)
  BY Zenon DEF paired_single_absolute_value, MovePair, PutPair
<1>3. EmittedPairAbs(s, i) = PutPair(s, d, nv, nw)
  BY Zenon DEF EmittedPairAbs, PutPair
<1>4. IsValue(v) /\ IsValue(w)
  BY <1>1, ValueChanged
<1>5. nv = v /\ nw = w
  OBVIOUS
<1>. HIDE DEF d, v, w, nv, nw
<1>6. Sound(s, PutPair(s, d, v, w))
  BY <1>1, <1>4, PairSound
<1>. QED BY <1>2, <1>3, <1>5, <1>6, Zenon

LEMMA PairNegativeAbsolutesAgree ==
  ASSUME NEW s, IsState(s), NEW i, IsInsn(i)
  PROVE  paired_single_negative_absolute_value(s, i) = EmittedPairNabs(s, i) /\ Sound(s, EmittedPairNabs(s, i))
<1>. DEFINE d == i.d
            v == [s.ps0[i.b] EXCEPT !.neg = TRUE]
            w == [s.ps1[i.b] EXCEPT !.neg = TRUE]
            nv == [s.ps0[i.b] EXCEPT !.neg = TRUE]
            nw == [s.ps1[i.b] EXCEPT !.neg = TRUE]
<1>1. d \in FloatRegisters /\ IsValue(s.ps0[i.a]) /\ IsValue(s.ps1[i.a]) /\ IsValue(s.ps0[i.b]) /\ IsValue(s.ps1[i.b])
  BY Sources
<1>2. paired_single_negative_absolute_value(s, i) = PutPair(s, d, v, w)
  BY Zenon DEF paired_single_negative_absolute_value, MovePair, PutPair
<1>3. EmittedPairNabs(s, i) = PutPair(s, d, nv, nw)
  BY Zenon DEF EmittedPairNabs, PutPair
<1>4. IsValue(v) /\ IsValue(w)
  BY <1>1, ValueChanged
<1>5. nv = v /\ nw = w
  OBVIOUS
<1>. HIDE DEF d, v, w, nv, nw
<1>6. Sound(s, PutPair(s, d, v, w))
  BY <1>1, <1>4, PairSound
<1>. QED BY <1>2, <1>3, <1>5, <1>6, Zenon

LEMMA PairSelectsAgree ==
  ASSUME NEW s, IsState(s), NEW i, IsInsn(i)
  PROVE  paired_single_select(s, i) = native_ps_select(s, i) /\ Sound(s, native_ps_select(s, i))
<1>. DEFINE d == i.d
            v == IF ~Nan(s.ps0[i.a]) /\ (~s.ps0[i.a].neg \/ Zero(s.ps0[i.a])) THEN s.ps0[i.c] ELSE s.ps0[i.b]
            w == IF ~Nan(s.ps1[i.a]) /\ (~s.ps1[i.a].neg \/ Zero(s.ps1[i.a])) THEN s.ps1[i.c] ELSE s.ps1[i.b]
            nv == IF ~Nan(s.ps0[i.a]) /\ (s.ps0[i.a].neg => Zero(s.ps0[i.a])) THEN s.ps0[i.c] ELSE s.ps0[i.b]
            nw == IF ~Nan(s.ps1[i.a]) /\ (s.ps1[i.a].neg => Zero(s.ps1[i.a])) THEN s.ps1[i.c] ELSE s.ps1[i.b]
<1>1. /\ d \in FloatRegisters
      /\ IsValue(s.ps0[i.b]) /\ IsValue(s.ps1[i.b]) /\ IsValue(s.ps0[i.c]) /\ IsValue(s.ps1[i.c])
  BY Sources
<1>2. paired_single_select(s, i) = PutPair(s, d, v, w)
  BY Zenon DEF paired_single_select, MovePair, PutPair
<1>3. native_ps_select(s, i) = PutPair(s, d, nv, nw)
  BY Zenon DEF native_ps_select, PutPair
<1>4. IsValue(v) /\ IsValue(w)
  BY <1>1
<1>5. nv = v /\ nw = w
  BY Zenon
<1>. HIDE DEF d, v, w, nv, nw
<1>6. Sound(s, PutPair(s, d, v, w))
  BY <1>1, <1>4, PairSound
<1>. QED BY <1>2, <1>3, <1>5, <1>6, Zenon

----------------------------------------------------------------------------
(* Arithmetic on pairs: every lane's value is the same in both engines, and *)
(* no lane raises an exception.                                             *)

LEMMA StoreSound ==
  ASSUME NEW s, IsState(s), NEW d \in FloatRegisters, NEW v, IsValue(v), NEW w, IsValue(w)
  PROVE  Sound(s, PutPair(s, d, Extended(v), Extended(w)))
<1>. DEFINE x == Extended(v)
            y == Extended(w)
<1>1. IsValue(x) /\ IsValue(y)
  BY ValueChanged
<1>. HIDE DEF x, y
<1>2. Sound(s, PutPair(s, d, x, y))
  BY <1>1, PairSound
<1>. QED BY <1>2 DEF x, y

LEMMA LanesRead ==
  ASSUME NEW p, NEW x, NEW y
  PROVE  /\ [n \in 1..Len(<<x, y>>) |-> p[<<x, y>>[n]]] = <<p[x], p[y]>>
         /\ [n \in 1..Len(<<x>>) |-> p[<<x>>[n]]] = <<p[x]>>
OBVIOUS

LEMMA PairAddsAgree ==
  ASSUME NEW s, IsState(s), NEW i, IsInsn(i), NEW r, IsOutcome(r)
  PROVE  paired_single_add(s, i, r) = native_ps_add(s, i, r) /\ Sound(s, native_ps_add(s, i, r))
<1>. DEFINE d == i.d
            v == LaneOf("a+b", <<s.ps0[i.a], s.ps0[i.b]>>, r)
            w == LaneOf("a+b", <<s.ps1[i.a], s.ps1[i.b]>>, r)
<1>1. d \in FloatRegisters
  BY Sources
<1>2. paired_single_add(s, i, r) = PutPair(s, d, Extended(v), Extended(w))
  <2>. DEFINE low == [n \in 1..Len(<<i.a, i.b>>) |-> s.ps0[<<i.a, i.b>>[n]]]
              high == [n \in 1..Len(<<i.a, i.b>>) |-> s.ps1[<<i.a, i.b>>[n]]]
  <2>1. paired_single_add(s, i, r)
          = PutPair(s, d, Extended(LaneOf("a+b", low, r)), Extended(LaneOf("a+b", high, r)))
    BY Zenon DEF paired_single_add, PairOf, Pair, PutPair
  <2>2. low = <<s.ps0[i.a], s.ps0[i.b]>> /\ high = <<s.ps1[i.a], s.ps1[i.b]>>
    BY LanesRead
  <2>. HIDE DEF low, high
  <2>. QED BY <2>1, <2>2
<1>3. native_ps_add(s, i, r) = PutPair(s, d, Extended(v), Extended(w))
  BY Zenon DEF native_ps_add, InLanes, StorePair, PutPair
<1>4. IsValue(v) /\ IsValue(w)
  BY ComputedValue
<1>. HIDE DEF d, v, w
<1>5. Sound(s, PutPair(s, d, Extended(v), Extended(w)))
  BY <1>1, <1>4, StoreSound
<1>. QED BY <1>2, <1>3, <1>5, Zenon

LEMMA PairSubtractsAgree ==
  ASSUME NEW s, IsState(s), NEW i, IsInsn(i), NEW r, IsOutcome(r)
  PROVE  paired_single_subtract(s, i, r) = native_ps_sub(s, i, r) /\ Sound(s, native_ps_sub(s, i, r))
<1>. DEFINE d == i.d
            v == LaneOf("a-b", <<s.ps0[i.a], s.ps0[i.b]>>, r)
            w == LaneOf("a-b", <<s.ps1[i.a], s.ps1[i.b]>>, r)
<1>1. d \in FloatRegisters
  BY Sources
<1>2. paired_single_subtract(s, i, r) = PutPair(s, d, Extended(v), Extended(w))
  <2>. DEFINE low == [n \in 1..Len(<<i.a, i.b>>) |-> s.ps0[<<i.a, i.b>>[n]]]
              high == [n \in 1..Len(<<i.a, i.b>>) |-> s.ps1[<<i.a, i.b>>[n]]]
  <2>1. paired_single_subtract(s, i, r)
          = PutPair(s, d, Extended(LaneOf("a-b", low, r)), Extended(LaneOf("a-b", high, r)))
    BY Zenon DEF paired_single_subtract, PairOf, Pair, PutPair
  <2>2. low = <<s.ps0[i.a], s.ps0[i.b]>> /\ high = <<s.ps1[i.a], s.ps1[i.b]>>
    BY LanesRead
  <2>. HIDE DEF low, high
  <2>. QED BY <2>1, <2>2
<1>3. native_ps_sub(s, i, r) = PutPair(s, d, Extended(v), Extended(w))
  BY Zenon DEF native_ps_sub, InLanes, StorePair, PutPair
<1>4. IsValue(v) /\ IsValue(w)
  BY ComputedValue
<1>. HIDE DEF d, v, w
<1>5. Sound(s, PutPair(s, d, Extended(v), Extended(w)))
  BY <1>1, <1>4, StoreSound
<1>. QED BY <1>2, <1>3, <1>5, Zenon

LEMMA PairDividesAgree ==
  ASSUME NEW s, IsState(s), NEW i, IsInsn(i), NEW r, IsOutcome(r)
  PROVE  paired_single_divide(s, i, r) = native_ps_div(s, i, r) /\ Sound(s, native_ps_div(s, i, r))
<1>. DEFINE d == i.d
            v == LaneOf("a/b", <<s.ps0[i.a], s.ps0[i.b]>>, r)
            w == LaneOf("a/b", <<s.ps1[i.a], s.ps1[i.b]>>, r)
<1>1. d \in FloatRegisters
  BY Sources
<1>2. paired_single_divide(s, i, r) = PutPair(s, d, Extended(v), Extended(w))
  <2>. DEFINE low == [n \in 1..Len(<<i.a, i.b>>) |-> s.ps0[<<i.a, i.b>>[n]]]
              high == [n \in 1..Len(<<i.a, i.b>>) |-> s.ps1[<<i.a, i.b>>[n]]]
  <2>1. paired_single_divide(s, i, r)
          = PutPair(s, d, Extended(LaneOf("a/b", low, r)), Extended(LaneOf("a/b", high, r)))
    BY Zenon DEF paired_single_divide, PairOf, Pair, PutPair
  <2>2. low = <<s.ps0[i.a], s.ps0[i.b]>> /\ high = <<s.ps1[i.a], s.ps1[i.b]>>
    BY LanesRead
  <2>. HIDE DEF low, high
  <2>. QED BY <2>1, <2>2
<1>3. native_ps_div(s, i, r) = PutPair(s, d, Extended(v), Extended(w))
  BY Zenon DEF native_ps_div, InLanes, StorePair, PutPair
<1>4. IsValue(v) /\ IsValue(w)
  BY ComputedValue
<1>. HIDE DEF d, v, w
<1>5. Sound(s, PutPair(s, d, Extended(v), Extended(w)))
  BY <1>1, <1>4, StoreSound
<1>. QED BY <1>2, <1>3, <1>5, Zenon

LEMMA PairReciprocalsAgree ==
  ASSUME NEW s, IsState(s), NEW i, IsInsn(i), NEW r, IsOutcome(r)
  PROVE  paired_single_reciprocal_estimate(s, i, r) = native_ps_res(s, i, r) /\ Sound(s, native_ps_res(s, i, r))
<1>. DEFINE d == i.d
            v == LaneOf("1/b", <<s.ps0[i.b]>>, r)
            w == LaneOf("1/b", <<s.ps1[i.b]>>, r)
<1>1. d \in FloatRegisters
  BY Sources
<1>2. paired_single_reciprocal_estimate(s, i, r) = PutPair(s, d, Extended(v), Extended(w))
  <2>. DEFINE low == [n \in 1..Len(<<i.b>>) |-> s.ps0[<<i.b>>[n]]]
              high == [n \in 1..Len(<<i.b>>) |-> s.ps1[<<i.b>>[n]]]
  <2>1. paired_single_reciprocal_estimate(s, i, r)
          = PutPair(s, d, Extended(LaneOf("1/b", low, r)), Extended(LaneOf("1/b", high, r)))
    BY Zenon DEF paired_single_reciprocal_estimate, PairOf, Pair, PutPair
  <2>2. low = <<s.ps0[i.b]>> /\ high = <<s.ps1[i.b]>>
    BY LanesRead
  <2>. HIDE DEF low, high
  <2>. QED BY <2>1, <2>2
<1>3. native_ps_res(s, i, r) = PutPair(s, d, Extended(v), Extended(w))
  BY Zenon DEF native_ps_res, InLanes, StorePair, PutPair
<1>4. IsValue(v) /\ IsValue(w)
  BY ComputedValue
<1>. HIDE DEF d, v, w
<1>5. Sound(s, PutPair(s, d, Extended(v), Extended(w)))
  BY <1>1, <1>4, StoreSound
<1>. QED BY <1>2, <1>3, <1>5, Zenon

LEMMA PairRootsAgree ==
  ASSUME NEW s, IsState(s), NEW i, IsInsn(i), NEW r, IsOutcome(r)
  PROVE  paired_single_reciprocal_square_root_estimate(s, i, r) = native_ps_rsqrte(s, i, r) /\ Sound(s, native_ps_rsqrte(s, i, r))
<1>. DEFINE d == i.d
            v == LaneOf("1/sqrt b", <<s.ps0[i.b]>>, r)
            w == LaneOf("1/sqrt b", <<s.ps1[i.b]>>, r)
<1>1. d \in FloatRegisters
  BY Sources
<1>2. paired_single_reciprocal_square_root_estimate(s, i, r) = PutPair(s, d, Extended(v), Extended(w))
  <2>. DEFINE low == [n \in 1..Len(<<i.b>>) |-> s.ps0[<<i.b>>[n]]]
              high == [n \in 1..Len(<<i.b>>) |-> s.ps1[<<i.b>>[n]]]
  <2>1. paired_single_reciprocal_square_root_estimate(s, i, r)
          = PutPair(s, d, Extended(LaneOf("1/sqrt b", low, r)), Extended(LaneOf("1/sqrt b", high, r)))
    BY Zenon DEF paired_single_reciprocal_square_root_estimate, PairOf, Pair, PutPair
  <2>2. low = <<s.ps0[i.b]>> /\ high = <<s.ps1[i.b]>>
    BY LanesRead
  <2>. HIDE DEF low, high
  <2>. QED BY <2>1, <2>2
<1>3. native_ps_rsqrte(s, i, r) = PutPair(s, d, Extended(v), Extended(w))
  BY Zenon DEF native_ps_rsqrte, InLanes, StorePair, PutPair
<1>4. IsValue(v) /\ IsValue(w)
  BY ComputedValue
<1>. HIDE DEF d, v, w
<1>5. Sound(s, PutPair(s, d, Extended(v), Extended(w)))
  BY <1>1, <1>4, StoreSound
<1>. QED BY <1>2, <1>3, <1>5, Zenon

LEMMA PairMultipliesAgree ==
  ASSUME NEW s, IsState(s), NEW i, IsInsn(i), NEW r, IsOutcome(r), i.scalar = 2
  PROVE  paired_single_multiply(s, i, r) = native_ps_mul(s, i, r) /\ Sound(s, native_ps_mul(s, i, r))
<1>. DEFINE d == i.d
            v == LaneOf("a*c", <<s.ps0[i.a], Rounded25(s.ps0[i.c])>>, r)
            w == LaneOf("a*c", <<s.ps1[i.a], Rounded25(s.ps1[i.c])>>, r)
<1>1. d \in FloatRegisters
  BY Sources
<1>2. paired_single_multiply(s, i, r) = PutPair(s, d, Extended(FlushDenormal(v)), Extended(FlushDenormal(w)))
  BY Zenon DEF paired_single_multiply, Pair, PutPair, round_multiply_operand_25bit, Rounded25
<1>3. native_ps_mul(s, i, r) = PutPair(s, d, Extended(FlushDenormal(v)), Extended(FlushDenormal(w)))
  BY Zenon DEF native_ps_mul, InLanes, StorePair, PutPair
<1>4. IsValue(FlushDenormal(v)) /\ IsValue(FlushDenormal(w))
  <2>1. IsValue(v) /\ IsValue(w)
    BY ComputedValue
  <2>. HIDE DEF v, w
  <2>. QED BY <2>1, ValueChanged
<1>. DEFINE x == FlushDenormal(v)
            y == FlushDenormal(w)
<1>. HIDE DEF d, v, w, x, y
<1>5. Sound(s, PutPair(s, d, Extended(x), Extended(y)))
  BY <1>1, <1>4, StoreSound DEF x, y
<1>. QED BY <1>2, <1>3, <1>5, Zenon DEF x, y

LEMMA PairMultiplyAddsAgree ==
  ASSUME NEW s, IsState(s), NEW i, IsInsn(i), NEW r, IsOutcome(r)
  PROVE  paired_single_multiply_add(s, i, r) = native_ps_madd(s, i, r) /\ Sound(s, native_ps_madd(s, i, r))
<1>. DEFINE d == i.d
            v == LaneOf("+b", <<LaneOf("single a*c", <<s.ps0[i.a], Rounded25(s.ps0[i.c])>>, r), s.ps0[i.b]>>, r)
            w == LaneOf("+b", <<LaneOf("single a*c", <<s.ps1[i.a], Rounded25(s.ps1[i.c])>>, r), s.ps1[i.b]>>, r)
<1>1. d \in FloatRegisters
  BY Sources
<1>2. paired_single_multiply_add(s, i, r) = PutPair(s, d, Extended(FlushDenormal(v)), Extended(FlushDenormal(w)))
  BY Zenon DEF paired_single_multiply_add, Pair, PutPair, round_multiply_operand_25bit, Rounded25
<1>3. native_ps_madd(s, i, r) = PutPair(s, d, Extended(FlushDenormal(v)), Extended(FlushDenormal(w)))
  BY Zenon DEF native_ps_madd, InLanes, StorePair, PutPair
<1>4. IsValue(FlushDenormal(v)) /\ IsValue(FlushDenormal(w))
  <2>1. IsValue(v) /\ IsValue(w)
    BY ComputedValue
  <2>. HIDE DEF v, w
  <2>. QED BY <2>1, ValueChanged
<1>. DEFINE x == FlushDenormal(v)
            y == FlushDenormal(w)
<1>. HIDE DEF d, v, w, x, y
<1>5. Sound(s, PutPair(s, d, Extended(x), Extended(y)))
  BY <1>1, <1>4, StoreSound DEF x, y
<1>. QED BY <1>2, <1>3, <1>5, Zenon DEF x, y

LEMMA PairMultiplySubtractsAgree ==
  ASSUME NEW s, IsState(s), NEW i, IsInsn(i), NEW r, IsOutcome(r)
  PROVE  paired_single_multiply_subtract(s, i, r) = native_ps_msub(s, i, r) /\ Sound(s, native_ps_msub(s, i, r))
<1>. DEFINE d == i.d
            v == LaneOf("a*c-b", <<s.ps0[i.a], Rounded25(s.ps0[i.c]), s.ps0[i.b]>>, r)
            w == LaneOf("a*c-b", <<s.ps1[i.a], Rounded25(s.ps1[i.c]), s.ps1[i.b]>>, r)
<1>1. d \in FloatRegisters
  BY Sources
<1>2. paired_single_multiply_subtract(s, i, r) = PutPair(s, d, Extended(v), Extended(w))
  BY Zenon DEF paired_single_multiply_subtract, Pair, PutPair, round_multiply_operand_25bit, Rounded25
<1>3. native_ps_msub(s, i, r) = PutPair(s, d, Extended(v), Extended(w))
  BY Zenon DEF native_ps_msub, InLanes, StorePair, PutPair
<1>4. IsValue(v) /\ IsValue(w)
  <2>1. IsValue(v) /\ IsValue(w)
    BY ComputedValue
  <2>. QED BY <2>1
<1>. DEFINE x == v
            y == w
<1>. HIDE DEF d, v, w, x, y
<1>5. Sound(s, PutPair(s, d, Extended(x), Extended(y)))
  BY <1>1, <1>4, StoreSound DEF x, y
<1>. QED BY <1>2, <1>3, <1>5, Zenon DEF x, y

\* The decoder's flags differ, the registers do not.
SameRegisters(i, k) == i.a = k.a /\ i.b = k.b /\ i.c = k.c /\ i.d = k.d

LEMMA FirstScalarMultipliesAgree ==
  ASSUME NEW s, IsState(s), NEW i, IsInsn(i), NEW r, IsOutcome(r), NEW k, SameRegisters(i, k), i.scalar = 0
  PROVE  paired_single_multiply(s, i, r) = native_ps_muls(s, k, FALSE, r) /\ Sound(s, native_ps_muls(s, k, FALSE, r))
<1>. DEFINE v == LaneOf("a*c", <<s.ps0[i.a], Rounded25(s.ps0[i.c])>>, r)
            w == LaneOf("a*c", <<s.ps1[i.a], Rounded25(s.ps0[i.c])>>, r)
            nv == LaneOf("a*c", <<s.ps0[k.a], Rounded25(s.ps0[k.c])>>, r)
            nw == LaneOf("a*c", <<s.ps1[k.a], Rounded25(s.ps0[k.c])>>, r)
<1>1. i.d \in FloatRegisters
  BY Sources
<1>2. paired_single_multiply(s, i, r) = PutPair(s, i.d, Extended(v), Extended(w))
  <2>1. i.scalar # 2 /\ i.scalar # 1
    OBVIOUS
  <2>. QED BY <2>1, Zenon DEF paired_single_multiply, Pair, PutPair, round_multiply_operand_25bit, Rounded25
<1>3. native_ps_muls(s, k, FALSE, r) = PutPair(s, k.d, Extended(nv), Extended(nw))
  BY Zenon DEF native_ps_muls, InLanes, StorePair, PutPair
<1>4. nv = v /\ nw = w /\ k.d = i.d
  BY Zenon DEF SameRegisters
<1>5. IsValue(v) /\ IsValue(w)
  BY ComputedValue
<1>. HIDE DEF v, w, nv, nw
<1>6. Sound(s, PutPair(s, i.d, Extended(v), Extended(w)))
  BY <1>1, <1>5, StoreSound
<1>. QED BY <1>2, <1>3, <1>4, <1>6, Zenon

LEMMA FirstScalarMultiplyAddsAgree ==
  ASSUME NEW s, IsState(s), NEW i, IsInsn(i), NEW r, IsOutcome(r), NEW k, SameRegisters(i, k), i.scalar = 0, i.negate = FALSE
  PROVE  paired_single_multiply_add_scalar(s, i, r) = native_ps_madds(s, k, FALSE, r) /\ Sound(s, native_ps_madds(s, k, FALSE, r))
<1>. DEFINE v == LaneOf("a*c+b", <<s.ps0[i.a], Rounded25(s.ps0[i.c]), s.ps0[i.b]>>, r)
            w == LaneOf("a*c+b", <<s.ps1[i.a], Rounded25(s.ps0[i.c]), s.ps1[i.b]>>, r)
            nv == LaneOf("a*c+b", <<s.ps0[k.a], Rounded25(s.ps0[k.c]), s.ps0[k.b]>>, r)
            nw == LaneOf("a*c+b", <<s.ps1[k.a], Rounded25(s.ps0[k.c]), s.ps1[k.b]>>, r)
<1>1. i.d \in FloatRegisters
  BY Sources
<1>2. paired_single_multiply_add_scalar(s, i, r) = PutPair(s, i.d, Extended(v), Extended(w))
  <2>1. i.scalar # 2 /\ i.scalar # 1
    OBVIOUS
  <2>. QED BY <2>1, Zenon DEF paired_single_multiply_add_scalar, Pair, PutPair, round_multiply_operand_25bit, Rounded25
<1>3. native_ps_madds(s, k, FALSE, r) = PutPair(s, k.d, Extended(nv), Extended(nw))
  BY Zenon DEF native_ps_madds, InLanes, StorePair, PutPair
<1>4. nv = v /\ nw = w /\ k.d = i.d
  BY Zenon DEF SameRegisters
<1>5. IsValue(v) /\ IsValue(w)
  BY ComputedValue
<1>. HIDE DEF v, w, nv, nw
<1>6. Sound(s, PutPair(s, i.d, Extended(v), Extended(w)))
  BY <1>1, <1>5, StoreSound
<1>. QED BY <1>2, <1>3, <1>4, <1>6, Zenon

LEMMA SecondScalarMultipliesAgree ==
  ASSUME NEW s, IsState(s), NEW i, IsInsn(i), NEW r, IsOutcome(r), NEW k, SameRegisters(i, k), i.scalar = 1
  PROVE  paired_single_multiply(s, i, r) = native_ps_muls(s, k, TRUE, r) /\ Sound(s, native_ps_muls(s, k, TRUE, r))
<1>. DEFINE v == LaneOf("a*c", <<s.ps0[i.a], Rounded25(s.ps1[i.c])>>, r)
            w == LaneOf("a*c", <<s.ps1[i.a], Rounded25(s.ps1[i.c])>>, r)
            nv == LaneOf("a*c", <<s.ps0[k.a], Rounded25(s.ps1[k.c])>>, r)
            nw == LaneOf("a*c", <<s.ps1[k.a], Rounded25(s.ps1[k.c])>>, r)
<1>1. i.d \in FloatRegisters
  BY Sources
<1>2. paired_single_multiply(s, i, r) = PutPair(s, i.d, Extended(v), Extended(w))
  <2>1. i.scalar # 2 /\ i.scalar # 0
    OBVIOUS
  <2>. QED BY <2>1, Zenon DEF paired_single_multiply, Pair, PutPair, round_multiply_operand_25bit, Rounded25
<1>3. native_ps_muls(s, k, TRUE, r) = PutPair(s, k.d, Extended(nv), Extended(nw))
  BY Zenon DEF native_ps_muls, InLanes, StorePair, PutPair
<1>4. nv = v /\ nw = w /\ k.d = i.d
  BY Zenon DEF SameRegisters
<1>5. IsValue(v) /\ IsValue(w)
  BY ComputedValue
<1>. HIDE DEF v, w, nv, nw
<1>6. Sound(s, PutPair(s, i.d, Extended(v), Extended(w)))
  BY <1>1, <1>5, StoreSound
<1>. QED BY <1>2, <1>3, <1>4, <1>6, Zenon

LEMMA SecondScalarMultiplyAddsAgree ==
  ASSUME NEW s, IsState(s), NEW i, IsInsn(i), NEW r, IsOutcome(r), NEW k, SameRegisters(i, k), i.scalar = 1, i.negate = FALSE
  PROVE  paired_single_multiply_add_scalar(s, i, r) = native_ps_madds(s, k, TRUE, r) /\ Sound(s, native_ps_madds(s, k, TRUE, r))
<1>. DEFINE v == LaneOf("a*c+b", <<s.ps0[i.a], Rounded25(s.ps1[i.c]), s.ps0[i.b]>>, r)
            w == LaneOf("a*c+b", <<s.ps1[i.a], Rounded25(s.ps1[i.c]), s.ps1[i.b]>>, r)
            nv == LaneOf("a*c+b", <<s.ps0[k.a], Rounded25(s.ps1[k.c]), s.ps0[k.b]>>, r)
            nw == LaneOf("a*c+b", <<s.ps1[k.a], Rounded25(s.ps1[k.c]), s.ps1[k.b]>>, r)
<1>1. i.d \in FloatRegisters
  BY Sources
<1>2. paired_single_multiply_add_scalar(s, i, r) = PutPair(s, i.d, Extended(v), Extended(w))
  <2>1. i.scalar # 2 /\ i.scalar # 0
    OBVIOUS
  <2>. QED BY <2>1, Zenon DEF paired_single_multiply_add_scalar, Pair, PutPair, round_multiply_operand_25bit, Rounded25
<1>3. native_ps_madds(s, k, TRUE, r) = PutPair(s, k.d, Extended(nv), Extended(nw))
  BY Zenon DEF native_ps_madds, InLanes, StorePair, PutPair
<1>4. nv = v /\ nw = w /\ k.d = i.d
  BY Zenon DEF SameRegisters
<1>5. IsValue(v) /\ IsValue(w)
  BY ComputedValue
<1>. HIDE DEF v, w, nv, nw
<1>6. Sound(s, PutPair(s, i.d, Extended(v), Extended(w)))
  BY <1>1, <1>5, StoreSound
<1>. QED BY <1>2, <1>3, <1>4, <1>6, Zenon

LEMMA NegativePairAddsAgree ==
  ASSUME NEW s, IsState(s), NEW i, IsInsn(i), NEW r, IsOutcome(r), NEW k, SameRegisters(i, k),
         i.negate = TRUE, i.subtract = FALSE
  PROVE  /\ paired_single_multiply_add_scalar(s, i, r) = native_ps_nmadd(s, k, FALSE, r)
         /\ Sound(s, native_ps_nmadd(s, k, FALSE, r))
<1>. DEFINE v == LaneOf("a*c+b", <<s.ps0[i.a], Rounded25(s.ps0[i.c]), s.ps0[i.b]>>, r)
            w == LaneOf("a*c+b", <<s.ps1[i.a], Rounded25(s.ps1[i.c]), s.ps1[i.b]>>, r)
            nv == LaneOf("a*c+b", <<s.ps0[k.a], Rounded25(s.ps0[k.c]), s.ps0[k.b]>>, r)
            nw == LaneOf("a*c+b", <<s.ps1[k.a], Rounded25(s.ps1[k.c]), s.ps1[k.b]>>, r)
            x == Flip(v)
            y == Flip(w)
<1>1. i.d \in FloatRegisters
  BY Sources
<1>2. paired_single_multiply_add_scalar(s, i, r) = PutPair(s, i.d, Extended(Flip(v)), Extended(Flip(w)))
  BY Zenon DEF paired_single_multiply_add_scalar, Pair, PutPair, round_multiply_operand_25bit, Rounded25
<1>3. native_ps_nmadd(s, k, FALSE, r) = PutPair(s, k.d, Extended(Flip(nv)), Extended(Flip(nw)))
  BY Zenon DEF native_ps_nmadd, InLanes, StorePair, PutPair
<1>4. nv = v /\ nw = w /\ k.d = i.d
  BY Zenon DEF SameRegisters
<1>5. IsValue(v) /\ IsValue(w)
  BY ComputedValue
<1>. HIDE DEF v, w, nv, nw
<1>6. IsValue(x) /\ IsValue(y)
  BY <1>5, ValueChanged
<1>. HIDE DEF x, y
<1>7. Sound(s, PutPair(s, i.d, Extended(x), Extended(y)))
  BY <1>1, <1>6, StoreSound
<1>. QED BY <1>2, <1>3, <1>4, <1>7, Zenon DEF x, y

LEMMA NegativePairSubtractsAgree ==
  ASSUME NEW s, IsState(s), NEW i, IsInsn(i), NEW r, IsOutcome(r), NEW k, SameRegisters(i, k),
         i.negate = TRUE, i.subtract = TRUE
  PROVE  /\ paired_single_multiply_add_scalar(s, i, r) = native_ps_nmadd(s, k, TRUE, r)
         /\ Sound(s, native_ps_nmadd(s, k, TRUE, r))
<1>. DEFINE v == LaneOf("a*c-b", <<s.ps0[i.a], Rounded25(s.ps0[i.c]), s.ps0[i.b]>>, r)
            w == LaneOf("a*c-b", <<s.ps1[i.a], Rounded25(s.ps1[i.c]), s.ps1[i.b]>>, r)
            nv == LaneOf("a*c-b", <<s.ps0[k.a], Rounded25(s.ps0[k.c]), s.ps0[k.b]>>, r)
            nw == LaneOf("a*c-b", <<s.ps1[k.a], Rounded25(s.ps1[k.c]), s.ps1[k.b]>>, r)
            x == Flip(v)
            y == Flip(w)
<1>1. i.d \in FloatRegisters
  BY Sources
<1>2. paired_single_multiply_add_scalar(s, i, r) = PutPair(s, i.d, Extended(Flip(v)), Extended(Flip(w)))
  BY Zenon DEF paired_single_multiply_add_scalar, Pair, PutPair, round_multiply_operand_25bit, Rounded25
<1>3. native_ps_nmadd(s, k, TRUE, r) = PutPair(s, k.d, Extended(Flip(nv)), Extended(Flip(nw)))
  BY Zenon DEF native_ps_nmadd, InLanes, StorePair, PutPair
<1>4. nv = v /\ nw = w /\ k.d = i.d
  BY Zenon DEF SameRegisters
<1>5. IsValue(v) /\ IsValue(w)
  BY ComputedValue
<1>. HIDE DEF v, w, nv, nw
<1>6. IsValue(x) /\ IsValue(y)
  BY <1>5, ValueChanged
<1>. HIDE DEF x, y
<1>7. Sound(s, PutPair(s, i.d, Extended(x), Extended(y)))
  BY <1>1, <1>6, StoreSound
<1>. QED BY <1>2, <1>3, <1>4, <1>7, Zenon DEF x, y

LEMMA FirstSumsAgree ==
  ASSUME NEW s, IsState(s), NEW i, IsInsn(i), NEW r, IsOutcome(r), NEW k, SameRegisters(i, k), i.scalar = 0
  PROVE  paired_single_sum(s, i, r) = native_ps_sum(s, k, TRUE, r) /\ Sound(s, native_ps_sum(s, k, TRUE, r))
<1>. DEFINE v == LaneOf("a+b", <<s.ps0[i.a], s.ps1[i.b]>>, r)
            w == LaneOf("single c", <<s.ps1[i.c]>>, r)
            nv == LaneOf("a+b", <<s.ps0[k.a], s.ps1[k.b]>>, r)
            nw == LaneOf("single c", <<s.ps1[k.c]>>, r)
<1>1. i.d \in FloatRegisters
  BY Sources
<1>2. paired_single_sum(s, i, r) = PutPair(s, i.d, Extended(v), Extended(w))
  <2>1. i.scalar = 0
    OBVIOUS
  <2>. QED BY <2>1, Zenon DEF paired_single_sum, Pair, PutPair
<1>3. native_ps_sum(s, k, TRUE, r) = PutPair(s, k.d, Extended(nv), Extended(nw))
  BY Zenon DEF native_ps_sum, StorePair, PutPair
<1>4. nv = v /\ nw = w /\ k.d = i.d
  BY Zenon DEF SameRegisters
<1>5. IsValue(v) /\ IsValue(w)
  BY ComputedValue
<1>. HIDE DEF v, w, nv, nw
<1>6. Sound(s, PutPair(s, i.d, Extended(v), Extended(w)))
  BY <1>1, <1>5, StoreSound
<1>. QED BY <1>2, <1>3, <1>4, <1>6, Zenon

LEMMA SecondSumsAgree ==
  ASSUME NEW s, IsState(s), NEW i, IsInsn(i), NEW r, IsOutcome(r), NEW k, SameRegisters(i, k), i.scalar = 1
  PROVE  paired_single_sum(s, i, r) = native_ps_sum(s, k, FALSE, r) /\ Sound(s, native_ps_sum(s, k, FALSE, r))
<1>. DEFINE v == LaneOf("single c", <<s.ps0[i.c]>>, r)
            w == LaneOf("a+b", <<s.ps0[i.a], s.ps1[i.b]>>, r)
            nv == LaneOf("single c", <<s.ps0[k.c]>>, r)
            nw == LaneOf("a+b", <<s.ps0[k.a], s.ps1[k.b]>>, r)
<1>1. i.d \in FloatRegisters
  BY Sources
<1>2. paired_single_sum(s, i, r) = PutPair(s, i.d, Extended(v), Extended(w))
  <2>1. i.scalar # 0
    OBVIOUS
  <2>. QED BY <2>1, Zenon DEF paired_single_sum, Pair, PutPair
<1>3. native_ps_sum(s, k, FALSE, r) = PutPair(s, k.d, Extended(nv), Extended(nw))
  BY Zenon DEF native_ps_sum, StorePair, PutPair
<1>4. nv = v /\ nw = w /\ k.d = i.d
  BY Zenon DEF SameRegisters
<1>5. IsValue(v) /\ IsValue(w)
  BY ComputedValue
<1>. HIDE DEF v, w, nv, nw
<1>6. Sound(s, PutPair(s, i.d, Extended(v), Extended(w)))
  BY <1>1, <1>5, StoreSound
<1>. QED BY <1>2, <1>3, <1>4, <1>6, Zenon

----------------------------------------------------------------------------
(* Moves to and from the FPSCR.                                             *)

LEMMA StatusState ==
  ASSUME NEW s, IsState(s), NEW g
  PROVE  /\ native_update_fpscr_summaries(g) = update_fpscr_summaries(g)
         /\ IsState(PutStatus(s, update_fpscr_summaries(g)))
         /\ \A c : IsState(PutField(s, c, update_fpscr_summaries(g)))
<1>. DEFINE f == update_fpscr_summaries(g)
<1>1. Summarised(f)
  BY SummariesComputed
<1>2. native_update_fpscr_summaries(g) = f
  BY SameSummaries
<1>. HIDE DEF f
<1>3. IsMachine(s) /\ IsLanes(s.ps0) /\ IsLanes(s.ps1)
  BY Zenon DEF IsState
<1>4. PutStatus(s, f) = Built(f, s.ps0, s.ps1, s.cr)
  BY <1>3, Statuses
<1>5. ASSUME NEW c PROVE PutField(s, c, f) = Built(f, s.ps0, s.ps1, c)
  BY <1>3, Fields
<1>6. ASSUME NEW c PROVE IsState(Built(f, s.ps0, s.ps1, c))
  BY <1>1, <1>3, BuiltState
<1>. QED BY <1>2, <1>4, <1>5, <1>6 DEF f

\* The fields of the register, and which of them hold the summaries.
LEMMA FieldBits ==
  /\ FpscrField[1] \ {"FEX", "VX"} = {"FX", "OX"}
  /\ \A n \in 2..8 : FpscrField[n] \ {"FEX", "VX"} = FpscrField[n]
  /\ \A n \in 1..8 : n # 6 => FpscrField[n] \ {"Reserved"} = FpscrField[n]
  /\ FpscrField[6] \ {"Reserved"} = {"VXSOFT", "VXSQRT", "VXCVI"}
<1>1. /\ FpscrField[1] = {"FX", "FEX", "VX", "OX"} /\ FpscrField[2] = {"UX", "ZX", "XX", "VXSNAN"}
      /\ FpscrField[3] = {"VXISI", "VXIDI", "VXZDZ", "VXIMZ"} /\ FpscrField[4] = {"VXVC", "FR", "FI", "C"}
      /\ FpscrField[5] = ConditionBits /\ FpscrField[6] = {"Reserved", "VXSOFT", "VXSQRT", "VXCVI"}
      /\ FpscrField[7] = {"VE", "OE", "UE", "ZE"} /\ FpscrField[8] = {"XE", "NI", "RN1", "RN0"}
  BY DEF FpscrField
<1>2. FpscrField[1] \ {"FEX", "VX"} = {"FX", "OX"} /\ FpscrField[1] \ {"Reserved"} = FpscrField[1]
  BY <1>1
<1>3. FpscrField[2] \ {"FEX", "VX"} = FpscrField[2] /\ FpscrField[2] \ {"Reserved"} = FpscrField[2]
  BY <1>1
<1>4. FpscrField[3] \ {"FEX", "VX"} = FpscrField[3] /\ FpscrField[3] \ {"Reserved"} = FpscrField[3]
  BY <1>1
<1>5. FpscrField[4] \ {"FEX", "VX"} = FpscrField[4] /\ FpscrField[4] \ {"Reserved"} = FpscrField[4]
  BY <1>1
<1>6. FpscrField[5] \ {"FEX", "VX"} = FpscrField[5] /\ FpscrField[5] \ {"Reserved"} = FpscrField[5]
  BY <1>1 DEF ConditionBits
<1>7. FpscrField[6] \ {"FEX", "VX"} = FpscrField[6] /\ FpscrField[6] \ {"Reserved"} = {"VXSOFT", "VXSQRT", "VXCVI"}
  BY <1>1
<1>8. FpscrField[7] \ {"FEX", "VX"} = FpscrField[7] /\ FpscrField[7] \ {"Reserved"} = FpscrField[7]
  BY <1>1
<1>9. FpscrField[8] \ {"FEX", "VX"} = FpscrField[8] /\ FpscrField[8] \ {"Reserved"} = FpscrField[8]
  BY <1>1
<1>10. \A n \in 1..8 : n \in {1, 2, 3, 4, 5, 6, 7, 8}
  OBVIOUS
<1>11. \A n \in 2..8 : n \in {2, 3, 4, 5, 6, 7, 8}
  OBVIOUS
<1>12. \A n \in 2..8 : FpscrField[n] \ {"FEX", "VX"} = FpscrField[n]
  BY <1>3, <1>4, <1>5, <1>6, <1>7, <1>8, <1>9, <1>11
<1>13. \A n \in 1..8 : n # 6 => FpscrField[n] \ {"Reserved"} = FpscrField[n]
  BY <1>2, <1>3, <1>4, <1>5, <1>6, <1>8, <1>9, <1>10
<1>. QED BY <1>2, <1>7, <1>12, <1>13


LEMMA ImmediatesAgree ==
  ASSUME NEW s, IsState(s), NEW i, i.field \in 1..8
  PROVE  /\ floating_move_to_fpscr_field_immediate(s, i) = EmittedMtfsfi(s, i)
         /\ IsState(EmittedMtfsfi(s, i))
<1>. DEFINE mask == FpscrField[i.field] \ {"FEX", "VX"}
            writable == IF i.field = 1 THEN {"FX", "OX"} ELSE FpscrField[i.field]
            g == (s.fpscr \ mask) \cup (i.bits \cap mask)
            h == (s.fpscr \ writable) \cup (i.bits \cap writable)
<1>1. floating_move_to_fpscr_field_immediate(s, i) = PutStatus(s, update_fpscr_summaries(g))
  BY Zenon DEF floating_move_to_fpscr_field_immediate, WriteFpscr, PutStatus
<1>2. EmittedMtfsfi(s, i) = PutStatus(s, native_update_fpscr_summaries(h))
  BY Zenon DEF EmittedMtfsfi, PutStatus
<1>3. writable = mask
  <2>1. i.field = 1 \/ i.field \in 2..8
    OBVIOUS
  <2>. QED BY <2>1, FieldBits
<1>. HIDE DEF mask, writable
<1>4. g = h
  BY <1>3
<1>. HIDE DEF g, h
<1>. QED BY <1>1, <1>2, <1>4, StatusState

LEMMA FieldMovesAgree ==
  ASSUME NEW s, IsState(s), NEW i, i.fields \subseteq 1..8
  PROVE  floating_move_to_fpscr_fields(s, i) = EmittedMtfsf(s, i) /\ IsState(EmittedMtfsf(s, i))
<1>. DEFINE mask == (UNION {FpscrField[n] : n \in i.fields}) \ {"FEX", "VX"}
            writable == {bit \in FpscrBits : bit \notin {"FEX", "VX"}
                           /\ \E n \in i.fields : bit \in FpscrField[n]}
            g == (s.fpscr \ mask) \cup (i.bits \cap mask)
            h == (s.fpscr \ writable) \cup (i.bits \cap writable)
<1>1. floating_move_to_fpscr_fields(s, i) = PutStatus(s, update_fpscr_summaries(g))
  BY Zenon DEF floating_move_to_fpscr_fields, WriteFpscr, PutStatus
<1>2. EmittedMtfsf(s, i) = PutStatus(s, native_update_fpscr_summaries(h))
  BY Zenon DEF EmittedMtfsf, PutStatus
<1>3. writable = mask
  <2>1. \A bit : bit \in mask <=> bit \notin {"FEX", "VX"} /\ \E n \in i.fields : bit \in FpscrField[n]
    OBVIOUS
  <2>2. \A bit : bit \in FpscrBits <=> \E n \in 1..8 : bit \in FpscrField[n]
    BY DEF FpscrBits
  <2>3. \A bit : bit \in writable
          <=> bit \in FpscrBits /\ bit \notin {"FEX", "VX"} /\ \E n \in i.fields : bit \in FpscrField[n]
    OBVIOUS
  <2>. HIDE DEF mask, writable
  <2>. QED BY <2>1, <2>2, <2>3
<1>. HIDE DEF mask, writable
<1>4. g = h
  BY <1>3
<1>. HIDE DEF g, h
<1>. QED BY <1>1, <1>2, <1>4, StatusState

LEMMA BitMovesAgree ==
  ASSUME NEW s, IsState(s), NEW i, i.set \in BOOLEAN
  PROVE  floating_move_to_fpscr_bit(s, i) = EmittedMtfsb(s, i) /\ IsState(EmittedMtfsb(s, i))
<1>. DEFINE bit == i.bit
            mask == {bit} \ {"FEX", "VX"}
            bits == IF i.set THEN {bit} ELSE {}
            g == (s.fpscr \ mask) \cup (bits \cap mask)
            h == IF i.set THEN s.fpscr \cup {bit} ELSE s.fpscr \ {bit}
<1>1. floating_move_to_fpscr_bit(s, i)
        = IF {bit} \subseteq {"FEX", "VX"} THEN s ELSE PutStatus(s, update_fpscr_summaries(g))
  BY Zenon DEF floating_move_to_fpscr_bit, WriteFpscr, PutStatus
<1>2. EmittedMtfsb(s, i)
        = IF bit \in {"FEX", "VX"} THEN s ELSE PutStatus(s, native_update_fpscr_summaries(h))
  BY Zenon DEF EmittedMtfsb, PutStatus
<1>3. bit \notin {"FEX", "VX"} => g = h
  <2>1. bit \notin {"FEX", "VX"} => mask = {bit}
    OBVIOUS
  <2>. HIDE DEF mask, bit
  <2>. QED BY <2>1
<1>4. {bit} \subseteq {"FEX", "VX"} <=> bit \in {"FEX", "VX"}
  OBVIOUS
<1>. HIDE DEF bit, g, h
<1>. QED BY <1>1, <1>2, <1>3, <1>4, StatusState

LEMMA StatusReadsAgree ==
  ASSUME NEW s, IsState(s), NEW i, IsInsn(i)
  PROVE  floating_move_from_fpscr(s, i) = EmittedMffs(s, i) /\ IsState(EmittedMffs(s, i))
<1>. DEFINE v == Value("quiet", TRUE, <<"fpscr">>)
<1>1. floating_move_from_fpscr(s, i) = PutLow(s, i.d, v) /\ EmittedMffs(s, i) = PutLow(s, i.d, v)
  BY Zenon DEF floating_move_from_fpscr, EmittedMffs, PutLow
<1>2. IsValue(v) /\ i.d \in FloatRegisters
  BY Constants DEF IsInsn
<1>. HIDE DEF v
<1>3. Sound(s, PutLow(s, i.d, v))
  BY <1>2, LowSound
<1>. QED BY <1>1, <1>3 DEF Sound

LEMMA ConditionMovesAgree ==
  ASSUME NEW s, IsState(s), NEW i, i.field \in 1..8
  PROVE  move_condition_register_from_fpscr(s, i) = EmittedMcrfs(s, i) /\ IsState(EmittedMcrfs(s, i))
<1>. DEFINE field == i.field
            clear == <<{"FX", "OX"}, FpscrField[2], FpscrField[3], {"VXVC"}, {},
                       FpscrField[6] \ {"Reserved"}, {}, {}>>
            cleared == CASE field = 1 -> {"FX", "OX"}
                         [] field = 2 -> {"UX", "ZX", "XX", "VXSNAN"}
                         [] field = 3 -> {"VXISI", "VXIDI", "VXZDZ", "VXIMZ"}
                         [] field = 4 -> {"VXVC"}
                         [] field = 6 -> {"VXSOFT", "VXSQRT", "VXCVI"}
                         [] OTHER -> {}
            copied == s.fpscr \cap (FpscrField[field] \ {"Reserved"})
            ncopied == s.fpscr \cap (IF field = 6 THEN cleared ELSE FpscrField[field])
            g == s.fpscr \ clear[field]
            h == s.fpscr \ cleared
<1>1. move_condition_register_from_fpscr(s, i) = PutField(s, copied, update_fpscr_summaries(g))
  BY Zenon DEF move_condition_register_from_fpscr, PutField
<1>2. EmittedMcrfs(s, i) = PutField(s, ncopied, native_update_fpscr_summaries(h))
  BY Zenon DEF EmittedMcrfs, PutField
<1>3. FpscrField[2] = {"UX", "ZX", "XX", "VXSNAN"} /\ FpscrField[3] = {"VXISI", "VXIDI", "VXZDZ", "VXIMZ"}
  BY DEF FpscrField
<1>4. field \in {1, 2, 3, 4, 5, 6, 7, 8}
  OBVIOUS
<1>. HIDE DEF field
<1>5. clear[field] = cleared
  <2>1. FpscrField[6] \ {"Reserved"} = {"VXSOFT", "VXSQRT", "VXCVI"}
    BY FieldBits
  <2>2. CASE field \in {1, 2, 3, 4}
    BY <1>3, <2>2
  <2>3. CASE field \in {5, 6, 7, 8}
    BY <2>1, <2>3
  <2>. QED BY <1>4, <2>2, <2>3
<1>6. ncopied = copied
  <2>1. CASE field = 6
    <3>1. cleared = FpscrField[6] \ {"Reserved"}
      BY <2>1, FieldBits
    <3>. HIDE DEF cleared
    <3>. QED BY <2>1, <3>1
  <2>2. CASE field # 6
    <3>1. field \in 1..8
      BY <1>4
    <3>2. FpscrField[field] \ {"Reserved"} = FpscrField[field]
      BY <2>2, <3>1, FieldBits
    <3>. HIDE DEF cleared
    <3>. QED BY <2>2, <3>2
  <2>. QED BY <2>1, <2>2
<1>. HIDE DEF clear, cleared
<1>7. g = h
  BY <1>5
<1>. HIDE DEF g, h, copied, ncopied
<1>. QED BY <1>1, <1>2, <1>6, <1>7, StatusState

----------------------------------------------------------------------------
(* The instructions the actions give to both engines.                       *)

Decoded(i, d, truncate, scalar, subtract, negate, merge) ==
  i = [d |-> d, a |-> 1, b |-> 2, c |-> 3, truncate |-> truncate, lane |-> 0,
       ordered |-> FALSE, bit |-> "FX", set |-> FALSE, field |-> 1, fields |-> {},
       bits |-> {}, scalar |-> scalar, subtract |-> subtract, negate |-> negate, merge |-> merge]

LEMMA DecodedInsn ==
  ASSUME NEW i \in Aliased
  PROVE  /\ IsInsn(i) /\ i.truncate = FALSE /\ i.scalar = 2 /\ [i EXCEPT !.truncate = FALSE] = i
         /\ IsInsn([i EXCEPT !.truncate = TRUE]) /\ [i EXCEPT !.truncate = TRUE].truncate = TRUE
<1>1. PICK d \in FloatRegisters : i = [Insn EXCEPT !.d = d]
  BY DEF Aliased
<1>2. Decoded(i, d, FALSE, 2, FALSE, FALSE, "00")
  BY <1>1 DEF Insn, Decoded
<1>3. IsInsn(i) /\ i.truncate = FALSE /\ i.scalar = 2
  BY <1>2 DEF Decoded, IsInsn, FloatRegisters
<1>4. [i EXCEPT !.truncate = FALSE] = i
  <2>1. i = [name \in DOMAIN i |-> i[name]]
    BY <1>1
  <2>. QED BY <1>3, <2>1
<1>5. IsInsn([i EXCEPT !.truncate = TRUE])
  BY <1>2 DEF Decoded, IsInsn, FloatRegisters
<1>6. [i EXCEPT !.truncate = TRUE].truncate = TRUE
  BY <1>2 DEF Decoded
<1>. QED BY <1>3, <1>4, <1>5, <1>6

LEMMA DecodedFlags ==
  ASSUME NEW i \in Aliased
  PROVE  /\ \A n \in {0, 1} : /\ IsInsn([i EXCEPT !.scalar = n]) /\ SameRegisters([i EXCEPT !.scalar = n], i)
                              /\ [i EXCEPT !.scalar = n].scalar = n /\ [i EXCEPT !.scalar = n].negate = FALSE
         /\ IsInsn([i EXCEPT !.negate = TRUE]) /\ SameRegisters([i EXCEPT !.negate = TRUE], i)
         /\ [i EXCEPT !.negate = TRUE].negate = TRUE /\ [i EXCEPT !.negate = TRUE].subtract = FALSE
         /\ \A m \in {"00", "01", "10", "11"} : IsInsn([i EXCEPT !.merge = m]) /\ [i EXCEPT !.merge = m].merge = m
<1>1. PICK d \in FloatRegisters : i = [Insn EXCEPT !.d = d]
  BY DEF Aliased
<1>2. Decoded(i, d, FALSE, 2, FALSE, FALSE, "00")
  BY <1>1 DEF Insn, Decoded
<1>3. \A n \in {0, 1} : /\ IsInsn([i EXCEPT !.scalar = n]) /\ SameRegisters([i EXCEPT !.scalar = n], i)
                        /\ [i EXCEPT !.scalar = n].scalar = n /\ [i EXCEPT !.scalar = n].negate = FALSE
  BY <1>2 DEF Decoded, IsInsn, FloatRegisters, SameRegisters
<1>4. /\ IsInsn([i EXCEPT !.negate = TRUE]) /\ SameRegisters([i EXCEPT !.negate = TRUE], i)
      /\ [i EXCEPT !.negate = TRUE].negate = TRUE /\ [i EXCEPT !.negate = TRUE].subtract = FALSE
  BY <1>2 DEF Decoded, IsInsn, FloatRegisters, SameRegisters
<1>5. \A m \in {"00", "01", "10", "11"} : IsInsn([i EXCEPT !.merge = m]) /\ [i EXCEPT !.merge = m].merge = m
  BY <1>2 DEF Decoded, IsInsn, FloatRegisters
<1>. QED BY <1>3, <1>4, <1>5

LEMMA DecodedSubtraction ==
  ASSUME NEW i \in Aliased
  PROVE  LET k == [i EXCEPT !.negate = TRUE, !.subtract = TRUE] IN
         IsInsn(k) /\ SameRegisters(k, i) /\ k.negate = TRUE /\ k.subtract = TRUE
<1>1. PICK d \in FloatRegisters : i = [Insn EXCEPT !.d = d]
  BY DEF Aliased
<1>2. Decoded(i, d, FALSE, 2, FALSE, FALSE, "00")
  BY <1>1 DEF Insn, Decoded
<1>. QED BY <1>2 DEF Decoded, IsInsn, FloatRegisters, SameRegisters

\* Double-precision arithmetic.
LEMMA DoublesAgree ==
  ASSUME NEW s, IsState(s), NEW op \in Doubles, NEW i \in Aliased, NEW r, IsOutcome(r)
  PROVE  Interpreted(op, s, i, r) = EmitDouble(op, s, i, r) /\ Sound(s, EmitDouble(op, s, i, r))
<1>1. IsInsn(i) /\ i.truncate = FALSE /\ i.scalar = 2
  BY DecodedInsn
<1>2. CASE op = "fadd"
  <2>1. Interpreted(op, s, i, r) = floating_add_double(s, i, r)
    BY <1>2 DEF Interpreted
  <2>2. EmitDouble(op, s, i, r) = native_fadd(s, i, r)
    BY <1>2 DEF EmitDouble
  <2>3. floating_add_double(s, i, r) = native_fadd(s, i, r) /\ Sound(s, native_fadd(s, i, r))
    BY <1>1, AddsAgree
  <2>. QED BY <2>1, <2>2, <2>3, Zenon
<1>3. CASE op = "fsub"
  <2>1. Interpreted(op, s, i, r) = floating_subtract_double(s, i, r)
    BY <1>3 DEF Interpreted
  <2>2. EmitDouble(op, s, i, r) = native_fsub(s, i, r)
    BY <1>3 DEF EmitDouble
  <2>3. floating_subtract_double(s, i, r) = native_fsub(s, i, r) /\ Sound(s, native_fsub(s, i, r))
    BY <1>1, SubtractsAgree
  <2>. QED BY <2>1, <2>2, <2>3, Zenon
<1>4. CASE op = "fmul"
  <2>1. Interpreted(op, s, i, r) = floating_multiply_double(s, i, r)
    BY <1>4 DEF Interpreted
  <2>2. EmitDouble(op, s, i, r) = native_fmul(s, i, r)
    BY <1>4 DEF EmitDouble
  <2>3. floating_multiply_double(s, i, r) = native_fmul(s, i, r) /\ Sound(s, native_fmul(s, i, r))
    BY <1>1, MultipliesAgree
  <2>. QED BY <2>1, <2>2, <2>3, Zenon
<1>5. CASE op = "fdiv"
  <2>1. Interpreted(op, s, i, r) = floating_divide_double(s, i, r)
    BY <1>5 DEF Interpreted
  <2>2. EmitDouble(op, s, i, r) = native_fdiv(s, i, r)
    BY <1>5 DEF EmitDouble
  <2>3. floating_divide_double(s, i, r) = native_fdiv(s, i, r) /\ Sound(s, native_fdiv(s, i, r))
    BY <1>1, DividesAgree
  <2>. QED BY <2>1, <2>2, <2>3, Zenon
<1>6. CASE op = "fmadd"
  <2>1. Interpreted(op, s, i, r) = floating_multiply_add_double(s, i, r)
    BY <1>6 DEF Interpreted
  <2>2. EmitDouble(op, s, i, r) = native_fmadd(s, i, r)
    BY <1>6 DEF EmitDouble
  <2>3. floating_multiply_add_double(s, i, r) = native_fmadd(s, i, r) /\ Sound(s, native_fmadd(s, i, r))
    BY <1>1, MultiplyAddsAgree
  <2>. QED BY <2>1, <2>2, <2>3, Zenon
<1>7. CASE op = "fmsub"
  <2>1. Interpreted(op, s, i, r) = floating_multiply_subtract_double(s, i, r)
    BY <1>7 DEF Interpreted
  <2>2. EmitDouble(op, s, i, r) = native_fmsub(s, i, r)
    BY <1>7 DEF EmitDouble
  <2>3. floating_multiply_subtract_double(s, i, r) = native_fmsub(s, i, r) /\ Sound(s, native_fmsub(s, i, r))
    BY <1>1, MultiplySubtractsAgree
  <2>. QED BY <2>1, <2>2, <2>3, Zenon
<1>8. CASE op = "fnmadd"
  <2>1. Interpreted(op, s, i, r) = floating_negative_multiply_add_double(s, i, r)
    BY <1>8 DEF Interpreted
  <2>2. EmitDouble(op, s, i, r) = native_fnmadd(s, i, r)
    BY <1>8 DEF EmitDouble
  <2>3. floating_negative_multiply_add_double(s, i, r) = native_fnmadd(s, i, r) /\ Sound(s, native_fnmadd(s, i, r))
    BY <1>1, NegativeMultiplyAddsAgree
  <2>. QED BY <2>1, <2>2, <2>3, Zenon
<1>9. CASE op = "fnmsub"
  <2>1. Interpreted(op, s, i, r) = floating_negative_multiply_subtract_double(s, i, r)
    BY <1>9 DEF Interpreted
  <2>2. EmitDouble(op, s, i, r) = native_fnmsub(s, i, r)
    BY <1>9 DEF EmitDouble
  <2>3. floating_negative_multiply_subtract_double(s, i, r) = native_fnmsub(s, i, r) /\ Sound(s, native_fnmsub(s, i, r))
    BY <1>1, NegativeMultiplySubtractsAgree
  <2>. QED BY <2>1, <2>2, <2>3, Zenon
<1>. QED BY <1>2, <1>3, <1>4, <1>5, <1>6, <1>7, <1>8, <1>9 DEF Doubles

\* Single-precision arithmetic.
LEMMA SinglesAgree ==
  ASSUME NEW s, IsState(s), NEW op \in Singles, NEW i \in Aliased, NEW r, IsOutcome(r)
  PROVE  Interpreted(op, s, i, r) = EmitSingle(op, s, i, r) /\ Sound(s, EmitSingle(op, s, i, r))
<1>1. IsInsn(i) /\ i.truncate = FALSE /\ i.scalar = 2
  BY DecodedInsn
<1>2. CASE op = "fadds"
  <2>1. Interpreted(op, s, i, r) = floating_add_single(s, i, r)
    BY <1>2 DEF Interpreted
  <2>2. EmitSingle(op, s, i, r) = native_fadds(s, i, r)
    BY <1>2 DEF EmitSingle
  <2>3. floating_add_single(s, i, r) = native_fadds(s, i, r) /\ Sound(s, native_fadds(s, i, r))
    BY <1>1, SingleAddsAgree
  <2>. QED BY <2>1, <2>2, <2>3, Zenon
<1>3. CASE op = "fsubs"
  <2>1. Interpreted(op, s, i, r) = floating_subtract_single(s, i, r)
    BY <1>3 DEF Interpreted
  <2>2. EmitSingle(op, s, i, r) = native_fsubs(s, i, r)
    BY <1>3 DEF EmitSingle
  <2>3. floating_subtract_single(s, i, r) = native_fsubs(s, i, r) /\ Sound(s, native_fsubs(s, i, r))
    BY <1>1, SingleSubtractsAgree
  <2>. QED BY <2>1, <2>2, <2>3, Zenon
<1>4. CASE op = "fmuls"
  <2>1. Interpreted(op, s, i, r) = floating_multiply_single(s, i, r)
    BY <1>4 DEF Interpreted
  <2>2. EmitSingle(op, s, i, r) = native_fmuls(s, i, r)
    BY <1>4 DEF EmitSingle
  <2>3. floating_multiply_single(s, i, r) = native_fmuls(s, i, r) /\ Sound(s, native_fmuls(s, i, r))
    BY <1>1, SingleMultipliesAgree
  <2>. QED BY <2>1, <2>2, <2>3, Zenon
<1>5. CASE op = "fdivs"
  <2>1. Interpreted(op, s, i, r) = floating_divide_single(s, i, r)
    BY <1>5 DEF Interpreted
  <2>2. EmitSingle(op, s, i, r) = native_fdivs(s, i, r)
    BY <1>5 DEF EmitSingle
  <2>3. floating_divide_single(s, i, r) = native_fdivs(s, i, r) /\ Sound(s, native_fdivs(s, i, r))
    BY <1>1, SingleDividesAgree
  <2>. QED BY <2>1, <2>2, <2>3, Zenon
<1>6. CASE op = "fmadds"
  <2>1. Interpreted(op, s, i, r) = floating_multiply_add_single(s, i, r)
    BY <1>6 DEF Interpreted
  <2>2. EmitSingle(op, s, i, r) = native_fmadds(s, i, r)
    BY <1>6 DEF EmitSingle
  <2>3. floating_multiply_add_single(s, i, r) = native_fmadds(s, i, r) /\ Sound(s, native_fmadds(s, i, r))
    BY <1>1, SingleMultiplyAddsAgree
  <2>. QED BY <2>1, <2>2, <2>3, Zenon
<1>7. CASE op = "fmsubs"
  <2>. DEFINE subtract == op \in {"fmsubs", "fnmsubs"}
              negate == op \in {"fnmsubs", "fnmadds"}
  <2>1. Interpreted(op, s, i, r) = floating_multiply_subtract_single(s, i, r)
    BY <1>7 DEF Interpreted
  <2>2. EmitSingle(op, s, i, r) = native_fnmsubs(s, i, subtract, negate, r)
    BY <1>7 DEF EmitSingle
  <2>3. subtract = TRUE /\ negate = FALSE
    BY <1>7
  <2>. HIDE DEF subtract, negate
  <2>4. EmitSingle(op, s, i, r) = native_fnmsubs(s, i, TRUE, FALSE, r)
    BY <2>2, <2>3, Zenon
  <2>5. floating_multiply_subtract_single(s, i, r) = native_fnmsubs(s, i, TRUE, FALSE, r) /\ Sound(s, native_fnmsubs(s, i, TRUE, FALSE, r))
    BY <1>1, SingleMultiplySubtractsAgree
  <2>. QED BY <2>1, <2>4, <2>5, Zenon
<1>8. CASE op = "fnmadds"
  <2>. DEFINE subtract == op \in {"fmsubs", "fnmsubs"}
              negate == op \in {"fnmsubs", "fnmadds"}
  <2>1. Interpreted(op, s, i, r) = floating_negative_multiply_add_single(s, i, r)
    BY <1>8 DEF Interpreted
  <2>2. EmitSingle(op, s, i, r) = native_fnmsubs(s, i, subtract, negate, r)
    BY <1>8 DEF EmitSingle
  <2>3. subtract = FALSE /\ negate = TRUE
    BY <1>8
  <2>. HIDE DEF subtract, negate
  <2>4. EmitSingle(op, s, i, r) = native_fnmsubs(s, i, FALSE, TRUE, r)
    BY <2>2, <2>3, Zenon
  <2>5. floating_negative_multiply_add_single(s, i, r) = native_fnmsubs(s, i, FALSE, TRUE, r) /\ Sound(s, native_fnmsubs(s, i, FALSE, TRUE, r))
    BY <1>1, SingleNegativeMultiplyAddsAgree
  <2>. QED BY <2>1, <2>4, <2>5, Zenon
<1>9. CASE op = "fnmsubs"
  <2>. DEFINE subtract == op \in {"fmsubs", "fnmsubs"}
              negate == op \in {"fnmsubs", "fnmadds"}
  <2>1. Interpreted(op, s, i, r) = floating_negative_multiply_subtract_single(s, i, r)
    BY <1>9 DEF Interpreted
  <2>2. EmitSingle(op, s, i, r) = native_fnmsubs(s, i, subtract, negate, r)
    BY <1>9 DEF EmitSingle
  <2>3. subtract = TRUE /\ negate = TRUE
    BY <1>9
  <2>. HIDE DEF subtract, negate
  <2>4. EmitSingle(op, s, i, r) = native_fnmsubs(s, i, TRUE, TRUE, r)
    BY <2>2, <2>3, Zenon
  <2>5. floating_negative_multiply_subtract_single(s, i, r) = native_fnmsubs(s, i, TRUE, TRUE, r) /\ Sound(s, native_fnmsubs(s, i, TRUE, TRUE, r))
    BY <1>1, SingleNegativeMultiplySubtractsAgree
  <2>. QED BY <2>1, <2>4, <2>5, Zenon
<1>. QED BY <1>2, <1>3, <1>4, <1>5, <1>6, <1>7, <1>8, <1>9 DEF Singles

\* Conversions, selections and estimates.
LEMMA ConversionStepsAgree ==
  ASSUME NEW s, IsState(s), NEW op \in Conversions, NEW i \in Aliased, NEW r, IsOutcome(r)
  PROVE  Interpreted(op, s, i, r) = EmitConversion(op, s, i, r) /\ Sound(s, EmitConversion(op, s, i, r))
<1>1. IsInsn(i) /\ i.truncate = FALSE /\ i.scalar = 2
  BY DecodedInsn
<1>2. CASE op = "fctiw"
  <2>1. Interpreted(op, s, i, r) = floating_convert_to_integer_word(s, i, r)
    BY <1>2 DEF Interpreted
  <2>2. EmitConversion(op, s, i, r) = native_fctiw(s, [i EXCEPT !.truncate = FALSE], r)
    BY <1>2 DEF EmitConversion
  <2>3. [i EXCEPT !.truncate = FALSE] = i
    BY DecodedInsn
  <2>4. i.truncate \in BOOLEAN
    BY <1>1
  <2>5. floating_convert_to_integer_word(s, i, r) = native_fctiw(s, i, r) /\ Sound(s, native_fctiw(s, i, r))
    BY <1>1, <2>4, ConversionsAgree
  <2>. QED BY <2>1, <2>2, <2>3, <2>5, Zenon
<1>3. CASE op = "fctiwz"
  <2>. DEFINE k == [i EXCEPT !.truncate = TRUE]
  <2>1. Interpreted(op, s, i, r) = floating_convert_to_integer_word(s, k, r)
    BY <1>3 DEF Interpreted
  <2>2. EmitConversion(op, s, i, r) = native_fctiw(s, k, r)
    BY <1>3 DEF EmitConversion
  <2>3. IsInsn(k) /\ k.truncate = TRUE
    BY DecodedInsn
  <2>. HIDE DEF k
  <2>4. k.truncate \in BOOLEAN
    BY <2>3
  <2>5. floating_convert_to_integer_word(s, k, r) = native_fctiw(s, k, r) /\ Sound(s, native_fctiw(s, k, r))
    BY <2>3, <2>4, ConversionsAgree
  <2>. QED BY <2>1, <2>2, <2>5, Zenon
<1>4. CASE op = "fsel"
  <2>1. Interpreted(op, s, i, r) = floating_select(s, i)
    BY <1>4 DEF Interpreted
  <2>2. EmitConversion(op, s, i, r) = native_fsel(s, i)
    BY <1>4 DEF EmitConversion
  <2>3. floating_select(s, i) = native_fsel(s, i) /\ Sound(s, native_fsel(s, i))
    BY <1>1, SelectsAgree
  <2>. QED BY <2>1, <2>2, <2>3, Zenon
<1>5. CASE op = "frsp"
  <2>1. Interpreted(op, s, i, r) = floating_round_to_single(s, i, r)
    BY <1>5 DEF Interpreted
  <2>2. EmitConversion(op, s, i, r) = native_frsp(s, i, r)
    BY <1>5 DEF EmitConversion
  <2>3. floating_round_to_single(s, i, r) = native_frsp(s, i, r) /\ Sound(s, native_frsp(s, i, r))
    BY <1>1, RoundsAgree
  <2>. QED BY <2>1, <2>2, <2>3, Zenon
<1>6. CASE op = "frsqrte"
  <2>1. Interpreted(op, s, i, r) = floating_reciprocal_square_root_estimate(s, i, r)
    BY <1>6 DEF Interpreted
  <2>2. EmitConversion(op, s, i, r) = native_frsqrte(s, i, r)
    BY <1>6 DEF EmitConversion
  <2>3. floating_reciprocal_square_root_estimate(s, i, r) = native_frsqrte(s, i, r) /\ Sound(s, native_frsqrte(s, i, r))
    BY <1>1, RootsAgree
  <2>. QED BY <2>1, <2>2, <2>3, Zenon
<1>7. CASE op = "fres"
  <2>1. Interpreted(op, s, i, r) = floating_reciprocal_estimate_single(s, i, r)
    BY <1>7 DEF Interpreted
  <2>2. EmitConversion(op, s, i, r) = native_fres(s, i, r)
    BY <1>7 DEF EmitConversion
  <2>3. floating_reciprocal_estimate_single(s, i, r) = native_fres(s, i, r) /\ Sound(s, native_fres(s, i, r))
    BY <1>1, ReciprocalsAgree
  <2>. QED BY <2>1, <2>2, <2>3, Zenon
<1>. QED BY <1>2, <1>3, <1>4, <1>5, <1>6, <1>7 DEF Conversions

\* Sums, selections and estimates of pairs.
LEMMA PairedHelpersAgree ==
  ASSUME NEW s, IsState(s), NEW op \in PairedHelpers, NEW i \in Aliased, NEW r, IsOutcome(r)
  PROVE  InterpretedPair(op, s, i, r) = EmitPairedHelper(op, s, i, r) /\ Sound(s, EmitPairedHelper(op, s, i, r))
<1>1. IsInsn(i) /\ i.truncate = FALSE /\ i.scalar = 2
  BY DecodedInsn
<1>2. CASE op = "ps_sum0"
  <2>. DEFINE k == [i EXCEPT !.scalar = 0]
  <2>1. InterpretedPair(op, s, i, r) = paired_single_sum(s, k, r)
    BY <1>2 DEF InterpretedPair
  <2>2. EmitPairedHelper(op, s, i, r) = native_ps_sum(s, i, TRUE, r)
    BY <1>2 DEF EmitPairedHelper
  <2>3. IsInsn(k) /\ SameRegisters(k, i) /\ k.scalar = 0
    BY DecodedFlags
  <2>. HIDE DEF k
  <2>4. paired_single_sum(s, k, r) = native_ps_sum(s, i, TRUE, r) /\ Sound(s, native_ps_sum(s, i, TRUE, r))
    BY <2>3, FirstSumsAgree
  <2>. QED BY <2>1, <2>2, <2>4, Zenon
<1>3. CASE op = "ps_sum1"
  <2>. DEFINE k == [i EXCEPT !.scalar = 1]
  <2>1. InterpretedPair(op, s, i, r) = paired_single_sum(s, k, r)
    BY <1>3 DEF InterpretedPair
  <2>2. EmitPairedHelper(op, s, i, r) = native_ps_sum(s, i, FALSE, r)
    BY <1>3 DEF EmitPairedHelper
  <2>3. IsInsn(k) /\ SameRegisters(k, i) /\ k.scalar = 1
    BY DecodedFlags
  <2>. HIDE DEF k
  <2>4. paired_single_sum(s, k, r) = native_ps_sum(s, i, FALSE, r) /\ Sound(s, native_ps_sum(s, i, FALSE, r))
    BY <2>3, SecondSumsAgree
  <2>. QED BY <2>1, <2>2, <2>4, Zenon
<1>4. CASE op = "ps_sel"
  <2>1. InterpretedPair(op, s, i, r) = paired_single_select(s, i)
    BY <1>4 DEF InterpretedPair
  <2>2. EmitPairedHelper(op, s, i, r) = native_ps_select(s, i)
    BY <1>4 DEF EmitPairedHelper
  <2>3. paired_single_select(s, i) = native_ps_select(s, i) /\ Sound(s, native_ps_select(s, i))
    BY <1>1, PairSelectsAgree
  <2>. QED BY <2>1, <2>2, <2>3, Zenon
<1>5. CASE op = "ps_res"
  <2>1. InterpretedPair(op, s, i, r) = paired_single_reciprocal_estimate(s, i, r)
    BY <1>5 DEF InterpretedPair
  <2>2. EmitPairedHelper(op, s, i, r) = native_ps_res(s, i, r)
    BY <1>5 DEF EmitPairedHelper
  <2>3. paired_single_reciprocal_estimate(s, i, r) = native_ps_res(s, i, r) /\ Sound(s, native_ps_res(s, i, r))
    BY <1>1, PairReciprocalsAgree
  <2>. QED BY <2>1, <2>2, <2>3, Zenon
<1>6. CASE op = "ps_rsqrte"
  <2>1. InterpretedPair(op, s, i, r) = paired_single_reciprocal_square_root_estimate(s, i, r)
    BY <1>6 DEF InterpretedPair
  <2>2. EmitPairedHelper(op, s, i, r) = native_ps_rsqrte(s, i, r)
    BY <1>6 DEF EmitPairedHelper
  <2>3. paired_single_reciprocal_square_root_estimate(s, i, r) = native_ps_rsqrte(s, i, r) /\ Sound(s, native_ps_rsqrte(s, i, r))
    BY <1>1, PairRootsAgree
  <2>. QED BY <2>1, <2>2, <2>3, Zenon
<1>7. CASE op = "ps_sub"
  <2>1. InterpretedPair(op, s, i, r) = paired_single_subtract(s, i, r)
    BY <1>7 DEF InterpretedPair
  <2>2. EmitPairedHelper(op, s, i, r) = native_ps_sub(s, i, r)
    BY <1>7 DEF EmitPairedHelper
  <2>3. paired_single_subtract(s, i, r) = native_ps_sub(s, i, r) /\ Sound(s, native_ps_sub(s, i, r))
    BY <1>1, PairSubtractsAgree
  <2>. QED BY <2>1, <2>2, <2>3, Zenon
<1>. QED BY <1>2, <1>3, <1>4, <1>5, <1>6, <1>7 DEF PairedHelpers

\* Products and quotients of pairs.
LEMMA PairedProductsAgree ==
  ASSUME NEW s, IsState(s), NEW op \in PairedProducts, NEW i \in Aliased, NEW r, IsOutcome(r)
  PROVE  InterpretedPair(op, s, i, r) = EmitPairedProduct(op, s, i, r) /\ Sound(s, EmitPairedProduct(op, s, i, r))
<1>1. IsInsn(i) /\ i.truncate = FALSE /\ i.scalar = 2
  BY DecodedInsn
<1>2. CASE op = "ps_div"
  <2>1. InterpretedPair(op, s, i, r) = paired_single_divide(s, i, r)
    BY <1>2 DEF InterpretedPair
  <2>2. EmitPairedProduct(op, s, i, r) = native_ps_div(s, i, r)
    BY <1>2 DEF EmitPairedProduct
  <2>3. paired_single_divide(s, i, r) = native_ps_div(s, i, r) /\ Sound(s, native_ps_div(s, i, r))
    BY <1>1, PairDividesAgree
  <2>. QED BY <2>1, <2>2, <2>3, Zenon
<1>3. CASE op = "ps_add"
  <2>1. InterpretedPair(op, s, i, r) = paired_single_add(s, i, r)
    BY <1>3 DEF InterpretedPair
  <2>2. EmitPairedProduct(op, s, i, r) = native_ps_add(s, i, r)
    BY <1>3 DEF EmitPairedProduct
  <2>3. paired_single_add(s, i, r) = native_ps_add(s, i, r) /\ Sound(s, native_ps_add(s, i, r))
    BY <1>1, PairAddsAgree
  <2>. QED BY <2>1, <2>2, <2>3, Zenon
<1>4. CASE op = "ps_mul"
  <2>1. InterpretedPair(op, s, i, r) = paired_single_multiply(s, i, r)
    BY <1>4 DEF InterpretedPair
  <2>2. EmitPairedProduct(op, s, i, r) = native_ps_mul(s, i, r)
    BY <1>4 DEF EmitPairedProduct
  <2>3. paired_single_multiply(s, i, r) = native_ps_mul(s, i, r) /\ Sound(s, native_ps_mul(s, i, r))
    BY <1>1, PairMultipliesAgree
  <2>. QED BY <2>1, <2>2, <2>3, Zenon
<1>5. CASE op = "ps_muls0"
  <2>. DEFINE k == [i EXCEPT !.scalar = 0]
              x == op = "ps_muls1"
  <2>1. InterpretedPair(op, s, i, r) = paired_single_multiply(s, k, r)
    BY <1>5 DEF InterpretedPair
  <2>2. EmitPairedProduct(op, s, i, r) = native_ps_muls(s, i, x, r)
    BY <1>5 DEF EmitPairedProduct
  <2>3. x = FALSE
    BY <1>5
  <2>4. IsInsn(k) /\ SameRegisters(k, i) /\ k.scalar = 0
    BY DecodedFlags
  <2>. HIDE DEF k, x
  <2>5. paired_single_multiply(s, k, r) = native_ps_muls(s, i, FALSE, r) /\ Sound(s, native_ps_muls(s, i, FALSE, r))
    BY <2>4, FirstScalarMultipliesAgree
  <2>. QED BY <2>1, <2>2, <2>3, <2>5, Zenon
<1>6. CASE op = "ps_muls1"
  <2>. DEFINE k == [i EXCEPT !.scalar = 1]
              x == op = "ps_muls1"
  <2>1. InterpretedPair(op, s, i, r) = paired_single_multiply(s, k, r)
    BY <1>6 DEF InterpretedPair
  <2>2. EmitPairedProduct(op, s, i, r) = native_ps_muls(s, i, x, r)
    BY <1>6 DEF EmitPairedProduct
  <2>3. x = TRUE
    BY <1>6
  <2>4. IsInsn(k) /\ SameRegisters(k, i) /\ k.scalar = 1
    BY DecodedFlags
  <2>. HIDE DEF k, x
  <2>5. paired_single_multiply(s, k, r) = native_ps_muls(s, i, TRUE, r) /\ Sound(s, native_ps_muls(s, i, TRUE, r))
    BY <2>4, SecondScalarMultipliesAgree
  <2>. QED BY <2>1, <2>2, <2>3, <2>5, Zenon
<1>7. CASE op = "ps_madds0"
  <2>. DEFINE k == [i EXCEPT !.scalar = 0]
              x == op = "ps_madds1"
  <2>1. InterpretedPair(op, s, i, r) = paired_single_multiply_add_scalar(s, k, r)
    BY <1>7 DEF InterpretedPair
  <2>2. EmitPairedProduct(op, s, i, r) = native_ps_madds(s, i, x, r)
    BY <1>7 DEF EmitPairedProduct
  <2>3. x = FALSE
    BY <1>7
  <2>4. IsInsn(k) /\ SameRegisters(k, i) /\ k.scalar = 0 /\ k.negate = FALSE
    BY DecodedFlags
  <2>. HIDE DEF k, x
  <2>5. paired_single_multiply_add_scalar(s, k, r) = native_ps_madds(s, i, FALSE, r) /\ Sound(s, native_ps_madds(s, i, FALSE, r))
    BY <2>4, FirstScalarMultiplyAddsAgree
  <2>. QED BY <2>1, <2>2, <2>3, <2>5, Zenon
<1>8. CASE op = "ps_madds1"
  <2>. DEFINE k == [i EXCEPT !.scalar = 1]
              x == op = "ps_madds1"
  <2>1. InterpretedPair(op, s, i, r) = paired_single_multiply_add_scalar(s, k, r)
    BY <1>8 DEF InterpretedPair
  <2>2. EmitPairedProduct(op, s, i, r) = native_ps_madds(s, i, x, r)
    BY <1>8 DEF EmitPairedProduct
  <2>3. x = TRUE
    BY <1>8
  <2>4. IsInsn(k) /\ SameRegisters(k, i) /\ k.scalar = 1 /\ k.negate = FALSE
    BY DecodedFlags
  <2>. HIDE DEF k, x
  <2>5. paired_single_multiply_add_scalar(s, k, r) = native_ps_madds(s, i, TRUE, r) /\ Sound(s, native_ps_madds(s, i, TRUE, r))
    BY <2>4, SecondScalarMultiplyAddsAgree
  <2>. QED BY <2>1, <2>2, <2>3, <2>5, Zenon
<1>9. CASE op = "ps_madd"
  <2>1. InterpretedPair(op, s, i, r) = paired_single_multiply_add(s, i, r)
    BY <1>9 DEF InterpretedPair
  <2>2. EmitPairedProduct(op, s, i, r) = native_ps_madd(s, i, r)
    BY <1>9 DEF EmitPairedProduct
  <2>3. paired_single_multiply_add(s, i, r) = native_ps_madd(s, i, r) /\ Sound(s, native_ps_madd(s, i, r))
    BY <1>1, PairMultiplyAddsAgree
  <2>. QED BY <2>1, <2>2, <2>3, Zenon
<1>10. CASE op = "ps_msub"
  <2>1. InterpretedPair(op, s, i, r) = paired_single_multiply_subtract(s, i, r)
    BY <1>10 DEF InterpretedPair
  <2>2. EmitPairedProduct(op, s, i, r) = native_ps_msub(s, i, r)
    BY <1>10 DEF EmitPairedProduct
  <2>3. paired_single_multiply_subtract(s, i, r) = native_ps_msub(s, i, r) /\ Sound(s, native_ps_msub(s, i, r))
    BY <1>1, PairMultiplySubtractsAgree
  <2>. QED BY <2>1, <2>2, <2>3, Zenon
<1>11. CASE op = "ps_nmadd"
  <2>. DEFINE k == [i EXCEPT !.negate = TRUE]
              x == op = "ps_nmsub"
  <2>1. InterpretedPair(op, s, i, r) = paired_single_multiply_add_scalar(s, k, r)
    BY <1>11 DEF InterpretedPair
  <2>2. EmitPairedProduct(op, s, i, r) = native_ps_nmadd(s, i, x, r)
    BY <1>11 DEF EmitPairedProduct
  <2>3. x = FALSE
    BY <1>11
  <2>4. IsInsn(k) /\ SameRegisters(k, i) /\ k.negate = TRUE /\ k.subtract = FALSE
    BY DecodedFlags
  <2>. HIDE DEF k, x
  <2>5. paired_single_multiply_add_scalar(s, k, r) = native_ps_nmadd(s, i, FALSE, r) /\ Sound(s, native_ps_nmadd(s, i, FALSE, r))
    BY <2>4, NegativePairAddsAgree
  <2>. QED BY <2>1, <2>2, <2>3, <2>5, Zenon
<1>12. CASE op = "ps_nmsub"
  <2>. DEFINE k == [i EXCEPT !.negate = TRUE, !.subtract = TRUE]
              x == op = "ps_nmsub"
  <2>1. InterpretedPair(op, s, i, r) = paired_single_multiply_add_scalar(s, k, r)
    BY <1>12 DEF InterpretedPair
  <2>2. EmitPairedProduct(op, s, i, r) = native_ps_nmadd(s, i, x, r)
    BY <1>12 DEF EmitPairedProduct
  <2>3. x = TRUE
    BY <1>12
  <2>4. IsInsn(k) /\ SameRegisters(k, i) /\ k.negate = TRUE /\ k.subtract = TRUE
    BY DecodedSubtraction
  <2>. HIDE DEF k, x
  <2>5. paired_single_multiply_add_scalar(s, k, r) = native_ps_nmadd(s, i, TRUE, r) /\ Sound(s, native_ps_nmadd(s, i, TRUE, r))
    BY <2>4, NegativePairSubtractsAgree
  <2>. QED BY <2>1, <2>2, <2>3, <2>5, Zenon
<1>. QED BY <1>2, <1>3, <1>4, <1>5, <1>6, <1>7, <1>8, <1>9, <1>10, <1>11, <1>12 DEF PairedProducts

\* Moves of pairs.
LEMMA PairedMovesAgree ==
  ASSUME NEW s, IsState(s), NEW op \in PairedMoves, NEW i, IsInsn(i), i.merge \in {"00", "01", "10", "11"}
  PROVE  InterpretedPairMove(op, s, i) = EmitPairedMove(op, s, i) /\ Sound(s, EmitPairedMove(op, s, i))
<1>1. CASE op = "ps_merge"
  <2>1. InterpretedPairMove(op, s, i) = paired_single_merge(s, i)
    BY <1>1 DEF InterpretedPairMove
  <2>2. EmitPairedMove(op, s, i) = EmittedMerge(s, i)
    BY <1>1 DEF EmitPairedMove
  <2>3. paired_single_merge(s, i) = EmittedMerge(s, i) /\ Sound(s, EmittedMerge(s, i))
    BY MergesAgree
  <2>. QED BY <2>1, <2>2, <2>3, Zenon
<1>2. CASE op = "ps_mr"
  <2>1. InterpretedPairMove(op, s, i) = paired_single_move_register(s, i)
    BY <1>2 DEF InterpretedPairMove
  <2>2. EmitPairedMove(op, s, i) = EmittedPairMove(s, i)
    BY <1>2 DEF EmitPairedMove
  <2>3. paired_single_move_register(s, i) = EmittedPairMove(s, i) /\ Sound(s, EmittedPairMove(s, i))
    BY PairMovesAgree
  <2>. QED BY <2>1, <2>2, <2>3, Zenon
<1>3. CASE op = "ps_abs"
  <2>1. InterpretedPairMove(op, s, i) = paired_single_absolute_value(s, i)
    BY <1>3 DEF InterpretedPairMove
  <2>2. EmitPairedMove(op, s, i) = EmittedPairAbs(s, i)
    BY <1>3 DEF EmitPairedMove
  <2>3. paired_single_absolute_value(s, i) = EmittedPairAbs(s, i) /\ Sound(s, EmittedPairAbs(s, i))
    BY PairAbsolutesAgree
  <2>. QED BY <2>1, <2>2, <2>3, Zenon
<1>4. CASE op = "ps_nabs"
  <2>1. InterpretedPairMove(op, s, i) = paired_single_negative_absolute_value(s, i)
    BY <1>4 DEF InterpretedPairMove
  <2>2. EmitPairedMove(op, s, i) = EmittedPairNabs(s, i)
    BY <1>4 DEF EmitPairedMove
  <2>3. paired_single_negative_absolute_value(s, i) = EmittedPairNabs(s, i) /\ Sound(s, EmittedPairNabs(s, i))
    BY PairNegativeAbsolutesAgree
  <2>. QED BY <2>1, <2>2, <2>3, Zenon
<1>5. CASE op = "ps_neg"
  <2>1. InterpretedPairMove(op, s, i) = paired_single_negate(s, i)
    BY <1>5 DEF InterpretedPairMove
  <2>2. EmitPairedMove(op, s, i) = EmittedPairNeg(s, i)
    BY <1>5 DEF EmitPairedMove
  <2>3. paired_single_negate(s, i) = EmittedPairNeg(s, i) /\ Sound(s, EmittedPairNeg(s, i))
    BY PairNegatesAgree
  <2>. QED BY <2>1, <2>2, <2>3, Zenon
<1>. QED BY <1>1, <1>2, <1>3, <1>4, <1>5 DEF PairedMoves

\* Moves to and from the FPSCR, which may set an exception bit and write a register.
LEMMA FpscrMovesAgree ==
  ASSUME NEW s, IsState(s), NEW op \in FpscrMoves, NEW i, IsInsn(i), i.field \in 1..8,
         i.fields \subseteq 1..8, i.set \in BOOLEAN
  PROVE  InterpretedFpscr(op, s, i) = EmitFpscrMove(op, s, i) /\ IsState(EmitFpscrMove(op, s, i))
<1>1. CASE op = "mcrfs"
  <2>1. InterpretedFpscr(op, s, i) = move_condition_register_from_fpscr(s, i)
    BY <1>1 DEF InterpretedFpscr
  <2>2. EmitFpscrMove(op, s, i) = EmittedMcrfs(s, i)
    BY <1>1 DEF EmitFpscrMove
  <2>3. move_condition_register_from_fpscr(s, i) = EmittedMcrfs(s, i) /\ IsState(EmittedMcrfs(s, i))
    BY ConditionMovesAgree
  <2>. QED BY <2>1, <2>2, <2>3, Zenon
<1>2. CASE op = "mffs"
  <2>1. InterpretedFpscr(op, s, i) = floating_move_from_fpscr(s, i)
    BY <1>2 DEF InterpretedFpscr
  <2>2. EmitFpscrMove(op, s, i) = EmittedMffs(s, i)
    BY <1>2 DEF EmitFpscrMove
  <2>3. floating_move_from_fpscr(s, i) = EmittedMffs(s, i) /\ IsState(EmittedMffs(s, i))
    BY StatusReadsAgree
  <2>. QED BY <2>1, <2>2, <2>3, Zenon
<1>3. CASE op = "mtfsb"
  <2>1. InterpretedFpscr(op, s, i) = floating_move_to_fpscr_bit(s, i)
    BY <1>3 DEF InterpretedFpscr
  <2>2. EmitFpscrMove(op, s, i) = EmittedMtfsb(s, i)
    BY <1>3 DEF EmitFpscrMove
  <2>3. floating_move_to_fpscr_bit(s, i) = EmittedMtfsb(s, i) /\ IsState(EmittedMtfsb(s, i))
    BY BitMovesAgree
  <2>. QED BY <2>1, <2>2, <2>3, Zenon
<1>4. CASE op = "mtfsfi"
  <2>1. InterpretedFpscr(op, s, i) = floating_move_to_fpscr_field_immediate(s, i)
    BY <1>4 DEF InterpretedFpscr
  <2>2. EmitFpscrMove(op, s, i) = EmittedMtfsfi(s, i)
    BY <1>4 DEF EmitFpscrMove
  <2>3. floating_move_to_fpscr_field_immediate(s, i) = EmittedMtfsfi(s, i) /\ IsState(EmittedMtfsfi(s, i))
    BY ImmediatesAgree
  <2>. QED BY <2>1, <2>2, <2>3, Zenon
<1>5. CASE op = "mtfsf"
  <2>1. InterpretedFpscr(op, s, i) = floating_move_to_fpscr_fields(s, i)
    BY <1>5 DEF InterpretedFpscr
  <2>2. EmitFpscrMove(op, s, i) = EmittedMtfsf(s, i)
    BY <1>5 DEF EmitFpscrMove
  <2>3. floating_move_to_fpscr_fields(s, i) = EmittedMtfsf(s, i) /\ IsState(EmittedMtfsf(s, i))
    BY FieldMovesAgree
  <2>. QED BY <2>1, <2>2, <2>3, Zenon
<1>. QED BY <1>1, <1>2, <1>3, <1>4, <1>5 DEF FpscrMoves

----------------------------------------------------------------------------
(* The specification.                                                       *)

Opcodes == Doubles \cup Singles \cup Conversions \cup LowMoves \cup PairedHelpers
             \cup PairedProducts \cup PairedMoves \cup FpscrMoves \cup {"fcmp"}

\* The inductive invariant: the two engines' states are one machine state whose
\* registers hold values and whose summaries follow.
Agreement ==
  /\ native = interpreter
  /\ IsState(interpreter)
  /\ executed \in Seq(Opcodes)

LEMMA StartState ==
  ASSUME NEW f, NEW x, NEW y, NEW z, IsValue(x), IsValue(y), IsValue(z)
  PROVE  IsState(Start(f, x, y, z))
<1>. DEFINE g == update_fpscr_summaries(f)
            a == Labelled("a", x)
            b == Labelled("b", y)
            c == Labelled("c", z)
            a1 == Labelled("a1", y)
            b1 == Labelled("b1", z)
            c1 == Labelled("c1", x)
            low == <<a, b, c, DefaultNan>>
            high == <<a1, b1, c1, DefaultNan>>
<1>1. IsValue(a) /\ IsValue(b) /\ IsValue(c) /\ IsValue(a1) /\ IsValue(b1) /\ IsValue(c1) /\ IsValue(DefaultNan)
  BY ValueChanged, Constants
<1>2. Summarised(g)
  BY SummariesComputed
<1>3. Start(f, x, y, z) = Built(g, low, high, {})
  BY Zenon DEF Start, Built
<1>. HIDE DEF a, b, c, a1, b1, c1, g
<1>4. ASSUME NEW u, NEW v, NEW w, IsValue(u), IsValue(v), IsValue(w) PROVE IsLanes(<<u, v, w, DefaultNan>>)
  <2>. DEFINE p == <<u, v, w, DefaultNan>>
  <2>1. p = [n \in FloatRegisters |-> p[n]]
    BY DEF FloatRegisters
  <2>2. \A n \in FloatRegisters : n \in {1, 2, 3, 4}
    BY DEF FloatRegisters
  <2>3. \A n \in FloatRegisters : IsValue(p[n])
    BY <1>1, <1>4, <2>2
  <2>. QED BY <2>1, <2>3, Zenon DEF IsLanes
<1>5. IsLanes(low) /\ IsLanes(high)
  BY <1>1, <1>4
<1>. HIDE DEF low, high
<1>. QED BY <1>2, <1>3, <1>5, BuiltState

\* An instruction that leaves the two engines in one sound state keeps the invariant.
LEMMA StepAgrees ==
  ASSUME Agreement, NEW op \in Opcodes, Executes(op), NEW t,
         interpreter' = t, native' = t, IsState(t), op \in FpscrMoves \/ Suppressed(interpreter, t)
  PROVE  Agreement' /\ (LastExecuted \in FpscrMoves \/ Suppressed(interpreter, interpreter'))
<1>1. executed' \in Seq(Opcodes) /\ LastExecuted = op
  BY DEF Agreement, Executes, LastExecuted
<1>. QED BY <1>1 DEF Agreement

LEMMA NextAgrees ==
  Agreement /\ Next => Agreement' /\ (LastExecuted \in FpscrMoves \/ Suppressed(interpreter, interpreter'))
<1>. SUFFICES ASSUME Agreement, Next
              PROVE  Agreement' /\ (LastExecuted \in FpscrMoves \/ Suppressed(interpreter, interpreter'))
  OBVIOUS
<1>. USE FloatAssumption
<1>0. native = interpreter /\ IsState(interpreter) /\ \A r \in Outcomes : IsOutcome(r)
  BY DEF Agreement, IsOutcome
<1>1. CASE DoubleArithmetic
  <2>1. PICK op \in Doubles, i \in Aliased, r \in Outcomes :
          /\ Executes(op)
          /\ interpreter' = Interpreted(op, interpreter, i, r)
          /\ native' = EmitDouble(op, native, i, r)
    BY <1>1 DEF DoubleArithmetic
  <2>. DEFINE s == interpreter
              t == EmitDouble(op, s, i, r)
  <2>2. Interpreted(op, s, i, r) = t /\ Sound(s, t)
    BY <1>0, DoublesAgree
  <2>3. interpreter' = t /\ native' = t
    BY <1>0, <2>1, <2>2, Zenon
  <2>4. IsState(t) /\ Suppressed(interpreter, t) /\ op \in Opcodes
    BY <2>2 DEF Sound, Opcodes
  <2>. HIDE DEF t
  <2>. QED BY <2>1, <2>3, <2>4, StepAgrees
<1>2. CASE SingleArithmetic
  <2>1. PICK op \in Singles, i \in Aliased, r \in Outcomes :
          /\ Executes(op)
          /\ interpreter' = Interpreted(op, interpreter, i, r)
          /\ native' = EmitSingle(op, native, i, r)
    BY <1>2 DEF SingleArithmetic
  <2>. DEFINE s == interpreter
              t == EmitSingle(op, s, i, r)
  <2>2. Interpreted(op, s, i, r) = t /\ Sound(s, t)
    BY <1>0, SinglesAgree
  <2>3. interpreter' = t /\ native' = t
    BY <1>0, <2>1, <2>2, Zenon
  <2>4. IsState(t) /\ Suppressed(interpreter, t) /\ op \in Opcodes
    BY <2>2 DEF Sound, Opcodes
  <2>. HIDE DEF t
  <2>. QED BY <2>1, <2>3, <2>4, StepAgrees
<1>3. CASE Conversion
  <2>1. PICK op \in Conversions, i \in Aliased, r \in Outcomes :
          /\ Executes(op)
          /\ interpreter' = Interpreted(op, interpreter, i, r)
          /\ native' = EmitConversion(op, native, i, r)
    BY <1>3 DEF Conversion
  <2>. DEFINE s == interpreter
              t == EmitConversion(op, s, i, r)
  <2>2. Interpreted(op, s, i, r) = t /\ Sound(s, t)
    BY <1>0, ConversionStepsAgree
  <2>3. interpreter' = t /\ native' = t
    BY <1>0, <2>1, <2>2, Zenon
  <2>4. IsState(t) /\ Suppressed(interpreter, t) /\ op \in Opcodes
    BY <2>2 DEF Sound, Opcodes
  <2>. HIDE DEF t
  <2>. QED BY <2>1, <2>3, <2>4, StepAgrees
<1>4. CASE LowMove
  <2>1. PICK op \in LowMoves, i \in Aliased :
          /\ Executes(op)
          /\ interpreter' = InterpretedMove(op, interpreter, i)
          /\ native' = EmittedMove(native, i, op)
    BY <1>4 DEF LowMove
  <2>. DEFINE s == interpreter
              t == EmittedMove(s, i, op)
  <2>2. InterpretedMove(op, s, i) = t /\ Sound(s, t)
    BY <1>0, DecodedInsn, LowMovesAgree
  <2>3. interpreter' = t /\ native' = t
    BY <1>0, <2>1, <2>2, Zenon
  <2>4. IsState(t) /\ Suppressed(interpreter, t) /\ op \in Opcodes
    BY <2>2 DEF Sound, Opcodes
  <2>. HIDE DEF t
  <2>. QED BY <2>1, <2>3, <2>4, StepAgrees
<1>5. CASE PairArithmetic
  <2>1. PICK op \in PairedHelpers, i \in Aliased, r \in Outcomes :
          /\ Executes(op)
          /\ interpreter' = InterpretedPair(op, interpreter, i, r)
          /\ native' = EmitPairedHelper(op, native, i, r)
    BY <1>5 DEF PairArithmetic
  <2>. DEFINE s == interpreter
              t == EmitPairedHelper(op, s, i, r)
  <2>2. InterpretedPair(op, s, i, r) = t /\ Sound(s, t)
    BY <1>0, PairedHelpersAgree
  <2>3. interpreter' = t /\ native' = t
    BY <1>0, <2>1, <2>2, Zenon
  <2>4. IsState(t) /\ Suppressed(interpreter, t) /\ op \in Opcodes
    BY <2>2 DEF Sound, Opcodes
  <2>. HIDE DEF t
  <2>. QED BY <2>1, <2>3, <2>4, StepAgrees
<1>6. CASE PairProduct
  <2>1. PICK op \in PairedProducts, i \in Aliased, r \in Outcomes :
          /\ Executes(op)
          /\ interpreter' = InterpretedPair(op, interpreter, i, r)
          /\ native' = EmitPairedProduct(op, native, i, r)
    BY <1>6 DEF PairProduct
  <2>. DEFINE s == interpreter
              t == EmitPairedProduct(op, s, i, r)
  <2>2. InterpretedPair(op, s, i, r) = t /\ Sound(s, t)
    BY <1>0, PairedProductsAgree
  <2>3. interpreter' = t /\ native' = t
    BY <1>0, <2>1, <2>2, Zenon
  <2>4. IsState(t) /\ Suppressed(interpreter, t) /\ op \in Opcodes
    BY <2>2 DEF Sound, Opcodes
  <2>. HIDE DEF t
  <2>. QED BY <2>1, <2>3, <2>4, StepAgrees
<1>7. CASE PairMove
  <2>1. PICK op \in PairedMoves, k \in Aliased, merge \in {"00", "01", "10", "11"} :
          /\ Executes(op)
          /\ interpreter' = InterpretedPairMove(op, interpreter, [k EXCEPT !.merge = merge])
          /\ native' = EmitPairedMove(op, native, [k EXCEPT !.merge = merge])
    BY <1>7 DEF PairMove
  <2>. DEFINE s == interpreter
              i == [k EXCEPT !.merge = merge]
              t == EmitPairedMove(op, s, i)
  <2>2. IsInsn(i) /\ i.merge \in {"00", "01", "10", "11"}
    BY DecodedFlags
  <2>3. interpreter' = InterpretedPairMove(op, s, i) /\ native' = t
    BY <1>0, <2>1, Zenon
  <2>. HIDE DEF i
  <2>4. InterpretedPairMove(op, s, i) = t /\ Sound(s, t)
    BY <1>0, <2>2, PairedMovesAgree
  <2>5. IsState(t) /\ Suppressed(interpreter, t) /\ op \in Opcodes
    BY <2>4 DEF Sound, Opcodes
  <2>. HIDE DEF t
  <2>. QED BY <2>1, <2>3, <2>4, <2>5, StepAgrees
<1>8. CASE Compare
  <2>1. PICK lane \in {0, 1}, ordered \in BOOLEAN, order \in {"FL", "FG", "FE"} :
          /\ Executes("fcmp")
          /\ interpreter' = floating_compare(interpreter, [Insn EXCEPT !.lane = lane, !.ordered = ordered],
                                             [order |-> order])
          /\ native' = EmittedCompare(native, [Insn EXCEPT !.lane = lane, !.ordered = ordered],
                                      [order |-> order])
    BY <1>8 DEF Compare
  <2>. DEFINE s == interpreter
              i == [Insn EXCEPT !.lane = lane, !.ordered = ordered]
              r == [order |-> order]
              t == EmittedCompare(s, i, r)
  <2>2. IsInsn(i) /\ i.lane \in {0, 1} /\ i.ordered \in BOOLEAN
    BY DEF Insn, IsInsn, FloatRegisters
  <2>3. r.order \in {"FL", "FG", "FE"}
    OBVIOUS
  <2>4. interpreter' = floating_compare(s, i, r) /\ native' = t
    BY <1>0, <2>1, Zenon
  <2>. HIDE DEF i, r
  <2>5. floating_compare(s, i, r) = t /\ Sound(s, t)
    BY <1>0, <2>2, <2>3, ComparesAgree
  <2>6. IsState(t) /\ Suppressed(interpreter, t) /\ "fcmp" \in Opcodes
    BY <2>5 DEF Sound, Opcodes
  <2>. HIDE DEF t
  <2>. QED BY <2>1, <2>4, <2>5, <2>6, StepAgrees
<1>9. CASE MoveFpscr
  <2>0. PICK op \in FpscrMoves, bits \in FpscrImages, field \in 1..8, set \in BOOLEAN :
          \E bit \in FpscrField[field] :
            LET i == [Insn EXCEPT !.field = field, !.fields = {field, (field % 8) + 1},
                                  !.bit = bit, !.set = set, !.bits = bits] IN
            /\ Executes(op)
            /\ interpreter' = InterpretedFpscr(op, interpreter, i)
            /\ native' = EmitFpscrMove(op, native, i)
    BY <1>9 DEF MoveFpscr
  <2>1. PICK bit \in FpscrField[field] :
          LET i == [Insn EXCEPT !.field = field, !.fields = {field, (field % 8) + 1},
                                !.bit = bit, !.set = set, !.bits = bits] IN
          /\ Executes(op)
          /\ interpreter' = InterpretedFpscr(op, interpreter, i)
          /\ native' = EmitFpscrMove(op, native, i)
    BY <2>0, Zenon
  <2>. DEFINE s == interpreter
              fields == {field, (field % 8) + 1}
              i == [Insn EXCEPT !.field = field, !.fields = fields, !.bit = bit, !.set = set, !.bits = bits]
              t == EmitFpscrMove(op, s, i)
  <2>2. fields \subseteq 1..8
    OBVIOUS
  <2>3. interpreter' = InterpretedFpscr(op, s, i) /\ native' = t
    BY <1>0, <2>1, Zenon
  <2>. HIDE DEF fields
  <2>4. IsInsn(i) /\ i.field \in 1..8 /\ i.fields \subseteq 1..8 /\ i.set \in BOOLEAN
    BY <2>2 DEF Insn, IsInsn, FloatRegisters
  <2>. HIDE DEF i
  <2>5. InterpretedFpscr(op, s, i) = t /\ IsState(t)
    BY <1>0, <2>4, FpscrMovesAgree
  <2>6. op \in Opcodes
    BY DEF Opcodes
  <2>. HIDE DEF t
  <2>. QED BY <2>1, <2>3, <2>5, <2>6, StepAgrees
<1>. QED BY <1>1, <1>2, <1>3, <1>4, <1>5, <1>6, <1>7, <1>8, <1>9 DEF Next

LEMMA AgreementInvariant ==
  Spec => []Agreement
<1>1. Init => Agreement
  <2>. SUFFICES ASSUME Init PROVE Agreement
    OBVIOUS
  <2>1. PICK f \in Modes, x \in Operands, y \in Operands, z \in Operands : interpreter = Start(f, x, y, z)
    BY DEF Init
  <2>2. IsValue(x) /\ IsValue(y) /\ IsValue(z)
    BY FloatAssumption
  <2>3. IsState(Start(f, x, y, z))
    BY <2>2, StartState
  <2>4. native = interpreter /\ executed = << >>
    BY DEF Init
  <2>. QED BY <2>1, <2>3, <2>4 DEF Agreement
<1>2. Agreement /\ [Next]_vars => Agreement'
  <2>1. Agreement /\ Next => Agreement'
    BY NextAgrees
  <2>2. Agreement /\ UNCHANGED vars => Agreement'
    BY DEF Agreement, vars
  <2>. QED BY <2>1, <2>2
<1>. QED BY <1>1, <1>2, PTL DEF Spec

\* The recompiler's helpers and emitted code leave every register, the FPSCR and
\* the condition field exactly as the interpreter's handlers do, for every operand,
\* every FPSCR, every outcome of the host's arithmetic and every program of the
\* modelled instructions, whichever source register is the destination.
THEOREM FloatEnginesAgree == Spec => []EnginesAgree
<1>1. Agreement => EnginesAgree
  BY DEF Agreement, EnginesAgree
<1>. QED BY <1>1, AgreementInvariant, PTL

\* VX and FEX follow from the exception and enable bits in every reachable state of
\* both engines, though the paths that write only the class or the condition bits
\* do not recompute them.
THEOREM FloatSummariesFollow == Spec => []SummariesFollow
<1>1. Agreement => SummariesFollow
  BY Zenon DEF Agreement, IsState, Summarised, SummariesFollow
<1>. QED BY <1>1, AgreementInvariant, PTL

\* An instruction other than a move to the FPSCR that raises an exception whose
\* enable bit is set leaves every register as it was, in both engines.
THEOREM FloatExceptionsSuppress == Spec => EnabledExceptionSuppresses
<1>. DEFINE Effect == LastExecuted \notin FpscrMoves =>
                        \A s \in {<<interpreter, interpreter'>>, <<native, native'>>} :
                          Raises(s[1].fpscr, s[2].fpscr) => s[2].ps0 = s[1].ps0 /\ s[2].ps1 = s[1].ps1
<1>1. Agreement /\ [Next]_vars => [Effect]_vars
  <2>. SUFFICES ASSUME Agreement, Next PROVE Effect
    OBVIOUS
  <2>1. Agreement' /\ (LastExecuted \in FpscrMoves \/ Suppressed(interpreter, interpreter'))
    BY NextAgrees
  <2>2. native = interpreter /\ native' = interpreter'
    BY <2>1 DEF Agreement
  <2>. QED BY <2>1, <2>2 DEF Suppressed
<1>. QED BY <1>1, AgreementInvariant, PTL DEF Spec, EnabledExceptionSuppresses
=============================================================================
