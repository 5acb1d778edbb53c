-------------------------- MODULE FloatInterpreter --------------------------
(***************************************************************************)
(* The interpreter's floating-point instructions                          *)
(* (src/src/cpu/espresso/interpreter.cpp).  s is the floating-point part   *)
(* of CpuState: fpscr, the two lanes ps0 and ps1 of every register, and    *)
(* the condition-register field the instruction names.  i names the        *)
(* registers: destination d and sources a, b, c.  Every operator is the    *)
(* state after the instruction.                                            *)
(***************************************************************************)
EXTENDS FloatValues

update_fpscr_summaries(f) ==
  LET bits == (f \ {"VX", "FEX"}) \cup (IF f \cap InvalidBits # {} THEN {"VX"} ELSE {})
  IN  bits \cup (IF \E p \in Enabled : {p[1], p[2]} \subseteq bits THEN {"FEX"} ELSE {})

\* Mutation: the exception is recorded and the summaries are left as they were.
RaiseWithoutSummaries(s, bit) == [s EXCEPT !.fpscr = @ \cup {bit, "FX"}]

raise_fpscr_exception(s, bit) ==
  [s EXCEPT !.fpscr = update_fpscr_summaries(@ \cup {bit, "FX"})]

binary64_result_fprf(v) ==
  CASE Nan(v)            -> {"C", "FU"}
    [] Infinite(v)       -> IF v.neg THEN {"FL", "FU"} ELSE {"FG", "FU"}
    [] v.cls = "tiny"    -> IF v.neg THEN {"C", "FL"} ELSE {"C", "FG"}
    [] Zero(v)           -> IF v.neg THEN {"C", "FE"} ELSE {"FE"}
    [] OTHER             -> IF v.neg THEN {"FL"} ELSE {"FG"}

\* A source that is no NaN stands for the default NaN; single drops payload.
quiet_nan_binary64_bits(v) ==
  IF Nan(v) THEN [v EXCEPT !.cls = "quiet"] ELSE DefaultNan
quiet_nan_single_bits(v) == Labelled("single", quiet_nan_binary64_bits(v))

set_double_arithmetic_result_status(s, v, err) ==
  [s EXCEPT !.fpscr = update_fpscr_summaries(
     (@ \ (ResultBits \cup {"FI", "FR"})) \cup binary64_result_fprf(v)
       \cup (IF Inexact(err) THEN {"FI", "XX", "FX"} ELSE {})
       \cup (IF err = "away" THEN {"FR"} ELSE {}))]

set_double_arithmetic_fprf(s, v) ==
  [s EXCEPT !.fpscr = (@ \ ResultBits) \cup binary64_result_fprf(v)]

\* The three ways a result reaches its register: double results fill ps0, single
\* ones both lanes, and where the code does not classify rounding, only FPRF.
CommitDouble(s, d, v, err) ==
  [set_double_arithmetic_result_status(s, v, err) EXCEPT !.ps0[d] = v]
CommitSingle(s, d, v, err) ==
  [set_double_arithmetic_result_status(s, v, err) EXCEPT
     !.ps0[d] = Extended(v), !.ps1[d] = Extended(v)]
CommitUnclassified(s, d, v) == [set_double_arithmetic_fprf(s, v) EXCEPT !.ps0[d] = v]

CommitDoubleNan(s, d, v) == CommitDouble(s, d, quiet_nan_binary64_bits(v), "exact")
CommitSingleNan(s, d, v) == CommitSingle(s, d, quiet_nan_single_bits(v), "exact")

\* An enabled exception leaves the destination alone.
SignalInvalid(s, d, bit, v, Commit(_, _, _)) ==
  LET t == raise_fpscr_exception(s, bit)
  IN  IF "VE" \in t.fpscr THEN t ELSE Commit(t, d, v)

\* The order every arithmetic instruction checks its sources in.
Checked(s, d, sources, invalid, CommitNan(_, _, _), result) ==
  IF \E n \in 1..Len(sources) : Signalling(sources[n])
  THEN SignalInvalid(s, d, "VXSNAN", FirstSignalling(sources), CommitNan)
  ELSE IF \E n \in 1..Len(sources) : Nan(sources[n])
       THEN CommitNan(s, d, FirstNan(sources))
       ELSE IF invalid # "none"
            THEN SignalInvalid(s, d, invalid, NoNan, CommitNan)
            ELSE result

SumInvalid(a, b) ==
  IF Infinite(a) /\ Infinite(b) /\ a.neg # b.neg THEN "VXISI" ELSE "none"
ProductInvalid(a, c) ==
  IF (Infinite(a) /\ Zero(c)) \/ (Zero(a) /\ Infinite(c)) THEN "VXIMZ" ELSE "none"
FusedInvalid(a, c, b) ==
  IF ProductInvalid(a, c) # "none" THEN "VXIMZ"
  ELSE IF (Infinite(a) \/ Infinite(c)) /\ Infinite(b) /\ (a.neg # c.neg) # b.neg
       THEN "VXISI" ELSE "none"

\* Outside the normal range, or when a result vanished (lost), the code does not
\* classify the rounding.
DoubleResult(s, d, a, b, v, lost, err) ==
  IF Infinite(a) \/ Infinite(b) THEN CommitDouble(s, d, v, "exact")
  ELSE IF NormalOrZero(a) /\ NormalOrZero(b) /\ NormalOrZero(v) /\ ~lost
       THEN CommitDouble(s, d, v, err)
       ELSE CommitUnclassified(s, d, v)

floating_add_double(s, i, r) ==
  LET a == s.ps0[i.a]  b == s.ps0[i.b]
  IN  Checked(s, i.d, <<a, b>>, SumInvalid(a, b), CommitDoubleNan,
              DoubleResult(s, i.d, a, b, Computed("a+b", <<a, b>>, r), FALSE, r.err))

floating_subtract_double(s, i, r) ==
  LET a == s.ps0[i.a]  b == s.ps0[i.b]
  IN  Checked(s, i.d, <<a, b>>, SumInvalid(a, Flip(b)), CommitDoubleNan,
              DoubleResult(s, i.d, a, b, Computed("a-b", <<a, b>>, r), FALSE, r.err))

floating_multiply_double(s, i, r) ==
  LET a == s.ps0[i.a]  c == s.ps0[i.c]  v == Computed("a*c", <<a, c>>, r)
  IN  Checked(s, i.d, <<a, c>>, ProductInvalid(a, c), CommitDoubleNan,
              DoubleResult(s, i.d, a, c, v, Zero(v) /\ ~Zero(a) /\ ~Zero(c), r.err))

\* Division by zero is an exception of its own; the single-precision form does
\* not raise it for an infinite dividend.
DivideInvalid(a, b) ==
  IF Zero(a) /\ Zero(b) THEN "VXZDZ"
  ELSE IF Infinite(a) /\ Infinite(b) THEN "VXIDI" ELSE "none"
DivideByZero(s, d, v, Commit(_, _, _, _)) ==
  LET t == raise_fpscr_exception(s, "ZX")
  IN  IF "ZE" \in t.fpscr THEN t ELSE Commit(t, d, v, "exact")

floating_divide_double(s, i, r) ==
  LET a == s.ps0[i.a]  b == s.ps0[i.b]  v == Computed("a/b", <<a, b>>, r)
  IN  Checked(s, i.d, <<a, b>>, DivideInvalid(a, b), CommitDoubleNan,
        IF Zero(b) THEN DivideByZero(s, i.d, Infinity(a.neg # b.neg), CommitDouble)
        ELSE DoubleResult(s, i.d, a, b, v, Zero(v) /\ ~Zero(a), r.err))

floating_divide_single(s, i, r) ==
  LET a == s.ps0[i.a]  b == s.ps0[i.b]  infinity == Infinity(a.neg # b.neg)
  IN  Checked(s, i.d, <<a, b>>, DivideInvalid(a, b), CommitSingleNan,
        IF Zero(b) /\ Infinite(a) THEN CommitSingle(s, i.d, infinity, "exact")
        ELSE IF Zero(b) THEN DivideByZero(s, i.d, infinity, CommitSingle)
        ELSE CommitSingle(s, i.d, Computed("single a/b", <<a, b>>, r), r.err))

floating_add_single(s, i, r) ==
  LET a == s.ps0[i.a]  b == s.ps0[i.b]
  IN  Checked(s, i.d, <<a, b>>, SumInvalid(a, b), CommitSingleNan,
              CommitSingle(s, i.d, Computed("single a+b", <<a, b>>, r), r.err))

floating_subtract_single(s, i, r) ==
  LET a == s.ps0[i.a]  b == s.ps0[i.b]
  IN  Checked(s, i.d, <<a, b>>, SumInvalid(a, Flip(b)), CommitSingleNan,
              CommitSingle(s, i.d, Computed("single a-b", <<a, b>>, r), r.err))

\* Single-precision products round their right factor to 25 bits first.
round_multiply_operand_25bit(v) == Labelled("25 bits of", v)

floating_multiply_single(s, i, r) ==
  LET a == s.ps0[i.a]  c == s.ps0[i.c]
      v == Computed("single a*c", <<a, round_multiply_operand_25bit(c)>>, r)
  IN  Checked(s, i.d, <<a, c>>, ProductInvalid(a, c), CommitSingleNan,
              CommitSingle(s, i.d, v, r.err))

\* The fused single forms: the result is negated before it is rounded, a NaN not.
FusedSingle(s, i, b, v, err) ==
  LET a == s.ps0[i.a]  c == s.ps0[i.c]
  IN  Checked(s, i.d, <<a, c, s.ps0[i.b]>>, FusedInvalid(a, c, b), CommitSingleNan,
              CommitSingle(s, i.d, Labelled("single", v), err))
FusedSingleOf(s, i, formula, r) ==
  Computed(formula, <<s.ps0[i.a], round_multiply_operand_25bit(s.ps0[i.c]), s.ps0[i.b]>>, r)
Negated(v) == IF Nan(v) THEN v ELSE Flip(v)

floating_multiply_add_single(s, i, r) ==
  FusedSingle(s, i, s.ps0[i.b], FusedSingleOf(s, i, "a*c+b", r), r.err)

floating_multiply_subtract_single(s, i, r) ==
  FusedSingle(s, i, Flip(s.ps0[i.b]), FusedSingleOf(s, i, "a*c-b", r), r.err)

floating_negative_multiply_add_single(s, i, r) ==
  FusedSingle(s, i, s.ps0[i.b], Negated(FusedSingleOf(s, i, "a*c+b", r)), r.err)

floating_negative_multiply_subtract_single(s, i, r) ==
  FusedSingle(s, i, Flip(s.ps0[i.b]), Negated(FusedSingleOf(s, i, "a*c-b", r)), r.err)

\* The fused double forms classify the rounding only when it cannot have happened.
FusedDouble(s, i, b, v, exact) ==
  LET a == s.ps0[i.a]  c == s.ps0[i.c]
  IN  Checked(s, i.d, <<a, c, s.ps0[i.b]>>, FusedInvalid(a, c, b), CommitDoubleNan,
        IF exact \/ \E x \in {a, c, b} : Infinite(x) THEN CommitDouble(s, i.d, v, "exact")
        ELSE CommitUnclassified(s, i.d, v))
FusedDoubleOf(s, i, formula, r) ==
  Computed(formula, <<s.ps0[i.a], s.ps0[i.c], s.ps0[i.b]>>, r)

floating_multiply_add_double(s, i, r) ==
  FusedDouble(s, i, s.ps0[i.b], FusedDoubleOf(s, i, "a*c+b", r),
              Zero(s.ps0[i.a]) \/ Zero(s.ps0[i.c]))

floating_multiply_subtract_double(s, i, r) ==
  FusedDouble(s, i, Flip(s.ps0[i.b]), FusedDoubleOf(s, i, "a*c-b", r),
              Zero(s.ps0[i.a]) \/ Zero(s.ps0[i.c]))

floating_negative_multiply_add_double(s, i, r) ==
  FusedDouble(s, i, s.ps0[i.b], Negated(FusedDoubleOf(s, i, "a*c+b", r)),
              Zero(s.ps0[i.a]) \/ Zero(s.ps0[i.c]))

\* This one form does not count a zero left factor as exact.
floating_negative_multiply_subtract_double(s, i, r) ==
  FusedDouble(s, i, Flip(s.ps0[i.b]), Negated(FusedDoubleOf(s, i, "a*c-b", r)),
              Zero(s.ps0[i.c]))

floating_round_to_single(s, i, r) ==
  LET a == s.ps0[i.a]
  IN  Checked(s, i.d, <<a>>, "none", CommitSingleNan,
              CommitSingle(s, i.d, Computed("single a", <<a>>, r), r.err))

\* Mutation: the estimate of zero is written although ZE is set.
EstimateWithoutZE(s, i, r) ==
  IF Zero(s.ps0[i.b])
  THEN CommitUnclassified(raise_fpscr_exception(s, "ZX"), i.d, Infinity(s.ps0[i.b].neg))
  ELSE s

floating_reciprocal_square_root_estimate(s, i, r) ==
  LET b == s.ps0[i.b]
      bit == IF Signalling(b) THEN "VXSNAN" ELSE IF Nan(b) THEN "none"
             ELSE IF Zero(b) THEN "ZX" ELSE IF b.neg THEN "VXSQRT" ELSE "none"
      t == IF bit = "none" THEN s ELSE raise_fpscr_exception(s, bit)
      v == IF Nan(b) THEN quiet_nan_binary64_bits(b)
           ELSE IF Zero(b) THEN Infinity(b.neg)
           ELSE IF b.neg THEN quiet_nan_binary64_bits(NoNan)
           ELSE IF Infinite(b) THEN Value("zero", FALSE, <<"zero">>)
           ELSE Computed("1/sqrt b", <<b>>, r)
  IN  IF bit # "none" /\ (IF bit = "ZX" THEN "ZE" ELSE "VE") \in t.fpscr THEN t
      ELSE CommitUnclassified(t, i.d, v)

floating_reciprocal_estimate_single(s, i, r) ==
  LET b == s.ps0[i.b]
  IN  Checked(s, i.d, <<b>>, "none", CommitSingleNan,
        IF Zero(b) THEN DivideByZero(s, i.d, Infinity(b.neg), CommitSingle)
        ELSE IF Infinite(b)
             THEN CommitSingle(s, i.d, Value("zero", b.neg, <<"zero">>), "exact")
             ELSE CommitSingle(s, i.d, Computed("single 1/b", <<b>>, r), r.err))

ModeName(mode) ==
  IF mode = {} THEN <<"nearest">> ELSE IF mode = {"RN0"} THEN <<"truncate">>
  ELSE IF mode = {"RN1"} THEN <<"ceil">> ELSE <<"floor">>

\* Conversion to a word: r says whether a normal source fits, and how it rounds.
floating_convert_to_integer_word(s, i, r) ==
  LET b    == s.ps0[i.b]
      mode == IF i.truncate THEN {"RN0"} ELSE s.fpscr \cap {"RN1", "RN0"}
      over == Infinite(b) \/ (b.cls = "normal" /\ r.cls = "infinity")
      invalid == Nan(b) \/ over
      err  == IF invalid \/ Zero(b) THEN "exact" ELSE r.err
      word == IF Nan(b) \/ (over /\ b.neg) THEN <<"minimum">>
              ELSE IF over THEN <<"maximum">>
              ELSE IF Zero(b) \/ r.cls = "zero"
                   THEN <<"zero", IF b.neg THEN "negative" ELSE "positive">>
                   ELSE <<"integer">>
      t1 == IF invalid THEN raise_fpscr_exception(s, "VXCVI") ELSE s
      t2 == IF Signalling(b) THEN raise_fpscr_exception(t1, "VXSNAN") ELSE t1
      f  == update_fpscr_summaries((t2.fpscr \ {"FI", "FR"})
              \cup (IF Inexact(err) THEN {"FI", "XX", "FX"} ELSE {})
              \cup (IF err = "away" THEN {"FR"} ELSE {}))
  IN  IF invalid /\ "VE" \in f THEN [t2 EXCEPT !.fpscr = f]
      ELSE [t2 EXCEPT !.fpscr = f,
              !.ps0[i.d] = Value("quiet", TRUE, word \o ModeName(mode) \o b.from)]

\* Comparisons, of either lane; r.order is how two numbers compare.
floating_compare(s, i, r) ==
  LET lane == IF i.lane = 0 THEN s.ps0 ELSE s.ps1
      a == lane[i.a]  b == lane[i.b]
      bits == IF Nan(a) \/ Nan(b) THEN {"FU"} ELSE {r.order}
      t == [s EXCEPT !.cr = bits, !.fpscr = (@ \ ConditionBits) \cup bits]
      u == raise_fpscr_exception(t, "VXSNAN")
  IN  IF Signalling(a) \/ Signalling(b)
      THEN IF i.ordered /\ "VE" \notin u.fpscr THEN raise_fpscr_exception(u, "VXVC") ELSE u
      ELSE IF i.ordered /\ (Nan(a) \/ Nan(b)) THEN raise_fpscr_exception(t, "VXVC") ELSE t

floating_select(s, i) ==
  LET a == s.ps0[i.a]
  IN  [s EXCEPT !.ps0[i.d] =
         IF ~Nan(a) /\ (~a.neg \/ Zero(a)) THEN s.ps0[i.c] ELSE s.ps0[i.b]]

\* The moves between registers copy one lane and touch no status.
floating_move_register(s, i)  == [s EXCEPT !.ps0[i.d] = s.ps0[i.b]]
floating_negate(s, i)         == [s EXCEPT !.ps0[i.d] = Flip(s.ps0[i.b])]
floating_absolute_value(s, i) == [s EXCEPT !.ps0[i.d] = [s.ps0[i.b] EXCEPT !.neg = FALSE]]
floating_negative_absolute_value(s, i) ==
  [s EXCEPT !.ps0[i.d] = [s.ps0[i.b] EXCEPT !.neg = TRUE]]

\* Moves to the FPSCR never write the summaries, which follow from the rest.
WriteFpscr(s, mask, bits) ==
  LET writable == mask \ {"FEX", "VX"}
  IN  [s EXCEPT !.fpscr = update_fpscr_summaries((@ \ writable) \cup (bits \cap writable))]

floating_move_to_fpscr_bit(s, i) ==
  IF {i.bit} \subseteq {"FEX", "VX"} THEN s
  ELSE WriteFpscr(s, {i.bit}, IF i.set THEN {i.bit} ELSE {})

floating_move_to_fpscr_field_immediate(s, i) == WriteFpscr(s, FpscrField[i.field], i.bits)

floating_move_to_fpscr_fields(s, i) ==
  WriteFpscr(s, UNION {FpscrField[n] : n \in i.fields}, i.bits)

floating_move_from_fpscr(s, i) ==
  [s EXCEPT !.ps0[i.d] = Value("quiet", TRUE, <<"fpscr">>)]

\* mcrfs copies a field of the FPSCR and clears its exception bits.
move_condition_register_from_fpscr(s, i) ==
  LET clear == <<{"FX", "OX"}, FpscrField[2], FpscrField[3], {"VXVC"}, {},
                 FpscrField[6] \ {"Reserved"}, {}, {}>>
  IN  [s EXCEPT !.cr = s.fpscr \cap (FpscrField[i.field] \ {"Reserved"}),
                !.fpscr = update_fpscr_summaries(@ \ clear[i.field])]

\* Paired singles read every lane before they write one and raise no exception.
Pair(s, i, lane0, lane1) ==
  [s EXCEPT !.ps0[i.d] = Extended(lane0), !.ps1[i.d] = Extended(lane1)]
PairOf(s, i, formula, sources, r) ==
  Pair(s, i, LaneOf(formula, [n \in 1..Len(sources) |-> s.ps0[sources[n]]], r),
             LaneOf(formula, [n \in 1..Len(sources) |-> s.ps1[sources[n]]], r))

paired_single_add(s, i, r)      == PairOf(s, i, "a+b", <<i.a, i.b>>, r)
paired_single_subtract(s, i, r) == PairOf(s, i, "a-b", <<i.a, i.b>>, r)
paired_single_divide(s, i, r)   == PairOf(s, i, "a/b", <<i.a, i.b>>, r)
paired_single_reciprocal_estimate(s, i, r) == PairOf(s, i, "1/b", <<i.b>>, r)
paired_single_reciprocal_square_root_estimate(s, i, r) == PairOf(s, i, "1/sqrt b", <<i.b>>, r)

\* ps_muls multiplies both lanes by one lane of c and keeps denormals.
paired_single_multiply(s, i, r) ==
  LET Lane(a, c) == LaneOf("a*c", <<a, round_multiply_operand_25bit(c)>>, r)
      scalar == IF i.scalar = 1 THEN s.ps1[i.c] ELSE s.ps0[i.c]
  IN  IF i.scalar = 2
      THEN Pair(s, i, FlushDenormal(Lane(s.ps0[i.a], s.ps0[i.c])),
                      FlushDenormal(Lane(s.ps1[i.a], s.ps1[i.c])))
      ELSE Pair(s, i, Lane(s.ps0[i.a], scalar), Lane(s.ps1[i.a], scalar))

\* ps_madd alone rounds the product before it adds.
paired_single_multiply_add(s, i, r) ==
  LET Lane(a, c, b) ==
        LaneOf("+b", <<LaneOf("single a*c", <<a, round_multiply_operand_25bit(c)>>, r), b>>, r)
  IN  Pair(s, i, FlushDenormal(Lane(s.ps0[i.a], s.ps0[i.c], s.ps0[i.b])),
                 FlushDenormal(Lane(s.ps1[i.a], s.ps1[i.c], s.ps1[i.b])))

\* ps_madds0, ps_madds1, ps_nmadd and ps_nmsub.
paired_single_multiply_add_scalar(s, i, r) ==
  LET c == IF i.scalar = 0 THEN s.ps0[i.c] ELSE s.ps1[i.c]
      Lane(a, b) == LaneOf("a*c+b", <<a, round_multiply_operand_25bit(c), b>>, r)
      Negative(a, k, b) ==
        Flip(LaneOf(IF i.subtract THEN "a*c-b" ELSE "a*c+b",
                    <<a, round_multiply_operand_25bit(k), b>>, r))
  IN  IF i.negate
      THEN Pair(s, i, Negative(s.ps0[i.a], s.ps0[i.c], s.ps0[i.b]),
                      Negative(s.ps1[i.a], s.ps1[i.c], s.ps1[i.b]))
      ELSE Pair(s, i, Lane(s.ps0[i.a], s.ps0[i.b]), Lane(s.ps1[i.a], s.ps1[i.b]))

paired_single_multiply_subtract(s, i, r) ==
  LET Lane(a, c, b) == LaneOf("a*c-b", <<a, round_multiply_operand_25bit(c), b>>, r)
  IN  Pair(s, i, Lane(s.ps0[i.a], s.ps0[i.c], s.ps0[i.b]),
                 Lane(s.ps1[i.a], s.ps1[i.c], s.ps1[i.b]))

\* ps_sum0 and ps_sum1 (scalar 0 and 1): one lane is the sum, the other a lane of c.
paired_single_sum(s, i, r) ==
  LET sum == LaneOf("a+b", <<s.ps0[i.a], s.ps1[i.b]>>, r)
      Kept(v) == LaneOf("single c", <<v>>, r)
  IN  IF i.scalar = 0 THEN Pair(s, i, sum, Kept(s.ps1[i.c]))
                      ELSE Pair(s, i, Kept(s.ps0[i.c]), sum)

\* The moves of pairs copy bits: no rounding, no quieting.
MovePair(s, i, lane0, lane1) == [s EXCEPT !.ps0[i.d] = lane0, !.ps1[i.d] = lane1]

paired_single_select(s, i) ==
  LET Chosen(a, b, c) == IF ~Nan(a) /\ (~a.neg \/ Zero(a)) THEN c ELSE b
  IN  MovePair(s, i, Chosen(s.ps0[i.a], s.ps0[i.b], s.ps0[i.c]),
                     Chosen(s.ps1[i.a], s.ps1[i.b], s.ps1[i.c]))

paired_single_merge(s, i) ==
  MovePair(s, i, IF i.merge \in {"10", "11"} THEN s.ps1[i.a] ELSE s.ps0[i.a],
                 IF i.merge \in {"01", "11"} THEN s.ps1[i.b] ELSE s.ps0[i.b])

paired_single_move_register(s, i) == MovePair(s, i, s.ps0[i.b], s.ps1[i.b])
paired_single_negate(s, i) == MovePair(s, i, Flip(s.ps0[i.b]), Flip(s.ps1[i.b]))
paired_single_absolute_value(s, i) ==
  MovePair(s, i, [s.ps0[i.b] EXCEPT !.neg = FALSE], [s.ps1[i.b] EXCEPT !.neg = FALSE])
paired_single_negative_absolute_value(s, i) ==
  MovePair(s, i, [s.ps0[i.b] EXCEPT !.neg = TRUE], [s.ps1[i.b] EXCEPT !.neg = TRUE])
==========================================================================
