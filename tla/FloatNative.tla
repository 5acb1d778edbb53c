---------------------------- MODULE FloatNative ----------------------------
(***************************************************************************)
(* The recompiler's floating-point instructions                           *)
(* (src/src/cpu/espresso/recompiler.cpp): the C++ helpers that emitted     *)
(* code calls, written separately from the interpreter's, and the          *)
(* instructions it emits in line.  State and operands are those of         *)
(* FloatInterpreter.  The records the helpers fill for the tests' trace    *)
(* are left out.                                                           *)
(***************************************************************************)
EXTENDS FloatValues

native_update_fpscr_summaries(f) ==
  LET vx      == IF f \cap InvalidBits # {} THEN {"VX"} ELSE {}
      causes  == (f \cap {"ZX", "OX", "UX", "XX"}) \cup vx
      enabled == \E p \in Enabled : p[1] \in causes /\ p[2] \in f
  IN  (f \ {"VX", "FEX"}) \cup vx \cup (IF enabled THEN {"FEX"} ELSE {})

native_raise_fpscr_exception(s, exception) ==
  [s EXCEPT !.fpscr = native_update_fpscr_summaries(@ \cup {exception, "FX"})]

Signed(neg, minus, plus) == IF neg THEN minus ELSE plus

native_double_result_fprf(v) ==
  CASE v.cls \in {"quiet", "signalling"} -> {"C", "FU"}
    [] v.cls = "infinity" -> Signed(v.neg, {"FL", "FU"}, {"FG", "FU"})
    [] v.cls = "tiny"     -> {"C"} \cup Signed(v.neg, {"FL"}, {"FG"})
    [] v.cls = "zero"     -> {"FE"} \cup Signed(v.neg, {"C"}, {})
    [] v.cls = "normal"   -> Signed(v.neg, {"FL"}, {"FG"})
native_single_result_fprf(v) == native_double_result_fprf(v)

\* The status a result leaves: its class, and how it was rounded.
RoundingBits(inexact, up) ==
  (IF inexact THEN {"FI", "XX", "FX"} ELSE {}) \cup (IF inexact /\ up THEN {"FR"} ELSE {})
ResultCleared(s) == s.fpscr \ {"C", "FL", "FG", "FE", "FU", "FI", "FR"}

native_set_double_result_status(s, v, inexact, up) ==
  [s EXCEPT !.fpscr = native_update_fpscr_summaries(
     ResultCleared(s) \cup native_double_result_fprf(v) \cup RoundingBits(inexact, up))]

native_set_double_fprf(s, v) ==
  [s EXCEPT !.fpscr = (@ \ {"C", "FL", "FG", "FE", "FU"}) \cup native_double_result_fprf(v)]

\* The commit lambdas of the helpers.
CommitFpr(s, d, v, inexact, up) ==
  [native_set_double_result_status(s, v, inexact, up) EXCEPT !.ps0[d] = v]
CommitFprOnly(s, d, v) == [native_set_double_fprf(s, v) EXCEPT !.ps0[d] = v]
CommitSingleBits(s, d, v, inexact, up) ==
  [s EXCEPT !.ps0[d] = Extended(v), !.ps1[d] = Extended(v),
     !.fpscr = native_update_fpscr_summaries(
        ResultCleared(s) \cup native_single_result_fprf(v) \cup RoundingBits(inexact, up))]

Quiet(v)        == IF Nan(v) THEN [v EXCEPT !.cls = "quiet"] ELSE DefaultNan
QuietSingle(v)  == Labelled("single", Quiet(v))
CommitNan(s, d, v)       == CommitFpr(s, d, Quiet(v), FALSE, FALSE)
CommitNanSingle(s, d, v) == CommitSingleBits(s, d, QuietSingle(v), FALSE, FALSE)

native_invalid(s, d, exception, v, Nanned(_, _, _)) ==
  LET raised == native_raise_fpscr_exception(s, exception)
  IN  IF "VE" \in raised.fpscr THEN raised ELSE Nanned(raised, d, v)
native_zero_divide(s, d, v, Commit(_, _, _, _, _)) ==
  LET raised == native_raise_fpscr_exception(s, "ZX")
  IN  IF "ZE" \in raised.fpscr THEN raised ELSE Commit(raised, d, v, FALSE, FALSE)

\* The early returns of every helper, in the order the sources are named.
NanFree(s, d, sources, Nanned(_, _, _), rest) ==
  IF \E n \in 1..Len(sources) : Signalling(sources[n])
  THEN native_invalid(s, d, "VXSNAN", FirstSignalling(sources), Nanned)
  ELSE IF \E n \in 1..Len(sources) : Nan(sources[n]) THEN Nanned(s, d, FirstNan(sources)) ELSE rest

\* A host result whose rounding is classified only among normal values.
Classified(s, d, a, b, v, lost, r) ==
  IF Infinite(a) \/ Infinite(b) THEN CommitFpr(s, d, v, FALSE, FALSE)
  ELSE IF ~NormalOrZero(a) \/ ~NormalOrZero(b) \/ ~NormalOrZero(v) \/ lost
       THEN CommitFprOnly(s, d, v)
       ELSE CommitFpr(s, d, v, Inexact(r.err), r.err = "away")
RoundedSingle(s, d, v, r) == CommitSingleBits(s, d, v, Inexact(r.err), r.err = "away")

InfinityTimesZero(a, c) == (Infinite(a) /\ Zero(c)) \/ (Zero(a) /\ Infinite(c))

native_fadd(s, i, r) ==
  LET a == s.ps0[i.a]  b == s.ps0[i.b]
  IN  NanFree(s, i.d, <<a, b>>, CommitNan,
        IF Infinite(a) /\ Infinite(b) /\ a.neg # b.neg
        THEN native_invalid(s, i.d, "VXISI", NoNan, CommitNan)
        ELSE Classified(s, i.d, a, b, Computed("a+b", <<a, b>>, r), FALSE, r))

native_fsub(s, i, r) ==
  LET a == s.ps0[i.a]  b == s.ps0[i.b]
  IN  NanFree(s, i.d, <<a, b>>, CommitNan,
        IF Infinite(a) /\ Infinite(b) /\ a.neg = b.neg
        THEN native_invalid(s, i.d, "VXISI", NoNan, CommitNan)
        ELSE Classified(s, i.d, a, b, Computed("a-b", <<a, b>>, r), FALSE, r))

native_fmul(s, i, r) ==
  LET a == s.ps0[i.a]  c == s.ps0[i.c]  v == Computed("a*c", <<a, c>>, r)
  IN  NanFree(s, i.d, <<a, c>>, CommitNan,
        IF InfinityTimesZero(a, c)
        THEN native_invalid(s, i.d, "VXIMZ", NoNan, CommitNan)
        ELSE Classified(s, i.d, a, c, v, Zero(v) /\ ~Zero(a) /\ ~Zero(c), r))

native_fdiv(s, i, r) ==
  LET a == s.ps0[i.a]  b == s.ps0[i.b]  v == Computed("a/b", <<a, b>>, r)
  IN  NanFree(s, i.d, <<a, b>>, CommitNan,
        CASE Zero(a) /\ Zero(b) -> native_invalid(s, i.d, "VXZDZ", NoNan, CommitNan)
          [] Infinite(a) /\ Infinite(b) -> native_invalid(s, i.d, "VXIDI", NoNan, CommitNan)
          [] Zero(b) /\ ~Zero(a) ->
               native_zero_divide(s, i.d, Infinity(a.neg # b.neg), CommitFpr)
          [] OTHER -> Classified(s, i.d, a, b, v, Zero(v) /\ ~Zero(a), r))

native_fadds(s, i, r) ==
  LET a == s.ps0[i.a]  b == s.ps0[i.b]
  IN  NanFree(s, i.d, <<a, b>>, CommitNanSingle,
        IF Infinite(a) /\ Infinite(b) /\ a.neg # b.neg
        THEN native_invalid(s, i.d, "VXISI", NoNan, CommitNanSingle)
        ELSE RoundedSingle(s, i.d, Computed("single a+b", <<a, b>>, r), r))

native_fsubs(s, i, r) ==
  LET a == s.ps0[i.a]  b == s.ps0[i.b]
  IN  NanFree(s, i.d, <<a, b>>, CommitNanSingle,
        IF Infinite(a) /\ Infinite(b) /\ a.neg = b.neg
        THEN native_invalid(s, i.d, "VXISI", NoNan, CommitNanSingle)
        ELSE RoundedSingle(s, i.d, Computed("single a-b", <<a, b>>, r), r))

\* The right factor of a single product is rounded to 25 significant bits.
Rounded25(c) == Labelled("25 bits of", c)

native_fmuls(s, i, r) ==
  LET a == s.ps0[i.a]  c == s.ps0[i.c]
  IN  NanFree(s, i.d, <<a, c>>, CommitNanSingle,
        IF InfinityTimesZero(a, c)
        THEN native_invalid(s, i.d, "VXIMZ", NoNan, CommitNanSingle)
        ELSE RoundedSingle(s, i.d, Computed("single a*c", <<a, Rounded25(c)>>, r), r))

native_fdivs(s, i, r) ==
  LET a == s.ps0[i.a]  b == s.ps0[i.b]  infinity == Infinity(a.neg # b.neg)
  IN  NanFree(s, i.d, <<a, b>>, CommitNanSingle,
        CASE Zero(a) /\ Zero(b) -> native_invalid(s, i.d, "VXZDZ", NoNan, CommitNanSingle)
          [] Infinite(a) /\ Infinite(b) -> native_invalid(s, i.d, "VXIDI", NoNan, CommitNanSingle)
          [] Zero(b) /\ ~Zero(a) /\ ~Infinite(a) ->
               native_zero_divide(s, i.d, infinity, CommitSingleBits)
          [] Zero(b) /\ Infinite(a) -> CommitSingleBits(s, i.d, infinity, FALSE, FALSE)
          [] OTHER -> RoundedSingle(s, i.d, Computed("single a/b", <<a, b>>, r), r))

\* Fused forms: infinity times zero, then infinities of unlike sign after the addend's
\* sign is taken into account.
FusedFree(s, i, subtract, Nanned(_, _, _), rest) ==
  LET a == s.ps0[i.a]  b == s.ps0[i.b]  c == s.ps0[i.c]
      product_infinity == Infinite(a) \/ Infinite(c)
      product_negative == a.neg # c.neg
  IN  NanFree(s, i.d, <<a, c, b>>, Nanned,
        IF InfinityTimesZero(a, c)
        THEN native_invalid(s, i.d, "VXIMZ", NoNan, Nanned)
        ELSE IF product_infinity /\ Infinite(b)
                /\ (IF subtract THEN product_negative = b.neg ELSE product_negative # b.neg)
             THEN native_invalid(s, i.d, "VXISI", NoNan, Nanned) ELSE rest)
Fused(s, i, subtract, Factor(_), r) ==
  Computed(IF subtract THEN "a*c-b" ELSE "a*c+b",
           <<s.ps0[i.a], Factor(s.ps0[i.c]), s.ps0[i.b]>>, r)
NegatedNumber(v) == IF Nan(v) THEN v ELSE Flip(v)

native_fmadds(s, i, r) ==
  FusedFree(s, i, FALSE, CommitNanSingle,
    RoundedSingle(s, i.d, Labelled("single", Fused(s, i, FALSE, Rounded25, r)), r))

\* Mutation: the sign test of the addend forgets that it is subtracted.
FusedIgnoringSubtraction(s, i, subtract_addend, negate_output, r) ==
  FusedFree(s, i, FALSE, CommitNanSingle,
    RoundedSingle(s, i.d, Labelled("single", Fused(s, i, subtract_addend, Rounded25, r)), r))

\* One helper serves fmsubs, fnmsubs and fnmadds.
native_fnmsubs(s, i, subtract_addend, negate_output, r) ==
  LET temporary == Fused(s, i, subtract_addend, Rounded25, r)
      exact     == IF negate_output THEN NegatedNumber(temporary) ELSE temporary
  IN  FusedFree(s, i, subtract_addend, CommitNanSingle,
        RoundedSingle(s, i.d, Labelled("single", exact), r))

\* Double fused results are classified only when no rounding can have happened.
FusedResult(s, i, v, known_exact) ==
  IF known_exact \/ Infinite(s.ps0[i.a]) \/ Infinite(s.ps0[i.b]) \/ Infinite(s.ps0[i.c])
  THEN CommitFpr(s, i.d, v, FALSE, FALSE) ELSE CommitFprOnly(s, i.d, v)
Whole(c) == c

native_fmadd(s, i, r) ==
  FusedFree(s, i, FALSE, CommitNan,
    FusedResult(s, i, Fused(s, i, FALSE, Whole, r), Zero(s.ps0[i.a]) \/ Zero(s.ps0[i.c])))

native_fmsub(s, i, r) ==
  FusedFree(s, i, TRUE, CommitNan,
    FusedResult(s, i, Fused(s, i, TRUE, Whole, r), Zero(s.ps0[i.a]) \/ Zero(s.ps0[i.c])))

native_fnmadd(s, i, r) ==
  FusedFree(s, i, FALSE, CommitNan,
    FusedResult(s, i, NegatedNumber(Fused(s, i, FALSE, Whole, r)),
                Zero(s.ps0[i.a]) \/ Zero(s.ps0[i.c])))

\* As in the interpreter, a zero left factor alone does not count as exact here.
native_fnmsub(s, i, r) ==
  FusedFree(s, i, TRUE, CommitNan,
    FusedResult(s, i, NegatedNumber(Fused(s, i, TRUE, Whole, r)), Zero(s.ps0[i.c])))

native_frsp(s, i, r) ==
  LET a == s.ps0[i.a]
  IN  NanFree(s, i.d, <<a>>, CommitNanSingle,
              RoundedSingle(s, i.d, Computed("single a", <<a>>, r), r))

native_fres(s, i, r) ==
  LET b == s.ps0[i.b]
  IN  NanFree(s, i.d, <<b>>, CommitNanSingle,
        CASE Zero(b) -> native_zero_divide(s, i.d, Infinity(b.neg), CommitSingleBits)
          [] Infinite(b) ->
               CommitSingleBits(s, i.d, Value("zero", b.neg, <<"zero">>), FALSE, FALSE)
          [] OTHER -> RoundedSingle(s, i.d, Computed("single 1/b", <<b>>, r), r))

native_frsqrte(s, i, r) ==
  LET b == s.ps0[i.b]
      Raised(exception, enable, v) ==
        LET t == native_raise_fpscr_exception(s, exception)
        IN  IF enable \in t.fpscr THEN t ELSE CommitFprOnly(t, i.d, v)
  IN  CASE Signalling(b) -> Raised("VXSNAN", "VE", Quiet(b))
        [] b.cls = "quiet" -> CommitFprOnly(s, i.d, b)
        [] ~Nan(b) /\ b.neg /\ ~Zero(b) -> Raised("VXSQRT", "VE", DefaultNan)
        [] Zero(b) -> Raised("ZX", "ZE", Infinity(b.neg))
        [] Infinite(b) /\ ~b.neg -> CommitFprOnly(s, i.d, Value("zero", FALSE, <<"zero">>))
        [] OTHER -> CommitFprOnly(s, i.d, Computed("1/sqrt b", <<b>>, r))

\* Rounding to a word: r.cls = "infinity" says that a normal source does not fit.
native_fctiw(s, i, r) ==
  LET b    == s.ps0[i.b]
      mode == IF i.truncate THEN {"RN0"} ELSE s.fpscr \cap {"RN1", "RN0"}
      fits == ~Nan(b) /\ ~Infinite(b) /\ ~(b.cls = "normal" /\ r.cls = "infinity")
      word == CASE Nan(b) -> <<"minimum">>
                [] fits /\ (Zero(b) \/ r.cls = "zero") ->
                     <<"zero", IF b.neg THEN "negative" ELSE "positive">>
                [] fits /\ ~Zero(b) /\ r.cls # "zero" -> <<"integer">>
                [] OTHER -> IF b.neg THEN <<"minimum">> ELSE <<"maximum">>
      inexact == fits /\ ~Zero(b) /\ Inexact(r.err)
      t1 == IF fits THEN s ELSE native_raise_fpscr_exception(s, "VXCVI")
      t2 == IF Signalling(b) THEN native_raise_fpscr_exception(t1, "VXSNAN") ELSE t1
      t3 == [t2 EXCEPT !.fpscr = native_update_fpscr_summaries(
               (@ \ {"FI", "FR"}) \cup RoundingBits(inexact, r.err = "away"))]
      rounding == CASE mode = {} -> <<"nearest">> [] mode = {"RN0"} -> <<"truncate">>
                    [] mode = {"RN1"} -> <<"ceil">> [] OTHER -> <<"floor">>
  IN  IF ~fits /\ "VE" \in t3.fpscr THEN t3
      ELSE [t3 EXCEPT !.ps0[i.d] = Value("quiet", TRUE, word \o rounding \o b.from)]

native_fsel(s, i) ==
  LET a == s.ps0[i.a]
  IN  [s EXCEPT !.ps0[i.d] = IF ~Nan(a) /\ (a.neg => Zero(a)) THEN s.ps0[i.c] ELSE s.ps0[i.b]]

native_raise_fpscr_snan_if_present(s, a, b) ==
  IF Signalling(a) \/ Signalling(b) THEN native_raise_fpscr_exception(s, "VXSNAN") ELSE s

native_raise_fpscr_compare_invalid_if_present(s, a, b) ==
  LET snan   == Signalling(a) \/ Signalling(b)
      raised == native_raise_fpscr_snan_if_present(s, a, b)
  IN  IF (snan /\ "VE" \notin raised.fpscr) \/ (~snan /\ (Nan(a) \/ Nan(b)))
      THEN native_raise_fpscr_exception(raised, "VXVC") ELSE raised

\* Emitted compare: the helper raises before FPCC and the condition field are written.
EmittedCompare(s, i, r) ==
  LET a == IF i.lane = 1 THEN s.ps1[i.a] ELSE s.ps0[i.a]
      b == IF i.lane = 1 THEN s.ps1[i.b] ELSE s.ps0[i.b]
      unordered == Nan(a) \/ Nan(b)
      bits == IF unordered THEN {"FU"} ELSE {r.order}
      t == IF ~unordered THEN s
           ELSE IF i.ordered THEN native_raise_fpscr_compare_invalid_if_present(s, a, b)
                ELSE native_raise_fpscr_snan_if_present(s, a, b)
  IN  [t EXCEPT !.cr = bits, !.fpscr = (@ \ {"FL", "FG", "FE", "FU"}) \cup bits]

\* mcrfs, mffs, mtfsb0/1, mtfsfi and mtfsf as emitted.
EmittedMcrfs(s, i) ==
  LET clear == CASE i.field = 1 -> {"FX", "OX"}
                 [] i.field = 2 -> {"UX", "ZX", "XX", "VXSNAN"}
                 [] i.field = 3 -> {"VXISI", "VXIDI", "VXZDZ", "VXIMZ"}
                 [] i.field = 4 -> {"VXVC"}
                 [] i.field = 6 -> {"VXSOFT", "VXSQRT", "VXCVI"}
                 [] OTHER -> {}
  IN  [s EXCEPT !.cr = s.fpscr \cap (IF i.field = 6 THEN clear ELSE FpscrField[i.field]),
                !.fpscr = native_update_fpscr_summaries(@ \ clear)]
EmittedMffs(s, i) == [s EXCEPT !.ps0[i.d] = Value("quiet", TRUE, <<"fpscr">>)]
EmittedMtfsb(s, i) ==
  IF i.bit \in {"FEX", "VX"} THEN s
  ELSE [s EXCEPT !.fpscr = native_update_fpscr_summaries(
          IF i.set THEN @ \cup {i.bit} ELSE @ \ {i.bit})]
EmittedMtfsfi(s, i) ==
  LET writable == IF i.field = 1 THEN {"FX", "OX"} ELSE FpscrField[i.field]
  IN  [s EXCEPT !.fpscr = native_update_fpscr_summaries(
          (@ \ writable) \cup (i.bits \cap writable))]
EmittedMtfsf(s, i) ==
  LET writable == {bit \in FpscrBits : bit \notin {"FEX", "VX"}
                     /\ \E n \in i.fields : bit \in FpscrField[n]}
  IN  [s EXCEPT !.fpscr = native_update_fpscr_summaries(
          (@ \ writable) \cup (i.bits \cap writable))]

\* fmr, fneg, fabs and fnabs: one bit of the low lane.
EmittedMove(s, i, op) ==
  [s EXCEPT !.ps0[i.d] =
     [s.ps0[i.b] EXCEPT !.neg = CASE op = "fmr" -> @ [] op = "fneg" -> ~@
                                  [] op = "fabs" -> FALSE [] op = "fnabs" -> TRUE]]

\* Paired-single helpers: every source lane is recorded before a destination is written.
StorePair(s, i, v0, v1) == [s EXCEPT !.ps0[i.d] = Extended(v0), !.ps1[i.d] = Extended(v1)]
InLanes(s, i, Lane(_)) == StorePair(s, i, Lane(s.ps0), Lane(s.ps1))

native_ps_add(s, i, r) == InLanes(s, i, LAMBDA l : LaneOf("a+b", <<l[i.a], l[i.b]>>, r))
native_ps_sub(s, i, r) == InLanes(s, i, LAMBDA l : LaneOf("a-b", <<l[i.a], l[i.b]>>, r))
native_ps_div(s, i, r) == InLanes(s, i, LAMBDA l : LaneOf("a/b", <<l[i.a], l[i.b]>>, r))
native_ps_res(s, i, r) == InLanes(s, i, LAMBDA l : LaneOf("1/b", <<l[i.b]>>, r))
native_ps_rsqrte(s, i, r) == InLanes(s, i, LAMBDA l : LaneOf("1/sqrt b", <<l[i.b]>>, r))
native_ps_mul(s, i, r) ==
  InLanes(s, i, LAMBDA l : FlushDenormal(LaneOf("a*c", <<l[i.a], Rounded25(l[i.c])>>, r)))
native_ps_muls(s, i, scalar_ps1, r) ==
  LET scalar == Rounded25(IF scalar_ps1 THEN s.ps1[i.c] ELSE s.ps0[i.c])
  IN  InLanes(s, i, LAMBDA l : LaneOf("a*c", <<l[i.a], scalar>>, r))
native_ps_madd(s, i, r) ==
  InLanes(s, i, LAMBDA l : FlushDenormal(
    LaneOf("+b", <<LaneOf("single a*c", <<l[i.a], Rounded25(l[i.c])>>, r), l[i.b]>>, r)))
native_ps_madds(s, i, scalar_ps1, r) ==
  LET scalar == Rounded25(IF scalar_ps1 THEN s.ps1[i.c] ELSE s.ps0[i.c])
  IN  InLanes(s, i, LAMBDA l : LaneOf("a*c+b", <<l[i.a], scalar, l[i.b]>>, r))
native_ps_msub(s, i, r) ==
  InLanes(s, i, LAMBDA l : LaneOf("a*c-b", <<l[i.a], Rounded25(l[i.c]), l[i.b]>>, r))
native_ps_nmadd(s, i, subtract, r) ==
  InLanes(s, i, LAMBDA l : Flip(LaneOf(IF subtract THEN "a*c-b" ELSE "a*c+b",
                                       <<l[i.a], Rounded25(l[i.c]), l[i.b]>>, r)))
native_ps_sum(s, i, sum0, r) ==
  LET sum == LaneOf("a+b", <<s.ps0[i.a], s.ps1[i.b]>>, r)
  IN  StorePair(s, i, IF sum0 THEN sum ELSE LaneOf("single c", <<s.ps0[i.c]>>, r),
                      IF sum0 THEN LaneOf("single c", <<s.ps1[i.c]>>, r) ELSE sum)
native_ps_select(s, i) ==
  LET Chosen(l) == IF ~Nan(l[i.a]) /\ (l[i.a].neg => Zero(l[i.a])) THEN l[i.c] ELSE l[i.b]
  IN  [s EXCEPT !.ps0[i.d] = Chosen(s.ps0), !.ps1[i.d] = Chosen(s.ps1)]

\* Merges and moves of pairs, emitted in line over snapshots of the lanes.
EmittedMerge(s, i) ==
  [s EXCEPT !.ps0[i.d] = IF i.merge \in {"00", "01"} THEN s.ps0[i.a] ELSE s.ps1[i.a],
            !.ps1[i.d] = IF i.merge \in {"00", "10"} THEN s.ps0[i.b] ELSE s.ps1[i.b]]
EmittedPairMove(s, i) == [s EXCEPT !.ps0[i.d] = s.ps0[i.b], !.ps1[i.d] = s.ps1[i.b]]
EmittedPairAbs(s, i) ==
  [s EXCEPT !.ps0[i.d] = [s.ps0[i.b] EXCEPT !.neg = FALSE],
            !.ps1[i.d] = [s.ps1[i.b] EXCEPT !.neg = FALSE]]
EmittedPairNabs(s, i) ==
  [s EXCEPT !.ps0[i.d] = [s.ps0[i.b] EXCEPT !.neg = TRUE],
            !.ps1[i.d] = [s.ps1[i.b] EXCEPT !.neg = TRUE]]
EmittedPairNeg(s, i) ==
  [s EXCEPT !.ps0[i.d] = Flip(s.ps0[i.b]), !.ps1[i.d] = Flip(s.ps1[i.b])]

\* Which helper each instruction calls, and the flags it passes.
EmitConversion(op, s, i, r) ==
  CASE op = "fctiw"   -> native_fctiw(s, [i EXCEPT !.truncate = FALSE], r)
    [] op = "fctiwz"  -> native_fctiw(s, [i EXCEPT !.truncate = TRUE], r)
    [] op = "fsel"    -> native_fsel(s, i)
    [] op = "frsp"    -> native_frsp(s, i, r)
    [] op = "frsqrte" -> native_frsqrte(s, i, r)
    [] op = "fres"    -> native_fres(s, i, r)
EmitSingle(op, s, i, r) ==
  CASE op = "fmuls"  -> native_fmuls(s, i, r)
    [] op = "fadds"  -> native_fadds(s, i, r)
    [] op = "fsubs"  -> native_fsubs(s, i, r)
    [] op = "fdivs"  -> native_fdivs(s, i, r)
    [] op = "fmadds" -> native_fmadds(s, i, r)
    [] OTHER -> native_fnmsubs(s, i, op \in {"fmsubs", "fnmsubs"}, op \in {"fnmsubs", "fnmadds"}, r)
EmitDouble(op, s, i, r) ==
  CASE op = "fmul"   -> native_fmul(s, i, r)
    [] op = "fmsub"  -> native_fmsub(s, i, r)
    [] op = "fnmadd" -> native_fnmadd(s, i, r)
    [] op = "fmadd"  -> native_fmadd(s, i, r)
    [] op = "fnmsub" -> native_fnmsub(s, i, r)
    [] op = "fsub"   -> native_fsub(s, i, r)
    [] op = "fadd"   -> native_fadd(s, i, r)
    [] op = "fdiv"   -> native_fdiv(s, i, r)
EmitPairedHelper(op, s, i, r) ==
  CASE op = "ps_sum0" -> native_ps_sum(s, i, TRUE, r)
    [] op = "ps_sum1" -> native_ps_sum(s, i, FALSE, r)
    [] op = "ps_sel"  -> native_ps_select(s, i)
    [] op = "ps_res"  -> native_ps_res(s, i, r)
    [] op = "ps_rsqrte" -> native_ps_rsqrte(s, i, r)
    [] op = "ps_sub"  -> native_ps_sub(s, i, r)
EmitPairedProduct(op, s, i, r) ==
  CASE op = "ps_div"  -> native_ps_div(s, i, r)
    [] op = "ps_add"  -> native_ps_add(s, i, r)
    [] op = "ps_mul"  -> native_ps_mul(s, i, r)
    [] op \in {"ps_muls0", "ps_muls1"}   -> native_ps_muls(s, i, op = "ps_muls1", r)
    [] op \in {"ps_madds0", "ps_madds1"} -> native_ps_madds(s, i, op = "ps_madds1", r)
    [] op = "ps_madd" -> native_ps_madd(s, i, r)
    [] op = "ps_msub" -> native_ps_msub(s, i, r)
    [] op \in {"ps_nmadd", "ps_nmsub"}   -> native_ps_nmadd(s, i, op = "ps_nmsub", r)
EmitPairedMove(op, s, i) ==
  CASE op = "ps_merge" -> EmittedMerge(s, i)
    [] op = "ps_mr"    -> EmittedPairMove(s, i)
    [] op = "ps_abs"   -> EmittedPairAbs(s, i)
    [] op = "ps_nabs"  -> EmittedPairNabs(s, i)
    [] op = "ps_neg"   -> EmittedPairNeg(s, i)
EmitFpscrMove(op, s, i) ==
  CASE op = "mcrfs"  -> EmittedMcrfs(s, i)
    [] op = "mffs"   -> EmittedMffs(s, i)
    [] op = "mtfsb"  -> EmittedMtfsb(s, i)
    [] op = "mtfsfi" -> EmittedMtfsfi(s, i)
    [] op = "mtfsf"  -> EmittedMtfsf(s, i)
=============================================================================
