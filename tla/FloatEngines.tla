---------------------------- MODULE FloatEngines ----------------------------
(***************************************************************************)
(* The interpreter and the recompiler execute the same floating-point     *)
(* instruction on the same machine state.  The host's arithmetic is the    *)
(* same for both: each step draws one outcome r and gives it to both.      *)
(***************************************************************************)
EXTENDS FloatInterpreter, FloatNative

CONSTANTS Operands,      \* the values a register may start with
          Modes,         \* the FPSCRs a title may have set up with mtfsf
          Outcomes,      \* what the host's arithmetic may give
          FpscrImages,   \* the bits a move to the FPSCR may carry
          MaxSteps       \* instructions executed

\* The host's arithmetic gives no NaN where the instruction has none to propagate.
ASSUME FloatAssumption ==
  /\ \A v \in Operands : IsValue(v)
  /\ \A r \in Outcomes : r.cls \in {"infinity", "tiny", "zero", "normal"} /\ r.neg \in BOOLEAN

VARIABLES interpreter,   \* the interpreter's fpscr, ps0, ps1 and condition field
          native,        \* the recompiler's
          executed       \* the instructions executed so far

vars == <<interpreter, native, executed>>

\* Registers 1, 2 and 3 are sources; 4 is a destination of its own.
FloatRegisters == 1..4

Start(f, x, y, z) ==
  [fpscr |-> update_fpscr_summaries(f),
   ps0 |-> <<Labelled("a", x), Labelled("b", y), Labelled("c", z), DefaultNan>>,
   ps1 |-> <<Labelled("a1", y), Labelled("b1", z), Labelled("c1", x), DefaultNan>>,
   cr |-> {}]

Init ==
  /\ \E f \in Modes, x, y, z \in Operands : interpreter = Start(f, x, y, z)
  /\ native = interpreter
  /\ executed = << >>

Insn == [d |-> 4, a |-> 1, b |-> 2, c |-> 3, truncate |-> FALSE, lane |-> 0,
         ordered |-> FALSE, bit |-> "FX", set |-> FALSE, field |-> 1, fields |-> {},
         bits |-> {}, scalar |-> 2, subtract |-> FALSE, negate |-> FALSE, merge |-> "00"]
\* A destination of its own, or the register of a source.
Aliased == {[Insn EXCEPT !.d = d] : d \in FloatRegisters}

Doubles == {"fadd", "fsub", "fmul", "fdiv", "fmadd", "fmsub", "fnmadd", "fnmsub"}
Singles == {"fadds", "fsubs", "fmuls", "fdivs", "fmadds", "fmsubs", "fnmadds", "fnmsubs"}
Conversions == {"fctiw", "fctiwz", "fsel", "frsp", "frsqrte", "fres"}
LowMoves    == {"fmr", "fneg", "fabs", "fnabs"}
PairedHelpers  == {"ps_sum0", "ps_sum1", "ps_sel", "ps_res", "ps_rsqrte", "ps_sub"}
PairedProducts == {"ps_div", "ps_add", "ps_mul", "ps_muls0", "ps_muls1", "ps_madds0",
                   "ps_madds1", "ps_madd", "ps_msub", "ps_nmadd", "ps_nmsub"}
FpscrMoves     == {"mcrfs", "mffs", "mtfsb", "mtfsfi", "mtfsf"}
PairedMoves    == {"ps_merge", "ps_mr", "ps_abs", "ps_nabs", "ps_neg"}

\* The interpreter's switch over the opcodes above.
Interpreted(op, s, i, r) ==
  CASE op = "fadd"    -> floating_add_double(s, i, r)
    [] op = "fsub"    -> floating_subtract_double(s, i, r)
    [] op = "fmul"    -> floating_multiply_double(s, i, r)
    [] op = "fdiv"    -> floating_divide_double(s, i, r)
    [] op = "fmadd"   -> floating_multiply_add_double(s, i, r)
    [] op = "fmsub"   -> floating_multiply_subtract_double(s, i, r)
    [] op = "fnmadd"  -> floating_negative_multiply_add_double(s, i, r)
    [] op = "fnmsub"  -> floating_negative_multiply_subtract_double(s, i, r)
    [] op = "fadds"   -> floating_add_single(s, i, r)
    [] op = "fsubs"   -> floating_subtract_single(s, i, r)
    [] op = "fmuls"   -> floating_multiply_single(s, i, r)
    [] op = "fdivs"   -> floating_divide_single(s, i, r)
    [] op = "fmadds"  -> floating_multiply_add_single(s, i, r)
    [] op = "fmsubs"  -> floating_multiply_subtract_single(s, i, r)
    [] op = "fnmadds" -> floating_negative_multiply_add_single(s, i, r)
    [] op = "fnmsubs" -> floating_negative_multiply_subtract_single(s, i, r)
    [] op = "fctiw"   -> floating_convert_to_integer_word(s, i, r)
    [] op = "fctiwz"  -> floating_convert_to_integer_word(s, [i EXCEPT !.truncate = TRUE], r)
    [] op = "fsel"    -> floating_select(s, i)
    [] op = "frsp"    -> floating_round_to_single(s, i, r)
    [] op = "frsqrte" -> floating_reciprocal_square_root_estimate(s, i, r)
    [] op = "fres"    -> floating_reciprocal_estimate_single(s, i, r)
InterpretedMove(op, s, i) ==
  CASE op = "fmr"     -> floating_move_register(s, i)
    [] op = "fneg"    -> floating_negate(s, i)
    [] op = "fabs"    -> floating_absolute_value(s, i)
    [] op = "fnabs"   -> floating_negative_absolute_value(s, i)
InterpretedPair(op, s, i, r) ==
  CASE op = "ps_add"  -> paired_single_add(s, i, r)
    [] op = "ps_sub"  -> paired_single_subtract(s, i, r)
    [] op = "ps_div"  -> paired_single_divide(s, i, r)
    [] op = "ps_res"  -> paired_single_reciprocal_estimate(s, i, r)
    [] op = "ps_rsqrte" -> paired_single_reciprocal_square_root_estimate(s, i, r)
    [] op = "ps_mul"   -> paired_single_multiply(s, i, r)
    [] op = "ps_muls0" -> paired_single_multiply(s, [i EXCEPT !.scalar = 0], r)
    [] op = "ps_muls1" -> paired_single_multiply(s, [i EXCEPT !.scalar = 1], r)
    [] op = "ps_madd"  -> paired_single_multiply_add(s, i, r)
    [] op = "ps_madds0" -> paired_single_multiply_add_scalar(s, [i EXCEPT !.scalar = 0], r)
    [] op = "ps_madds1" -> paired_single_multiply_add_scalar(s, [i EXCEPT !.scalar = 1], r)
    [] op = "ps_nmadd" -> paired_single_multiply_add_scalar(s, [i EXCEPT !.negate = TRUE], r)
    [] op = "ps_nmsub" -> paired_single_multiply_add_scalar(s,
                            [i EXCEPT !.negate = TRUE, !.subtract = TRUE], r)
    [] op = "ps_msub"  -> paired_single_multiply_subtract(s, i, r)
    [] op = "ps_sum0"  -> paired_single_sum(s, [i EXCEPT !.scalar = 0], r)
    [] op = "ps_sum1"  -> paired_single_sum(s, [i EXCEPT !.scalar = 1], r)
    [] op = "ps_sel"   -> paired_single_select(s, i)
InterpretedPairMove(op, s, i) ==
  CASE op = "ps_merge" -> paired_single_merge(s, i)
    [] op = "ps_mr"    -> paired_single_move_register(s, i)
    [] op = "ps_abs"   -> paired_single_absolute_value(s, i)
    [] op = "ps_nabs"  -> paired_single_negative_absolute_value(s, i)
    [] op = "ps_neg"   -> paired_single_negate(s, i)
InterpretedFpscr(op, s, i) ==
  CASE op = "mcrfs"  -> move_condition_register_from_fpscr(s, i)
    [] op = "mffs"   -> floating_move_from_fpscr(s, i)
    [] op = "mtfsb"  -> floating_move_to_fpscr_bit(s, i)
    [] op = "mtfsfi" -> floating_move_to_fpscr_field_immediate(s, i)
    [] op = "mtfsf"  -> floating_move_to_fpscr_fields(s, i)

\* Each engine in turn gets the next instruction, as long as MaxSteps allows one.
Going        == Len(executed) < MaxSteps
Executes(op) == executed' = Append(executed, op)

DoubleArithmetic ==
  /\ Going
  /\ \E op \in Doubles, i \in Aliased, r \in Outcomes :
       /\ Executes(op)
       /\ interpreter' = Interpreted(op, interpreter, i, r)
       /\ native' = EmitDouble(op, native, i, r)
SingleArithmetic ==
  /\ Going
  /\ \E op \in Singles, i \in Aliased, r \in Outcomes :
       /\ Executes(op)
       /\ interpreter' = Interpreted(op, interpreter, i, r)
       /\ native' = EmitSingle(op, native, i, r)
Conversion ==
  /\ Going
  /\ \E op \in Conversions, i \in Aliased, r \in Outcomes :
       /\ Executes(op)
       /\ interpreter' = Interpreted(op, interpreter, i, r)
       /\ native' = EmitConversion(op, native, i, r)
LowMove ==
  /\ Going
  /\ \E op \in LowMoves, i \in Aliased :
       /\ Executes(op)
       /\ interpreter' = InterpretedMove(op, interpreter, i)
       /\ native' = EmittedMove(native, i, op)
PairArithmetic ==
  /\ Going
  /\ \E op \in PairedHelpers, i \in Aliased, r \in Outcomes :
       /\ Executes(op)
       /\ interpreter' = InterpretedPair(op, interpreter, i, r)
       /\ native' = EmitPairedHelper(op, native, i, r)
PairProduct ==
  /\ Going
  /\ \E op \in PairedProducts, i \in Aliased, r \in Outcomes :
       /\ Executes(op)
       /\ interpreter' = InterpretedPair(op, interpreter, i, r)
       /\ native' = EmitPairedProduct(op, native, i, r)
PairMove ==
  /\ Going
  /\ \E op \in PairedMoves, k \in Aliased, merge \in {"00", "01", "10", "11"} :
       LET i == [k EXCEPT !.merge = merge] IN
       /\ Executes(op)
       /\ interpreter' = InterpretedPairMove(op, interpreter, i)
       /\ native' = EmitPairedMove(op, native, i)
Compare ==
  /\ Going
  /\ \E lane \in {0, 1}, ordered \in BOOLEAN, order \in {"FL", "FG", "FE"} :
       LET i == [Insn EXCEPT !.lane = lane, !.ordered = ordered]
           r == [order |-> order] IN
       /\ Executes("fcmp")
       /\ interpreter' = floating_compare(interpreter, i, r)
       /\ native' = EmittedCompare(native, i, r)
MoveFpscr ==
  /\ Going
  /\ \E op \in FpscrMoves, bits \in FpscrImages, field \in 1..8, set \in BOOLEAN :
       \E bit \in FpscrField[field] :
         LET i == [Insn EXCEPT !.field = field, !.fields = {field, (field % 8) + 1},
                               !.bit = bit, !.set = set, !.bits = bits] IN
         /\ Executes(op)
         /\ interpreter' = InterpretedFpscr(op, interpreter, i)
         /\ native' = EmitFpscrMove(op, native, i)

Next == DoubleArithmetic \/ SingleArithmetic \/ Conversion \/ LowMove \/ PairArithmetic
          \/ PairProduct \/ PairMove \/ Compare \/ MoveFpscr
Spec == Init /\ [][Next]_vars

LastExecuted == executed'[Len(executed')]

\* The recompiler's helpers and its emitted code leave every register, the FPSCR
\* and the condition field as the interpreter does, whichever registers coincide.
EnginesAgree == native = interpreter

\* VX and FEX, which no instruction writes, always follow from the exception and
\* the enable bits: several paths set status bits and do not recompute them.
SummariesFollow ==
  \A s \in {interpreter, native} :
    /\ "VX" \in s.fpscr <=> s.fpscr \cap InvalidBits # {}
    /\ "FEX" \in s.fpscr <=> \E p \in Enabled : {p[1], p[2]} \subseteq s.fpscr

\* An instruction that raises an exception whose enable bit is set writes no register.
Raises(before, after) ==
  \/ "VE" \in after /\ (after \ before) \cap InvalidBits # {}
  \/ "ZE" \in after /\ "ZX" \in after \ before
EnabledExceptionSuppresses ==
  [][LastExecuted \notin FpscrMoves =>
       \A s \in {<<interpreter, interpreter'>>, <<native, native'>>} :
         Raises(s[1].fpscr, s[2].fpscr) =>
           s[2].ps0 = s[1].ps0 /\ s[2].ps1 = s[1].ps1]_vars
=============================================================================
