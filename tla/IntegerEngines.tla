--------------------------- MODULE IntegerEngines ---------------------------
(***************************************************************************)
(* The interpreter and the recompiler execute the same guest instructions:  *)
(* the interpreter one after the other, the recompiler in blocks whose      *)
(* guest registers stay in host registers until the block ends.             *)
(***************************************************************************)
EXTENDS IntegerInterpreter, IntegerNative, Sequences

CONSTANTS
  Programs,        \* what may be executed: a function from names to the records below
  MidBlockDivide   \* whether a division may use registers its block holds

\* A program fixes which instructions may follow each other, in any order:
\*   length, ops          how many, of which operations
\*   forms, records       their registers <<d, a, b>>, and whether they record
\*   immediates           halfword immediates, not yet extended
\*   rotations            <<shift, mask begin, mask end>>
\*   displacements, options  of branches; options as in BranchForms
\*   cuts                 {FALSE}, or BOOLEAN where any instruction may end its block
\*   starts               the machines it starts with

\* The machines whose general registers are R.
Machines(R) ==
  [gpr : [R -> Words], cr : SUBSET BitIndex, xer : SUBSET BitIndex,
   lr : Words, ctr : Words, gqr : Words, cia : Words]

\* What the decoder gives: registers of the machine, halfword immediates, shifts within a
\* word, word displacements.  A condition bit of a program is one of the first eight.
ASSUME IntegerEnginesAssumption ==
  /\ WordBits >= 8
  /\ \A name \in DOMAIN Programs :
       LET p == Programs[name] IN
       /\ p.forms # {}
       /\ \A s \in p.starts :
            /\ s \in Machines(DOMAIN s.gpr)
            /\ \A f \in p.forms : {f[1], f[2], f[3]} \subseteq DOMAIN s.gpr
       /\ p.records \subseteq BOOLEAN /\ p.cuts \subseteq BOOLEAN
       /\ p.immediates \subseteq 0 .. (TwoTo[HalfBits] - 1)
       /\ \A r \in p.rotations : {r[1], r[2], r[3]} \subseteq BitIndex
       /\ p.displacements \subseteq Words
       /\ \A o \in p.options : o.link \in BOOLEAN /\ o.absolute \in BOOLEAN /\ o.bit \in BitIndex

VARIABLES
  program,         \* the name of the program chosen
  start,           \* the machine it started with
  interpreter,     \* the interpreter's machine
  native,          \* the recompiler's machine, in the block in progress
  entry,           \* the address of that block
  index,           \* how many of its instructions have been executed
  executed         \* the instructions executed, each <<operation, instruction>>

vars == <<program, start, interpreter, native, entry, index, executed>>

Init ==
  /\ program \in DOMAIN Programs
  /\ start \in Programs[program].starts
  /\ interpreter = start
  /\ native = Entered(start)
  /\ entry = start.cia
  /\ index = 0
  /\ executed = << >>

\* ---- Instructions -----------------------------------------------------------
Insn(form) ==
  [destination |-> form[1], base |-> form[2], source |-> form[3], record |-> FALSE,
   immediate |-> 0, shift |-> 0, mask_begin |-> 0, mask_end |-> 0, cr_field |-> 0,
   cr_field_source |-> 0, cr_fields |-> {}, cr_source_a_bit |-> 0, cr_source_b_bit |-> 0,
   cr_destination_bit |-> 0, link |-> FALSE, absolute |-> FALSE, ignore_condition |-> TRUE,
   condition_sense |-> FALSE, condition_bit |-> 0, ignore_count |-> TRUE, count_sense |-> FALSE]
Plainly   == {Insn(f) : f \in Programs[program].forms}
Recording(I) == {[i EXCEPT !.record = r] : i \in I, r \in Programs[program].records}
Registers == Recording(Plainly)
WithImmediate(m) == {[i EXCEPT !.immediate = m] : i \in Plainly}
SignedImmediates == UNION {WithImmediate(SignExtended(m, HalfBits)) : m \in Programs[program].immediates}
UnsignedImmediates == UNION {WithImmediate(m) : m \in Programs[program].immediates}
InField(i) == {[i EXCEPT !.cr_field = f] : f \in ConditionFields}
Rotations ==
  Recording({[i EXCEPT !.shift = r[1], !.mask_begin = r[2], !.mask_end = r[3]] :
               i \in Plainly, r \in Programs[program].rotations})
FirstForm == Insn(CHOOSE f \in Programs[program].forms : TRUE)
BitForms  == {[FirstForm EXCEPT !.cr_source_a_bit = a, !.cr_source_b_bit = b,
                                !.cr_destination_bit = d] :
                a \in {0, 3}, b \in {2, SignBit}, d \in {0, 2, 5}}
FieldForms == {[FirstForm EXCEPT !.cr_field = f, !.cr_field_source = g] :
                 f \in ConditionFields, g \in ConditionFields}
MoveForms == {[i EXCEPT !.cr_fields = F] : i \in Plainly, F \in SUBSET ConditionFields}
\* An option of a branch: link, absolute, the bit tested or none, the count tested or not.
BranchForms ==
  {[FirstForm EXCEPT !.immediate = d, !.link = o.link, !.absolute = o.absolute,
                     !.ignore_condition = o.sense = {}, !.condition_sense = TRUE \in o.sense,
                     !.condition_bit = o.bit,
                     !.ignore_count = o.count = {}, !.count_sense = TRUE \in o.count] :
     d \in Programs[program].displacements, o \in Programs[program].options}
Ticks == {0, Modulus - 1, Modulus + 1}

Sums == {"add", "addo", "addc", "addco", "adde", "addeo", "addze", "addzeo", "addme", "addmeo",
         "neg", "nego", "mullw", "mullwo", "mulhw", "mulhwu"}
Differences == {"subf", "subfo", "subfc", "subfco", "subfe", "subfeo", "subfze", "subfzeo",
                "subfme", "subfmeo"}
Divisions   == {"divw", "divwo", "divwu", "divwuo"}
SignedOps   == {"addi", "addis", "addic", "subfic", "mulli", "cmpwi"}
LogicalOps  == {"ori", "oris", "xori", "xoris", "andi", "andis"}
Shifts      == {"slw", "srw", "sraw", "extsb", "extsh", "cntlzw", "cmpw", "cmplw", "or", "and",
                "andc", "eqv", "nand", "nor", "orc", "xor"}
Rotates     == {"srawi", "rlwimi", "rlwinm", "rlwnm"}
BitOps      == {"crand", "crandc", "cror", "crorc", "crnor", "crxor", "crnand", "creqv"}
Moves       == {"mfcr", "mtcrf", "mflr", "mtlr", "mfctr", "mtctr", "mfxer", "mtxer", "mfgqr",
                "mtgqr", "mftb", "mftbu"}
Branches    == {"b", "bc", "bclr", "bcctr"}

\* ---- Steps ------------------------------------------------------------------
Going    == Len(executed) < Programs[program].length
Allowed(ops) == ops \cap Programs[program].ops
Next4(a) == Unsigned(a + 4)
Here     == Unsigned(entry + 4 * index)      \* an address the compiler knows
\* A block ends where the program does, or anywhere else it may be cut.
Last     == IF Len(executed) + 1 = Programs[program].length THEN {TRUE} ELSE Programs[program].cuts

Executes(op, i) == executed' = Append(executed, <<op, i>>) /\ UNCHANGED <<program, start>>
\* The native machine after emitted code n: the block goes on, or ends and the next begins.
Finishes(op, n, ends) ==
  LET s == EndBlock(n, op, Next4(Here)) IN
  IF ends THEN /\ native' = Entered(s.state)
               /\ entry' = s.state.cia
               /\ index' = 0
  ELSE native' = n /\ index' = index + 1 /\ UNCHANGED entry

Sum ==
  /\ Going
  /\ \E op \in Allowed(Sums), i \in Registers, last \in Last :
       /\ Executes(op, i)
       /\ interpreter' = FellThrough(ExecuteSum(op, interpreter, i))
       /\ Finishes(op, EmitSum(op, native, i), last)
Difference ==
  /\ Going
  /\ \E op \in Allowed(Differences), i \in Registers, last \in Last :
       /\ Executes(op, i)
       /\ interpreter' = FellThrough(ExecuteDifference(op, interpreter, i))
       /\ Finishes(op, EmitDifference(op, native, i), last)
\* The helpers of a division use CpuState: the block must not hold its registers.
RegistersInState(i) ==
  {i.base, i.source} \cap native.dirty = {} /\ i.destination \notin DOMAIN native.host
Division ==
  /\ Going
  /\ \E op \in Allowed(Divisions), i \in Registers, last \in Last :
       /\ MidBlockDivide \/ RegistersInState(i)
       /\ Executes(op, i)
       /\ interpreter' = FellThrough(ExecuteDivision(op, interpreter, i))
       /\ Finishes(op, EmittedDivision(op, native, i), last)
Immediate ==
  /\ Going
  /\ \/ \E op \in Allowed(SignedOps), k \in SignedImmediates, last \in Last :
          \E i \in IF op = "cmpwi" THEN InField(k) ELSE IF op = "addic" THEN Recording({k}) ELSE {k} :
            /\ Executes(op, i)
            /\ interpreter' = FellThrough(ExecuteImmediate(op, interpreter, i))
            /\ Finishes(op, EmitImmediate(op, native, i), last)
     \/ \E op \in Allowed({"cmplwi"}), k \in UnsignedImmediates, last \in Last :
          \E i \in InField(k) :
            /\ Executes(op, i)
            /\ interpreter' = FellThrough(ExecuteImmediate(op, interpreter, i))
            /\ Finishes(op, EmitImmediate(op, native, i), last)
Logical ==
  /\ Going
  /\ \E op \in Allowed(LogicalOps), i \in UnsignedImmediates, last \in Last :
       /\ Executes(op, i)
       /\ interpreter' = FellThrough(ExecuteLogical(op, interpreter, i))
       /\ Finishes(op, EmittedLogicalImmediate(op, native, i), last)
Shift ==
  /\ Going
  /\ \E op \in Allowed(Shifts), k \in Registers, last \in Last :
       \E i \in IF op \in {"cmpw", "cmplw"} THEN InField(k) ELSE {k} :
         /\ Executes(op, i)
         /\ interpreter' = FellThrough(ExecuteShift(op, interpreter, i))
         /\ Finishes(op, EmitShift(op, native, i), last)
Rotate ==
  /\ Going
  /\ \E op \in Allowed(Rotates), i \in Rotations, last \in Last :
       /\ Executes(op, i)
       /\ interpreter' = FellThrough(ExecuteRotate(op, interpreter, i))
       /\ Finishes(op, EmitRotate(op, native, i), last)
Condition ==
  /\ Going
  /\ \E op \in Allowed(BitOps \cup {"mcrf", "mcrxr"}), last \in Last :
       \E i \in IF op \in BitOps THEN BitForms ELSE FieldForms :
         /\ Executes(op, i)
         /\ interpreter' = FellThrough(ExecuteCondition(op, interpreter, i))
         /\ Finishes(op, EmitCondition(op, native, i), last)
\* Both engines read the host's clock; here it shows both the same time.
Move ==
  /\ Going
  /\ \E op \in Allowed(Moves), i \in MoveForms, last \in Last :
       \E ticks \in IF op \in {"mftb", "mftbu"} THEN Ticks ELSE {0} :
         /\ Executes(op, i)
         /\ interpreter' = FellThrough(ExecuteMove(op, interpreter, i, ticks))
         /\ Finishes(op, EmitMove(op, native, i, ticks), last)
\* A block goes on after a branch to the next instruction, and after no other.
Branch ==
  /\ Going
  /\ \E op \in Allowed(Branches), i \in BranchForms, last \in Last :
       LET target == IF i.absolute THEN i.immediate ELSE Unsigned(Here + i.immediate)
           ends == last \/ op \in {"bclr", "bcctr"} \/ target # Next4(Here)
       IN  /\ Executes(op, i)
           /\ interpreter' = ExecuteBranch(op, interpreter, i)
           /\ Finishes(op, EmitBranch(op, native, i, Here, ends), ends)

Next == Sum \/ Difference \/ Division \/ Immediate \/ Logical \/ Shift \/ Rotate
          \/ Condition \/ Move \/ Branch
Spec == Init /\ [][Next]_vars

\* ---- Properties ---------------------------------------------------------------
\* The machine the native code stands for: its host registers over CpuState.
Observed ==
  [native.state EXCEPT !.gpr = [r \in DOMAIN @ |-> Guest(native, r)], !.cia = Here]

\* After every instruction, whatever the block kept in host registers, the recompiler's
\* machine is the interpreter's: registers, CR, XER, LR, CTR, GQR and address.
EnginesAgree == Observed = interpreter

\* A fetched register that is not marked dirty still has the value CpuState has for it:
\* writing back the dirty ones is enough wherever the block stops.
CacheCoherent ==
  \A r \in DOMAIN native.host \ native.dirty : native.host[r] = native.state.gpr[r]

\* Pairs of instructions compute on double words: high in register 2, low in register 0;
\* the other operand is in 3 and 1, or is the first instruction's immediate.
DoubleSigned(high, low) == Signed(high) * Modulus + low
Pair(op1, op2) == <<op1, op2>> \in {<<"addc", "adde">>, <<"addc", "addeo">>,
  <<"subfc", "subfe">>, <<"subfc", "subfeo">>, <<"addic", "addze">>, <<"addic", "addzeo">>,
  <<"addic", "addme">>, <<"addic", "addmeo">>, <<"subfic", "subfze">>,
  <<"subfic", "subfzeo">>, <<"subfic", "subfme">>, <<"subfic", "subfmeo">>}
Exact(op1, op2, m) ==
  LET x == DoubleSigned(start.gpr[2], start.gpr[0])
      y == DoubleSigned(start.gpr[3], start.gpr[1])
  IN  CASE op1 = "addc"   -> x + y
        [] op1 = "subfc"  -> y - x
        [] op1 = "addic"  -> x + m - (IF op2 \in {"addme", "addmeo"} THEN Modulus ELSE 0)
        [] op1 = "subfic" -> m - x - (IF op2 \in {"subfme", "subfmeo"} THEN Modulus ELSE 0)

\* The carry makes two instructions one operation on double words: in both engines the pair
\* leaves the double-word sum or difference, and the overflow forms set OV exactly when
\* that does not fit a signed double word.
WideArithmetic ==
  (/\ Len(executed) = 2
   /\ Pair(executed[1][1], executed[2][1])
   /\ <<executed[1][2].destination, executed[1][2].base, executed[1][2].source>> = <<0, 0, 1>>
   /\ <<executed[2][2].destination, executed[2][2].base, executed[2][2].source>> = <<2, 2, 3>>)
  => LET exact == Exact(executed[1][1], executed[2][1], executed[1][2].immediate) IN
     \A s \in {interpreter, Observed} :
       /\ s.gpr[2] * Modulus + s.gpr[0] = exact % (Modulus * Modulus)
       /\ executed[2][1] \in {"addeo", "subfeo", "addzeo", "addmeo", "subfzeo", "subfmeo"} =>
            (OV \in s.xer <=> exact \notin -(Modulus * Smallest) .. (Modulus * Smallest - 1))
=============================================================================
