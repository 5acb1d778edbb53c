------------------------- MODULE IntegerInterpreter -------------------------
(***************************************************************************)
(* The integer, condition, branch and special-register instructions of the *)
(* interpreter (interpreter.cpp).  A machine s is a record                 *)
(*   gpr [register -> word], cr and xer [sets of bits], lr, ctr, gqr, cia  *)
(* and i is the decoded instruction, with the decoder's field names.       *)
(***************************************************************************)
EXTENDS GuestWord

\* ---- Results, carry, overflow and condition fields ---------------------
OrderBits(field, less, greater) ==
  {IF less THEN LT(field) ELSE IF greater THEN GT(field) ELSE EQ(field)}
CompareField(s, field, less, greater) ==
  [s EXCEPT !.cr = (@ \ FieldBits(field)) \cup OrderBits(field, less, greater)
                     \cup (IF SO \in s.xer THEN {UN(field)} ELSE {})]
set_compare_result(s, field, a, b)          == CompareField(s, field, a < b, a > b)
set_compare_result_unsigned(s, field, a, b) == CompareField(s, field, a < b, a > b)
set_record_result(s, value) == set_compare_result(s, 0, Signed(value), 0)

set_xer_carry(s, carry) ==
  [s EXCEPT !.xer = IF carry THEN @ \cup {CA} ELSE @ \ {CA}]
set_overflow(s, overflow) ==
  [s EXCEPT !.xer = IF overflow THEN @ \cup {OV, SO} ELSE @ \ {OV}]

Put(s, i, value)     == [s EXCEPT !.gpr[i.destination] = value]
Recorded(s, i, value) == IF i.record THEN set_record_result(s, value) ELSE s
Plain(s, i, value)   == Recorded(Put(s, i, value), i, value)
WithOverflow(s, i, value, overflow) ==
  Recorded(set_overflow(Put(s, i, value), overflow), i, value)
WithCarry(s, i, value, carry) ==
  Recorded(set_xer_carry(Put(s, i, value), carry), i, value)
WithBoth(s, i, value, carry, overflow) ==
  Recorded(set_overflow(set_xer_carry(Put(s, i, value), carry), overflow), i, value)

A(s, i) == s.gpr[i.base]
B(s, i) == s.gpr[i.source]

\* ---- Multiplication and division ----------------------------------------
mulli(s, i)  == Put(s, i, Unsigned(Signed(A(s, i)) * Signed(i.immediate)))
mullw(s, i)  == Plain(s, i, Unsigned(Signed(A(s, i)) * Signed(B(s, i))))
mullwo(s, i) ==
  LET product == Signed(A(s, i)) * Signed(B(s, i)) IN
  WithOverflow(s, i, Unsigned(product), ~FitsSigned(product))
mulhwu(s, i) == Plain(s, i, (A(s, i) * B(s, i)) \div Modulus)
mulhw(s, i)  == Plain(s, i, Unsigned((Signed(A(s, i)) * Signed(B(s, i))) \div Modulus))

UnsignedQuotient(a, b) == IF b = 0 THEN 0 ELSE a \div b
divwu(s, i)  == Plain(s, i, UnsignedQuotient(A(s, i), B(s, i)))
divwuo(s, i) == WithOverflow(s, i, UnsignedQuotient(A(s, i), B(s, i)), B(s, i) = 0)

Magnitude(z) == IF z < 0 THEN -z ELSE z
\* C++ division truncates toward zero; the two exceptional quotients are chosen.
SignedQuotient(a, b) ==
  CASE b = 0 -> IF Negative(a) THEN AllOnes ELSE 0
    [] b = AllOnes /\ a = Smallest -> AllOnes
    [] OTHER ->
         LET magnitude == Magnitude(Signed(a)) \div Magnitude(Signed(b)) IN
         Unsigned(IF Negative(a) # Negative(b) THEN -magnitude ELSE magnitude)
DivisionOverflows(a, b) == b = 0 \/ (a = Smallest /\ b = AllOnes)
divw(s, i)  == Plain(s, i, SignedQuotient(A(s, i), B(s, i)))
divwo(s, i) ==
  WithOverflow(s, i, SignedQuotient(A(s, i), B(s, i)), DivisionOverflows(A(s, i), B(s, i)))

\* ---- Addition ------------------------------------------------------------
neg(s, i)  == Plain(s, i, Unsigned(-B(s, i)))
nego(s, i) == WithOverflow(s, i, Unsigned(-B(s, i)), B(s, i) = Smallest)

AddiBase(s, i) == IF i.base = 0 THEN 0 ELSE A(s, i)
addi(s, i)  == Put(s, i, Unsigned(AddiBase(s, i) + i.immediate))
addis(s, i) == Put(s, i, Unsigned(AddiBase(s, i) + i.immediate * TwoTo[HalfBits]))
addic(s, i) ==
  LET sum == A(s, i) + i.immediate IN WithCarry(s, i, Unsigned(sum), sum >= Modulus)

\* The sign tests of addo and subfo on the operands and the wrapped result.
AddOverflows(a, b, result) ==
  SignBit \notin Bits[Xor(a, b)] /\ SignBit \in Bits[Xor(a, result)]
SubtractOverflows(b, a, result) ==
  SignBit \in Bits[Xor(b, a)] /\ SignBit \in Bits[Xor(b, result)]

add(s, i)   == Plain(s, i, Unsigned(A(s, i) + B(s, i)))
addo(s, i)  ==
  LET result == Unsigned(A(s, i) + B(s, i)) IN
  WithOverflow(s, i, result, AddOverflows(A(s, i), B(s, i), result))
addc(s, i)  ==
  LET sum == A(s, i) + B(s, i) IN WithCarry(s, i, Unsigned(sum), sum >= Modulus)
addco(s, i) ==
  LET sum == A(s, i) + B(s, i)
      result == Unsigned(sum)
  IN  WithBoth(s, i, result, sum >= Modulus, AddOverflows(A(s, i), B(s, i), result))

\* An extended sum of words and CA, with its exact signed value.
Extended(s, i, sum, exact) ==
  WithBoth(s, i, Unsigned(sum), sum >= Modulus, ~FitsSigned(exact))
adde(s, i)   ==
  LET sum == A(s, i) + B(s, i) + Carry(s.xer) IN WithCarry(s, i, Unsigned(sum), sum >= Modulus)
addeo(s, i)  ==
  Extended(s, i, A(s, i) + B(s, i) + Carry(s.xer),
           Signed(A(s, i)) + Signed(B(s, i)) + Carry(s.xer))
addze(s, i)  ==
  LET sum == A(s, i) + Carry(s.xer) IN WithCarry(s, i, Unsigned(sum), sum >= Modulus)
addzeo(s, i) == Extended(s, i, A(s, i) + Carry(s.xer), Signed(A(s, i)) + Carry(s.xer))
addme(s, i)  ==
  LET sum == A(s, i) + AllOnes + Carry(s.xer) IN
  WithCarry(s, i, Unsigned(sum), sum >= Modulus)
addmeo(s, i) ==
  Extended(s, i, A(s, i) + AllOnes + Carry(s.xer), Signed(A(s, i)) - 1 + Carry(s.xer))

\* ---- Subtraction: rB - rA -------------------------------------------------
subfic(s, i) == set_xer_carry(Put(s, i, Unsigned(i.immediate - A(s, i))), i.immediate >= A(s, i))
subf(s, i)   == Plain(s, i, Unsigned(B(s, i) - A(s, i)))
subfo(s, i)  ==
  LET result == Unsigned(B(s, i) - A(s, i)) IN
  WithOverflow(s, i, result, SubtractOverflows(B(s, i), A(s, i), result))
subfc(s, i)  == WithCarry(s, i, Unsigned(B(s, i) - A(s, i)), B(s, i) >= A(s, i))
subfco(s, i) ==
  LET result == Unsigned(B(s, i) - A(s, i)) IN
  WithBoth(s, i, result, B(s, i) >= A(s, i), SubtractOverflows(B(s, i), A(s, i), result))
\* Mutation: the carry in is dropped, so a chain of subtractions borrows one too many.
SubtractIgnoringCarry(s, i) ==
  LET sum == Not(A(s, i)) + B(s, i) IN WithCarry(s, i, Unsigned(sum), sum >= Modulus)
subfe(s, i)  ==
  LET sum == Not(A(s, i)) + B(s, i) + Carry(s.xer) IN
  WithCarry(s, i, Unsigned(sum), sum >= Modulus)
subfeo(s, i) ==
  Extended(s, i, Not(A(s, i)) + B(s, i) + Carry(s.xer),
           Signed(B(s, i)) - Signed(A(s, i)) - (1 - Carry(s.xer)))
subfze(s, i) ==
  LET sum == Not(A(s, i)) + Carry(s.xer) IN WithCarry(s, i, Unsigned(sum), sum >= Modulus)
subfzeo(s, i) ==
  Extended(s, i, Not(A(s, i)) + Carry(s.xer), -Signed(A(s, i)) - 1 + Carry(s.xer))
subfme(s, i) ==
  LET sum == Not(A(s, i)) + AllOnes + Carry(s.xer) IN
  WithCarry(s, i, Unsigned(sum), sum >= Modulus)
subfmeo(s, i) ==
  Extended(s, i, Not(A(s, i)) + AllOnes + Carry(s.xer), -Signed(A(s, i)) - 2 + Carry(s.xer))

\* ---- Logic, shifts and rotations --------------------------------------------
SignExtended(x, n) ==
  LET low == x % TwoTo[n] IN low + (IF low >= TwoTo[n - 1] THEN Modulus - TwoTo[n] ELSE 0)
extsb(s, i) == Plain(s, i, SignExtended(B(s, i), ByteBits))
extsh(s, i) == Plain(s, i, SignExtended(B(s, i), HalfBits))

\* Immediates of the logical forms: as they are, or shifted by a halfword.
LogicalOperand(i, shifted) == IF shifted THEN i.immediate * TwoTo[HalfBits] ELSE i.immediate
ori(s, i, shifted)  == Put(s, i, Or(B(s, i), LogicalOperand(i, shifted)))
xori(s, i, shifted) == Put(s, i, Xor(B(s, i), LogicalOperand(i, shifted)))
andi(s, i, shifted) ==
  LET result == And(B(s, i), LogicalOperand(i, shifted)) IN
  set_record_result(Put(s, i, result), result)
cntlzw(s, i) ==
  Plain(s, i, IF B(s, i) = 0 THEN WordBits
              ELSE CHOOSE n \in BitIndex : /\ PpcBit(n) \in Bits[B(s, i)]
                                           /\ \A k \in 0..(n - 1) : PpcBit(k) \notin Bits[B(s, i)])

bitwise(op, s, i) ==
  LET lhs == B(s, i)
      rhs == A(s, i)
  IN  Plain(s, i, CASE op = "or"   -> Or(lhs, rhs)
                    [] op = "and"  -> And(lhs, rhs)
                    [] op = "andc" -> And(lhs, Not(rhs))
                    [] op = "eqv"  -> Not(Xor(lhs, rhs))
                    [] op = "nand" -> Not(And(lhs, rhs))
                    [] op = "nor"  -> Not(Or(lhs, rhs))
                    [] op = "orc"  -> Or(lhs, Not(rhs))
                    [] op = "xor"  -> Xor(lhs, rhs))

rlwinm(s, i, shift) ==
  Plain(s, i, And(RotateLeft(B(s, i), shift), rotate_mask(i.mask_begin, i.mask_end)))
rlwimi(s, i) ==
  LET mask == rotate_mask(i.mask_begin, i.mask_end) IN
  Plain(s, i, Or(And(RotateLeft(B(s, i), i.shift), mask),
                 And(s.gpr[i.destination], Not(mask))))

\* Register shifts take one bit more than a shift within the word.
ShiftAmount(x) == x % (2 * WordBits)
sraw(s, i) ==
  LET source == B(s, i)
      shift  == ShiftAmount(A(s, i))
  IN  IF shift < WordBits
      THEN WithCarry(s, i, ShiftRightSigned(source, shift),
                     Negative(source) /\ source % TwoTo[shift] # 0)
      ELSE WithCarry(s, i, IF Negative(source) THEN AllOnes ELSE 0, Negative(source))
srawi(s, i) ==
  WithCarry(s, i, ShiftRightSigned(B(s, i), i.shift),
            Negative(B(s, i)) /\ B(s, i) % TwoTo[i.shift] # 0)
slw(s, i) ==
  LET shift == ShiftAmount(A(s, i)) IN
  Plain(s, i, IF shift >= WordBits THEN 0 ELSE Unsigned(B(s, i) * TwoTo[shift]))
srw(s, i) ==
  LET shift == ShiftAmount(A(s, i)) IN
  Plain(s, i, IF shift >= WordBits THEN 0 ELSE B(s, i) \div TwoTo[shift])

\* ---- Comparison and the condition register --------------------------------
cmpw(s, i, operand)  == set_compare_result(s, i.cr_field, Signed(A(s, i)), Signed(operand))
cmplw(s, i, operand) == set_compare_result_unsigned(s, i.cr_field, A(s, i), operand)

read_cr_bit(s, n) == PpcBit(n) \in s.cr
condition_bit(op, s, i) ==
  LET a == read_cr_bit(s, i.cr_source_a_bit)
      b == read_cr_bit(s, i.cr_source_b_bit)
      result == CASE op = "crand"  -> a /\ b
                  [] op = "crandc" -> a /\ ~b
                  [] op = "cror"   -> a \/ b
                  [] op = "crorc"  -> a \/ ~b
                  [] op = "crnor"  -> ~(a \/ b)
                  [] op = "crxor"  -> a # b
                  [] op = "crnand" -> ~(a /\ b)
                  [] op = "creqv"  -> a = b
      bit == PpcBit(i.cr_destination_bit)
  IN  [s EXCEPT !.cr = IF result THEN @ \cup {bit} ELSE @ \ {bit}]

\* Four bits of `from`, taken at field `source`, as the bits of field `target`.
Moved(from, source, target) ==
  {PpcBit(4 * target + n) : n \in {k \in 0..3 : PpcBit(4 * source + k) \in from}}
mcrf(s, i) ==
  [s EXCEPT !.cr = (@ \ FieldBits(i.cr_field)) \cup Moved(@, i.cr_field_source, i.cr_field)]
mfcr(s, i) == Put(s, i, ToWord[s.cr])
mtcrf(s, i) ==
  LET mask == UNION {FieldBits(f) : f \in i.cr_fields} IN
  [s EXCEPT !.cr = (@ \ mask) \cup (Bits[s.gpr[i.destination]] \cap mask)]
mcrxr(s, i) ==
  [s EXCEPT !.cr = (@ \ FieldBits(i.cr_field)) \cup Moved(s.xer, 0, i.cr_field),
            !.xer = @ \ FieldBits(0)]

\* ---- Branches ---------------------------------------------------------------
Fallthrough(s) == Unsigned(s.cia + 4)
Linked(s, i)   == IF i.link THEN [s EXCEPT !.lr = Fallthrough(s)] ELSE s
Target(s, i)   == IF i.absolute THEN i.immediate ELSE Unsigned(s.cia + i.immediate)
branch(s, i)   == [Linked(s, i) EXCEPT !.cia = Target(s, i)]

\* BO: whether the condition and the count are tested, and the senses wanted.
\* Mutation: the count is decremented only when the condition holds.
CountOnlyWhenConditionHolds(s, i, target) ==
  LET holds  == i.ignore_condition \/ read_cr_bit(s, i.condition_bit) = i.condition_sense
      counted == IF i.ignore_count \/ ~holds THEN s ELSE [s EXCEPT !.ctr = Unsigned(@ - 1)]
      counts == i.ignore_count \/ ((counted.ctr # 0) # i.count_sense)
  IN  [counted EXCEPT !.cia = IF holds /\ counts THEN target ELSE Fallthrough(s)]
conditional_branch_taken(s, i, target) ==
  LET holds  == i.ignore_condition \/ read_cr_bit(s, i.condition_bit) = i.condition_sense
      counted == IF i.ignore_count THEN s ELSE [s EXCEPT !.ctr = Unsigned(@ - 1)]
      counts == i.ignore_count \/ ((counted.ctr # 0) # i.count_sense)
  IN  [counted EXCEPT !.cia = IF holds /\ counts THEN target ELSE Fallthrough(s)]
Aligned(x) == x - (x % 4)
bc(s, i)    == conditional_branch_taken(Linked(s, i), i, Target(s, i))
bclr(s, i)  == conditional_branch_taken(Linked(s, i), i, Aligned(s.lr))
bcctr(s, i) == conditional_branch_taken(Linked(s, i), i, Aligned(s.ctr))

\* ---- Special registers --------------------------------------------------------
mflr(s, i)  == Put(s, i, s.lr)
mtlr(s, i)  == [s EXCEPT !.lr = s.gpr[i.destination]]
mfctr(s, i) == Put(s, i, s.ctr)
mtctr(s, i) == [s EXCEPT !.ctr = s.gpr[i.destination]]
mfxer(s, i) == Put(s, i, ToWord[s.xer])
mtxer(s, i) == [s EXCEPT !.xer = Bits[s.gpr[i.destination]]]
mfgqr(s, i) == Put(s, i, s.gqr)
mtgqr(s, i) == [s EXCEPT !.gqr = s.gpr[i.destination]]
mftb(s, i, ticks, upper) == Put(s, i, IF upper THEN ticks \div Modulus ELSE Unsigned(ticks))

\* ---- The interpreter's switch, one operator per family -------------------------
ExecuteSum(op, s, i) ==
  CASE op = "add"   -> add(s, i)     [] op = "addo"    -> addo(s, i)
    [] op = "addc"  -> addc(s, i)    [] op = "addco"   -> addco(s, i)
    [] op = "adde"  -> adde(s, i)    [] op = "addeo"   -> addeo(s, i)
    [] op = "addze" -> addze(s, i)   [] op = "addzeo"  -> addzeo(s, i)
    [] op = "addme" -> addme(s, i)   [] op = "addmeo"  -> addmeo(s, i)
    [] op = "neg"   -> neg(s, i)     [] op = "nego"    -> nego(s, i)
    [] op = "mullw" -> mullw(s, i)   [] op = "mullwo"  -> mullwo(s, i)
    [] op = "mulhw" -> mulhw(s, i)   [] op = "mulhwu"  -> mulhwu(s, i)
ExecuteDifference(op, s, i) ==
  CASE op = "subf"   -> subf(s, i)   [] op = "subfo"   -> subfo(s, i)
    [] op = "subfc"  -> subfc(s, i)  [] op = "subfco"  -> subfco(s, i)
    [] op = "subfe"  -> subfe(s, i)  [] op = "subfeo"  -> subfeo(s, i)
    [] op = "subfze" -> subfze(s, i) [] op = "subfzeo" -> subfzeo(s, i)
    [] op = "subfme" -> subfme(s, i) [] op = "subfmeo" -> subfmeo(s, i)
ExecuteDivision(op, s, i) ==
  CASE op = "divw"  -> divw(s, i)    [] op = "divwo"   -> divwo(s, i)
    [] op = "divwu" -> divwu(s, i)   [] op = "divwuo"  -> divwuo(s, i)
ExecuteImmediate(op, s, i) ==
  CASE op = "addi"  -> addi(s, i)    [] op = "addis"   -> addis(s, i)
    [] op = "addic" -> addic(s, i)   [] op = "subfic"  -> subfic(s, i)
    [] op = "mulli" -> mulli(s, i)
    [] op = "cmpwi" -> cmpw(s, i, i.immediate)
    [] op = "cmplwi" -> cmplw(s, i, i.immediate)
ExecuteLogical(op, s, i) ==
  CASE op = "ori"  -> ori(s, i, FALSE)   [] op = "oris"  -> ori(s, i, TRUE)
    [] op = "xori" -> xori(s, i, FALSE)  [] op = "xoris" -> xori(s, i, TRUE)
    [] op = "andi" -> andi(s, i, FALSE)  [] op = "andis" -> andi(s, i, TRUE)
ExecuteShift(op, s, i) ==
  CASE op = "slw"   -> slw(s, i)     [] op = "srw"     -> srw(s, i)
    [] op = "sraw"  -> sraw(s, i)
    [] op = "extsb" -> extsb(s, i)   [] op = "extsh"   -> extsh(s, i)
    [] op = "cntlzw" -> cntlzw(s, i)
    [] op = "cmpw"  -> cmpw(s, i, B(s, i))
    [] op = "cmplw" -> cmplw(s, i, B(s, i))
    [] OTHER        -> bitwise(op, s, i)
ExecuteRotate(op, s, i) ==
  CASE op = "srawi"  -> srawi(s, i)
    [] op = "rlwimi" -> rlwimi(s, i)
    [] op = "rlwinm" -> rlwinm(s, i, i.shift)
    [] op = "rlwnm"  -> rlwinm(s, i, A(s, i) % WordBits)
ExecuteCondition(op, s, i) ==
  CASE op = "mcrf"   -> mcrf(s, i)   [] op = "mcrxr"   -> mcrxr(s, i)
    [] OTHER         -> condition_bit(op, s, i)
ExecuteMove(op, s, i, ticks) ==
  CASE op = "mfcr"   -> mfcr(s, i)   [] op = "mtcrf"   -> mtcrf(s, i)
    [] op = "mflr"   -> mflr(s, i)   [] op = "mtlr"    -> mtlr(s, i)
    [] op = "mfctr"  -> mfctr(s, i)  [] op = "mtctr"   -> mtctr(s, i)
    [] op = "mfxer"  -> mfxer(s, i)  [] op = "mtxer"   -> mtxer(s, i)
    [] op = "mfgqr"  -> mfgqr(s, i)  [] op = "mtgqr"   -> mtgqr(s, i)
    [] op = "mftb"   -> mftb(s, i, ticks, FALSE)
    [] op = "mftbu"  -> mftb(s, i, ticks, TRUE)
ExecuteBranch(op, s, i) ==
  CASE op = "b"      -> branch(s, i) [] op = "bc"      -> bc(s, i)
    [] op = "bclr"   -> bclr(s, i)   [] op = "bcctr"   -> bcctr(s, i)

\* Every other instruction leaves the address of the one after it.
FellThrough(s) == [s EXCEPT !.cia = Fallthrough(s)]
=============================================================================
