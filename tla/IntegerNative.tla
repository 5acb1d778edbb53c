--------------------------- MODULE IntegerNative ---------------------------
(***************************************************************************)
(* The code the recompiler emits for the same instructions                 *)
(* (recompiler.cpp, Recompiler::Impl::compile).  Within a block the guest   *)
(* registers live in host registers: a native machine n is a record         *)
(*   state  the CpuState the block works on,                                *)
(*   host   [guest register -> word], on the registers already fetched,     *)
(*   dirty  the fetched registers whose CpuState entry is out of date.      *)
(* CR, XER, LR, CTR and the GQRs are read and written in place.             *)
(***************************************************************************)
EXTENDS GuestWord

NoHost == [r \in {} |-> 0]
\* The machine at the first instruction of a block.
Entered(s) == [state |-> s, host |-> NoHost, dirty |-> {}]

Guest(n, r) == IF r \in DOMAIN n.host THEN n.host[r] ELSE n.state.gpr[r]
read_guest_gpr(n, R) ==
  [n EXCEPT !.host = [r \in DOMAIN n.host \cup R |-> Guest(n, r)]]
\* Mutation: the destination is cached but not marked for the write-back.
WriteWithoutDirty(n, r, value) ==
  [n EXCEPT !.host = [q \in DOMAIN n.host \cup {r} |-> IF q = r THEN value ELSE n.host[q]]]
write_guest_gpr(n, r, value) ==
  [n EXCEPT !.host = [q \in DOMAIN n.host \cup {r} |-> IF q = r THEN value ELSE n.host[q]],
            !.dirty = @ \cup {r}]
flush_guest_gprs(n) ==
  [n EXCEPT !.state.gpr = [r \in DOMAIN @ |-> IF r \in n.dirty THEN n.host[r] ELSE @[r]]]

\* ---- Pieces every emission shares -----------------------------------------
SummaryBit(xer, f) == IF SO \in xer THEN {UN(f)} ELSE {}
\* setl, setg and sete after TEST result, result, merged into field 0.
EmitRecord(n, i, result) ==
  LET order == CASE Negative(result) -> LT(0) [] result = 0 -> EQ(0) [] OTHER -> GT(0) IN
  IF i.record
  THEN [n EXCEPT !.state.cr = (@ \ FieldBits(0)) \cup {order} \cup SummaryBit(n.state.xer, 0)]
  ELSE n
EmitResult(n, i, result) == EmitRecord(write_guest_gpr(n, i.destination, result), i, result)

EmitCarry(n, carry) == [n EXCEPT !.state.xer = (@ \ {CA}) \cup (IF carry THEN {CA} ELSE {})]
\* The summary bit is the old one or the new overflow.
EmitOverflow(n, overflow) ==
  [n EXCEPT !.state.xer = (@ \ {OV}) \cup (IF overflow THEN {SO, OV} ELSE {})]
EmitCarrying(n, i, f)    == EmitResult(EmitCarry(n, f.carry), i, f.value)
EmitOverflowing(n, i, f) == EmitResult(EmitOverflow(n, f.overflow), i, f.value)
EmitBoth(n, i, f) == EmitResult(EmitOverflow(EmitCarry(n, f.carry), f.overflow), i, f.value)

CarryIn(n)      == Carry(n.state.xer)
Fetch(n, i)     == read_guest_gpr(n, {i.base, i.source})
Base(n, i)      == n.host[i.base]
Source(n, i)    == n.host[i.source]
\* SUB sets CF on a borrow; the guest's carry is its complement.
NoBorrow(f) == [f EXCEPT !.carry = ~f.carry]

\* ---- Immediate forms --------------------------------------------------------
immediate_value(op, i) ==
  IF op \in {"addis", "oris", "xoris", "andis"} THEN Unsigned(i.immediate * TwoTo[HalfBits])
  ELSE i.immediate
EmittedAddi(op, n, i) ==
  LET k == IF i.base = 0 THEN n ELSE read_guest_gpr(n, {i.base})
      a == IF i.base = 0 THEN 0 ELSE Base(k, i)
  IN  write_guest_gpr(k, i.destination, Unsigned(a + immediate_value(op, i)))
EmittedSubfic(n, i) ==
  LET k == read_guest_gpr(n, {i.base})
      f == NoBorrow(HostSub(i.immediate, Base(k, i), 0))
  IN  write_guest_gpr(EmitCarry(k, f.carry), i.destination, f.value)
EmittedAddic(n, i) ==
  LET k == read_guest_gpr(n, {i.base}) IN
  EmitCarrying(k, i, HostAdd(Base(k, i), i.immediate, 0))
EmittedMulli(n, i) ==
  LET k == read_guest_gpr(n, {i.base}) IN
  write_guest_gpr(k, i.destination, Unsigned(Base(k, i) * i.immediate))
EmittedLogicalImmediate(op, n, i) ==
  LET k == read_guest_gpr(n, {i.source})
      x == Source(k, i)
      m == immediate_value(op, i)
      result == CASE op \in {"ori", "oris"}   -> Or(x, m)
                  [] op \in {"xori", "xoris"} -> Xor(x, m)
                  [] op \in {"andi", "andis"} -> And(x, m)
  IN  EmitResult(k, [i EXCEPT !.record = op \in {"andi", "andis"}], result)
EmittedCompare(op, n, i) ==
  LET immediate == op \in {"cmpwi", "cmplwi"}
      k == read_guest_gpr(n, {i.base} \cup (IF immediate THEN {} ELSE {i.source}))
      a == Base(k, i)
      b == IF immediate THEN i.immediate ELSE Source(k, i)
      less == IF op \in {"cmpwi", "cmpw"} THEN Signed(a) < Signed(b) ELSE a < b
      order == CASE a = b -> EQ(i.cr_field) [] less -> LT(i.cr_field) [] OTHER -> GT(i.cr_field)
  IN  [k EXCEPT !.state.cr = (@ \ FieldBits(i.cr_field)) \cup {order}
                               \cup SummaryBit(k.state.xer, i.cr_field)]

\* ---- Shifts, extensions and counts --------------------------------------------
\* Shift amounts keep one bit more than the host's shifts honour: that bit is tested.
Amount(x)      == x % (2 * WordBits)
TooFar(amount) == amount >= WordBits
HostShl(x, amount) == Unsigned(x * TwoTo[amount])
EmittedShift(op, n, i) ==
  LET k == Fetch(n, i)
      amount == Amount(Base(k, i))
  IN  EmitResult(k, i, IF TooFar(amount) THEN 0
                       ELSE IF op = "slw" THEN HostShl(Source(k, i), amount)
                       ELSE Source(k, i) \div TwoTo[amount])
EmittedSraw(n, i) ==
  LET k == Fetch(n, i)
      x == Source(k, i)
      amount == Amount(Base(k, i))
      carry == IF TooFar(amount) THEN Negative(x)
               ELSE /\ amount # 0
                    /\ HostShl(x, WordBits - amount) # 0
                    /\ Negative(x)
  IN  EmitCarrying(k, i, [value |-> ShiftRightSigned(x, IF TooFar(amount) THEN SignBit ELSE amount),
                          carry |-> carry])
EmittedSrawi(n, i) ==
  LET k == read_guest_gpr(n, {i.source})
      x == Source(k, i)
  IN  EmitCarrying(k, i, [value |-> ShiftRightSigned(x, i.shift),
                          carry |-> i.shift # 0 /\ Negative(x) /\ x % TwoTo[i.shift] # 0])
\* BSR finds the highest bit set; XOR with the sign's index counts from the other end.
EmittedCountZeros(n, i) ==
  LET k == read_guest_gpr(n, {i.source})
      x == Source(k, i)
      bsr == CHOOSE b \in BitIndex : TwoTo[b] <= x /\ x < TwoTo[b + 1]
  IN  EmitResult(k, i, IF x = 0 THEN WordBits ELSE SignBit - bsr)
EmittedExtendSign(op, n, i) ==
  LET k == read_guest_gpr(n, {i.source})
      up == WordBits - (IF op = "extsh" THEN HalfBits ELSE ByteBits)
  IN  EmitResult(k, i, ShiftRightSigned(HostShl(Source(k, i), up), up))

\* ---- Products and quotients -----------------------------------------------------
EmittedMultiplyLow(op, n, i) ==
  LET k == Fetch(n, i)
      product == Signed(Base(k, i)) * Signed(Source(k, i))
      f == [value |-> Unsigned(product), overflow |-> ~FitsSigned(product)]
  IN  IF op = "mullwo" THEN EmitOverflowing(k, i, f) ELSE EmitResult(k, i, f.value)
EmittedMultiplyHigh(op, n, i) ==
  LET k == Fetch(n, i)
      Wide(x) == IF op = "mulhw" THEN Signed(x) ELSE x
      product == (Wide(Base(k, i)) * Wide(Source(k, i))) % (Modulus * Modulus)
  IN  EmitResult(k, i, product \div Modulus)

\* The helpers work on CpuState, whatever the host registers hold.
Quotient(s, i, result, record_xer) ==
  LET order == CASE Negative(result) -> LT(0) [] result = 0 -> EQ(0) [] OTHER -> GT(0) IN
  [s EXCEPT !.gpr[i.destination] = result, !.xer = record_xer,
            !.cr = IF i.record
                   THEN (@ \ FieldBits(0)) \cup {order} \cup SummaryBit(record_xer, 0)
                   ELSE @]
OverflowXer(xer, overflow) == (xer \ {OV}) \cup (IF overflow THEN {SO, OV} ELSE {})
native_divwu(s, i) ==
  LET b == s.gpr[i.source] IN
  Quotient(s, i, IF b = 0 THEN 0 ELSE s.gpr[i.base] \div b, s.xer)
native_divwuo(s, i) ==
  LET b == s.gpr[i.source] IN
  Quotient(s, i, IF b = 0 THEN 0 ELSE s.gpr[i.base] \div b, OverflowXer(s.xer, b = 0))
Truncated(x, y) == IF (x < 0) # (y < 0) THEN -((IF x < 0 THEN -x ELSE x) \div (IF y < 0 THEN -y ELSE y))
                   ELSE (IF x < 0 THEN -x ELSE x) \div (IF y < 0 THEN -y ELSE y)
SignedResult(a, b) ==
  IF b = 0 THEN (IF Negative(a) THEN AllOnes ELSE 0)
  ELSE IF a = Smallest /\ b = AllOnes THEN AllOnes
  ELSE Unsigned(Truncated(Signed(a), Signed(b)))
native_divw(s, i)  == Quotient(s, i, SignedResult(s.gpr[i.base], s.gpr[i.source]), s.xer)
native_divwo(s, i) ==
  LET a == s.gpr[i.base]
      b == s.gpr[i.source]
  IN  Quotient(s, i, SignedResult(a, b),
               OverflowXer(s.xer, b = 0 \/ (a = Smallest /\ b = AllOnes)))
EmittedDivision(op, n, i) ==
  [n EXCEPT !.state = CASE op = "divwu"  -> native_divwu(n.state, i)
                        [] op = "divwuo" -> native_divwuo(n.state, i)
                        [] op = "divw"   -> native_divw(n.state, i)
                        [] op = "divwo"  -> native_divwo(n.state, i)]

\* ---- Addition and subtraction ------------------------------------------------------
EmittedNegate(n, i) ==
  LET k == read_guest_gpr(n, {i.source}) IN EmitResult(k, i, HostSub(0, Source(k, i), 0).value)
EmittedNegateOverflow(n, i) ==
  LET k == read_guest_gpr(n, {i.source}) IN EmitOverflowing(k, i, HostSub(0, Source(k, i), 0))

\* ADD and the bitwise operations work in the destination when it is an operand.
EmittedBitwise(op, n, i) ==
  LET k == Fetch(n, i)
      a == Base(k, i)
      b == Source(k, i)
  IN  EmitResult(k, i, CASE op = "add"  -> HostAdd(a, b, 0).value
                         [] op = "subf" -> HostSub(b, a, 0).value
                         [] op = "or"   -> Or(a, b)
                         [] op = "and"  -> And(a, b)
                         [] op = "xor"  -> Xor(a, b)
                         [] op = "nor"  -> Not(Or(a, b))
                         [] op = "nand" -> Not(And(a, b))
                         [] op = "eqv"  -> Not(Xor(a, b))
                         [] op = "andc" -> And(b, Not(a))
                         [] op = "orc"  -> Or(b, Not(a)))

EmittedAddOverflow(op, n, i) ==
  LET k == Fetch(n, i) IN
  EmitOverflowing(k, i, IF op = "subfo" THEN HostSub(Source(k, i), Base(k, i), 0)
                        ELSE HostAdd(Base(k, i), Source(k, i), 0))
EmittedSubtractCarrying(n, i) ==
  LET k == Fetch(n, i) IN EmitCarrying(k, i, NoBorrow(HostSub(Source(k, i), Base(k, i), 0)))
EmittedSubtractCarryingOverflow(n, i) ==
  LET k == Fetch(n, i) IN EmitBoth(k, i, NoBorrow(HostSub(Source(k, i), Base(k, i), 0)))
EmittedAddCarrying(n, i) ==
  LET k == Fetch(n, i) IN EmitCarrying(k, i, HostAdd(Base(k, i), Source(k, i), 0))
EmittedAddCarryingOverflow(n, i) ==
  LET k == Fetch(n, i) IN EmitBoth(k, i, HostAdd(Base(k, i), Source(k, i), 0))
\* Two additions, whose carries are merged.
EmittedAddExtended(n, i) ==
  LET k == Fetch(n, i)
      ab == HostAdd(Base(k, i), Source(k, i), 0)
      all == HostAdd(ab.value, CarryIn(n), 0)
  IN  EmitCarrying(k, i, [value |-> all.value, carry |-> ab.carry \/ all.carry])
EmittedAddExtendedOverflow(n, i) ==
  LET k == Fetch(n, i) IN EmitBoth(k, i, HostAdd(Base(k, i), Source(k, i), CarryIn(n)))
EmittedSubtractExtended(n, i) ==
  LET k == Fetch(n, i)
      ba == HostSub(Source(k, i), Base(k, i), 0)
      all == HostSub(ba.value, 1 - CarryIn(n), 0)
  IN  EmitCarrying(k, i, [value |-> all.value, carry |-> ~(ba.carry \/ all.carry)])
EmittedSubtractExtendedOverflow(n, i) ==
  LET k == Fetch(n, i) IN
  EmitBoth(k, i, NoBorrow(HostSub(Source(k, i), Base(k, i), 1 - CarryIn(n))))

\* rA, or its complement, with minus one or zero: two steps, or one ADC when OV is wanted.
EmittedSubtractFromMinusOne(n, i) ==
  LET k == read_guest_gpr(n, {i.base})
      a == Base(k, i)
  IN  EmitCarrying(k, i, [value |-> HostAdd(HostSub(Not(a), 1, 0).value, CarryIn(n), 0).value,
                          carry |-> a # AllOnes \/ CarryIn(n) = 1])
EmittedSubtractFromMinusOneOverflow(n, i) ==
  LET k == read_guest_gpr(n, {i.base}) IN
  EmitBoth(k, i, HostAdd(Not(Base(k, i)), AllOnes, CarryIn(n)))
EmittedAddToMinusOne(n, i) ==
  LET k == read_guest_gpr(n, {i.base})
      a == Base(k, i)
  IN  EmitCarrying(k, i, [value |-> HostAdd(HostSub(a, 1, 0).value, CarryIn(n), 0).value,
                          carry |-> a # 0 \/ CarryIn(n) = 1])
EmittedAddToMinusOneOverflow(n, i) ==
  LET k == read_guest_gpr(n, {i.base}) IN EmitBoth(k, i, HostAdd(Base(k, i), AllOnes, CarryIn(n)))
EmittedAddToZero(n, i) ==
  LET k == read_guest_gpr(n, {i.base}) IN EmitCarrying(k, i, HostAdd(Base(k, i), CarryIn(n), 0))
EmittedAddToZeroOverflow(n, i) ==
  LET k == read_guest_gpr(n, {i.base}) IN EmitBoth(k, i, HostAdd(Base(k, i), 0, CarryIn(n)))
EmittedSubtractFromZero(n, i) ==
  LET k == read_guest_gpr(n, {i.base}) IN
  EmitCarrying(k, i, HostAdd(Not(Base(k, i)), CarryIn(n), 0))
EmittedSubtractFromZeroOverflow(n, i) ==
  LET k == read_guest_gpr(n, {i.base}) IN
  EmitBoth(k, i, HostAdd(Not(Base(k, i)), 0, CarryIn(n)))

\* ---- Rotations and the condition register -----------------------------------------
EmittedRotate(op, n, i) ==
  LET k == read_guest_gpr(n, {i.source} \cup (IF op = "rlwnm" THEN {i.base} ELSE {})
                               \cup (IF op = "rlwimi" THEN {i.destination} ELSE {}))
      amount == IF op = "rlwnm" THEN Base(k, i) % WordBits ELSE i.shift
      mask   == rotate_mask(i.mask_begin, i.mask_end)
      value  == And(RotateLeft(Source(k, i), amount), mask)
  IN  EmitResult(k, i, IF op = "rlwimi" THEN Or(value, And(k.host[i.destination], Not(mask)))
                       ELSE value)
\* The field is shifted down, cut to four bits and shifted to its new place.
FieldValue(bits, f) == {b \in 0..3 : b + 4 * (WordBits \div 4 - 1 - f) \in bits}
AtField(value, f)   == {b + 4 * (WordBits \div 4 - 1 - f) : b \in value}
EmittedMcrf(n, i) ==
  [n EXCEPT !.state.cr = (@ \ FieldBits(i.cr_field))
                           \cup AtField(FieldValue(@, i.cr_field_source), i.cr_field)]
EmittedMfcr(n, i) == write_guest_gpr(n, i.destination, ToWord[n.state.cr])
EmittedMtcrf(n, i) ==
  LET k == read_guest_gpr(n, {i.destination})
      cr_mask == UNION {FieldBits(f) : f \in i.cr_fields}
  IN  IF cr_mask = {} THEN n
      ELSE [k EXCEPT !.state.cr = (@ \ cr_mask) \cup Bits[And(k.host[i.destination], ToWord[cr_mask])]]
EmittedMcrxr(n, i) ==
  [n EXCEPT !.state.cr = (@ \ FieldBits(i.cr_field))
                           \cup AtField(FieldValue(n.state.xer, 0), i.cr_field),
            !.state.xer = @ \ FieldBits(0)]
EmittedConditionBit(op, n, i) ==
  LET a == PpcBit(i.cr_source_a_bit) \in n.state.cr
      b == PpcBit(i.cr_source_b_bit) \in n.state.cr
      rhs == IF op \in {"crandc", "crorc"} THEN ~b ELSE b
      lhs == IF op \in {"crand", "crandc", "crnand"} THEN a /\ rhs
             ELSE IF op \in {"cror", "crorc", "crnor"} THEN a \/ rhs
             ELSE a # rhs
      bit == PpcBit(i.cr_destination_bit)
      result == IF op \in {"crnand", "crnor", "creqv"} THEN ~lhs ELSE lhs
  IN  [n EXCEPT !.state.cr = (@ \ {bit}) \cup (IF result THEN {bit} ELSE {})]

\* ---- Branches: cia is the address of the instruction, known when it is compiled -------
EmittedBranch(n, i, cia, last) ==
  LET target == IF i.absolute THEN i.immediate ELSE Unsigned(cia + i.immediate)
      k == IF i.link THEN [n EXCEPT !.state.lr = Unsigned(cia + 4)] ELSE n
  IN  IF target # Unsigned(cia + 4) \/ last THEN [k EXCEPT !.state.cia = target] ELSE k
\* The target is read before the link register is written.
EmittedConditionalBranch(op, n, i, cia) ==
  LET aligned == And(IF op = "bclr" THEN n.state.lr ELSE n.state.ctr, AllOnes - 3)
      target == IF op # "bc" THEN aligned
                ELSE IF i.absolute THEN i.immediate ELSE Unsigned(cia + i.immediate)
      k == IF i.link THEN [n EXCEPT !.state.lr = Unsigned(cia + 4)] ELSE n
      c == IF i.ignore_count THEN k ELSE [k EXCEPT !.state.ctr = HostSub(@, 1, 0).value]
      taken == /\ i.ignore_count \/ (i.count_sense <=> c.state.ctr = 0)
               /\ i.ignore_condition
                    \/ ((PpcBit(i.condition_bit) \in c.state.cr) <=> i.condition_sense)
  IN  [c EXCEPT !.state.cia = IF taken THEN target ELSE Unsigned(cia + 4)]

\* ---- Special registers and the time base -----------------------------------------------
EmittedSpecialMove(op, n, i) ==
  LET k == read_guest_gpr(n, {i.destination}) IN
  CASE op = "mflr"  -> write_guest_gpr(n, i.destination, n.state.lr)
    [] op = "mfctr" -> write_guest_gpr(n, i.destination, n.state.ctr)
    [] op = "mfxer" -> write_guest_gpr(n, i.destination, ToWord[n.state.xer])
    [] op = "mtlr"  -> [k EXCEPT !.state.lr = k.host[i.destination]]
    [] op = "mtctr" -> [k EXCEPT !.state.ctr = k.host[i.destination]]
    [] op = "mtxer" -> [k EXCEPT !.state.xer = Bits[k.host[i.destination]]]
EmittedGqrMove(op, n, i) ==
  LET k == read_guest_gpr(n, {i.destination}) IN
  IF op = "mfgqr" THEN write_guest_gpr(n, i.destination, n.state.gqr)
  ELSE [k EXCEPT !.state.gqr = k.host[i.destination]]
EmittedTimeBase(op, n, i, ticks) ==
  write_guest_gpr(n, i.destination, IF op = "mftbu" THEN ticks \div Modulus ELSE Unsigned(ticks))

\* ---- The end of a block -----------------------------------------------------------------
\* Any last instruction but a branch leaves the address after it; then the registers
\* are written back.
EndBlock(n, op, next) ==
  flush_guest_gprs(IF op \in {"b", "bc", "bclr", "bcctr"} THEN n ELSE [n EXCEPT !.state.cia = next])

\* ---- The compiler's switch, one operator per family -----------------------------------------
EmitSum(op, n, i) ==
  CASE op = "add"    -> EmittedBitwise(op, n, i)
    [] op = "addo"   -> EmittedAddOverflow(op, n, i)
    [] op = "addc"   -> EmittedAddCarrying(n, i)
    [] op = "addco"  -> EmittedAddCarryingOverflow(n, i)
    [] op = "adde"   -> EmittedAddExtended(n, i)
    [] op = "addeo"  -> EmittedAddExtendedOverflow(n, i)
    [] op = "addze"  -> EmittedAddToZero(n, i)
    [] op = "addzeo" -> EmittedAddToZeroOverflow(n, i)
    [] op = "addme"  -> EmittedAddToMinusOne(n, i)
    [] op = "addmeo" -> EmittedAddToMinusOneOverflow(n, i)
    [] op = "neg"    -> EmittedNegate(n, i)
    [] op = "nego"   -> EmittedNegateOverflow(n, i)
    [] op \in {"mullw", "mullwo"}  -> EmittedMultiplyLow(op, n, i)
    [] op \in {"mulhw", "mulhwu"} -> EmittedMultiplyHigh(op, n, i)
EmitDifference(op, n, i) ==
  CASE op = "subf"    -> EmittedBitwise(op, n, i)
    [] op = "subfo"   -> EmittedAddOverflow(op, n, i)
    [] op = "subfc"   -> EmittedSubtractCarrying(n, i)
    [] op = "subfco"  -> EmittedSubtractCarryingOverflow(n, i)
    [] op = "subfe"   -> EmittedSubtractExtended(n, i)
    [] op = "subfeo"  -> EmittedSubtractExtendedOverflow(n, i)
    [] op = "subfze"  -> EmittedSubtractFromZero(n, i)
    [] op = "subfzeo" -> EmittedSubtractFromZeroOverflow(n, i)
    [] op = "subfme"  -> EmittedSubtractFromMinusOne(n, i)
    [] op = "subfmeo" -> EmittedSubtractFromMinusOneOverflow(n, i)
EmitImmediate(op, n, i) ==
  CASE op \in {"addi", "addis"} -> EmittedAddi(op, n, i)
    [] op = "addic"  -> EmittedAddic(n, i)
    [] op = "subfic" -> EmittedSubfic(n, i)
    [] op = "mulli"  -> EmittedMulli(n, i)
    [] op \in {"cmpwi", "cmplwi"} -> EmittedCompare(op, n, i)
EmitShift(op, n, i) ==
  CASE op \in {"slw", "srw"}     -> EmittedShift(op, n, i)
    [] op = "sraw"               -> EmittedSraw(n, i)
    [] op \in {"extsb", "extsh"} -> EmittedExtendSign(op, n, i)
    [] op = "cntlzw"             -> EmittedCountZeros(n, i)
    [] op \in {"cmpw", "cmplw"}  -> EmittedCompare(op, n, i)
    [] OTHER                     -> EmittedBitwise(op, n, i)
EmitRotate(op, n, i) == IF op = "srawi" THEN EmittedSrawi(n, i) ELSE EmittedRotate(op, n, i)
EmitCondition(op, n, i) ==
  CASE op = "mcrf"  -> EmittedMcrf(n, i)
    [] op = "mcrxr" -> EmittedMcrxr(n, i)
    [] OTHER        -> EmittedConditionBit(op, n, i)
EmitMove(op, n, i, ticks) ==
  CASE op = "mfcr"  -> EmittedMfcr(n, i)
    [] op = "mtcrf" -> EmittedMtcrf(n, i)
    [] op \in {"mfgqr", "mtgqr"} -> EmittedGqrMove(op, n, i)
    [] op \in {"mftb", "mftbu"}  -> EmittedTimeBase(op, n, i, ticks)
    [] OTHER        -> EmittedSpecialMove(op, n, i)
EmitBranch(op, n, i, cia, last) ==
  IF op = "b" THEN EmittedBranch(n, i, cia, last) ELSE EmittedConditionalBranch(op, n, i, cia)
=============================================================================
