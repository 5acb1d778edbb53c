------------------------- MODULE MemoryInterpreter -------------------------
(***************************************************************************)
(* The loads, stores and cache instructions of the interpreter              *)
(* (interpreter.cpp, Interpreter::execute).  A core c is a record           *)
(*   state   the machine of IntegerInterpreter, with the floating-point     *)
(*           registers fpr and ps1, the quantization registers gqr, and     *)
(*           reservation_valid and reservation_address,                     *)
(*   memory  as in ByteMemory,                                              *)
(*   stop    "none", or why the run stopped: "fault" (GuestMemoryFault),    *)
(*           "unsupported" (StepResult::unsupported_instruction) or         *)
(*           "hle_error".                                                   *)
(***************************************************************************)
EXTENDS IntegerInterpreter, ByteMemory, LaneValues

Fault(c)       == [c EXCEPT !.stop = "fault"]
Unsupported(c) == [c EXCEPT !.stop = "unsupported"]
Gpr(c, r)      == c.state.gpr[r]
BaseOrZero(c, i) == IF i.base = 0 THEN 0 ELSE Gpr(c, i.base)

\* Displacement and indexed addresses; the indexed update forms never take base zero.
effective_address(c, i) == Unsigned(BaseOrZero(c, i) + i.immediate)
IndexedAddress(c, i)    == Unsigned(BaseOrZero(c, i) + Gpr(c, i.source))
UpdateAddress(c, i)     == Unsigned(Gpr(c, i.base) + Gpr(c, i.source))

\* ---- Integer loads and stores ----------------------------------------------
Load(c, i, address, width, Convert(_)) ==
  IF Accessible(address, width)
  THEN [c EXCEPT !.state.gpr[i.destination] = Convert(ReadValue(c.memory, address, width))]
  ELSE Fault(c)
\* The base is written after the destination, so it wins when they are one register.
UpdateBase(before, after, i, address) ==
  IF after.stop = before.stop THEN [after EXCEPT !.state.gpr[i.base] = address] ELSE after
LoadUpdate(c, i, address, width, Convert(_)) ==
  UpdateBase(c, Load(c, i, address, width, Convert), i, address)

Store(c, address, width, value) ==
  IF Accessible(address, width)
  THEN [c EXCEPT !.memory = WriteValue(@, c.state.gpr, address, width, value)]
  ELSE Fault(c)
StoreUpdate(c, i, address, width, value) ==
  UpdateBase(c, Store(c, address, width, value), i, address)

Plainly(value)     == value
Algebraic(value)   == SignExtended(value, HalfBits)
WordSwapped(value) == Reversed(value, 4)
HalfSwapped(value) == Reversed(value, 2)

ExecuteLoad(op, c, i) ==
  CASE op = "lwz"   -> Load(c, i, effective_address(c, i), 4, Plainly)
    [] op = "lwzu"  -> LoadUpdate(c, i, effective_address(c, i), 4, Plainly)
    [] op = "lwzx"  -> Load(c, i, IndexedAddress(c, i), 4, Plainly)
    [] op = "lwzux" -> LoadUpdate(c, i, UpdateAddress(c, i), 4, Plainly)
    [] op = "lwbrx" -> Load(c, i, IndexedAddress(c, i), 4, WordSwapped)
    [] op = "lhz"   -> Load(c, i, effective_address(c, i), 2, Plainly)
    [] op = "lhzu"  -> LoadUpdate(c, i, effective_address(c, i), 2, Plainly)
    [] op = "lhzx"  -> Load(c, i, IndexedAddress(c, i), 2, Plainly)
    [] op = "lhzux" -> LoadUpdate(c, i, UpdateAddress(c, i), 2, Plainly)
    [] op = "lhbrx" -> Load(c, i, IndexedAddress(c, i), 2, HalfSwapped)
    [] op = "lha"   -> Load(c, i, effective_address(c, i), 2, Algebraic)
    [] op = "lhax"  -> Load(c, i, IndexedAddress(c, i), 2, Algebraic)
    [] op = "lhaux" -> LoadUpdate(c, i, UpdateAddress(c, i), 2, Algebraic)
    [] op = "lbz"   -> Load(c, i, effective_address(c, i), 1, Plainly)
    [] op = "lbzu"  -> LoadUpdate(c, i, effective_address(c, i), 1, Plainly)
    [] op = "lbzx"  -> Load(c, i, IndexedAddress(c, i), 1, Plainly)
    [] op = "lbzux" -> LoadUpdate(c, i, UpdateAddress(c, i), 1, Plainly)

ExecuteStore(op, c, i) ==
  LET value == Gpr(c, i.destination) IN
  CASE op = "stw"    -> Store(c, effective_address(c, i), 4, value)
    [] op = "stwu"   -> StoreUpdate(c, i, effective_address(c, i), 4, value)
    [] op = "stwx"   -> Store(c, IndexedAddress(c, i), 4, value)
    [] op = "stwux"  -> StoreUpdate(c, i, UpdateAddress(c, i), 4, value)
    [] op = "stwbrx" -> Store(c, IndexedAddress(c, i), 4, WordSwapped(value))
    [] op = "sth"    -> Store(c, effective_address(c, i), 2, value)
    [] op = "sthu"   -> StoreUpdate(c, i, effective_address(c, i), 2, value)
    [] op = "sthx"   -> Store(c, IndexedAddress(c, i), 2, value)
    [] op = "sthux"  -> StoreUpdate(c, i, UpdateAddress(c, i), 2, value)
    [] op = "sthbrx" -> Store(c, IndexedAddress(c, i), 2, HalfSwapped(value))
    [] op = "stb"    -> Store(c, effective_address(c, i), 1, value)
    [] op = "stbu"   -> StoreUpdate(c, i, effective_address(c, i), 1, value)
    [] op = "stbx"   -> Store(c, IndexedAddress(c, i), 1, value)
    [] op = "stbux"  -> StoreUpdate(c, i, UpdateAddress(c, i), 1, value)
    [] op = "stfiwx" -> Store(c, IndexedAddress(c, i), 4, c.state.fpr[i.fp_register] % Modulus)

\* ---- Several registers ----------------------------------------------------------
\* Word by word until one faults; the words already moved stay moved.
WordAt(first, k) == Unsigned(first + 4 * k)
Reached(first, count) == {k \in 0 .. (count - 1) : \A j \in 0..k : Accessible(WordAt(first, j), 4)}
lmw(c, i) ==
  LET first == effective_address(c, i)
      count == GprCount - i.destination
      moved == Reached(first, count)
      done  == [c EXCEPT !.state.gpr = [r \in DOMAIN @ |->
                  IF r - i.destination \in moved
                  THEN ReadValue(c.memory, WordAt(first, r - i.destination), 4) ELSE @[r]]]
  IN  IF moved = 0 .. (count - 1) THEN done ELSE Fault(done)
stmw(c, i) ==
  LET first == effective_address(c, i)
      count == GprCount - i.source
      moved == Reached(first, count)
      done  == [c EXCEPT !.memory = WriteWords(@, c.state.gpr, first, i.source, Cardinality(moved))]
  IN  IF moved = 0 .. (count - 1) THEN done ELSE Fault(done)

ImmediateCount(i) == IF i.string_byte_count = 0 THEN StringDefault ELSE i.string_byte_count
XerCount(xer)     == ToWord[xer \cap 0 .. (StringBits - 1)]
StringRegisters(count) == (count + 3) \div 4
StringRegister(first, k) == (first + k) % GprCount
\* The k-th register of a string: its bytes, and zeros after the last.
StringWord(bytes, k) ==
  Joined([n \in 1..4 |-> IF 4 * k + n <= Len(bytes) THEN bytes[4 * k + n] ELSE 0])

LoadString(c, i, address, count) ==
  IF count = 0 THEN c
  ELSE IF ~Accessible(address, count) THEN Fault(c)
  ELSE LET bytes == ReadBytes(c.memory, address, count)
           Into(r) == {k \in 0 .. (StringRegisters(count) - 1) :
                         StringRegister(i.destination, k) = r}
       IN  [c EXCEPT !.state.gpr = [r \in DOMAIN @ |-> IF Into(r) = {} THEN @[r]
                                                       ELSE StringWord(bytes, CHOOSE k \in Into(r) : TRUE)]]
lswi(c, i) == LoadString(c, i, BaseOrZero(c, i), ImmediateCount(i))
lswx(c, i) == LoadString(c, i, IndexedAddress(c, i), XerCount(c.state.xer))

StringBytes(gpr, first, count) ==
  [n \in 1..count |-> Parted(gpr[StringRegister(first, (n - 1) \div 4)], 4)[1 + ((n - 1) % 4)]]
StoreString(c, i, address, count) ==
  IF count = 0 THEN c
  ELSE IF ~Accessible(address, count) THEN Fault(c)
  ELSE [c EXCEPT !.memory = WriteBytes(@, c.state.gpr, address,
                                       StringBytes(c.state.gpr, i.source, count))]
stswi(c, i) == StoreString(c, i, BaseOrZero(c, i), ImmediateCount(i))
\* stswx indexes with the field other stores take their value from.
stswx(c, i) ==
  StoreString(c, i, Unsigned(BaseOrZero(c, i) + Gpr(c, i.destination)), XerCount(c.state.xer))

\* ---- Reservations -----------------------------------------------------------------
lwarx(c, i) ==
  LET address == IndexedAddress(c, i) IN
  IF address % 4 # 0 \/ ~Accessible(address, 4) THEN Fault(c)
  ELSE [c EXCEPT !.state.gpr[i.destination] = ReadValue(c.memory, address, 4),
                 !.state.reservation_address = resolve_alias_address(address),
                 !.state.reservation_valid = TRUE]
Reserved(s, address) ==
  s.reservation_valid /\ s.reservation_address = resolve_alias_address(address)
ConditionalResult(s, success) ==
  [s EXCEPT !.cr = (@ \ FieldBits(0)) \cup (IF success THEN {EQ(0)} ELSE {})
                     \cup (IF SO \in s.xer THEN {UN(0)} ELSE {})]
\* Mutation: an attempt on another address leaves the reservation for a later one.
StoreKeepingReservation(c, i) ==
  LET address == IndexedAddress(c, i)
      success == Reserved(c.state, address)
      stored  == IF success THEN Store(c, address, 4, Gpr(c, i.destination)) ELSE c
  IN  IF address % 4 # 0 \/ stored.stop # "none" THEN Fault(c)
      ELSE [stored EXCEPT !.state = [ConditionalResult(@, success)
                                       EXCEPT !.reservation_valid = @ /\ ~success]]
stwcx(c, i) ==
  LET address == IndexedAddress(c, i)
      success == Reserved(c.state, address)
      stored  == IF success THEN Store(c, address, 4, Gpr(c, i.destination)) ELSE c
  IN  IF address % 4 # 0 \/ stored.stop # "none" THEN Fault(c)
      ELSE [stored EXCEPT !.state = [ConditionalResult(@, success)
                                       EXCEPT !.reservation_valid = FALSE]]

\* ---- Floating-point registers -------------------------------------------------------
FloatAddress(op, c, i) ==
  IF op \in {"lfsx", "lfsux", "lfdx", "lfdux", "stfsx", "stfsux", "stfdx", "stfdux"}
  THEN IndexedAddress(c, i) ELSE effective_address(c, i)
Updating(op, before, after, i, address) ==
  IF op \in {"lfsu", "lfsux", "lfdu", "lfdux", "stfsu", "stfsux", "stfdu", "stfdux",
             "psq_lu", "psq_lux", "psq_stu", "psq_stux"}
  THEN UpdateBase(before, after, i, address) ELSE after
lfs(op, c, i) ==
  LET address == FloatAddress(op, c, i)
      double  == Widen(ReadValue(c.memory, address, 4))
  IN  IF ~Accessible(address, 4) THEN Fault(c)
      ELSE Updating(op, c, [c EXCEPT !.state.fpr[i.fp_register] = double,
                                     !.state.ps1[i.fp_register] = double], i, address)
lfd(op, c, i) ==
  LET address == FloatAddress(op, c, i) IN
  IF ~Accessible(address, 8) THEN Fault(c)
  ELSE Updating(op, c, [c EXCEPT !.state.fpr[i.fp_register] = ReadValue(c.memory, address, 8)],
                i, address)
stfs(op, c, i) ==
  LET address == FloatAddress(op, c, i) IN
  Updating(op, c, Store(c, address, 4, Narrow(c.state.fpr[i.fp_register])), i, address)
stfd(op, c, i) ==
  LET address == FloatAddress(op, c, i) IN
  Updating(op, c, Store(c, address, 8, c.state.fpr[i.fp_register]), i, address)

\* ---- Quantized pairs ------------------------------------------------------------------
QuantizedAddress(op, c, i) ==
  IF op \in {"psq_lx", "psq_lux", "psq_stx", "psq_stux"} THEN IndexedAddress(c, i)
  ELSE effective_address(c, i)
Reserved3(type) == type \in 1..3
LaneWidth(type) == CASE type = 0 -> 4 [] type \in {4, 6} -> 1 [] OTHER -> 2
load_lane(m, address, type, scale) ==
  LET raw == ReadValue(m, address, LaneWidth(type))
      number == CASE type \in {4, 5} -> raw
                  [] type = 6 -> Signed(SignExtended(raw, ByteBits))
                  [] type = 7 -> Signed(SignExtended(raw, HalfBits))
  IN  Widen(IF type = 0 THEN raw ELSE SingleOf(Scaled(number, -scale)))
psq_l(op, c, i) ==
  LET gqr     == c.state.gqr[i.quantized_register]
      address == QuantizedAddress(op, c, i)
      second  == Unsigned(address + LaneWidth(gqr.load_type))
      Lane(a) == load_lane(c.memory, a, gqr.load_type, SignedScale(gqr.load_scale))
      Readable(a) == Accessible(a, LaneWidth(gqr.load_type))
  IN  IF Reserved3(gqr.load_type) THEN Unsupported(c)
      ELSE IF ~Readable(address) \/ (~i.paired_single_w /\ ~Readable(second)) THEN Fault(c)
      ELSE Updating(op, c,
             [c EXCEPT !.state.fpr[i.fp_register] = Lane(address),
                       !.state.ps1[i.fp_register] =
                         IF i.paired_single_w THEN Widen(One) ELSE Lane(second)], i, address)

Limits(type) ==
  CASE type = 4 -> <<0, ByteBase - 1>>
    [] type = 5 -> <<0, TwoTo[HalfBits] - 1>>
    [] type = 6 -> <<-(ByteBase \div 2), ByteBase \div 2 - 1>>
    [] type = 7 -> <<-(TwoTo[HalfBits - 1]), TwoTo[HalfBits - 1] - 1>>
quantize_lane(single, type, scale) ==
  IF type = 0 THEN single
  ELSE Unsigned(Clamp(Scaled(NumberOf(single), scale), Limits(type)[1], Limits(type)[2]))
\* Mutation: each lane is validated only when it is written.
StoreLaneByLane(op, c, i) ==
  LET gqr     == c.state.gqr[i.quantized_register]
      address == QuantizedAddress(op, c, i)
      width   == LaneWidth(gqr.store_type)
      ps0     == Narrow(c.state.fpr[i.fp_register])
      ps1     == Narrow(c.state.ps1[i.fp_register])
      Value(single) == quantize_lane(single, gqr.store_type, SignedScale(gqr.store_scale))
      first   == Store(c, address, width, Value(ps0))
      both    == IF i.paired_single_w \/ first.stop # "none" THEN first
                 ELSE Store(first, Unsigned(address + width), width, Value(ps1))
  IN  IF \/ Reserved3(gqr.store_type)
         \/ gqr.store_type # 0 /\ (IsNaN(ps0) \/ (~i.paired_single_w /\ IsNaN(ps1)))
      THEN Unsupported(c)
      ELSE Updating(op, c, both, i, address)
psq_st(op, c, i) ==
  LET gqr     == c.state.gqr[i.quantized_register]
      address == QuantizedAddress(op, c, i)
      width   == LaneWidth(gqr.store_type)
      ps0     == Narrow(c.state.fpr[i.fp_register])
      ps1     == Narrow(c.state.ps1[i.fp_register])
      Value(single) == quantize_lane(single, gqr.store_type, SignedScale(gqr.store_scale))
      first   == Store(c, address, width, Value(ps0))
      both    == IF i.paired_single_w THEN first
                 ELSE Store(first, Unsigned(address + width), width, Value(ps1))
  IN  IF \/ Reserved3(gqr.store_type)
         \/ gqr.store_type # 0 /\ (IsNaN(ps0) \/ (~i.paired_single_w /\ IsNaN(ps1)))
      THEN Unsupported(c)
      ELSE IF ~Accessible(address, IF i.paired_single_w THEN width ELSE 2 * width) THEN Fault(c)
      ELSE Updating(op, c, both, i, address)

\* ---- Cache instructions ---------------------------------------------------------------
CacheBlockOf(address) == address - (address % CacheBlock)
Zeros == [k \in 1..CacheBlock |-> 0]
dcbz(c, i) ==
  LET block == CacheBlockOf(IndexedAddress(c, i)) IN
  IF Accessible(block, CacheBlock)
  THEN [c EXCEPT !.memory = WriteBytes(@, c.state.gpr, block, Zeros)]
  ELSE Fault(c)
dcbst(c, i) == IF Accessible(IndexedAddress(c, i), 1) THEN c ELSE Fault(c)

\* ---- The interpreter's switch -----------------------------------------------------------
ExecuteFloat(op, c, i) ==
  CASE op \in {"lfs", "lfsu", "lfsx", "lfsux"}         -> lfs(op, c, i)
    [] op \in {"lfd", "lfdu", "lfdx", "lfdux"}         -> lfd(op, c, i)
    [] op \in {"stfs", "stfsu", "stfsx", "stfsux"}     -> stfs(op, c, i)
    [] op \in {"stfd", "stfdu", "stfdx", "stfdux"}     -> stfd(op, c, i)
    [] op \in {"psq_l", "psq_lu", "psq_lx", "psq_lux"} -> psq_l(op, c, i)
    [] op \in {"psq_st", "psq_stu", "psq_stx", "psq_stux"} -> psq_st(op, c, i)
ExecuteMany(op, c, i) ==
  CASE op = "lmw"   -> lmw(c, i)    [] op = "stmw"  -> stmw(c, i)
    [] op = "lswi"  -> lswi(c, i)   [] op = "lswx"  -> lswx(c, i)
    [] op = "stswi" -> stswi(c, i)  [] op = "stswx" -> stswx(c, i)
ExecuteOther(op, c, i) ==
  CASE op = "lwarx" -> lwarx(c, i)  [] op = "stwcx" -> stwcx(c, i)
    [] op = "dcbz"  -> dcbz(c, i)
    [] op \in {"dcbst", "dcbf"} -> dcbst(c, i)
    [] op \in {"icbi", "dcbt", "dcbtst", "sync", "isync"} -> c
    [] op = "addi"  -> [c EXCEPT !.state = addi(@, i)]

\* One step: the watchpoint learns the address, and a completed instruction moves on.
step(c, Execute(_)) ==
  LET done == Execute([c EXCEPT !.memory = set_current_guest_cia(@, c.state.cia)]) IN
  IF done.stop = "none" THEN [done EXCEPT !.state = FellThrough(@)] ELSE done
=============================================================================
