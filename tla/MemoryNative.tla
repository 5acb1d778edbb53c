---------------------------- MODULE MemoryNative ----------------------------
(***************************************************************************)
(* The code the recompiler emits for loads, stores and cache instructions,  *)
(* and the helpers it calls (recompiler.cpp).  A native machine n is that   *)
(* of IntegerNative with                                                    *)
(*   memory  the guest memory, as in ByteMemory,                            *)
(*   exit    "no" inside the block, "left" when a store into the block's    *)
(*           own words or dcbz ended it, "fault" when a helper caught a     *)
(*           GuestMemoryFault, "unsupported" for context.unsupported_...    *)
(* An instruction i is compiled at the address `here` of the block          *)
(* [start, size]; both are constants of the emitted code.                   *)
(***************************************************************************)
EXTENDS IntegerNative, ByteMemory, LaneValues

Begin(state, memory) ==
  [state |-> state, host |-> NoHost, dirty |-> {}, memory |-> memory, exit |-> "no"]
\* Every early return stores the address to go on from; most write the registers back.
Return(n, exit, cia)  == [n EXCEPT !.state.cia = cia, !.exit = exit]
FlushReturn(n, exit, cia) == Return(flush_guest_gprs(n), exit, cia)
\* A helper that uses CpuState.gpr runs on flushed registers, which are then forgotten.
Forgotten(n) == [n EXCEPT !.host = NoHost, !.dirty = {}]

Watched(n) == n.memory.watch # {}
\* Helpers tell the watchpoint which instruction they act for.
Announced(n, here) == [n EXCEPT !.memory = set_current_guest_cia(@, here)]
Stored(n, address, width, value) ==
  [n EXCEPT !.memory = WriteValue(@, n.state.gpr, address, width, value)]

\* The registers an address is made of, and the address.
FetchAddress(n, i, indexed) ==
  read_guest_gpr(n, (IF i.base = 0 THEN {} ELSE {i.base}) \cup (IF indexed THEN {i.source} ELSE {}))
Address(n, i, indexed) ==
  Unsigned((IF i.base = 0 THEN 0 ELSE Guest(n, i.base))
             + (IF indexed THEN Guest(n, i.source) ELSE i.immediate))

\* ---- A store into the block's own words ends it ------------------------------------
BlockEnd(block) == Unsigned(block.start + 4 * block.size)
OverlapsBlock(block, address, width) ==
  address < BlockEnd(block) /\ Unsigned(address + width) > block.start
\* Longer stores also leave when they might run past the last address.
OverlapsOrWraps(block, address, width) ==
  address > AllOnes - width + 1 \/ OverlapsBlock(block, address, width)

\* ---- The scalar accesses ---------------------------------------------------------------
memory_width(op) ==
  CASE op \in {"lbz", "lbzu", "stb", "stbu", "lbzx", "lbzux", "stbx", "stbux", "dcbst", "dcbf"} -> 1
    [] op \in {"lhz", "lhzu", "lha", "sth", "sthu", "lhzx", "lhzux", "lhbrx", "lhax", "lhaux",
               "sthx", "sthux", "sthbrx"} -> 2
    [] op \in {"stfd", "stfdu", "stfdx", "stfdux"} -> 8
    [] OTHER -> 4
SingleStores == {"stfs", "stfsu", "stfsx", "stfsux"}
DoubleStores == {"stfd", "stfdu", "stfdx", "stfdux"}
is_memory_store(op) ==
  op \in {"stw", "stwu", "stwx", "stwux", "stwbrx", "stwcx", "stb", "stbu", "stbx", "stbux",
          "sth", "sthu", "sthx", "sthux", "sthbrx", "stfiwx"} \cup SingleStores \cup DoubleStores
is_indexed_memory(op) ==
  op \in {"lwzx", "lwzux", "lwarx", "lwbrx", "lbzx", "lbzux", "lfsx", "lfsux", "lfdx", "lfdux",
          "lhzx", "lhzux", "lhbrx", "lhax", "lhaux", "stwx", "stwux", "stwbrx", "stwcx", "stbx",
          "stbux", "sthx", "sthux", "sthbrx", "stfsx", "stfsux", "stfdx", "stfdux", "stfiwx",
          "icbi", "dcbt", "dcbtst", "dcbst", "dcbf", "dcbz",
          "psq_lx", "psq_lux", "psq_stx", "psq_stux"}
UpdatesBase(op) ==
  op \in {"lbzu", "lwzu", "lwzux", "lbzux", "lhzu", "lhzux", "lhaux", "stbu", "stwu", "stwux",
          "sthu", "stbux", "sthux", "stfsu", "stfsux", "stfdu", "stfdux"}

\* The result of a load: straight from flat memory when it lies there, else by the helper.
native_memory_access(n, address, width, sign_extend) ==
  LET raw == ReadValue(n.memory, address, width) IN
  IF sign_extend /\ width = 2 /\ raw >= TwoTo[HalfBits - 1]
  THEN raw + (Modulus - TwoTo[HalfBits]) ELSE raw
FlatRead(n, address, width) == Joined([k \in 1..width |-> n.memory.bytes[address + k - 1]])
Flat(address, width)   == address + width <= FlatSize
Swapped(op, value) ==
  CASE op = "lwbrx" -> Reversed(value, 4) [] op = "lhbrx" -> Reversed(value, 2) [] OTHER -> value

WithBase(op, n, i, address) == IF UpdatesBase(op) THEN write_guest_gpr(n, i.base, address) ELSE n
\* Mutation: a faulting load writes back its host register without reloading it.
UnloadedDestination(op, n, i, here) ==
  LET r == i.destination
      k == [n EXCEPT !.host = [q \in DOMAIN @ \cup {r} |-> IF q \in DOMAIN n.host THEN @[q] ELSE 0],
                     !.dirty = @ \cup {r} \cup (IF UpdatesBase(op) THEN {i.base} ELSE {})]
  IN  FlushReturn(k, "fault", here)
\* The fault edge of a load is compiled after its success edge, which marked the
\* destination: when it was not cached its host register is loaded before the write-back.
FaultedLoad(op, n, i, here) ==
  LET r == i.destination
      k == [n EXCEPT !.host = [q \in DOMAIN @ \cup {r} |-> Guest(n, q)],
                     !.dirty = @ \cup {r} \cup (IF UpdatesBase(op) THEN {i.base} ELSE {})]
  IN  FlushReturn(k, "fault", here)
EmittedLoad(op, n, i, here) ==
  LET k == FetchAddress(n, i, is_indexed_memory(op))
      address == Address(k, i, is_indexed_memory(op))
      width   == memory_width(op)
      sign_extend == op \in {"lha", "lhax", "lhaux"}
      direct  == ~sign_extend /\ Flat(address, width)
      called  == IF direct THEN k ELSE Announced(k, here)
      value   == IF direct THEN FlatRead(k, address, width)
                 ELSE native_memory_access(k, address, width, sign_extend)
  IN  IF ~direct /\ ~Accessible(address, width) THEN FaultedLoad(op, called, i, here)
      ELSE WithBase(op, write_guest_gpr(called, i.destination, Swapped(op, value)), i, address)

\* What a store passes to its helper.
StoredValue(op, n, i) ==
  CASE op = "stfiwx"  -> n.state.fpr[i.fp_register] % Modulus
    [] op = "stwbrx"  -> Reversed(Guest(n, i.destination), 4)
    [] op = "sthbrx"  -> Reversed(Guest(n, i.destination), 2)
    [] op \in SingleStores -> Narrow(n.state.fpr[i.fp_register])
    [] op \in DoubleStores -> n.state.fpr[i.fp_register]
    [] OTHER          -> Guest(n, i.destination)
FetchStored(op, n, i) ==
  IF op \in SingleStores \cup DoubleStores \cup {"stfiwx"} THEN n
  ELSE read_guest_gpr(n, {i.destination})
\* Mutation: the watchpoint reads the registers CpuState held when the block began.
StoreUnflushed(op, n, i, here, block) ==
  LET k == FetchStored(op, FetchAddress(n, i, is_indexed_memory(op)), i)
      address == Address(k, i, is_indexed_memory(op))
      width   == memory_width(op)
      done    == WithBase(op, Stored(Announced(k, here), address, width, StoredValue(op, k, i)),
                          i, address)
  IN  IF ~Accessible(address, width) THEN FlushReturn(Announced(k, here), "fault", here)
      ELSE IF OverlapsBlock(block, address, width) THEN FlushReturn(done, "left", Unsigned(here + 4))
      ELSE done
EmittedStore(op, n, i, here, block) ==
  LET fetched == FetchStored(op, FetchAddress(n, i, is_indexed_memory(op)), i)
      k       == IF Watched(n) THEN flush_guest_gprs(fetched) ELSE fetched
      address == Address(k, i, is_indexed_memory(op))
      width   == memory_width(op)
      done    == WithBase(op, Stored(Announced(k, here), address, width, StoredValue(op, k, i)),
                          i, address)
  IN  IF ~Accessible(address, width) THEN FlushReturn(Announced(k, here), "fault", here)
      ELSE IF OverlapsBlock(block, address, width) THEN FlushReturn(done, "left", Unsigned(here + 4))
      ELSE done
\* dcbst and dcbf read a byte, and share the edges of a store.
EmittedValidation(n, i, here, block) ==
  LET k == FetchAddress(n, i, TRUE)
      address == Address(k, i, TRUE)
  IN  IF ~Accessible(address, 1) THEN FlushReturn(Announced(k, here), "fault", here)
      ELSE IF OverlapsBlock(block, address, 1)
      THEN FlushReturn(Announced(k, here), "left", Unsigned(here + 4))
      ELSE Announced(k, here)

\* ---- Reservations ---------------------------------------------------------------------
\* The helper writes CpuState; a cached destination is reloaded from there.
EmittedLoadReserve(n, i, here) ==
  LET k == flush_guest_gprs(FetchAddress(n, i, TRUE))
      address == Address(k, i, TRUE)
      value   == ReadValue(k.memory, address, 4)
      r       == i.destination
  IN  IF address % 4 # 0 \/ ~Accessible(address, 4) THEN Return(k, "fault", here)
      ELSE [k EXCEPT !.state.gpr[r] = value,
                     !.state.reservation_address = resolve_alias_address(address),
                     !.state.reservation_valid = TRUE,
                     !.host = [q \in DOMAIN @ |-> IF q = r THEN value ELSE @[q]]]
EmittedStoreConditional(n, i, here) ==
  LET k == flush_guest_gprs(read_guest_gpr(FetchAddress(n, i, TRUE), {i.destination}))
      address == Address(k, i, TRUE)
      success == /\ k.state.reservation_valid
                 /\ k.state.reservation_address = resolve_alias_address(address)
      stored  == IF success THEN Stored(Announced(k, here), address, 4, Guest(k, i.destination))
                 ELSE k
  IN  IF address % 4 # 0 \/ (success /\ ~Accessible(address, 4))
      THEN Return(k, "fault", here)
      ELSE [stored EXCEPT !.state.reservation_valid = FALSE,
                          !.state.cr = (@ \ FieldBits(0)) \cup (IF success THEN {EQ(0)} ELSE {})
                                         \cup SummaryBit(k.state.xer, 0)]

\* ---- Several registers -------------------------------------------------------------------
\* The helpers go on to the next word until one cannot be accessed.
Reach(first, count) ==
  {k \in 0 .. (count - 1) : \A j \in 0..k : Accessible(Unsigned(first + 4 * j), 4)}
EmittedLoadMultiple(n, i, here) ==
  LET fetched == FetchAddress(n, i, FALSE)
      first == Address(fetched, i, FALSE)
      count == GprCount - i.destination
      reach == Reach(first, count)
      k     == Forgotten(flush_guest_gprs(fetched))
      moved == [k EXCEPT !.state.gpr = [r \in DOMAIN @ |->
                  IF r - i.destination \in reach
                  THEN ReadValue(k.memory, Unsigned(first + 4 * (r - i.destination)), 4) ELSE @[r]]]
  IN  IF reach = 0 .. (count - 1) THEN moved ELSE Return(moved, "fault", here)
EmittedStoreMultiple(n, i, here, block) ==
  LET fetched == FetchAddress(n, i, FALSE)
      first == Address(fetched, i, FALSE)
      count == GprCount - i.source
      reach == Reach(first, count)
      k     == Announced(Forgotten(flush_guest_gprs(fetched)), here)
      moved == [k EXCEPT !.memory = WriteWords(@, k.state.gpr, first, i.source, Cardinality(reach))]
  IN  IF reach # 0 .. (count - 1) THEN Return(moved, "fault", here)
      ELSE IF OverlapsOrWraps(block, first, 4 * count) THEN Return(moved, "left", Unsigned(here + 4))
      ELSE moved

Count(op, n, i) ==
  IF op \in {"lswx", "stswx"} THEN ToWord[n.state.xer \cap 0 .. (StringBits - 1)]
  ELSE IF i.string_byte_count = 0 THEN StringDefault ELSE i.string_byte_count
\* The helpers compute the address from CpuState, which has just been written back.
StringAddress(op, s, i) ==
  Unsigned((IF i.base = 0 THEN 0 ELSE s.gpr[i.base])
             + (CASE op = "lswx" -> s.gpr[i.source] [] op = "stswx" -> s.gpr[i.destination]
                  [] OTHER -> 0))
EmittedLoadString(op, n, i, here) ==
  LET k       == Forgotten(flush_guest_gprs(n))
      count   == Count(op, k, i)
      address == StringAddress(op, k.state, i)
      bytes   == ReadBytes(k.memory, address, count)
      Word(j) == Joined([b \in 1..4 |-> IF 4 * j + b <= count THEN bytes[4 * j + b] ELSE 0])
      Puts(r) == {j \in 0 .. ((count + 3) \div 4 - 1) : (i.destination + j) % GprCount = r}
  IN  IF count = 0 THEN k
      ELSE IF ~Accessible(address, count) THEN Return(k, "fault", here)
      ELSE [k EXCEPT !.state.gpr = [r \in DOMAIN @ |-> IF Puts(r) = {} THEN @[r]
                                                        ELSE Word(CHOOSE j \in Puts(r) : TRUE)]]
EmittedStoreString(op, n, i, here, block) ==
  LET fetched == IF op = "stswi" THEN FetchAddress(n, [i EXCEPT !.immediate = 0], FALSE) ELSE n
      k       == flush_guest_gprs(fetched)
      count   == Count(op, k, i)
      address == StringAddress(op, k.state, i)
      Byte(b) == Parted(k.state.gpr[(i.source + (b - 1) \div 4) % GprCount], 4)[1 + ((b - 1) % 4)]
      stored  == [k EXCEPT !.memory = WriteBytes(@, k.state.gpr, address, [b \in 1..count |-> Byte(b)])]
      leaves  == \/ OverlapsOrWraps(block, address, count)
                 \/ op = "stswx" /\ address = AllOnes - count + 1
  IN  IF count = 0 THEN k
      ELSE IF ~Accessible(address, count) THEN Return(k, "fault", here)
      ELSE IF leaves THEN Return(stored, "left", Unsigned(here + 4)) ELSE stored

\* ---- Floating-point loads -------------------------------------------------------------------
EmittedLoadSingle(op, n, i, here) ==
  LET k == FetchAddress(n, i, is_indexed_memory(op))
      address == Address(k, i, is_indexed_memory(op))
      double  == Widen(ReadValue(k.memory, address, 4))
      loaded  == [k EXCEPT !.state.fpr[i.fp_register] = double, !.state.ps1[i.fp_register] = double]
  IN  IF ~Accessible(address, 4) THEN FlushReturn(k, "fault", here)
      ELSE IF op \in {"lfsu", "lfsux"} THEN write_guest_gpr(loaded, i.base, address) ELSE loaded
EmittedLoadDouble(op, n, i, here) ==
  LET k == FetchAddress(n, i, is_indexed_memory(op))
      address == Address(k, i, is_indexed_memory(op))
      loaded  == [k EXCEPT !.state.fpr[i.fp_register] = ReadValue(k.memory, address, 8)]
  IN  IF ~Accessible(address, 8) THEN FlushReturn(k, "fault", here)
      ELSE IF op \in {"lfdu", "lfdux"} THEN write_guest_gpr(loaded, i.base, address) ELSE loaded

\* ---- Quantized pairs ------------------------------------------------------------------------
Lane(type) == CASE type = 0 -> 4 [] type \in {4, 6} -> 1 [] OTHER -> 2
FromLane(type, raw, scale) ==
  LET signed_byte == IF raw >= TwoTo[ByteBits - 1] THEN raw - ByteBase ELSE raw
      signed_half == IF raw >= TwoTo[HalfBits - 1] THEN raw - TwoTo[HalfBits] ELSE raw
      number == CASE type \in {4, 5} -> raw [] type = 6 -> signed_byte [] type = 7 -> signed_half
  IN  Widen(IF type = 0 THEN raw ELSE SingleOf(Scaled(number, -scale)))
native_psq_load(n, i, address) ==
  LET gqr    == n.state.gqr[i.quantized_register]
      width  == Lane(gqr.load_type)
      Read(a) == FromLane(gqr.load_type, ReadValue(n.memory, a, width), SignedScale(gqr.load_scale))
      lanes  == IF i.paired_single_w THEN {address} ELSE {address, Unsigned(address + width)}
  IN  IF gqr.load_type \in 1..3 THEN [n EXCEPT !.exit = "unsupported"]
      ELSE IF \E a \in lanes : ~Accessible(a, width) THEN [n EXCEPT !.exit = "fault"]
      ELSE [n EXCEPT !.state.fpr[i.fp_register] = Read(address),
                     !.state.ps1[i.fp_register] = IF i.paired_single_w THEN Widen(One)
                                                  ELSE Read(Unsigned(address + width))]
EmittedQuantizedLoad(op, n, i, here) ==
  LET k == FetchAddress(n, i, is_indexed_memory(op))
      address == Address(k, i, is_indexed_memory(op))
      done == native_psq_load(k, i, address)
  IN  IF done.exit # "no" THEN FlushReturn(done, done.exit, here)
      ELSE IF op \in {"psq_lu", "psq_lux"} THEN write_guest_gpr(done, i.base, address) ELSE done

ToLane(type, single, scale) ==
  LET number == Scaled(NumberOf(single), scale) IN
  CASE type = 0 -> single
    [] type = 4 -> Clamp(number, 0, ByteBase - 1)
    [] type = 5 -> Clamp(number, 0, TwoTo[HalfBits] - 1)
    [] type = 6 -> Clamp(number, -(TwoTo[ByteBits - 1]), TwoTo[ByteBits - 1] - 1) % ByteBase
    [] type = 7 -> Clamp(number, -(TwoTo[HalfBits - 1]), TwoTo[HalfBits - 1] - 1) % TwoTo[HalfBits]
native_psq_store(n, i, address, here) ==
  LET gqr    == n.state.gqr[i.quantized_register]
      width  == Lane(gqr.store_type)
      ps0    == Narrow(n.state.fpr[i.fp_register])
      ps1    == Narrow(n.state.ps1[i.fp_register])
      Value(s) == ToLane(gqr.store_type, s, SignedScale(gqr.store_scale))
      first  == Stored(Announced(n, here), address, width, Value(ps0))
  IN  IF \/ gqr.store_type \in 1..3
         \/ gqr.store_type # 0 /\ (IsNaN(ps0) \/ (~i.paired_single_w /\ IsNaN(ps1)))
      THEN [n EXCEPT !.exit = "unsupported"]
      ELSE IF ~Accessible(address, IF i.paired_single_w THEN width ELSE 2 * width)
      THEN [n EXCEPT !.exit = "fault"]
      ELSE IF i.paired_single_w THEN first
      ELSE Stored(first, Unsigned(address + width), width, Value(ps1))
\* Leaving after a store into the block's own words does not write the registers back.
EmittedQuantizedStore(op, n, i, here, block) ==
  LET fetched == FetchAddress(n, i, is_indexed_memory(op))
      k       == IF Watched(n) THEN flush_guest_gprs(fetched) ELSE fetched
      address == Address(k, i, is_indexed_memory(op))
      done    == native_psq_store(k, i, address, here)
      updated == IF op \in {"psq_stu", "psq_stux"} THEN write_guest_gpr(done, i.base, address) ELSE done
  IN  IF done.exit # "no" THEN FlushReturn(done, done.exit, here)
      ELSE IF OverlapsOrWraps(block, address, 8) THEN Return(updated, "left", Unsigned(here + 4))
      ELSE updated

\* ---- Cache instructions --------------------------------------------------------------------------
EmittedCacheHint(n, i) == read_guest_gpr(FetchAddress(n, i, FALSE), {i.source})
EmittedBlockZero(n, i, here) ==
  LET k == FetchAddress(n, i, TRUE)
      block_address == Address(k, i, TRUE) - (Address(k, i, TRUE) % CacheBlock)
      zeroed == [Announced(k, here) EXCEPT
                   !.memory = WriteBytes(@, k.state.gpr, block_address, [b \in 1..CacheBlock |-> 0])]
  IN  IF Accessible(block_address, CacheBlock) THEN FlushReturn(zeroed, "left", Unsigned(here + 4))
      ELSE FlushReturn(Announced(k, here), "fault", here)

\* ---- The compiler's switch ---------------------------------------------------------------------------
EmitFloat(op, n, i, here, block) ==
  CASE op \in {"lfs", "lfsu", "lfsx", "lfsux"}         -> EmittedLoadSingle(op, n, i, here)
    [] op \in {"lfd", "lfdu", "lfdx", "lfdux"}         -> EmittedLoadDouble(op, n, i, here)
    [] op \in SingleStores \cup DoubleStores           -> EmittedStore(op, n, i, here, block)
    [] op \in {"psq_l", "psq_lu", "psq_lx", "psq_lux"} -> EmittedQuantizedLoad(op, n, i, here)
    [] op \in {"psq_st", "psq_stu", "psq_stx", "psq_stux"} ->
         EmittedQuantizedStore(op, n, i, here, block)
EmitMany(op, n, i, here, block) ==
  CASE op = "lmw"  -> EmittedLoadMultiple(n, i, here)
    [] op = "stmw" -> EmittedStoreMultiple(n, i, here, block)
    [] op \in {"lswi", "lswx"}   -> EmittedLoadString(op, n, i, here)
    [] op \in {"stswi", "stswx"} -> EmittedStoreString(op, n, i, here, block)
EmitOther(op, n, i, here, block) ==
  CASE op = "lwarx" -> EmittedLoadReserve(n, i, here)
    [] op = "stwcx" -> EmittedStoreConditional(n, i, here)
    [] op = "dcbz"  -> EmittedBlockZero(n, i, here)
    [] op \in {"dcbst", "dcbf"} -> EmittedValidation(n, i, here, block)
    [] op \in {"icbi", "dcbt", "dcbtst"} -> EmittedCacheHint(n, i)
    [] op \in {"sync", "isync"} -> n
    [] op = "addi"  -> EmittedAddi(op, n, i)
=============================================================================
