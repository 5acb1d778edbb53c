--------------------------- MODULE MemoryEngines ---------------------------
(***************************************************************************)
(* The interpreter and the recompiler execute the same loads and stores on  *)
(* two copies of the same memory.  The recompiler runs blocks of known      *)
(* size; it leaves a block early at faults, at runtime conditions it does   *)
(* not support and at stores into the block's own words, and hands the      *)
(* first two to the interpreter (Recompiler::run).                          *)
(***************************************************************************)
EXTENDS MemoryInterpreter, MemoryNative

CONSTANTS
  Programs,     \* what may be executed: a function from names to the records below
  Departures    \* the known disagreements of the engines that may occur

\* A program fixes which instructions may follow each other, in any order:
\*   length, ops      how many, of which operations
\*   forms            registers <<d, a, b>>; d is the value, a the base and b the index
\*   immediates       displacements, already extended
\*   counts           immediate byte counts of strings
\*   sizes            the sizes a block may have
\*   starts           machines and memories it starts with

\* The machines, with as many floating-point and quantization registers as they have, and
\* the memories.
Gprs  == 0 .. (GprCount - 1)
Bytes == 0 .. (ByteBase - 1)
Quantizations ==
  [load_type : 0..7, load_scale : 0 .. (TwoTo[ScaleBits] - 1),
   store_type : 0..7, store_scale : 0 .. (TwoTo[ScaleBits] - 1)]
IsMachine(s) ==
  /\ s \in [gpr : [Gprs -> Words], xer : SUBSET BitIndex, cr : SUBSET BitIndex, lr : Words,
            ctr : Words, cia : Words, fpr : [DOMAIN s.fpr -> Nat], ps1 : [DOMAIN s.fpr -> Nat],
            gqr : [DOMAIN s.gqr -> Quantizations],
            reservation_valid : BOOLEAN, reservation_address : Words]
  /\ 0 \in DOMAIN s.fpr /\ {0, 1} \subseteq DOMAIN s.gqr
IsMemory(m) ==
  /\ m = [bytes |-> m.bytes, watch |-> m.watch, writer |-> m.writer, events |-> m.events]
  /\ m.bytes \in [Locations -> Bytes]

\* What the decoder gives: registers of the machine, words as immediates, counts of bytes
\* that fit them.  The only floating-point register of a program is the first, its
\* quantization registers the first two.  No machine starts with a reservation.
ASSUME MemoryEnginesAssumption ==
  \A name \in DOMAIN Programs :
    LET p == Programs[name] IN
    /\ \A begin \in p.starts :
         /\ IsMachine(begin.state) /\ ~begin.state.reservation_valid
         /\ IsMemory(begin.memory)
    /\ \A f \in p.forms : {f[1], f[2], f[3]} \subseteq Gprs
    /\ p.immediates \subseteq Words
    /\ p.counts \subseteq 0 .. (4 * GprCount)
    /\ p.sizes \subseteq Nat \ {0}

VARIABLES
  program,       \* the name of the program chosen
  interpreter,   \* the interpreter's core
  native,        \* the recompiler's machine, in the block in progress
  outcome,       \* "none", or why the recompiler's run stopped
  block,         \* the block in progress, [start, size]
  index,         \* how many of its instructions have been executed
  executed       \* the instructions executed, with what reservations came of them

vars == <<program, interpreter, native, outcome, block, index, executed>>

BlocksAt(cia) == {[start |-> cia, size |-> n] : n \in Programs[program].sizes}

Init ==
  /\ program \in DOMAIN Programs
  /\ \E begin \in Programs[program].starts :
       /\ interpreter = [state |-> begin.state, memory |-> begin.memory, stop |-> "none"]
       /\ native = Begin(begin.state, begin.memory)
       /\ block \in BlocksAt(begin.state.cia)
  /\ outcome = "none"
  /\ index = 0
  /\ executed = << >>

\* ---- Instructions -----------------------------------------------------------
Insn(form) ==
  [destination |-> form[1], base |-> form[2], source |-> form[3], record |-> FALSE,
   immediate |-> 0, fp_register |-> 0, quantized_register |-> 0, paired_single_w |-> FALSE,
   string_byte_count |-> 0]
Forms == {Insn(f) : f \in Programs[program].forms}
\* The decoder refuses the update forms whose base is register zero.
Updates == {"lwzu", "lwzux", "lhzu", "lhzux", "lhaux", "lbzu", "lbzux", "stwu", "stwux", "sthu",
            "sthux", "stbu", "stbux", "lfsu", "lfsux", "lfdu", "lfdux", "stfsu", "stfsux", "stfdu",
            "stfdux", "psq_lu", "psq_lux", "psq_stu", "psq_stux"}
Legal(op, I) == IF op \in Updates THEN {i \in I : i.base # 0} ELSE I
Displaced(op, I) ==
  IF is_indexed_memory(op) THEN I
  ELSE {[i EXCEPT !.immediate = k] : i \in I, k \in Programs[program].immediates}
FormsOf(op) == Legal(op, Displaced(op, Forms))

LoadOps   == {"lwz", "lwzu", "lwzx", "lwzux", "lwbrx", "lhz", "lhzu", "lhzx", "lhzux", "lhbrx",
              "lha", "lhax", "lhaux", "lbz", "lbzu", "lbzx", "lbzux"}
StoreOps  == {"stw", "stwu", "stwx", "stwux", "stwbrx", "sth", "sthu", "sthx", "sthux", "sthbrx",
              "stb", "stbu", "stbx", "stbux", "stfiwx"}
MultipleOps == {"lmw", "stmw"}
StringOps == {"lswi", "lswx", "stswi", "stswx"}
ScalarFloatOps == {"lfs", "lfsu", "lfsx", "lfsux", "lfd", "lfdu", "lfdx", "lfdux",
                   "stfs", "stfsu", "stfsx", "stfsux", "stfd", "stfdu", "stfdx", "stfdux"}
PairLoads  == {"psq_l", "psq_lu", "psq_lx", "psq_lux"}
PairStores == {"psq_st", "psq_stu", "psq_stx", "psq_stux"}
CacheOps   == {"dcbz", "dcbst", "dcbf", "icbi", "dcbt", "dcbtst", "sync", "isync"}

\* ---- Known disagreements ------------------------------------------------------
\* psq_st into the block's own words leaves without writing the registers back; dcbz lets
\* the watchpoint see registers that are not written back; the string stores do not tell it
\* which instruction writes; lmw over its own base is repeated with another base on a fault.
Departs(op, i, n) ==
  \/ /\ "psq_exit" \notin Departures
     /\ op \in PairStores /\ n.exit = "left" /\ n.dirty # {}
  \/ /\ "dcbz_watch" \notin Departures
     /\ op = "dcbz" /\ native.memory.watch # {} /\ native.dirty # {}
  \/ /\ "string_watch" \notin Departures
     /\ op \in {"stswi", "stswx"} /\ native.memory.watch # {}
  \/ /\ "lmw_base" \notin Departures
     /\ op = "lmw" /\ n.exit = "fault" /\ i.base # 0 /\ i.base >= i.destination

\* ---- Steps ------------------------------------------------------------------------
Next4(a) == Unsigned(a + 4)
Here     == Unsigned(block.start + 4 * index)
Allowed(ops) ==
  IF /\ Len(executed) < Programs[program].length
     /\ interpreter.stop = "none" /\ outcome = "none"
  THEN ops \cap Programs[program].ops ELSE {}
EndsBlock(op) == op \in {"stwcx", "isync"}

\* After a fault the interpreter repeats the instruction, except where the helper's exception
\* is thrown again; what the repetition must give is a fault, or the unsupported result.
Recover(op, n, Execute(_)) ==
  LET again == step([state |-> n.state, memory |-> n.memory, stop |-> "none"], Execute) IN
  IF n.exit = "fault" /\ op \in StringOps \cup {"stmw"}
  THEN native' = n /\ outcome' = "fault"
  ELSE /\ native' = [Begin(again.state, again.memory) EXCEPT !.exit = n.exit]
       /\ outcome' = IF again.stop = n.exit THEN n.exit ELSE "hle_error"

Enters(n) == /\ native' = Begin(n.state, n.memory)
             /\ block' \in BlocksAt(n.state.cia)
             /\ index' = 0
             /\ UNCHANGED outcome
Finishes(op, n, Execute(_)) ==
  \/ /\ n.exit = "no" /\ index + 1 < block.size
     /\ native' = n /\ index' = index + 1 /\ UNCHANGED <<block, outcome>>
  \/ n.exit = "no" /\ index + 1 = block.size /\ Enters(EndBlock(n, op, Next4(Here)))
  \/ n.exit = "left" /\ Enters(n)
  \/ n.exit \in {"fault", "unsupported"} /\ Recover(op, n, Execute) /\ UNCHANGED <<block, index>>

\* What lwarx and stwcx. did: the storage they named, and whether CR0 of either engine
\* reports a store.
Outcome(op, i) ==
  [op |-> op, insn |-> i,
   at |-> IF op \in {"lwarx", "stwcx"} THEN resolve_alias_address(IndexedAddress(interpreter, i)) ELSE 0,
   stored |-> /\ op = "stwcx" /\ interpreter'.stop = "none" /\ outcome' = "none"
              /\ EQ(0) \in interpreter'.state.cr \cup native'.state.cr]

Perform(op, i, Execute(_), n) ==
  /\ EndsBlock(op) => index + 1 = block.size
  /\ ~Departs(op, i, n)
  /\ interpreter' = step(interpreter, Execute)
  /\ Finishes(op, n, Execute)
  /\ executed' = Append(executed, Outcome(op, i))
  /\ UNCHANGED program

LoadInteger ==
  \E op \in Allowed(LoadOps) : \E i \in FormsOf(op) :
    Perform(op, i, LAMBDA c : ExecuteLoad(op, c, i), EmittedLoad(op, native, i, Here))
StoreInteger ==
  \E op \in Allowed(StoreOps) : \E i \in FormsOf(op) :
    Perform(op, i, LAMBDA c : ExecuteStore(op, c, i), EmittedStore(op, native, i, Here, block))
Many ==
  \/ \E op \in Allowed(MultipleOps) : \E i \in FormsOf(op) :
       Perform(op, i, LAMBDA c : ExecuteMany(op, c, i), EmitMany(op, native, i, Here, block))
  \/ \E op \in Allowed(StringOps), k \in Forms, count \in Programs[program].counts :
       LET i == [k EXCEPT !.string_byte_count = count] IN
       Perform(op, i, LAMBDA c : ExecuteMany(op, c, i), EmitMany(op, native, i, Here, block))
Float ==
  \/ \E op \in Allowed(ScalarFloatOps) : \E i \in FormsOf(op) :
       Perform(op, i, LAMBDA c : ExecuteFloat(op, c, i), EmitFloat(op, native, i, Here, block))
  \/ \E op \in Allowed(PairLoads \cup PairStores), q \in {0, 1}, w \in BOOLEAN :
       \E k \in FormsOf(op) :
         LET i == [k EXCEPT !.quantized_register = q, !.paired_single_w = w] IN
         Perform(op, i, LAMBDA c : ExecuteFloat(op, c, i), EmitFloat(op, native, i, Here, block))
Reserve ==
  \E op \in Allowed({"lwarx", "stwcx"}) : \E i \in FormsOf(op) :
    Perform(op, i, LAMBDA c : ExecuteOther(op, c, i), EmitOther(op, native, i, Here, block))
Cache ==
  \E op \in Allowed(CacheOps) : \E i \in Forms :
    Perform(op, i, LAMBDA c : ExecuteOther(op, c, i), EmitOther(op, native, i, Here, block))
\* Arithmetic, to have registers the block has not written back.
Arithmetic ==
  \E op \in Allowed({"addi"}) : \E i \in FormsOf(op) :
    Perform(op, i, LAMBDA c : ExecuteOther(op, c, i), EmitOther(op, native, i, Here, block))

Next == LoadInteger \/ StoreInteger \/ Many \/ Float \/ Reserve \/ Cache \/ Arithmetic
Spec == Init /\ [][Next]_vars

\* ---- Properties ---------------------------------------------------------------
\* The machine the native code stands for: its host registers over CpuState; once the run
\* has stopped, CpuState itself.
Observed ==
  IF outcome # "none" THEN native.state
  ELSE [native.state EXCEPT !.gpr = [r \in DOMAIN @ |-> Guest(native, r)], !.cia = Here]

\* After every instruction, and where a run stops, both engines have the same registers,
\* reservation, address and memory, and stop for the same reason.
EnginesAgree ==
  /\ Observed = interpreter.state
  /\ native.memory.bytes = interpreter.memory.bytes
  /\ outcome = interpreter.stop

\* The diagnostic watchpoint shows the same history under both engines: which instruction
\* wrote, where, what was left there, and the registers at that moment.
WatchEventsAgree == native.memory.events = interpreter.memory.events

\* A conditional store only succeeds for a load that reserved the same storage, whatever
\* address either used for it, and each reservation serves one attempt.
ConditionalStoresPaired ==
  \A s \in 1..Len(executed) : executed[s].stored =>
    \E l \in 1..(s - 1) :
      /\ executed[l].op = "lwarx" /\ executed[l].at = executed[s].at
      /\ \A k \in (l + 1) .. (s - 1) : executed[k].op # "stwcx"

\* An instruction that faults or is not supported has done nothing, in either engine: no
\* base update, no first half of a pair, no register of a string.  Only lmw and stmw move
\* word by word.
FaultsLeaveNoTrace ==
  [][(/\ interpreter'.stop # "none" \/ outcome' # "none"
      /\ executed'[Len(executed')].op \notin {"lmw", "stmw"})
     => /\ Observed' = Observed
        /\ interpreter'.state = interpreter.state
        /\ native'.memory.bytes = native.memory.bytes
        /\ interpreter'.memory.bytes = interpreter.memory.bytes]_vars
=============================================================================
