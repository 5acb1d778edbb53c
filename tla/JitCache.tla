------------------------------ MODULE JitCache ------------------------------
(***************************************************************************)
(* The recompiler's cache of native blocks over guest memory               *)
(* (Recompiler::run in src/src/cpu/espresso/recompiler.cpp).  A block is a  *)
(* native copy of up to MaxBlock instructions; it may run again only while *)
(* the write generations of its code pages are those it was captured with, *)
(* or after its words have been compared with memory.  The guest may store *)
(* to its own code, within the running block too, and through the alias.   *)
(*                                                                         *)
(* One step is a dispatch, one instruction, or a host call.  The emulator  *)
(* has one memory and one recompiler, so the memory_owner of an entry is   *)
(* always this memory and is left out.                                     *)
(***************************************************************************)
EXTENDS GuestMemory, Sequences

CONSTANTS
  Import,      \* the address of an import stub, answered by the host
  MaxBlock,    \* max_block_instructions
  Slots,       \* fast_lookup_cache_size
  MaxSteps,    \* the largest instruction budget the host passes to run
  ByteStores,  \* whether guest code stores single bytes
  MaxWrites    \* bound of the exploration: stores in one behaviour

ASSUME JitAssumption ==
  /\ Import \in Nat \ Mapped
  /\ MaxBlock \in 1..(PageWords + 1)
  /\ Slots \in Nat \ {0}
  /\ MaxSteps \in Nat \ {0}
  /\ ByteStores \in BOOLEAN
  /\ MaxWrites \in Nat

VARIABLES
  memory,            \* the bytes of the backing pages
  generation,        \* page write generations, of flat and of other pages
  write_generation,  \* the number of stores so far
  watchpoint,        \* has_write_watchpoint
  cache,             \* the CacheEntry of each block address
  fast,              \* fast_lookup_cache: the address of the entry in each slot
  latest,            \* last_cache_entry, as the address of its entry
  cia,               \* CpuState::cia at the last dispatch
  mode,              \* "dispatch", or how the next instruction is executed
  index,             \* how many instructions of the running block are done
  remaining,         \* max_steps - result.steps
  executed,          \* the instruction executed last, and its address
  stopped            \* why the run ended, "no" while it may go on

memoryVars == <<memory, generation, write_generation>>
cacheVars  == <<cache, fast, latest>>
vars       == <<memoryVars, watchpoint, cacheVars, cia, mode, index, remaining,
                executed, stopped>>

NoAddress     == -1
NoInstruction == [at |-> 0, insn |-> "none"]
NoEntry       == [words |-> <<>>, first |-> 0, second |-> 0, watch |-> FALSE]
Targets       == Mapped \cup {Import}
Slot(a)       == a % Slots
StoreInsns    == {"store", "dcbz"}

Init ==
  /\ memory \in Memories
  /\ generation = [p \in Page |-> 0]
  /\ write_generation = 0
  /\ watchpoint = FALSE
  /\ cache = [a \in Mapped |-> NoEntry]
  /\ fast = [s \in 0..(Slots - 1) |-> NoAddress]
  /\ latest = NoAddress
  /\ cia \in Mapped
  /\ mode = "dispatch"
  /\ index = 0
  /\ remaining = 0
  /\ executed = NoInstruction
  /\ stopped = "no"

----------------------------------------------------------------------------
(***************************************************************************)
(* Stores.                                                                 *)
(***************************************************************************)
\* Mutation: only the page of the first byte is marked.
FirstPageMarked(first, last, byte) == {BackingOf(PageOf(first))}

\* The pages whose generation a store advances.  write8 marks the page of the
\* address it was given; all other stores mark the backing pages.
Marked(first, last, byte) ==
  IF byte THEN {PageOf(first)}
          ELSE {BackingOf(p) : p \in PageOf(first)..PageOf(last)}

Write(first, last, v, byte) ==
  /\ write_generation < MaxWrites
  /\ byte => ByteStores /\ first = last
  /\ memory' = Stored(memory, first, last, v)
  /\ generation' = [p \in Page |-> IF p \in Marked(first, last, byte)
                                   THEN generation[p] + 1 ELSE generation[p]]
  /\ write_generation' = write_generation + 1

WriteSomething ==
  \E r \in Storable, v \in Code, byte \in BOOLEAN : Write(r[1], r[2], v, byte)

----------------------------------------------------------------------------
(***************************************************************************)
(* Looking up and translating the block at cia.                            *)
(***************************************************************************)
PageGeneration(a) == generation[BackingOf(PageOf(a))]

\* Mutation: the page of the last instruction is not captured.
CapturedFirstPage(a, words) ==
  [words |-> words, first |-> PageGeneration(a), second |-> PageGeneration(a),
   watch |-> watchpoint]

\* capture_code_page_generations
Captured(a, words) ==
  [words |-> words, first |-> PageGeneration(a),
   second |-> PageGeneration(a + Len(words) - 1), watch |-> watchpoint]

\* Mutation: only the generation of the first code page is compared.
FirstGenerationMatches(a) == cache[a].first = PageGeneration(a)

\* code_page_generations_match
GenerationsMatch(a) ==
  /\ cache[a].first = PageGeneration(a)
  /\ cache[a].second = PageGeneration(a + Len(cache[a].words) - 1)

WordsMatch(a) ==
  \A i \in DOMAIN cache[a].words : cache[a].words[i] = Read(memory, a + i - 1)

\* The first two levels of the lookup compare generations only.
Hit(a) ==
  /\ latest = a \/ fast[Slot(a)] = a
  /\ cache[a].watch = watchpoint
  /\ GenerationsMatch(a)

\* Mutation: an entry compiled without the watchpoint is used with it.
AnyWatchUsable(a) ==
  /\ cache[a] # NoEntry
  /\ GenerationsMatch(a) \/ WordsMatch(a)

\* The third level compares the words when a generation differs.
Usable(a) ==
  /\ cache[a] # NoEntry
  /\ cache[a].watch = watchpoint
  /\ GenerationsMatch(a) \/ WordsMatch(a)

\* The n instructions from a can form a block.
Translatable(a, n) ==
  \A i \in 0..(n - 1) :
    /\ a + i \in Mapped
    /\ Read(memory, a + i) # "foreign"
    /\ i < n - 1 => Read(memory, a + i) # "branch"

Point(a) ==
  /\ latest' = a
  /\ fast' = [fast EXCEPT ![Slot(a)] = a]

\* Mutation: the remaining budget is not compared with the block's length.
EnterWhateverBudget(n) ==
  /\ mode' = "native"
  /\ index' = 0
  /\ UNCHANGED <<memoryVars, watchpoint, cia, remaining, executed, stopped>>

\* A block that is longer than the remaining budget is not entered.
Enter(n) ==
  /\ mode' = IF n <= remaining THEN "native" ELSE "interpret"
  /\ index' = 0
  /\ UNCHANGED <<memoryVars, watchpoint, cia, remaining, executed, stopped>>

Dispatching == mode = "dispatch" /\ stopped = "no" /\ remaining > 0

UseHit ==
  /\ Dispatching /\ cia \in Mapped /\ Hit(cia)
  /\ latest' = cia
  /\ UNCHANGED <<cache, fast>>
  /\ Enter(Len(cache[cia].words))

UseFound ==
  /\ Dispatching /\ cia \in Mapped /\ ~Hit(cia) /\ Usable(cia)
  /\ cache' = IF GenerationsMatch(cia)
              THEN cache ELSE [cache EXCEPT ![cia] = Captured(cia, @.words)]
  /\ Point(cia)
  /\ Enter(Len(cache[cia].words))

Compile ==
  /\ Dispatching /\ cia \in Mapped /\ ~Hit(cia) /\ ~Usable(cia)
  /\ \E n \in 1..MaxBlock :
       /\ Translatable(cia, n)
       /\ n = MaxBlock \/ ~Translatable(cia, n + 1)
       /\ cache' = [cache EXCEPT ![cia] =
            Captured(cia, [i \in 1..n |-> Read(memory, cia + i - 1)])]
       /\ Enter(n)
  /\ Point(cia)

\* Mutation: the latest entry still points at the entry that was erased.
ForgetCacheOnly ==
  /\ Dispatching /\ cia \in Mapped /\ ~Hit(cia) /\ ~Usable(cia)
  /\ cache' = [cache EXCEPT ![cia] = NoEntry]
  /\ fast' = [fast EXCEPT ![Slot(cia)] = IF @ = cia THEN NoAddress ELSE @]
  /\ mode' = "interpret"
  /\ UNCHANGED <<latest, memoryVars, watchpoint, cia, index, remaining, executed,
                 stopped>>

\* Nothing native starts here, or the assembler failed: a stale entry is gone
\* and the interpreter takes over for one instruction.
GiveUp ==
  /\ Dispatching /\ cia \in Mapped /\ ~Hit(cia) /\ ~Usable(cia)
  /\ cache' = [cache EXCEPT ![cia] = NoEntry]
  /\ fast' = [fast EXCEPT ![Slot(cia)] = IF @ = cia THEN NoAddress ELSE @]
  /\ latest' = IF latest = cia THEN NoAddress ELSE latest
  /\ mode' = "interpret"
  /\ UNCHANGED <<memoryVars, watchpoint, cia, index, remaining, executed, stopped>>

----------------------------------------------------------------------------
(***************************************************************************)
(* Executing.  Leave(n, next) gives control back to the dispatch loop after *)
(* n instructions.                                                         *)
(***************************************************************************)
Leave(n, next) ==
  /\ mode' = "dispatch"
  /\ index' = 0
  /\ remaining' = remaining - n
  /\ cia' = next

Words == cache[cia].words

\* After the instruction at index the block goes on, unless it was the last.
GoOn ==
  IF index + 1 = Len(Words)
  THEN Leave(index + 1, cia + Len(Words))
  ELSE index' = index + 1 /\ UNCHANGED <<mode, remaining, cia>>

\* Mutation: the end of the block is taken one word too early.
OverlapsShorter(first, last) == first < cia + Len(Words) - 1 /\ last >= cia

\* The store check in native code compares guest addresses with the block's.
Overlaps(first, last) == first < cia + Len(Words) /\ last >= cia

NativeInstruction ==
  /\ mode = "native"
  /\ executed' = [at |-> cia + index, insn |-> Words[index + 1]]
  /\ \/ /\ Words[index + 1] = "plain"
        /\ GoOn
        /\ UNCHANGED memoryVars
     \/ /\ Words[index + 1] = "branch"
        /\ \E target \in Targets : Leave(index + 1, target)
        /\ UNCHANGED memoryVars
     \/ /\ Words[index + 1] = "dcbz"
        /\ WriteSomething
        /\ Leave(index + 1, cia + index + 1)
     \/ /\ Words[index + 1] = "store"
        /\ \E r \in Storable, v \in Code, byte \in BOOLEAN :
             /\ Write(r[1], r[2], v, byte)
             /\ IF Overlaps(r[1], r[2])
                THEN Leave(index + 1, cia + index + 1) ELSE GoOn
  /\ UNCHANGED <<watchpoint, cacheVars, stopped>>

InterpretedInstruction ==
  /\ mode = "interpret"
  /\ executed' = [at |-> cia, insn |-> Read(memory, cia)]
  /\ \/ /\ Read(memory, cia) \in {"plain", "foreign"}
        /\ Leave(1, cia + 1)
        /\ UNCHANGED memoryVars
     \/ /\ Read(memory, cia) = "branch"
        /\ \E target \in Targets : Leave(1, target)
        /\ UNCHANGED memoryVars
     \/ /\ Read(memory, cia) \in StoreInsns
        /\ WriteSomething
        /\ Leave(1, cia + 1)
  /\ UNCHANGED <<watchpoint, cacheVars, stopped>>

\* An instruction that ends the run instead of executing: a block reports how
\* far it came, and the instruction is repeated by the interpreter for its error.
Trap(insns, reason) ==
  /\ \/ mode = "native" /\ Words[index + 1] \in insns
     \/ mode = "interpret" /\ Read(memory, cia) \in insns
  /\ Leave(index, cia + index)
  /\ stopped' = reason
  /\ UNCHANGED <<memoryVars, watchpoint, cacheVars, executed>>

\* A store to unmapped memory.
StoreFault == Trap(StoreInsns, "memory_fault")

\* An instruction nobody implements, or a quantised store of an unknown format.
Unsupported == Trap({"store", "foreign"}, "unsupported_instruction")

\* Neither mapped nor an import: the first fetch of the translation faults.
FetchFault ==
  /\ Dispatching /\ cia \notin Targets
  /\ stopped' = "memory_fault"
  /\ UNCHANGED <<memoryVars, watchpoint, cacheVars, cia, mode, index, remaining,
                 executed>>

\* An import stub: the handler may write guest memory and returns anywhere.
HleCall ==
  /\ Dispatching /\ cia = Import
  /\ WriteSomething \/ UNCHANGED memoryVars
  /\ \E target \in Targets : Leave(1, target)
  /\ UNCHANGED <<watchpoint, cacheVars, executed, stopped>>

\* The handler throws, perhaps after some writes, or there is none.
HleError ==
  /\ Dispatching /\ cia = Import
  /\ WriteSomething \/ UNCHANGED memoryVars
  /\ stopped' = "hle_error"
  /\ UNCHANGED <<watchpoint, cacheVars, cia, mode, index, remaining, executed>>

\* The host calls run again with a new budget.
Run ==
  /\ mode = "dispatch" /\ stopped = "no" /\ remaining = 0
  /\ remaining' \in 1..MaxSteps
  /\ UNCHANGED <<memoryVars, watchpoint, cacheVars, cia, mode, index, executed,
                 stopped>>

\* The host sets a write watchpoint between two runs.
SetWriteWatchpoint ==
  /\ mode = "dispatch" /\ stopped = "no" /\ remaining = 0
  /\ watchpoint' = TRUE
  /\ UNCHANGED <<memoryVars, cacheVars, cia, mode, index, remaining, executed,
                 stopped>>

Halted == stopped # "no" /\ UNCHANGED vars

Next ==
  \/ UseHit \/ UseFound \/ Compile \/ GiveUp
  \/ NativeInstruction \/ InterpretedInstruction
  \/ StoreFault \/ Unsupported \/ FetchFault
  \/ HleCall \/ HleError \/ Run \/ SetWriteWatchpoint \/ Halted

Spec == Init /\ [][Next]_vars

----------------------------------------------------------------------------
Entries == [words : Seq(Instructions \ {"foreign"}), first : Nat, second : Nat,
            watch : BOOLEAN]

Reasons == {"memory_fault", "unsupported_instruction", "hle_error"}

\* Type invariant; the budget is never overdrawn and a running block is never
\* left at an instruction it does not have.
TypeOK ==
  /\ memory \in Memories
  /\ generation \in [Page -> Nat]
  /\ write_generation \in Nat
  /\ watchpoint \in BOOLEAN
  /\ cache \in [Mapped -> Entries]
  /\ \A a \in Mapped : Len(cache[a].words) <= MaxBlock
  /\ fast \in [0..(Slots - 1) -> Mapped \cup {NoAddress}]
  /\ latest \in Mapped \cup {NoAddress}
  /\ cia \in Nat
  /\ mode \in {"dispatch", "native", "interpret"}
  /\ mode # "dispatch" => cia \in Mapped /\ remaining > index
  /\ mode = "native" => index < Len(Words) /\ Len(Words) <= remaining
  /\ index \in Nat
  /\ remaining \in 0..MaxSteps
  /\ stopped \in {"no"} \cup Reasons

\* No lookup table points at an entry that was erased: such an entry's native
\* code is released, and reading it is a use after free.
NoDanglingLookup ==
  \A a \in {latest} \cup {fast[s] : s \in DOMAIN fast} :
    a # NoAddress => cache[a] # NoEntry

\* A block entered while a write watchpoint is set was compiled for it, so that
\* watch events see the guest's registers.
WatchpointHonoured == mode = "native" => cache[cia].watch = watchpoint

\* A block is entered only if it is the code in memory, however the code was
\* written: stores anywhere advance the generations that the lookup compares.
EntersCurrentCode == mode = "native" /\ index = 0 => WordsMatch(cia)

\* The native instruction about to execute is the one in memory at its address,
\* also after the stores the block has made itself.
RunsCurrentCode ==
  mode = "native" => Words[index + 1] = Read(memory, cia + index)

\* The recompiler executes what the guest's memory says, instruction by
\* instruction, as the interpreter does.
Execution == INSTANCE GuestExecution WITH pc <- cia + index

ImplementsExecution == Execution!Spec
============================================================================
