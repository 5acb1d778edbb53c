# Affogato in TLA+

TLA+ models, model-checking runs and machine-checked proofs for Affogato, an
emulator that loads Wii U RPX programs, interprets or recompiles their PowerPC
code on one emulated Espresso core, and answers their operating-system and
graphics calls from the host (high-level emulation, HLE).

All source paths below are relative to the repository; `espresso/` stands for
`src/cpu/espresso/`.

## 1. Inventory

| Component | Sources | State it keeps | Operations | Interacts with |
|---|---|---|---|---|
| Cafe OS scheduler | `espresso/cafe_os_hle.cpp`, `espresso/interpreter.hpp` | thread table (`guest_threads`), current thread, `guest_scheduler_ticks`, `os_sleep_ticks_offset`, and in guest memory each OSThread's state byte, suspend count, priority, attributes and saved context | create, resume, set affinity, sleep, yield, the switch and the wake-ups | called by guest code through the HLE dispatcher, by message queues |
| Message queues | `espresso/cafe_os_hle.cpp` | ring metadata and slots in guest memory | init, send, receive | block and wake threads |
| Guest mutexes, no-op locks | `espresso/guest_mutex.cpp`, `espresso/cafe_os_hle.cpp` | owner and recursion count in guest memory; nothing for OSFastMutex, `__ghsLock`, spin locks | lock, try, unlock | held across thread switches |
| Events | `espresso/cafe_os_hle.cpp` | one word in guest memory | init, signal, reset | no waiters exist |
| HLE dispatcher | `espresso/hle_dispatcher.cpp` | registered functions, bound imports, call trace | register, bind, dispatch | runs handlers, sets the return address unless a thread switch happened |
| Guest heaps | `espresso/cafe_os_hle.cpp` | bump cursor, expanded and frame heaps | allocate, free | loader, OS calls |
| FS service | `espresso/cafe_os_hle.cpp` | clients, handles, host files | add client, open, read, close | host file system |
| Guest memory | `espresso/guest_memory.hpp` | flat bytes, mapped regions, aliases, page write generations | read, write, map, alias | everything; the recompiler's cache reads the generations |
| Interpreter | `espresso/interpreter.cpp` | registers, time base, reservation, history | step, run | memory, dispatcher |
| Recompiler | `espresso/recompiler.cpp` | cache of native blocks, lookup tables | look up, compile, run | memory, dispatcher, interpreter fallback |
| Decoder | `espresso/decoder.cpp` | none | decode | interpreter, recompiler |
| RPX loader | `espresso/rpx_loader.cpp`, `elf_loader.cpp` | none after loading | inflate, place, relocate, bind | memory, dispatcher |
| GX2 HLE | `espresso/gx2_hle.cpp` | pending commands, context, swap counters | one handler per GX2 call | frontend drains the commands |
| GX2 registers, textures | `src/gpu/*.hpp` | register banks | apply a command, stage a texture | frontend |
| Vulkan renderer | `src/gpu/vulkan/` | device, swapchain, fences, images | draw a frame, resize | frontend |
| Frontend | `src/frontend/main.cpp` | worker result, library scan, UI state | launch, scan, draw | worker and scanner threads share state under mutexes and atomics |
| Emulator facade | `src/emulator.cpp` | core and recompiler | load, run | frontend, `main.cpp` |

What is hard here. The scheduler is cooperative: guest threads interleave at
the granularity of HLE calls, so lost wake-ups, stale duplicated state and
starvation are possible although the host uses one thread for the core. Two
records describe each guest thread, one on the host and one in guest memory.
Virtual time moves only when the core idles. Every guest instruction exists
twice, in the interpreter and as native code of the recompiler, and the two must
leave the same machine state whatever the operands, the fault and the block they
are in. The recompiler runs native copies of code that the guest may overwrite,
also through a second address of the same bytes. The frontend has real threads:
a launch worker, a library scanner, the folder dialog and the user interface,
which drives a GPU that works later. `PROJECT.json` lists the hazards line by line.

## 2. Plan

Written so far (section 3), in order: the scheduler with `MessageQueueSpec`, and
`GuestLocks` on top of it; the recompiler's cache (`GuestMemory`,
`GuestExecution`, `JitCache`), each with proofs; the instruction sets of both
engines (`Float*`, `Integer*`, `Memory*`); the frontend's threads on top of the
Vulkan renderer (`Frontend`, `VulkanRenderer`); the GX2 library from a title's
call to the renderer's registers (`Gx2*`).

Left, in order of how much of the program's behaviour depends on them:

1. Liveness of sleepers and receivers in `CafeScheduler`, with virtual time kept
   relative so that it need not saturate.
2. `FsClients`: client and handle tables over host files.
3. `RpxLoader`: placement, relocation and trampolines; the decoder's bit fields.

The theorem still worth proving: `ObjectsAsAsked` of GX2.

## 3. The modules

### CafeScheduler
One action is one HLE call of the current thread; guest code may make any call
at any time, so Next is the disjunction of the calls over small argument sets.
A switch (`switch_guest_thread`) is part of the call that makes it: the caller
parks, due sleepers wake, the most urgent eligible thread is selected, and if
nobody is ready the clock jumps, once, to the earliest deadline.

| TLA+ | Code |
|---|---|
| `guest_threads`, `current` | `EspressoCore::guest_threads`, `current_thread_address` |
| `sleeping`, `wake_tick`, `waiting_message_queue` | `GuestThreadRuntimeState` |
| `state`, `suspend_count`, `attributes` | the OSThread fields at 0x324, 0x328, 0x325 |
| `retrying` | the saved SRR0: the OSReceiveMessage import, or the return address |
| `sent`, `delivered` | history: the arguments of the last send that stored a message, and what the last receive handed out |
| `Due`, `Runnable`, `Selected`, `SwitchTime`, `HandOver`, `GoOn` | the parts of `switch_guest_thread` |
| `WakeReceiver` | `wake_message_queue_receiver` |
| `capacity`, `first`, `used`, `slots` | OSMessageQueue and its message array |
| `stopped` | the HLE error, or unimplemented call, that ends the run |

Abstractions: registers are not modelled, messages are opaque values, a
priority belongs to a thread, and calls that fail a null or range check (they
end the run without touching this state) are left out. Ticks are naturals up to
`TickMax`, which stands for 2^64 - 1.

### MessageQueueSpec

What a message queue promises: a bounded sequence. A send with high priority adds its
message at the front, any other send at the back, and a receive takes the front one.
`CafeScheduler!ImplementsMessageQueues` is that specification under the mapping
`contents <- the slots from first, used of them, modulo capacity` and
`limit <- capacity`. `sent`, which both specifications have, holds queue, message and
priority flag of the last stored send, so a ring that takes the flag the other way
round, or that puts every message at one end, does not implement it.

### GuestLocks

Extends CafeScheduler with OSMutex (owner and recursion count, as
`guest_mutex.cpp` keeps them) and with the locks whose handlers do nothing.
`holds` and `inside` record what the guest threads believe they hold. Locks are
taken and released between scheduler steps, so critical sections span switches.
Re-initialising a mutex frees it for everyone, as the zero-fill does.

`MCCafeScheduler` and `MCGuestLocks` give the priorities of the instances.

### GuestMemory, GuestExecution, JitCache

`GuestMemory` holds the constants and operators of memory in instruction words:
pages, one page-aligned alias, reads and stores. `GuestExecution` is the promise:
every instruction is fetched from memory when it executes. `JitCache` is the
recompiler, one step per dispatch, instruction or host call.

| TLA+ | Code |
|---|---|
| `memory`, `generation` | the bytes and page write generations of `GuestMemory` |
| `cache`, `fast`, `latest` | `cache`, `fast_lookup_cache`, `last_cache_entry` of `Recompiler::Impl` |
| `Marked` | `mark_page_written` as write8 uses it, `mark_pages_written` |
| `UseHit` / `UseFound` / `Compile` / `GiveUp` | the four outcomes of the lookup in `Recompiler::run` |
| `Enter` | the comparison of the block's length with the remaining budget |
| `NativeInstruction` with `Overlaps` | native code, and the range check after its stores |
| `InterpretedInstruction`, `HleCall` | `core.step()` on an instruction, on an import |
| `Trap`, `FetchFault`, `HleError` | the exits of `run` with an error |

Abstractions: an instruction is one of five kinds (plain, store, dcbz, block end,
left to the interpreter); what it computes is not modelled, so a branch goes
anywhere and a store writes any instruction anywhere storable. Isync and
stwcx., which end a block, are of the kind `branch`. `memory_owner` is left out:
the emulator has one memory. `MaxWrites` bounds the exploration. `MCJitCache` fixes the
first instruction.

### FloatValues, FloatInterpreter, FloatNative, FloatEngines

What both engines do with floating-point and paired-single instructions.
`FloatInterpreter` follows the `execute_*` and `update_fpscr_*` functions of
`interpreter.cpp`; `FloatNative` follows the code `recompiler.cpp` emits and the
helpers that code calls. `FloatEngines` runs an instruction on both.

A value is a class (zero, finite, infinity, quiet or signalling NaN), a sign and
a tag that says which operation produced it: that is what the status register,
the NaN rules and a mixed-up operand can tell apart. What the host's arithmetic
rounds to, overflows to or leaves inexact is one outcome `r`, drawn for the step and
given to both engines: they call the same host functions. FPSCR is the set of
its one bits.

### GuestWord, IntegerInterpreter, IntegerNative, IntegerEngines

Integer, condition-register, branch and special-register instructions.
`GuestWord` has arithmetic modulo 2^WordBits (`TwoTo[WordBits]`). In `IntegerNative` the guest's
registers live in host registers while a block runs, with the dirty marks of
the emitted code; a block ends at any instruction, by choice, and is then
written back. `IntegerEngines` runs programs: one instruction, pairs that chain a
carry, and short blocks.

### ByteMemory, LaneValues, MemoryInterpreter, MemoryNative, MemoryEngines

Loads, stores, strings, multiples, quantized pairs, reservations and the cache
instructions. `ByteMemory` is `GuestMemory` byte by byte: flat memory, regions,
aliases, faults and the write watchpoint's events. `LaneValues` stands for
conversions between a lane's bytes and a register. The field `exit` of the native machine
names how native code leaves a block: not at all, after a store into its own words, at a
fault, or at a quantization it was not compiled for; `Recover` is what `Recompiler::run`
does then. The loops of lmw and stmw, in both engines, go on to the first word that
cannot be accessed (`Reached`, `Reach`): the registers, or the words (`WriteWords`), before
it have been moved.

| TLA+ | Code |
|---|---|
| the interpreter's state record | `EspressoState` |
| the native record: `host`, `dirty`, `state` | host registers, the compiler's dirty flags, `EspressoState` |
| `Block`, `index` / `Here` | the instruction addresses known at compile time |
| `Observed` | what is visible after the block has been written back |

### VulkanRenderer

`VulkanRenderer::render_frame` and what it needs: the fence of each frame in
flight, the fence an image was last drawn under, the upload buffers, scaling of
the scan-out, submission, presentation and `recreate_swapchain`. The GPU finishes
submissions in order and reads the upload buffer only then.

### Frontend

`src/frontend/main.cpp`: one step is what one thread does under one lock, or
between two. The threads are the frame loop (`ui`), the launch thread (`worker`), the
library scanner (`scan`) and the folder dialog's callback (`dialog`); they share
`LibraryScan`, `WorkerResult` (`shared`) and `FolderSelection`. `published` records every
command batch, for the properties only. A scenario bounds what user and system
do.

### Gx2Basics, Gx2Words, Gx2Registers, Gx2Resources, Gx2Surface, Gx2Replay, Gx2Fields, Gx2Immediate, Gx2

The GX2 library between a title and the renderer. `Gx2Basics` has the maps of all
of them as functions on the keys they have, `Gx2Words` 32-bit words as
sets of bits with the shifts and masks the code uses. `Gx2Registers` has the
calls of each Latte state, up to four of them written separately in the code: set
directly, make an object, set from an object, read an object back. `Gx2Resources`
has the sampler and texture objects with the renderer's decoders
(`latte_sampler.hpp`, `latte_texture_resource.hpp`); `Gx2Surface` the layout of
surfaces and scan buffers; `Gx2Replay` is `Gx2RegisterState`, which rebuilds
the registers and keeps the state of every draw.

`Gx2` puts them together: a call of the title changes its objects or queues
commands, `Publish` is the launch thread after a chunk of guest execution, `Apply`
the frame loop. The register writes of one call are one command whose value maps
registers to words: the queue is only taken between calls.

`Gx2Immediate` is what a title is promised: a call binds a value to a slot at once,
within the width of the field (`Gx2Fields`), and a draw uses what is bound. `Gx2!Immediate`
instantiates it with the bindings and draws that the whole stream (applied,
published and pending) yields, and `ImplementsImmediate` says that every step
of `Gx2` is one of its steps or a stutter.

| TLA+ | Code |
|---|---|
| `gx2` | `Gx2RuntimeState`; `mirrors` and `bound` are its copies of registers and bindings |
| `gx2.pending`, `published` | `pending_commands`, `WorkerResult::pending_gx2_commands` |
| `gpu` | the renderer's `Gx2RegisterState` |
| `scanout` | `WorkerResult::latest_guest_scanout` |
| `guest` | the objects in the title's memory, with what was last asked of each |
| `clock` | the host's clock, modulo the period of the vertical blank |
| `scenario` | which calls a title makes, and with which arguments |

## 4. Runs

| Run | Question | Bounds |
|---|---|---|
| `scheduler_wakeups` | lost wake-ups, agreement of the two records, priority; is the "no runnable thread" stop justified, is a sleep ever short | 3 threads of 2 priorities, 1 queue of 1 slot, affinities off the core and to any core, sleeps of 1 and 2 ticks, clock of 3 ticks |
| `scheduler_timers` | types, deadlines, the two clocks, the ring implements the sequence | 2 threads, one of which may be rebuilt, 2 messages, arrays of 0 to 3 slots, urgent sends, re-initialisation, sleeps of 1 and 2 ticks up to saturation at 4 |
| `guest_mutex` | owner and count against what threads hold | 2 mutexes, recursion up to 2, 2 threads |
| `jit_plain` | native code implements execution from memory, within its budget, through its own stores | 2 pages of 2 words, no alias, byte and wider stores, 1 slot, blocks of 2, budget 2, 1 store |
| `jit_alias` | entered blocks are current, no dangling pointers, the watchpoint | 2 pages of 1 word and an alias of the first, all kinds of instruction, 2 slots, 2 stores, no byte stores |
| `float_engines` | both engines on every floating-point instruction; the rules of FPSCR | 8 operand classes, 3 status registers, 5 outcomes of the host's arithmetic, the destination aliasing every source; one instruction |
| `integer_engines` | both engines on every integer, condition, branch and special-register instruction; carries over double words; host registers | 8-bit words at boundary values, every aliasing, pairs, blocks of up to 4 instructions cut anywhere |
| `divide_in_block` | the same, with a division after another instruction of its block | violated, finding 1 |
| `memory_engines` | both engines on every load, store and cache instruction; reservations; watch events; faults | 8-bit words of 2-bit bytes, flat memory of 48 bytes, 2 regions, 1 alias, up to 2 recorded events, blocks that overwrite themselves |
| `psq_exit` | the same, with a quantized store into its own block | violated, finding 2 |
| `frontend` | scan-outs, command batches, GPU resources, listing, shutdown | 7 scenarios: 2 dialogs; one or two launches; a window that changes; 1 or 2 images; no transfer; no renderer |
| `gx2` | the deferred stream against the immediate machine; objects read back; samplers, textures, surfaces; vertical blanks; scan-outs | one title per scenario, of 1 to 4 calls: every field of every register state, alone and with the others; pairs of states; 15 sampler calls in threes; 17 textures; 182 surfaces; bindings of every kind; a context; 4 scan-buffer modes; waits up to two periods late; 2 texture units; period of 3 steps; layouts up to 3,000,000 bytes |

Why the bounds suffice. A lost wake-up needs a sleeper, a woken receiver that
has not run yet and a third thread that takes or sends a message: three threads
(rings of two slots and more are in the other run, and in the proof). The priority order needs two priorities and a tie. The idle jump
matters with two sleepers of different deadlines and a third thread that
blocks. Wrap-around of the ring with an urgent send needs three slots. Deadlines
that saturate need sums beyond `TickMax`, which two sleeps reach. A stale block
needs one lookup, one store and a second lookup; a block across a page boundary
needs two pages; a collision of slots needs more block addresses than slots. An
instruction of either engine reads at most three sources and its flags: one step
from all combinations covers it, and only what outlives the step (carries, host
registers, reservations, the words of the block) needs longer programs. A word of
8 bits has every boundary a word of 32 bits has, and an address space of 256
bytes is small enough to put flat memory, two regions and an alias next to holes.
A frame reuses an upload buffer after two frames; the newest scan-out needs one
more after it to be mistaken for another. A register field has one bit above
its width in its argument, its highest and its lowest bit, so a wrong mask, shift or
width shows; two fields that overlap show when each is set alone. A draw that uses a
later binding, or a command that is lost between queue, publication and replay, needs two
calls and one publication between them; a fourth call shows what comes after it.

With at most two images the fence of an image never tells more than that of the
frame; three images are not run. All sizes of the window count as equally many
pixels, so that only `guest_scanout_dirty_` says that the scaled pixels are old.

What the passing runs exclude. `MidBlockDivide = FALSE` and `Departures = {}` leave out
the two situations of the findings, which have runs of their own; the engines
also do not meet the situations of the list below. `ErrorMeansStuck`
and `SleepNotCutShort` speak of states in which every thread may run on the core, and
`ByteStores = FALSE` of `jit_alias` excludes another of that list.

Deadlock is checked in the scheduler, lock and cache runs, where a stopped
emulator is the action `Halted`. The engines' programs end and the frontend exits,
so the other runs state CHECK_DEADLOCK FALSE.

Fairness. `Frontend!Spec` assumes weak fairness of the frame loop, the launch
thread, the scanner and the GPU: the operating system runs every thread that
can go on, and the GPU executes what was submitted. Nothing is assumed of the
user, of the window system or of the folder dialog. The other specifications state no liveness
and assume no fairness.

Findings.

1. `divide_in_block`: `docs/ARCHITECTURE.md` (lines 37, 39) says that guest
   registers are flushed to `CpuState` where that is required and that the
   interpreter is the reference; the division helpers work on `CpuState`, but the
   emitted call neither writes the host registers back first nor reloads them
   (`recompiler.cpp:6437`).
2. `psq_exit`: a quantized store that overwrites its own block leaves the block
   without writing back what the block computed (`recompiler.cpp:10390`).

Known disagreements and limits without a run, met while modelling; those of GX2
are part of the model, the others are kept out of the passing runs:

- with threads moved by OSSetThreadAffinity the single idle jump wakes a thread that may not
  run here, and the receive ends the run although a later sleeper would become
  runnable (`cafe_os_hle.cpp:1326`);
- the any-core test reads the whole attribute byte, so a detached thread of
  affinity zero never runs (`cafe_os_hle.cpp:1299`);
- comments say that OSFastMutex, `__ghsLock` and the spin lock cannot contend; since
  the scheduler exists they can (`cafe_os_hle.cpp:3838`);
- `write8` does not resolve the alias when it marks the page, so a block is entered
  after its code was changed (`guest_memory.hpp:243`);
- the range check after a native store compares addresses, not the bytes behind
  them, and misses a store through an alias (`recompiler.cpp:11123`);
- dcbz does not write registers back before a watch event (`recompiler.cpp:10709`);
  stswi and stswx do not set the current address for it (`recompiler.cpp:4547`);
- lmw that loads its own base and then faults is repeated with another base
  (`recompiler.cpp:13281`);
- a write through an alias is not seen by a watchpoint on the target
  (`guest_memory.hpp:525`).
- a GX2 context restore loads zeros, because no setter writes the shadow that
  GX2SetupContextStateEx clears, and leaves the mirrors as they were
  (`gx2_hle.cpp:5000`); the polygon offset and the guard band are in none of the restored
  ranges. `Gx2Immediate!Restore` and `MirrorsCurrent` state it so;
- the padding of a mip level is computed from the start of the level before it
  (`gx2_hle.cpp:1222`): harmless because sizes are multiples of the alignment of the
  next level (`LevelsStayApart`);
- the number of levels of a surface follows its extents, and `mip_offsets` has room for
  13 (`gx2_hle.cpp:1174`): the model keeps extents below 2^14;
- nothing increments `flip_execute_count`, so a title that polls GX2GetSwapStatus
  for a completed flip waits for ever;
- GX2Init replaces the whole state, so commands queued by a call before it are
  lost if no chunk ended in between (`gx2_hle.cpp:2766`).
## 5. Proofs

`CafeScheduler_proofs` proves, for any finite set of threads, any priorities,
queues, message arrays, delays and clock width (`SchedulerAssumption`):

- `TypeCorrect`: the type invariant, which includes that the ring stays inside
  its array and that the clock never reaches its saturated value. It is inductive.
- `NobodyOversleeps` and `ClocksAgree`: deadlines and the two clocks. They rest on
  `TimerInv`, which adds to the type invariant that every sleeper on no queue is
  registered, because only registered threads are woken.
- `RecordsAgree`, `NoWakeupIsLost` and `UrgentRunsFirst`, under the extra
  assumption that no registered thread is created a second time
  (`MayRebuild = {}`). `WakeupInv` adds to `StatesAgree` and `NoLostWakeup` that a
  thread never created has fresh records and that a woken receiver is
  registered; without it a creation could put a thread that is still marked
  sleeping among the receivers. The assumption is needed: rebuilding a thread that
  sleeps breaks the agreement.

The proof of each invariant is by the step: lemmas for `SwitchTo`, `KeepRunning`
and `WakeReceiver`, then one case per action.

It also proves `MutexesExclude`: `OwnerHolds` under every schedule. The
mutex fields change only in lock calls, and `current` is a thread at every step
because the scheduler's type invariant also holds under the locks
(`SchedulerTypedUnderLocks`).

`JitCache_proofs` proves, for every memory, alias, block length, slot count and
budget (`MemoryAssumption`, `JitAssumption`):

- `JitTypes`, `LookupsNeverDangle` and `WatchpointAlwaysHonoured` from
  `BlocksInv`, which adds that an entry is a nonempty run of mapped words and that
  a slot points only at an entry that belongs in it: the code clears one slot
  when it erases an entry, and this is why one is enough.
- `EnteredCodeIsCurrent`, when byte stores and an alias do not occur together
  (`write8`, section 4), from `CurrencyInv`: captured generations never exceed the current
  ones, and an entry whose generations match has the words of memory. A store
  that changes a word of a block changes the generation of its first or its last
  page, because a block spans two pages at most.
- `RunningCodeIsCurrent` and `JitImplementsExecution`, the refinement, when nothing
  is aliased (the range check, section 4), from `ExecutionInv`: the words a running block has yet
  to execute are those of memory.

`ErrorsAreStuck` and `SleepsAreWhole` follow from the same invariants, again when
no thread is rebuilt. `RingsImplementQueues` is the
refinement of `MessageQueueSpec`, rebuilt threads included: the abstract queue is
`Contents`, the ring read from its first element; each of the three calls maps to its
abstract step, because the index sums of two rings agree modulo the capacity exactly
where the sums agree, and every other action leaves the rings alone. The history `sent`
ties each abstract send to the arguments of the concrete one: its message, and the front
for high priority only.

`Frontend_proofs` proves, for every set of scenarios, sizes, images and every number
of frames in flight (`FrontendAssumption`: a scenario is a record of the declared
fields; `VulkanRendererAssumption`: there is a frame, `Hidden` is no size, and `None`
is neither an image nor a frame):

- `CommandsDrawnInOrder` and `ScanoutsAreCurrent` from `LaunchInv`, which adds what
  the frame loop's copies hold between its two locks: what it has fetched and not yet
  applied is the next part of what was published, and a scan-out without pixels is
  never the one to be shown.
- `UploadsStayIntact` and `ImagesNeverShared` from `RendererInv`, whose addition
  `FencesInv` says that a submission in flight has its fence unsignalled and its image
  marked with its frame, and no two have one frame; the wait for the frame's fence
  and the wait for the image's fence are enough because of it. `RendererInv` is
  inductive only relative to `LaunchInv`, which types the frame loop.

`Gx2_proofs` proves, for every set of scenarios and every period
(`PeriodAssumption`: the period is positive and `Unset` and `Null` are no values of
what they stand in for; `ScenariosAssumption`: a title binds objects to slots and
resources to units that exist, changes its sampler by the calls for it, and its
surface is a GX2Surface whose extents are below 2^14, so that `mip_offsets` has room for
its levels):

- `WaitsOnTheBeat`: the deadline kept by the runtime is a whole number of periods from
  the first one and at most one period off (`PaceOf`).
- `FailedCreationRestores`: one case per call; the call that fails puts its field back.
- `SwapsAreCaptured`: `StreamOf` adds that the last swap in the queue carries the
  latest flip and `TvOf` that a configured television has one of the two sizes. That
  the last swap of a stream is the one replayed last is an induction over the
  stream; it is proved by the least and greatest position that would refute it.
- `MirrorsStayCurrent` from `MirrorsInv`. Its argument is that the replay of a stream in
  two parts is the replay of its parts in turn (`AppliedJoined`), so that publishing and
  applying change nothing of what the stream says and a queued command acts on that
  (`Queued`); the replay is a fold, whose recursion is shown to be well founded
  (`FoldExists`) and then read one command at a time (`AppliedUpto`). Beyond that, every
  mirrored register is a context register and no texture's, sampler's or border's
  (`MirroredAreContext`, `ResourceApart`), because a sampler keeps its three words
  whatever is asked of it (`SamplerKeepsWords`, in `TitleInv`).
- `LevelsStayApart` from `SurfaceInv`, which types the fields a layout is calculated from.
  The start of a level is padded before the size of the level below is added, so it is
  aligned only because that size is a multiple of its alignment (`NextAlignment`): the
  bytes of a tile are a multiple of the alignment of its tile mode, for every format and
  number of samples, and those of a macro tile also of a micro tile's (`MacroTile`);
  padding to powers of two keeps multiples of the tile (`Paddings`); and once a level has
  fallen back to micro tiles, those above it have (`FallsBack`), so the alignment never
  grows from one level to the next.

`FloatEngines_proofs` proves, for every set of operands, FPSCRs, outcomes and FPSCR
images and every length of program (`FloatAssumption`: operands are values, and the
host's arithmetic gives no NaN where the instruction has none to propagate):

- `FloatEnginesAgree`, `FloatSummariesFollow` and `FloatExceptionsSuppress` from
  `Agreement`: the machines are equal, every register holds a value and the summary
  bits follow. The first alone is not inductive: a compare raises its exception after
  the condition bits in the interpreter and before them in the emitted code, and the
  bits written outside a summary leave VX and FEX as they were; and results are told
  apart by classes only values have. One lemma per instruction shows that the emitted
  code computes the handler's state, that this state has the invariant, and that an
  enabled exception leaves the registers. Arithmetic instructions share the lemmas
  about a chain of checks that ends in a result (`FreeForm`). The assumption makes every
  computed result a value that is no NaN: the invalid operations are tested before.

`GuestWord_proofs` has no theorem of the system, only lemmas on words of any width:
`TwoTo` obeys the laws of powers of two (`PowerStep` to `PowerOrder`, by the least
number that would refute them), Euclidean division by them, the wrap of sums and
products (`UnsignedSum`, `UnsignedProduct`), a word is the set of its bits and back
(`BitsInjective`, `BitsSurjective`), the sign tests of an overflow (`AddSigns`,
`SubtractSigns`), a mask that aligns (`AlignedByMask`), a sign extension by two shifts
(`ExtendByShifts`) and the count of leading zeros (`LeadingZeros`).

`IntegerEngines_proofs` proves with them, for words of any multiple of four bits from
eight up and for every set of programs (`IntegerEnginesAssumption`: registers, immediates,
shifts and displacements are those the decoder can give):

- `IntegerEnginesAgree` and `HostRegistersCoherent` from `IInv`: the native machine is
  sound (`IsNative`: what is dirty was fetched, what is clean is CpuState's) and, seen
  from the address the compiler knows (`View`), is the interpreter's. There is a lemma
  for every emitted form (`AddAgrees` to `BranchesAgree`), each about an arbitrary sound native machine, because a
  block can put any instruction after any other; `FinishedBlock` and `FinishedBranch`
  are the write-back at the end of a block. The condition `~MidBlockDivide` is that of
  finding 1: with it `DivisionAgrees` has its operands in CpuState; without it the
  theorem is false, as the run `divide_in_block` shows.
- `DoubleWordsAreExact` (`WideArithmetic`) adds `History`: what the first two instructions
  executed made of the machine a program starts with. The first of a pair leaves the low
  word and in CA the multiple of the modulus it dropped (`FirstLeaves`), the second takes
  that up in an exact signed sum (`SecondLeaves`), and a signed number over a word is a
  double word exactly when the signed number fits a word (`HighOverLow`).

`MemoryEngines_proofs` proves with them, for words of any multiple of four bits from eight
up, any flat memory, regions and aliases `map_region` and `map_alias` accept, any watchpoint and any set of programs
(`MemoryEnginesAssumption`: programs start with well-formed machines and memories, without a
reservation, and have the registers and immediates the decoder can give), while none of the
four known disagreements of section 4 occurs (`Departures = {}`; `Departs` says exactly
which steps those are, and with one of them admitted the theorem is false, as `psq_exit` shows):

- `EnginesNeverDisagree` and `WatchpointsNeverDisagree` from `Together`: while both run, the native
  machine stands for the interpreter's at the address the compiler knows, over a memory of
  the same bytes and events (`Stands`, `Near`: what the watchpoint would name as the writer
  is known to native code only while a watchpoint is set); once they have stopped, CpuState
  is the interpreter's machine. There is a lemma for each kind of instruction (`LoadAgrees` to
  `OtherAgrees`) about an arbitrary sound native machine, whose conclusion `Agrees` has three
  cases: both go on, the code leaves the block with its registers written back, or both
  stop as if nothing had happened. lmw and stmw stop in the middle; what they leave is the
  same words in both engines (`AgreesInPart`), and a lmw that has not touched its base can be
  repeated (`LoadMultipleAgain`). `RepeatedStops` is the argument for `Recompiler::run`: the
  interpreter, given what native code left at a fault, faults again in the same way.
- `StoresHavePartners` adds `History`: a reservation that is held comes from the last lwarx,
  with no stwcx. since; only these two touch it (`StepLinks`).
- `FaultsAreClean` follows from `StepKeeps`, the summary of a step that the inductive proof
  also rests on.

Only model-checked: the liveness properties (out of the prover's reach); of GX2
`ObjectsAsAsked`, which speaks of folds over bit fields, and the refinement `ImplementsImmediate`,
which rests on them (induction over data).

## 6. Not modelled

The instructions' mnemonics, traces and printed results; register contents across a switch; what a
switch does to a reservation; the host's timebase; the pixels, pipelines and
textures of the renderer; of GX2 the instructions of a fetch shader, the fields
of shader and buffer structures (an object is its contents, which the binding
copies), GX2R buffers, the DRC's buffer and the scales (stored, never read), event
callbacks, the attributes of GX2Init, faults of the title's pointers and the
untiling of texels; guest events (no thread can wait on one); everything
in the inventory without a module in section 3. `PROJECT.json` gives the reason
for each.
