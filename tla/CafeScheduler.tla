--------------------------- MODULE CafeScheduler ---------------------------
(***************************************************************************)
(* The cooperative Cafe OS thread scheduler and the guest message queues   *)
(* of Affogato (src/src/cpu/espresso/cafe_os_hle.cpp).                     *)
(*                                                                         *)
(* One host thread interprets one emulated Espresso core.  The guest       *)
(* threads share that core: the thread at current_thread_address runs      *)
(* until one of its HLE calls hands the core over in switch_guest_thread.  *)
(* A scheduling step is therefore one HLE call of the current thread, and  *)
(* the interleavings are those of the calls that guest code may make.      *)
(*                                                                         *)
(* For each thread the host keeps a GuestThreadRuntimeState (sleeping,     *)
(* wake_tick, waiting_message_queue) and the guest's OSThread keeps its    *)
(* state byte, suspend count and affinity: two records of one fact, which  *)
(* every call has to keep in step.                                         *)
(***************************************************************************)
EXTENDS Integers, Sequences, FiniteSets

CONSTANTS
  Thread,       \* the OSThread addresses the guest uses
  Main,         \* the default thread, made by initialize_default_guest_thread
  Priority,     \* internal priority of each thread, a lower number is more urgent
  MayRebuild,   \* threads the guest may hand to OSCreateThread a second time
  CoreMasks,    \* the affinity masks guests ask for, as sets of core numbers
  Detached,     \* whether guests set an attribute bit besides the affinity
  Queue,        \* the OSMessageQueue addresses the guest uses
  NoQueue,      \* the null queue address
  Message,      \* what a message slot can hold
  NoMessage,    \* the contents of a slot never written
  MaxCapacity,  \* the largest message array a guest supplies
  Delays,       \* the positive tick counts passed to OSSleepTicks
  TickMax       \* numeric_limits<uint64_t>::max(), where ticks saturate

ASSUME SchedulerAssumption ==
  /\ Main \in Thread
  /\ IsFiniteSet(Thread)
  /\ Priority \in [Thread -> Nat]
  /\ MayRebuild \subseteq Thread
  /\ CoreMasks \subseteq SUBSET (0..2)
  /\ Detached \subseteq BOOLEAN
  /\ NoQueue \notin Queue
  /\ NoMessage \notin Message
  /\ MaxCapacity \in Nat
  /\ TickMax \in Nat \ {0}
  /\ Delays \subseteq 1..TickMax

VARIABLES
  guest_threads,          \* the registered threads, in registration order
  current,                \* current_thread_address
  state,                  \* OSThread state byte
  suspend_count,          \* OSThread suspend count
  attributes,             \* OSThread attributes: affinity mask and other bits
  sleeping,               \* GuestThreadRuntimeState::sleeping
  wake_tick,              \* GuestThreadRuntimeState::wake_tick
  waiting_message_queue,  \* GuestThreadRuntimeState::waiting_message_queue
  retrying,               \* the queue whose OSReceiveMessage import the thread
                          \* resumes at, NoQueue when it resumes after its call
  guest_scheduler_ticks,  \* virtual time of the scheduler
  os_sleep_ticks_offset,  \* what all sleeps have added to OSTime
  capacity, first, used,  \* OSMessageQueue ring metadata
  slots,                  \* the message array of each queue
  sent,                   \* queue, message and priority flag of the last send
                          \* that stored a message, <<>> before the first
  delivered,              \* what the last successful receive copied out
  stopped                 \* why the run loop ended, "no" while it runs

threadVars == <<guest_threads, current, state, suspend_count, attributes,
                sleeping, wake_tick, waiting_message_queue, retrying>>
clockVars  == <<guest_scheduler_ticks, os_sleep_ticks_offset>>
queueVars  == <<capacity, first, used, slots, sent, delivered>>
vars       == <<threadVars, clockVars, queueVars, stopped>>

Core        == 1   \* current_core_index
Attributes  == [cores : SUBSET (0..2), detached : BOOLEAN]
QueueOrNone == Queue \cup {NoQueue}
States      == {"none", "ready", "running", "waiting"}
Reasons     == {"no", "no runnable guest thread", "send on a full queue",
                "OSExitThread", "contended mutex", "mutex misuse"}
Registered  == {guest_threads[i] : i \in DOMAIN guest_threads}

Init ==
  /\ guest_threads = <<Main>>
  /\ current = Main
  /\ state = [t \in Thread |-> IF t = Main THEN "running" ELSE "none"]
  /\ suspend_count = [t \in Thread |-> 0]
  /\ attributes = [t \in Thread |-> [cores |-> {Core}, detached |-> FALSE]]
  /\ sleeping = [t \in Thread |-> FALSE]
  /\ wake_tick = [t \in Thread |-> 0]
  /\ waiting_message_queue = [t \in Thread |-> NoQueue]
  /\ retrying = [t \in Thread |-> NoQueue]
  /\ guest_scheduler_ticks = 0
  /\ os_sleep_ticks_offset = 0
  /\ capacity = [q \in Queue |-> 0]
  /\ first = [q \in Queue |-> 0]
  /\ used = [q \in Queue |-> 0]
  /\ slots = [q \in Queue |-> [i \in 0..(MaxCapacity - 1) |-> NoMessage]]
  /\ sent = <<>>
  /\ delivered = NoMessage
  /\ stopped = "no"

----------------------------------------------------------------------------
(***************************************************************************)
(* switch_guest_thread(block, wake, q).  The current thread parks itself:  *)
(* it blocks until tick wake (q = NoQueue), it blocks on queue q (wake =   *)
(* TickMax, no deadline), or it stays ready (block = FALSE, wake = 0).     *)
(* Then another thread is selected, or the current one goes on.            *)
(***************************************************************************)
\* Mutation: the tick sum is not saturated.
UnsaturatedAdd(a, b) == a + b

SaturatingAdd(a, b) == IF a + b > TickMax THEN TickMax ELSE a + b

Sleepers(q) == {t \in Registered : sleeping[t] /\ waiting_message_queue[t] = q}

\* Mutation: a thread whose deadline is this very tick is not woken.
StrictlyDue(now) == {t \in Sleepers(NoQueue) \ {current} : wake_tick[t] < now}

\* The threads besides the current one that wake_due_threads wakes at time now.
Due(now) == {t \in Sleepers(NoQueue) \ {current} : wake_tick[t] <= now}

\* The affinity test of select_ready_thread reads the whole attribute byte: an
\* empty mask admits every core only if no other bit is set.
Eligible(t) ==
  \/ attributes[t].cores = {} /\ ~attributes[t].detached
  \/ Core \in attributes[t].cores

\* The threads select_ready_thread considers once those due at now are awake.
Runnable(now) ==
  {t \in Registered \ {current} :
     /\ t \in Due(now) \/ (~sleeping[t] /\ state[t] = "ready")
     /\ suspend_count[t] = 0
     /\ Eligible(t)}

Before(t, u) ==
  \E i, j \in DOMAIN guest_threads :
     i < j /\ guest_threads[i] = t /\ guest_threads[j] = u

\* Mutation: the scan keeps the first thread it meets, whatever its priority.
FirstRegistered(S) == {t \in S : \A u \in S \ {t} : Before(t, u)}

\* A scan keeps the first registered thread of the smallest priority number.
MostUrgent(S) ==
  {t \in S : \A u \in S \ {t} :
     Priority[t] < Priority[u] \/ (Priority[t] = Priority[u] /\ Before(t, u))}

\* A thread that only yields does not give way to a less urgent one.
Selected(block, now) ==
  {t \in MostUrgent(Runnable(now)) : block \/ Priority[t] <= Priority[current]}

\* Mutation: the caller's own deadline is left out of the idle jump.
OtherTimers(wake) ==
  {n \in {wake_tick[t] : t \in Sleepers(NoQueue) \ {current}} :
     guest_scheduler_ticks < n /\ n < TickMax}

PendingTimers(wake) ==
  {n \in {wake_tick[t] : t \in Sleepers(NoQueue) \ {current}} \cup {wake} :
     guest_scheduler_ticks < n /\ n < TickMax}

\* Mutation: an idle core does not move virtual time.
NoIdleJump(block, wake) == {guest_scheduler_ticks}

\* Virtual time moves only when the core would idle, and then to the earliest
\* pending timer, once: the threads due there are the last ones considered.
SwitchTime(block, wake) ==
  IF block /\ Runnable(guest_scheduler_ticks) = {} /\ PendingTimers(wake) # {}
  THEN {n \in PendingTimers(wake) : \A m \in PendingTimers(wake) : n <= m}
  ELSE {guest_scheduler_ticks}

\* The current thread is already ready again when the other one starts.
OwnTimerDue(block, wake, q, now) == ~block \/ (q = NoQueue /\ wake <= now)

Awoken(now, block, wake, q) ==
  Due(now) \cup (IF OwnTimerDue(block, wake, q, now) THEN {current} ELSE {})

\* The core goes to thread next; awake are the threads that are ready again.
HandOver(now, next, awake, wake, q) ==
  /\ guest_scheduler_ticks' = now
  /\ current' = next
  /\ state' = [t \in Thread |-> IF t = next THEN "running"
                                ELSE IF t \in awake THEN "ready"
                                ELSE IF t = current THEN "waiting"
                                ELSE state[t]]
  /\ sleeping' = [t \in Thread |-> t \notin awake /\ (t = current \/ sleeping[t])]
  /\ wake_tick' = [t \in Thread |-> IF t \in awake THEN 0
                                    ELSE IF t = current THEN wake
                                    ELSE wake_tick[t]]
  /\ waiting_message_queue' = [waiting_message_queue EXCEPT ![current] = q]
  /\ retrying' = [retrying EXCEPT ![current] = q]

\* Mutation: a call that kept the core leaves its block set up.
GoOnStillAsleep(now, awake) ==
  /\ guest_scheduler_ticks' = now
  /\ state' = [t \in Thread |-> IF t = current THEN "running"
                                ELSE IF t \in awake THEN "ready"
                                ELSE state[t]]
  /\ sleeping' = [t \in Thread |-> t = current \/ (t \notin awake /\ sleeping[t])]
  /\ wake_tick' = [t \in Thread |-> IF t \in awake THEN 0 ELSE wake_tick[t]]
  /\ UNCHANGED <<current, waiting_message_queue, retrying>>

\* The current thread goes on; awake are the other threads that are ready again.
GoOn(now, awake) ==
  /\ guest_scheduler_ticks' = now
  /\ state' = [t \in Thread |-> IF t = current THEN "running"
                                ELSE IF t \in awake THEN "ready"
                                ELSE state[t]]
  /\ sleeping' = [t \in Thread |-> t \notin awake /\ t # current /\ sleeping[t]]
  /\ wake_tick' = [t \in Thread |-> IF t = current \/ t \in awake THEN 0
                                    ELSE wake_tick[t]]
  /\ waiting_message_queue' = [waiting_message_queue EXCEPT ![current] = NoQueue]
  /\ UNCHANGED <<current, retrying>>

SwitchTo(block, wake, q) ==
  \E now \in SwitchTime(block, wake) : \E next \in Selected(block, now) :
    HandOver(now, next, Awoken(now, block, wake, q), wake, q)

KeepRunning(block, wake) ==
  \E now \in SwitchTime(block, wake) :
    Selected(block, now) = {} /\ GoOn(now, Due(now))

----------------------------------------------------------------------------
(***************************************************************************)
(* The HLE calls of the current thread.  InGuestCode holds when the thread *)
(* executes its own instructions; a thread that blocked in OSReceiveMessage *)
(* resumes at the import itself and repeats that call before anything else. *)
(* Calls that fail a pointer check end the run without touching this state *)
(* and are not listed; polls that find nothing to do are stuttering steps. *)
(***************************************************************************)
InGuestCode == stopped = "no" /\ retrying[current] = NoQueue

\* OSCreateThread writes the OSThread and its context; a record the host
\* already holds for the address is found again and keeps its fields.
OSCreateThread(t, has_entry, cores, detached) ==
  /\ InGuestCode
  /\ state[t] = "none" \/ t \in MayRebuild
  /\ state' = [state EXCEPT ![t] = IF has_entry THEN "ready" ELSE "none"]
  /\ suspend_count' = [suspend_count EXCEPT ![t] = IF has_entry THEN 1 ELSE 0]
  /\ attributes' = [attributes EXCEPT ![t] =
                      [cores |-> IF cores = {} THEN {Core} ELSE cores,
                       detached |-> detached]]
  /\ retrying' = [retrying EXCEPT ![t] = NoQueue]
  /\ guest_threads' = IF t \in Registered THEN guest_threads
                      ELSE Append(guest_threads, t)
  /\ UNCHANGED <<current, sleeping, wake_tick, waiting_message_queue,
                 clockVars, queueVars, stopped>>

OSResumeThread(t) ==
  /\ InGuestCode
  /\ t \in Registered
  /\ suspend_count[t] # 0
  /\ suspend_count' = [suspend_count EXCEPT ![t] = @ - 1]
  /\ UNCHANGED <<guest_threads, current, state, attributes, sleeping, wake_tick,
                 waiting_message_queue, retrying, clockVars, queueVars, stopped>>

OSSetThreadAffinity(t, cores) ==
  /\ InGuestCode
  /\ t \in Registered
  /\ attributes' = [attributes EXCEPT ![t].cores = cores]
  /\ UNCHANGED <<guest_threads, current, state, suspend_count, sleeping,
                 wake_tick, waiting_message_queue, retrying, clockVars,
                 queueVars, stopped>>

\* A deadline that is not in the future makes OSSleepTicks a yield.
OSYieldThread ==
  /\ InGuestCode
  /\ SwitchTo(FALSE, 0, NoQueue) \/ KeepRunning(FALSE, 0)
  /\ UNCHANGED <<guest_threads, suspend_count, attributes, os_sleep_ticks_offset,
                 queueVars, stopped>>

\* Mutation: OSTime does not account for the sleep.
SleepWithoutOSTime(ticks) ==
  LET wake == SaturatingAdd(guest_scheduler_ticks, ticks) IN
  /\ InGuestCode
  /\ SwitchTo(TRUE, wake, NoQueue) \/ KeepRunning(TRUE, wake)
  /\ UNCHANGED <<guest_threads, suspend_count, attributes, os_sleep_ticks_offset,
                 queueVars, stopped>>

OSSleepTicks(ticks) ==
  LET wake == SaturatingAdd(guest_scheduler_ticks, ticks) IN
  /\ InGuestCode
  /\ os_sleep_ticks_offset' = SaturatingAdd(os_sleep_ticks_offset, ticks)
  /\ SwitchTo(TRUE, wake, NoQueue) \/ KeepRunning(TRUE, wake)
  /\ UNCHANGED <<guest_threads, suspend_count, attributes, queueVars, stopped>>

OSInitMessageQueue(q, size) ==
  /\ InGuestCode
  /\ capacity' = [capacity EXCEPT ![q] = size]
  /\ first' = [first EXCEPT ![q] = 0]
  /\ used' = [used EXCEPT ![q] = 0]
  /\ UNCHANGED <<slots, sent, delivered, threadVars, clockVars, stopped>>

\* Mutation: only receivers that may run on this core are considered.
WakeEligibleReceiver(q) ==
  LET eligible == {t \in Sleepers(q) : suspend_count[t] = 0 /\ Eligible(t)} IN
  \/ /\ eligible = {}
     /\ UNCHANGED <<state, sleeping, wake_tick, waiting_message_queue>>
  \/ \E t \in MostUrgent(eligible) :
       /\ state' = [state EXCEPT ![t] = "ready"]
       /\ sleeping' = [sleeping EXCEPT ![t] = FALSE]
       /\ wake_tick' = [wake_tick EXCEPT ![t] = 0]
       /\ waiting_message_queue' = [waiting_message_queue EXCEPT ![t] = NoQueue]

\* wake_message_queue_receiver: neither suspension nor affinity is looked at.
WakeReceiver(q) ==
  \/ /\ Sleepers(q) = {}
     /\ UNCHANGED <<state, sleeping, wake_tick, waiting_message_queue>>
  \/ \E t \in MostUrgent(Sleepers(q)) :
       /\ state' = [state EXCEPT ![t] = "ready"]
       /\ sleeping' = [sleeping EXCEPT ![t] = FALSE]
       /\ wake_tick' = [wake_tick EXCEPT ![t] = 0]
       /\ waiting_message_queue' = [waiting_message_queue EXCEPT ![t] = NoQueue]

\* A high-priority message is put in front of the oldest one.
SendSlot(q, high_priority) ==
  IF high_priority THEN (first[q] + capacity[q] - 1) % capacity[q]
                   ELSE (first[q] + used[q]) % capacity[q]

\* Mutation: an urgent message goes behind the newest one like any other.
SendAtTheBack(q, m, high_priority) ==
  /\ InGuestCode
  /\ used[q] < capacity[q]
  /\ slots' = [slots EXCEPT ![q][SendSlot(q, FALSE)] = m]
  /\ used' = [used EXCEPT ![q] = @ + 1]
  /\ sent' = <<q, m, high_priority>>
  /\ WakeReceiver(q)
  /\ UNCHANGED <<guest_threads, current, suspend_count, attributes, retrying,
                 clockVars, capacity, first, delivered, stopped>>

OSSendMessage(q, m, high_priority) ==
  /\ InGuestCode
  /\ used[q] < capacity[q]
  /\ slots' = [slots EXCEPT ![q][SendSlot(q, high_priority)] = m]
  /\ first' = IF high_priority
              THEN [first EXCEPT ![q] = SendSlot(q, high_priority)] ELSE first
  /\ used' = [used EXCEPT ![q] = @ + 1]
  /\ sent' = <<q, m, high_priority>>
  /\ WakeReceiver(q)
  /\ UNCHANGED <<guest_threads, current, suspend_count, attributes, retrying,
                 clockVars, capacity, delivered, stopped>>

\* A blocking send on a full queue is an HLE error that ends the run.
OSSendMessageFull(q) ==
  /\ InGuestCode
  /\ used[q] >= capacity[q]
  /\ stopped' = "send on a full queue"
  /\ UNCHANGED <<threadVars, clockVars, queueVars>>

\* The receive is the guest's next call or the retry of the one it blocked in.
MayReceive(q) == stopped = "no" /\ retrying[current] \in {NoQueue, q}

OSReceiveMessage(q) ==
  /\ MayReceive(q)
  /\ used[q] # 0
  /\ delivered' = slots[q][first[q]]
  /\ first' = [first EXCEPT ![q] = (@ + 1) % capacity[q]]
  /\ used' = [used EXCEPT ![q] = @ - 1]
  /\ retrying' = [retrying EXCEPT ![current] = NoQueue]
  /\ UNCHANGED <<guest_threads, current, state, suspend_count, attributes,
                 sleeping, wake_tick, waiting_message_queue, clockVars,
                 capacity, slots, sent, stopped>>

\* A blocking receive on an empty queue parks the thread, or ends the run when
\* switch_guest_thread finds nobody to run.
OSReceiveMessageEmpty(q) ==
  /\ MayReceive(q)
  /\ used[q] = 0
  /\ \/ SwitchTo(TRUE, TickMax, q) /\ UNCHANGED stopped
     \/ KeepRunning(TRUE, TickMax) /\ stopped' = "no runnable guest thread"
  /\ UNCHANGED <<guest_threads, suspend_count, attributes, os_sleep_ticks_offset,
                 queueVars>>

\* Returning from the entry function of a thread reaches OSExitThread, which no
\* module registers: the dispatcher reports an unimplemented call.
OSExitThread ==
  /\ InGuestCode
  /\ stopped' = "OSExitThread"
  /\ UNCHANGED <<threadVars, clockVars, queueVars>>

Halted == stopped # "no" /\ UNCHANGED vars

Next ==
  \/ \E t \in Thread, has_entry \in BOOLEAN, cores \in CoreMasks, detached \in Detached :
        OSCreateThread(t, has_entry, cores, detached)
  \/ \E t \in Thread : OSResumeThread(t)
  \/ \E t \in Thread, cores \in CoreMasks : OSSetThreadAffinity(t, cores)
  \/ OSYieldThread
  \/ \E ticks \in Delays : OSSleepTicks(ticks)
  \/ \E q \in Queue, size \in 0..MaxCapacity : OSInitMessageQueue(q, size)
  \/ \E q \in Queue, m \in Message, high_priority \in BOOLEAN :
        OSSendMessage(q, m, high_priority)
  \/ \E q \in Queue : OSSendMessageFull(q)
  \/ \E q \in Queue : OSReceiveMessage(q)
  \/ \E q \in Queue : OSReceiveMessageEmpty(q)
  \/ OSExitThread
  \/ Halted

Spec == Init /\ [][Next]_vars

----------------------------------------------------------------------------
(***************************************************************************)
(* Type invariant: every variable has the range its field has in the code, *)
(* the message ring stays inside its array and no thread registers twice.  *)
(***************************************************************************)
ThreadsTyped ==
  /\ guest_threads \in Seq(Thread)
  /\ \A i, j \in DOMAIN guest_threads :
        guest_threads[i] = guest_threads[j] => i = j
  /\ current \in Registered
  /\ state \in [Thread -> States]
  /\ suspend_count \in [Thread -> 0..1]
  /\ attributes \in [Thread -> Attributes]
  /\ sleeping \in [Thread -> BOOLEAN]
  /\ wake_tick \in [Thread -> 0..TickMax]
  /\ waiting_message_queue \in [Thread -> QueueOrNone]
  /\ retrying \in [Thread -> QueueOrNone]

ClocksTyped ==
  /\ guest_scheduler_ticks \in 0..(TickMax - 1)
  /\ os_sleep_ticks_offset \in 0..TickMax

QueuesTyped ==
  /\ capacity \in [Queue -> 0..MaxCapacity]
  /\ first \in [Queue -> 0..MaxCapacity]
  /\ used \in [Queue -> 0..MaxCapacity]
  /\ \A q \in Queue :
        used[q] <= capacity[q] /\ (first[q] = 0 \/ first[q] < capacity[q])
  /\ slots \in [Queue -> [0..(MaxCapacity - 1) -> Message \cup {NoMessage}]]
  /\ sent \in {<<>>} \cup (Queue \X Message \X BOOLEAN)
  /\ delivered \in Message \cup {NoMessage}

TypeOK == ThreadsTyped /\ ClocksTyped /\ QueuesTyped /\ stopped \in Reasons

\* The host's record and the guest's state byte of a thread never disagree,
\* whichever calls interleave: the one running thread is the current one, a
\* thread sleeps in the host exactly when the guest sees it waiting, and only a
\* sleeping thread is on a message queue (switch_guest_thread, the wake-ups and
\* OSCreateThread write the two records separately).
StatesAgree ==
  \A t \in Thread :
    /\ state[t] = "running" <=> t = current
    /\ sleeping[t] <=> state[t] = "waiting"
    /\ waiting_message_queue[t] # NoQueue =>
         sleeping[t] /\ retrying[t] = waiting_message_queue[t]

\* The threads woken for queue q that have not repeated their receive yet.
Woken(q) == {t \in Registered : retrying[t] = q /\ ~sleeping[t]}

\* No lost wake-up: while a thread sleeps on a queue, every message in that
\* queue is covered by a thread already woken for it.  A sender wakes one
\* receiver, the receiver repeats the call later, and in between another thread
\* may take the message, send more, or start to wait.
NoLostWakeup ==
  \A q \in Queue : Sleepers(q) # {} => used[q] <= Cardinality(Woken(q))

\* No thread oversleeps: whenever guest code runs, every timed sleeper's
\* deadline still lies ahead of the scheduler's clock (wake_due_threads runs at
\* each switch, and the idle jump stops at the earliest deadline).
NoOverdueSleeper ==
  \A t \in Sleepers(NoQueue) : guest_scheduler_ticks < wake_tick[t]

\* The two clocks: OSTime has advanced at least as far as the scheduler's clock
\* and as every deadline a thread sleeps to, so a thread that wakes never reads
\* a time before its own deadline (OSSleepTicks adds to the one, the idle jump
\* moves the other).
ClockCoversSleep ==
  /\ guest_scheduler_ticks <= os_sleep_ticks_offset
  /\ \A t \in Sleepers(NoQueue) : wake_tick[t] <= os_sleep_ticks_offset

\* A thread that could run now or at some deadline, by the comment in
\* select_ready_thread: affinity zero is the any-core setting, a nonzero mask
\* must include the emulated core.
CouldRun(t) ==
  /\ suspend_count[t] = 0
  /\ attributes[t].cores = {} \/ Core \in attributes[t].cores
  /\ \/ ~sleeping[t] /\ state[t] = "ready"
     \/ t \in Sleepers(NoQueue) /\ wake_tick[t] < TickMax

\* While every thread may run on the emulated core, a receive ends the run with
\* "no runnable guest thread" only when no other thread could run, now or once
\* virtual time reaches its deadline.
ErrorMeansStuck ==
  stopped = "no runnable guest thread" /\ (\A t \in Registered : Eligible(t)) =>
    \A t \in Registered \ {current} : ~CouldRun(t)

\* Whenever the core changes hands, no thread that could have been chosen is
\* more urgent than the one that got it, nor as urgent and registered earlier.
\* The thread that gave the core up is no candidate, even when its own deadline
\* came up in the same switch.
UrgentFirst ==
  [][current' # current =>
       \A t \in Registered \ {current, current'} :
          state'[t] = "ready" /\ suspend_count[t] = 0 /\ Eligible(t)
            => \/ Priority[current'] < Priority[t]
               \/ Priority[current'] = Priority[t] /\ Before(current', t)]_vars

\* A sleep is never cut short, while every thread may run on the emulated core: a
\* thread whose OSSleepTicks returns without a switch finds that the clock has
\* advanced by all it asked for.
SleepNotCutShort ==
  [][os_sleep_ticks_offset' # os_sleep_ticks_offset /\ current' = current
       /\ os_sleep_ticks_offset' < TickMax /\ (\A t \in Registered : Eligible(t))
     => guest_scheduler_ticks' - guest_scheduler_ticks >=
          os_sleep_ticks_offset' - os_sleep_ticks_offset]_vars

\* The messages of queue q from the oldest to the newest.
Contents(q) == [i \in 1..used[q] |-> slots[q][(first[q] + i - 1) % capacity[q]]]

MessageQueues ==
  INSTANCE MessageQueueSpec
    WITH contents <- [q \in Queue |-> Contents(q)], limit <- capacity

\* The ring in guest memory behaves as the bounded sequence a guest expects of
\* a message queue: what the last send was asked to store, at the end that its
\* flag asked for, and no other change but a receive of the front message and a
\* re-initialisation; across wrap-around and receives retried after a wake-up.
ImplementsMessageQueues == MessageQueues!Spec
============================================================================
