----------------------- MODULE CafeScheduler_proofs ------------------------
(***************************************************************************)
(* Proofs about CafeScheduler for every set of threads, queues and         *)
(* messages, every ring size and every width of the tick counter.          *)
(***************************************************************************)
EXTENDS GuestLocks, FiniteSetTheorems, SequenceTheorems, TLAPS

(***************************************************************************)
(* Lemmas about the operators of the scheduler.                            *)
(***************************************************************************)

\* Registering a thread (ensure_guest_thread's push_back) adds just that one.
LEMMA RegisteredAppend ==
  ASSUME guest_threads \in Seq(Thread), NEW t \in Thread,
         guest_threads' = Append(guest_threads, t)
  PROVE  /\ guest_threads' \in Seq(Thread)
         /\ Registered' = Registered \cup {t}
<1>1. guest_threads' \in Seq(Thread)
  OBVIOUS
<1>2. /\ DOMAIN guest_threads = 1..Len(guest_threads)
      /\ Len(guest_threads) \in Nat
      /\ DOMAIN guest_threads' = 1..(Len(guest_threads) + 1)
      /\ \A i \in DOMAIN guest_threads : guest_threads'[i] = guest_threads[i]
      /\ guest_threads'[Len(guest_threads) + 1] = t
  OBVIOUS
<1>3. Registered' = Registered \cup {t}
  BY <1>2 DEF Registered
<1>. QED
  BY <1>1, <1>3

\* Only threads the guest uses are ever registered.
LEMMA RegisteredThreads ==
  ASSUME guest_threads \in Seq(Thread)
  PROVE  Registered \subseteq Thread
BY DEF Registered

\* A remainder is a ring index.
LEMMA RingIndex ==
  ASSUME NEW a \in Nat, NEW n \in Nat, n # 0
  PROVE  a % n \in 0..(n - 1)
OBVIOUS

\* Tick sums saturate inside the counter (the min in OSSleepTicks).
LEMMA SaturatingAddType ==
  ASSUME NEW a \in 0..TickMax, NEW b \in 0..TickMax
  PROVE  /\ SaturatingAdd(a, b) \in 0..TickMax
         /\ a <= SaturatingAdd(a, b)
BY SchedulerAssumption DEF SaturatingAdd

\* The idle jump never moves the clock back, stays below the no-deadline value,
\* and lands on the caller's deadline or on that of another timed sleeper.
LEMMA SwitchTimeBounds ==
  ASSUME TypeOK, NEW block \in BOOLEAN, NEW wake \in 0..TickMax,
         NEW now \in SwitchTime(block, wake)
  PROVE  /\ now \in 0..(TickMax - 1)
         /\ guest_scheduler_ticks <= now
         /\ \/ now = guest_scheduler_ticks
            \/ block /\ now = wake
            \/ block /\ \E t \in Sleepers(NoQueue) : now = wake_tick[t]
<1>1. guest_scheduler_ticks \in 0..(TickMax - 1)
  BY DEF TypeOK, ClocksTyped
<1>2. PendingTimers(wake) \subseteq 0..TickMax
  BY RegisteredThreads DEF TypeOK, ThreadsTyped, PendingTimers, Sleepers
<1>3. CASE now = guest_scheduler_ticks
  BY <1>1, <1>3
<1>4. CASE now # guest_scheduler_ticks
  <2>1. block /\ now \in PendingTimers(wake)
    BY <1>4 DEF SwitchTime
  <2>2. now \in 0..TickMax /\ guest_scheduler_ticks < now /\ now < TickMax
    BY <1>2, <2>1 DEF PendingTimers
  <2>3. now = wake \/ \E t \in Sleepers(NoQueue) : now = wake_tick[t]
    BY <2>1 DEF PendingTimers
  <2>. QED
    BY <1>1, <2>1, <2>2, <2>3, SchedulerAssumption
<1>. QED
  BY <1>3, <1>4

\* A nonempty set of numbers has a least element.
LEMMA LeastElement ==
  ASSUME NEW T, T \subseteq Nat, T # {}
  PROVE  \E x \in T : \A y \in T : x <= y
<1>. DEFINE Below == {0..x : x \in T}
            Finite == FiniteSubsetsOf(Nat)
<1>1. \A x \in Nat : 0..x \subseteq Nat /\ IsFiniteSet(0..x)
  BY FS_Interval
<1>2. Below \subseteq Finite /\ Below # {}
  BY <1>1 DEF FiniteSubsetsOf
<1>3. IsWellFoundedOn(StrictSubsetOrdering(Nat), Finite)
  BY FS_StrictSubsetOrderingWellFounded
<1>. HIDE DEF Finite
<1>4. PICK I \in Below : \A J \in Below : <<J, I>> \notin StrictSubsetOrdering(Nat)
  BY <1>2, <1>3, WFMin
<1>5. PICK x \in T : I = 0..x
  BY <1>4
<1>6. ASSUME NEW y \in T PROVE x <= y
  <2>. SUFFICES ASSUME y < x PROVE FALSE
    OBVIOUS
  <2>1. /\ 0..y \subseteq 0..x /\ x \in 0..x /\ x \notin 0..y
        /\ 0..y \in SUBSET Nat /\ 0..x \in SUBSET Nat
    OBVIOUS
  <2>2. <<0..y, 0..x>> \in StrictSubsetOrdering(Nat)
    BY <2>1 DEF StrictSubsetOrdering
  <2>. QED BY <1>4, <1>5, <2>2
<1>. QED
  BY <1>6

\* Every scan over registered threads that has a candidate keeps one
\* (select_ready_thread, wake_message_queue_receiver).
LEMMA MostUrgentExists ==
  ASSUME TypeOK, NEW S, S \subseteq Registered, S # {}
  PROVE  MostUrgent(S) # {}
<1>1. /\ \A t \in S : t \in Thread /\ Priority[t] \in Nat
      /\ guest_threads \in Seq(Thread)
      /\ DOMAIN guest_threads \subseteq Nat
      /\ \A i, j \in DOMAIN guest_threads :
            guest_threads[i] = guest_threads[j] => i = j
      /\ \A t \in S : \E i \in DOMAIN guest_threads : guest_threads[i] = t
  <2>1. /\ guest_threads \in Seq(Thread)
        /\ \A i, j \in DOMAIN guest_threads :
              guest_threads[i] = guest_threads[j] => i = j
    BY DEF TypeOK, ThreadsTyped
  <2>2. DOMAIN guest_threads \subseteq Nat
    BY <2>1
  <2>3. \A t \in S : \E i \in DOMAIN guest_threads : guest_threads[i] = t
    BY DEF Registered
  <2>4. \A t \in S : t \in Thread
    BY <2>1, <2>3
  <2>5. \A t \in S : Priority[t] \in Nat
    BY <2>4, SchedulerAssumption
  <2>. QED
    BY <2>1, <2>2, <2>3, <2>4, <2>5, Zenon
<1>2. PICK p \in {Priority[t] : t \in S} : \A r \in {Priority[t] : t \in S} : p <= r
  <2>. DEFINE P == {Priority[t] : t \in S}
  <2>1. P \subseteq Nat /\ P # {}
    BY <1>1
  <2>. HIDE DEF P
  <2>. QED BY <2>1, LeastElement DEF P
<1>. DEFINE I == {i \in DOMAIN guest_threads :
                    guest_threads[i] \in S /\ Priority[guest_threads[i]] = p}
<1>3. I \subseteq Nat /\ I # {}
  BY <1>1, <1>2
<1>4. PICK i \in I : \A j \in I : i <= j
  <2>. HIDE DEF I
  <2>. QED BY <1>3, LeastElement
<1>5. guest_threads[i] \in S
  BY <1>4
<1>6. ASSUME NEW u \in S, u # guest_threads[i]
      PROVE  \/ Priority[guest_threads[i]] < Priority[u]
             \/ Priority[guest_threads[i]] = Priority[u] /\ Before(guest_threads[i], u)
  <2>1. CASE Priority[u] # p
    <3>1. Priority[u] \in Nat /\ p \in Nat /\ p <= Priority[u]
      BY <1>1, <1>2
    <3>. QED BY <1>4, <2>1, <3>1
  <2>2. CASE Priority[u] = p
    <3>1. PICK j \in DOMAIN guest_threads : guest_threads[j] = u
      BY <1>1
    <3>2. j \in I
      BY <2>2, <3>1
    <3>3. i < j
      BY <1>1, <1>4, <1>6, <3>1, <3>2
    <3>. QED BY <1>4, <2>2, <3>1, <3>3 DEF Before
  <2>. QED BY <2>1, <2>2
<1>. QED BY <1>5, <1>6 DEF MostUrgent

(***************************************************************************)
(* Type correctness.                                                       *)
(***************************************************************************)

\* Handing the core over writes well-typed records and picks a registered thread.
LEMMA SwitchToType ==
  ASSUME TypeOK, NEW block \in BOOLEAN, NEW wake \in 0..TickMax,
         NEW q \in QueueOrNone, SwitchTo(block, wake, q),
         UNCHANGED <<guest_threads, suspend_count, attributes>>
  PROVE  ThreadsTyped' /\ guest_scheduler_ticks' \in 0..(TickMax - 1)
<1>1. PICK now \in SwitchTime(block, wake) : \E next \in Selected(block, now) :
        HandOver(now, next, Awoken(now, block, wake, q), wake, q)
  BY DEF SwitchTo
<1>2. PICK next \in Selected(block, now) :
        HandOver(now, next, Awoken(now, block, wake, q), wake, q)
  BY <1>1
<1>3. now \in 0..(TickMax - 1) /\ guest_scheduler_ticks <= now
  BY SwitchTimeBounds
<1>4. next \in Registered /\ next \in Thread /\ current \in Thread
  BY RegisteredThreads DEF Selected, MostUrgent, Runnable, TypeOK, ThreadsTyped
<1>5. Registered' = Registered
  BY DEF Registered
<1>. QED
  BY <1>2, <1>3, <1>4, <1>5, SchedulerAssumption
  DEF TypeOK, ThreadsTyped, HandOver, States, QueueOrNone

\* A thread that goes on keeps every record well-typed too.
LEMMA KeepRunningType ==
  ASSUME TypeOK, NEW block \in BOOLEAN, NEW wake \in 0..TickMax,
         KeepRunning(block, wake),
         UNCHANGED <<guest_threads, suspend_count, attributes>>
  PROVE  ThreadsTyped' /\ guest_scheduler_ticks' \in 0..(TickMax - 1)
<1>1. PICK now \in SwitchTime(block, wake) : GoOn(now, Due(now))
  BY DEF KeepRunning
<1>2. now \in 0..(TickMax - 1) /\ guest_scheduler_ticks <= now
  BY SwitchTimeBounds
<1>3. current \in Thread
  BY RegisteredThreads DEF TypeOK, ThreadsTyped
<1>4. Registered' = Registered
  BY DEF Registered
<1>. QED
  BY <1>1, <1>2, <1>3, <1>4, SchedulerAssumption
  DEF TypeOK, ThreadsTyped, GoOn, States, QueueOrNone

\* Waking a receiver changes nothing but well-typed fields of one thread.
LEMMA WakeReceiverType ==
  ASSUME TypeOK, NEW q \in Queue, WakeReceiver(q),
         UNCHANGED <<guest_threads, current, suspend_count, attributes, retrying>>
  PROVE  ThreadsTyped'
<1>1. Registered' = Registered
  BY DEF Registered
<1>2. CASE UNCHANGED <<state, sleeping, wake_tick, waiting_message_queue>>
  BY <1>1, <1>2 DEF TypeOK, ThreadsTyped
<1>3. ASSUME NEW t \in MostUrgent(Sleepers(q)),
             state' = [state EXCEPT ![t] = "ready"],
             sleeping' = [sleeping EXCEPT ![t] = FALSE],
             wake_tick' = [wake_tick EXCEPT ![t] = 0],
             waiting_message_queue' = [waiting_message_queue EXCEPT ![t] = NoQueue]
      PROVE  ThreadsTyped'
  <2>1. /\ state' \in [Thread -> States]
        /\ sleeping' \in [Thread -> BOOLEAN]
        /\ wake_tick' \in [Thread -> 0..TickMax]
        /\ waiting_message_queue' \in [Thread -> QueueOrNone]
    <3>1. state' \in [Thread -> States]
      BY <1>3 DEF TypeOK, ThreadsTyped, States
    <3>2. sleeping' \in [Thread -> BOOLEAN]
      BY <1>3 DEF TypeOK, ThreadsTyped
    <3>3. wake_tick' \in [Thread -> 0..TickMax]
      <4>1. wake_tick \in [Thread -> 0..TickMax] /\ 0 \in 0..TickMax
        BY SchedulerAssumption DEF TypeOK, ThreadsTyped
      <4>. QED
        BY <1>3, <4>1
    <3>4. waiting_message_queue' \in [Thread -> QueueOrNone]
      BY <1>3 DEF TypeOK, ThreadsTyped, QueueOrNone
    <3>. QED
      BY <3>1, <3>2, <3>3, <3>4
  <2>. QED
    BY <1>1, <2>1 DEF TypeOK, ThreadsTyped
<1>. QED
  BY <1>2, <1>3 DEF WakeReceiver

\* The slot a send writes lies inside the message array.
LEMMA SendSlotInRing ==
  ASSUME TypeOK, NEW q \in Queue, used[q] < capacity[q], NEW hp \in BOOLEAN
  PROVE  /\ capacity[q] \in 1..MaxCapacity
         /\ SendSlot(q, hp) \in 0..(capacity[q] - 1)
<1>1. /\ capacity[q] \in 1..MaxCapacity
      /\ first[q] + capacity[q] - 1 \in Nat
      /\ first[q] + used[q] \in Nat
      /\ capacity[q] \in Nat /\ capacity[q] # 0
  BY SchedulerAssumption DEF TypeOK, QueuesTyped
<1>2. /\ (first[q] + capacity[q] - 1) % capacity[q] \in 0..(capacity[q] - 1)
      /\ (first[q] + used[q]) % capacity[q] \in 0..(capacity[q] - 1)
  <2>1. \A a \in Nat : a % capacity[q] \in 0..(capacity[q] - 1)
    BY <1>1, RingIndex
  <2>. QED
    BY <1>1, <2>1
<1>. QED
  BY <1>1, <1>2 DEF SendSlot

\* Affinity changes write well-formed attribute bytes.
LEMMA AttributesType ==
  ASSUME attributes \in [Thread -> Attributes], NEW t \in Thread,
         NEW mask \in SUBSET (0..2), NEW other \in BOOLEAN
  PROVE  /\ [attributes EXCEPT ![t].cores = mask] \in [Thread -> Attributes]
         /\ [attributes EXCEPT ![t] = [cores |-> mask, detached |-> other]]
              \in [Thread -> Attributes]
BY DEF Attributes

LEMMA InitType == Init => TypeOK
<1>. SUFFICES ASSUME Init PROVE TypeOK
  OBVIOUS
<1>1. Registered = {Main}
  BY DEF Init, Registered
<1>2. ThreadsTyped
  <2>1. attributes \in [Thread -> Attributes]
    BY DEF Init, Attributes, Core
  <2>2. Main \in Thread /\ 0 \in 0..TickMax /\ 0 \in 0..1
    BY SchedulerAssumption
  <2>3. /\ guest_threads \in Seq(Thread)
        /\ \A i, j \in DOMAIN guest_threads :
              guest_threads[i] = guest_threads[j] => i = j
        /\ current \in Registered
    BY <1>1, <2>2 DEF Init
  <2>4. /\ state \in [Thread -> States]
        /\ suspend_count \in [Thread -> 0..1]
        /\ sleeping \in [Thread -> BOOLEAN]
        /\ wake_tick \in [Thread -> 0..TickMax]
        /\ waiting_message_queue \in [Thread -> QueueOrNone]
        /\ retrying \in [Thread -> QueueOrNone]
    BY <2>2 DEF Init, States, QueueOrNone
  <2>. QED
    BY <2>1, <2>3, <2>4 DEF ThreadsTyped
<1>3. ClocksTyped
  BY SchedulerAssumption DEF Init, ClocksTyped
<1>4. QueuesTyped
  BY SchedulerAssumption DEF Init, QueuesTyped
<1>. QED
  BY <1>2, <1>3, <1>4 DEF TypeOK, Init, Reasons

\* Each call keeps every variable in range: the state of a queue stays inside
\* its array whatever sizes it is re-initialised to, and the clock below the
\* value that means "no deadline".
LEMMA TypeStep == TypeOK /\ [Next]_vars => TypeOK'
<1>. SUFFICES ASSUME TypeOK, [Next]_vars PROVE TypeOK'
  OBVIOUS
<1>1. ASSUME NEW t \in Thread, NEW has_entry \in BOOLEAN, NEW cores \in CoreMasks,
             NEW detached \in Detached, OSCreateThread(t, has_entry, cores, detached)
      PROVE  TypeOK'
  <2>1. /\ guest_threads' \in Seq(Thread)
        /\ Registered \subseteq Registered'
    <3>1. CASE t \in Registered
      BY <1>1, <3>1 DEF OSCreateThread, Registered, TypeOK, ThreadsTyped
    <3>2. CASE t \notin Registered
      BY <1>1, <3>2, RegisteredAppend DEF OSCreateThread, TypeOK, ThreadsTyped
    <3>. QED
      BY <3>1, <3>2
  <2>2. \A i, j \in DOMAIN guest_threads' :
           guest_threads'[i] = guest_threads'[j] => i = j
    <3>1. CASE t \in Registered
      BY <1>1, <3>1 DEF OSCreateThread, TypeOK, ThreadsTyped
    <3>2. CASE t \notin Registered
      <4>1. guest_threads' = Append(guest_threads, t)
        BY <1>1, <3>2 DEF OSCreateThread
      <4>2. \A i \in DOMAIN guest_threads : guest_threads[i] # t
        BY <3>2 DEF Registered
      <4>. QED
        BY <4>1, <4>2 DEF TypeOK, ThreadsTyped
    <3>. QED
      BY <3>1, <3>2
  <2>3. attributes' \in [Thread -> Attributes]
    <3>. DEFINE mask == IF cores = {} THEN {Core} ELSE cores
    <3>1. mask \in SUBSET (0..2) /\ detached \in BOOLEAN
      BY SchedulerAssumption DEF Core
    <3>2. attributes' = [attributes EXCEPT ![t] = [cores |-> mask, detached |-> detached]]
      BY <1>1 DEF OSCreateThread
    <3>. HIDE DEF mask
    <3>. QED
      BY <3>1, <3>2, AttributesType DEF TypeOK, ThreadsTyped
  <2>4. ThreadsTyped'
    <3>1. state' \in [Thread -> States] /\ suspend_count' \in [Thread -> 0..1]
      BY <1>1 DEF OSCreateThread, TypeOK, ThreadsTyped, States
    <3>2. retrying' \in [Thread -> QueueOrNone]
      BY <1>1 DEF OSCreateThread, TypeOK, ThreadsTyped, QueueOrNone
    <3>. QED
      BY <1>1, <2>1, <2>2, <2>3, <3>1, <3>2
      DEF OSCreateThread, TypeOK, ThreadsTyped
  <2>. QED
    BY <1>1, <2>4
    DEF OSCreateThread, TypeOK, ClocksTyped, QueuesTyped, clockVars, queueVars
<1>2. ASSUME NEW t \in Thread, OSResumeThread(t)
      PROVE  TypeOK'
  BY <1>2
  DEF OSResumeThread, TypeOK, ThreadsTyped, ClocksTyped, QueuesTyped, clockVars,
      queueVars, Registered
<1>3. ASSUME NEW t \in Thread, NEW cores \in CoreMasks, OSSetThreadAffinity(t, cores)
      PROVE  TypeOK'
  <2>1. cores \in SUBSET (0..2)
    BY SchedulerAssumption
  <2>2. attributes' \in [Thread -> Attributes]
    BY <1>3, <2>1, AttributesType DEF OSSetThreadAffinity, TypeOK, ThreadsTyped
  <2>. QED
    BY <1>3, <2>2
    DEF OSSetThreadAffinity, TypeOK, ThreadsTyped, ClocksTyped, QueuesTyped,
      clockVars, queueVars, Registered
<1>4. CASE OSYieldThread
  <2>1. 0 \in 0..TickMax /\ NoQueue \in QueueOrNone
    BY SchedulerAssumption DEF QueueOrNone
  <2>2. ThreadsTyped' /\ guest_scheduler_ticks' \in 0..(TickMax - 1)
    BY <1>4, <2>1, SwitchToType, KeepRunningType DEF OSYieldThread
  <2>. QED
    BY <1>4, <2>2 DEF OSYieldThread, TypeOK, ClocksTyped, QueuesTyped, queueVars
<1>5. ASSUME NEW ticks \in Delays, OSSleepTicks(ticks)
      PROVE  TypeOK'
  <2>. DEFINE wake == SaturatingAdd(guest_scheduler_ticks, ticks)
  <2>1. /\ wake \in 0..TickMax
        /\ SaturatingAdd(os_sleep_ticks_offset, ticks) \in 0..TickMax
    <3>1. /\ guest_scheduler_ticks \in 0..TickMax
          /\ os_sleep_ticks_offset \in 0..TickMax
          /\ ticks \in 0..TickMax
      BY SchedulerAssumption DEF TypeOK, ClocksTyped
    <3>. QED
      BY <3>1, SaturatingAddType
  <2>2. NoQueue \in QueueOrNone
    BY DEF QueueOrNone
  <2>3. SwitchTo(TRUE, wake, NoQueue) \/ KeepRunning(TRUE, wake)
    BY <1>5 DEF OSSleepTicks
  <2>4. ThreadsTyped' /\ guest_scheduler_ticks' \in 0..(TickMax - 1)
    BY <1>5, <2>1, <2>2, <2>3, SwitchToType, KeepRunningType DEF OSSleepTicks
  <2>. QED
    BY <1>5, <2>1, <2>4 DEF OSSleepTicks, TypeOK, ClocksTyped, QueuesTyped, queueVars
<1>6. ASSUME NEW q \in Queue, NEW size \in 0..MaxCapacity, OSInitMessageQueue(q, size)
      PROVE  TypeOK'
  <2>1. QueuesTyped'
    BY <1>6, SchedulerAssumption DEF OSInitMessageQueue, TypeOK, QueuesTyped
  <2>. QED
    BY <1>6, <2>1
    DEF OSInitMessageQueue, TypeOK, ThreadsTyped, ClocksTyped, threadVars,
        clockVars, Registered
<1>7. ASSUME NEW q \in Queue, NEW m \in Message, NEW hp \in BOOLEAN,
             OSSendMessage(q, m, hp)
      PROVE  TypeOK'
  <2>1. /\ capacity[q] \in 1..MaxCapacity
        /\ SendSlot(q, hp) \in 0..(capacity[q] - 1)
    BY <1>7, SendSlotInRing DEF OSSendMessage
  <2>2. slots' \in [Queue -> [0..(MaxCapacity - 1) -> Message \cup {NoMessage}]]
    BY <1>7 DEF OSSendMessage, TypeOK, QueuesTyped
  <2>3. QueuesTyped'
    <3>1. sent' \in Queue \X Message \X BOOLEAN
      BY <1>7 DEF OSSendMessage
    <3>. QED
      BY <1>7, <2>1, <2>2, <3>1, SchedulerAssumption DEF OSSendMessage, TypeOK, QueuesTyped
  <2>4. ThreadsTyped'
    BY <1>7, WakeReceiverType DEF OSSendMessage
  <2>. QED
    BY <1>7, <2>3, <2>4 DEF OSSendMessage, TypeOK, ClocksTyped, clockVars
<1>8. ASSUME NEW q \in Queue, OSReceiveMessage(q)
      PROVE  TypeOK'
  <2>1. /\ capacity[q] \in 1..MaxCapacity /\ used[q] \in 1..capacity[q]
        /\ first[q] \in 0..(capacity[q] - 1)
    BY <1>8, SchedulerAssumption DEF OSReceiveMessage, TypeOK, QueuesTyped
  <2>2. (first[q] + 1) % capacity[q] \in 0..(capacity[q] - 1)
    <3>1. capacity[q] \in Nat /\ capacity[q] # 0 /\ first[q] + 1 \in Nat
      BY <2>1, SchedulerAssumption
    <3>. QED
      BY <3>1, RingIndex
  <2>3. delivered' \in Message \cup {NoMessage}
    BY <1>8, <2>1, SchedulerAssumption DEF OSReceiveMessage, TypeOK, QueuesTyped
  <2>4. QueuesTyped'
    <3>. DEFINE next == (first[q] + 1) % capacity[q]
    <3>1. first' = [first EXCEPT ![q] = next]
      BY <1>8 DEF OSReceiveMessage
    <3>2. next \in 0..(capacity[q] - 1)
      BY <2>2
    <3>. HIDE DEF next
    <3>3. /\ first' \in [Queue -> 0..MaxCapacity]
          /\ used' \in [Queue -> 0..MaxCapacity]
      BY <1>8, <2>1, <3>1, <3>2, SchedulerAssumption
      DEF OSReceiveMessage, TypeOK, QueuesTyped
    <3>4. ASSUME NEW r \in Queue
          PROVE  /\ used'[r] <= capacity'[r]
                 /\ first'[r] = 0 \/ first'[r] < capacity'[r]
      BY <1>8, <2>1, <3>1, <3>2, SchedulerAssumption
      DEF OSReceiveMessage, TypeOK, QueuesTyped
    <3>. QED
      BY <1>8, <2>3, <3>3, <3>4 DEF OSReceiveMessage, TypeOK, QueuesTyped
  <2>5. ThreadsTyped'
    BY <1>8 DEF OSReceiveMessage, TypeOK, ThreadsTyped, QueueOrNone, Registered
  <2>. QED
    BY <1>8, <2>4, <2>5 DEF OSReceiveMessage, TypeOK, ClocksTyped, clockVars
<1>9. ASSUME NEW q \in Queue, OSReceiveMessageEmpty(q)
      PROVE  TypeOK'
  <2>1. TickMax \in 0..TickMax /\ q \in QueueOrNone
    BY SchedulerAssumption DEF QueueOrNone
  <2>2. ThreadsTyped' /\ guest_scheduler_ticks' \in 0..(TickMax - 1)
    BY <1>9, <2>1, SwitchToType, KeepRunningType DEF OSReceiveMessageEmpty
  <2>. QED
    BY <1>9, <2>2
    DEF OSReceiveMessageEmpty, TypeOK, ClocksTyped, QueuesTyped, queueVars, Reasons
<1>10. ASSUME UNCHANGED <<threadVars, clockVars, queueVars>>, stopped' \in Reasons
       PROVE  TypeOK'
  BY <1>10
  DEF TypeOK, ThreadsTyped, ClocksTyped, QueuesTyped, threadVars, clockVars,
      queueVars, Registered
<1>11. ASSUME NEW q \in Queue, OSSendMessageFull(q)
       PROVE  TypeOK'
  BY <1>10, <1>11 DEF OSSendMessageFull, Reasons
<1>12. CASE OSExitThread
  BY <1>10, <1>12 DEF OSExitThread, Reasons
<1>13. CASE UNCHANGED vars
  BY <1>10, <1>13 DEF vars, TypeOK
<1>. QED
  BY <1>1, <1>2, <1>3, <1>4, <1>5, <1>6, <1>7, <1>8, <1>9, <1>11, <1>12, <1>13
  DEF Next, Halted

\* Every reachable state is well-typed: no ring index leaves its array, no
\* thread registers twice, the current thread is always a registered one.
THEOREM TypeCorrect == Spec => []TypeOK
BY InitType, TypeStep, PTL DEF Spec

(***************************************************************************)
(* The two records of a thread agree.  This holds as long as the guest     *)
(* does not hand the OSThread of a live thread to OSCreateThread again:    *)
(* ensure_guest_thread then finds the old host record and keeps it.        *)
(***************************************************************************)

\* What a hand-over finds: the core goes to another thread, one that the host
\* does not hold asleep once the due threads are awake, and the woken threads
\* are timed sleepers or the caller itself.
LEMMA SelectedFacts ==
  ASSUME TypeOK, NEW block \in BOOLEAN, NEW wake, NEW q \in QueueOrNone, NEW now,
         NEW next \in Selected(block, now)
  PROVE  /\ next \in Registered /\ next \in Thread /\ next # current
         /\ next \in Awoken(now, block, wake, q) \/ ~sleeping[next]
         /\ \A t \in Awoken(now, block, wake, q) :
               \/ t = current /\ (~block \/ q = NoQueue)
               \/ /\ t \in Registered /\ t # current
                  /\ sleeping[t] /\ waiting_message_queue[t] = NoQueue
BY RegisteredThreads
DEF Selected, MostUrgent, Runnable, Awoken, Due, Sleepers, OwnTimerDue, TypeOK,
    ThreadsTyped

\* The records still agree after the core changed hands.
LEMMA SwitchToAgrees ==
  ASSUME TypeOK, StatesAgree, NEW block \in BOOLEAN, NEW wake \in 0..TickMax,
         NEW q \in QueueOrNone, ~block => q = NoQueue, SwitchTo(block, wake, q)
  PROVE  StatesAgree'
<1>1. PICK now \in SwitchTime(block, wake) : \E next \in Selected(block, now) :
        HandOver(now, next, Awoken(now, block, wake, q), wake, q)
  BY DEF SwitchTo
<1>2. PICK next \in Selected(block, now) :
        HandOver(now, next, Awoken(now, block, wake, q), wake, q)
  BY <1>1
<1>. DEFINE awake == Awoken(now, block, wake, q)
<1>3. /\ next \in Thread /\ next # current
      /\ next \in awake \/ ~sleeping[next]
      /\ \A t \in awake :
            \/ t = current /\ q = NoQueue
            \/ t # current /\ sleeping[t] /\ waiting_message_queue[t] = NoQueue
  BY SelectedFacts
<1>4. current \in Thread
  BY RegisteredThreads DEF TypeOK, ThreadsTyped
<1>5. HandOver(now, next, awake, wake, q)
  BY <1>2
<1>. HIDE DEF awake
<1>6. ASSUME NEW t \in Thread
      PROVE  /\ state'[t] = "running" <=> t = current'
             /\ sleeping'[t] <=> state'[t] = "waiting"
             /\ waiting_message_queue'[t] # NoQueue =>
                  sleeping'[t] /\ retrying'[t] = waiting_message_queue'[t]
  <2>1. /\ state[t] = "running" <=> t = current
        /\ sleeping[t] <=> state[t] = "waiting"
        /\ waiting_message_queue[t] # NoQueue =>
             sleeping[t] /\ retrying[t] = waiting_message_queue[t]
    BY DEF StatesAgree
  <2>2. CASE t = current
    BY <1>3, <1>4, <1>5, <2>1, <2>2 DEF HandOver, TypeOK, ThreadsTyped
  <2>3. CASE t # current /\ t \in awake
    BY <1>3, <1>4, <1>5, <2>1, <2>3 DEF HandOver, TypeOK, ThreadsTyped
  <2>4. CASE t # current /\ t \notin awake
    BY <1>3, <1>4, <1>5, <2>1, <2>4 DEF HandOver, TypeOK, ThreadsTyped
  <2>. QED
    BY <2>2, <2>3, <2>4
<1>. QED
  BY <1>6 DEF StatesAgree

\* The records still agree after a call that kept the core.
LEMMA KeepRunningAgrees ==
  ASSUME TypeOK, StatesAgree, NEW block \in BOOLEAN, NEW wake \in 0..TickMax,
         KeepRunning(block, wake)
  PROVE  StatesAgree'
<1>1. PICK now \in SwitchTime(block, wake) : GoOn(now, Due(now))
  BY DEF KeepRunning
<1>2. current \in Thread
  BY RegisteredThreads DEF TypeOK, ThreadsTyped
<1>3. \A t \in Due(now) :
         t # current /\ sleeping[t] /\ waiting_message_queue[t] = NoQueue
  BY DEF Due, Sleepers
<1>. QED
  BY <1>1, <1>2, <1>3 DEF GoOn, StatesAgree, TypeOK, ThreadsTyped

\* Every call of guest code keeps the host's record and the guest's in step.
LEMMA AgreeStep ==
  ASSUME MayRebuild = {}, TypeOK, StatesAgree, [Next]_vars
  PROVE  StatesAgree'
<1>1. ASSUME NEW t \in Thread, NEW has_entry \in BOOLEAN, NEW cores \in CoreMasks,
             NEW detached \in Detached, OSCreateThread(t, has_entry, cores, detached)
      PROVE  StatesAgree'
  <2>1. state[t] = "none"
    BY <1>1 DEF OSCreateThread
  <2>. QED
    BY <1>1, <2>1 DEF OSCreateThread, StatesAgree, TypeOK, ThreadsTyped
<1>2. ASSUME NEW t \in Thread, OSResumeThread(t)
      PROVE  StatesAgree'
  BY <1>2 DEF OSResumeThread, StatesAgree
<1>3. ASSUME NEW t \in Thread, NEW cores \in CoreMasks, OSSetThreadAffinity(t, cores)
      PROVE  StatesAgree'
  BY <1>3 DEF OSSetThreadAffinity, StatesAgree
<1>4. CASE OSYieldThread
  <2>1. 0 \in 0..TickMax /\ NoQueue \in QueueOrNone
    BY SchedulerAssumption DEF QueueOrNone
  <2>. QED
    BY <1>4, <2>1, SwitchToAgrees, KeepRunningAgrees DEF OSYieldThread
<1>5. ASSUME NEW ticks \in Delays, OSSleepTicks(ticks)
      PROVE  StatesAgree'
  <2>. DEFINE wake == SaturatingAdd(guest_scheduler_ticks, ticks)
  <2>1. wake \in 0..TickMax
    <3>1. guest_scheduler_ticks \in 0..TickMax /\ ticks \in 0..TickMax
      BY SchedulerAssumption DEF TypeOK, ClocksTyped
    <3>. QED
      BY <3>1, SaturatingAddType
  <2>2. NoQueue \in QueueOrNone
    BY DEF QueueOrNone
  <2>3. SwitchTo(TRUE, wake, NoQueue) \/ KeepRunning(TRUE, wake)
    BY <1>5 DEF OSSleepTicks
  <2>. QED
    BY <2>1, <2>2, <2>3, SwitchToAgrees, KeepRunningAgrees
<1>6. ASSUME NEW q \in Queue, NEW size \in 0..MaxCapacity, OSInitMessageQueue(q, size)
      PROVE  StatesAgree'
  BY <1>6 DEF OSInitMessageQueue, StatesAgree, threadVars
<1>7. ASSUME NEW q \in Queue, NEW m \in Message, NEW hp \in BOOLEAN,
             OSSendMessage(q, m, hp)
      PROVE  StatesAgree'
  <2>1. CASE UNCHANGED <<state, sleeping, wake_tick, waiting_message_queue>>
    BY <1>7, <2>1 DEF OSSendMessage, StatesAgree
  <2>2. ASSUME NEW t \in MostUrgent(Sleepers(q)),
               state' = [state EXCEPT ![t] = "ready"],
               sleeping' = [sleeping EXCEPT ![t] = FALSE],
               waiting_message_queue' = [waiting_message_queue EXCEPT ![t] = NoQueue]
        PROVE  StatesAgree'
    <3>1. t \in Thread /\ sleeping[t]
      BY RegisteredThreads DEF MostUrgent, Sleepers, TypeOK, ThreadsTyped
    <3>. QED
      BY <1>7, <2>2, <3>1 DEF OSSendMessage, StatesAgree, TypeOK, ThreadsTyped
  <2>. QED
    BY <1>7, <2>1, <2>2 DEF OSSendMessage, WakeReceiver
<1>8. ASSUME NEW q \in Queue, OSReceiveMessage(q)
      PROVE  StatesAgree'
  <2>1. current \in Thread /\ waiting_message_queue[current] = NoQueue
    BY RegisteredThreads DEF StatesAgree, TypeOK, ThreadsTyped
  <2>. QED
    BY <1>8, <2>1 DEF OSReceiveMessage, StatesAgree, TypeOK, ThreadsTyped
<1>9. ASSUME NEW q \in Queue, OSReceiveMessageEmpty(q)
      PROVE  StatesAgree'
  <2>1. TickMax \in 0..TickMax /\ q \in QueueOrNone
    BY SchedulerAssumption DEF QueueOrNone
  <2>. QED
    BY <1>9, <2>1, SwitchToAgrees, KeepRunningAgrees DEF OSReceiveMessageEmpty
<1>10. CASE UNCHANGED threadVars
  BY <1>10 DEF StatesAgree, threadVars
<1>. QED
  BY <1>1, <1>2, <1>3, <1>4, <1>5, <1>6, <1>7, <1>8, <1>9, <1>10
  DEF Next, OSSendMessageFull, OSExitThread, Halted, vars

\* Whatever the guest threads call, in whatever order, the state bytes in guest
\* memory and the host's records describe the same threads.
THEOREM RecordsAgree ==
  ASSUME MayRebuild = {}
  PROVE  Spec => []StatesAgree
<1>1. Init => StatesAgree
  BY SchedulerAssumption DEF Init, StatesAgree
<1>2. TypeOK /\ StatesAgree /\ [Next]_vars => StatesAgree'
  BY AgreeStep
<1>. QED
  BY <1>1, <1>2, TypeCorrect, PTL DEF Spec

(***************************************************************************)
(* No lost wake-up.  NoLostWakeup counts the woken threads of a queue, so  *)
(* its proof needs that a thread which never ran retries nothing (else     *)
(* OSCreateThread, which clears the context, could take a woken thread     *)
(* away) and, from StatesAgree, that a sleeper on q retries q's receive.   *)
(***************************************************************************)
FreshThreads == \A t \in Thread : state[t] = "none" => retrying[t] = NoQueue

WakeupInv == StatesAgree /\ FreshThreads /\ NoLostWakeup

LEMMA WokenFinite ==
  ASSUME TypeOK, NEW q
  PROVE  IsFiniteSet(Woken(q)) /\ Cardinality(Woken(q)) \in Nat
<1>1. Woken(q) \subseteq Thread
  BY RegisteredThreads DEF Woken, TypeOK, ThreadsTyped
<1>. QED
  BY <1>1, FS_Subset, FS_CardinalityType, SchedulerAssumption

\* A step that adds no sleeper to a queue and takes no woken thread from it
\* leaves the queue's messages covered.
LEMMA CoverMonotone ==
  ASSUME TypeOK, TypeOK', NoLostWakeup, NEW q \in Queue,
         Sleepers(q)' \subseteq Sleepers(q), Woken(q) \subseteq Woken(q)',
         used'[q] = used[q]
  PROVE  Sleepers(q)' # {} => used'[q] <= Cardinality(Woken(q)')
<1>1. /\ IsFiniteSet(Woken(q)) /\ Cardinality(Woken(q)) \in Nat
      /\ IsFiniteSet(Woken(q)') /\ Cardinality(Woken(q)') \in Nat
  <2>1. Woken(q)' \subseteq Thread
    BY DEF Woken, Registered, TypeOK, ThreadsTyped
  <2>. QED
    BY <2>1, WokenFinite, FS_Subset, FS_CardinalityType, SchedulerAssumption
<1>2. Cardinality(Woken(q)) <= Cardinality(Woken(q)')
  BY <1>1, FS_Subset
<1>3. used[q] \in Nat
  BY SchedulerAssumption DEF TypeOK, QueuesTyped
<1>. QED
  BY <1>1, <1>2, <1>3 DEF NoLostWakeup

\* Covering for a hand-over: the caller leaves no woken set, since it retries
\* nothing or only the queue it found empty, and it joins no sleepers but those
\* of that queue.
LEMMA SwitchToCovers ==
  ASSUME TypeOK, TypeOK', WakeupInv, NEW block \in BOOLEAN, NEW wake \in 0..TickMax,
         NEW q \in QueueOrNone, ~block => q = NoQueue,
         retrying[current] \in {NoQueue, q}, q \in Queue => used[q] = 0,
         SwitchTo(block, wake, q), UNCHANGED <<guest_threads, used>>
  PROVE  NoLostWakeup' /\ FreshThreads'
<1>1. PICK now \in SwitchTime(block, wake) : \E next \in Selected(block, now) :
        HandOver(now, next, Awoken(now, block, wake, q), wake, q)
  BY DEF SwitchTo
<1>2. PICK next \in Selected(block, now) :
        HandOver(now, next, Awoken(now, block, wake, q), wake, q)
  BY <1>1
<1>. DEFINE awake == Awoken(now, block, wake, q)
<1>3. HandOver(now, next, awake, wake, q)
  BY <1>2
<1>4. \A t \in awake :
         \/ t = current /\ q = NoQueue
         \/ t # current /\ sleeping[t] /\ waiting_message_queue[t] = NoQueue
  BY SelectedFacts
<1>5. current \in Thread /\ Registered \subseteq Thread /\ Registered' = Registered
  BY RegisteredThreads DEF TypeOK, ThreadsTyped, Registered
<1>. HIDE DEF awake
<1>6. ASSUME NEW r \in Queue
      PROVE  Sleepers(r)' # {} => used'[r] <= Cardinality(Woken(r)')
  <2>1. CASE r = q
    <3>1. used'[r] = 0
      BY <2>1
    <3>2. Cardinality(Woken(r)') \in Nat
      <4>1. Woken(r)' \subseteq Thread
        BY DEF Woken, Registered, TypeOK, ThreadsTyped
      <4>. QED
        BY <4>1, FS_Subset, FS_CardinalityType, SchedulerAssumption
    <3>. QED
      BY <3>1, <3>2
  <2>2. CASE r # q
    <3>1. r # NoQueue
      BY SchedulerAssumption
    <3>2. Sleepers(r)' \subseteq Sleepers(r)
      BY <1>3, <1>4, <1>5, <2>2, <3>1 DEF HandOver, Sleepers, TypeOK, ThreadsTyped
    <3>3. Woken(r) \subseteq Woken(r)'
      BY <1>3, <1>5, <2>2, <3>1 DEF HandOver, Woken, TypeOK, ThreadsTyped
    <3>. QED
      BY <3>2, <3>3, CoverMonotone DEF WakeupInv
  <2>. QED
    BY <2>1, <2>2
<1>7. FreshThreads'
  BY <1>3, <1>5 DEF HandOver, FreshThreads, WakeupInv, TypeOK, ThreadsTyped
<1>. QED
  BY <1>6, <1>7 DEF NoLostWakeup

\* Covering for a call that keeps the core: it only wakes threads.
LEMMA KeepRunningCovers ==
  ASSUME TypeOK, TypeOK', WakeupInv, NEW block \in BOOLEAN, NEW wake \in 0..TickMax,
         KeepRunning(block, wake), UNCHANGED <<guest_threads, used>>
  PROVE  NoLostWakeup' /\ FreshThreads'
<1>1. PICK now \in SwitchTime(block, wake) : GoOn(now, Due(now))
  BY DEF KeepRunning
<1>2. current \in Thread /\ Registered \subseteq Thread /\ Registered' = Registered
  BY RegisteredThreads DEF TypeOK, ThreadsTyped, Registered
<1>3. ASSUME NEW r \in Queue
      PROVE  Sleepers(r)' # {} => used'[r] <= Cardinality(Woken(r)')
  <2>1. r # NoQueue
    BY SchedulerAssumption
  <2>2. Sleepers(r)' \subseteq Sleepers(r)
    BY <1>1, <1>2, <2>1 DEF GoOn, Sleepers, TypeOK, ThreadsTyped
  <2>3. Woken(r) \subseteq Woken(r)'
    BY <1>1, <1>2, <2>1 DEF GoOn, Woken, TypeOK, ThreadsTyped
  <2>. QED
    BY <2>2, <2>3, CoverMonotone DEF WakeupInv
<1>4. FreshThreads'
  BY <1>1, <1>2 DEF GoOn, FreshThreads, WakeupInv, StatesAgree, TypeOK, ThreadsTyped
<1>. QED
  BY <1>3, <1>4 DEF NoLostWakeup

\* Every call keeps each queue's messages covered while a thread sleeps on it.
LEMMA WakeupStep ==
  ASSUME MayRebuild = {}, TypeOK, TypeOK', WakeupInv, [Next]_vars
  PROVE  NoLostWakeup' /\ FreshThreads'
<1>. USE DEF WakeupInv
<1>0. Registered \subseteq Thread /\ current \in Thread
  BY RegisteredThreads DEF TypeOK, ThreadsTyped
<1>1. ASSUME NEW t \in Thread, NEW has_entry \in BOOLEAN, NEW cores \in CoreMasks,
             NEW detached \in Detached, OSCreateThread(t, has_entry, cores, detached)
      PROVE  NoLostWakeup' /\ FreshThreads'
  <2>1. state[t] = "none" /\ retrying[t] = NoQueue /\ ~sleeping[t]
    BY <1>1 DEF OSCreateThread, FreshThreads, StatesAgree
  <2>2. Registered' = Registered \cup {t}
    <3>1. CASE t \in Registered
      BY <1>1, <3>1 DEF OSCreateThread, Registered
    <3>2. CASE t \notin Registered
      BY <1>1, <3>2, RegisteredAppend DEF OSCreateThread, TypeOK, ThreadsTyped
    <3>. QED
      BY <3>1, <3>2
  <2>3. ASSUME NEW r \in Queue
        PROVE  Sleepers(r)' # {} => used'[r] <= Cardinality(Woken(r)')
    <3>1. Sleepers(r)' \subseteq Sleepers(r)
      BY <1>1, <2>1, <2>2 DEF OSCreateThread, Sleepers
    <3>2. Woken(r) \subseteq Woken(r)'
      BY <1>0, <1>1, <2>1, <2>2, SchedulerAssumption
      DEF OSCreateThread, Woken, TypeOK, ThreadsTyped
    <3>3. used'[r] = used[r]
      BY <1>1 DEF OSCreateThread, queueVars
    <3>. QED
      BY <3>1, <3>2, <3>3, CoverMonotone
  <2>4. FreshThreads'
    BY <1>1 DEF OSCreateThread, FreshThreads, TypeOK, ThreadsTyped
  <2>. QED
    BY <2>3, <2>4 DEF NoLostWakeup
<1>2. ASSUME UNCHANGED <<guest_threads, sleeping, waiting_message_queue, retrying,
                         used, state>>
      PROVE  NoLostWakeup' /\ FreshThreads'
  BY <1>2 DEF NoLostWakeup, FreshThreads, Sleepers, Woken, Registered
<1>3. ASSUME NEW t \in Thread, OSResumeThread(t)
      PROVE  NoLostWakeup' /\ FreshThreads'
  BY <1>2, <1>3 DEF OSResumeThread, queueVars
<1>4. ASSUME NEW t \in Thread, NEW cores \in CoreMasks, OSSetThreadAffinity(t, cores)
      PROVE  NoLostWakeup' /\ FreshThreads'
  BY <1>2, <1>4 DEF OSSetThreadAffinity, queueVars
<1>5. CASE OSYieldThread
  <2>1. 0 \in 0..TickMax /\ NoQueue \in QueueOrNone /\ NoQueue \notin Queue
    BY SchedulerAssumption DEF QueueOrNone
  <2>. QED
    BY <1>5, <2>1, SwitchToCovers, KeepRunningCovers
    DEF OSYieldThread, InGuestCode, queueVars
<1>6. ASSUME NEW ticks \in Delays, OSSleepTicks(ticks)
      PROVE  NoLostWakeup' /\ FreshThreads'
  <2>. DEFINE wake == SaturatingAdd(guest_scheduler_ticks, ticks)
  <2>1. wake \in 0..TickMax
    <3>1. guest_scheduler_ticks \in 0..TickMax /\ ticks \in 0..TickMax
      BY SchedulerAssumption DEF TypeOK, ClocksTyped
    <3>. QED
      BY <3>1, SaturatingAddType
  <2>2. NoQueue \in QueueOrNone /\ NoQueue \notin Queue
    BY SchedulerAssumption DEF QueueOrNone
  <2>3. SwitchTo(TRUE, wake, NoQueue) \/ KeepRunning(TRUE, wake)
    BY <1>6 DEF OSSleepTicks
  <2>. QED
    BY <1>6, <2>1, <2>2, <2>3, SwitchToCovers, KeepRunningCovers
    DEF OSSleepTicks, InGuestCode, queueVars
<1>7. ASSUME NEW q \in Queue, NEW size \in 0..MaxCapacity, OSInitMessageQueue(q, size)
      PROVE  NoLostWakeup' /\ FreshThreads'
  <2>1. ASSUME NEW r \in Queue
        PROVE  Sleepers(r)' # {} => used'[r] <= Cardinality(Woken(r)')
    <3>1. Sleepers(r)' = Sleepers(r) /\ Woken(r)' = Woken(r)
      BY <1>7 DEF OSInitMessageQueue, threadVars, Sleepers, Woken, Registered
    <3>2. used'[r] = 0 \/ used'[r] = used[r]
      BY <1>7 DEF OSInitMessageQueue, TypeOK, QueuesTyped
    <3>3. Cardinality(Woken(r)) \in Nat
      BY WokenFinite
    <3>. QED
      BY <3>1, <3>2, <3>3 DEF NoLostWakeup
  <2>2. FreshThreads'
    BY <1>7 DEF OSInitMessageQueue, threadVars, FreshThreads
  <2>. QED
    BY <2>1, <2>2 DEF NoLostWakeup
<1>8. ASSUME NEW q \in Queue, NEW m \in Message, NEW hp \in BOOLEAN,
             OSSendMessage(q, m, hp)
      PROVE  NoLostWakeup' /\ FreshThreads'
  <2>1. /\ UNCHANGED <<guest_threads, retrying>>
        /\ used' = [used EXCEPT ![q] = @ + 1]
        /\ Registered' = Registered
    BY <1>8 DEF OSSendMessage, Registered
  <2>2. CASE Sleepers(q) = {} /\ UNCHANGED <<state, sleeping, waiting_message_queue>>
    <3>1. \A r \in Queue : Sleepers(r)' = Sleepers(r) /\ Woken(r)' = Woken(r)
      BY <2>1, <2>2 DEF Sleepers, Woken
    <3>2. \A r \in Queue : r # q => used'[r] = used[r]
      BY <2>1 DEF TypeOK, QueuesTyped
    <3>3. FreshThreads'
      BY <2>1, <2>2 DEF FreshThreads
    <3>. QED
      BY <2>2, <3>1, <3>2, <3>3 DEF NoLostWakeup
  <2>3. ASSUME NEW t \in MostUrgent(Sleepers(q)),
               state' = [state EXCEPT ![t] = "ready"],
               sleeping' = [sleeping EXCEPT ![t] = FALSE],
               waiting_message_queue' = [waiting_message_queue EXCEPT ![t] = NoQueue]
        PROVE  NoLostWakeup' /\ FreshThreads'
    <3>1. /\ t \in Sleepers(q) /\ t \in Registered /\ t \in Thread
          /\ sleeping[t] /\ waiting_message_queue[t] = q
      BY <1>0 DEF MostUrgent, Sleepers
    <3>2. q # NoQueue
      BY SchedulerAssumption
    <3>3. retrying[t] = q
      BY <3>1, <3>2 DEF StatesAgree
    <3>4. \A r \in Queue : Sleepers(r)' = Sleepers(r) \ {t}
      BY <1>0, <2>1, <2>3, <3>1, SchedulerAssumption DEF Sleepers, TypeOK, ThreadsTyped
    <3>5. ASSUME NEW r \in Queue
          PROVE  Sleepers(r)' # {} => used'[r] <= Cardinality(Woken(r)')
      <4>1. CASE r = q
        <5>1. Woken(q)' = Woken(q) \cup {t} /\ t \notin Woken(q)
          BY <1>0, <2>1, <2>3, <3>1, <3>3 DEF Woken, TypeOK, ThreadsTyped
        <5>2. /\ Cardinality(Woken(q)) \in Nat
              /\ Cardinality(Woken(q)') = Cardinality(Woken(q)) + 1
          BY <5>1, WokenFinite, FS_AddElement
        <5>3. used[q] <= Cardinality(Woken(q))
          BY <3>1 DEF NoLostWakeup
        <5>4. used[q] \in Nat /\ used'[q] = used[q] + 1
          BY <2>1, SchedulerAssumption DEF TypeOK, QueuesTyped
        <5>. QED
          BY <4>1, <5>2, <5>3, <5>4
      <4>2. CASE r # q
        <5>1. Woken(r) \subseteq Woken(r)'
          BY <1>0, <2>1, <2>3, <3>1, <3>3, <4>2 DEF Woken, TypeOK, ThreadsTyped
        <5>2. used'[r] = used[r]
          BY <2>1, <4>2 DEF TypeOK, QueuesTyped
        <5>. QED
          BY <3>4, <5>1, <5>2, CoverMonotone
      <4>. QED
        BY <4>1, <4>2
    <3>6. FreshThreads'
      BY <2>1, <2>3, <3>1 DEF FreshThreads, TypeOK, ThreadsTyped
    <3>. QED
      BY <3>5, <3>6 DEF NoLostWakeup
  <2>. QED
    BY <1>8, <2>2, <2>3 DEF OSSendMessage, WakeReceiver
<1>9. ASSUME NEW q \in Queue, OSReceiveMessage(q)
      PROVE  NoLostWakeup' /\ FreshThreads'
  <2>1. /\ UNCHANGED <<guest_threads, current, state, sleeping, waiting_message_queue>>
        /\ used' = [used EXCEPT ![q] = @ - 1]
        /\ retrying' = [retrying EXCEPT ![current] = NoQueue]
        /\ retrying[current] \in {NoQueue, q}
        /\ used[q] # 0
        /\ Registered' = Registered
    BY <1>9 DEF OSReceiveMessage, MayReceive, Registered
  <2>2. ASSUME NEW r \in Queue
        PROVE  Sleepers(r)' # {} => used'[r] <= Cardinality(Woken(r)')
    <3>1. Sleepers(r)' = Sleepers(r)
      BY <2>1 DEF Sleepers
    <3>2. CASE r = q
      <4>1. Woken(q)' = Woken(q) \ {current}
        BY <1>0, <2>1, SchedulerAssumption DEF Woken, TypeOK, ThreadsTyped
      <4>2. /\ Cardinality(Woken(q)) \in Nat
            /\ Cardinality(Woken(q)') \in
                 {Cardinality(Woken(q)) - 1, Cardinality(Woken(q))}
        BY <4>1, WokenFinite, FS_RemoveElement
      <4>3. used[q] \in Nat /\ used'[q] = used[q] - 1
        BY <2>1, SchedulerAssumption DEF TypeOK, QueuesTyped
      <4>. QED
        BY <3>1, <3>2, <4>2, <4>3 DEF NoLostWakeup
    <3>3. CASE r # q
      <4>1. Woken(r) \subseteq Woken(r)'
        BY <1>0, <2>1, <3>3, SchedulerAssumption DEF Woken, TypeOK, ThreadsTyped
      <4>2. used'[r] = used[r]
        BY <2>1, <3>3 DEF TypeOK, QueuesTyped
      <4>. QED
        BY <3>1, <4>1, <4>2, CoverMonotone
    <3>. QED
      BY <3>2, <3>3
  <2>3. FreshThreads'
    BY <1>0, <2>1 DEF FreshThreads, TypeOK, ThreadsTyped
  <2>. QED
    BY <2>2, <2>3 DEF NoLostWakeup
<1>10. ASSUME NEW q \in Queue, OSReceiveMessageEmpty(q)
       PROVE  NoLostWakeup' /\ FreshThreads'
  <2>1. TickMax \in 0..TickMax /\ q \in QueueOrNone
    BY SchedulerAssumption DEF QueueOrNone
  <2>2. /\ UNCHANGED <<guest_threads, used>>
        /\ retrying[current] \in {NoQueue, q}
        /\ used[q] = 0
        /\ SwitchTo(TRUE, TickMax, q) \/ KeepRunning(TRUE, TickMax)
    BY <1>10 DEF OSReceiveMessageEmpty, MayReceive, queueVars
  <2>. QED
    BY <2>1, <2>2, SwitchToCovers, KeepRunningCovers
<1>11. CASE UNCHANGED <<threadVars, clockVars, queueVars>>
  BY <1>2, <1>11 DEF threadVars, queueVars
<1>. QED
  BY <1>1, <1>3, <1>4, <1>5, <1>6, <1>7, <1>8, <1>9, <1>10, <1>11
  DEF Next, OSSendMessageFull, OSExitThread, Halted, vars

\* A message never waits in a queue beside a sleeping receiver without a woken
\* thread on its way to it, for any number of threads, queues and messages.
THEOREM NoWakeupIsLost ==
  ASSUME MayRebuild = {}
  PROVE  Spec => []NoLostWakeup
<1>1. Init => FreshThreads /\ NoLostWakeup
  <2>. SUFFICES ASSUME Init PROVE FreshThreads /\ NoLostWakeup
    OBVIOUS
  <2>1. \A q \in Queue : Sleepers(q) = {}
    BY SchedulerAssumption DEF Init, Sleepers, Registered
  <2>. QED
    BY <2>1 DEF Init, FreshThreads, NoLostWakeup
<1>2. /\ TypeOK /\ TypeOK' /\ StatesAgree /\ FreshThreads /\ NoLostWakeup
      /\ [Next]_vars
      => FreshThreads' /\ NoLostWakeup'
  BY WakeupStep DEF WakeupInv
<1>. QED
  BY <1>1, <1>2, TypeCorrect, RecordsAgree, PTL DEF Spec

(***************************************************************************)
(* Timers.  These facts need no restriction on OSCreateThread: a rebuilt   *)
(* thread keeps the host's record of its deadline.                         *)
(***************************************************************************)
SleepersRegistered == \A t \in Thread : sleeping[t] => t \in Registered

TimerInv == SleepersRegistered /\ NoOverdueSleeper /\ ClockCoversSleep

\* Handing the core over wakes every thread that is due, and moves the clock
\* no further than the sleeps that were asked for.
LEMMA SwitchToTimers ==
  ASSUME TypeOK, TimerInv, NEW block \in BOOLEAN, NEW wake \in 0..TickMax,
         NEW q \in QueueOrNone, SwitchTo(block, wake, q), UNCHANGED guest_threads,
         os_sleep_ticks_offset' \in 0..TickMax,
         os_sleep_ticks_offset <= os_sleep_ticks_offset',
         q = NoQueue => wake <= os_sleep_ticks_offset',
         q # NoQueue => wake = TickMax
  PROVE  TimerInv'
<1>1. PICK now \in SwitchTime(block, wake) : \E next \in Selected(block, now) :
        HandOver(now, next, Awoken(now, block, wake, q), wake, q)
  BY DEF SwitchTo
<1>2. PICK next \in Selected(block, now) :
        HandOver(now, next, Awoken(now, block, wake, q), wake, q)
  BY <1>1
<1>3. /\ current \in Registered /\ current \in Thread
      /\ Registered \subseteq Thread /\ Registered' = Registered
      /\ TickMax \in Nat
  BY RegisteredThreads, SchedulerAssumption DEF TypeOK, ThreadsTyped, Registered
<1>4. /\ now \in 0..(TickMax - 1)
      /\ guest_scheduler_ticks <= now
      /\ \/ now = guest_scheduler_ticks
         \/ block /\ now = wake
         \/ block /\ \E t \in Sleepers(NoQueue) : now = wake_tick[t]
  BY SwitchTimeBounds
<1>5. now <= os_sleep_ticks_offset'
  <2>1. guest_scheduler_ticks \in Nat /\ os_sleep_ticks_offset \in Nat
    BY <1>3 DEF TypeOK, ClocksTyped
  <2>2. \A t \in Sleepers(NoQueue) : wake_tick[t] \in Nat
    BY <1>3 DEF Sleepers, TypeOK, ThreadsTyped
  <2>3. CASE now = wake
    BY <1>3, <1>4, <2>3
  <2>4. CASE now # wake
    BY <1>3, <1>4, <2>1, <2>2, <2>4 DEF TimerInv, ClockCoversSleep
  <2>. QED
    BY <2>3, <2>4
<1>6. SleepersRegistered'
  BY <1>2, <1>3 DEF HandOver, TimerInv, SleepersRegistered
<1>7. ASSUME NEW t \in Sleepers(NoQueue)'
      PROVE  now < wake_tick'[t] /\ wake_tick'[t] <= os_sleep_ticks_offset'
  <2>1. /\ t \in Registered /\ t \in Thread
        /\ sleeping'[t] /\ waiting_message_queue'[t] = NoQueue
    BY <1>3, <1>7 DEF Sleepers
  <2>2. t \notin Awoken(now, block, wake, q)
    BY <1>2, <2>1 DEF HandOver
  <2>3. CASE t = current
    <3>1. q = NoQueue /\ wake_tick'[t] = wake
      BY <1>2, <1>3, <2>1, <2>2, <2>3 DEF HandOver, TypeOK, ThreadsTyped
    <3>2. ~(wake <= now)
      BY <2>2, <2>3, <3>1 DEF Awoken, OwnTimerDue
    <3>. QED
      BY <1>3, <1>4, <3>1, <3>2
  <2>4. CASE t # current
    <3>1. t \in Sleepers(NoQueue) /\ wake_tick'[t] = wake_tick[t]
      BY <1>2, <1>3, <2>1, <2>2, <2>4 DEF HandOver, Sleepers, TypeOK, ThreadsTyped
    <3>2. ~(wake_tick[t] <= now)
      BY <2>2, <2>4, <3>1 DEF Awoken, Due
    <3>3. wake_tick[t] \in Nat /\ os_sleep_ticks_offset \in Nat
      BY <1>3, <2>1 DEF TypeOK, ThreadsTyped, ClocksTyped
    <3>. QED
      BY <1>3, <1>4, <3>1, <3>2, <3>3 DEF TimerInv, ClockCoversSleep
  <2>. QED
    BY <2>3, <2>4
<1>8. guest_scheduler_ticks' = now
  BY <1>2 DEF HandOver
<1>. QED
  BY <1>5, <1>6, <1>7, <1>8 DEF TimerInv, NoOverdueSleeper, ClockCoversSleep

\* A call that keeps the core leaves the same facts behind.
LEMMA KeepRunningTimers ==
  ASSUME TypeOK, TimerInv, NEW block \in BOOLEAN, NEW wake \in 0..TickMax,
         KeepRunning(block, wake), UNCHANGED guest_threads,
         os_sleep_ticks_offset' \in 0..TickMax,
         os_sleep_ticks_offset <= os_sleep_ticks_offset',
         wake <= os_sleep_ticks_offset' \/ wake = TickMax
  PROVE  TimerInv'
<1>1. PICK now \in SwitchTime(block, wake) : GoOn(now, Due(now))
  BY DEF KeepRunning
<1>2. /\ Registered \subseteq Thread /\ Registered' = Registered
      /\ current \in Thread /\ TickMax \in Nat
  BY RegisteredThreads, SchedulerAssumption DEF TypeOK, ThreadsTyped, Registered
<1>3. /\ now \in 0..(TickMax - 1)
      /\ guest_scheduler_ticks <= now
      /\ \/ now = guest_scheduler_ticks
         \/ block /\ now = wake
         \/ block /\ \E t \in Sleepers(NoQueue) : now = wake_tick[t]
  BY SwitchTimeBounds
<1>4. now <= os_sleep_ticks_offset'
  <2>1. guest_scheduler_ticks \in Nat /\ os_sleep_ticks_offset \in Nat
    BY <1>2 DEF TypeOK, ClocksTyped
  <2>2. \A t \in Sleepers(NoQueue) : wake_tick[t] \in Nat
    BY <1>2 DEF Sleepers, TypeOK, ThreadsTyped
  <2>3. CASE now = wake
    BY <1>2, <1>3, <2>3
  <2>4. CASE now # wake
    BY <1>2, <1>3, <2>1, <2>2, <2>4 DEF TimerInv, ClockCoversSleep
  <2>. QED
    BY <2>3, <2>4
<1>5. SleepersRegistered'
  BY <1>1, <1>2 DEF GoOn, TimerInv, SleepersRegistered
<1>6. ASSUME NEW t \in Sleepers(NoQueue)'
      PROVE  now < wake_tick'[t] /\ wake_tick'[t] <= os_sleep_ticks_offset'
  <2>1. /\ t \in Sleepers(NoQueue) /\ t # current /\ t \notin Due(now)
        /\ t \in Thread /\ wake_tick'[t] = wake_tick[t]
    BY <1>1, <1>2, <1>6 DEF GoOn, Sleepers, TypeOK, ThreadsTyped
  <2>2. ~(wake_tick[t] <= now)
    BY <2>1 DEF Due
  <2>3. wake_tick[t] \in Nat /\ os_sleep_ticks_offset \in Nat
    BY <1>2, <2>1 DEF TypeOK, ThreadsTyped, ClocksTyped
  <2>. QED
    BY <1>2, <1>3, <2>1, <2>2, <2>3 DEF TimerInv, ClockCoversSleep
<1>7. guest_scheduler_ticks' = now
  BY <1>1 DEF GoOn
<1>. QED
  BY <1>4, <1>5, <1>6, <1>7 DEF TimerInv, NoOverdueSleeper, ClockCoversSleep

\* Every call leaves each timed sleeper's deadline ahead of the clock.
LEMMA TimerStep ==
  ASSUME TypeOK, TimerInv, [Next]_vars
  PROVE  TimerInv'
<1>1. ASSUME NEW t \in Thread, NEW has_entry \in BOOLEAN, NEW cores \in CoreMasks,
             NEW detached \in Detached, OSCreateThread(t, has_entry, cores, detached)
      PROVE  TimerInv'
  <2>1. Registered' = Registered \cup {t}
    <3>1. CASE t \in Registered
      BY <1>1, <3>1 DEF OSCreateThread, Registered
    <3>2. CASE t \notin Registered
      BY <1>1, <3>2, RegisteredAppend DEF OSCreateThread, TypeOK, ThreadsTyped
    <3>. QED
      BY <3>1, <3>2
  <2>2. UNCHANGED <<sleeping, wake_tick, waiting_message_queue, clockVars>>
    BY <1>1 DEF OSCreateThread
  <2>3. Sleepers(NoQueue)' = Sleepers(NoQueue)
    BY <2>1, <2>2 DEF Sleepers, TimerInv, SleepersRegistered
  <2>. QED
    BY <2>1, <2>2, <2>3
    DEF TimerInv, SleepersRegistered, NoOverdueSleeper, ClockCoversSleep, clockVars
<1>2. ASSUME UNCHANGED <<guest_threads, sleeping, wake_tick, waiting_message_queue,
                         clockVars>>
      PROVE  TimerInv'
  BY <1>2
  DEF TimerInv, SleepersRegistered, NoOverdueSleeper, ClockCoversSleep, clockVars,
      Sleepers, Registered
<1>3. CASE OSYieldThread
  <2>1. /\ 0 \in 0..TickMax /\ NoQueue \in QueueOrNone
        /\ os_sleep_ticks_offset \in 0..TickMax /\ 0 <= os_sleep_ticks_offset
        /\ os_sleep_ticks_offset <= os_sleep_ticks_offset
    BY SchedulerAssumption DEF QueueOrNone, TypeOK, ClocksTyped
  <2>2. UNCHANGED <<guest_threads, os_sleep_ticks_offset>>
    BY <1>3 DEF OSYieldThread
  <2>3. SwitchTo(FALSE, 0, NoQueue) \/ KeepRunning(FALSE, 0)
    BY <1>3 DEF OSYieldThread
  <2>. QED
    BY <2>1, <2>2, <2>3, SwitchToTimers, KeepRunningTimers
<1>4. ASSUME NEW ticks \in Delays, OSSleepTicks(ticks)
      PROVE  TimerInv'
  <2>. DEFINE wake == SaturatingAdd(guest_scheduler_ticks, ticks)
  <2>1. /\ guest_scheduler_ticks \in 0..TickMax /\ ticks \in 0..TickMax
        /\ os_sleep_ticks_offset \in 0..TickMax /\ TickMax \in Nat
        /\ guest_scheduler_ticks <= os_sleep_ticks_offset
    BY SchedulerAssumption DEF TypeOK, ClocksTyped, TimerInv, ClockCoversSleep
  <2>2. /\ wake \in 0..TickMax
        /\ os_sleep_ticks_offset' \in 0..TickMax
        /\ os_sleep_ticks_offset <= os_sleep_ticks_offset'
        /\ wake <= os_sleep_ticks_offset'
    BY <1>4, <2>1 DEF OSSleepTicks, SaturatingAdd
  <2>3. NoQueue \in QueueOrNone /\ UNCHANGED guest_threads
    BY <1>4 DEF QueueOrNone, OSSleepTicks
  <2>4. SwitchTo(TRUE, wake, NoQueue) \/ KeepRunning(TRUE, wake)
    BY <1>4 DEF OSSleepTicks
  <2>. QED
    BY <2>2, <2>3, <2>4, SwitchToTimers, KeepRunningTimers
<1>5. ASSUME NEW q \in Queue, NEW m \in Message, NEW hp \in BOOLEAN,
             OSSendMessage(q, m, hp)
      PROVE  TimerInv'
  <2>1. CASE UNCHANGED <<state, sleeping, wake_tick, waiting_message_queue>>
    BY <1>2, <1>5, <2>1 DEF OSSendMessage
  <2>2. ASSUME NEW t \in MostUrgent(Sleepers(q)),
               sleeping' = [sleeping EXCEPT ![t] = FALSE],
               wake_tick' = [wake_tick EXCEPT ![t] = 0],
               waiting_message_queue' = [waiting_message_queue EXCEPT ![t] = NoQueue]
        PROVE  TimerInv'
    <3>1. Registered \subseteq Thread /\ t \in Thread
      BY RegisteredThreads DEF MostUrgent, Sleepers, TypeOK, ThreadsTyped
    <3>2. /\ Registered' = Registered
          /\ UNCHANGED <<guest_scheduler_ticks, os_sleep_ticks_offset>>
      BY <1>5 DEF OSSendMessage, Registered, clockVars
    <3>3. \A u \in Sleepers(NoQueue)' :
             u \in Sleepers(NoQueue) /\ wake_tick'[u] = wake_tick[u]
      BY <2>2, <3>1, <3>2 DEF Sleepers, TypeOK, ThreadsTyped
    <3>4. SleepersRegistered'
      BY <2>2, <3>2 DEF TimerInv, SleepersRegistered, TypeOK, ThreadsTyped
    <3>. QED
      BY <3>2, <3>3, <3>4 DEF TimerInv, NoOverdueSleeper, ClockCoversSleep
  <2>. QED
    BY <1>5, <2>1, <2>2 DEF OSSendMessage, WakeReceiver
<1>6. ASSUME NEW q \in Queue, OSReceiveMessageEmpty(q)
      PROVE  TimerInv'
  <2>1. /\ TickMax \in 0..TickMax /\ q \in QueueOrNone /\ q # NoQueue
        /\ os_sleep_ticks_offset \in 0..TickMax
        /\ os_sleep_ticks_offset <= os_sleep_ticks_offset
    BY SchedulerAssumption DEF QueueOrNone, TypeOK, ClocksTyped
  <2>2. /\ UNCHANGED <<guest_threads, os_sleep_ticks_offset>>
        /\ SwitchTo(TRUE, TickMax, q) \/ KeepRunning(TRUE, TickMax)
    BY <1>6 DEF OSReceiveMessageEmpty
  <2>. QED
    BY <2>1, <2>2, SwitchToTimers, KeepRunningTimers
<1>7. ASSUME NEW t \in Thread, OSResumeThread(t)
      PROVE  TimerInv'
  BY <1>2, <1>7 DEF OSResumeThread
<1>8. ASSUME NEW t \in Thread, NEW cores \in CoreMasks, OSSetThreadAffinity(t, cores)
      PROVE  TimerInv'
  BY <1>2, <1>8 DEF OSSetThreadAffinity
<1>9. ASSUME NEW q \in Queue, OSReceiveMessage(q)
      PROVE  TimerInv'
  BY <1>2, <1>9 DEF OSReceiveMessage
<1>10. CASE UNCHANGED <<threadVars, clockVars>>
  BY <1>2, <1>10 DEF threadVars
<1>. QED
  BY <1>1, <1>3, <1>4, <1>5, <1>6, <1>7, <1>8, <1>9, <1>10
  DEF Next, OSInitMessageQueue, OSSendMessageFull, OSExitThread, Halted, vars

LEMMA TimersCorrect == Spec => []TimerInv
<1>1. Init => TimerInv
  <2>. SUFFICES ASSUME Init PROVE TimerInv
    OBVIOUS
  <2>1. Sleepers(NoQueue) = {}
    BY SchedulerAssumption DEF Init, Sleepers, Registered
  <2>. QED
    BY <2>1 DEF Init, TimerInv, SleepersRegistered, NoOverdueSleeper, ClockCoversSleep
<1>2. TypeOK /\ TimerInv /\ [Next]_vars => TimerInv'
  BY TimerStep
<1>. QED
  BY <1>1, <1>2, TypeCorrect, PTL DEF Spec

\* No deadline is ever behind the scheduler's clock while its thread sleeps.
THEOREM NobodyOversleeps == Spec => []NoOverdueSleeper
BY TimersCorrect, PTL DEF TimerInv

\* OSTime is never behind the scheduler's clock nor a pending deadline, however
\* many sleeps overlap and whatever the saturation point is.
THEOREM ClocksAgree == Spec => []ClockCoversSleep
BY TimersCorrect, PTL DEF TimerInv

(***************************************************************************)
(* Priorities.                                                             *)
(***************************************************************************)

\* The core goes to a thread no ready, resumed and eligible one is more urgent
\* than, and of equally urgent ones to the one registered first.
LEMMA SwitchToUrgent ==
  ASSUME TypeOK, StatesAgree, NEW block \in BOOLEAN, NEW wake, NEW q \in QueueOrNone,
         SwitchTo(block, wake, q), UNCHANGED <<suspend_count, attributes>>,
         NEW t \in Registered \ {current, current'}, state'[t] = "ready",
         suspend_count[t] = 0, Eligible(t)
  PROVE  \/ Priority[current'] < Priority[t]
         \/ Priority[current'] = Priority[t] /\ Before(current', t)
<1>1. PICK now \in SwitchTime(block, wake) : \E next \in Selected(block, now) :
        HandOver(now, next, Awoken(now, block, wake, q), wake, q)
  BY DEF SwitchTo
<1>2. PICK next \in Selected(block, now) :
        HandOver(now, next, Awoken(now, block, wake, q), wake, q)
  BY <1>1
<1>3. next = current' /\ t \in Thread /\ t # next /\ t # current
  BY <1>2, RegisteredThreads DEF HandOver, TypeOK, ThreadsTyped
<1>4. t \in Runnable(now)
  <2>1. CASE t \in Awoken(now, block, wake, q)
    BY <1>3, <2>1 DEF Awoken, Runnable
  <2>2. CASE t \notin Awoken(now, block, wake, q)
    <3>1. state[t] = "ready"
      BY <1>2, <1>3, <2>2 DEF HandOver
    <3>2. ~sleeping[t]
      BY <1>3, <3>1 DEF StatesAgree
    <3>. QED
      BY <1>3, <3>1, <3>2 DEF Runnable
  <2>. QED
    BY <2>1, <2>2
<1>5. \/ Priority[next] < Priority[t]
      \/ Priority[next] = Priority[t] /\ Before(next, t)
  BY <1>2, <1>3, <1>4 DEF Selected, MostUrgent
<1>. QED
  BY <1>3, <1>5

\* A change of the running thread always goes to the most urgent one there is,
\* and to the first registered among equals.
THEOREM UrgentRunsFirst ==
  ASSUME MayRebuild = {}
  PROVE  Spec => UrgentFirst
<1>. DEFINE Urgent ==
       current' # current =>
         \A t \in Registered \ {current, current'} :
            state'[t] = "ready" /\ suspend_count[t] = 0 /\ Eligible(t)
              => \/ Priority[current'] < Priority[t]
                 \/ Priority[current'] = Priority[t] /\ Before(current', t)
<1>1. ASSUME TypeOK, StatesAgree, [Next]_vars
      PROVE  [Urgent]_vars
  <2>1. CASE OSYieldThread
    BY <1>1, <2>1, SwitchToUrgent DEF OSYieldThread, KeepRunning, GoOn, QueueOrNone
  <2>2. ASSUME NEW ticks \in Delays, OSSleepTicks(ticks)
        PROVE  Urgent
    BY <1>1, <2>2, SwitchToUrgent DEF OSSleepTicks, KeepRunning, GoOn, QueueOrNone
  <2>3. ASSUME NEW q \in Queue, OSReceiveMessageEmpty(q)
        PROVE  Urgent
    BY <1>1, <2>3, SwitchToUrgent
    DEF OSReceiveMessageEmpty, KeepRunning, GoOn, QueueOrNone
  <2>4. CASE current' = current
    BY <2>4
  <2>5. CASE UNCHANGED vars
    BY <2>5
  <2>. HIDE DEF Urgent
  <2>. QED
    BY <1>1, <2>1, <2>2, <2>3, <2>4, <2>5
    DEF Next, OSCreateThread, OSResumeThread, OSSetThreadAffinity,
        OSInitMessageQueue, OSSendMessage, OSSendMessageFull, OSReceiveMessage,
        OSExitThread, Halted, threadVars
<1>. QED
  BY <1>1, TypeCorrect, RecordsAgree, PTL DEF Spec, UrgentFirst

(***************************************************************************)
(* Blocking calls that keep the core.  A call that blocks and finds nobody *)
(* to run may still be right to go on (its own deadline came first) or to  *)
(* report an error.  Both rest on two facts: the threads that sleep have   *)
(* been resumed, and a scan with a candidate keeps one.                    *)
(***************************************************************************)

\* Only a thread that has not run yet can be suspended.
SuspendedReady == \A t \in Thread : suspend_count[t] # 0 => state[t] = "ready"

\* Whoever calls, sleeps or is chosen has been resumed, so a call that parks the
\* thread or hands the core over never leaves a suspended thread unready.
LEMMA SwitchSuspended ==
  ASSUME TypeOK, StatesAgree, SuspendedReady,
         NEW block \in BOOLEAN, NEW wake, NEW q, UNCHANGED suspend_count,
         SwitchTo(block, wake, q) \/ KeepRunning(block, wake)
  PROVE  SuspendedReady'
<1>1. current \in Thread /\ suspend_count[current] = 0
  BY RegisteredThreads DEF SuspendedReady, StatesAgree, TypeOK, ThreadsTyped
<1>2. CASE SwitchTo(block, wake, q)
  <2>1. PICK now \in SwitchTime(block, wake) : \E next \in Selected(block, now) :
          HandOver(now, next, Awoken(now, block, wake, q), wake, q)
    BY <1>2 DEF SwitchTo
  <2>2. PICK next \in Selected(block, now) :
          HandOver(now, next, Awoken(now, block, wake, q), wake, q)
    BY <2>1
  <2>3. suspend_count[next] = 0
    BY DEF Selected, MostUrgent, Runnable
  <2>. QED
    BY <1>1, <2>2, <2>3 DEF HandOver, SuspendedReady
<1>3. CASE KeepRunning(block, wake)
  BY <1>1, <1>3 DEF KeepRunning, GoOn, SuspendedReady
<1>. QED
  BY <1>2, <1>3

\* OSCreateThread suspends what it builds, OSResumeThread only lifts that.
LEMMA SuspendedStep ==
  ASSUME MayRebuild = {}, TypeOK, StatesAgree, SuspendedReady, [Next]_vars
  PROVE  SuspendedReady'
<1>1. ASSUME NEW t \in Thread, NEW has_entry \in BOOLEAN, NEW cores \in CoreMasks,
             NEW detached \in Detached, OSCreateThread(t, has_entry, cores, detached)
      PROVE  SuspendedReady'
  BY <1>1 DEF OSCreateThread, SuspendedReady, TypeOK, ThreadsTyped
<1>2. ASSUME NEW t \in Thread, OSResumeThread(t)
      PROVE  SuspendedReady'
  BY <1>2 DEF OSResumeThread, SuspendedReady, TypeOK, ThreadsTyped
<1>3. ASSUME NEW q \in Queue, NEW m \in Message, NEW hp \in BOOLEAN,
             OSSendMessage(q, m, hp)
      PROVE  SuspendedReady'
  BY <1>3 DEF OSSendMessage, WakeReceiver, SuspendedReady, TypeOK, ThreadsTyped
<1>4. CASE OSYieldThread
  BY <1>4, SwitchSuspended DEF OSYieldThread
<1>5. ASSUME NEW ticks \in Delays, OSSleepTicks(ticks)
      PROVE  SuspendedReady'
  BY <1>5, SwitchSuspended DEF OSSleepTicks
<1>6. ASSUME NEW q \in Queue, OSReceiveMessageEmpty(q)
      PROVE  SuspendedReady'
  BY <1>6, SwitchSuspended DEF OSReceiveMessageEmpty
<1>7. CASE UNCHANGED <<state, suspend_count>>
  BY <1>7 DEF SuspendedReady
<1>. QED
  BY <1>1, <1>2, <1>3, <1>4, <1>5, <1>6, <1>7
  DEF Next, OSSetThreadAffinity, OSInitMessageQueue, OSSendMessageFull,
      OSReceiveMessage, OSExitThread, Halted, vars, threadVars

\* No reachable state holds a suspended thread that runs or sleeps.
LEMMA SuspendedCorrect ==
  ASSUME MayRebuild = {}
  PROVE  Spec => []SuspendedReady
<1>1. Init => SuspendedReady
  BY DEF Init, SuspendedReady
<1>2. TypeOK /\ StatesAgree /\ SuspendedReady /\ [Next]_vars => SuspendedReady'
  BY SuspendedStep
<1>. QED
  BY <1>1, <1>2, TypeCorrect, RecordsAgree, PTL DEF Spec

\* A blocking call keeps the core only if, with every thread admitted to it, no
\* other timed sleeper is due at the time the clock ends up at.
LEMMA KeptAlone ==
  ASSUME TypeOK, StatesAgree, SuspendedReady, NEW wake \in 0..TickMax,
         NEW now \in SwitchTime(TRUE, wake), Selected(TRUE, now) = {},
         \A t \in Registered : Eligible(t)
  PROVE  /\ now \in 0..(TickMax - 1) /\ guest_scheduler_ticks <= now
         /\ Runnable(now) = {}
         /\ Due(now) = {}
         /\ \A n \in PendingTimers(wake) : now \in PendingTimers(wake) /\ now <= n
<1>1. Runnable(now) = {}
  <2>1. MostUrgent(Runnable(now)) = {}
    BY DEF Selected
  <2>2. Runnable(now) \subseteq Registered
    BY DEF Runnable
  <2>. QED
    BY <2>1, <2>2, MostUrgentExists
<1>2. Due(now) = {}
  <2>. SUFFICES ASSUME NEW t \in Due(now) PROVE FALSE
    OBVIOUS
  <2>1. /\ t \in Registered \ {current} /\ t \in Thread
        /\ sleeping[t]
    BY RegisteredThreads DEF Due, Sleepers, TypeOK, ThreadsTyped
  <2>2. suspend_count[t] = 0
    BY <2>1 DEF StatesAgree, SuspendedReady
  <2>3. t \in Runnable(now)
    BY <2>1, <2>2 DEF Runnable
  <2>. QED
    BY <1>1, <2>3
<1>3. ASSUME PendingTimers(wake) # {}
      PROVE  now \in PendingTimers(wake) /\ \A n \in PendingTimers(wake) : now <= n
  <2>1. CASE Runnable(guest_scheduler_ticks) = {}
    BY <1>3, <2>1 DEF SwitchTime
  <2>2. CASE Runnable(guest_scheduler_ticks) # {}
    BY <1>1, <2>2 DEF SwitchTime
  <2>. QED
    BY <2>1, <2>2
<1>4. now \in 0..(TickMax - 1) /\ guest_scheduler_ticks <= now
  BY SwitchTimeBounds, TRUE \in BOOLEAN
<1>. QED
  BY <1>1, <1>2, <1>3, <1>4

\* What a receive leaves behind when it ends the run.
LEMMA NobodyCouldRun ==
  ASSUME TypeOK, StatesAgree, SuspendedReady, KeepRunning(TRUE, TickMax),
         UNCHANGED <<guest_threads, suspend_count, attributes>>,
         \A t \in Registered : Eligible(t), NEW t \in Registered \ {current}
  PROVE  ~CouldRun(t)'
<1>1. PICK now \in SwitchTime(TRUE, TickMax) :
        Selected(TRUE, now) = {} /\ GoOn(now, Due(now))
  BY DEF KeepRunning
<1>2. TickMax \in 0..TickMax
  BY SchedulerAssumption
<1>3. /\ now \in 0..(TickMax - 1) /\ guest_scheduler_ticks <= now
      /\ Runnable(now) = {}
      /\ Due(now) = {}
      /\ \A n \in PendingTimers(TickMax) : now \in PendingTimers(TickMax) /\ now <= n
  BY <1>1, <1>2, KeptAlone
<1>4. t \in Thread /\ current \in Thread /\ current' = current /\ t # current
  BY <1>1, RegisteredThreads DEF GoOn, TypeOK, ThreadsTyped
<1>. SUFFICES ASSUME CouldRun(t)' PROVE FALSE
  OBVIOUS
<1>5. suspend_count[t] = 0
  BY DEF CouldRun
<1>6. CASE ~sleeping'[t] /\ state'[t] = "ready"
  <2>1. state[t] = "ready" /\ ~sleeping[t]
    BY <1>1, <1>3, <1>4, <1>6 DEF GoOn, StatesAgree
  <2>2. t \in Runnable(now)
    BY <1>4, <1>5, <2>1 DEF Runnable
  <2>. QED
    BY <1>3, <2>2
<1>7. CASE t \in Sleepers(NoQueue)' /\ wake_tick'[t] < TickMax
  <2>1. /\ t \in Sleepers(NoQueue) \ {current} /\ wake_tick[t] < TickMax
    BY <1>1, <1>3, <1>4, <1>7 DEF GoOn, Sleepers, TypeOK, ThreadsTyped
  <2>2. ~(wake_tick[t] <= now)
    BY <1>3, <2>1 DEF Due
  <2>3. /\ now \in 0..(TickMax - 1) /\ guest_scheduler_ticks <= now
        /\ guest_scheduler_ticks \in Nat /\ wake_tick[t] \in Nat
    BY <1>3, <1>4, SchedulerAssumption DEF TypeOK, ThreadsTyped, ClocksTyped
  <2>4. wake_tick[t] \in PendingTimers(TickMax)
    BY <2>1, <2>2, <2>3 DEF PendingTimers
  <2>5. now \in PendingTimers(TickMax)
    BY <1>3, <2>4
  <2>6. PICK u \in Sleepers(NoQueue) \ {current} : now = wake_tick[u]
    BY <2>3, <2>5 DEF PendingTimers
  <2>7. u \in Due(now)
    BY <2>3, <2>6 DEF Due
  <2>. QED
    BY <1>3, <2>7
<1>. QED
  BY <1>6, <1>7 DEF CouldRun

\* The error "no runnable guest thread" is reported only when nobody could run,
\* at once or at any deadline, for any number of threads and any timers.
THEOREM ErrorsAreStuck ==
  ASSUME MayRebuild = {}
  PROVE  Spec => []ErrorMeansStuck
<1>1. Init => ErrorMeansStuck
  BY DEF Init, ErrorMeansStuck
<1>2. ASSUME TypeOK, StatesAgree, SuspendedReady, ErrorMeansStuck, [Next]_vars
      PROVE  ErrorMeansStuck'
  <2>1. CASE UNCHANGED vars
    <3>1. /\ Registered' = Registered /\ current' = current /\ stopped' = stopped
          /\ \A t : (Eligible(t)' <=> Eligible(t)) /\ (CouldRun(t)' <=> CouldRun(t))
      BY <2>1 DEF vars, threadVars, CouldRun, Sleepers, Registered, Eligible
    <3>. QED
      BY <1>2, <3>1 DEF ErrorMeansStuck
  <2>2. ASSUME NEW q \in Queue, OSReceiveMessageEmpty(q)
        PROVE  ErrorMeansStuck'
    <3>. SUFFICES ASSUME stopped' = "no runnable guest thread",
                         (\A t \in Registered : Eligible(t))',
                         NEW t \in (Registered \ {current})'
                  PROVE  ~CouldRun(t)'
      BY DEF ErrorMeansStuck
    <3>1. /\ KeepRunning(TRUE, TickMax)
          /\ UNCHANGED <<guest_threads, suspend_count, attributes>>
      BY <2>2 DEF OSReceiveMessageEmpty, MayReceive
    <3>2. /\ Registered' = Registered /\ current' = current
          /\ \A u : Eligible(u)' <=> Eligible(u)
      <4>1. current' = current
        BY <3>1 DEF KeepRunning, GoOn
      <4>. QED
        BY <3>1, <4>1 DEF Registered, Eligible
    <3>3. (\A u \in Registered : Eligible(u)) /\ t \in Registered \ {current}
      BY <3>2
    <3>. QED
      BY <1>2, <3>1, <3>3, NobodyCouldRun
  <2>3. CASE stopped' # "no runnable guest thread"
    BY <2>3 DEF ErrorMeansStuck
  <2>. QED
    BY <1>2, <2>1, <2>2, <2>3
    DEF Next, OSCreateThread, OSResumeThread, OSSetThreadAffinity, OSYieldThread,
        OSSleepTicks, OSInitMessageQueue, OSSendMessage, OSSendMessageFull,
        OSReceiveMessage, OSExitThread, Halted, InGuestCode, MayReceive
<1>. QED
  BY <1>1, <1>2, TypeCorrect, RecordsAgree, SuspendedCorrect, PTL DEF Spec

\* OSSleepTicks returns without a switch only when its whole delay has passed.
THEOREM SleepsAreWhole ==
  ASSUME MayRebuild = {}
  PROVE  Spec => SleepNotCutShort
<1>. DEFINE Whole ==
       os_sleep_ticks_offset' # os_sleep_ticks_offset /\ current' = current
         /\ os_sleep_ticks_offset' < TickMax /\ (\A t \in Registered : Eligible(t))
       => guest_scheduler_ticks' - guest_scheduler_ticks >=
            os_sleep_ticks_offset' - os_sleep_ticks_offset
<1>1. ASSUME TypeOK, StatesAgree, SuspendedReady, ClockCoversSleep, [Next]_vars
      PROVE  [Whole]_vars
  <2>1. ASSUME NEW ticks \in Delays, OSSleepTicks(ticks)
        PROVE  Whole
    <3>. DEFINE wake == SaturatingAdd(guest_scheduler_ticks, ticks)
    <3>. SUFFICES ASSUME current' = current, os_sleep_ticks_offset' < TickMax,
                         \A t \in Registered : Eligible(t)
                  PROVE  guest_scheduler_ticks' - guest_scheduler_ticks >=
                           os_sleep_ticks_offset' - os_sleep_ticks_offset
      OBVIOUS
    <3>1. /\ guest_scheduler_ticks \in Nat /\ os_sleep_ticks_offset \in Nat
          /\ guest_scheduler_ticks <= os_sleep_ticks_offset
          /\ ticks \in Nat /\ ticks > 0 /\ TickMax \in Nat
      BY <1>1, SchedulerAssumption DEF TypeOK, ClocksTyped, ClockCoversSleep
    <3>2. /\ os_sleep_ticks_offset' = os_sleep_ticks_offset + ticks
          /\ wake = guest_scheduler_ticks + ticks /\ wake < TickMax
      BY <2>1, <3>1 DEF OSSleepTicks, SaturatingAdd
    <3>3. wake \in 0..TickMax
      BY <3>1, <3>2
    <3>4. KeepRunning(TRUE, wake)
      <4>1. SwitchTo(TRUE, wake, NoQueue) => current' # current
        BY DEF SwitchTo, HandOver, Selected, MostUrgent, Runnable
      <4>. QED
        BY <2>1, <4>1 DEF OSSleepTicks
    <3>5. wake \in PendingTimers(wake)
      BY <3>1, <3>2 DEF PendingTimers
    <3>. HIDE DEF wake
    <3>6. PICK now \in SwitchTime(TRUE, wake) :
            Selected(TRUE, now) = {} /\ GoOn(now, Due(now))
      BY <3>4 DEF KeepRunning
    <3>7. now \in Nat /\ Due(now) = {} /\ now \in PendingTimers(wake) /\ now <= wake
      <4>1. /\ now \in 0..(TickMax - 1)
            /\ Due(now) = {}
            /\ \A n \in PendingTimers(wake) : now \in PendingTimers(wake) /\ now <= n
        BY <1>1, <3>3, <3>6, KeptAlone
      <4>. QED
        BY <3>1, <3>5, <4>1
    <3>8. now = wake
      <4>. SUFFICES ASSUME now # wake PROVE FALSE
        OBVIOUS
      <4>2. PICK u \in Sleepers(NoQueue) \ {current} : now = wake_tick[u]
        BY <3>7 DEF PendingTimers
      <4>. QED
        BY <3>1, <3>7, <4>2 DEF Due
    <3>9. guest_scheduler_ticks' = guest_scheduler_ticks + ticks
      BY <3>2, <3>6, <3>8 DEF GoOn
    <3>. QED
      BY <3>1, <3>2, <3>9
  <2>2. CASE UNCHANGED os_sleep_ticks_offset
    BY <2>2
  <2>. HIDE DEF Whole
  <2>. QED
    BY <1>1, <2>1, <2>2
    DEF Next, OSCreateThread, OSResumeThread, OSSetThreadAffinity, OSYieldThread,
        OSInitMessageQueue, OSSendMessage, OSSendMessageFull, OSReceiveMessage,
        OSReceiveMessageEmpty, OSExitThread, Halted, vars, clockVars
<1>. QED
  BY <1>1, TypeCorrect, RecordsAgree, SuspendedCorrect, ClocksAgree, PTL
  DEF Spec, SleepNotCutShort

(***************************************************************************)
(* The message ring implements MessageQueueSpec, for every number of       *)
(* queues, ring size and set of messages.                                  *)
(***************************************************************************)

(***************************************************************************)
(* Sequences recognised by their elements.                                 *)
(***************************************************************************)

\* A sequence with one more element at the end.
LEMMA PushBack ==
  ASSUME NEW S, NEW s \in Seq(S), NEW m \in S, NEW r \in Seq(S),
         Len(r) = Len(s) + 1, \A i \in 1..Len(s) : r[i] = s[i], r[Len(s) + 1] = m
  PROVE  r = Append(s, m)
<1>1. /\ Append(s, m) \in Seq(S)
      /\ Len(Append(s, m)) = Len(s) + 1
      /\ \A i \in 1..Len(s) : Append(s, m)[i] = s[i]
      /\ Append(s, m)[Len(s) + 1] = m
      /\ Len(s) \in Nat
  BY AppendProperties, LenProperties
<1>2. \A i \in 1..Len(r) : r[i] = Append(s, m)[i]
  BY <1>1
<1>. QED BY <1>1, <1>2, SeqEqual

\* A sequence with one more element in front.
LEMMA PushFront ==
  ASSUME NEW S, NEW s \in Seq(S), NEW m \in S, NEW r \in Seq(S),
         Len(r) = Len(s) + 1, r[1] = m, \A i \in 1..Len(s) : r[i + 1] = s[i]
  PROVE  r = <<m>> \o s
<1>1. /\ <<m>> \in Seq(S) /\ Len(<<m>>) = 1 /\ <<m>>[1] = m
      /\ Len(s) \in Nat
  BY LenProperties
<1>2. /\ <<m>> \o s \in Seq(S)
      /\ Len(<<m>> \o s) = Len(s) + 1
      /\ \A i \in 1..(Len(s) + 1) :
            (<<m>> \o s)[i] = IF i <= 1 THEN <<m>>[i] ELSE s[i - 1]
  BY <1>1, ConcatProperties
<1>3. ASSUME NEW i \in 1..Len(r) PROVE r[i] = (<<m>> \o s)[i]
  <2>1. CASE i = 1
    BY <1>1, <1>2, <2>1
  <2>2. CASE i # 1
    <3>1. i - 1 \in 1..Len(s) /\ i = (i - 1) + 1
      BY <1>1, <2>2
    <3>2. r[i] = s[i - 1]
      BY <3>1
    <3>. QED BY <1>1, <1>2, <2>2, <3>1, <3>2
  <2>. QED BY <2>1, <2>2
<1>. QED BY <1>2, <1>3, SeqEqual

\* A sequence without its first element.
LEMMA PopFront ==
  ASSUME NEW S, NEW s \in Seq(S), NEW r \in Seq(S), s # <<>>,
         Len(r) = Len(s) - 1, \A i \in 1..Len(r) : r[i] = s[i + 1]
  PROVE  r = Tail(s)
<1>1. /\ Tail(s) \in Seq(S) /\ Len(Tail(s)) = Len(s) - 1
      /\ \A i \in 1..Len(Tail(s)) : Tail(s)[i] = s[i + 1]
  BY HeadTailProperties
<1>. QED BY <1>1, SeqEqual

(***************************************************************************)
(* Rings.                                                                  *)
(***************************************************************************)

\* The ring index of enqueue and dequeue wraps at most once.
LEMMA RingWraps ==
  ASSUME NEW n \in Nat, n # 0, NEW f \in 0..(n - 1), NEW i \in 0..n
  PROVE  (f + i) % n = IF f + i < n THEN f + i ELSE f + i - n
<1>. \A r \in 0..(n - 1) : r % n = r /\ (r + n) % n = r
  OBVIOUS
<1>1. CASE f + i < n
  BY <1>1
<1>2. CASE f + i >= n
  <2>1. f + i - n \in 0..(n - 1) /\ (f + i - n) + n = f + i /\ ~(f + i < n)
    BY <1>2
  <2>. QED BY <2>1
<1>. QED BY <1>1, <1>2

\* The n messages of a ring of capacity c, from the oldest, in slot f, on.
Ring(f, n, c, s) == [i \in 1..n |-> s[(f + i - 1) % c]]

\* Ring metadata that stays inside an array of M's.
IsRing(f, n, c, s, M) ==
  /\ c \in Nat /\ n \in 0..c /\ f \in Nat /\ (f = 0 \/ f < c)
  /\ \A k \in 0..(c - 1) : s[k] \in M

\* The ring as a sequence: the i-th oldest message is i - 1 slots after the
\* oldest, wrapped around.
LEMMA RingSeq ==
  ASSUME NEW M, NEW f, NEW n, NEW c, NEW s, IsRing(f, n, c, s, M)
  PROVE  /\ Ring(f, n, c, s) \in Seq(M)
         /\ Len(Ring(f, n, c, s)) = n
         /\ \A i \in 1..n : Ring(f, n, c, s)[i] =
               s[IF f + i - 1 < c THEN f + i - 1 ELSE f + i - 1 - c]
<1>. USE DEF IsRing
<1>. DEFINE at(i) == IF f + i - 1 < c THEN f + i - 1 ELSE f + i - 1 - c
<1>1. ASSUME NEW i \in 1..n
      PROVE  at(i) \in 0..(c - 1) /\ (f + i - 1) % c = at(i)
  <2>1. /\ c # 0 /\ f \in 0..(c - 1) /\ i - 1 \in 0..c
        /\ f + (i - 1) = f + i - 1
    OBVIOUS
  <2>2. at(i) \in 0..(c - 1)
    BY <2>1
  <2>3. (f + (i - 1)) % c = IF f + (i - 1) < c THEN f + (i - 1) ELSE f + (i - 1) - c
    <3>. DEFINE j == i - 1
    <3>1. j \in 0..c
      BY <2>1
    <3>. HIDE DEF j
    <3>2. (f + j) % c = IF f + j < c THEN f + j ELSE f + j - c
      BY <2>1, <3>1, RingWraps
    <3>. QED BY <3>2 DEF j
  <2>. QED BY <2>1, <2>2, <2>3
<1>2. Ring(f, n, c, s) = [i \in 1..n |-> s[at(i)]]
  BY <1>1 DEF Ring
<1>3. \A i \in 1..n : s[at(i)] \in M
  BY <1>1
<1>. HIDE DEF at
<1>4. [i \in 1..n |-> s[at(i)]] \in Seq(M) /\ Len([i \in 1..n |-> s[at(i)]]) = n
  BY <1>3
<1>. QED BY <1>2, <1>4 DEF at

\* A message written behind the newest one is appended, wrap-around included.
LEMMA RingAppends ==
  ASSUME NEW M, NEW f, NEW n, NEW c, NEW s, IsRing(f, n, c, s, M), n < c,
         NEW m \in M, NEW t,
         \A k \in 0..(c - 1) : t[k] = IF k = (f + n) % c THEN m ELSE s[k]
  PROVE  Ring(f, n + 1, c, t) = Append(Ring(f, n, c, s), m)
<1>1. /\ c \in Nat /\ c # 0 /\ n \in 0..(c - 1) /\ f \in 0..(c - 1)
      /\ \A k \in 0..(c - 1) : t[k] \in M /\ s[k] \in M
      /\ IsRing(f, n + 1, c, t, M)
  BY DEF IsRing
<1>2. (f + n) % c = IF f + n < c THEN f + n ELSE f + n - c
  BY <1>1, RingWraps
<1>3. /\ Ring(f, n, c, s) \in Seq(M)
      /\ Len(Ring(f, n, c, s)) = n
      /\ \A i \in 1..n : Ring(f, n, c, s)[i] =
            s[IF f + i - 1 < c THEN f + i - 1 ELSE f + i - 1 - c]
  BY RingSeq
<1>4. /\ Ring(f, n + 1, c, t) \in Seq(M)
      /\ Len(Ring(f, n + 1, c, t)) = n + 1
      /\ \A i \in 1..(n + 1) : Ring(f, n + 1, c, t)[i] =
            t[IF f + i - 1 < c THEN f + i - 1 ELSE f + i - 1 - c]
  <2>. DEFINE j == n + 1
  <2>1. IsRing(f, j, c, t, M)
    BY <1>1
  <2>. HIDE DEF j
  <2>2. /\ Ring(f, j, c, t) \in Seq(M)
        /\ Len(Ring(f, j, c, t)) = j
        /\ \A i \in 1..j : Ring(f, j, c, t)[i] =
              t[IF f + i - 1 < c THEN f + i - 1 ELSE f + i - 1 - c]
    BY <2>1, RingSeq
  <2>. QED BY <2>2 DEF j
<1>5. ASSUME NEW i \in 1..n PROVE Ring(f, n + 1, c, t)[i] = Ring(f, n, c, s)[i]
  <2>. DEFINE k == IF f + i - 1 < c THEN f + i - 1 ELSE f + i - 1 - c
  <2>1. k \in 0..(c - 1) /\ k # (f + n) % c
    BY <1>1, <1>2
  <2>2. t[k] = s[k]
    BY <2>1
  <2>3. i \in 1..(n + 1)
    BY <1>1
  <2>. QED BY <1>3, <1>4, <2>2, <2>3
<1>6. Ring(f, n + 1, c, t)[n + 1] = m
  <2>. DEFINE k == IF f + (n + 1) - 1 < c THEN f + (n + 1) - 1
                                          ELSE f + (n + 1) - 1 - c
  <2>1. k \in 0..(c - 1) /\ k = (f + n) % c /\ n + 1 \in 1..(n + 1)
    BY <1>1, <1>2
  <2>. HIDE DEF k
  <2>2. t[k] = m
    BY <2>1
  <2>3. Ring(f, n + 1, c, t)[n + 1] = t[k]
    BY <1>4, <2>1 DEF k
  <2>. QED BY <2>2, <2>3
<1>. QED BY <1>3, <1>4, <1>5, <1>6, PushBack

\* An urgent message written before the oldest one becomes the head.
LEMMA RingPrepends ==
  ASSUME NEW M, NEW f, NEW n, NEW c, NEW s, IsRing(f, n, c, s, M), n < c,
         NEW m \in M, NEW t, NEW g, g = (f + c - 1) % c,
         \A k \in 0..(c - 1) : t[k] = IF k = g THEN m ELSE s[k]
  PROVE  Ring(g, n + 1, c, t) = <<m>> \o Ring(f, n, c, s)
<1>1. /\ c \in Nat /\ c # 0 /\ c - 1 \in 0..c /\ n \in 0..(c - 1) /\ f \in 0..(c - 1)
      /\ \A k \in 0..(c - 1) : t[k] \in M /\ s[k] \in M
  BY DEF IsRing
<1>2. g = IF f = 0 THEN c - 1 ELSE f - 1
  <2>. DEFINE j == c - 1
  <2>1. j \in 0..c /\ f + j = f + c - 1
    BY <1>1
  <2>. HIDE DEF j
  <2>2. (f + j) % c = IF f + j < c THEN f + j ELSE f + j - c
    BY <1>1, <2>1, RingWraps
  <2>. QED BY <1>1, <2>1, <2>2 DEF j
<1>3. g \in 0..(c - 1)
  BY <1>1, <1>2
<1>4. /\ Ring(f, n, c, s) \in Seq(M)
      /\ Len(Ring(f, n, c, s)) = n
      /\ \A i \in 1..n : Ring(f, n, c, s)[i] =
            s[IF f + i - 1 < c THEN f + i - 1 ELSE f + i - 1 - c]
  BY RingSeq
<1>5. /\ Ring(g, n + 1, c, t) \in Seq(M)
      /\ Len(Ring(g, n + 1, c, t)) = n + 1
      /\ \A i \in 1..(n + 1) : Ring(g, n + 1, c, t)[i] =
            t[IF g + i - 1 < c THEN g + i - 1 ELSE g + i - 1 - c]
  <2>1. IsRing(g, n + 1, c, t, M)
    BY <1>1, <1>3 DEF IsRing
  <2>. QED BY <1>1, <2>1, RingSeq
<1>6. Ring(g, n + 1, c, t)[1] = m
  BY <1>1, <1>3, <1>5
<1>7. ASSUME NEW i \in 1..n PROVE Ring(g, n + 1, c, t)[i + 1] = Ring(f, n, c, s)[i]
  <2>. DEFINE k == IF f + i - 1 < c THEN f + i - 1 ELSE f + i - 1 - c
              l == IF g + (i + 1) - 1 < c THEN g + (i + 1) - 1
                                          ELSE g + (i + 1) - 1 - c
  <2>1. k \in 0..(c - 1) /\ k = l /\ k # g /\ i + 1 \in 1..(n + 1)
    BY <1>1, <1>2
  <2>2. Ring(f, n, c, s)[i] = s[k]
    BY <1>4
  <2>3. Ring(g, n + 1, c, t)[i + 1] = t[l]
    BY <1>5, <2>1
  <2>. HIDE DEF k, l
  <2>. QED BY <2>1, <2>2, <2>3
<1>. QED BY <1>4, <1>5, <1>6, <1>7, PushFront

\* Moving the oldest index forward takes the head and leaves the tail.
LEMMA RingPops ==
  ASSUME NEW M, NEW f, NEW n, NEW c, NEW s, IsRing(f, n, c, s, M), n # 0, NEW g, g = (f + 1) % c
  PROVE  /\ Ring(f, n, c, s) # <<>>
         /\ Head(Ring(f, n, c, s)) = s[f]
         /\ Ring(g, n - 1, c, s) = Tail(Ring(f, n, c, s))
<1>1. /\ c \in Nat /\ c # 0 /\ n \in 1..c /\ f \in 0..(c - 1) /\ 1 \in 0..c
      /\ \A k \in 0..(c - 1) : s[k] \in M
  BY DEF IsRing
<1>2. g = IF f + 1 < c THEN f + 1 ELSE 0
  <2>1. (f + 1) % c = IF f + 1 < c THEN f + 1 ELSE f + 1 - c
    BY <1>1, RingWraps
  <2>. QED BY <1>1, <2>1
<1>3. /\ Ring(f, n, c, s) \in Seq(M)
      /\ Len(Ring(f, n, c, s)) = n
      /\ \A i \in 1..n : Ring(f, n, c, s)[i] =
            s[IF f + i - 1 < c THEN f + i - 1 ELSE f + i - 1 - c]
  BY RingSeq
<1>4. /\ Ring(g, n - 1, c, s) \in Seq(M)
      /\ Len(Ring(g, n - 1, c, s)) = n - 1
      /\ \A i \in 1..(n - 1) : Ring(g, n - 1, c, s)[i] =
            s[IF g + i - 1 < c THEN g + i - 1 ELSE g + i - 1 - c]
  <2>. DEFINE j == n - 1
  <2>1. IsRing(g, j, c, s, M)
    BY <1>1, <1>2 DEF IsRing
  <2>. HIDE DEF j
  <2>2. /\ Ring(g, j, c, s) \in Seq(M)
        /\ Len(Ring(g, j, c, s)) = j
        /\ \A i \in 1..j : Ring(g, j, c, s)[i] =
              s[IF g + i - 1 < c THEN g + i - 1 ELSE g + i - 1 - c]
    BY <2>1, RingSeq
  <2>. QED BY <2>2 DEF j
<1>5. Ring(f, n, c, s) # <<>>
  BY <1>3
<1>6. Head(Ring(f, n, c, s)) = s[f]
  <2>1. Ring(f, n, c, s)[1] = s[f]
    BY <1>1, <1>3
  <2>. QED BY <1>3, <1>5, <2>1
<1>7. ASSUME NEW i \in 1..(n - 1)
      PROVE  Ring(g, n - 1, c, s)[i] = Ring(f, n, c, s)[i + 1]
  <2>. DEFINE k == IF f + (i + 1) - 1 < c THEN f + (i + 1) - 1
                                          ELSE f + (i + 1) - 1 - c
              l == IF g + i - 1 < c THEN g + i - 1 ELSE g + i - 1 - c
  <2>1. k = l /\ i + 1 \in 1..n
    BY <1>1, <1>2
  <2>2. Ring(f, n, c, s)[i + 1] = s[k]
    BY <1>3, <2>1
  <2>3. Ring(g, n - 1, c, s)[i] = s[l]
    BY <1>4
  <2>. QED BY <2>1, <2>2, <2>3
<1>. QED BY <1>3, <1>4, <1>5, <1>6, <1>7, PopFront

(***************************************************************************)
(* The refinement.                                                         *)
(***************************************************************************)
Word == Message \cup {NoMessage}

\* What a queue holds is its ring, and the type invariant makes it one.
LEMMA ContentsIsRing ==
  ASSUME TypeOK, NEW q \in Queue
  PROVE  /\ Contents(q) = Ring(first[q], used[q], capacity[q], slots[q])
         /\ IsRing(first[q], used[q], capacity[q], slots[q], Word)
         /\ Len(Contents(q)) = used[q]
<1>1. Contents(q) = Ring(first[q], used[q], capacity[q], slots[q])
  BY DEF Contents, Ring
<1>2. IsRing(first[q], used[q], capacity[q], slots[q], Word)
  BY SchedulerAssumption DEF IsRing, Word, TypeOK, QueuesTyped
<1>. QED
  BY <1>1, <1>2, RingSeq

\* A step that leaves a queue's metadata and array alone leaves its contents.
LEMMA SameContents ==
  ASSUME NEW q \in Queue, first'[q] = first[q], used'[q] = used[q],
         capacity'[q] = capacity[q], slots'[q] = slots[q]
  PROVE  Contents(q)' = Contents(q)
BY DEF Contents

\* OSInitMessageQueue empties the queue.
LEMMA InitResets ==
  ASSUME TypeOK, NEW q \in Queue, NEW size \in 0..MaxCapacity,
         OSInitMessageQueue(q, size)
  PROVE  MessageQueues!Reset(q, size)
<1>1. ASSUME NEW r \in Queue
      PROVE  Contents(r)' = IF r = q THEN <<>> ELSE Contents(r)
  <2>1. CASE r = q
    BY <1>1, <2>1 DEF OSInitMessageQueue, Contents, TypeOK, QueuesTyped
  <2>2. CASE r # q
    <3>1. /\ first'[r] = first[r] /\ used'[r] = used[r]
          /\ capacity'[r] = capacity[r] /\ slots'[r] = slots[r]
      BY <2>2 DEF OSInitMessageQueue, TypeOK, QueuesTyped
    <3>. QED
      BY <2>2, <3>1, SameContents
  <2>. QED
    BY <2>1, <2>2
<1>. QED
  BY <1>1 DEF OSInitMessageQueue, MessageQueues!Reset

\* enqueue_guest_message adds the message at the back, or at the front for high
\* priority, and at no other end.
LEMMA SendSends ==
  ASSUME TypeOK, NEW q \in Queue, NEW m \in Message, NEW hp \in BOOLEAN,
         OSSendMessage(q, m, hp)
  PROVE  MessageQueues!Send(q, m, hp)
<1>1. /\ used[q] < capacity[q]
      /\ IsRing(first[q], used[q], capacity[q], slots[q], Word)
      /\ Contents(q) = Ring(first[q], used[q], capacity[q], slots[q])
      /\ Len(Contents(q)) = used[q]
      /\ m \in Word
  BY ContentsIsRing DEF OSSendMessage, Word
<1>2. /\ used'[q] = used[q] + 1
      /\ capacity' = capacity /\ delivered' = delivered /\ sent' = <<q, m, hp>>
      /\ \A k \in 0..(capacity[q] - 1) :
            slots'[q][k] = IF k = SendSlot(q, hp) THEN m ELSE slots[q][k]
      /\ first'[q] = IF hp THEN SendSlot(q, hp) ELSE first[q]
      /\ \A r \in Queue \ {q} :
            /\ first'[r] = first[r] /\ used'[r] = used[r] /\ slots'[r] = slots[r]
  BY SchedulerAssumption DEF OSSendMessage, TypeOK, QueuesTyped
<1>3. Contents(q)' = Ring(first'[q], used'[q], capacity[q], slots'[q])
  BY <1>2 DEF Contents, Ring
<1>4. Contents(q)' = IF hp THEN <<m>> \o Contents(q) ELSE Append(Contents(q), m)
  <2>1. CASE hp
    <3>1. first'[q] = (first[q] + capacity[q] - 1) % capacity[q]
      BY <1>2, <2>1 DEF SendSlot
    <3>2. \A k \in 0..(capacity[q] - 1) :
            slots'[q][k] = IF k = first'[q] THEN m ELSE slots[q][k]
      BY <1>2, <2>1
    <3>3. Ring(first'[q], used[q] + 1, capacity[q], slots'[q]) =
            <<m>> \o Ring(first[q], used[q], capacity[q], slots[q])
      BY <1>1, <3>1, <3>2, RingPrepends
    <3>. QED
      BY <1>1, <1>2, <1>3, <2>1, <3>3
  <2>2. CASE ~hp
    <3>1. \A k \in 0..(capacity[q] - 1) :
            slots'[q][k] = IF k = (first[q] + used[q]) % capacity[q]
                           THEN m ELSE slots[q][k]
      BY <1>2, <2>2 DEF SendSlot
    <3>2. Ring(first[q], used[q] + 1, capacity[q], slots'[q]) =
            Append(Ring(first[q], used[q], capacity[q], slots[q]), m)
      BY <1>1, <3>1, RingAppends
    <3>. QED
      BY <1>1, <1>2, <1>3, <2>2, <3>2
  <2>. QED
    BY <2>1, <2>2
<1>5. \A r \in Queue \ {q} : Contents(r)' = Contents(r)
  BY <1>2, SameContents
<1>. QED
  BY <1>1, <1>2, <1>4, <1>5 DEF MessageQueues!Send

\* dequeue_guest_message hands out the oldest message.
LEMMA ReceiveReceives ==
  ASSUME TypeOK, NEW q \in Queue, OSReceiveMessage(q)
  PROVE  MessageQueues!Receive(q)
<1>1. /\ used[q] # 0
      /\ IsRing(first[q], used[q], capacity[q], slots[q], Word)
      /\ Contents(q) = Ring(first[q], used[q], capacity[q], slots[q])
  BY ContentsIsRing DEF OSReceiveMessage
<1>2. /\ used'[q] = used[q] - 1
      /\ first'[q] = (first[q] + 1) % capacity[q]
      /\ capacity' = capacity /\ slots' = slots /\ sent' = sent
      /\ delivered' = slots[q][first[q]]
      /\ \A r \in Queue \ {q} : first'[r] = first[r] /\ used'[r] = used[r]
  BY DEF OSReceiveMessage, TypeOK, QueuesTyped
<1>3. /\ Contents(q) # <<>>
      /\ Head(Contents(q)) = slots[q][first[q]]
      /\ Ring(first'[q], used[q] - 1, capacity[q], slots[q]) = Tail(Contents(q))
  BY <1>1, <1>2, RingPops
<1>4. Contents(q)' = Tail(Contents(q))
  BY <1>2, <1>3 DEF Contents, Ring
<1>5. \A r \in Queue \ {q} : Contents(r)' = Contents(r)
  BY <1>2, SameContents
<1>. QED
  BY <1>2, <1>3, <1>4, <1>5 DEF MessageQueues!Receive

\* Whatever the threads do, each queue is the bounded sequence a guest expects: a
\* send adds exactly its message, at the front when it was given high priority and
\* at the back otherwise, and a receive takes the front one.
THEOREM RingsImplementQueues == Spec => ImplementsMessageQueues
<1>1. Init => MessageQueues!Init
  BY DEF Init, Contents, MessageQueues!Init
<1>2. TypeOK /\ [Next]_vars => [MessageQueues!Next]_(MessageQueues!vars)
  <2>. SUFFICES ASSUME TypeOK, [Next]_vars
                PROVE  MessageQueues!Next \/ UNCHANGED MessageQueues!vars
    OBVIOUS
  <2>1. CASE UNCHANGED queueVars
    BY <2>1 DEF queueVars, MessageQueues!vars, Contents
  <2>2. ASSUME NEW q \in Queue, NEW size \in 0..MaxCapacity,
               OSInitMessageQueue(q, size)
        PROVE  MessageQueues!Next
    BY <2>2, InitResets DEF MessageQueues!Next
  <2>3. ASSUME NEW q \in Queue, NEW m \in Message, NEW hp \in BOOLEAN,
               OSSendMessage(q, m, hp)
        PROVE  MessageQueues!Next
    BY <2>3, SendSends DEF MessageQueues!Next
  <2>4. ASSUME NEW q \in Queue, OSReceiveMessage(q)
        PROVE  MessageQueues!Next
    BY <2>4, ReceiveReceives DEF MessageQueues!Next
  <2>. QED
    BY <2>1, <2>2, <2>3, <2>4
    DEF Next, OSCreateThread, OSResumeThread, OSSetThreadAffinity, OSYieldThread,
        OSSleepTicks, OSSendMessageFull, OSReceiveMessageEmpty, OSExitThread,
        Halted, vars
<1>. QED
  BY <1>1, <1>2, TypeCorrect, PTL
  DEF Spec, ImplementsMessageQueues, MessageQueues!Spec

----------------------------------------------------------------------------
(* The guest mutexes beside the scheduler, for any number of threads and mutexes and any *)
(* recursion limit.                                                                      *)

\* The scheduler stays well-typed under the lock calls, which touch none of its
\* variables but the reason a run ends with.
LEMMA SchedulerTypedUnderLocks == LocksSpec => []TypeOK
<1>1. LocksInit => TypeOK
  BY InitType DEF LocksInit
<1>2. TypeOK /\ [LocksNext]_<<vars, lockVars>> => TypeOK'
  <2>. SUFFICES ASSUME TypeOK, [LocksNext]_<<vars, lockVars>> PROVE TypeOK'
    OBVIOUS
  <2>1. CASE [Next]_vars
    BY <2>1, TypeStep
  <2>2. CASE /\ UNCHANGED <<threadVars, clockVars, queueVars>>
             /\ stopped' \in Reasons
    BY <2>2
    DEF TypeOK, ThreadsTyped, ClocksTyped, QueuesTyped, threadVars, clockVars,
        queueVars, Registered
  <2>3. stopped \in Reasons
    BY DEF TypeOK
  <2>. QED
    BY <2>1, <2>2, <2>3
    DEF LocksNext, OSInitMutex, OSLockMutex, OSLockMutexContended,
        OSLockMutexInvalid, OSUnlockMutex, OSUnlockMutexInvalid, NoOpAcquire,
        NoOpRelease, Stop, Reasons
<1>. QED
  BY <1>1, <1>2, PTL DEF LocksSpec

LocksInv == LocksTypeOK /\ OwnerHolds

\* One call keeps the mutexes in guest memory and the threads' beliefs together.
LEMMA LocksStep ==
  ASSUME TypeOK, LocksInv, [LocksNext]_<<vars, lockVars>>
  PROVE  LocksInv'
<1>. USE DEF LocksInv
<1>0. /\ current \in Thread /\ NoOwner \notin Thread
      /\ CountMax \in Nat /\ 0 \in 0..CountMax
  BY RegisteredThreads, LocksAssumption DEF TypeOK, ThreadsTyped
<1>1. ASSUME NEW m \in Mutex, OSInitMutex(m)
      PROVE  LocksInv'
  <2>1. LocksTypeOK'
    BY <1>0, <1>1 DEF OSInitMutex, LocksTypeOK
  <2>2. OwnerHolds'
    BY <1>0, <1>1 DEF OSInitMutex, LocksTypeOK, OwnerHolds
  <2>. QED
    BY <2>1, <2>2
<1>2. ASSUME NEW m \in Mutex, OSLockMutex(m)
      PROVE  LocksInv'
  <2>1. /\ count[m] \in 0..(CountMax - 1)
        /\ holds[m][current] = count[m]
        /\ \A t \in Thread : t # current => holds[m][t] = 0
    BY <1>0, <1>2, LocksAssumption DEF OSLockMutex, LocksTypeOK, OwnerHolds
  <2>2. LocksTypeOK'
    <3>1. owner' \in [Mutex -> Thread \cup {NoOwner}] /\ tagged' \subseteq Mutex
      BY <1>0, <1>2 DEF OSLockMutex, LocksTypeOK
    <3>2. count' \in [Mutex -> 0..CountMax]
      BY <1>0, <1>2, <2>1 DEF OSLockMutex, LocksTypeOK
    <3>3. holds' \in [Mutex -> [Thread -> 0..CountMax]]
      BY <1>0, <1>2, <2>1 DEF OSLockMutex, LocksTypeOK
    <3>. QED
      BY <1>2, <3>1, <3>2, <3>3 DEF OSLockMutex, LocksTypeOK
  <2>3. ASSUME NEW n \in Mutex
        PROVE  /\ count'[n] = 0 <=> owner'[n] = NoOwner
               /\ \A t \in Thread :
                     holds'[n][t] = IF t = owner'[n] THEN count'[n] ELSE 0
    <3>1. CASE n = m
      BY <1>0, <1>2, <2>1, <3>1 DEF OSLockMutex, LocksTypeOK, OwnerHolds
    <3>2. CASE n # m
      BY <1>2, <3>2 DEF OSLockMutex, LocksTypeOK, OwnerHolds
    <3>. QED
      BY <3>1, <3>2
  <2>. QED
    BY <2>2, <2>3 DEF OwnerHolds
<1>3. ASSUME NEW m \in Mutex, OSUnlockMutex(m)
      PROVE  LocksInv'
  <2>1. /\ count[m] \in 1..CountMax
        /\ owner[m] = current
        /\ holds[m][current] = count[m]
        /\ \A t \in Thread : t # current => holds[m][t] = 0
    BY <1>0, <1>3, LocksAssumption DEF OSUnlockMutex, LocksTypeOK, OwnerHolds
  <2>2. LocksTypeOK'
    <3>1. owner' \in [Mutex -> Thread \cup {NoOwner}] /\ tagged' \subseteq Mutex
      BY <1>0, <1>3 DEF OSUnlockMutex, LocksTypeOK
    <3>2. count' \in [Mutex -> 0..CountMax]
      BY <1>0, <1>3, <2>1 DEF OSUnlockMutex, LocksTypeOK
    <3>3. holds' \in [Mutex -> [Thread -> 0..CountMax]]
      BY <1>0, <1>3, <2>1 DEF OSUnlockMutex, LocksTypeOK
    <3>. QED
      BY <1>3, <3>1, <3>2, <3>3 DEF OSUnlockMutex, LocksTypeOK
  <2>3. ASSUME NEW n \in Mutex
        PROVE  /\ count'[n] = 0 <=> owner'[n] = NoOwner
               /\ \A t \in Thread :
                     holds'[n][t] = IF t = owner'[n] THEN count'[n] ELSE 0
    <3>1. CASE n = m
      BY <1>0, <1>3, <2>1, <3>1 DEF OSUnlockMutex, LocksTypeOK, OwnerHolds
    <3>2. CASE n # m
      BY <1>3, <3>2 DEF OSUnlockMutex, LocksTypeOK, OwnerHolds
    <3>. QED
      BY <3>1, <3>2
  <2>. QED
    BY <2>2, <2>3 DEF OwnerHolds
<1>4. ASSUME NEW l \in NoOpLock, NoOpAcquire(l) \/ NoOpRelease(l)
      PROVE  LocksInv'
  <2>1. inside' \in [NoOpLock -> SUBSET Thread]
    <3>1. inside \in [NoOpLock -> SUBSET Thread]
      BY DEF LocksTypeOK
    <3>2. PICK S \in SUBSET Thread : inside' = [inside EXCEPT ![l] = S]
      <4>1. inside[l] \cup {current} \in SUBSET Thread /\ inside[l] \ {current} \in SUBSET Thread
        BY <1>0, <3>1
      <4>. QED
        BY <1>4, <4>1 DEF NoOpAcquire, NoOpRelease
    <3>. QED
      BY <3>1, <3>2
  <2>2. UNCHANGED <<tagged, owner, count, holds>>
    BY <1>4 DEF NoOpAcquire, NoOpRelease
  <2>. QED
    BY <2>1, <2>2 DEF LocksTypeOK, OwnerHolds
<1>5. CASE UNCHANGED lockVars
  BY <1>5 DEF lockVars, LocksTypeOK, OwnerHolds
<1>. QED
  BY <1>1, <1>2, <1>3, <1>4, <1>5
  DEF LocksNext, OSLockMutexContended, OSLockMutexInvalid, OSUnlockMutexInvalid, Stop

\* An OSMutex is held by its recorded owner alone, as often as its count says,
\* whenever and wherever the core changes hands.
THEOREM MutexesExclude == LocksSpec => []OwnerHolds
<1>1. LocksInit => LocksInv
  BY LocksAssumption DEF LocksInit, LocksInv, LocksTypeOK, OwnerHolds
<1>2. TypeOK /\ LocksInv /\ [LocksNext]_<<vars, lockVars>> => LocksInv'
  BY LocksStep
<1>3. LocksInv => OwnerHolds
  BY DEF LocksInv
<1>. QED
  BY <1>1, <1>2, <1>3, SchedulerTypedUnderLocks, PTL DEF LocksSpec
=============================================================================
