----------------------------- MODULE GuestLocks -----------------------------
(***************************************************************************)
(* The locks guest threads take, running under the scheduler of            *)
(* CafeScheduler: OSMutex (guest_mutex.cpp, also behind __ghs_mtx_lock),   *)
(* and the locks whose handlers do nothing: OSFastMutex, __ghsLock and the *)
(* uninterruptible spin lock (cafe_os_hle.cpp).                            *)
(*                                                                         *)
(* Every lock call is a step of the current thread; the core changes hands *)
(* between two of them in a yield, a sleep or a receive, critical sections *)
(* included.  holds and inside say what the guest threads believe: which   *)
(* locks they have taken and not given back.                               *)
(***************************************************************************)
EXTENDS CafeScheduler

CONSTANTS
  Mutex,     \* the OSMutex addresses the guest uses
  NoOwner,   \* the null thread address of an unowned mutex
  CountMax,  \* numeric_limits<uint32_t>::max(), the deepest recursion
  NoOpLock   \* the OSFastMutex, __ghsLock and spin locks the guest uses

ASSUME LocksAssumption ==
  /\ NoOwner \notin Thread
  /\ CountMax \in Nat \ {0}

VARIABLES
  tagged,    \* the mutexes whose tag OSInitMutex has written
  owner,     \* OSMutex owner field
  count,     \* OSMutex recursion count
  holds,     \* how often each thread has locked and not unlocked each mutex
  inside     \* the threads that are between Lock and Unlock of a no-op lock

lockVars == <<tagged, owner, count, holds, inside>>

LocksInit ==
  /\ Init
  /\ tagged = {}
  /\ owner = [m \in Mutex |-> NoOwner]
  /\ count = [m \in Mutex |-> 0]
  /\ holds = [m \in Mutex |-> [t \in Thread |-> 0]]
  /\ inside = [l \in NoOpLock |-> {}]

\* A run that ends in an HLE error changes nothing else.
Stop(reason) ==
  /\ stopped' = reason
  /\ UNCHANGED <<threadVars, clockVars, queueVars, lockVars>>

\* initialize_guest_os_mutex zero-fills the object, whoever owned it.
OSInitMutex(m) ==
  /\ InGuestCode
  /\ tagged' = tagged \cup {m}
  /\ owner' = [owner EXCEPT ![m] = NoOwner]
  /\ count' = [count EXCEPT ![m] = 0]
  /\ holds' = [holds EXCEPT ![m] = [t \in Thread |-> 0]]
  /\ UNCHANGED <<inside, threadVars, clockVars, queueVars, stopped>>

\* lock_guest_os_mutex: the first or a recursive lock of OSLockMutex,
\* OSTryLockMutex or __ghs_mtx_lock.  OSTryLockMutex returns FALSE, and changes
\* nothing, when another thread owns the mutex.
OSLockMutex(m) ==
  /\ InGuestCode
  /\ m \in tagged
  /\ \/ owner[m] = NoOwner /\ count[m] = 0
     \/ owner[m] = current /\ count[m] \in 1..(CountMax - 1)
  /\ owner' = [owner EXCEPT ![m] = current]
  /\ count' = [count EXCEPT ![m] = @ + 1]
  /\ holds' = [holds EXCEPT ![m][current] = @ + 1]
  /\ UNCHANGED <<tagged, inside, threadVars, clockVars, queueVars, stopped>>

\* A contended OSLockMutex does not wait.
OSLockMutexContended(m) ==
  /\ InGuestCode
  /\ m \in tagged
  /\ owner[m] \notin {NoOwner, current}
  /\ Stop("contended mutex")

\* The errors of lock_guest_os_mutex about the mutex itself.
OSLockMutexInvalid(m) ==
  /\ InGuestCode
  /\ \/ m \notin tagged
     \/ owner[m] = NoOwner /\ count[m] # 0
     \/ owner[m] = current /\ count[m] \in {0, CountMax}
  /\ Stop("mutex misuse")

\* Mutation: the caller need not own the mutex it unlocks.
UnlockByAnyone(m) ==
  /\ InGuestCode
  /\ m \in tagged
  /\ count[m] # 0
  /\ owner' = [owner EXCEPT ![m] = IF count[m] = 1 THEN NoOwner ELSE @]
  /\ count' = [count EXCEPT ![m] = @ - 1]
  /\ UNCHANGED <<tagged, holds, inside, threadVars, clockVars, queueVars, stopped>>

OSUnlockMutex(m) ==
  /\ InGuestCode
  /\ m \in tagged
  /\ owner[m] = current /\ count[m] # 0
  /\ owner' = [owner EXCEPT ![m] = IF count[m] = 1 THEN NoOwner ELSE @]
  /\ count' = [count EXCEPT ![m] = @ - 1]
  /\ holds' = [holds EXCEPT ![m][current] = @ - 1]
  /\ UNCHANGED <<tagged, inside, threadVars, clockVars, queueVars, stopped>>

OSUnlockMutexInvalid(m) ==
  /\ InGuestCode
  /\ m \notin tagged \/ owner[m] # current \/ count[m] = 0
  /\ Stop("mutex misuse")

\* OSFastMutex_Lock, OSFastMutex_TryLock (always TRUE), __ghsLock and
\* OSUninterruptibleSpinLock_Acquire admit every caller.
NoOpAcquire(l) ==
  /\ InGuestCode
  /\ inside' = [inside EXCEPT ![l] = @ \cup {current}]
  /\ UNCHANGED <<tagged, owner, count, holds, threadVars, clockVars, queueVars,
                 stopped>>

NoOpRelease(l) ==
  /\ InGuestCode
  /\ inside' = [inside EXCEPT ![l] = @ \ {current}]
  /\ UNCHANGED <<tagged, owner, count, holds, threadVars, clockVars, queueVars,
                 stopped>>

LocksNext ==
  \/ Next /\ UNCHANGED lockVars
  \/ \E m \in Mutex : \/ OSInitMutex(m)
                      \/ OSLockMutex(m)
                      \/ OSLockMutexContended(m)
                      \/ OSLockMutexInvalid(m)
                      \/ OSUnlockMutex(m)
                      \/ OSUnlockMutexInvalid(m)
  \/ \E l \in NoOpLock : NoOpAcquire(l) \/ NoOpRelease(l)

LocksSpec == LocksInit /\ [][LocksNext]_<<vars, lockVars>>

----------------------------------------------------------------------------
\* Type invariant of the locks.
LocksTypeOK ==
  /\ tagged \subseteq Mutex
  /\ owner \in [Mutex -> Thread \cup {NoOwner}]
  /\ count \in [Mutex -> 0..CountMax]
  /\ holds \in [Mutex -> [Thread -> 0..CountMax]]
  /\ inside \in [NoOpLock -> SUBSET Thread]

\* An OSMutex excludes every thread but its owner, whatever happens to the core
\* while it is held: each thread holds the mutex exactly as often as the owner
\* and recursion count in guest memory say, so two threads never hold it at
\* once, and the unlock that matches a thread's first lock frees it.
OwnerHolds ==
  \A m \in Mutex :
    /\ count[m] = 0 <=> owner[m] = NoOwner
    /\ \A t \in Thread : holds[m][t] = IF t = owner[m] THEN count[m] ELSE 0
=============================================================================
