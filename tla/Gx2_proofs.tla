------------------------------ MODULE Gx2_proofs ------------------------------
(***************************************************************************)
(* What of Gx2 holds for every scenario a title may follow, whatever it     *)
(* calls and for however long: the pacing of GX2WaitForVsync against its    *)
(* deadline, the scan-out captured after a chunk, a surface whose creation  *)
(* fails, the mirrors of the registers against the replayed stream, and the *)
(* levels of a surface.                                                     *)
(***************************************************************************)
EXTENDS Gx2, SequenceTheorems, FiniteSetTheorems, WellFoundedInduction, TLAPS

----------------------------------------------------------------------------
(* The command queue.                                                       *)

IsSequence(p) == \E S : p \in Seq(S)
IsSwap(command) == command.type = "scan_buffer_swap"
\* The last swap queued is that of the latest flip.
LastSwapIs(p, flips) ==
  \A n \in 1..Len(p) : IsSwap(p[n]) /\ (\A m \in n + 1..Len(p) : ~IsSwap(p[m]))
                       => p[n].value = flips
SwapFree(q) == \A n \in 1..Len(q) : ~IsSwap(q[n])

\* Two sequences have elements in common set, and joined keep their elements.
LEMMA Joined ==
  ASSUME NEW p, NEW q, IsSequence(p), IsSequence(q)
  PROVE  /\ IsSequence(p \o q)
         /\ Len(p) \in Nat /\ Len(q) \in Nat /\ Len(p \o q) = Len(p) + Len(q)
         /\ \A n \in 1..Len(p) + Len(q) :
              (p \o q)[n] = IF n <= Len(p) THEN p[n] ELSE q[n - Len(p)]
<1>1. PICK S : p \in Seq(S)
  BY DEF IsSequence
<1>2. PICK T : q \in Seq(T)
  BY DEF IsSequence
<1>3. p \in Seq(S \cup T) /\ q \in Seq(S \cup T)
  BY <1>1, <1>2, SeqMonotonic
<1>. QED BY <1>3, ConcatProperties, LenProperties DEF IsSequence

LEMMA Alone ==
  ASSUME NEW c
  PROVE  IsSequence(<<c>>) /\ Len(<<c>>) = 1 /\ <<c>>[1] = c
<1>1. <<c>> \in Seq({c}) /\ Len(<<c>>) = 1 /\ <<c>>[1] = c
  OBVIOUS
<1>2. IsSequence(<<c>>)
  BY <1>1, Zenon DEF IsSequence
<1>. QED BY <1>1, <1>2, Zenon

LEMMA AppendJoins ==
  ASSUME NEW p, NEW c, IsSequence(p)
  PROVE  Append(p, c) = p \o <<c>>
<1>1. PICK S : p \in Seq(S)
  BY DEF IsSequence
<1>2. p \in Seq(S \cup {c}) /\ c \in S \cup {c}
  BY <1>1, SeqMonotonic
<1>. QED BY <1>2, AppendIsConcat

\* Commands that are not swaps leave the last swap what it was.
LEMMA QuietCommands ==
  ASSUME NEW p, NEW q, NEW flips, IsSequence(p), IsSequence(q),
         LastSwapIs(p, flips), SwapFree(q)
  PROVE  IsSequence(p \o q) /\ LastSwapIs(p \o q, flips)
<1>1. /\ IsSequence(p \o q)
      /\ Len(p) \in Nat /\ Len(q) \in Nat /\ Len(p \o q) = Len(p) + Len(q)
      /\ \A n \in 1..Len(p) + Len(q) :
           (p \o q)[n] = IF n <= Len(p) THEN p[n] ELSE q[n - Len(p)]
  BY Joined
<1>2. ASSUME NEW n \in 1..Len(p) + Len(q), IsSwap((p \o q)[n]),
             \A m \in n + 1..Len(p) + Len(q) : ~IsSwap((p \o q)[m])
      PROVE  (p \o q)[n].value = flips
  <2>1. n <= Len(p)
    <3>. SUFFICES ASSUME ~(n <= Len(p)) PROVE FALSE
      OBVIOUS
    <3>1. n - Len(p) \in 1..Len(q) /\ (p \o q)[n] = q[n - Len(p)]
      BY <1>1
    <3>. QED BY <1>2, <3>1 DEF SwapFree
  <2>2. n \in 1..Len(p) /\ (p \o q)[n] = p[n]
    BY <1>1, <2>1
  <2>3. \A m \in n + 1..Len(p) : m \in n + 1..Len(p) + Len(q) /\ (p \o q)[m] = p[m]
    BY <1>1
  <2>. QED BY <1>2, <2>2, <2>3 DEF LastSwapIs
<1>. QED BY <1>1, <1>2 DEF LastSwapIs

LEMMA QuietCommand ==
  ASSUME NEW p, NEW c, NEW flips, IsSequence(p), LastSwapIs(p, flips), ~IsSwap(c)
  PROVE  IsSequence(Append(p, c)) /\ LastSwapIs(Append(p, c), flips)
<1>1. IsSequence(<<c>>) /\ Len(<<c>>) = 1 /\ <<c>>[1] = c
  BY Alone, Zenon
<1>2. \A n \in 1..Len(<<c>>) : <<c>>[n] = c
  <2>. SUFFICES ASSUME NEW n \in 1..1 PROVE <<c>>[n] = c
    BY <1>1, Zenon
  <2>. QED OBVIOUS
<1>3. SwapFree(<<c>>)
  BY <1>2, Zenon DEF SwapFree
<1>4. Append(p, c) = p \o <<c>>
  BY AppendJoins
<1>. QED BY <1>1, <1>3, <1>4, QuietCommands, Zenon

\* A swap is the last of the queue it is put on.
LEMMA SwapCommand ==
  ASSUME NEW p, NEW c, NEW flips, IsSequence(p), IsSwap(c), c.value = flips
  PROVE  IsSequence(Append(p, c)) /\ LastSwapIs(Append(p, c), flips)
<1>1. IsSequence(<<c>>) /\ Len(<<c>>) = 1 /\ <<c>>[1] = c
  BY Alone
<1>2. /\ IsSequence(p \o <<c>>)
      /\ Len(p) \in Nat /\ Len(p \o <<c>>) = Len(p) + 1
      /\ \A n \in 1..Len(p) + 1 : n > Len(p) => (p \o <<c>>)[n] = <<c>>[n - Len(p)]
  BY <1>1, Joined
<1>3. (p \o <<c>>)[Len(p) + 1] = c
  BY <1>1, <1>2
<1>4. LastSwapIs(p \o <<c>>, flips)
  <2>. SUFFICES ASSUME NEW n \in 1..Len(p) + 1,
                       \A m \in n + 1..Len(p) + 1 : ~IsSwap((p \o <<c>>)[m])
                PROVE  (p \o <<c>>)[n].value = flips
    BY <1>2 DEF LastSwapIs
  <2>1. n = Len(p) + 1
    <3>. SUFFICES ASSUME n # Len(p) + 1 PROVE FALSE
      OBVIOUS
    <3>1. Len(p) + 1 \in n + 1..Len(p) + 1
      BY <1>2
    <3>. QED BY <1>3, <3>1
  <2>. QED BY <1>3, <2>1
<1>. QED BY <1>2, <1>4, AppendJoins

\* A set of positions has a last one.
LEMMA LastPosition ==
  ASSUME NEW L \in Nat, NEW T \in SUBSET (1..L), T # {}
  PROVE  Max(T) \in T /\ \A y \in T : Max(T) >= y
<1>. DEFINE Above == {n..L : n \in T}
            Finite == FiniteSubsetsOf(Nat)
<1>1. \A n \in 1..L : n..L \subseteq Nat /\ IsFiniteSet(n..L)
  BY FS_Interval
<1>2. Above \subseteq Finite /\ Above # {}
  BY <1>1 DEF FiniteSubsetsOf
<1>3. IsWellFoundedOn(StrictSubsetOrdering(Nat), Finite)
  BY FS_StrictSubsetOrderingWellFounded
<1>. HIDE DEF Finite
<1>4. PICK I \in Above : \A J \in Above : <<J, I>> \notin StrictSubsetOrdering(Nat)
  BY <1>2, <1>3, WFMin
<1>5. PICK x \in T : I = x..L
  BY <1>4
<1>6. ASSUME NEW y \in T PROVE x >= y
  <2>. SUFFICES ASSUME x < y PROVE FALSE
    OBVIOUS
  <2>1. /\ y..L \subseteq x..L /\ x \in x..L /\ x \notin y..L
        /\ y..L \in SUBSET Nat /\ x..L \in SUBSET Nat
    OBVIOUS
  <2>2. <<y..L, x..L>> \in StrictSubsetOrdering(Nat)
    BY <2>1 DEF StrictSubsetOrdering
  <2>. QED BY <1>4, <1>5, <2>2
<1>. QED BY <1>5, <1>6 DEF Max

----------------------------------------------------------------------------
(* The invariant.  It is stated of a state's records, so that an action's   *)
(* effect on a field is all that has to be known of it.                     *)

StateFields == DOMAIN NotInitialized
StreamOf(g) ==
  /\ DOMAIN g = StateFields /\ g.flips \in Nat
  /\ IsSequence(g.pending) /\ LastSwapIs(g.pending, g.flips)
Dimensions == {<<1280, 720>>, <<1920, 1080>>}
TvOf(g) ==
  g.tv = Null \/ \E d \in Dimensions, count \in 1..3 :
                  g.tv = [width |-> d[1], height |-> d[2], buffering_mode |-> count,
                          size |-> d[1] * d[2] * 4 * count]
\* The next deadline is a whole number of periods from the first and, seen from the end of
\* the last wait, no further off than one.
OnBeat(t) == \E k \in Int : t = k * Period
PaceOf(g, c) ==
  /\ c.now \in 0..Period - 1
  /\ g.deadline = Unset \/ (g.deadline \in Int /\ g.deadline <= Period /\ OnBeat(c.now + g.deadline))
  /\ g.waited = Unset \/ (g.waited \in 1..Period /\ c.landed = 0)
GuestFields == DOMAIN NewGuest
SurfaceOf(g) ==
  DOMAIN g = GuestFields /\ g.surface = [field \in DOMAIN g.surface |-> g.surface[field]]
CallOf(c) == c.n \in Nat

Gx2Inv == StreamOf(gx2) /\ TvOf(gx2) /\ PaceOf(gx2, clock) /\ SurfaceOf(guest) /\ CallOf(call)

\* The state after commands were queued: nothing else of it that the invariant reads has
\* changed.
Same(g, h) == DOMAIN h = DOMAIN g /\ h.flips = g.flips /\ h.tv = g.tv /\ h.tv_enabled = g.tv_enabled
              /\ h.deadline = g.deadline /\ h.waited = g.waited
Extended(g, h) == Same(g, h) /\ StreamOf(h)

LEMMA AppendExtends ==
  ASSUME NEW g, NEW c, NEW b, StreamOf(g), c.type # "scan_buffer_swap"
  PROVE  Extended(g, [g EXCEPT !.pending = Append(@, c), !.bound = b])
<1>. DEFINE h == [g EXCEPT !.pending = Append(@, c), !.bound = b]
<1>1. Same(g, h) /\ h.pending = Append(g.pending, c)
  BY DEF StreamOf, StateFields, NotInitialized, Same
<1>2. IsSequence(h.pending) /\ LastSwapIs(h.pending, g.flips)
  BY <1>1, QuietCommand DEF StreamOf, IsSwap
<1>. QED BY <1>1, <1>2 DEF StreamOf, Same, Extended

LEMMA WritesExtend ==
  ASSUME NEW g, NEW c, NEW m, StreamOf(g), c.type # "scan_buffer_swap"
  PROVE  Extended(g, [g EXCEPT !.mirrors = m, !.pending = Append(@, c)])
<1>. DEFINE h == [g EXCEPT !.mirrors = m, !.pending = Append(@, c)]
<1>1. Same(g, h) /\ h.pending = Append(g.pending, c)
  BY DEF StreamOf, StateFields, NotInitialized, Same
<1>2. IsSequence(h.pending) /\ LastSwapIs(h.pending, g.flips)
  BY <1>1, QuietCommand DEF StreamOf, IsSwap
<1>. QED BY <1>1, <1>2 DEF StreamOf, Same, Extended

LEMMA QueueExtends ==
  ASSUME NEW g, NEW q, StreamOf(g), IsSequence(q), SwapFree(q), NEW s
  PROVE  /\ Extended(g, [g EXCEPT !.pending = @ \o q])
         /\ Extended(g, [g EXCEPT !.pending = @ \o q, !.shadowing = s])
<1>1. IsSequence(g.pending \o q) /\ LastSwapIs(g.pending \o q, g.flips)
  BY QuietCommands DEF StreamOf
<1>2. ASSUME NEW h, h = [g EXCEPT !.pending = @ \o q] \/ h = [g EXCEPT !.pending = @ \o q, !.shadowing = s]
      PROVE  Extended(g, h)
  <2>1. Same(g, h) /\ h.pending = g.pending \o q
    BY <1>2 DEF StreamOf, StateFields, NotInitialized, Same
  <2>. QED BY <1>1, <2>1 DEF StreamOf, Same, Extended
<1>. QED BY <1>2

----------------------------------------------------------------------------
(* GX2WaitForVsync.                                                         *)

LEMMA Division ==
  ASSUME NEW x \in Int, NEW P \in Nat \ {0}
  PROVE  x \div P \in Int /\ x % P \in 0..P - 1 /\ x = P * (x \div P) + (x % P)
OBVIOUS

LEMMA Multiples ==
  ASSUME NEW j \in Int, NEW k \in Int, NEW P \in Int
  PROVE  /\ (j + k) * P = j * P + k * P /\ (j - k) * P = j * P - k * P
         /\ j * P = P * j /\ 1 * P = P /\ 0 * P = 0
OBVIOUS

LEMMA BeatRemainder ==
  ASSUME NEW t, OnBeat(t)
  PROVE  t % Period = 0
<1>1. PICK k \in Int : t = k * Period
  BY DEF OnBeat
<1>2. Period \in Nat \ {0} /\ t \in Int
  BY <1>1, PeriodAssumption
<1>3. t \div Period \in Int /\ t % Period \in 0..Period - 1 /\ t = Period * (t \div Period) + (t % Period)
  BY <1>2, Division
<1>. DEFINE q == t \div Period
<1>4. (k - q) * Period = t % Period
  <2>. HIDE DEF q
  <2>. QED BY <1>1, <1>2, <1>3, Multiples DEF q
<1>5. k - q = 0
  <2>1. k - q \in Int
    BY <1>1, <1>3
  <2>. DEFINE e == k - q
  <2>2. e \in Int /\ e * Period \in 0..Period - 1
    BY <1>3, <1>4, <2>1
  <2>. HIDE DEF e
  <2>3. e < 1
    <3>. SUFFICES ASSUME e >= 1 PROVE FALSE
      BY <2>2
    <3>1. (e - 1) * Period >= 0 /\ (e - 1) * Period = e * Period - 1 * Period
      BY <1>2, <2>2, Multiples
    <3>. QED BY <1>2, <2>2, <3>1
  <2>4. e > -1
    <3>. SUFFICES ASSUME e <= -1 PROVE FALSE
      BY <2>2
    <3>1. (e + 1) * Period <= 0 /\ (e + 1) * Period = e * Period + 1 * Period
      BY <1>2, <2>2, Multiples
    <3>. QED BY <1>2, <2>2, <3>1
  <2>. QED BY <2>2, <2>3, <2>4 DEF e
<1>. QED BY <1>1, <1>2, <1>3, <1>4, <1>5

LEMMA BeatSum ==
  ASSUME NEW s, NEW t, OnBeat(s), OnBeat(t)
  PROVE  OnBeat(s + t) /\ OnBeat(s - t) /\ s \in Int
<1>1. PICK j \in Int : s = j * Period
  BY DEF OnBeat
<1>2. PICK k \in Int : t = k * Period
  BY DEF OnBeat
<1>3. Period \in Int
  BY PeriodAssumption
<1>4. j + k \in Int /\ s + t = (j + k) * Period /\ j - k \in Int /\ s - t = (j - k) * Period
  BY <1>1, <1>2, <1>3, Multiples
<1>5. s \in Int
  BY <1>1, <1>3
<1>. QED BY <1>4, <1>5 DEF OnBeat

LEMMA PeriodOnBeat == OnBeat(Period) /\ OnBeat(0) /\ \A k \in Int : OnBeat(Period * k)
<1>1. Period \in Int
  BY PeriodAssumption
<1>2. Period = 1 * Period /\ 0 = 0 * Period /\ \A k \in Int : Period * k = k * Period
  BY <1>1, Multiples
<1>. QED BY <1>2 DEF OnBeat

\* The target of a wait is a moment to a period away, and as much on the beat as the
\* deadline before it.
LEMMA NextDeadline ==
  ASSUME NEW deadline \in Int, NEW elapsed \in Int, deadline - elapsed <= Period
  PROVE  /\ next_deadline(deadline, elapsed) \in 1..Period
         /\ OnBeat(next_deadline(deadline, elapsed) - (deadline - elapsed))
<1>1. deadline # Unset /\ Period \in Nat \ {0}
  BY PeriodAssumption
<1>. DEFINE left == deadline - elapsed
<1>2. left \in Int /\ left <= Period
  OBVIOUS
<1>3. next_deadline(deadline, elapsed)
        = IF left > 0 THEN left ELSE left + Period * ((-left) \div Period + 1)
  BY <1>1 DEF next_deadline
<1>. HIDE DEF left
<1>4. CASE left > 0
  <2>1. next_deadline(deadline, elapsed) = left /\ left - left = 0
    BY <1>2, <1>3, <1>4
  <2>. QED BY <1>1, <1>2, <1>4, <2>1, PeriodOnBeat DEF left
<1>5. CASE ~(left > 0)
  <2>. DEFINE q == (-left) \div Period
              r == (-left) % Period
  <2>1. q \in Int /\ r \in 0..Period - 1 /\ -left = Period * q + r
    BY <1>1, <1>2, Division
  <2>2. next_deadline(deadline, elapsed) = left + Period * (q + 1)
    BY <1>3, <1>5
  <2>. HIDE DEF q, r
  <2>3. Period * (q + 1) = Period * q + Period
    BY <1>1, <2>1, Multiples
  <2>4. next_deadline(deadline, elapsed) = Period - r
    BY <1>1, <1>2, <2>1, <2>2, <2>3
  <2>5. (left + Period * (q + 1)) - left = Period * (q + 1) /\ q + 1 \in Int
    BY <1>1, <1>2, <2>1
  <2>6. OnBeat(next_deadline(deadline, elapsed) - left)
    BY <2>2, <2>5, PeriodOnBeat
  <2>. QED BY <1>1, <2>1, <2>4, <2>6 DEF left
<1>. QED BY <1>4, <1>5

\* The state a wait leaves: whatever it did late, the next deadline is on the beat.
LEMMA PaceKept ==
  ASSUME NEW start \in Int, NEW target \in 1..Period, NEW overslept \in Nat, OnBeat(start + target),
         NEW g, NEW c, g.deadline = target + Period - (target + overslept), g.waited = target,
         c.now = (start + (target + overslept)) % Period, c.landed = (start + target) % Period
  PROVE  PaceOf(g, c)
<1>1. Period \in Nat \ {0} /\ target \in Int
  BY PeriodAssumption
<1>. DEFINE t == start + (target + overslept)
            q == t \div Period
            r == t % Period
<1>2. t \in Int /\ t - overslept = start + target
  BY <1>1
<1>3. q \in Int /\ r \in 0..Period - 1 /\ t = Period * q + r
  <2>. HIDE DEF t
  <2>. QED BY <1>1, <1>2, Division
<1>4. c.landed = 0
  BY BeatRemainder
<1>5. g.deadline = Period - overslept
  BY <1>1
<1>. HIDE DEF t, q, r
<1>6. OnBeat((start + target) - Period * q) /\ OnBeat(Period)
  BY <1>3, BeatSum, PeriodOnBeat
<1>7. OnBeat(((start + target) - Period * q) + Period)
  BY <1>6, BeatSum
<1>8. ((start + target) - Period * q) + Period = r + (Period - overslept)
  <2>1. Period * q \in Int
    BY <1>1, <1>3
  <2>. DEFINE Pq == Period * q
  <2>. HIDE DEF Pq
  <2>2. Pq \in Int /\ t = Pq + r
    BY <1>3, <2>1 DEF Pq
  <2>3. ((start + target) - Pq) + Period = r + (Period - overslept)
    BY <1>1, <1>2, <1>3, <2>2
  <2>. QED BY <2>3 DEF Pq
<1>9. c.now = r
  BY DEF r, t
<1>. QED BY <1>1, <1>3, <1>4, <1>5, <1>7, <1>8, <1>9 DEF PaceOf

----------------------------------------------------------------------------
(* The calls of the title that queue commands or change its own objects.    *)

QuietStep ==
  /\ Extended(gx2, gx2') \/ gx2' = gx2
  /\ clock' = clock
  /\ SurfaceOf(guest')
  /\ call'.n = call.n + 1
  /\ call'.name = "Failed" => guest'.surface = guest.surface

LEMMA QuietStepKeeps == Gx2Inv /\ QuietStep => Gx2Inv'
<1>. SUFFICES ASSUME Gx2Inv, QuietStep PROVE Gx2Inv'
  OBVIOUS
<1>1. CallOf(call') /\ SurfaceOf(guest') /\ clock' = clock
  BY DEF Gx2Inv, QuietStep, CallOf
<1>2. StreamOf(gx2') /\ TvOf(gx2') /\ PaceOf(gx2', clock)
  <2>1. CASE gx2' = gx2
    BY <2>1, Zenon DEF Gx2Inv
  <2>2. CASE Extended(gx2, gx2')
    <3>1. TvOf(gx2')
      BY <2>2, Zenon DEF Gx2Inv, TvOf, Extended, Same
    <3>2. PaceOf(gx2', clock)
      BY <2>2, Zenon DEF Gx2Inv, PaceOf, Extended, Same
    <3>. QED BY <2>2, <3>1, <3>2 DEF Extended
  <2>. QED BY <2>1, <2>2 DEF QuietStep
<1>. QED BY <1>1, <1>2 DEF Gx2Inv

LEMMA CallCounted ==
  ASSUME NEW name, NEW slot, NEW value, Called(name, slot, value)
  PROVE  call'.n = call.n + 1 /\ call'.name = name
BY DEF Called

\* A change of another of the title's objects leaves its surface.
LEMMA GuestKeepsSurface ==
  ASSUME NEW g, SurfaceOf(g), NEW h, DOMAIN h = DOMAIN g, h.surface = g.surface
  PROVE  SurfaceOf(h)
BY Zenon DEF SurfaceOf

LEMMA WritesQuiet ==
  ASSUME Gx2Inv, NEW writes, Write_registers(writes)
  PROVE  Extended(gx2, gx2')
<1>. DEFINE c == Command("set_context_register", Null, Written(writes))
            m == Over(Restrict(Written(writes), DOMAIN Written(writes) \cap MirroredRegisters), gx2.mirrors)
<1>1. gx2' = [gx2 EXCEPT !.mirrors = m, !.pending = Append(@, c)]
  BY DEF Write_registers
<1>2. c.type # "scan_buffer_swap"
  BY DEF Command
<1>. HIDE DEF c, m
<1>3. StreamOf(gx2)
  BY DEF Gx2Inv
<1>. QED BY <1>1, <1>2, <1>3, WritesExtend

LEMMA RegistersStep == Gx2Inv /\ Registers => QuietStep
<1>. SUFFICES ASSUME Gx2Inv, Registers PROVE QuietStep
  OBVIOUS
<1>0. SurfaceOf(guest)
  BY DEF Gx2Inv
<1>1. ASSUME NEW state, NEW a, SetState(state, a) PROVE QuietStep
  <2>1. Extended(gx2, gx2') /\ guest' = guest /\ clock' = clock
    BY <1>1, WritesQuiet DEF SetState
  <2>2. call'.n = call.n + 1 /\ call'.name # "Failed"
    <3>1. Called("SetDepthOnly", Null, a) \/ Called("Set", SlotOf(state, a), a)
      BY <1>1 DEF SetState
    <3>. QED BY <3>1, CallCounted
  <2>. QED BY <1>0, <2>1, <2>2 DEF QuietStep
<1>2. ASSUME NEW state, NEW a, InitStateReg(state, a) PROVE QuietStep
  <2>. DEFINE o == Over(Entry(state, [words |-> GX2InitReg(state, a), asked |-> a]), guest.objects)
  <2>1. guest' = [guest EXCEPT !.objects = o] /\ gx2' = gx2 /\ clock' = clock
        /\ Called("Other", Null, Null)
    BY <1>2 DEF InitStateReg
  <2>. HIDE DEF o
  <2>2. SurfaceOf(guest')
    BY <1>0, <2>1 DEF SurfaceOf, GuestFields, NewGuest
  <2>. QED BY <2>1, <2>2, CallCounted DEF QuietStep
<1>3. ASSUME NEW state, SetStateReg(state) PROVE QuietStep
  <2>1. Extended(gx2, gx2') /\ guest' = guest /\ clock' = clock
        /\ Called("Set", SlotOf(state, guest.objects[state].asked), guest.objects[state].asked)
    BY <1>3, WritesQuiet DEF SetStateReg
  <2>. QED BY <1>0, <2>1, CallCounted DEF QuietStep
<1>. QED BY <1>1, <1>2, <1>3 DEF Registers

LEMMA ResourcesStep == Gx2Inv /\ Resources => QuietStep
<1>. SUFFICES ASSUME Gx2Inv, Resources PROVE QuietStep
  OBVIOUS
<1>0. SurfaceOf(guest) /\ StreamOf(gx2)
  BY DEF Gx2Inv
\* What the object is made of does not matter here.
<1>1. ASSUME NEW o, NEW d,
             \/ guest' = [guest EXCEPT !.sampler = o] \/ guest' = [guest EXCEPT !.texture = o]
             \/ guest' = [guest EXCEPT !.texture = o, !.described = d],
             gx2' = gx2, clock' = clock, Called("Other", Null, Null)
      PROVE  QuietStep
  <2>1. SurfaceOf(guest')
    BY <1>0, <1>1 DEF SurfaceOf, GuestFields, NewGuest
  <2>. QED BY <1>1, <2>1, CallCounted DEF QuietStep
<1>2. ASSUME NEW c, NEW b, NEW slot, NEW value, c.type # "scan_buffer_swap",
             gx2' = [gx2 EXCEPT !.pending = Append(@, c), !.bound = b],
             guest' = guest, clock' = clock, Called("Bind", slot, value)
      PROVE  QuietStep
  <2>1. Extended(gx2, gx2')
    BY <1>0, <1>2, AppendExtends
  <2>2. call'.n = call.n + 1 /\ call'.name # "Failed"
    BY <1>2, CallCounted
  <2>. QED BY <1>0, <1>2, <2>1, <2>2 DEF QuietStep
<1>3. \A type, first, words : ResourceWrites(type, first, words).type = type
  BY DEF ResourceWrites, Command
<1>4. ASSUME NEW step, ChangeSampler(step) PROVE QuietStep
  <2>1. \E o : guest' = [guest EXCEPT !.sampler = o] /\ gx2' = gx2 /\ clock' = clock
               /\ Called("Other", Null, Null)
    BY <1>4 DEF ChangeSampler
  <2>. QED BY <1>1, <2>1
<1>5. ASSUME NEW t, DescribeTexture(t) PROVE QuietStep
  <2>1. \E o : guest' = [guest EXCEPT !.texture = o] /\ gx2' = gx2 /\ clock' = clock
               /\ Called("Other", Null, Null)
    BY <1>5 DEF DescribeTexture
  <2>. QED BY <1>1, <2>1
<1>6. ASSUME GX2InitTextureRegs PROVE QuietStep
  <2>. DEFINE o == [guest.texture EXCEPT !.registers = initialize_gx2_texture_registers(guest.texture)]
  <2>1. guest' = [guest EXCEPT !.texture = o, !.described = guest.texture] /\ gx2' = gx2 /\ clock' = clock
        /\ Called("Other", Null, Null)
    BY <1>6 DEF GX2InitTextureRegs
  <2>. HIDE DEF o
  <2>. QED BY <1>1, <2>1
<1>7. ASSUME NEW stage, NEW unit, SetTexture(stage, unit) PROVE QuietStep
  <2>. DEFINE words == texture_binding_words(guest.texture)
              c == ResourceWrites("set_shader_resource", TextureBank[stage] + 28 * unit, words)
              slot == <<"Texture", <<StageOf(stage), unit>>>>
              b == Over(Entry(slot, words), gx2.bound)
              value == Described(guest.described, guest.texture)
  <2>1. gx2' = [gx2 EXCEPT !.pending = Append(@, c), !.bound = b] /\ guest' = guest /\ clock' = clock
        /\ Called("Bind", slot, value)
    BY <1>7 DEF SetTexture
  <2>2. c.type # "scan_buffer_swap"
    BY <1>3
  <2>. HIDE DEF c, b, slot, value
  <2>. QED BY <1>2, <2>1, <2>2
<1>8. ASSUME NEW stage, NEW unit, SetSampler(stage, unit) PROVE QuietStep
  <2>. DEFINE words == guest.sampler.words
              c == ResourceWrites("set_shader_sampler", SamplerBank[stage] + 12 * unit, words)
              slot == <<"Sampler", <<StageOf(stage), unit>>>>
              b == Over(Entry(slot, words), gx2.bound)
              value == guest.sampler.asked
  <2>1. gx2' = [gx2 EXCEPT !.pending = Append(@, c), !.bound = b] /\ guest' = guest /\ clock' = clock
        /\ Called("Bind", slot, value)
    BY <1>8 DEF SetSampler
  <2>2. c.type # "scan_buffer_swap"
    BY <1>3
  <2>. HIDE DEF c, b, slot, value
  <2>. QED BY <1>2, <2>1, <2>2
<1>9. ASSUME NEW stage, NEW unit, NEW color, SetSamplerBorderColor(stage, unit, color) PROVE QuietStep
  <2>. DEFINE words == [n \in 1..4 |-> FloatBits(color[n])]
              c == ResourceWrites("set_context_register", BorderBank[stage] + 16 * unit, words)
              slot == <<"BorderColor", <<StageOf(stage), unit>>>>
              b == Over(Entry(slot, words), gx2.bound)
  <2>1. gx2' = [gx2 EXCEPT !.pending = Append(@, c), !.bound = b] /\ guest' = guest /\ clock' = clock
        /\ Called("Bind", slot, color)
    BY <1>9 DEF SetSamplerBorderColor
  <2>2. c.type # "scan_buffer_swap"
    BY <1>3
  <2>. HIDE DEF c, b, slot
  <2>. QED BY <1>2, <2>1, <2>2
<1>. QED BY <1>4, <1>5, <1>6, <1>7, <1>8, <1>9 DEF Resources

\* A surface written field by field stays an object, and one that is written its own field
\* back is what it was.
LEMMA FieldBack ==
  ASSUME NEW s, NEW use, s = [field \in DOMAIN s |-> s[field]]
  PROVE  [[s EXCEPT !.use = use] EXCEPT !.use = s.use] = s
OBVIOUS

LEMMA LaidOutIsObject ==
  ASSUME NEW s, NEW l
  PROVE  LaidOut(s, l) = [field \in DOMAIN LaidOut(s, l) |-> LaidOut(s, l)[field]]
BY DEF LaidOut

LEMMA SurfacesStep == Gx2Inv /\ Surfaces => QuietStep
<1>. SUFFICES ASSUME Gx2Inv, Surfaces PROVE QuietStep
  OBVIOUS
<1>0. DOMAIN guest = GuestFields /\ guest.surface = [field \in DOMAIN guest.surface |-> guest.surface[field]]
  BY DEF Gx2Inv, SurfaceOf
<1>1. ASSUME NEW s, s = [field \in DOMAIN s |-> s[field]], NEW levels,
             guest' = [guest EXCEPT !.surface = s] \/ guest' = [guest EXCEPT !.surface = s, !.levels = levels],
             gx2' = gx2, clock' = clock,
             Called("Other", Null, Null) \/ (Called("Failed", Null, Null) /\ s = guest.surface)
      PROVE  QuietStep
  <2>1. DOMAIN guest' = GuestFields /\ guest'.surface = s
    BY <1>0, <1>1 DEF GuestFields, NewGuest
  <2>2. SurfaceOf(guest')
    BY <1>1, <2>1, Zenon DEF SurfaceOf
  <2>. QED BY <1>1, <2>1, <2>2, CallCounted DEF QuietStep
<1>2. \A s, l : LaidOut(s, l) = [field \in DOMAIN LaidOut(s, l) |-> LaidOut(s, l)[field]]
  BY LaidOutIsObject
<1>3. CASE GX2CalcSurfaceSizeAndAlignment
  <2>. DEFINE layout == calculate_gx2_surface_size_and_alignment(guest.surface)
              s == LaidOut(guest.surface, layout)
              levels == layout.levels
  <2>1. guest' = [guest EXCEPT !.surface = s, !.levels = levels] /\ gx2' = gx2 /\ clock' = clock
        /\ Called("Other", Null, Null)
    BY <1>3 DEF GX2CalcSurfaceSizeAndAlignment
  <2>2. s = [field \in DOMAIN s |-> s[field]]
    BY <1>2
  <2>. HIDE DEF s, levels
  <2>. QED BY <1>1, <2>1, <2>2
<1>4. CASE GX2RLockSurfaceEx \/ GX2RUnlockSurfaceEx
  <2>. DEFINE use == IF GX2RLockSurfaceEx THEN WithoutFlag(guest.surface.use, locked_flag) + locked_flag
                     ELSE WithoutFlag(guest.surface.use, locked_flag)
              s == [guest.surface EXCEPT !.use = use]
  <2>1. guest' = [guest EXCEPT !.surface = s] /\ gx2' = gx2 /\ clock' = clock
        /\ Called("Other", Null, Null)
    <3>1. CASE GX2RLockSurfaceEx
      BY <3>1 DEF GX2RLockSurfaceEx
    <3>2. CASE ~GX2RLockSurfaceEx
      BY <1>4, <3>2 DEF GX2RUnlockSurfaceEx
    <3>. QED BY <3>1, <3>2
  <2>. HIDE DEF use
  <2>2. s = [field \in DOMAIN s |-> s[field]]
    OBVIOUS
  <2>. HIDE DEF s
  <2>. QED BY <1>1, <2>1, <2>2
<1>5. ASSUME NEW image, NEW mipmap, NEW flags, GX2RCreateSurfaceUserMemory(image, mipmap, flags)
      PROVE  QuietStep
  <2>. DEFINE use == WithoutFlag(WithoutFlag(flags, locked_flag), allocated_flag)
              flagged == [guest.surface EXCEPT !.use = use]
              layout == calculate_gx2_surface_size_and_alignment(flagged)
              made == create_gx2_surface_user_memory(guest.surface, image, mipmap, flags)
  <2>. HIDE DEF use
  <2>1. guest' = [guest EXCEPT !.surface = made.surface, !.levels = made.levels] /\ gx2' = gx2
        /\ clock' = clock /\ Called(IF made.made THEN "Other" ELSE "Failed", Null, Null)
    BY <1>5 DEF GX2RCreateSurfaceUserMemory
  <2>2. CASE layout = Failed
    <3>1. made = [made |-> FALSE, levels |-> Null, surface |-> [flagged EXCEPT !.use = guest.surface.use]]
      BY <2>2 DEF create_gx2_surface_user_memory, use
    <3>2. [flagged EXCEPT !.use = guest.surface.use] = guest.surface
      BY <1>0, FieldBack
    <3>. HIDE DEF flagged, made
    <3>3. made.surface = guest.surface /\ ~made.made
      BY <3>1, <3>2
    <3>4. Called("Failed", Null, Null)
      BY <2>1, <3>3
    <3>. QED BY <1>0, <1>1, <2>1, <3>3, <3>4
  <2>3. CASE layout # Failed
    <3>. DEFINE s == [LaidOut(flagged, layout) EXCEPT !.image = image, !.mipmap = mipmap]
    <3>1. made = [made |-> TRUE, levels |-> layout.levels, surface |-> s]
      BY <2>3 DEF create_gx2_surface_user_memory, use
    <3>2. s = [field \in DOMAIN s |-> s[field]]
      OBVIOUS
    <3>. HIDE DEF flagged, layout, made, s
    <3>3. made.surface = s /\ made.made
      BY <3>1
    <3>4. Called("Other", Null, Null)
      BY <2>1, <3>3
    <3>. DEFINE levels == made.levels
    <3>5. guest' = [guest EXCEPT !.surface = s, !.levels = levels]
      BY <2>1, <3>3
    <3>. HIDE DEF levels
    <3>. QED BY <1>1, <2>1, <3>2, <3>4, <3>5
  <2>. QED BY <2>2, <2>3
<1>. QED BY <1>3, <1>4, <1>5 DEF Surfaces

----------------------------------------------------------------------------
(* The command stream, the display and the host.                            *)

QuietStream ==
  \/ \E slot \in scenario.bindings, o \in {"a", "b", Null} : BindObject(slot, o)
  \/ May("write") /\ \E o \in {"a", "b"} : GuestWrites(o)
  \/ May("draw") /\ GX2DrawEx("triangles")
  \/ May("sync") /\ (GX2Flush \/ GX2DrawDone
                     \/ GX2SetGPUFence([address |-> 64, mask |-> {0}, compare_op |-> 11, value |-> 1]))
  \/ May("context") /\ (GX2SetupContextStateEx \/ GX2SetContextState \/ GX2LeaveContextState)

LEMMA Pair ==
  ASSUME NEW c, NEW d, ~IsSwap(c), ~IsSwap(d)
  PROVE  IsSequence(<<c, d>>) /\ SwapFree(<<c, d>>)
<1>1. <<c, d>> \in Seq({c, d}) /\ Len(<<c, d>>) = 2 /\ \A n \in 1..2 : <<c, d>>[n] \in {c, d}
  OBVIOUS
<1>. QED BY <1>1, Zenon DEF IsSequence, SwapFree

LEMMA Triple ==
  ASSUME NEW c, NEW d, NEW e, ~IsSwap(c), ~IsSwap(d), ~IsSwap(e)
  PROVE  IsSequence(<<c, d, e>>) /\ SwapFree(<<c, d, e>>)
<1>1. /\ <<c, d, e>> \in Seq({c, d, e}) /\ Len(<<c, d, e>>) = 3
      /\ \A n \in 1..3 : <<c, d, e>>[n] \in {c, d, e}
  OBVIOUS
<1>. QED BY <1>1, Zenon DEF IsSequence, SwapFree

LEMMA Quiet ==
  ASSUME NEW c, ~IsSwap(c)
  PROVE  IsSequence(<<c>>) /\ SwapFree(<<c>>)
<1>1. <<c>> \in Seq({c}) /\ Len(<<c>>) = 1 /\ \A n \in 1..1 : <<c>>[n] \in {c}
  OBVIOUS
<1>. QED BY <1>1, Zenon DEF IsSequence, SwapFree

LEMMA QuietStreamStep ==
  (\A slot \in scenario.bindings : slot[1] \in DOMAIN Bindings) /\ Gx2Inv /\ QuietStream => QuietStep
<1>. SUFFICES ASSUME \A slot \in scenario.bindings : slot[1] \in DOMAIN Bindings, Gx2Inv, QuietStream
              PROVE  QuietStep
  OBVIOUS
<1>0. SurfaceOf(guest) /\ StreamOf(gx2)
  BY DEF Gx2Inv
<1>1. ASSUME NEW slot \in scenario.bindings, NEW o, BindObject(slot, o) PROVE QuietStep
  <2>. DEFINE value == IF o = Null THEN Null
                       ELSE IF slot[1] = "VertexBuffer" THEN [object |-> o, contents |-> Null]
                       ELSE [object |-> o, contents |-> guest.contents[o]]
              c == Command(Bindings[slot[1]], slot, value)
              b == Over(Entry(slot, value), gx2.bound)
  <2>1. gx2' = [gx2 EXCEPT !.pending = Append(@, c), !.bound = b] /\ guest' = guest /\ clock' = clock
        /\ Called(IF value = Null THEN "Unbind" ELSE "Bind", slot, value)
    BY <1>1 DEF BindObject
  <2>2. c.type # "scan_buffer_swap"
    <3>1. c.type = Bindings[slot[1]]
      BY DEF Command
    <3>2. slot[1] \in {"FetchShader", "ProgramShader", "VertexBuffer", "ColorBuffer", "DepthBuffer"}
      BY DEF Bindings
    <3>. HIDE DEF c
    <3>. QED BY <3>1, <3>2 DEF Bindings
  <2>. HIDE DEF value, c, b
  <2>3. Extended(gx2, gx2')
    BY <1>0, <2>1, <2>2, AppendExtends
  <2>4. Called("Unbind", slot, value) \/ Called("Bind", slot, value)
    BY <2>1
  <2>5. call'.n = call.n + 1 /\ call'.name # "Failed"
    BY <2>4, CallCounted
  <2>. QED BY <1>0, <2>1, <2>3, <2>5 DEF QuietStep
\* What the queue gets does not matter here, so long as it is no swap.
<1>2. ASSUME NEW q, IsSequence(q), SwapFree(q), NEW s, NEW name, name # "Failed", NEW slot, NEW value,
             gx2' = [gx2 EXCEPT !.pending = @ \o q] \/ gx2' = [gx2 EXCEPT !.pending = @ \o q, !.shadowing = s],
             guest' = guest, clock' = clock, Called(name, slot, value)
      PROVE  QuietStep
  <2>1. /\ Extended(gx2, [gx2 EXCEPT !.pending = @ \o q])
        /\ Extended(gx2, [gx2 EXCEPT !.pending = @ \o q, !.shadowing = s])
    BY <1>0, <1>2, QueueExtends
  <2>2. Extended(gx2, gx2')
    BY <1>2, <2>1, Zenon
  <2>3. call'.n = call.n + 1 /\ call'.name # "Failed"
    BY <1>2, CallCounted
  <2>. QED BY <1>0, <1>2, <2>2, <2>3 DEF QuietStep
<1>3. ASSUME NEW o, GuestWrites(o) PROVE QuietStep
  <2>1. gx2' = gx2 /\ clock' = clock /\ Called("Other", Null, Null)
    BY <1>3 DEF GuestWrites
  <2>2. DOMAIN guest' = DOMAIN guest /\ guest'.surface = guest.surface
    BY <1>0, <1>3 DEF GuestWrites, SurfaceOf, GuestFields, NewGuest
  <2>3. SurfaceOf(guest')
    BY <1>0, <2>2, Zenon DEF SurfaceOf
  <2>. QED BY <2>1, <2>3, CallCounted DEF QuietStep
<1>4. ASSUME NEW request, GX2DrawEx(request) PROVE QuietStep
  <2>. DEFINE c == Command("draw", Null, request)
  <2>1. gx2' = [gx2 EXCEPT !.pending = @ \o <<c>>] /\ guest' = guest /\ clock' = clock
        /\ Called("Draw", Null, request)
    BY <1>4 DEF GX2DrawEx, Queue
  <2>2. ~IsSwap(c)
    BY DEF IsSwap, Command
  <2>. HIDE DEF c
  <2>3. IsSequence(<<c>>) /\ SwapFree(<<c>>)
    BY <2>2, Quiet
  <2>. DEFINE q == <<c>>
  <2>4. IsSequence(q) /\ SwapFree(q) /\ gx2' = [gx2 EXCEPT !.pending = @ \o q]
    BY <2>1, <2>3
  <2>. HIDE DEF q
  <2>. QED BY <1>2, <2>1, <2>4
<1>5. CASE GX2Flush
  <2>. DEFINE c == Command("flush", Null, Null)
              q == <<c>>
  <2>1. gx2' = [gx2 EXCEPT !.pending = @ \o q] /\ guest' = guest /\ clock' = clock
        /\ Called("Other", Null, Null)
    BY <1>5 DEF GX2Flush, Queue
  <2>2. ~IsSwap(c)
    BY DEF IsSwap, Command
  <2>. HIDE DEF c
  <2>3. IsSequence(q) /\ SwapFree(q)
    BY <2>2, Quiet
  <2>. HIDE DEF q
  <2>. QED BY <1>2, <2>1, <2>3
<1>6. CASE GX2DrawDone
  <2>. DEFINE c == Command("flush", Null, Null)
              d == Command("draw_done", Null, Null)
              q == <<c, d>>
  <2>1. gx2' = [gx2 EXCEPT !.pending = @ \o q] /\ guest' = guest /\ clock' = clock
        /\ Called("Other", Null, Null)
    BY <1>6 DEF GX2DrawDone, Queue
  <2>2. ~IsSwap(c) /\ ~IsSwap(d)
    BY DEF IsSwap, Command
  <2>. HIDE DEF c, d
  <2>3. IsSequence(q) /\ SwapFree(q)
    BY <2>2, Pair
  <2>. HIDE DEF q
  <2>. QED BY <1>2, <2>1, <2>3
<1>7. ASSUME NEW fence, GX2SetGPUFence(fence) PROVE QuietStep
  <2>. DEFINE value == [fence EXCEPT !.compare_op = @ % 8]
              c == Command("gpu_fence", Null, value)
              q == <<c>>
  <2>1. gx2' = [gx2 EXCEPT !.pending = @ \o q] /\ guest' = guest /\ clock' = clock
        /\ Called("Other", Null, Null)
    BY <1>7 DEF GX2SetGPUFence, Queue
  <2>. HIDE DEF value
  <2>2. ~IsSwap(c)
    BY DEF IsSwap, Command
  <2>. HIDE DEF c
  <2>3. IsSequence(q) /\ SwapFree(q)
    BY <2>2, Quiet
  <2>. HIDE DEF q
  <2>. QED BY <1>2, <2>1, <2>3
<1>8. CASE GX2SetContextState
  <2>. DEFINE c == Zeroes("set_context_register",
                          {r \in StateRegisters : Loads(context_load_ranges, \hA000, r)} \cup
                          {r \in BorderRegisters : Loads(config_load_ranges, \h2000, r)})
              d == Zeroes("set_shader_resource",
                          {r \in ResourceRegisters : Loads(resource_load_ranges, \hE000, r)})
              e == Zeroes("set_shader_sampler",
                          {r \in SamplerRegisters : Loads(sampler_load_ranges, \hF000, r)})
              q == <<c, d, e>>
  <2>1. gx2' = [gx2 EXCEPT !.pending = @ \o RestoreCommands, !.shadowing = TRUE]
        /\ guest' = guest /\ clock' = clock /\ Called("Restore", Null, Null)
    BY <1>8 DEF GX2SetContextState
  <2>2. RestoreCommands = q
    BY DEF RestoreCommands
  <2>3. ~IsSwap(c) /\ ~IsSwap(d) /\ ~IsSwap(e)
    BY DEF IsSwap, Command, Zeroes
  <2>. HIDE DEF c, d, e
  <2>4. IsSequence(q) /\ SwapFree(q)
    BY <2>3, Triple
  <2>. HIDE DEF q
  <2>5. gx2' = [gx2 EXCEPT !.pending = @ \o q, !.shadowing = TRUE]
    BY <2>1, <2>2, Zenon
  <2>. QED BY <1>2, <2>1, <2>4, <2>5
<1>9. CASE GX2SetupContextStateEx \/ GX2LeaveContextState
  <2>1. /\ gx2' = [gx2 EXCEPT !.shadowing = TRUE] \/ gx2' = [gx2 EXCEPT !.shadowing = FALSE]
        /\ guest' = guest \/ guest' = [guest EXCEPT !.context = TRUE]
        /\ clock' = clock /\ Called("Other", Null, Null)
    BY <1>9 DEF GX2SetupContextStateEx, GX2LeaveContextState
  <2>2. Same(gx2, gx2') /\ gx2'.pending = gx2.pending
    BY <1>0, <2>1 DEF StreamOf, StateFields, NotInitialized, Same
  <2>3. Extended(gx2, gx2')
    BY <1>0, <2>2, Zenon DEF StreamOf, Same, Extended
  <2>4. DOMAIN guest' = DOMAIN guest /\ guest'.surface = guest.surface
    BY <1>0, <2>1 DEF SurfaceOf, GuestFields, NewGuest
  <2>5. SurfaceOf(guest')
    BY <1>0, <2>4, Zenon DEF SurfaceOf
  <2>. QED BY <2>1, <2>3, <2>5, CallCounted DEF QuietStep
<1>. QED BY <1>1, <1>3, <1>4, <1>5, <1>6, <1>7, <1>8, <1>9 DEF QuietStream

----------------------------------------------------------------------------
(* The calls that change what the invariant reads.                          *)

\* An action of the title on the display: the call is counted and is not "Failed".
Counted == call'.n = call.n + 1 /\ call'.name # "Failed"

LEMMA SwapStep == Gx2Inv /\ GX2SwapScanBuffers => Gx2Inv' /\ Counted
<1>. SUFFICES ASSUME Gx2Inv, GX2SwapScanBuffers PROVE Gx2Inv' /\ Counted
  OBVIOUS
<1>. DEFINE flips == gx2.flips + (IF gx2.initialized THEN 1 ELSE 0)
            c == Command("scan_buffer_swap", Null, flips)
<1>0. StreamOf(gx2) /\ TvOf(gx2) /\ PaceOf(gx2, clock) /\ SurfaceOf(guest) /\ CallOf(call)
  BY DEF Gx2Inv
<1>1. gx2' = [gx2 EXCEPT !.flips = flips, !.pending = Append(@, c)]
      /\ guest' = guest /\ clock' = clock /\ Called("Other", Null, Null)
  BY DEF GX2SwapScanBuffers
<1>2. IsSwap(c) /\ c.value = flips /\ flips \in Nat
  BY <1>0 DEF IsSwap, Command, StreamOf
<1>. HIDE DEF flips, c
<1>3. /\ DOMAIN gx2' = DOMAIN gx2 /\ gx2'.flips = flips /\ gx2'.pending = Append(gx2.pending, c)
      /\ gx2'.tv = gx2.tv /\ gx2'.deadline = gx2.deadline /\ gx2'.waited = gx2.waited
  BY <1>0, <1>1 DEF StreamOf, StateFields, NotInitialized
<1>4. StreamOf(gx2')
  BY <1>0, <1>2, <1>3, SwapCommand DEF StreamOf
<1>5. TvOf(gx2') /\ PaceOf(gx2', clock')
  <2>1. TvOf(gx2')
    BY <1>0, <1>3, Zenon DEF TvOf
  <2>2. PaceOf(gx2', clock')
    BY <1>0, <1>1, <1>3, Zenon DEF PaceOf
  <2>. QED BY <2>1, <2>2
<1>6. Counted /\ CallOf(call') /\ SurfaceOf(guest')
  BY <1>0, <1>1, CallCounted DEF Counted, CallOf
<1>. QED BY <1>4, <1>5, <1>6 DEF Gx2Inv

LEMMA InitStep == Gx2Inv /\ GX2Init => Gx2Inv' /\ Counted
<1>. SUFFICES ASSUME Gx2Inv, GX2Init PROVE Gx2Inv' /\ Counted
  OBVIOUS
<1>0. StreamOf(gx2) /\ TvOf(gx2) /\ PaceOf(gx2, clock) /\ SurfaceOf(guest) /\ CallOf(call)
  BY DEF Gx2Inv
<1>1. /\ gx2' = gx2 \/ gx2' = [NotInitialized EXCEPT !.initialized = TRUE]
      /\ guest' = guest /\ clock' = clock /\ (Called("Other", Null, Null) \/ Called("Initialise", Null, Null))
  BY DEF GX2Init
<1>2. Counted /\ CallOf(call') /\ SurfaceOf(guest')
  BY <1>0, <1>1, CallCounted DEF Counted, CallOf
<1>3. CASE gx2' = gx2
  BY <1>0, <1>1, <1>2, <1>3 DEF Gx2Inv
<1>4. CASE gx2' = [NotInitialized EXCEPT !.initialized = TRUE]
  <2>1. /\ DOMAIN gx2' = StateFields /\ gx2'.flips = 0 /\ gx2'.pending = <<>> /\ gx2'.tv = Null
        /\ gx2'.deadline = Unset /\ gx2'.waited = Unset
    BY <1>4 DEF StateFields, NotInitialized
  <2>2. StreamOf(gx2')
    <3>1. IsSequence(<<>>) /\ LastSwapIs(<<>>, 0)
      BY EmptySeq DEF IsSequence, LastSwapIs
    <3>. QED BY <2>1, <3>1 DEF StreamOf
  <2>3. TvOf(gx2')
    BY <2>1 DEF TvOf
  <2>4. PaceOf(gx2', clock')
    BY <1>0, <1>1, <2>1, Zenon DEF PaceOf
  <2>. QED BY <1>2, <2>2, <2>3, <2>4 DEF Gx2Inv
<1>. QED BY <1>1, <1>3, <1>4

LEMMA DisplayStep ==
  ASSUME Gx2Inv, Counted, CallOf(call'), NEW tv, NEW enable,
         gx2' = [gx2 EXCEPT !.tv = tv] \/ (tv = gx2.tv /\ gx2' = [gx2 EXCEPT !.tv_enabled = enable]),
         TvOf([tv |-> tv]), guest' = guest, clock' = clock
  PROVE  Gx2Inv'
<1>0. StreamOf(gx2) /\ PaceOf(gx2, clock) /\ SurfaceOf(guest)
  BY DEF Gx2Inv
<1>1. /\ DOMAIN gx2' = DOMAIN gx2 /\ gx2'.flips = gx2.flips /\ gx2'.pending = gx2.pending
      /\ gx2'.tv = tv /\ gx2'.deadline = gx2.deadline /\ gx2'.waited = gx2.waited
  BY <1>0 DEF StreamOf, StateFields, NotInitialized
<1>2. StreamOf(gx2')
  BY <1>0, <1>1, Zenon DEF StreamOf
<1>3. TvOf(gx2')
  <2>1. [tv |-> tv].tv = tv
    OBVIOUS
  <2>. QED BY <1>1, <2>1, Zenon DEF TvOf
<1>4. PaceOf(gx2', clock')
  BY <1>0, <1>1, Zenon DEF PaceOf
<1>. QED BY <1>0, <1>2, <1>3, <1>4 DEF Gx2Inv

LEMMA SetTVBufferStep ==
  ASSUME Gx2Inv, NEW mode, NEW count, NEW format, GX2SetTVBuffer(mode, count, format)
  PROVE  Gx2Inv' /\ Counted
<1>. DEFINE d == get_tv_dimensions(mode)
            size == calculate_tv_size(mode, format, count)
            tv == [width |-> d[1], height |-> d[2], buffering_mode |-> count, size |-> size]
<1>1. /\ d # Failed /\ format = unorm_r8_g8_b8_a8 /\ get_scan_buffer_count(count) # 0
      /\ gx2' = [gx2 EXCEPT !.tv = tv] /\ guest' = guest /\ clock' = clock
      /\ Called("Other", Null, Null)
  BY DEF GX2SetTVBuffer
<1>2. d \in Dimensions
  <2>1. d = IF mode = 3 THEN <<1280, 720>> ELSE IF mode = 5 THEN <<1920, 1080>> ELSE Failed
    BY DEF get_tv_dimensions
  <2>. HIDE DEF d
  <2>. QED BY <1>1, <2>1 DEF Dimensions
<1>3. count \in 1..3 /\ get_scan_buffer_count(count) = count
  BY <1>1 DEF get_scan_buffer_count
<1>4. size = d[1] * d[2] * 4 * count
  <2>1. count # 0
    BY <1>3
  <2>. HIDE DEF d
  <2>. QED BY <1>1, <1>3, <2>1 DEF calculate_tv_size, d
<1>. HIDE DEF d, size
<1>5. [tv |-> tv].tv = tv /\ tv = [width |-> d[1], height |-> d[2], buffering_mode |-> count,
                                   size |-> d[1] * d[2] * 4 * count]
  BY <1>4
<1>. HIDE DEF tv
<1>6. TvOf([tv |-> tv])
  BY <1>2, <1>3, <1>5, Zenon DEF TvOf
<1>7. Counted /\ CallOf(call')
  BY <1>1, CallCounted DEF Gx2Inv, Counted, CallOf
<1>. QED BY <1>1, <1>6, <1>7, DisplayStep

LEMMA SetTVEnableStep ==
  ASSUME Gx2Inv, NEW enable, GX2SetTVEnable(enable)
  PROVE  Gx2Inv' /\ Counted
<1>1. /\ gx2' = [gx2 EXCEPT !.tv_enabled = enable] /\ guest' = guest /\ clock' = clock
      /\ Called("Other", Null, Null)
  BY DEF GX2SetTVEnable
<1>2. TvOf([tv |-> gx2.tv])
  <2>1. [tv |-> gx2.tv].tv = gx2.tv
    OBVIOUS
  <2>2. TvOf(gx2)
    BY DEF Gx2Inv
  <2>. QED BY <2>1, <2>2, Zenon DEF TvOf
<1>3. Counted /\ CallOf(call')
  BY <1>1, CallCounted DEF Gx2Inv, Counted, CallOf
<1>. DEFINE tv == gx2.tv
<1>4. tv = gx2.tv /\ TvOf([tv |-> tv])
  BY <1>2
<1>. HIDE DEF tv
<1>. QED BY <1>1, <1>3, <1>4, DisplayStep

LEMMA WaitStep ==
  ASSUME Gx2Inv, NEW elapsed \in Nat, NEW overslept \in Nat, GX2WaitForVsync(elapsed, overslept)
  PROVE  Gx2Inv' /\ Counted
<1>. DEFINE target == next_deadline(gx2.deadline, elapsed)
            woken == target + overslept
            start == IF gx2.deadline = Unset THEN 0 ELSE clock.now + elapsed
<1>0. StreamOf(gx2) /\ TvOf(gx2) /\ PaceOf(gx2, clock) /\ SurfaceOf(guest)
  BY DEF Gx2Inv
<1>1. Called("Other", Null, Null) /\ guest' = guest
  BY DEF GX2WaitForVsync
<1>2. Counted /\ CallOf(call')
  BY <1>1, CallCounted DEF Gx2Inv, Counted, CallOf
<1>3. CASE gx2' = gx2 /\ clock' = clock
  BY <1>0, <1>1, <1>2, <1>3 DEF Gx2Inv
<1>4. CASE /\ gx2' = [gx2 EXCEPT !.deadline = target + Period - woken, !.waited = target]
           /\ clock' = [now |-> (start + woken) % Period, landed |-> (start + target) % Period]
  <2>1. target \in 1..Period /\ start \in Int /\ OnBeat(start + target)
    <3>. HIDE DEF woken
    <3>1. CASE gx2.deadline = Unset
      <4>1. target = Period /\ start = 0
        BY <3>1 DEF next_deadline
      <4>. QED BY <4>1, PeriodAssumption, PeriodOnBeat
    <3>2. CASE gx2.deadline # Unset
      <4>. DEFINE d == gx2.deadline
                  n == clock.now
      <4>1. d \in Int /\ d <= Period /\ OnBeat(n + d) /\ n \in Int /\ Period \in Int
        BY <1>0, <3>2, PeriodAssumption DEF PaceOf
      <4>2. target \in 1..Period /\ OnBeat(target - (d - elapsed))
        <5>1. target = next_deadline(d, elapsed)
          OBVIOUS
        <5>. HIDE DEF d, target
        <5>2. d - elapsed <= Period /\ elapsed \in Int
          BY <4>1
        <5>3. next_deadline(d, elapsed) \in 1..Period /\ OnBeat(next_deadline(d, elapsed) - (d - elapsed))
          BY <4>1, <5>2, NextDeadline
        <5>. QED BY <5>1, <5>3
      <4>3. start = n + elapsed
        BY <3>2
      <4>. HIDE DEF d, n, target, start
      <4>4. OnBeat((n + d) + (target - (d - elapsed)))
        BY <4>1, <4>2, BeatSum
      <4>5. (n + d) + (target - (d - elapsed)) = start + target /\ start \in Int
        BY <4>1, <4>2, <4>3
      <4>. QED BY <4>2, <4>4, <4>5
    <3>. QED BY <3>1, <3>2
  <2>. HIDE DEF target, start
  <2>2. /\ DOMAIN gx2' = DOMAIN gx2 /\ gx2'.flips = gx2.flips /\ gx2'.pending = gx2.pending
        /\ gx2'.tv = gx2.tv /\ gx2'.deadline = target + Period - (target + overslept)
        /\ gx2'.waited = target
    BY <1>0, <1>4 DEF StreamOf, StateFields, NotInitialized
  <2>3. /\ clock'.now = (start + (target + overslept)) % Period
        /\ clock'.landed = (start + target) % Period
    BY <1>4
  <2>4. PaceOf(gx2', clock')
    BY <2>1, <2>2, <2>3, PaceKept
  <2>5. StreamOf(gx2')
    BY <1>0, <2>2, Zenon DEF StreamOf
  <2>6. TvOf(gx2')
    BY <1>0, <2>2, Zenon DEF TvOf
  <2>. QED BY <1>0, <1>1, <1>2, <2>4, <2>5, <2>6 DEF Gx2Inv
<1>5. \/ gx2' = gx2 /\ clock' = clock
      \/ /\ gx2' = [gx2 EXCEPT !.deadline = target + Period - woken, !.waited = target]
         /\ clock' = [now |-> (start + woken) % Period, landed |-> (start + target) % Period]
  BY DEF GX2WaitForVsync
<1>. QED BY <1>3, <1>4, <1>5

LEMMA HostStep == Gx2Inv /\ (Publish \/ Apply) => Gx2Inv'
<1>. SUFFICES ASSUME Gx2Inv, Publish \/ Apply PROVE Gx2Inv'
  OBVIOUS
<1>0. StreamOf(gx2) /\ TvOf(gx2) /\ PaceOf(gx2, clock)
  BY DEF Gx2Inv
<1>1. clock' = clock /\ call' = call /\ guest' = guest
      /\ (gx2' = gx2 \/ gx2' = [gx2 EXCEPT !.pending = <<>>])
  BY DEF Publish, Apply
<1>2. CASE gx2' = gx2
  BY <1>1, <1>2 DEF Gx2Inv
<1>3. CASE gx2' = [gx2 EXCEPT !.pending = <<>>]
  <2>1. /\ DOMAIN gx2' = DOMAIN gx2 /\ gx2'.flips = gx2.flips /\ gx2'.pending = <<>>
        /\ gx2'.tv = gx2.tv /\ gx2'.deadline = gx2.deadline /\ gx2'.waited = gx2.waited
    BY <1>0, <1>3 DEF StreamOf, StateFields, NotInitialized
  <2>2. StreamOf(gx2')
    <3>1. IsSequence(<<>>) /\ LastSwapIs(<<>>, gx2.flips)
      BY EmptySeq DEF IsSequence, LastSwapIs
    <3>. QED BY <1>0, <2>1, <3>1 DEF StreamOf
  <2>3. TvOf(gx2')
    BY <1>0, <2>1, Zenon DEF TvOf
  <2>4. PaceOf(gx2', clock')
    BY <1>0, <1>1, <2>1, Zenon DEF PaceOf
  <2>. QED BY <1>1, <2>2, <2>3, <2>4 DEF Gx2Inv
<1>. QED BY <1>1, <1>2, <1>3

----------------------------------------------------------------------------
(* The theorems.                                                            *)

\* What the properties need of a scenario, which is chosen once.
ScenarioInv == scenario \in Scenarios

\* A step of the title or of the host, in the classes of the lemmas above.
LEMMA StepClasses ==
  ASSUME Gx2Inv, ScenarioInv, Next
  PROVE  QuietStep \/ (Gx2Inv' /\ Counted) \/ Publish \/ Apply
<1>1. CASE Registers
  BY <1>1, RegistersStep
<1>2. CASE Resources
  BY <1>2, ResourcesStep
<1>3. CASE Surfaces
  BY <1>3, SurfacesStep
<1>4. CASE Stream
  <2>1. QuietStream \/ GX2SwapScanBuffers \/ GX2Init
    BY <1>4 DEF Stream, QuietStream
  <2>2. \A slot \in scenario.bindings : slot[1] \in DOMAIN Bindings
    BY ScenariosAssumption, Zenon DEF ScenarioInv
  <2>. QED BY <2>1, <2>2, QuietStreamStep, SwapStep, InitStep
<1>5. CASE Display
  <2>1. CASE \E mode \in scenario.tv : GX2SetTVBuffer(mode[1], mode[2], mode[3])
    BY <2>1, SetTVBufferStep
  <2>2. CASE \E enable \in BOOLEAN : GX2SetTVEnable(enable)
    BY <2>2, SetTVEnableStep
  <2>3. CASE \E elapsed \in 0..2 * Period + 1, overslept \in 0..Period + 1 : GX2WaitForVsync(elapsed, overslept)
    <3>1. \A n \in Int : \A k \in 0..n : k \in Nat
      OBVIOUS
    <3>2. PICK elapsed \in Nat, overslept \in Nat : GX2WaitForVsync(elapsed, overslept)
      <4>1. 2 * Period + 1 \in Int /\ Period + 1 \in Int
        BY PeriodAssumption
      <4>. QED BY <2>3, <3>1, <4>1, Zenon
    <3>. QED BY <3>2, WaitStep
  <2>. QED BY <1>5, <2>1, <2>2, <2>3 DEF Display
<1>. QED BY <1>1, <1>2, <1>3, <1>4, <1>5 DEF Next

LEMMA Gx2Initially == Init => Gx2Inv /\ ScenarioInv
<1>. SUFFICES ASSUME Init PROVE Gx2Inv /\ ScenarioInv
  OBVIOUS
<1>1. /\ DOMAIN gx2 = StateFields /\ gx2.flips = 0 /\ gx2.pending = <<>> /\ gx2.tv = Null
      /\ gx2.deadline = Unset /\ gx2.waited = Unset
  BY DEF Init, StateFields, NotInitialized
<1>2. StreamOf(gx2)
  <2>1. IsSequence(<<>>) /\ LastSwapIs(<<>>, 0)
    BY EmptySeq DEF IsSequence, LastSwapIs
  <2>. QED BY <1>1, <2>1 DEF StreamOf
<1>3. TvOf(gx2)
  BY <1>1 DEF TvOf
<1>4. PaceOf(gx2, clock)
  <2>1. clock.now = 0 /\ 0 \in 0..Period - 1
    BY PeriodAssumption DEF Init
  <2>. QED BY <1>1, <2>1, Zenon DEF PaceOf
<1>5. SurfaceOf(guest)
  <2>1. scenario.surface = [field \in DOMAIN scenario.surface |-> scenario.surface[field]]
    <3>1. scenario.surface \in SurfaceObjects
      BY ScenariosAssumption, Zenon DEF Init
    <3>. QED BY <3>1 DEF SurfaceObjects
  <2>2. DOMAIN guest = GuestFields /\ guest.surface = scenario.surface
    BY DEF Init, GuestFields, NewGuest
  <2>. QED BY <2>1, <2>2, Zenon DEF SurfaceOf
<1>6. CallOf(call) /\ ScenarioInv
  BY DEF Init, CallOf, ScenarioInv
<1>. QED BY <1>2, <1>3, <1>4, <1>5, <1>6 DEF Gx2Inv

LEMMA Gx2Stays == Gx2Inv /\ ScenarioInv /\ [Next]_vars => Gx2Inv' /\ ScenarioInv'
<1>. SUFFICES ASSUME Gx2Inv, ScenarioInv, [Next]_vars PROVE Gx2Inv' /\ ScenarioInv'
  OBVIOUS
<1>1. CASE UNCHANGED vars
  BY <1>1 DEF vars, Gx2Inv, ScenarioInv
<1>2. CASE Next
  <2>1. Gx2Inv'
    BY <1>2, StepClasses, QuietStepKeeps, HostStep
  <2>2. scenario' = scenario
    BY <1>2 DEF Next, Registers, Resources, Surfaces, Stream, Display, Publish, Apply, SetState,
                InitStateReg, SetStateReg, ChangeSampler, DescribeTexture, GX2InitTextureRegs, SetTexture,
                SetSampler, SetSamplerBorderColor, GX2CalcSurfaceSizeAndAlignment, GX2RLockSurfaceEx,
                GX2RUnlockSurfaceEx, GX2RCreateSurfaceUserMemory, BindObject, GuestWrites, GX2DrawEx,
                GX2SwapScanBuffers, GX2Flush, GX2DrawDone, GX2SetGPUFence, GX2Init, GX2SetupContextStateEx,
                GX2SetContextState, GX2LeaveContextState, GX2SetTVBuffer, GX2SetTVEnable, GX2WaitForVsync
  <2>. QED BY <2>1, <2>2 DEF ScenarioInv
<1>. QED BY <1>1, <1>2

\* The state every scenario keeps: the queue's last swap is of the latest flip, the
\* configured television has the size its mode says, the next deadline is on the beat of the
\* first, and the surface is an object.
THEOREM Gx2Correct == Spec => [](Gx2Inv /\ ScenarioInv)
<1>. QED BY Gx2Initially, Gx2Stays, PTL DEF Spec

\* A wait for the vertical blank sleeps at least a moment and at most a period, and is to end
\* at a whole number of periods from the first, for every period, however late the title
\* comes and however long a sleep oversleeps (wait_for_gx2_vsync).
THEOREM WaitsOnTheBeat == Spec => []VsyncPaced
<1>1. Gx2Inv => VsyncPaced
  BY DEF Gx2Inv, PaceOf, VsyncPaced
<1>. QED BY <1>1, Gx2Correct, PTL

\* A surface whose creation fails keeps every field (create_gx2_surface_user_memory): only
\* that call fails, and it puts back the one field it wrote.
THEOREM FailedCreationRestores == Spec => FailedCreateKeepsSurface
<1>. DEFINE A == call'.n # call.n /\ call'.name = "Failed" => guest'.surface = guest.surface
<1>1. Gx2Inv /\ ScenarioInv /\ [Next]_vars => [A]_vars
  <2>. SUFFICES ASSUME Gx2Inv, ScenarioInv, Next PROVE A
    OBVIOUS
  <2>1. CASE QuietStep
    BY <2>1 DEF QuietStep
  <2>2. CASE Counted
    BY <2>2 DEF Counted
  <2>3. CASE Publish \/ Apply
    BY <2>3 DEF Publish, Apply
  <2>. QED BY <2>1, <2>2, <2>3, StepClasses
<1>. QED BY <1>1, Gx2Correct, PTL DEF FailedCreateKeepsSurface, Spec

\* The last swap of a queue is of the latest flip.
LEMMA LastSwapValue ==
  ASSUME NEW p, NEW flips, IsSequence(p), LastSwapIs(p, flips),
         \E n \in DOMAIN p : p[n].type = "scan_buffer_swap"
  PROVE  LET swaps == {n \in DOMAIN p : p[n].type = "scan_buffer_swap"}
         IN swaps # {} /\ p[Max(swaps)].value = flips
<1>. DEFINE swaps == {n \in DOMAIN p : p[n].type = "scan_buffer_swap"}
<1>1. DOMAIN p = 1..Len(p) /\ Len(p) \in Nat
  BY LenProperties DEF IsSequence
<1>2. swaps # {} /\ swaps \in SUBSET (1..Len(p))
  BY <1>1
<1>3. Max(swaps) \in swaps /\ \A y \in swaps : Max(swaps) >= y
  <2>. HIDE DEF swaps
  <2>. QED BY <1>1, <1>2, LastPosition
<1>. DEFINE m == Max(swaps)
<1>4. m \in 1..Len(p) /\ IsSwap(p[m]) /\ \A k \in swaps : m >= k
  BY <1>1, <1>3 DEF IsSwap
<1>. HIDE DEF m
<1>5. \A k \in m + 1..Len(p) : ~IsSwap(p[k])
  BY <1>1, <1>4 DEF IsSwap
<1>6. p[m].value = flips
  BY <1>4, <1>5 DEF LastSwapIs
<1>. QED BY <1>2, <1>6 DEF m

\* A buffer of the ring and the one after it are inside the memory of all of them.
LEMMA BufferInside ==
  ASSUME NEW w \in Nat, NEW h \in Nat, NEW count \in 1..3, NEW index \in 0..count - 1
  PROVE  /\ (4 * w * h) * index \in Nat /\ 4 * w * h \in Nat
         /\ (4 * w * h) * index + 4 * w * h <= w * h * 4 * count
<1>. DEFINE f == 4 * w * h
<1>1. f \in Nat /\ w * h * 4 * count = f * count
  OBVIOUS
<1>. HIDE DEF f
<1>2. f * index \in Nat /\ f * index + f <= f * count
  <2>1. CASE count = 1
    BY <1>1, <2>1
  <2>2. CASE count = 2
    <3>1. index = 0 \/ index = 1
      BY <2>2
    <3>. QED BY <1>1, <2>2, <3>1
  <2>3. CASE count = 3
    <3>1. index = 0 \/ index = 1 \/ index = 2
      BY <2>3
    <3>. QED BY <1>1, <2>3, <3>1
  <2>. QED BY <2>1, <2>2, <2>3
<1>. QED BY <1>1, <1>2 DEF f

LEMMA CaptureOfSwap ==
  ASSUME Gx2Inv, gx2.tv # Null, gx2.tv_enabled # FALSE,
         \E n \in DOMAIN gx2.pending : gx2.pending[n].type = "scan_buffer_swap",
         NEW captured, captured = capture_tv_scanout(gx2.pending)
  PROVE  captured # Null /\ captured.swap = gx2.flips /\ captured.offset + captured.size <= gx2.tv.size
<1>0. StreamOf(gx2) /\ TvOf(gx2)
  BY DEF Gx2Inv
<1>. DEFINE swaps == {n \in DOMAIN gx2.pending : gx2.pending[n].type = "scan_buffer_swap"}
            request == gx2.pending[Max(swaps)].value
            frame_size == 4 * gx2.tv.width * gx2.tv.height
            frame_offset == frame_size * buffer_index(request, get_scan_buffer_count(gx2.tv.buffering_mode))
<1>1. swaps # {} /\ request = gx2.flips /\ gx2.flips \in Nat
  BY <1>0, LastSwapValue DEF StreamOf
<1>2. captured = IF frame_offset + frame_size > gx2.tv.size THEN Null
                 ELSE [offset |-> frame_offset, size |-> frame_size, swap |-> request]
  BY <1>1 DEF capture_tv_scanout
<1>. HIDE DEF swaps, request
<1>3. PICK d \in Dimensions, count \in 1..3 :
        gx2.tv = [width |-> d[1], height |-> d[2], buffering_mode |-> count, size |-> d[1] * d[2] * 4 * count]
  BY <1>0, Zenon DEF TvOf
<1>. DEFINE w == d[1]
            h == d[2]
            index == buffer_index(request, count)
<1>4. w \in Nat /\ h \in Nat
  BY DEF Dimensions
<1>5. index \in 0..count - 1
  BY <1>1 DEF buffer_index
<1>6. get_scan_buffer_count(count) = count
  BY DEF get_scan_buffer_count
<1>7. gx2.tv.width = w /\ gx2.tv.height = h /\ gx2.tv.buffering_mode = count /\ gx2.tv.size = w * h * 4 * count
  BY <1>3
<1>8. frame_size = 4 * w * h /\ frame_offset = (4 * w * h) * index
  BY <1>6, <1>7
<1>. HIDE DEF w, h, index, frame_size, frame_offset
<1>9. frame_offset \in Nat /\ frame_size \in Nat /\ frame_offset + frame_size <= gx2.tv.size
      /\ gx2.tv.size \in Nat
  BY <1>4, <1>5, <1>7, <1>8, BufferInside
<1>10. captured = [offset |-> frame_offset, size |-> frame_size, swap |-> request]
  BY <1>2, <1>9
<1>11. captured # Null
  BY <1>1, <1>9, <1>10, PeriodAssumption
<1>. QED BY <1>1, <1>9, <1>10, <1>11

\* Every chunk that swaps a configured, enabled scan buffer yields the frame of its last swap,
\* inside the memory whose size GX2CalcTVSize gave, for every stream of calls
\* (capture_tv_scanout).
THEOREM SwapsAreCaptured == Spec => FramesCaptured
<1>. DEFINE A == /\ gx2.pending # <<>> /\ gx2'.pending = <<>> /\ call' = call
                 /\ gx2.tv # Null /\ gx2.tv_enabled # FALSE
                 /\ \E n \in DOMAIN gx2.pending : gx2.pending[n].type = "scan_buffer_swap"
                 => /\ scanout' # Null /\ scanout'.swap = gx2.flips
                    /\ scanout'.offset + scanout'.size <= gx2.tv.size
<1>1. Gx2Inv /\ ScenarioInv /\ [Next]_vars => [A]_vars
  <2>. SUFFICES ASSUME Gx2Inv, ScenarioInv, Next,
                       gx2.pending # <<>>, gx2'.pending = <<>>, call' = call, gx2.tv # Null,
                       gx2.tv_enabled # FALSE,
                       \E n \in DOMAIN gx2.pending : gx2.pending[n].type = "scan_buffer_swap"
                PROVE  /\ scanout' # Null /\ scanout'.swap = gx2.flips
                       /\ scanout'.offset + scanout'.size <= gx2.tv.size
    BY Zenon
  <2>1. call'.n # call.n + 1
    BY DEF Gx2Inv, CallOf
  <2>2. ~QuietStep /\ ~Counted /\ ~Apply
    BY <2>1 DEF QuietStep, Counted, Apply
  <2>3. Publish
    BY <2>2, StepClasses
  <2>. DEFINE captured == capture_tv_scanout(gx2.pending)
  <2>4. captured # Null /\ captured.swap = gx2.flips /\ captured.offset + captured.size <= gx2.tv.size
    BY CaptureOfSwap
  <2>5. scanout' = IF captured = Null THEN scanout ELSE captured
    BY <2>3 DEF Publish
  <2>. HIDE DEF captured
  <2>. QED BY <2>4, <2>5
<1>. QED BY <1>1, Gx2Correct, PTL DEF FramesCaptured, Spec

----------------------------------------------------------------------------
(* The replay of commands: one after another, and a stream in two parts as  *)
(* its parts in turn.                                                       *)

LEMMA Induction ==
  ASSUME NEW T, 0 \in T, \A n \in Nat : n \in T => n + 1 \in T
  PROVE  \A n \in Nat : n \in T
<1>. DEFINE U == {n \in Nat : n \notin T}
<1>1. ASSUME U # {} PROVE FALSE
  <2>1. PICK m \in U : \A k \in U : ~(<<k, m>> \in OpToRel(<, Nat))
    <3>1. U \subseteq Nat
      OBVIOUS
    <3>. HIDE DEF U
    <3>. QED BY <1>1, <3>1, NatLessThanWellFounded, WFMin
  <2>2. m \in Nat /\ m # 0 /\ m - 1 \in Nat
    OBVIOUS
  <2>3. m - 1 \in T => m \in T
    BY <2>2
  <2>4. m - 1 \in U
    BY <2>2, <2>3
  <2>5. <<m - 1, m>> \in OpToRel(<, Nat)
    BY <2>2 DEF OpToRel
  <2>. QED BY <2>1, <2>4, <2>5
<1>. QED BY <1>1

\* The last position of a set is the one that is not below another of it.
LEMMA LastIs ==
  ASSUME NEW S, S \subseteq Int, NEW m \in S, \A y \in S : m >= y
  PROVE  Max(S) = m
<1>. DEFINE R == {x \in S : \A y \in S : x >= y}
<1>1. \A x \in R : x = m
  <2>. TAKE x \in R
  <2>1. m >= x /\ x >= m /\ x \in Int /\ m \in Int
    OBVIOUS
  <2>. QED BY <2>1
<1>. QED BY <1>1 DEF Max

Next_of(before, command) == Evaluated(LAMBDA now : apply(now, command), before)
LEMMA NextOf == \A s, c : Next_of(s, c) = apply(s, c)
BY DEF Next_of, Evaluated

\* The function a fold over the commands c from state s recurses through, over the sets of
\* their positions; the commands up to n are the set 1..n.
Folds(f, s, c, D) ==
  f = [T \in SUBSET D |-> IF T = {} THEN s ELSE Next_of(f[T \ {Max(T)}], c[Max(T)])]
Folded(s, c)  == CHOOSE f : Folds(f, s, c, DOMAIN c)
Upto(s, c, n) == Folded(s, c)[1..n]

LEMMA AppliedIsFold == \A s, c : applied(s, c) = Folded(s, c)[DOMAIN c]
BY Zenon DEF applied, FoldLeft, MapThenFoldSet, Folds, Folded, Next_of

LEMMA FoldExists ==
  ASSUME NEW s, NEW c
  PROVE  \A n \in Nat : \E f : Folds(f, s, c, 1..n)
<1>. DEFINE T == {n \in Nat : \E f : Folds(f, s, c, 1..n)}
<1>1. 0 \in T
  <2>. DEFINE f == [P \in SUBSET (1..0) |-> s]
  <2>1. \A P \in SUBSET (1..0) : P = {}
    OBVIOUS
  <2>2. Folds(f, s, c, 1..0)
    BY <2>1 DEF Folds
  <2>. QED BY <2>2
<1>2. ASSUME NEW n \in Nat, n \in T PROVE n + 1 \in T
  <2>1. PICK f : Folds(f, s, c, 1..n)
    BY <1>2
  <2>. DEFINE V(P) == IF n + 1 \in P THEN Next_of(f[P \ {n + 1}], c[n + 1]) ELSE f[P]
              g == [P \in SUBSET (1..n + 1) |-> V(P)]
  <2>2. ASSUME NEW P \in SUBSET (1..n + 1)
        PROVE  V(P) = IF P = {} THEN s ELSE Next_of(g[P \ {Max(P)}], c[Max(P)])
    <3>1. CASE P = {}
      <4>1. {} \in SUBSET (1..n)
        OBVIOUS
      <4>2. f[{}] = s
        BY <2>1, <4>1 DEF Folds
      <4>. QED BY <3>1, <4>2
    <3>2. CASE n + 1 \in P
      <4>1. Max(P) = n + 1
        <5>1. P \subseteq Int /\ \A y \in P : n + 1 >= y
          OBVIOUS
        <5>. QED BY <3>2, <5>1, LastIs
      <4>2. P \ {n + 1} \in SUBSET (1..n + 1) /\ n + 1 \notin P \ {n + 1} /\ P # {}
        BY <3>2
      <4>3. g[P \ {n + 1}] = f[P \ {n + 1}]
        BY <4>2, Zenon
      <4>. QED BY <3>2, <4>1, <4>2, <4>3, Zenon
    <3>3. CASE P # {} /\ n + 1 \notin P
      <4>1. P \in SUBSET (1..n)
        BY <3>3
      <4>2. Max(P) \in P
        BY <3>3, <4>1, LastPosition
      <4>. DEFINE Q == P \ {Max(P)}
      <4>3. Q \in SUBSET (1..n + 1) /\ n + 1 \notin Q
        BY <3>3
      <4>4. g[Q] = f[Q]
        <5>. HIDE DEF Q
        <5>. QED BY <4>3, Zenon
      <4>5. f[P] = Next_of(f[Q], c[Max(P)])
        BY <2>1, <3>3, <4>1, Zenon DEF Folds
      <4>. QED BY <3>3, <4>4, <4>5, Zenon
    <3>. QED BY <3>1, <3>2, <3>3, Zenon
  <2>3. Folds(g, s, c, 1..n + 1)
    <3>. HIDE DEF V
    <3>1. g = [P \in SUBSET (1..n + 1) |-> V(P)]
      OBVIOUS
    <3>. HIDE DEF g
    <3>2. \A P \in SUBSET (1..n + 1) : V(P) = IF P = {} THEN s ELSE Next_of(g[P \ {Max(P)}], c[Max(P)])
      BY <2>2 DEF V, g
    <3>3. [P \in SUBSET (1..n + 1) |-> V(P)]
            = [P \in SUBSET (1..n + 1) |-> IF P = {} THEN s ELSE Next_of(g[P \ {Max(P)}], c[Max(P)])]
      BY <3>2, Zenon
    <3>. QED BY <3>1, <3>3, Zenon DEF Folds
  <2>. QED BY <2>3
<1>. HIDE DEF T
<1>3. \A n \in Nat : n \in T
  BY <1>1, <1>2, Induction
<1>. QED BY <1>3 DEF T

OneByOne(s, c, L) ==
  /\ applied(s, c) = Upto(s, c, L) /\ Upto(s, c, 0) = s
  /\ \A n \in Nat : n < L => Upto(s, c, n + 1) = apply(Upto(s, c, n), c[n + 1])

LEMMA AppliedUpto ==
  ASSUME NEW s, NEW c, IsSequence(c)
  PROVE  OneByOne(s, c, Len(c))
<1>1. DOMAIN c = 1..Len(c) /\ Len(c) \in Nat
  BY LenProperties DEF IsSequence
<1>. DEFINE f == Folded(s, c)
<1>2. Folds(f, s, c, 1..Len(c))
  <2>1. \E g : Folds(g, s, c, DOMAIN c)
    BY <1>1, FoldExists, Zenon
  <2>2. Folds(f, s, c, DOMAIN c)
    BY <2>1, Zenon DEF Folded
  <2>. QED BY <1>1, <2>2, Zenon
<1>. HIDE DEF f
<1>3. f[1..0] = s
  <2>1. 1..0 = {} /\ {} \in SUBSET (1..Len(c))
    OBVIOUS
  <2>. QED BY <1>2, <2>1 DEF Folds
<1>4. ASSUME NEW n \in Nat, n < Len(c) PROVE f[1..n + 1] = apply(f[1..n], c[n + 1])
  <2>. DEFINE P == 1..n + 1
  <2>. DEFINE k == Len(c)
  <2>0. k \in Nat /\ n < k
    BY <1>1, <1>4
  <2>. HIDE DEF k
  <2>1. P \in SUBSET (1..k) /\ P # {} /\ n + 1 \in P /\ P \subseteq Int
        /\ (\A y \in P : n + 1 >= y) /\ P \ {n + 1} = 1..n
    BY <2>0
  <2>. HIDE DEF P
  <2>2. Max(P) = n + 1
    BY <2>1, LastIs
  <2>3. f[P] = Next_of(f[P \ {Max(P)}], c[Max(P)])
    BY <1>2, <2>1, Zenon DEF Folds, k
  <2>. QED BY <2>1, <2>2, <2>3, NextOf, Zenon DEF P
<1>5. applied(s, c) = f[1..Len(c)]
  BY <1>1, AppliedIsFold, Zenon DEF f
<1>. QED BY <1>3, <1>4, <1>5, Zenon DEF f, Upto, OneByOne

\* Commands queued after others are applied to what those left.
LEMMA AppliedJoined ==
  ASSUME NEW s, NEW c, NEW d, IsSequence(c), IsSequence(d)
  PROVE  applied(s, c \o d) = applied(applied(s, c), d)
<1>. DEFINE e == c \o d
            t == applied(s, c)
<1>1. /\ IsSequence(e) /\ Len(c) \in Nat /\ Len(d) \in Nat /\ Len(e) = Len(c) + Len(d)
      /\ \A n \in 1..Len(c) + Len(d) : e[n] = IF n <= Len(c) THEN c[n] ELSE d[n - Len(c)]
  BY Joined
<1>. HIDE DEF e, t
<1>. DEFINE k == Len(c)
            m == Len(d)
<1>2. OneByOne(s, e, k + m)
  <2>1. Len(e) = k + m
    BY <1>1
  <2>2. OneByOne(s, e, Len(e))
    BY <1>1, AppliedUpto, Zenon
  <2>. QED BY <2>1, <2>2, Zenon
<1>3. OneByOne(s, c, k) /\ applied(s, c) = t
  BY AppliedUpto, Zenon DEF t
<1>4. OneByOne(t, d, m)
  BY AppliedUpto, Zenon
<1>5. k \in Nat /\ m \in Nat /\ \A n \in 1..k + m : e[n] = IF n <= k THEN c[n] ELSE d[n - k]
  BY <1>1
<1>. HIDE DEF k, m
<1>6. Upto(s, e, k) = t
  <2>. DEFINE T == {n \in Nat : n <= k => Upto(s, e, n) = Upto(s, c, n)}
  <2>1. 0 \in T
    BY <1>2, <1>3 DEF OneByOne
  <2>2. ASSUME NEW n \in Nat, n \in T PROVE n + 1 \in T
    <3>. SUFFICES ASSUME n + 1 <= k PROVE Upto(s, e, n + 1) = Upto(s, c, n + 1)
      OBVIOUS
    <3>1. n < k /\ n < k + m /\ n + 1 \in 1..k + m /\ n <= k
      BY <1>5
    <3>2. e[n + 1] = c[n + 1]
      BY <1>5, <3>1
    <3>3. Upto(s, e, n) = Upto(s, c, n)
      BY <2>2, <3>1
    <3>. QED BY <1>2, <1>3, <3>1, <3>2, <3>3, Zenon DEF OneByOne
  <2>. HIDE DEF T
  <2>3. \A n \in Nat : n \in T
    BY <2>1, <2>2, Induction
  <2>4. k \in T
    BY <1>5, <2>3, Zenon
  <2>5. k <= k
    BY <1>5
  <2>6. Upto(s, e, k) = Upto(s, c, k)
    BY <2>4, <2>5, Zenon DEF T
  <2>. QED BY <1>3, <2>6, Zenon DEF OneByOne
<1>7. Upto(s, e, k + m) = Upto(t, d, m)
  <2>. DEFINE T == {n \in Nat : n <= m => Upto(s, e, k + n) = Upto(t, d, n)}
  <2>1. 0 \in T
    BY <1>4, <1>5, <1>6 DEF OneByOne
  <2>2. ASSUME NEW n \in Nat, n \in T PROVE n + 1 \in T
    <3>. SUFFICES ASSUME n + 1 <= m PROVE Upto(s, e, k + (n + 1)) = Upto(t, d, n + 1)
      OBVIOUS
    <3>1. n < m /\ k + n \in Nat /\ k + n < k + m /\ (k + n) + 1 \in 1..k + m /\ k + (n + 1) = (k + n) + 1
          /\ ((k + n) + 1) - k = n + 1 /\ ~((k + n) + 1 <= k) /\ n <= m
      BY <1>5
    <3>2. e[(k + n) + 1] = d[n + 1]
      BY <1>5, <3>1
    <3>3. Upto(s, e, k + n) = Upto(t, d, n)
      BY <2>2, <3>1
    <3>. QED BY <1>2, <1>4, <3>1, <3>2, <3>3 DEF OneByOne
  <2>. HIDE DEF T
  <2>3. \A n \in Nat : n \in T
    BY <2>1, <2>2, Induction
  <2>. QED BY <1>5, <2>3 DEF T
<1>. QED BY <1>2, <1>4, <1>7, Zenon DEF e, t, OneByOne

LEMMA AppliedOne ==
  ASSUME NEW s, NEW c
  PROVE  applied(s, <<c>>) = apply(s, c)
<1>1. IsSequence(<<c>>) /\ Len(<<c>>) = 1 /\ <<c>>[1] = c
  BY Alone
<1>. DEFINE q == <<c>>
<1>. HIDE DEF q
<1>2. OneByOne(s, q, 1)
  <2>1. IsSequence(q) /\ Len(q) = 1
    BY <1>1, Zenon DEF q
  <2>. QED BY <2>1, AppliedUpto, Zenon
<1>3. 0 \in Nat /\ 0 < 1 /\ 0 + 1 = 1
  OBVIOUS
<1>4. Upto(s, q, 1) = apply(s, q[1])
  BY <1>2, <1>3, Zenon DEF OneByOne
<1>. QED BY <1>1, <1>2, <1>4, Zenon DEF q, OneByOne

LEMMA AppliedNone == \A s : applied(s, <<>>) = s
<1>. TAKE s
<1>1. IsSequence(<<>>) /\ Len(<<>>) = 0
  BY EmptySeq DEF IsSequence
<1>2. OneByOne(s, <<>>, Len(<<>>))
  BY <1>1, AppliedUpto, Zenon
<1>. QED BY <1>1, <1>2, Zenon DEF OneByOne

\* A property of states that every command keeps, a stream of them keeps.
StateParts == DOMAIN Blank
LEMMA ApplyKeepsParts == \A s, c : DOMAIN apply(s, c) = DOMAIN s
BY DEF apply

LEMMA AppliedKeepsParts ==
  ASSUME NEW s, NEW c, IsSequence(c)
  PROVE  DOMAIN applied(s, c) = DOMAIN s
<1>1. OneByOne(s, c, Len(c))
  BY AppliedUpto, Zenon
<1>2. Len(c) \in Nat
  BY LenProperties DEF IsSequence
<1>. DEFINE k == Len(c)
            T == {n \in Nat : n <= k => DOMAIN Upto(s, c, n) = DOMAIN s}
<1>. HIDE DEF k
<1>3. 0 \in T
  BY <1>1 DEF OneByOne
<1>4. ASSUME NEW n \in Nat, n \in T PROVE n + 1 \in T
  <2>. SUFFICES ASSUME n + 1 <= k PROVE DOMAIN Upto(s, c, n + 1) = DOMAIN s
    OBVIOUS
  <2>1. n < k /\ n <= k
    BY <1>2 DEF k
  <2>2. DOMAIN Upto(s, c, n) = DOMAIN s
    BY <1>4, <2>1
  <2>3. Upto(s, c, n + 1) = apply(Upto(s, c, n), c[n + 1])
    BY <1>1, <2>1, Zenon DEF k, OneByOne
  <2>. QED BY <2>2, <2>3, ApplyKeepsParts, Zenon
<1>. HIDE DEF T
<1>5. \A n \in Nat : n \in T
  BY <1>3, <1>4, Induction
<1>6. k \in T
  BY <1>2, <1>5 DEF k
<1>. QED BY <1>1, <1>2, <1>6 DEF T, k, OneByOne

LEMMA OverIs == ASSUME NEW f, NEW g 
  PROVE /\ DOMAIN Over(f, g) = DOMAIN f \cup DOMAIN g
        /\ \A x \in DOMAIN f : Over(f, g)[x] = f[x]
        /\ \A x \in DOMAIN g : x \notin DOMAIN f => Over(f, g)[x] = g[x]
BY DEF Over
LEMMA EntryIs == ASSUME NEW a, NEW b PROVE DOMAIN Entry(a, b) = {a} /\ Entry(a, b)[a] = b
<1>1. DOMAIN Entry(a, b) = {a}
  BY DEF Entry
<1>2. Entry(a, b)[a] = b
  BY DEF Entry
<1>. QED BY <1>1, <1>2
\* The mirrored registers are context registers past the borders and below the resources.
ContextRange == \h28000..\h28FFF
LEMMA StateRegistersAreContext ==
  ASSUME NEW state \in MirroredStates, NEW unit, state = "BlendControl" => unit \in 0..7
  PROVE  Range(RegistersOf(state, unit)) \subseteq ContextRange
<1>3. ASSUME NEW a PROVE Range(<<a>>) = {a}
  BY DEF Range
<1>4. ASSUME NEW a, NEW b PROVE Range(<<a, b>>) = {a, b}
  BY DEF Range
<1>5. ASSUME NEW a, NEW b, NEW c, NEW d PROVE Range(<<a, b, c, d>>) = {a, b, c, d}
  BY DEF Range
<1>6. CASE state = "DepthStencilControl"
  <2>1. Range(RegistersOf("DepthStencilControl", unit)) = {db_depth_control_register}
    BY <1>3, Zenon DEF RegistersOf
  <2>. QED BY <1>6, <2>1 DEF ContextRange, db_depth_control_register
<1>7. CASE state = "StencilMask"
  <2>1. Range(RegistersOf("StencilMask", unit)) = {db_stencilrefmask_register, db_stencilrefmask_bf_register}
    BY <1>4, Zenon DEF RegistersOf
  <2>. QED BY <1>7, <2>1 DEF ContextRange, db_stencilrefmask_register,
                                   db_stencilrefmask_bf_register
<1>8. CASE state = "PolygonControl"
  <2>1. Range(RegistersOf("PolygonControl", unit)) = {pa_su_sc_mode_cntl_register}
    BY <1>3, Zenon DEF RegistersOf
  <2>. QED BY <1>8, <2>1 DEF ContextRange, pa_su_sc_mode_cntl_register
<1>9. CASE state = "ColorControl"
  <2>1. Range(RegistersOf("ColorControl", unit)) = {cb_color_control_register}
    BY <1>3, Zenon DEF RegistersOf
  <2>. QED BY <1>9, <2>1 DEF ContextRange, cb_color_control_register
<1>10. CASE state = "BlendControl"
  <2>1. Range(RegistersOf("BlendControl", unit)) = {cb_blend0_control_register + 4 * unit}
    BY <1>3, Zenon DEF RegistersOf
  <2>2. unit \in 0..7
    BY <1>10
  <2>. QED BY <2>1, <2>2, <1>10 DEF ContextRange, cb_blend0_control_register
<1>11. CASE state = "BlendConstantColor"
  <2>. DEFINE r == cb_blend_red_register
              g == cb_blend_green_register
              b == cb_blend_blue_register
              a == cb_blend_alpha_register
  <2>1. RegistersOf("BlendConstantColor", unit) = <<r, g, b, a>>
    BY Zenon DEF RegistersOf, blend_constant_registers
  <2>. HIDE DEF r, g, b, a
  <2>2. Range(RegistersOf("BlendConstantColor", unit)) = {r, g, b, a}
    BY <1>5, <2>1
  <2>. QED BY <1>11, <2>2 DEF r, g, b, a, ContextRange, cb_blend_red_register, cb_blend_green_register,
                              cb_blend_blue_register, cb_blend_alpha_register
<1>12. CASE state = "AlphaTest"
  <2>1. Range(RegistersOf("AlphaTest", unit)) = {sx_alpha_test_control_register, sx_alpha_ref_register}
    BY <1>4, Zenon DEF RegistersOf
  <2>. QED BY <1>12, <2>1 DEF ContextRange, sx_alpha_test_control_register,
                                    sx_alpha_ref_register
<1>13. CASE state = "TargetChannelMasks"
  <2>1. Range(RegistersOf("TargetChannelMasks", unit)) = {cb_target_mask_register}
    BY <1>3, Zenon DEF RegistersOf
  <2>. QED BY <1>13, <2>1 DEF ContextRange, cb_target_mask_register
<1>14. CASE state = "AlphaToMask"
  <2>1. Range(RegistersOf("AlphaToMask", unit)) = {db_alpha_to_mask_register}
    BY <1>3, Zenon DEF RegistersOf
  <2>. QED BY <1>14, <2>1 DEF ContextRange, db_alpha_to_mask_register
<1>. QED BY <1>6, <1>7, <1>8, <1>9, <1>10, <1>11, <1>12, <1>13, <1>14, Zenon DEF MirroredStates

LEMMA MirroredAreContext == MirroredRegisters \subseteq ContextRange
<1>1. ASSUME NEW slot \in RegisterSlots, slot[1] \in MirroredStates
      PROVE  Range(RegistersOf(slot[1], slot[2])) \subseteq ContextRange
  <2>1. slot[1] = "BlendControl" => slot[2] \in 0..7
    BY DEF RegisterSlots
  <2>. QED BY <1>1, <2>1, StateRegistersAreContext
<1>. QED BY <1>1, Zenon DEF MirroredRegisters

\* What a command does to the registers and to the bindings.
RegisterTypes == {"set_context_register", "set_shader_resource", "set_shader_sampler"}
LEMMA ApplyWrite ==
  ASSUME NEW s, DOMAIN s = DOMAIN Blank, NEW type \in RegisterTypes, NEW at, NEW words,
         NEW t, t = apply(s, Command(type, at, words))
  PROVE  /\ t.bindings = s.bindings
         /\ DOMAIN t.registers = DOMAIN words \cup DOMAIN s.registers
         /\ \A r \in DOMAIN words : t.registers[r].value = words[r]
         /\ \A r \in DOMAIN s.registers : r \notin DOMAIN words => t.registers[r] = s.registers[r]
<1>. DEFINE c == Command(type, at, words)
<1>1. c.type = type /\ c.value = words
  BY DEF Command
<1>. HIDE DEF c
<1>. DEFINE q == [r \in DOMAIN words \cup DOMAIN s.registers |->
                    IF r \in DOMAIN words THEN [type |-> type, value |-> words[r]] ELSE s.registers[r]]
<1>2. apply(s, c) = [s EXCEPT !.registers = [r \in DOMAIN c.value \cup DOMAIN @ |->
                       IF r \in DOMAIN c.value THEN [type |-> c.type, value |-> c.value[r]] ELSE @[r]]]
  BY <1>1, Zenon DEF apply, RegisterTypes
<1>3. t = [s EXCEPT !.registers = q]
  BY <1>1, <1>2, Zenon DEF c
<1>4. /\ DOMAIN q = DOMAIN words \cup DOMAIN s.registers
      /\ \A r \in DOMAIN words : q[r].value = words[r]
      /\ \A r \in DOMAIN s.registers : r \notin DOMAIN words => q[r] = s.registers[r]
  OBVIOUS
<1>. HIDE DEF q
<1>5. t.registers = q /\ t.bindings = s.bindings
  BY <1>3 DEF Blank
<1>. QED BY <1>4, <1>5, Zenon

LEMMA ApplyBind ==
  ASSUME NEW s, DOMAIN s = DOMAIN Blank, NEW slot, NEW value, NEW binding \in DOMAIN Bindings,
         NEW t, t = apply(s, Command(Bindings[binding], slot, value))
  PROVE  /\ t.registers = s.registers
         /\ \/ t.bindings = Over(Entry(slot, value), s.bindings)
            \/ value = Null /\ t.bindings = [k \in DOMAIN s.bindings \ {slot} |-> s.bindings[k]]
<1>. DEFINE c == Command(Bindings[binding], slot, value)
            over == Over(Entry(slot, value), s.bindings)
            less == [k \in DOMAIN s.bindings \ {slot} |-> s.bindings[k]]
<1>1. c.type = Bindings[binding] /\ c.at = slot /\ c.value = value
  BY DEF Command
<1>. HIDE DEF c
<1>2. binding \in {"FetchShader", "ProgramShader", "VertexBuffer", "ColorBuffer", "DepthBuffer"}
  BY DEF Bindings
<1>3. CASE binding \notin Checked
  <2>1. Bindings[binding] \in {"set_vertex_buffer", "set_fetch_shader", "set_program_shader"}
    BY <1>2, <1>3 DEF Bindings, Checked
  <2>2. t = [s EXCEPT !.bindings = over]
    BY <1>1, <2>1, Zenon DEF apply, c
  <2>. HIDE DEF over
  <2>3. t.registers = s.registers /\ t.bindings = over
    BY <2>2 DEF Blank
  <2>. QED BY <2>3 DEF over
<1>4. CASE binding \in Checked
  <2>1. Bindings[binding] \in {"set_color_buffer", "set_depth_buffer"}
    BY <1>2, <1>4 DEF Bindings, Checked
  <2>2. t = [s EXCEPT !.bindings = IF value = Null THEN less ELSE over]
    BY <1>1, <2>1, Zenon DEF apply, c
  <2>. HIDE DEF over, less
  <2>3. t.registers = s.registers /\ t.bindings = IF value = Null THEN less ELSE over
    BY <2>2 DEF Blank
  <2>. QED BY <2>3, Zenon DEF over, less
<1>. QED BY <1>3, <1>4

\* Swaps, draws, fences and flushes leave registers and bindings alone.
QuietTypes == {"draw", "flush", "draw_done", "gpu_fence", "scan_buffer_swap"}
LEMMA ApplyQuiet ==
  ASSUME NEW s, DOMAIN s = DOMAIN Blank, NEW c, c.type \in QuietTypes, NEW t, t = apply(s, c)
  PROVE  t.registers = s.registers /\ t.bindings = s.bindings
<1>1. \/ t = s
      \/ t = [s EXCEPT !.fences = Append(@, c.value)]
      \/ t = [s EXCEPT !.swaps = Append(@, c.value)]
      \/ t = [s EXCEPT !.draws = Append(@, Drawn(s, c.value))]
  BY Zenon DEF apply, QuietTypes
<1>. QED BY <1>1 DEF Blank

LEMMA AppliedTwo ==
  ASSUME NEW s, NEW c, NEW d
  PROVE  applied(s, <<c, d>>) = apply(apply(s, c), d)
<1>. DEFINE q == <<c, d>>
<1>1. IsSequence(q) /\ Len(q) = 2 /\ q[1] = c /\ q[2] = d
  <2>1. q \in Seq({c, d}) /\ Len(q) = 2 /\ q[1] = c /\ q[2] = d
    OBVIOUS
  <2>. HIDE DEF q
  <2>. QED BY <2>1, Zenon DEF IsSequence
<1>. HIDE DEF q
<1>2. OneByOne(s, q, Len(q))
  BY <1>1, AppliedUpto, Zenon
<1>3. 0 \in Nat /\ 1 \in Nat /\ 0 < 2 /\ 1 < 2 /\ 0 + 1 = 1 /\ 1 + 1 = 2
  OBVIOUS
<1>4. Upto(s, q, 0) = s /\ Upto(s, q, 1) = apply(Upto(s, q, 0), c)
      /\ Upto(s, q, 2) = apply(Upto(s, q, 1), d)
  BY <1>1, <1>2, <1>3 DEF OneByOne
<1>5. applied(s, q) = Upto(s, q, 2)
  BY <1>1, <1>2, Zenon DEF OneByOne
<1>. QED BY <1>4, <1>5, Zenon DEF q

LEMMA AppliedThree ==
  ASSUME NEW s, NEW c, NEW d, NEW e
  PROVE  applied(s, <<c, d, e>>) = apply(apply(apply(s, c), d), e)
<1>. DEFINE q == <<c, d, e>>
<1>1. IsSequence(q) /\ Len(q) = 3 /\ q[1] = c /\ q[2] = d /\ q[3] = e
  <2>1. q \in Seq({c, d, e}) /\ Len(q) = 3 /\ q[1] = c /\ q[2] = d /\ q[3] = e
    OBVIOUS
  <2>. HIDE DEF q
  <2>. QED BY <2>1, Zenon DEF IsSequence
<1>. HIDE DEF q
<1>2. OneByOne(s, q, Len(q))
  BY <1>1, AppliedUpto, Zenon
<1>3. 0 \in Nat /\ 1 \in Nat /\ 2 \in Nat /\ 0 < 3 /\ 1 < 3 /\ 2 < 3 /\ 0 + 1 = 1 /\ 1 + 1 = 2 /\ 2 + 1 = 3
  OBVIOUS
<1>4. Upto(s, q, 0) = s /\ Upto(s, q, 1) = apply(Upto(s, q, 0), c)
      /\ Upto(s, q, 2) = apply(Upto(s, q, 1), d) /\ Upto(s, q, 3) = apply(Upto(s, q, 2), e)
  BY <1>1, <1>2, <1>3 DEF OneByOne
<1>5. applied(s, q) = Upto(s, q, 3)
  BY <1>1, <1>2, Zenon DEF OneByOne
<1>. QED BY <1>4, <1>5, Zenon DEF q

----------------------------------------------------------------------------
(* The mirrors of the registers, and the bindings, against the replay.      *)

MirrorsMatch(state, mirrors, context) ==
  \A r \in DOMAIN mirrors :
    /\ r \in MirroredRegisters /\ r \in DOMAIN state.registers
    /\ state.registers[r].value \in {mirrors[r], Zero}
    /\ state.registers[r].value # mirrors[r] => context
BindingsMatch(state, bound) ==
  \A slot \in DOMAIN bound : slot[1] \in DOMAIN Bindings =>
    bound[slot] = IF slot \in DOMAIN state.bindings THEN state.bindings[slot] ELSE Null

\* A setter's writes go to its mirrors and to the registers alike.
LEMMA SetterMatches ==
  ASSUME NEW s, DOMAIN s = DOMAIN Blank, NEW m, NEW b, NEW context \in BOOLEAN, NEW words, NEW at,
         MirrorsMatch(s, m, context), BindingsMatch(s, b),
         NEW t, t = apply(s, Command("set_context_register", at, words)),
         NEW n, n = Over(Restrict(words, DOMAIN words \cap MirroredRegisters), m)
  PROVE  MirrorsMatch(t, n, context) /\ BindingsMatch(t, b)
<1>1. /\ t.bindings = s.bindings
      /\ DOMAIN t.registers = DOMAIN words \cup DOMAIN s.registers
      /\ \A r \in DOMAIN words : t.registers[r].value = words[r]
      /\ \A r \in DOMAIN s.registers : r \notin DOMAIN words => t.registers[r] = s.registers[r]
  BY ApplyWrite DEF RegisterTypes
<1>. DEFINE w == Restrict(words, DOMAIN words \cap MirroredRegisters)
<1>2. DOMAIN w = DOMAIN words \cap MirroredRegisters /\ \A r \in DOMAIN w : w[r] = words[r]
  BY DEF Restrict
<1>0. n = Over(w, m)
  BY Zenon DEF w
<1>. HIDE DEF w
<1>3. /\ DOMAIN n = DOMAIN w \cup DOMAIN m
      /\ \A r \in DOMAIN w : n[r] = w[r]
      /\ \A r \in DOMAIN m : r \notin DOMAIN w => n[r] = m[r]
  <2>1. /\ DOMAIN Over(w, m) = DOMAIN w \cup DOMAIN m
        /\ \A r \in DOMAIN w : Over(w, m)[r] = w[r]
        /\ \A r \in DOMAIN m : r \notin DOMAIN w => Over(w, m)[r] = m[r]
    BY DEF Over
  <2>. QED BY <1>0, <2>1
<1>4. ASSUME NEW r \in DOMAIN n
      PROVE  /\ r \in MirroredRegisters /\ r \in DOMAIN t.registers
             /\ t.registers[r].value \in {n[r], Zero}
             /\ t.registers[r].value # n[r] => context
  <2>1. CASE r \in DOMAIN words
    <3>1. r \in MirroredRegisters
      BY <1>2, <1>3, <1>4 DEF MirrorsMatch
    <3>2. n[r] = words[r] /\ t.registers[r].value = words[r] /\ r \in DOMAIN t.registers
      BY <1>1, <1>2, <1>3, <2>1, <3>1
    <3>. QED BY <3>1, <3>2
  <2>2. CASE r \notin DOMAIN words
    <3>1. r \in DOMAIN m /\ n[r] = m[r]
      BY <1>2, <1>3, <1>4, <2>2
    <3>2. r \in DOMAIN s.registers /\ t.registers[r] = s.registers[r] /\ r \in DOMAIN t.registers
      BY <1>1, <2>2, <3>1, Zenon DEF MirrorsMatch
    <3>. QED BY <3>1, <3>2, Zenon DEF MirrorsMatch
  <2>. QED BY <2>1, <2>2
<1>5. BindingsMatch(t, b)
  BY <1>1, Zenon DEF BindingsMatch
<1>. QED BY <1>4, <1>5, Zenon DEF MirrorsMatch

\* Writes elsewhere touch no mirror.
LEMMA ElsewhereMatches ==
  ASSUME NEW s, DOMAIN s = DOMAIN Blank, NEW m, NEW b, NEW context \in BOOLEAN, NEW words, NEW at,
         NEW type \in RegisterTypes, DOMAIN words \cap MirroredRegisters = {},
         MirrorsMatch(s, m, context), BindingsMatch(s, b),
         NEW t, t = apply(s, Command(type, at, words))
  PROVE  MirrorsMatch(t, m, context) /\ BindingsMatch(t, b)
<1>1. /\ t.bindings = s.bindings
      /\ DOMAIN t.registers = DOMAIN words \cup DOMAIN s.registers
      /\ \A r \in DOMAIN s.registers : r \notin DOMAIN words => t.registers[r] = s.registers[r]
  BY ApplyWrite
<1>2. ASSUME NEW r \in DOMAIN m
      PROVE  /\ r \in MirroredRegisters /\ r \in DOMAIN t.registers
             /\ t.registers[r].value \in {m[r], Zero}
             /\ t.registers[r].value # m[r] => context
  <2>1. r \in MirroredRegisters /\ r \in DOMAIN s.registers
    BY Zenon DEF MirrorsMatch
  <2>2. r \notin DOMAIN words
    BY <2>1
  <2>3. t.registers[r] = s.registers[r] /\ r \in DOMAIN t.registers
    BY <1>1, <2>1, <2>2
  <2>. QED BY <2>1, <2>3, Zenon DEF MirrorsMatch
<1>3. BindingsMatch(t, b)
  BY <1>1, Zenon DEF BindingsMatch
<1>. QED BY <1>2, <1>3, Zenon DEF MirrorsMatch

\* A restore zeroes registers whose mirrors it leaves.
LEMMA ZeroesMatch ==
  ASSUME NEW s, DOMAIN s = DOMAIN Blank, NEW m, NEW b, NEW addresses, NEW type \in RegisterTypes,
         MirrorsMatch(s, m, TRUE), BindingsMatch(s, b), NEW t, t = apply(s, Zeroes(type, addresses))
  PROVE  MirrorsMatch(t, m, TRUE) /\ BindingsMatch(t, b) /\ DOMAIN t = DOMAIN Blank
<1>. DEFINE words == [address \in addresses |-> Zero]
<1>0. DOMAIN words = addresses /\ \A r \in addresses : words[r] = Zero
  OBVIOUS
<1>. HIDE DEF words
<1>a. t = apply(s, Command(type, Null, words))
  BY Zenon DEF Zeroes, words
<1>1. /\ t.bindings = s.bindings
      /\ DOMAIN t.registers = DOMAIN words \cup DOMAIN s.registers
      /\ \A r \in DOMAIN words : t.registers[r].value = words[r]
      /\ \A r \in DOMAIN s.registers : r \notin DOMAIN words => t.registers[r] = s.registers[r]
  BY <1>a, ApplyWrite
<1>2. ASSUME NEW r \in DOMAIN m
      PROVE  /\ r \in MirroredRegisters /\ r \in DOMAIN t.registers
             /\ t.registers[r].value \in {m[r], Zero}
  <2>1. /\ r \in MirroredRegisters /\ r \in DOMAIN s.registers /\ r \in DOMAIN t.registers
        /\ s.registers[r].value \in {m[r], Zero}
    BY <1>1, Zenon DEF MirrorsMatch
  <2>2. CASE r \in addresses
    <3>1. t.registers[r].value = Zero
      BY <1>0, <1>1, <2>2, Zenon
    <3>. QED BY <2>1, <3>1
  <2>3. CASE r \notin addresses
    <3>1. t.registers[r] = s.registers[r]
      BY <1>0, <1>1, <2>1, <2>3, Zenon
    <3>. QED BY <2>1, <3>1
  <2>. QED BY <2>2, <2>3
<1>3. BindingsMatch(t, b)
  BY <1>1, Zenon DEF BindingsMatch
<1>. QED BY <1>2, <1>3, ApplyKeepsParts, Zenon DEF MirrorsMatch

\* An object is bound in the stream as it is noted.
LEMMA BindMatches ==
  ASSUME NEW s, DOMAIN s = DOMAIN Blank, NEW m, NEW b, NEW context \in BOOLEAN, NEW slot, NEW value,
         slot[1] \in DOMAIN Bindings, MirrorsMatch(s, m, context), BindingsMatch(s, b),
         NEW t, t = apply(s, Command(Bindings[slot[1]], slot, value))
  PROVE  MirrorsMatch(t, m, context) /\ BindingsMatch(t, Over(Entry(slot, value), b))
<1>. DEFINE binding == slot[1]
            less == [k \in DOMAIN s.bindings \ {slot} |-> s.bindings[k]]
            more == Over(Entry(slot, value), s.bindings)
            n    == Over(Entry(slot, value), b)
<1>1. t.registers = s.registers /\ (t.bindings = more \/ (value = Null /\ t.bindings = less))
  <2>1. binding \in DOMAIN Bindings /\ t = apply(s, Command(Bindings[binding], slot, value))
    OBVIOUS
  <2>. HIDE DEF binding
  <2>. QED BY <2>1, ApplyBind
<1>2. MirrorsMatch(t, m, context)
  BY <1>1, Zenon DEF MirrorsMatch
<1>3. /\ DOMAIN n = {slot} \cup DOMAIN b /\ n[slot] = value
      /\ \A k \in DOMAIN b : k # slot => n[k] = b[k]
  BY DEF Over, Entry
<1>4. /\ value = IF slot \in DOMAIN t.bindings THEN t.bindings[slot] ELSE Null
      /\ \A k : k # slot => /\ k \in DOMAIN t.bindings <=> k \in DOMAIN s.bindings
                            /\ k \in DOMAIN s.bindings => t.bindings[k] = s.bindings[k]
  <2>1. CASE value = Null /\ t.bindings = less
    <3>1. DOMAIN less = DOMAIN s.bindings \ {slot} /\ \A k \in DOMAIN less : less[k] = s.bindings[k]
      OBVIOUS
    <3>. HIDE DEF less
    <3>. QED BY <2>1, <3>1
  <2>2. CASE t.bindings = more
    <3>1. /\ DOMAIN more = {slot} \cup DOMAIN s.bindings /\ more[slot] = value
          /\ \A k \in DOMAIN s.bindings : k # slot => more[k] = s.bindings[k]
      BY DEF Over, Entry
    <3>. HIDE DEF more
    <3>. QED BY <2>2, <3>1
  <2>. QED BY <1>1, <2>1, <2>2
<1>. HIDE DEF n, less, more
<1>5. ASSUME NEW k \in DOMAIN n, k[1] \in DOMAIN Bindings
      PROVE  n[k] = IF k \in DOMAIN t.bindings THEN t.bindings[k] ELSE Null
  <2>1. CASE k = slot
    BY <1>3, <1>4, <2>1
  <2>2. CASE k # slot
    <3>1. k \in DOMAIN b /\ n[k] = b[k]
      BY <1>3, <1>5, <2>2
    <3>2. b[k] = IF k \in DOMAIN s.bindings THEN s.bindings[k] ELSE Null
      BY <1>5, <3>1, Zenon DEF BindingsMatch
    <3>. QED BY <1>4, <2>2, <3>1, <3>2
  <2>. QED BY <2>1, <2>2
<1>6. BindingsMatch(t, n)
  BY <1>5, Zenon DEF BindingsMatch
<1>. QED BY <1>2, <1>6 DEF n

----------------------------------------------------------------------------
(* The invariant under which the mirrors stay current.                      *)

StreamInv ==
  /\ IsSequence(published) /\ DOMAIN gpu = DOMAIN Blank
  /\ MirrorsMatch(Replayed, gx2.mirrors, guest.context) /\ BindingsMatch(Replayed, gx2.bound)
TitleInv == guest.context \in BOOLEAN /\ DOMAIN guest.sampler.words \subseteq 1..3
MirrorsInv == StreamInv /\ TitleInv

\* What is in the stream, in three parts: applied, published, and queued.
LEMMA ReplayedParts ==
  ASSUME StreamInv, StreamOf(gx2)
  PROVE  /\ Replayed = applied(applied(gpu, published), gx2.pending)
         /\ DOMAIN Replayed = DOMAIN Blank
<1>1. IsSequence(published) /\ IsSequence(gx2.pending) /\ DOMAIN gpu = DOMAIN Blank
  BY DEF StreamInv, StreamOf
<1>2. Replayed = applied(applied(gpu, published), gx2.pending)
  BY <1>1, AppliedJoined DEF Replayed
<1>3. DOMAIN applied(gpu, published) = DOMAIN Blank
  BY <1>1, AppliedKeepsParts
<1>4. DOMAIN applied(applied(gpu, published), gx2.pending) = DOMAIN Blank
  BY <1>1, <1>3, AppliedKeepsParts
<1>. QED BY <1>2, <1>4

\* Commands queued are applied to what the stream said.
LEMMA Queued ==
  ASSUME StreamInv, StreamOf(gx2), NEW q, IsSequence(q), gx2'.pending = gx2.pending \o q,
         published' = published, gpu' = gpu
  PROVE  Replayed' = applied(Replayed, q)
<1>1. IsSequence(published) /\ IsSequence(gx2.pending)
  BY DEF StreamInv, StreamOf
<1>. DEFINE p == gx2.pending \o q
            s == applied(gpu, published)
<1>2. IsSequence(p)
  BY <1>1, Joined
<1>3. Replayed' = applied(gpu, published \o p)
  BY DEF Replayed
<1>4. applied(gpu, published \o p) = applied(s, p)
  <2>. HIDE DEF p
  <2>. QED BY <1>1, <1>2, AppliedJoined
<1>5. applied(s, p) = applied(applied(s, gx2.pending), q)
  <2>. HIDE DEF s
  <2>. QED BY <1>1, AppliedJoined
<1>. QED BY <1>3, <1>4, <1>5, ReplayedParts

LEMMA QueuedOne ==
  ASSUME StreamInv, StreamOf(gx2), NEW c, gx2'.pending = Append(gx2.pending, c),
         published' = published, gpu' = gpu
  PROVE  Replayed' = apply(Replayed, c)
<1>. DEFINE q == <<c>>
<1>1. IsSequence(q) /\ gx2'.pending = gx2.pending \o q
  BY Alone, AppendJoins DEF StreamOf
<1>2. applied(Replayed, q) = apply(Replayed, c)
  BY AppliedOne
<1>. HIDE DEF q
<1>. QED BY <1>1, <1>2, Queued

\* A step that leaves the stream, the mirrors and the bindings alone.
LEMMA Still ==
  ASSUME StreamInv, TitleInv, gx2'.pending = gx2.pending, gx2'.mirrors = gx2.mirrors,
         gx2'.bound = gx2.bound, published' = published, gpu' = gpu,
         guest.context => guest'.context, guest'.context \in BOOLEAN
  PROVE  StreamInv'
<1>1. Replayed' = Replayed
  BY DEF Replayed
<1>2. MirrorsMatch(Replayed, gx2.mirrors, guest'.context)
  BY Zenon DEF StreamInv, MirrorsMatch
<1>3. /\ MirrorsMatch(Replayed', gx2'.mirrors, guest'.context)
      /\ BindingsMatch(Replayed', gx2'.bound)
  BY <1>1, <1>2 DEF StreamInv
<1>. QED BY <1>3 DEF StreamInv

\* A resource or a border bound is none of the bindings that are compared.
LEMMA BoundElsewhere ==
  ASSUME NEW s, NEW b, NEW slot, NEW value, BindingsMatch(s, b), slot[1] \notin DOMAIN Bindings
  PROVE  BindingsMatch(s, Over(Entry(slot, value), b))
<1>. DEFINE n == Over(Entry(slot, value), b)
<1>1. DOMAIN n = {slot} \cup DOMAIN b /\ \A k \in DOMAIN b : k # slot => n[k] = b[k]
  BY DEF Over, Entry
<1>. HIDE DEF n
<1>2. BindingsMatch(s, n)
  BY <1>1, Zenon DEF BindingsMatch
<1>. QED BY <1>2 DEF n

\* The registers of resources and of borders are no mirrored ones.
\* Numbers large enough to be named: Zenon counts up to them.
ContextFirst == \h28000
ContextLast  == \h28FFF
Outside(first) == first \in Nat /\ (first > ContextLast \/ first + 24 < ContextFirst)

LEMMA ContextBounds == ContextRange = ContextFirst..ContextLast /\ ContextFirst \in Int /\ ContextLast \in Int
BY DEF ContextRange, ContextFirst, ContextLast

LEMMA ResourceApart ==
  ASSUME NEW words, DOMAIN words \subseteq 1..7, NEW first, Outside(first)
  PROVE  {first + 4 * (n - 1) : n \in DOMAIN words} \cap MirroredRegisters = {}
<1>1. ASSUME NEW n \in 1..7 PROVE first + 4 * (n - 1) \notin ContextRange
  BY ContextBounds DEF Outside
<1>. DEFINE A(n) == first + 4 * (n - 1)
<1>2. \A n \in DOMAIN words : A(n) \notin ContextRange
  BY <1>1
<1>. HIDE DEF A
<1>3. {A(n) : n \in DOMAIN words} \cap MirroredRegisters = {}
  BY <1>2, MirroredAreContext
<1>. QED BY <1>3, Zenon DEF A

LEMMA BanksApart ==
  ASSUME NEW stage \in DOMAIN TextureBank, NEW unit \in Units
  PROVE  /\ Outside(TextureBank[stage] + 28 * unit) /\ Outside(SamplerBank[stage] + 12 * unit)
         /\ Outside(BorderBank[stage] + 16 * unit)
<1>. DEFINE t == TextureBank[stage]
            s == SamplerBank[stage]
            b == BorderBank[stage]
<1>1. unit \in 0..15
  BY UnitsAssumption
<1>2. stage \in {"pixel", "vertex", "compute", "geometry"}
  BY DEF TextureBank
<1>3. t \in Nat /\ t > ContextLast /\ s \in Nat /\ s > ContextLast /\ b \in Nat /\ b + 400 < ContextFirst
  BY <1>2 DEF TextureBank, SamplerBank, BorderBank, ContextFirst, ContextLast
<1>. HIDE DEF t, s, b
<1>4. ContextFirst \in Int /\ ContextLast \in Int
  BY ContextBounds
<1>5. Outside(t + 28 * unit) /\ Outside(s + 12 * unit) /\ Outside(b + 16 * unit)
  BY <1>1, <1>3, <1>4 DEF Outside
<1>. QED BY <1>5 DEF t, s, b

LEMMA ResourceStep ==
  ASSUME StreamInv, TitleInv, StreamOf(gx2), NEW type \in RegisterTypes, NEW first, NEW words, Outside(first),
         DOMAIN words \subseteq 1..7,
         NEW slot, slot[1] \notin DOMAIN Bindings,
         gx2' = [gx2 EXCEPT !.pending = Append(@, ResourceWrites(type, first, words)),
                            !.bound = Over(Entry(slot, words), @)],
         published' = published, gpu' = gpu, guest' = guest
  PROVE  StreamInv'
<1>. DEFINE w == [r \in {first + 4 * (n - 1) : n \in DOMAIN words} |-> words[(r - first) \div 4 + 1]]
            c == Command(type, Null, w)
            b == Over(Entry(slot, words), gx2.bound)
            t == apply(Replayed, c)
<1>1. ResourceWrites(type, first, words) = c
  BY Zenon DEF ResourceWrites
<1>2. DOMAIN w \cap MirroredRegisters = {}
  <2>1. DOMAIN w = {first + 4 * (n - 1) : n \in DOMAIN words}
    BY Zenon
  <2>. HIDE DEF w
  <2>. QED BY <2>1, ResourceApart
<1>. HIDE DEF w
<1>3. gx2' = [gx2 EXCEPT !.pending = Append(@, c), !.bound = b]
  BY <1>1
<1>. HIDE DEF c, b
<1>4. gx2'.pending = Append(gx2.pending, c) /\ gx2'.bound = b /\ gx2'.mirrors = gx2.mirrors
  BY <1>3 DEF StreamOf, StateFields, NotInitialized
<1>5. Replayed' = t
  BY <1>4, QueuedOne
<1>6. MirrorsMatch(t, gx2.mirrors, guest.context) /\ BindingsMatch(t, gx2.bound)
  <2>. DEFINE s == Replayed
  <2>1. DOMAIN s = DOMAIN Blank /\ MirrorsMatch(s, gx2.mirrors, guest.context) /\ BindingsMatch(s, gx2.bound)
    BY ReplayedParts DEF StreamInv
  <2>2. t = apply(s, Command(type, Null, w)) /\ guest.context \in BOOLEAN
    BY Zenon DEF c, t, TitleInv
  <2>. HIDE DEF s, t
  <2>. QED BY <1>2, <2>1, <2>2, ElsewhereMatches
<1>7. BindingsMatch(t, b)
  BY <1>6, BoundElsewhere DEF b
<1>. HIDE DEF t
<1>. QED BY <1>4, <1>5, <1>6, <1>7 DEF StreamInv

LEMMA SetterStep ==
  ASSUME StreamInv, TitleInv, StreamOf(gx2), NEW writes, Write_registers(writes),
         published' = published, gpu' = gpu, guest' = guest
  PROVE  StreamInv'
<1>. DEFINE w == Written(writes)
            c == Command("set_context_register", Null, w)
            m == Over(Restrict(w, DOMAIN w \cap MirroredRegisters), gx2.mirrors)
            t == apply(Replayed, c)
            s == Replayed
<1>1. gx2' = [gx2 EXCEPT !.mirrors = m, !.pending = Append(@, c)]
  BY DEF Write_registers
<1>. HIDE DEF w, c, m
<1>2. gx2'.pending = Append(gx2.pending, c) /\ gx2'.mirrors = m /\ gx2'.bound = gx2.bound
  BY <1>1 DEF StreamOf, StateFields, NotInitialized
<1>3. Replayed' = t
  BY <1>2, QueuedOne
<1>4. DOMAIN s = DOMAIN Blank /\ MirrorsMatch(s, gx2.mirrors, guest.context) /\ BindingsMatch(s, gx2.bound)
  BY ReplayedParts DEF StreamInv
<1>5. t = apply(s, Command("set_context_register", Null, w)) /\ guest.context \in BOOLEAN
      /\ m = Over(Restrict(w, DOMAIN w \cap MirroredRegisters), gx2.mirrors)
  BY Zenon DEF c, t, m, TitleInv
<1>. HIDE DEF s, t
<1>6. MirrorsMatch(t, m, guest.context) /\ BindingsMatch(t, gx2.bound)
  BY <1>4, <1>5, SetterMatches
<1>. QED BY <1>2, <1>3, <1>6 DEF StreamInv

LEMMA BindStep ==
  ASSUME StreamInv, TitleInv, StreamOf(gx2), NEW slot, slot[1] \in DOMAIN Bindings, NEW o,
         BindObject(slot, o)
  PROVE  StreamInv'
<1>. DEFINE value == IF o = Null THEN Null
                     ELSE IF slot[1] = "VertexBuffer" THEN [object |-> o, contents |-> Null]
                     ELSE [object |-> o, contents |-> guest.contents[o]]
            c == Command(Bindings[slot[1]], slot, value)
            b == Over(Entry(slot, value), gx2.bound)
            s == Replayed
            t == apply(Replayed, c)
<1>1. gx2' = [gx2 EXCEPT !.pending = Append(@, c), !.bound = b] /\ guest' = guest
      /\ published' = published /\ gpu' = gpu
  BY DEF BindObject
<1>. HIDE DEF value, c, b
<1>2. gx2'.pending = Append(gx2.pending, c) /\ gx2'.bound = b /\ gx2'.mirrors = gx2.mirrors
  BY <1>1 DEF StreamOf, StateFields, NotInitialized
<1>3. Replayed' = t
  BY <1>1, <1>2, QueuedOne
<1>4. DOMAIN s = DOMAIN Blank /\ MirrorsMatch(s, gx2.mirrors, guest.context) /\ BindingsMatch(s, gx2.bound)
  BY ReplayedParts DEF StreamInv
<1>5. t = apply(s, Command(Bindings[slot[1]], slot, value)) /\ guest.context \in BOOLEAN
  BY Zenon DEF c, t, TitleInv
<1>. HIDE DEF s, t
<1>6. MirrorsMatch(t, gx2.mirrors, guest.context) /\ BindingsMatch(t, b)
  BY <1>4, <1>5, BindMatches DEF b
<1>. QED BY <1>1, <1>2, <1>3, <1>6 DEF StreamInv

\* A draw, a swap, a fence or a flush.
LEMMA QuietCommandStep ==
  ASSUME StreamInv, TitleInv, StreamOf(gx2), NEW c, c.type \in QuietTypes,
         gx2'.pending = Append(gx2.pending, c) \/ gx2'.pending = gx2.pending \o <<c>>,
         gx2'.mirrors = gx2.mirrors, gx2'.bound = gx2.bound,
         published' = published, gpu' = gpu, guest' = guest
  PROVE  StreamInv'
<1>. DEFINE s == Replayed
            t == apply(Replayed, c)
<1>1. gx2'.pending = Append(gx2.pending, c)
  BY AppendJoins DEF StreamOf
<1>2. Replayed' = t
  BY <1>1, QueuedOne
<1>3. DOMAIN s = DOMAIN Blank /\ MirrorsMatch(s, gx2.mirrors, guest.context) /\ BindingsMatch(s, gx2.bound)
  BY ReplayedParts DEF StreamInv
<1>4. t.registers = s.registers /\ t.bindings = s.bindings
  <2>1. t = apply(s, c)
    OBVIOUS
  <2>. HIDE DEF s, t
  <2>. QED BY <1>3, <2>1, ApplyQuiet
<1>. HIDE DEF s, t
<1>5. MirrorsMatch(t, gx2.mirrors, guest.context) /\ BindingsMatch(t, gx2.bound)
  BY <1>3, <1>4, Zenon DEF MirrorsMatch, BindingsMatch
<1>. QED BY <1>2, <1>5 DEF StreamInv

LEMMA DrawDoneStep ==
  ASSUME StreamInv, TitleInv, StreamOf(gx2), GX2DrawDone
  PROVE  StreamInv'
<1>. DEFINE c == Command("flush", Null, Null)
            d == Command("draw_done", Null, Null)
            q == <<c, d>>
            s == Replayed
            r == apply(s, c)
            t == apply(r, d)
<1>1. gx2' = [gx2 EXCEPT !.pending = @ \o q] /\ guest' = guest /\ published' = published /\ gpu' = gpu
  BY DEF GX2DrawDone, Queue
<1>2. ~IsSwap(c) /\ ~IsSwap(d) /\ c.type \in QuietTypes /\ d.type \in QuietTypes
  BY DEF IsSwap, Command, QuietTypes
<1>. HIDE DEF c, d
<1>3. IsSequence(q) /\ applied(s, q) = t
  BY <1>2, Pair, AppliedTwo
<1>. HIDE DEF q
<1>4. gx2'.pending = gx2.pending \o q /\ gx2'.mirrors = gx2.mirrors /\ gx2'.bound = gx2.bound
  BY <1>1 DEF StreamOf, StateFields, NotInitialized
<1>5. Replayed' = t
  BY <1>1, <1>3, <1>4, Queued
<1>6. DOMAIN s = DOMAIN Blank /\ MirrorsMatch(s, gx2.mirrors, guest.context) /\ BindingsMatch(s, gx2.bound)
  BY ReplayedParts DEF StreamInv
<1>. HIDE DEF s
<1>7. r.registers = s.registers /\ r.bindings = s.bindings /\ DOMAIN r = DOMAIN Blank
  BY <1>2, <1>6, ApplyQuiet, ApplyKeepsParts
<1>. HIDE DEF r
<1>8. t.registers = r.registers /\ t.bindings = r.bindings
  BY <1>2, <1>7, ApplyQuiet
<1>. HIDE DEF t
<1>9. MirrorsMatch(t, gx2.mirrors, guest.context) /\ BindingsMatch(t, gx2.bound)
  BY <1>6, <1>7, <1>8, Zenon DEF MirrorsMatch, BindingsMatch
<1>. QED BY <1>1, <1>4, <1>5, <1>9 DEF StreamInv

\* A restore zeroes registers and leaves their mirrors, in a title that has a context state.
LEMMA RestoreStep ==
  ASSUME StreamInv, TitleInv, StreamOf(gx2), GX2SetContextState
  PROVE  StreamInv'
<1>. DEFINE x == {r \in StateRegisters : Loads(context_load_ranges, \hA000, r)} \cup
                 {r \in BorderRegisters : Loads(config_load_ranges, \h2000, r)}
            y == {r \in ResourceRegisters : Loads(resource_load_ranges, \hE000, r)}
            z == {r \in SamplerRegisters : Loads(sampler_load_ranges, \hF000, r)}
            c == Zeroes("set_context_register", x)
            d == Zeroes("set_shader_resource", y)
            e == Zeroes("set_shader_sampler", z)
            q == <<c, d, e>>
            s == Replayed
            t1 == apply(s, c)
            t2 == apply(t1, d)
            t3 == apply(t2, e)
<1>1. gx2' = [gx2 EXCEPT !.pending = @ \o RestoreCommands, !.shadowing = TRUE]
      /\ guest' = guest /\ published' = published /\ gpu' = gpu /\ guest.context
  BY DEF GX2SetContextState
<1>2. RestoreCommands = q
  BY DEF RestoreCommands
<1>3. ~IsSwap(c) /\ ~IsSwap(d) /\ ~IsSwap(e)
  BY DEF IsSwap, Command, Zeroes
<1>. HIDE DEF x, y, z
<1>4. IsSequence(q) /\ applied(s, q) = t3
  <2>. HIDE DEF c, d, e
  <2>. QED BY <1>3, Triple, AppliedThree
<1>. HIDE DEF q
<1>5. gx2'.pending = gx2.pending \o q /\ gx2'.mirrors = gx2.mirrors /\ gx2'.bound = gx2.bound
  <2>1. gx2' = [gx2 EXCEPT !.pending = @ \o q, !.shadowing = TRUE]
    BY <1>1, <1>2, Zenon
  <2>. QED BY <2>1 DEF StreamOf, StateFields, NotInitialized
<1>6. Replayed' = t3
  BY <1>1, <1>4, <1>5, Queued
<1>7. DOMAIN s = DOMAIN Blank /\ MirrorsMatch(s, gx2.mirrors, TRUE) /\ BindingsMatch(s, gx2.bound)
  <2>1. MirrorsMatch(s, gx2.mirrors, guest.context) /\ DOMAIN s = DOMAIN Blank /\ BindingsMatch(s, gx2.bound)
    BY ReplayedParts DEF StreamInv
  <2>. QED BY <2>1, Zenon DEF MirrorsMatch
<1>8. {"set_context_register", "set_shader_resource", "set_shader_sampler"} \subseteq RegisterTypes
  BY DEF RegisterTypes
<1>. HIDE DEF s
<1>9. MirrorsMatch(t1, gx2.mirrors, TRUE) /\ BindingsMatch(t1, gx2.bound) /\ DOMAIN t1 = DOMAIN Blank
  BY <1>7, <1>8, ZeroesMatch
<1>. HIDE DEF t1
<1>10. MirrorsMatch(t2, gx2.mirrors, TRUE) /\ BindingsMatch(t2, gx2.bound) /\ DOMAIN t2 = DOMAIN Blank
  BY <1>8, <1>9, ZeroesMatch
<1>. HIDE DEF t2
<1>11. MirrorsMatch(t3, gx2.mirrors, TRUE) /\ BindingsMatch(t3, gx2.bound)
  BY <1>8, <1>10, ZeroesMatch
<1>. HIDE DEF t3
<1>12. MirrorsMatch(t3, gx2.mirrors, guest.context)
  BY <1>1, <1>11, Zenon DEF MirrorsMatch
<1>. QED BY <1>1, <1>5, <1>6, <1>11, <1>12 DEF StreamInv

\* The first GX2Init forgets the mirrors, the bindings noted and the queue.
LEMMA ForgetStep ==
  ASSUME StreamInv, TitleInv, StreamOf(gx2), GX2Init
  PROVE  StreamInv'
<1>1. guest' = guest /\ published' = published /\ gpu' = gpu
      /\ gx2' = IF gx2.initialized THEN gx2 ELSE [NotInitialized EXCEPT !.initialized = TRUE]
  BY DEF GX2Init
<1>2. CASE gx2' = gx2
  BY <1>1, <1>2, Still DEF TitleInv
<1>3. CASE gx2' = [NotInitialized EXCEPT !.initialized = TRUE]
  <2>1. gx2'.mirrors = <<>> /\ gx2'.bound = <<>>
    BY <1>3 DEF NotInitialized
  <2>2. DOMAIN gx2'.mirrors = {} /\ DOMAIN gx2'.bound = {}
    BY <2>1
  <2>3. \A s : MirrorsMatch(s, gx2'.mirrors, guest'.context) /\ BindingsMatch(s, gx2'.bound)
    BY <2>2, Zenon DEF MirrorsMatch, BindingsMatch
  <2>. QED BY <1>1, <2>3 DEF StreamInv
<1>. QED BY <1>1, <1>2, <1>3, Zenon

\* The host publishes and applies what was queued: the stream says the same.
LEMMA DeliveryStep ==
  ASSUME StreamInv, TitleInv, StreamOf(gx2), Publish \/ Apply
  PROVE  StreamInv'
<1>0. IsSequence(published) /\ IsSequence(gx2.pending) /\ DOMAIN gpu = DOMAIN Blank
  BY DEF StreamInv, StreamOf
<1>1. CASE Publish
  <2>1. gx2' = [gx2 EXCEPT !.pending = <<>>] /\ guest' = guest /\ gpu' = gpu
        /\ published' = published \o gx2.pending
    BY <1>1 DEF Publish
  <2>2. gx2'.pending = <<>> /\ gx2'.mirrors = gx2.mirrors /\ gx2'.bound = gx2.bound
    BY <2>1 DEF StreamOf, StateFields, NotInitialized
  <2>3. IsSequence(published')
    BY <1>0, <2>1, Joined
  <2>4. Replayed' = Replayed
    <3>1. published' \o <<>> = published'
      <4>1. PICK S : published' \in Seq(S)
        BY <2>3 DEF IsSequence
      <4>. QED BY <4>1, ConcatEmptySeq
    <3>. QED BY <2>1, <2>2, <3>1 DEF Replayed
  <2>. QED BY <2>1, <2>2, <2>3, <2>4 DEF StreamInv
<1>2. CASE Apply
  <2>1. gpu' = applied(gpu, published) /\ published' = <<>> /\ gx2' = gx2 /\ guest' = guest
    BY <1>2 DEF Apply
  <2>2. IsSequence(<<>>)
    BY EmptySeq DEF IsSequence
  <2>3. DOMAIN gpu' = DOMAIN Blank
    BY <1>0, <2>1, AppliedKeepsParts
  <2>4. Replayed' = Replayed
    <3>1. <<>> \o gx2.pending = gx2.pending
      <4>1. PICK S : gx2.pending \in Seq(S)
        BY <1>0 DEF IsSequence
      <4>. QED BY <4>1, ConcatEmptySeq
    <3>2. Replayed' = applied(applied(gpu, published), gx2.pending)
      BY <2>1, <3>1 DEF Replayed
    <3>. QED BY <3>2, ReplayedParts
  <2>. QED BY <2>1, <2>2, <2>3, <2>4 DEF StreamInv
<1>. QED BY <1>1, <1>2

\* A sampler object keeps its three words.
LEMMA SamplerKeepsWords ==
  ASSUME NEW step, step.name \in SamplerCalls, NEW s, DOMAIN s \subseteq 1..3
  PROVE  DOMAIN SamplerWords(step, s) \subseteq 1..3
<1>. DEFINE r == SamplerWords(step, s)
<1>1. DOMAIN Failed = {}
  BY DEF Failed
<1>2. CASE step.name = "Init"
  <2>. DEFINE a == step.args
  <2>1. r = GX2InitSampler(a[1], a[2])
    BY <1>2, Zenon DEF SamplerWords
  <2>2. ASSUME NEW u, NEW v, NEW w PROVE DOMAIN <<u, v, w>> = 1..3
    OBVIOUS
  <2>3. \A x, y : DOMAIN GX2InitSampler(x, y) \subseteq 1..3
    <3>. SUFFICES ASSUME NEW x, NEW y PROVE DOMAIN GX2InitSampler(x, y) \subseteq 1..3
      OBVIOUS
    <3>1. \E u, v, w : GX2InitSampler(x, y) = Failed \/ GX2InitSampler(x, y) = <<u, v, w>>
      BY Zenon DEF GX2InitSampler
    <3>. QED BY <1>1, <2>2, <3>1
  <2>. QED BY <2>1, <2>3
<1>3. ASSUME step.name # "Init" PROVE DOMAIN r \subseteq 1..3
  <2>1. step.name \in {"Clamping", "XYFilter", "ZMFilter", "LOD", "DepthCompare", "BorderType"}
    BY <1>3 DEF SamplerCalls
  <2>. DEFINE a == step.args
  <2>2. CASE step.name = "Clamping"
    <3>1. r = GX2InitSamplerClamping(s, a[1], a[2], a[3])
      BY <2>2, Zenon DEF SamplerWords
    <3>. HIDE DEF r, a
    <3>. QED BY <1>1, <3>1 DEF GX2InitSamplerClamping
  <2>3. CASE step.name = "XYFilter"
    <3>1. r = GX2InitSamplerXYFilter(s, a[1], a[2], a[3])
      BY <2>3, Zenon DEF SamplerWords
    <3>. HIDE DEF r, a
    <3>. QED BY <1>1, <3>1 DEF GX2InitSamplerXYFilter
  <2>4. CASE step.name = "ZMFilter"
    <3>1. r = GX2InitSamplerZMFilter(s, a[1], a[2])
      BY <2>4, Zenon DEF SamplerWords
    <3>. HIDE DEF r, a
    <3>. QED BY <1>1, <3>1 DEF GX2InitSamplerZMFilter
  <2>5. CASE step.name = "LOD"
    <3>1. r = GX2InitSamplerLOD(s, a[1], a[2], a[3])
      BY <2>5, Zenon DEF SamplerWords
    <3>. HIDE DEF r, a
    <3>. QED BY <1>1, <3>1 DEF GX2InitSamplerLOD
  <2>6. CASE step.name = "DepthCompare"
    <3>1. r = GX2InitSamplerDepthCompare(s, a[1])
      BY <2>6, Zenon DEF SamplerWords
    <3>. HIDE DEF r, a
    <3>. QED BY <1>1, <3>1 DEF GX2InitSamplerDepthCompare
  <2>7. CASE step.name = "BorderType"
    <3>1. r = GX2InitSamplerBorderType(s, a[1])
      BY <2>7, Zenon DEF SamplerWords
    <3>. HIDE DEF r, a
    <3>. QED BY <1>1, <3>1 DEF GX2InitSamplerBorderType
  <2>. QED BY <2>1, <2>2, <2>3, <2>4, <2>5, <2>6, <2>7, Zenon
<1>. QED BY <1>2, <1>3

LEMMA TextureWords ==
  ASSUME NEW t
  PROVE  DOMAIN texture_binding_words(t) \subseteq 1..7
<1>1. ASSUME NEW a, NEW b, NEW c, NEW d, NEW e, NEW f, NEW g PROVE DOMAIN <<a, b, c, d, e, f, g>> = 1..7
  OBVIOUS
<1>2. \E a, b, c, d, e, f, g : texture_binding_words(t) \in {Failed, <<a, b, c, d, e, f, g>>}
  BY Zenon DEF texture_binding_words
<1>3. DOMAIN Failed = {}
  BY DEF Failed
<1>. QED BY <1>1, <1>2, <1>3

\* Slots of resources and borders are none of bindings.
LEMMA ResourceSlots ==
  \A x : /\ <<"Texture", x>>[1] \notin DOMAIN Bindings /\ <<"Sampler", x>>[1] \notin DOMAIN Bindings
         /\ <<"BorderColor", x>>[1] \notin DOMAIN Bindings
BY DEF Bindings

LEMMA ResourcesKeep ==
  ASSUME StreamInv, TitleInv, StreamOf(gx2), DOMAIN guest = GuestFields, ScenarioInv, Resources
  PROVE  StreamInv' /\ TitleInv'
<1>0. scenario \in Scenarios
  BY DEF ScenarioInv
<1>. DEFINE places == scenario.units
<1>1. /\ \A place \in places : place[1] \in DOMAIN TextureBank /\ place[2] \in Units
      /\ \A step \in scenario.sampling : step.name \in SamplerCalls
  BY <1>0, ScenariosAssumption, Zenon
<1>2. ASSUME gx2' = gx2, published' = published, gpu' = gpu, guest'.context = guest.context
      PROVE  StreamInv'
  <2>1. guest.context \in BOOLEAN /\ gx2'.pending = gx2.pending /\ gx2'.mirrors = gx2.mirrors
        /\ gx2'.bound = gx2.bound
    BY <1>2 DEF TitleInv
  <2>2. (guest.context => guest'.context) /\ guest'.context \in BOOLEAN
    BY <1>2, <2>1, Zenon
  <2>. QED BY <1>2, <2>1, <2>2, Still
<1>3. ASSUME guest' = guest PROVE TitleInv'
  BY <1>3 DEF TitleInv
<1>4. ASSUME NEW step \in scenario.sampling, ChangeSampler(step) PROVE StreamInv' /\ TitleInv'
  <2>. DEFINE s == SamplerWords(step, guest.sampler.words)
              o == [words |-> s, asked |-> Asked(step, guest.sampler.asked)]
  <2>1. guest' = [guest EXCEPT !.sampler = o] /\ gx2' = gx2 /\ published' = published /\ gpu' = gpu
    BY <1>4 DEF ChangeSampler
  <2>2. DOMAIN s \subseteq 1..3
    BY <1>1, SamplerKeepsWords DEF TitleInv
  <2>3. o.words = s
    OBVIOUS
  <2>. HIDE DEF s, o
  <2>4. guest'.context = guest.context /\ guest'.sampler.words = s
    BY <2>1, <2>3 DEF GuestFields, NewGuest
  <2>. QED BY <1>2, <2>1, <2>2, <2>4 DEF TitleInv
<1>5. ASSUME NEW t, DescribeTexture(t) PROVE StreamInv' /\ TitleInv'
  <2>. DEFINE o == [t EXCEPT !.registers = guest.texture.registers]
  <2>1. guest' = [guest EXCEPT !.texture = o] /\ gx2' = gx2 /\ published' = published /\ gpu' = gpu
    BY <1>5 DEF DescribeTexture
  <2>. HIDE DEF o
  <2>2. guest'.context = guest.context /\ guest'.sampler = guest.sampler
    BY <2>1 DEF GuestFields, NewGuest
  <2>. QED BY <1>2, <2>1, <2>2 DEF TitleInv
<1>6. CASE GX2InitTextureRegs
  <2>. DEFINE r == initialize_gx2_texture_registers(guest.texture)
  <2>1. guest' = [guest EXCEPT !.texture.registers = r, !.described = guest.texture]
        /\ gx2' = gx2 /\ published' = published /\ gpu' = gpu
    BY <1>6 DEF GX2InitTextureRegs
  <2>. HIDE DEF r
  <2>2. guest'.context = guest.context /\ guest'.sampler = guest.sampler
    BY <2>1 DEF GuestFields, NewGuest
  <2>. QED BY <1>2, <2>1, <2>2 DEF TitleInv
<1>7. {"set_context_register", "set_shader_resource", "set_shader_sampler"} \subseteq RegisterTypes
  BY DEF RegisterTypes
<1>8. ASSUME NEW stage \in DOMAIN TextureBank, NEW unit \in Units, SetTexture(stage, unit)
      PROVE  StreamInv' /\ TitleInv'
  <2>. DEFINE w == texture_binding_words(guest.texture)
              slot == <<"Texture", <<StageOf(stage), unit>>>>
              first == TextureBank[stage] + 28 * unit
  <2>1. gx2' = [gx2 EXCEPT !.pending = Append(@, ResourceWrites("set_shader_resource", first, w)),
                           !.bound = Over(Entry(slot, w), @)]
        /\ guest' = guest /\ published' = published /\ gpu' = gpu
    BY <1>8 DEF SetTexture
  <2>2. DOMAIN w \subseteq 1..7 /\ Outside(first) /\ slot[1] \notin DOMAIN Bindings
    BY TextureWords, BanksApart, ResourceSlots
  <2>. HIDE DEF w, slot, first
  <2>3. StreamInv'
    BY <1>7, <2>1, <2>2, ResourceStep
  <2>. QED BY <1>3, <2>1, <2>3
<1>9. ASSUME NEW stage \in DOMAIN TextureBank, NEW unit \in Units, SetSampler(stage, unit)
      PROVE  StreamInv' /\ TitleInv'
  <2>. DEFINE w == guest.sampler.words
              slot == <<"Sampler", <<StageOf(stage), unit>>>>
              first == SamplerBank[stage] + 12 * unit
  <2>1. gx2' = [gx2 EXCEPT !.pending = Append(@, ResourceWrites("set_shader_sampler", first, w)),
                           !.bound = Over(Entry(slot, w), @)]
        /\ guest' = guest /\ published' = published /\ gpu' = gpu
    BY <1>9 DEF SetSampler
  <2>2. DOMAIN w \subseteq 1..7 /\ Outside(first) /\ slot[1] \notin DOMAIN Bindings
    BY BanksApart, ResourceSlots DEF TitleInv
  <2>. HIDE DEF w, slot, first
  <2>3. StreamInv'
    BY <1>7, <2>1, <2>2, ResourceStep
  <2>. QED BY <1>3, <2>1, <2>3
<1>10. ASSUME NEW stage \in DOMAIN TextureBank, NEW unit \in Units, NEW color,
              SetSamplerBorderColor(stage, unit, color)
      PROVE  StreamInv' /\ TitleInv'
  <2>. DEFINE w == [n \in 1..4 |-> FloatBits(color[n])]
              slot == <<"BorderColor", <<StageOf(stage), unit>>>>
              first == BorderBank[stage] + 16 * unit
  <2>1. gx2' = [gx2 EXCEPT !.pending = Append(@, ResourceWrites("set_context_register", first, w)),
                           !.bound = Over(Entry(slot, w), @)]
        /\ guest' = guest /\ published' = published /\ gpu' = gpu
    BY <1>10 DEF SetSamplerBorderColor
  <2>2. DOMAIN w \subseteq 1..7 /\ Outside(first) /\ slot[1] \notin DOMAIN Bindings
    BY BanksApart, ResourceSlots
  <2>. HIDE DEF w, slot, first
  <2>3. StreamInv'
    BY <1>7, <2>1, <2>2, ResourceStep
  <2>. QED BY <1>3, <2>1, <2>3
<1>11. CASE \E place \in places :
              \/ SetTexture(place[1], place[2]) \/ SetSampler(place[1], place[2])
              \/ \E color \in scenario.colors : SetSamplerBorderColor(place[1], place[2], color)
  BY <1>1, <1>8, <1>9, <1>10, <1>11, Zenon
<1>. HIDE DEF places
<1>. QED BY <1>4, <1>5, <1>6, <1>11, Zenon DEF Resources, places

LEMMA StreamKeeps ==
  ASSUME StreamInv, TitleInv, StreamOf(gx2), DOMAIN guest = GuestFields, ScenarioInv, Stream
  PROVE  StreamInv' /\ TitleInv'
<1>1. ASSUME guest' = guest PROVE TitleInv'
  BY <1>1 DEF TitleInv
<1>3. ASSUME NEW slot \in scenario.bindings, NEW o, BindObject(slot, o) PROVE StreamInv' /\ TitleInv'
  <2>1. slot[1] \in DOMAIN Bindings
    BY ScenariosAssumption, Zenon DEF ScenarioInv
  <2>2. StreamInv'
    BY <1>3, <2>1, BindStep
  <2>3. guest' = guest
    BY <1>3 DEF BindObject
  <2>. QED BY <1>1, <2>2, <2>3
<1>4. ASSUME gx2'.pending = gx2.pending, gx2'.mirrors = gx2.mirrors, gx2'.bound = gx2.bound,
             published' = published, gpu' = gpu,
             guest'.context = guest.context \/ guest'.context = TRUE, guest'.sampler = guest.sampler
      PROVE  StreamInv' /\ TitleInv'
  <2>1. (guest.context => guest'.context) /\ guest'.context \in BOOLEAN
    BY <1>4, Zenon DEF TitleInv
  <2>2. StreamInv'
    BY <1>4, <2>1, Still
  <2>. QED BY <1>4, <2>1, <2>2 DEF TitleInv
<1>5. ASSUME NEW o, GuestWrites(o) PROVE StreamInv' /\ TitleInv'
  <2>1. gx2' = gx2 /\ published' = published /\ gpu' = gpu /\ guest' = [guest EXCEPT !.contents[o] = 1 - @]
    BY <1>5 DEF GuestWrites
  <2>2. guest'.context = guest.context /\ guest'.sampler = guest.sampler
    BY <2>1 DEF GuestFields, NewGuest
  <2>. QED BY <1>4, <2>1, <2>2
<1>6. ASSUME NEW c, c.type \in QuietTypes, gx2' = [gx2 EXCEPT !.pending = @ \o <<c>>],
             guest' = guest, published' = published, gpu' = gpu
      PROVE  StreamInv' /\ TitleInv'
  <2>1. gx2'.pending = gx2.pending \o <<c>> /\ gx2'.mirrors = gx2.mirrors /\ gx2'.bound = gx2.bound
    BY <1>6 DEF StreamOf, StateFields, NotInitialized
  <2>. QED BY <1>1, <1>6, <2>1, QuietCommandStep
<1>8. ASSUME NEW request, GX2DrawEx(request) PROVE StreamInv' /\ TitleInv'
  <2>. DEFINE c == Command("draw", Null, request)
  <2>1. gx2' = [gx2 EXCEPT !.pending = @ \o <<c>>] /\ guest' = guest /\ published' = published /\ gpu' = gpu
    BY <1>8 DEF GX2DrawEx, Queue
  <2>2. c.type \in QuietTypes
    BY DEF Command, QuietTypes
  <2>. HIDE DEF c
  <2>. QED BY <1>6, <2>1, <2>2
<1>9. CASE GX2SwapScanBuffers
  <2>. DEFINE flips == gx2.flips + (IF gx2.initialized THEN 1 ELSE 0)
              c == Command("scan_buffer_swap", Null, flips)
  <2>1. gx2' = [gx2 EXCEPT !.flips = flips, !.pending = Append(@, c)]
        /\ guest' = guest /\ published' = published /\ gpu' = gpu
    BY <1>9 DEF GX2SwapScanBuffers
  <2>2. c.type \in QuietTypes
    BY DEF Command, QuietTypes
  <2>. HIDE DEF flips, c
  <2>3. gx2'.pending = Append(gx2.pending, c) /\ gx2'.mirrors = gx2.mirrors /\ gx2'.bound = gx2.bound
    BY <2>1 DEF StreamOf, StateFields, NotInitialized
  <2>. QED BY <1>1, <2>1, <2>2, <2>3, QuietCommandStep
<1>10. CASE GX2Flush
  <2>. DEFINE c == Command("flush", Null, Null)
  <2>1. gx2' = [gx2 EXCEPT !.pending = @ \o <<c>>] /\ guest' = guest /\ published' = published /\ gpu' = gpu
    BY <1>10 DEF GX2Flush, Queue
  <2>2. c.type \in QuietTypes
    BY DEF Command, QuietTypes
  <2>. HIDE DEF c
  <2>. QED BY <1>6, <2>1, <2>2
<1>11. CASE GX2DrawDone
  <2>1. guest' = guest
    BY <1>11 DEF GX2DrawDone
  <2>. QED BY <1>1, <1>11, <2>1, DrawDoneStep
<1>12. ASSUME NEW fence, GX2SetGPUFence(fence) PROVE StreamInv' /\ TitleInv'
  <2>. DEFINE value == [fence EXCEPT !.compare_op = @ % 8]
              c == Command("gpu_fence", Null, value)
  <2>1. gx2' = [gx2 EXCEPT !.pending = @ \o <<c>>] /\ guest' = guest /\ published' = published /\ gpu' = gpu
    BY <1>12 DEF GX2SetGPUFence, Queue
  <2>2. c.type \in QuietTypes
    BY DEF Command, QuietTypes
  <2>. HIDE DEF c, value
  <2>. QED BY <1>6, <2>1, <2>2
<1>13. CASE GX2Init
  <2>1. guest' = guest
    BY <1>13 DEF GX2Init
  <2>. QED BY <1>1, <1>13, <2>1, ForgetStep
<1>14. CASE GX2SetContextState
  <2>1. guest' = guest
    BY <1>14 DEF GX2SetContextState
  <2>. QED BY <1>1, <1>14, <2>1, RestoreStep
<1>15. CASE GX2SetupContextStateEx \/ GX2LeaveContextState
  <2>1. /\ gx2' = [gx2 EXCEPT !.shadowing = TRUE] \/ gx2' = [gx2 EXCEPT !.shadowing = FALSE]
        /\ guest' = guest \/ guest' = [guest EXCEPT !.context = TRUE]
        /\ published' = published /\ gpu' = gpu
    BY <1>15 DEF GX2SetupContextStateEx, GX2LeaveContextState
  <2>2. gx2'.pending = gx2.pending /\ gx2'.mirrors = gx2.mirrors /\ gx2'.bound = gx2.bound
    BY <2>1 DEF StreamOf, StateFields, NotInitialized
  <2>3. (guest'.context = guest.context \/ guest'.context = TRUE) /\ guest'.sampler = guest.sampler
    BY <2>1 DEF GuestFields, NewGuest
  <2>. QED BY <1>4, <2>1, <2>2, <2>3
<1>. QED BY <1>3, <1>5, <1>8, <1>9, <1>10, <1>11, <1>12, <1>13, <1>14, <1>15, Zenon DEF Stream

LEMMA OthersKeep ==
  ASSUME StreamInv, TitleInv, StreamOf(gx2), DOMAIN guest = GuestFields, Registers \/ Surfaces \/ Display
  PROVE  StreamInv' /\ TitleInv'
<1>1. ASSUME guest' = guest PROVE TitleInv'
  BY <1>1 DEF TitleInv
<1>2. ASSUME gx2'.pending = gx2.pending, gx2'.mirrors = gx2.mirrors, gx2'.bound = gx2.bound,
             published' = published, gpu' = gpu, guest'.context = guest.context, guest'.sampler = guest.sampler
      PROVE  StreamInv' /\ TitleInv'
  <2>1. (guest.context => guest'.context) /\ guest'.context \in BOOLEAN
    BY <1>2, Zenon DEF TitleInv
  <2>2. StreamInv'
    BY <1>2, <2>1, Still
  <2>. QED BY <1>2, <2>1, <2>2 DEF TitleInv
<1>3. ASSUME NEW state, NEW a, SetState(state, a) PROVE StreamInv' /\ TitleInv'
  <2>1. Write_registers(GX2Set(state, a)) /\ guest' = guest /\ published' = published /\ gpu' = gpu
    BY <1>3 DEF SetState
  <2>2. StreamInv'
    BY <2>1, SetterStep
  <2>. QED BY <1>1, <2>1, <2>2
<1>4. ASSUME NEW state, SetStateReg(state) PROVE StreamInv' /\ TitleInv'
  <2>1. Write_registers(GX2SetReg(state, guest.objects[state].words)) /\ guest' = guest
        /\ published' = published /\ gpu' = gpu
    BY <1>4 DEF SetStateReg
  <2>2. StreamInv'
    BY <2>1, SetterStep
  <2>. QED BY <1>1, <2>1, <2>2
<1>5. ASSUME NEW state, NEW a, InitStateReg(state, a) PROVE StreamInv' /\ TitleInv'
  <2>. DEFINE o == Over(Entry(state, [words |-> GX2InitReg(state, a), asked |-> a]), guest.objects)
  <2>1. guest' = [guest EXCEPT !.objects = o] /\ gx2' = gx2 /\ published' = published /\ gpu' = gpu
    BY <1>5 DEF InitStateReg
  <2>. HIDE DEF o
  <2>2. guest'.context = guest.context /\ guest'.sampler = guest.sampler
    BY <2>1 DEF GuestFields, NewGuest
  <2>. QED BY <1>2, <2>1, <2>2
<1>6. CASE Registers
  BY <1>3, <1>4, <1>5, <1>6, Zenon DEF Registers
<1>7. CASE Surfaces
  <2>1. /\ gx2' = gx2 /\ published' = published /\ gpu' = gpu
        /\ guest'.context = guest.context /\ guest'.sampler = guest.sampler
    BY <1>7 DEF Surfaces, GX2CalcSurfaceSizeAndAlignment, GX2RLockSurfaceEx, GX2RUnlockSurfaceEx,
                GX2RCreateSurfaceUserMemory, GuestFields, NewGuest
  <2>. QED BY <1>2, <2>1
<1>8. CASE Display
  <2>1. /\ guest' = guest /\ published' = published /\ gpu' = gpu
        /\ gx2'.pending = gx2.pending /\ gx2'.mirrors = gx2.mirrors /\ gx2'.bound = gx2.bound
    BY <1>8 DEF Display, GX2SetTVBuffer, GX2SetTVEnable, GX2WaitForVsync, StreamOf, StateFields, NotInitialized
  <2>. QED BY <1>2, <2>1
<1>. QED BY <1>6, <1>7, <1>8

LEMMA MirrorsInitially == Init => MirrorsInv
<1>. SUFFICES ASSUME Init PROVE MirrorsInv
  OBVIOUS
<1>1. gpu = Blank /\ published = <<>> /\ gx2.pending = <<>> /\ gx2.mirrors = <<>> /\ gx2.bound = <<>>
  BY DEF Init, NotInitialized
<1>2. DOMAIN gx2.mirrors = {} /\ DOMAIN gx2.bound = {} /\ IsSequence(published)
  BY <1>1, EmptySeq DEF IsSequence
<1>3. \A s : MirrorsMatch(s, gx2.mirrors, guest.context) /\ BindingsMatch(s, gx2.bound)
  BY <1>2, Zenon DEF MirrorsMatch, BindingsMatch
<1>4. guest.context = FALSE /\ guest.sampler.words = Failed
  BY DEF Init, NewGuest
<1>5. DOMAIN guest.sampler.words \subseteq 1..3
  BY <1>4 DEF Failed
<1>. QED BY <1>1, <1>2, <1>3, <1>4, <1>5 DEF MirrorsInv, StreamInv, TitleInv

LEMMA MirrorsStay == Gx2Inv /\ ScenarioInv /\ MirrorsInv /\ [Next]_vars => MirrorsInv'
<1>. SUFFICES ASSUME Gx2Inv, ScenarioInv, MirrorsInv, [Next]_vars PROVE MirrorsInv'
  OBVIOUS
<1>0. StreamInv /\ TitleInv /\ StreamOf(gx2) /\ DOMAIN guest = GuestFields
  BY DEF Gx2Inv, MirrorsInv, SurfaceOf
<1>1. CASE UNCHANGED vars
  BY <1>1 DEF vars, MirrorsInv, StreamInv, TitleInv, Replayed
<1>2. CASE Publish \/ Apply
  <2>1. guest' = guest
    BY <1>2 DEF Publish, Apply
  <2>. QED BY <1>0, <1>2, <2>1, DeliveryStep DEF MirrorsInv, TitleInv
<1>3. CASE Registers \/ Surfaces \/ Display
  BY <1>0, <1>3, OthersKeep DEF MirrorsInv
<1>4. CASE Resources
  BY <1>0, <1>4, ResourcesKeep DEF MirrorsInv
<1>5. CASE Stream
  BY <1>0, <1>5, StreamKeeps DEF MirrorsInv
<1>. QED BY <1>1, <1>2, <1>3, <1>4, <1>5 DEF Next

\* The mirrors of the registers, and the bindings noted, say what the replayed stream says of
\* them (write_registers, set_gx2_texture, the binding calls and gx2_register_state.hpp),
\* whichever commands are queued, published or applied: but for registers a context restore
\* zeroed, in a title that has set up a context state, whose mirrors the restore leaves.
THEOREM MirrorsStayCurrent == Spec => []MirrorsCurrent
<1>1. MirrorsInv => MirrorsCurrent
  <2>. SUFFICES ASSUME MirrorsInv PROVE MirrorsCurrent
    OBVIOUS
  <2>. DEFINE s == Replayed
  <2>1. MirrorsMatch(s, gx2.mirrors, guest.context) /\ BindingsMatch(s, gx2.bound)
    BY DEF MirrorsInv, StreamInv
  <2>. HIDE DEF s
  <2>. QED BY <2>1, Zenon DEF MirrorsCurrent, MirrorsMatch, BindingsMatch, s
<1>2. Spec => []MirrorsInv
  BY Gx2Correct, MirrorsInitially, MirrorsStay, PTL DEF Spec
<1>. QED BY <1>1, <1>2, PTL

----------------------------------------------------------------------------
(* Powers of two.                                                           *)

\* The first n + 1 powers, as a table.
Tables(n) == {h \in [0..n -> Nat] : h[0] = 1 /\ \A k \in 1..n : h[k] = 2 * h[k - 1]}

LEMMA TablesExist == \A n \in Nat : Tables(n) # {}
<1>. DEFINE T == {n \in Nat : Tables(n) # {}}
<1>1. 0 \in T
  <2>1. [k \in 0..0 |-> 1] \in Tables(0)
    BY DEF Tables
  <2>. QED BY <2>1
<1>2. ASSUME NEW n \in Nat, n \in T PROVE n + 1 \in T
  <2>1. PICK h : h \in Tables(n)
    BY <1>2
  <2>. DEFINE g == [k \in 0..(n + 1) |-> IF k = n + 1 THEN 2 * h[n] ELSE h[k]]
  <2>2. h \in [0..n -> Nat] /\ h[0] = 1 /\ \A k \in 1..n : h[k] = 2 * h[k - 1]
    BY <2>1 DEF Tables
  <2>3. g \in [0..(n + 1) -> Nat]
    BY <2>2
  <2>4. g[0] = 1
    BY <2>2
  <2>5. ASSUME NEW k \in 1..(n + 1) PROVE g[k] = 2 * g[k - 1]
    <3>1. CASE k = n + 1
      BY <3>1, <2>2
    <3>2. CASE k # n + 1
      <4>1. k \in 1..n /\ k - 1 # n + 1 /\ k - 1 \in 0..(n + 1)
        BY <3>2
      <4>. QED BY <3>2, <4>1, <2>2
    <3>. QED BY <3>1, <3>2
  <2>6. g \in Tables(n + 1)
    <3>. HIDE DEF g
    <3>. QED BY <2>3, <2>4, <2>5 DEF Tables
  <2>. HIDE DEF g
  <2>. QED BY <2>6
<1>3. \A n \in Nat : n \in T
  <2>. HIDE DEF T
  <2>. QED BY <1>1, <1>2, Induction
<1>. QED BY <1>3

LEMMA TablesAgree ==
  ASSUME NEW n \in Nat, NEW m \in Nat, NEW h \in Tables(n), NEW g \in Tables(m)
  PROVE  \A k \in Nat : k <= n /\ k <= m => h[k] = g[k]
<1>. DEFINE T == {k \in Nat : k <= n /\ k <= m => h[k] = g[k]}
<1>1. 0 \in T
  BY DEF Tables
<1>2. ASSUME NEW k \in Nat, k \in T PROVE k + 1 \in T
  <2>1. CASE k + 1 <= n /\ k + 1 <= m
    <3>1. k + 1 \in 1..n /\ k + 1 \in 1..m /\ (k + 1) - 1 = k
      BY <2>1
    <3>2. h[k + 1] = 2 * h[(k + 1) - 1]
      BY <3>1 DEF Tables
    <3>3. g[k + 1] = 2 * g[(k + 1) - 1]
      BY <3>1 DEF Tables
    <3>4. h[k] = g[k]
      BY <1>2, <2>1
    <3>. QED BY <3>1, <3>2, <3>3, <3>4
  <2>. QED BY <2>1
<1>3. \A k \in Nat : k \in T
  <2>. HIDE DEF T
  <2>. QED BY <1>1, <1>2, Induction
<1>. QED BY <1>3

LEMMA TwoToDefined ==
  TwoTo = [k \in Nat |-> IF k = 0 THEN 1 ELSE 2 * TwoTo[k - 1]]
<1>. DEFINE f == [k \in Nat |-> (CHOOSE h : h \in Tables(k))[k]]
            Equation(g) == g = [k \in Nat |-> IF k = 0 THEN 1 ELSE 2 * g[k - 1]]
<1>1. ASSUME NEW k \in Nat PROVE f[k] = IF k = 0 THEN 1 ELSE 2 * f[k - 1]
  <2>1. PICK h : h \in Tables(k) /\ f[k] = h[k]
    <3>1. (CHOOSE h : h \in Tables(k)) \in Tables(k)
      BY TablesExist
    <3>. QED BY <3>1
  <2>2. CASE k = 0
    BY <2>1, <2>2 DEF Tables
  <2>3. CASE k # 0
    <3>1. k - 1 \in Nat
      BY <2>3
    <3>2. PICK g : g \in Tables(k - 1) /\ f[k - 1] = g[k - 1]
      <4>1. (CHOOSE h2 : h2 \in Tables(k - 1)) \in Tables(k - 1)
        BY <3>1, TablesExist
      <4>. QED BY <3>1, <4>1
    <3>. HIDE DEF f
    <3>3. h[k - 1] = g[k - 1]
      BY <2>1, <3>1, <3>2, TablesAgree
    <3>4. h[k] = 2 * h[k - 1]
      BY <2>1, <2>3 DEF Tables
    <3>. QED BY <2>1, <2>3, <3>2, <3>3, <3>4
  <2>. QED BY <2>2, <2>3
<1>2. Equation(f)
  <2>1. f = [k \in Nat |-> f[k]]
    OBVIOUS
  <2>. HIDE DEF f
  <2>. QED BY <1>1, <2>1
<1>3. TwoTo = CHOOSE g : Equation(g)
  BY DEF TwoTo
<1>. HIDE DEF f, Equation
<1>4. Equation(TwoTo)
  BY <1>2, <1>3
<1>. QED BY <1>4 DEF Equation

LEMMA PowerStep ==
  /\ TwoTo[0] = 1
  /\ \A k \in Nat : TwoTo[k] \in Nat /\ TwoTo[k] > 0 /\ TwoTo[k + 1] = 2 * TwoTo[k]
<1>1. ASSUME NEW k \in Nat PROVE TwoTo[k] = IF k = 0 THEN 1 ELSE 2 * TwoTo[k - 1]
  <2>. DEFINE f == [n \in Nat |-> IF n = 0 THEN 1 ELSE 2 * TwoTo[n - 1]]
  <2>1. TwoTo = f
    BY TwoToDefined, Zenon
  <2>2. f[k] = IF k = 0 THEN 1 ELSE 2 * TwoTo[k - 1]
    OBVIOUS
  <2>. HIDE DEF f
  <2>. QED BY <2>1, <2>2
<1>2. TwoTo[0] = 1
  BY <1>1
<1>3. \A k \in Nat : TwoTo[k + 1] = 2 * TwoTo[k]
  <2>1. ASSUME NEW k \in Nat PROVE TwoTo[k + 1] = 2 * TwoTo[k]
    <3>1. k + 1 \in Nat /\ k + 1 # 0 /\ (k + 1) - 1 = k
      OBVIOUS
    <3>. QED BY <1>1, <3>1
  <2>. QED BY <2>1
<1>. DEFINE T == {k \in Nat : TwoTo[k] \in Nat /\ TwoTo[k] > 0}
<1>4. 0 \in T
  BY <1>2
<1>5. \A k \in Nat : k \in T => k + 1 \in T
  BY <1>3
<1>6. \A k \in Nat : k \in T
  <2>. HIDE DEF T
  <2>. QED BY <1>4, <1>5, Induction
<1>. QED BY <1>2, <1>3, <1>6

LEMMA PowerSum ==
  ASSUME NEW a \in Nat, NEW b \in Nat
  PROVE  TwoTo[a + b] = TwoTo[a] * TwoTo[b]
<1>. DEFINE T == {k \in Nat : TwoTo[a + k] = TwoTo[a] * TwoTo[k]}
<1>1. 0 \in T
  BY PowerStep
<1>2. ASSUME NEW k \in Nat, k \in T PROVE k + 1 \in T
  <2>1. TwoTo[a + (k + 1)] = 2 * TwoTo[a + k]
    <3>1. a + (k + 1) = (a + k) + 1 /\ a + k \in Nat
      OBVIOUS
    <3>. QED BY <3>1, PowerStep
  <2>2. TwoTo[k + 1] = 2 * TwoTo[k] /\ TwoTo[k] \in Nat /\ TwoTo[a] \in Nat
    BY PowerStep
  <2>3. TwoTo[a + k] = TwoTo[a] * TwoTo[k]
    BY <1>2
  <2>4. 2 * (TwoTo[a] * TwoTo[k]) = TwoTo[a] * (2 * TwoTo[k])
    BY <2>2
  <2>. QED BY <2>1, <2>2, <2>3, <2>4
<1>3. \A k \in Nat : k \in T
  <2>. HIDE DEF T
  <2>. QED BY <1>1, <1>2, Induction
<1>. QED BY <1>3

LEMMA PowerOrder ==
  ASSUME NEW a \in Nat, NEW b \in Nat
  PROVE  /\ a <= b => TwoTo[a] <= TwoTo[b]
         /\ a < b => 2 * TwoTo[a] <= TwoTo[b]
         /\ a < TwoTo[a]
<1>1. ASSUME NEW c \in Nat, NEW d \in Nat, c <= d PROVE TwoTo[c] <= TwoTo[d]
  <2>1. d - c \in Nat /\ c + (d - c) = d
    BY <1>1
  <2>2. TwoTo[d] = TwoTo[c] * TwoTo[d - c]
    BY <2>1, PowerSum
  <2>. DEFINE x == TwoTo[c]
              y == TwoTo[d - c]
  <2>3. x \in Nat /\ y \in Nat /\ y > 0
    BY <2>1, PowerStep
  <2>. HIDE DEF x, y
  <2>4. x * y >= x
    BY <2>3
  <2>. QED BY <2>2, <2>4 DEF x, y
<1>2. a < b => 2 * TwoTo[a] <= TwoTo[b]
  <2>1. a < b => a + 1 <= b /\ a + 1 \in Nat
    OBVIOUS
  <2>2. TwoTo[a + 1] = 2 * TwoTo[a]
    BY PowerStep
  <2>. QED BY <1>1, <2>1, <2>2
<1>. DEFINE T == {k \in Nat : k < TwoTo[k]}
<1>3. 0 \in T
  BY PowerStep
<1>4. \A k \in Nat : k \in T => k + 1 \in T
  BY PowerStep
<1>5. \A k \in Nat : k \in T
  <2>. HIDE DEF T
  <2>. QED BY <1>3, <1>4, Induction
<1>. QED BY <1>1, <1>2, <1>5

LEMMA DivModUnique ==
  ASSUME NEW a \in Int, NEW m \in Nat, m > 0, NEW q \in Int, NEW r \in 0..(m - 1), a = m * q + r
  PROVE  a \div m = q /\ a % m = r
<1>. DEFINE p == a \div m
            s == a % m
<1>1. p \in Int /\ s \in 0..(m - 1) /\ a = m * p + s
  BY Division
<1>. HIDE DEF p, s
<1>2. (q - p) * m = s - r
  BY <1>1
<1>3. q - p > 0 => (q - p) * m >= m
  BY <1>1
<1>4. q - p < 0 => (q - p) * m <= -m
  BY <1>1
<1>5. q = p
  BY <1>1, <1>2, <1>3, <1>4
<1>6. r = s
  BY <1>1, <1>2, <1>5
<1>. QED BY <1>5, <1>6 DEF p, s

LEMMA DivDiv ==
  ASSUME NEW a \in Int, NEW m \in Nat, m > 0, NEW n \in Nat, n > 0
  PROVE  (a \div m) \div n = a \div (m * n)
<1>. DEFINE q == a \div m
            r == a % m
            p == q \div n
            s == q % n
<1>1. q \in Int /\ r \in 0..(m - 1) /\ a = m * q + r
  BY Division
<1>. HIDE DEF q, r
<1>2. p \in Int /\ s \in 0..(n - 1) /\ q = n * p + s
  BY <1>1, Division
<1>. HIDE DEF p, s
<1>3. a = m * (n * p + s) + r
  BY <1>1, <1>2
<1>4. m * (n * p + s) = (m * n) * p + m * s
  BY <1>2
<1>5. m * s <= m * (n - 1) /\ m * s >= 0 /\ m * s \in Int
  BY <1>2
<1>6. m * (n - 1) = m * n - m
  OBVIOUS
<1>7. m * n \in Nat /\ m * n > 0
  OBVIOUS
<1>8. (m * s) + r \in 0..(m * n - 1)
  BY <1>1, <1>5, <1>6, <1>7
<1>9. a = (m * n) * p + ((m * s) + r)
  BY <1>1, <1>2, <1>3, <1>4, <1>5, <1>7
<1>10. a \div (m * n) = p
  BY <1>2, <1>7, <1>8, <1>9, DivModUnique
<1>. QED BY <1>10 DEF p, q

----------------------------------------------------------------------------
(* Surfaces.  Numbers rounded up to powers of two and to multiples.         *)

\* A number below the largest power has a smallest power that is no smaller.
LEMMA CeilExists ==
  ASSUME NEW n \in Nat, n <= TwoTo[24]
  PROVE  \E k \in 0..24 : TwoTo[k] >= n /\ (k = 0 \/ TwoTo[k - 1] < n)
<1>. DEFINE T == {m \in Nat : TwoTo[m] >= n =>
                      \E k \in 0..m : TwoTo[k] >= n /\ (k = 0 \/ TwoTo[k - 1] < n)}
<1>1. 0 \in T
  OBVIOUS
<1>2. ASSUME NEW m \in Nat, m \in T PROVE m + 1 \in T
  <2>1. CASE TwoTo[m] >= n
    <3>1. PICK k \in 0..m : TwoTo[k] >= n /\ (k = 0 \/ TwoTo[k - 1] < n)
      BY <1>2, <2>1
    <3>. QED BY <3>1
  <2>2. CASE ~(TwoTo[m] >= n)
    <3>1. TwoTo[m] < n /\ m + 1 \in 0..m + 1 /\ (m + 1) - 1 = m /\ m + 1 \in Nat
      BY <2>2, PowerStep
    <3>2. TwoTo[(m + 1) - 1] < n
      BY <3>1
    <3>. QED BY <3>1, <3>2
  <2>. QED BY <2>1, <2>2
<1>3. \A m \in Nat : m \in T
  <2>. HIDE DEF T
  <2>. QED BY <1>1, <1>2, Induction
<1>. QED BY <1>3

LEMMA CeilIsNat ==
  ASSUME NEW n \in Nat, n <= TwoTo[24]
  PROVE  BitCeil(n) \in Nat
<1>1. PICK k \in 0..24 : BitCeil(n) = TwoTo[k]
  BY CeilExists DEF BitCeil
<1>. QED BY <1>1, PowerStep

LEMMA CeilOfPower ==
  ASSUME NEW k \in 0..24
  PROVE  BitCeil(TwoTo[k]) = TwoTo[k]
<1>. DEFINE Fits(j) == TwoTo[j] >= TwoTo[k] /\ (j = 0 \/ TwoTo[j - 1] < TwoTo[k])
            j == CHOOSE i \in 0..24 : Fits(i)
<1>1. TwoTo[k] \in Nat /\ TwoTo[k] <= TwoTo[24]
  BY PowerStep, PowerOrder
<1>2. \E i \in 0..24 : Fits(i)
  BY <1>1, CeilExists
<1>3. j \in 0..24 /\ Fits(j)
  <2>. HIDE DEF Fits
  <2>. QED BY <1>2
<1>4. BitCeil(TwoTo[k]) = TwoTo[j]
  BY DEF BitCeil
<1>. HIDE DEF j
<1>5. ~(j < k)
  <2>1. j < k => 2 * TwoTo[j] <= TwoTo[k] /\ TwoTo[j] > 0
    BY <1>3, PowerOrder, PowerStep
  <2>. QED BY <1>1, <1>3, <2>1, PowerStep
<1>6. ~(j > k)
  <2>1. j > k => j - 1 \in Nat /\ k <= j - 1
    BY <1>3
  <2>2. j > k => TwoTo[k] <= TwoTo[j - 1]
    BY <2>1, PowerOrder
  <2>. QED BY <1>1, <1>3, <2>1, <2>2, PowerStep
<1>. QED BY <1>3, <1>4, <1>5, <1>6

SmallPowers == {1, 2, 4, 8, 16, 32, 64, 128, 256}
LEMMA SmallPowersAre ==
  ASSUME NEW p \in SmallPowers
  PROVE  BitCeil(p) = p
<1>1. /\ TwoTo[0] = 1 /\ TwoTo[1] = 2 /\ TwoTo[2] = 4 /\ TwoTo[3] = 8 /\ TwoTo[4] = 16
      /\ TwoTo[5] = 32 /\ TwoTo[6] = 64 /\ TwoTo[7] = 128 /\ TwoTo[8] = 256
  <2>1. TwoTo[0 + 1] = 2 * TwoTo[0] /\ TwoTo[1 + 1] = 2 * TwoTo[1] /\ TwoTo[2 + 1] = 2 * TwoTo[2]
    BY PowerStep
  <2>2. TwoTo[3 + 1] = 2 * TwoTo[3] /\ TwoTo[4 + 1] = 2 * TwoTo[4] /\ TwoTo[5 + 1] = 2 * TwoTo[5]
    BY PowerStep
  <2>3. TwoTo[6 + 1] = 2 * TwoTo[6] /\ TwoTo[7 + 1] = 2 * TwoTo[7]
    BY PowerStep
  <2>. QED BY <2>1, <2>2, <2>3, PowerStep
<1>2. \E k \in 0..24 : p = TwoTo[k]
  BY <1>1 DEF SmallPowers
<1>. QED BY <1>2, CeilOfPower

\* What is aligned is a multiple.
LEMMA AlignedIs ==
  ASSUME NEW v \in Nat, NEW a \in Nat \ {0}
  PROVE  \E m \in Nat : align_gx2_dimension(v, a) = m * a
<1>1. (v + a - 1) \div a \in Nat
  <2>. DEFINE x == v + a - 1
  <2>1. x \in Nat
    OBVIOUS
  <2>. HIDE DEF x
  <2>2. x \div a \in Nat
    BY <2>1
  <2>. QED BY <2>2 DEF x
<1>. QED BY <1>1 DEF align_gx2_dimension

LEMMA HalvedIs ==
  ASSUME NEW n \in Nat, NEW level \in Nat, n <= TwoTo[24]
  PROVE  Halved(n, level) \in Nat /\ Halved(n, level) <= TwoTo[24]
<1>. DEFINE p == TwoTo[level]
            q == n \div p
<1>1. p \in Nat \ {0} /\ TwoTo[24] \in Nat /\ TwoTo[24] > 0
  BY PowerStep
<1>2. q \in Nat /\ q <= n
  <2>. HIDE DEF p
  <2>0. n \in Int
    OBVIOUS
  <2>1. q \in Int /\ n % p \in 0..p - 1 /\ n = p * q + (n % p)
    BY <2>0, <1>1, Division, Zenon
  <2>. DEFINE r == n % p
  <2>. HIDE DEF q, r
  <2>2. q \in Int /\ r \in 0..p - 1 /\ n = p * q + r
    BY <2>1 DEF r
  <2>3. q < 0 => p * q <= -p
    BY <1>1, <2>2
  <2>4. q >= 0
    BY <1>1, <2>2, <2>3
  <2>5. p * q >= q
    BY <1>1, <2>2, <2>4
  <2>. QED BY <1>1, <2>2, <2>4, <2>5
<1>3. Halved(n, level) = IF q < 1 THEN 1 ELSE q
  BY DEF Halved, AtLeastOne
<1>. HIDE DEF q, p
<1>. QED BY <1>1, <1>2, <1>3

\* Level by level, an extent does not grow.
LEMMA HalvedShrinks ==
  ASSUME NEW n \in Nat, NEW level \in Nat
  PROVE  Halved(n, level) \in Int /\ Halved(n, level + 1) \in Int /\ Halved(n, level + 1) <= Halved(n, level)
<1>. DEFINE p == TwoTo[level]
            q == n \div p
            t == n \div (2 * p)
<1>1. p \in Nat \ {0} /\ TwoTo[level + 1] = 2 * p
  BY PowerStep
<1>2. q \in Int /\ t \in Int /\ t <= q
  <2>. HIDE DEF p
  <2>0. n \in Int
    OBVIOUS
  <2>1. q \in Int /\ n % p \in 0..p - 1 /\ n = p * q + (n % p)
    BY <2>0, <1>1, Division, Zenon
  <2>2. t \in Int /\ n % (2 * p) \in 0..(2 * p) - 1 /\ n = (2 * p) * t + (n % (2 * p))
    <3>1. 2 * p \in Nat \ {0}
      BY <1>1
    <3>. QED BY <2>0, <3>1, Division, Zenon
  <2>. DEFINE r == n % p
              u == n % (2 * p)
  <2>. HIDE DEF q, t, r, u
  <2>3. q \in Int /\ r \in 0..p - 1 /\ n = p * q + r
    BY <2>1 DEF r
  <2>4. t \in Int /\ u >= 0 /\ u \in Int /\ n = (2 * p) * t + u
    BY <1>1, <2>2 DEF u
  <2>5. (2 * p) * t = p * t + p * t
    BY <1>1, <2>4
  <2>6. p * (t - q) = p * t - p * q
    BY <1>1, <2>3, <2>4
  <2>7. t - q > 0 => p * (t - q) >= p
    BY <1>1, <2>3, <2>4
  <2>8. t < 0 => p * t <= -p /\ p * t < 0
    BY <1>1, <2>4
  <2>9. q >= 0
    <3>1. q < 0 => p * q <= -p
      BY <1>1, <2>3
    <3>. QED BY <1>1, <2>3, <3>1
  <2>10. t >= 0 => p * t >= 0
    BY <1>1, <2>4
  <2>. QED BY <1>1, <2>3, <2>4, <2>5, <2>6, <2>7, <2>8, <2>9, <2>10
<1>3. Halved(n, level) = (IF q < 1 THEN 1 ELSE q) /\ Halved(n, level + 1) = (IF t < 1 THEN 1 ELSE t)
  BY <1>1 DEF Halved, AtLeastOne
<1>. HIDE DEF q, t, p
<1>. QED BY <1>2, <1>3

----------------------------------------------------------------------------
(* Tiles.                                                                   *)

BitSizes     == {8, 16, 32, 64, 128}
SampleCounts == {1, 2, 4, 8}
LEMMA FormatBits == \A format : gx2_surface_format_bits(format) \in BitSizes \cup {0}
<1>. TAKE format
<1>. DEFINE base == format % 64
<1>1. gx2_surface_format_bits(format) =
        CASE base \in {1, 2} -> 8
          [] base \in {5, 6, 7, 8, 10, 11, 12} -> 16
          [] base \in {13, 14, 15, 16, 17, 22, 25, 26, 27} -> 32
          [] base \in {29, 30, 31, 32} -> 64
          [] base \in {34, 35} -> 128
          [] OTHER -> 0
  BY DEF gx2_surface_format_bits
<1>. HIDE DEF base
<1>. QED BY <1>1 DEF BitSizes

\* The bytes of a tile are a multiple of the alignment of its tile mode, those of a macro
\* tile one of the alignment of micro tiles too.
TileOk(tile, bits, samples) ==
  /\ tile[1] \in Nat \ {0} /\ tile[2] \in SmallPowers /\ tile[3] \in SmallPowers /\ tile[4] \in SmallPowers
  /\ \E m \in Nat : tile[2] * tile[3] * tile[4] * bits * samples = 8 * (tile[1] * m)
  /\ \E m \in Nat : tile[2] * tile[3] * tile[4] * bits * samples = 8 * (256 * m)

LEMMA LinearTile ==
  ASSUME NEW bits \in BitSizes, NEW samples \in SampleCounts
  PROVE  /\ TileOk(TileAlignments(linear_aligned, bits, samples), bits, samples)
         /\ TileAlignments(linear_aligned, bits, samples)[1] = 256
<1>. DEFINE pitch == Larger(64, 2048 \div bits)
<1>1. TileAlignments(linear_aligned, bits, samples) = <<256, pitch, 1, 1>>
  BY DEF TileAlignments, linear_aligned, linear_special, MacroTiled, thin1_1d, thick_1d, thin1_2d, thick_2d
<1>2. pitch \in {64, 128, 256} /\ pitch * bits \in {2048, 4096, 8192}
  <2>1. CASE bits = 8
    BY <2>1 DEF Larger
  <2>2. CASE bits = 16
    BY <2>2 DEF Larger
  <2>3. CASE bits = 32
    BY <2>3 DEF Larger
  <2>4. CASE bits = 64
    BY <2>4 DEF Larger
  <2>5. CASE bits = 128
    BY <2>5 DEF Larger
  <2>. QED BY <2>1, <2>2, <2>3, <2>4, <2>5 DEF BitSizes
<1>. HIDE DEF pitch
<1>3. bits \in Nat /\ samples \in Nat
  BY DEF BitSizes, SampleCounts
<1>4. \E m \in Nat : pitch * 1 * 1 * bits * samples = 8 * (256 * m)
  <2>1. PICK k \in Nat : pitch * bits = 2048 * k
    BY <1>2
  <2>2. pitch * 1 * 1 * bits * samples = 2048 * (k * samples) /\ k * samples \in Nat
    BY <1>2, <1>3, <2>1
  <2>. QED BY <2>2
<1>. QED BY <1>1, <1>2, <1>4 DEF TileOk, SmallPowers

\* The bits of a texel, and the divisions by their factors.
TexelBits == {8, 16, 32, 64, 128, 256, 512, 1024}
LEMMA Texels ==
  ASSUME NEW bits \in BitSizes, NEW samples \in SampleCounts
  PROVE  /\ bits \in Nat \ {0} /\ samples \in Nat \ {0} /\ bits * samples \in TexelBits
         /\ samples * bits = bits * samples
         /\ \A t \in Nat \ {0} : /\ ((256 \div bits) \div samples) \div t = 256 \div ((bits * samples) * t)
                                /\ ((256 \div bits) \div t) \div samples = 256 \div ((bits * samples) * t)
<1>1. bits \in Nat \ {0} /\ samples \in Nat \ {0}
  BY DEF BitSizes, SampleCounts
<1>2. bits * samples \in TexelBits
  BY DEF BitSizes, SampleCounts, TexelBits
<1>3. ASSUME NEW t \in Nat \ {0}
      PROVE  /\ ((256 \div bits) \div samples) \div t = 256 \div ((bits * samples) * t)
             /\ ((256 \div bits) \div t) \div samples = 256 \div ((bits * samples) * t)
  <2>1. (256 \div bits) \div samples = 256 \div (bits * samples)
    BY <1>1, DivDiv
  <2>. DEFINE u == bits * samples
              v == bits * t
  <2>2. u \in Nat /\ u > 0 /\ v \in Nat /\ v > 0
    BY <1>1
  <2>3. (256 \div u) \div t = 256 \div (u * t)
    <3>. HIDE DEF u
    <3>. QED BY <2>2, DivDiv
  <2>4. (256 \div bits) \div t = 256 \div v
    BY <1>1, DivDiv
  <2>5. (256 \div v) \div samples = 256 \div (v * samples)
    <3>. HIDE DEF v
    <3>. QED BY <1>1, <2>2, DivDiv
  <2>6. v * samples = u * t
    BY <1>1
  <2>. QED BY <2>1, <2>3, <2>4, <2>5, <2>6
<1>4. samples * bits = bits * samples
  BY <1>1
<1>. QED BY <1>1, <1>2, <1>3, <1>4

LEMMA MicroTile ==
  ASSUME NEW bits \in BitSizes, NEW samples \in SampleCounts, NEW mode \in {thin1_1d, thick_1d}
  PROVE  /\ TileOk(TileAlignments(mode, bits, samples), bits, samples)
         /\ TileAlignments(mode, bits, samples)[1] = 256
<1>1. PICK t \in {1, 4} :
        TileAlignments(mode, bits, samples) =
          <<256, Larger(8, ((256 \div bits) \div samples) \div t), 8, t>>
  BY DEF TileAlignments, linear_aligned, linear_special, MacroTiled, thin1_1d, thick_1d, thin1_2d, thick_2d, Thickness
<1>. DEFINE u == bits * samples
            pitch == Larger(8, 256 \div (u * t))
<1>2. u \in TexelBits /\ TileAlignments(mode, bits, samples) = <<256, pitch, 8, t>>
  BY <1>1, Texels
<1>3. bits \in Nat /\ samples \in Nat
  BY Texels
<1>. HIDE DEF u
<1>4. pitch \in {8, 16, 32} /\ \E m \in 1..128 : pitch * (u * t) = 256 * m
  <2>1. CASE t = 1
    BY <1>2, <2>1 DEF TexelBits, Larger
  <2>2. CASE t = 4
    BY <1>2, <2>2 DEF TexelBits, Larger
  <2>. QED BY <2>1, <2>2
<1>. HIDE DEF pitch
<1>5. \E m \in Nat : pitch * 8 * t * bits * samples = 8 * (256 * m)
  <2>1. PICK m \in 1..128 : pitch * (u * t) = 256 * m
    BY <1>4
  <2>2. pitch * 8 * t * bits * samples = 8 * (pitch * ((bits * samples) * t))
    BY <1>3, <1>4
  <2>. QED BY <2>1, <2>2 DEF u
<1>. QED BY <1>2, <1>4, <1>5 DEF TileOk, SmallPowers

LEMMA MacroTile ==
  ASSUME NEW bits \in BitSizes, NEW samples \in SampleCounts, NEW mode \in MacroTiled
  PROVE  TileOk(TileAlignments(mode, bits, samples), bits, samples)
<1>. DEFINE Pitch(t)  == Larger(32, 32 * (((256 \div bits) \div (8 * t)) \div samples))
            Splits(z) == IF z < 2048 THEN 1 ELSE z \div 2048
            Base(t)   == Larger((samples * bits * 16 * 32) \div 8, (samples * 16 * bits * Pitch(t)) \div 8) \div
                         Splits((t * samples * bits * 64) \div 8)
<1>1. PICK t \in {1, 4} : TileAlignments(mode, bits, samples) = <<Base(t), Pitch(t), 16, t>>
  BY DEF TileAlignments, linear_aligned, linear_special, MacroTiled, thin1_1d, thick_1d, thin1_2d, thick_2d, Thickness
<1>. DEFINE u == bits * samples
            pitch == Larger(32, 32 * (256 \div (u * (8 * t))))
            base  == Larger(64 * u, 2 * u * pitch) \div Splits(8 * t * u)
<1>2. u \in TexelBits /\ bits \in Nat /\ samples \in Nat /\ 8 * t \in Nat \ {0}
  BY Texels
<1>3. Pitch(t) = pitch
  <2>1. ((256 \div bits) \div (8 * t)) \div samples = 256 \div ((bits * samples) * (8 * t))
    <3>. DEFINE v == 8 * t
    <3>1. v \in Nat \ {0}
      BY <1>2
    <3>. HIDE DEF v, u, pitch, base, Base, Pitch, Splits
    <3>2. ((256 \div bits) \div v) \div samples = 256 \div ((bits * samples) * v)
      BY <3>1, Texels
    <3>. QED BY <3>2 DEF v
  <2>. QED BY <2>1, Zenon
<1>. HIDE DEF Pitch
<1>4. pitch \in {32, 64, 128} /\ u \in Nat
  <2>. HIDE DEF u
  <2>1. CASE t = 1
    BY <1>2, <2>1 DEF TexelBits, Larger
  <2>2. CASE t = 4
    BY <1>2, <2>2 DEF TexelBits, Larger
  <2>. QED BY <2>1, <2>2
<1>. HIDE DEF pitch
<1>5. /\ samples * bits * 16 * 32 = 8 * (64 * (bits * samples))
      /\ samples * 16 * bits * pitch = 8 * (2 * (bits * samples) * pitch)
      /\ t * samples * bits * 64 = 8 * (8 * t * (bits * samples))
  BY <1>2, <1>4
<1>6. ASSUME NEW x \in Nat PROVE (8 * x) \div 8 = x
  OBVIOUS
<1>7. /\ (samples * bits * 16 * 32) \div 8 = 64 * u /\ (samples * 16 * bits * pitch) \div 8 = 2 * u * pitch
      /\ (t * samples * bits * 64) \div 8 = 8 * t * u
  <2>1. 64 * u \in Nat /\ 2 * u * pitch \in Nat /\ 8 * t * u \in Nat
    <3>. HIDE DEF u
    <3>. QED BY <1>4
  <2>. QED BY <2>1, <1>5, <1>6
<1>8. Base(t) = base
  BY <1>3, <1>7
<1>. HIDE DEF Base
<1>9. /\ base \in Nat \ {0}
      /\ \E m \in Nat : pitch * 16 * t * u = 8 * (base * m)
      /\ \E m \in Nat : pitch * 16 * t * u = 8 * (256 * m)
  <2>. HIDE DEF u
  <2>1. CASE t = 1
    <3>1. u = 8 => pitch = 128 /\ base = 2048 /\ pitch * 16 * t * u = 8 * (base * 1) /\ pitch * 16 * t * u = 8 * (256 * 8)
      BY <2>1 DEF pitch, Larger
    <3>2. u = 16 => pitch = 64 /\ base = 2048 /\ pitch * 16 * t * u = 8 * (base * 1) /\ pitch * 16 * t * u = 8 * (256 * 8)
      BY <2>1 DEF pitch, Larger
    <3>3. u = 32 => pitch = 32 /\ base = 2048 /\ pitch * 16 * t * u = 8 * (base * 1) /\ pitch * 16 * t * u = 8 * (256 * 8)
      BY <2>1 DEF pitch, Larger
    <3>4. u = 64 => pitch = 32 /\ base = 4096 /\ pitch * 16 * t * u = 8 * (base * 1) /\ pitch * 16 * t * u = 8 * (256 * 16)
      BY <2>1 DEF pitch, Larger
    <3>5. u = 128 => pitch = 32 /\ base = 8192 /\ pitch * 16 * t * u = 8 * (base * 1) /\ pitch * 16 * t * u = 8 * (256 * 32)
      BY <2>1 DEF pitch, Larger
    <3>6. u = 256 => pitch = 32 /\ base = 16384 /\ pitch * 16 * t * u = 8 * (base * 1) /\ pitch * 16 * t * u = 8 * (256 * 64)
      BY <2>1 DEF pitch, Larger
    <3>7. u = 512 => pitch = 32 /\ base = 16384 /\ pitch * 16 * t * u = 8 * (base * 2) /\ pitch * 16 * t * u = 8 * (256 * 128)
      BY <2>1 DEF pitch, Larger
    <3>8. u = 1024 => pitch = 32 /\ base = 16384 /\ pitch * 16 * t * u = 8 * (base * 4) /\ pitch * 16 * t * u = 8 * (256 * 256)
      BY <2>1 DEF pitch, Larger
    <3>. HIDE DEF base
    <3>. QED BY <1>2, <3>1, <3>2, <3>3, <3>4, <3>5, <3>6, <3>7, <3>8 DEF TexelBits
  <2>2. CASE t = 4
    <3>1. u = 8 => pitch = 32 /\ base = 512 /\ pitch * 16 * t * u = 8 * (base * 4) /\ pitch * 16 * t * u = 8 * (256 * 8)
      BY <2>2 DEF pitch, Larger
    <3>2. u = 16 => pitch = 32 /\ base = 1024 /\ pitch * 16 * t * u = 8 * (base * 4) /\ pitch * 16 * t * u = 8 * (256 * 16)
      BY <2>2 DEF pitch, Larger
    <3>3. u = 32 => pitch = 32 /\ base = 2048 /\ pitch * 16 * t * u = 8 * (base * 4) /\ pitch * 16 * t * u = 8 * (256 * 32)
      BY <2>2 DEF pitch, Larger
    <3>4. u = 64 => pitch = 32 /\ base = 4096 /\ pitch * 16 * t * u = 8 * (base * 4) /\ pitch * 16 * t * u = 8 * (256 * 64)
      BY <2>2 DEF pitch, Larger
    <3>5. u = 128 => pitch = 32 /\ base = 4096 /\ pitch * 16 * t * u = 8 * (base * 8) /\ pitch * 16 * t * u = 8 * (256 * 128)
      BY <2>2 DEF pitch, Larger
    <3>6. u = 256 => pitch = 32 /\ base = 4096 /\ pitch * 16 * t * u = 8 * (base * 16) /\ pitch * 16 * t * u = 8 * (256 * 256)
      BY <2>2 DEF pitch, Larger
    <3>7. u = 512 => pitch = 32 /\ base = 4096 /\ pitch * 16 * t * u = 8 * (base * 32) /\ pitch * 16 * t * u = 8 * (256 * 512)
      BY <2>2 DEF pitch, Larger
    <3>8. u = 1024 => pitch = 32 /\ base = 4096 /\ pitch * 16 * t * u = 8 * (base * 64) /\ pitch * 16 * t * u = 8 * (256 * 1024)
      BY <2>2 DEF pitch, Larger
    <3>. HIDE DEF base
    <3>. QED BY <1>2, <3>1, <3>2, <3>3, <3>4, <3>5, <3>6, <3>7, <3>8 DEF TexelBits
  <2>. QED BY <2>1, <2>2
<1>. HIDE DEF base
<1>10. pitch * 16 * t * bits * samples = pitch * 16 * t * u
  BY <1>2, <1>4
<1>. HIDE DEF u
<1>. QED BY <1>1, <1>3, <1>4, <1>8, <1>9, <1>10 DEF TileOk, SmallPowers
----------------------------------------------------------------------------
(* The layout of a level.                                                   *)

\* The fields of a surface that a layout is calculated from.
SurfaceTyped(s) ==
  s.width \in Nat /\ s.height \in Nat /\ s.depth \in Nat /\ s.mip_levels \in Nat /\ s.aa_mode \in Nat
\* A surface that the calculation does not refuse, with what it says of the texels.
LaidOutSurface(s) ==
  /\ SurfaceTyped(s) /\ gx2_surface_format_bits(s.format) \in BitSizes /\ TwoTo[s.aa_mode] \in SampleCounts
  /\ s.width <= TwoTo[24] /\ s.height <= TwoTo[24] /\ s.depth <= TwoTo[24]
  /\ s.width > 0

LEMMA Unrefused ==
  ASSUME NEW s, SurfaceTyped(s), ~RefusedSurface(s)
  PROVE  LaidOutSurface(s)
<1>1. gx2_surface_format_bits(s.format) \in BitSizes
  BY FormatBits DEF RefusedSurface
<1>2. TwoTo[s.aa_mode] \in SampleCounts
  <2>1. TwoTo[0] = 1 /\ TwoTo[0 + 1] = 2 * TwoTo[0] /\ TwoTo[1 + 1] = 2 * TwoTo[1] /\ TwoTo[2 + 1] = 2 * TwoTo[2]
    BY PowerStep
  <2>2. s.aa_mode \in 0..3
    BY DEF RefusedSurface, SurfaceTyped
  <2>. QED BY <2>1, <2>2 DEF SampleCounts
<1>3. s.width <= TwoTo[24] /\ s.height <= TwoTo[24] /\ s.depth <= TwoTo[24] /\ s.width > 0
  BY PowerStep DEF RefusedSurface, SurfaceTyped
<1>. QED BY <1>1, <1>2, <1>3 DEF LaidOutSurface

\* What a level takes, in a tile mode.
LevelOk(l, mode) ==
  /\ l.base_alignment \in Nat \ {0} /\ l.size \in Nat
  /\ \E m \in Nat : l.size = l.base_alignment * m
  /\ mode # linear_special => \E m \in Nat : l.size = 256 * m
  /\ mode \notin MacroTiled \cup {linear_special} => l.base_alignment = 256

\* The alignments a level is padded to, given those of the tile.
LEMMA Paddings ==
  ASSUME NEW a \in SmallPowers, NEW display \in BOOLEAN, NEW pads \in BOOLEAN
  PROVE  LET asked == IF display THEN align_gx2_dimension(a, 32) ELSE a
             padded == IF pads THEN BitCeil(asked) ELSE asked
         IN padded \in SmallPowers /\ \E m \in Nat : padded = a * m
<1>. DEFINE asked == IF display THEN align_gx2_dimension(a, 32) ELSE a
<1>1. asked \in SmallPowers /\ \E m \in {1, 2, 4, 8, 16, 32} : asked = a * m
  <2>1. a <= 32 => align_gx2_dimension(a, 32) = 32
    BY DEF SmallPowers, align_gx2_dimension
  <2>2. a > 32 => align_gx2_dimension(a, 32) = a
    BY DEF SmallPowers, align_gx2_dimension
  <2>. QED BY <2>1, <2>2 DEF SmallPowers
<1>. HIDE DEF asked
<1>2. BitCeil(asked) = asked
  BY <1>1, SmallPowersAre
<1>. QED BY <1>1, <1>2 DEF asked

LEMMA Aligned ==
  ASSUME NEW v \in Nat, NEW a \in SmallPowers, NEW p \in SmallPowers, NEW m \in Nat, p = a * m
  PROVE  \E k \in Nat : align_gx2_dimension(v, p) = a * k
<1>1. a \in Nat /\ p \in Nat \ {0}
  BY DEF SmallPowers
<1>2. PICK j \in Nat : align_gx2_dimension(v, p) = j * p
  BY <1>1, AlignedIs
<1>3. j * p = a * (m * j) /\ m * j \in Nat
  BY <1>1
<1>. QED BY <1>2, <1>3

LEMMA EightTimes == \A x \in Nat : (8 * x) \div 8 = x
OBVIOUS

LEMMA Product ==
  ASSUME NEW a \in Nat, NEW b \in Nat, NEW c \in Nat, NEW i \in Nat, NEW j \in Nat, NEW k \in Nat,
         NEW bits \in Nat, NEW samples \in Nat
  PROVE  /\ (a * i) * (b * j) * (c * k) * bits * samples = (a * b * c * bits * samples) * (i * j * k)
         /\ i * j * k \in Nat /\ a * b * c * bits * samples \in Nat
OBVIOUS

LEMMA SpecialTile == \A bits, samples : TileAlignments(linear_special, bits, samples) = <<1, 1, 1, 1>>
BY DEF TileAlignments, linear_aligned, linear_special, MacroTiled, thin1_1d, thick_1d, thin1_2d, thick_2d

LEMMA LevelLayout ==
  ASSUME NEW s, LaidOutSurface(s), NEW mode \in TileModes, NEW level \in Nat
  PROVE  LevelOk(Layout(s, mode, level), mode)
<1>. DEFINE bits     == gx2_surface_format_bits(s.format)
            samples  == TwoTo[s.aa_mode]
            tile     == TileAlignments(mode, bits, samples)
            padded   == level # 0 /\ mode # linear_special
            Padded(n) == IF padded THEN BitCeil(n) ELSE n
            display  == HasFlag(s.use, DisplaySurfaceUse)
            pitch_alignment  == Padded(IF display THEN align_gx2_dimension(tile[2], 32) ELSE tile[2])
            mip_height == IF s.dimension = 0 THEN 1 ELSE Halved(s.height, level)
            mip_depth  == CASE s.dimension = 2 -> Halved(s.depth, level)
                            [] s.dimension \in {4, 5, 7} -> s.depth
                            [] OTHER -> 1
            pitch    == align_gx2_dimension(Padded(Halved(s.width, level)), pitch_alignment)
            height   == align_gx2_dimension(Padded(mip_height), Padded(tile[3]))
            depth    == align_gx2_dimension(Padded(mip_depth), Padded(tile[4]))
            l        == Layout(s, mode, level)
<1>1. l.base_alignment = tile[1] /\ l.size = (pitch * height * depth * bits * samples) \div 8
  BY DEF Layout, calculate_gx2_surface_mip_layout
<1>2. bits \in BitSizes /\ samples \in SampleCounts /\ bits \in Nat /\ samples \in Nat
  BY DEF LaidOutSurface, BitSizes, SampleCounts
<1>3. tile[1] \in Nat \ {0} /\ tile[2] \in SmallPowers /\ tile[3] \in SmallPowers /\ tile[4] \in SmallPowers
  <2>1. CASE mode = linear_special
    BY <2>1, SpecialTile DEF SmallPowers
  <2>2. CASE mode # linear_special
    <3>. HIDE DEF tile, bits, samples
    <3>1. TileOk(tile, bits, samples)
      BY <1>2, <2>2, LinearTile, MicroTile, MacroTile DEF TileModes, tile
    <3>. QED BY <3>1 DEF TileOk
  <2>. QED BY <2>1, <2>2
<1>4. mode # linear_special => TileOk(tile, bits, samples)
  <2>. HIDE DEF bits, samples
  <2>. QED BY <1>2, LinearTile, MicroTile, MacroTile DEF TileModes
<1>5. mode \notin MacroTiled \cup {linear_special} => tile[1] = 256
  <2>. HIDE DEF bits, samples
  <2>. QED BY <1>2, LinearTile, MicroTile DEF TileModes
<1>6. mode = linear_special => tile[1] = 1
  <2>. HIDE DEF bits, samples
  <2>. QED BY SpecialTile
<1>. HIDE DEF tile, bits, samples, l
<1>7. ASSUME NEW n \in Nat, n <= TwoTo[24] PROVE Padded(n) \in Nat
  BY <1>7, CeilIsNat
<1>8. Padded(Halved(s.width, level)) \in Nat /\ Padded(mip_height) \in Nat /\ Padded(mip_depth) \in Nat
  <2>1. Halved(s.width, level) \in Nat /\ Halved(s.width, level) <= TwoTo[24]
    BY HalvedIs DEF LaidOutSurface, SurfaceTyped
  <2>2. 1 \in Nat /\ 1 <= TwoTo[24]
    BY PowerStep
  <2>3. mip_height \in Nat /\ mip_height <= TwoTo[24]
    BY <2>2, HalvedIs DEF LaidOutSurface, SurfaceTyped
  <2>4. mip_depth \in Nat /\ mip_depth <= TwoTo[24]
    <3>1. Halved(s.depth, level) \in Nat /\ Halved(s.depth, level) <= TwoTo[24]
      BY HalvedIs DEF LaidOutSurface, SurfaceTyped
    <3>2. s.depth \in Nat /\ s.depth <= TwoTo[24]
      BY DEF LaidOutSurface, SurfaceTyped
    <3>. QED BY <2>2, <3>1, <3>2
  <2>. HIDE DEF Padded, mip_height, mip_depth
  <2>. QED BY <2>1, <2>3, <2>4, <1>7
<1>9. \E k \in Nat : pitch = tile[2] * k
  <2>1. display \in BOOLEAN /\ padded \in BOOLEAN
    BY DEF HasFlag
  <2>2. pitch_alignment \in SmallPowers /\ \E m \in Nat : pitch_alignment = tile[2] * m
    <3>. HIDE DEF display, padded
    <3>. QED BY <1>3, <2>1, Paddings
  <2>. DEFINE v == Padded(Halved(s.width, level))
  <2>3. v \in Nat
    BY <1>8
  <2>4. pitch = align_gx2_dimension(v, pitch_alignment)
    OBVIOUS
  <2>. HIDE DEF v, pitch_alignment, pitch
  <2>. QED BY <1>3, <2>2, <2>3, <2>4, Aligned
<1>10. ASSUME NEW v \in Nat, NEW a \in SmallPowers PROVE \E k \in Nat : align_gx2_dimension(v, Padded(a)) = a * k
  <2>1. Padded(a) = a /\ a = a * 1
    BY SmallPowersAre DEF SmallPowers
  <2>. HIDE DEF Padded
  <2>. QED BY <2>1, Aligned
<1>11. (\E k \in Nat : height = tile[3] * k) /\ (\E k \in Nat : depth = tile[4] * k)
  <2>. DEFINE v == Padded(mip_height)
              w == Padded(mip_depth)
  <2>1. v \in Nat /\ w \in Nat
    BY <1>8
  <2>. HIDE DEF v, w, Padded
  <2>. QED BY <1>3, <1>10, <2>1 DEF v, w
<1>. HIDE DEF pitch, height, depth
<1>12. PICK i \in Nat : pitch = tile[2] * i
  BY <1>9
<1>13. PICK j \in Nat : height = tile[3] * j
  BY <1>11
<1>14. PICK k \in Nat : depth = tile[4] * k
  BY <1>11
<1>. DEFINE texels == tile[2] * tile[3] * tile[4] * bits * samples
            times  == i * j * k
<1>15. pitch * height * depth * bits * samples = texels * times /\ times \in Nat /\ texels \in Nat
  <2>1. tile[2] \in Nat /\ tile[3] \in Nat /\ tile[4] \in Nat
    BY <1>3 DEF SmallPowers
  <2>. QED BY <2>1, <1>2, <1>12, <1>13, <1>14, Product
<1>16. ASSUME NEW a \in Nat, NEW m \in Nat, texels = 8 * (a * m) PROVE l.size = a * (m * times) /\ m * times \in Nat
  <2>. HIDE DEF texels, times
  <2>1. texels * times = 8 * (a * (m * times)) /\ a * (m * times) \in Nat /\ m * times \in Nat
    BY <1>15, <1>16
  <2>. QED BY <1>1, <1>15, <2>1, EightTimes
<1>17. CASE mode # linear_special
  <2>1. PICK m \in Nat : texels = 8 * (tile[1] * m)
    BY <1>4, <1>17 DEF TileOk
  <2>2. PICK n \in Nat : texels = 8 * (256 * n)
    BY <1>4, <1>17 DEF TileOk
  <2>. HIDE DEF texels, times
  <2>3. l.size = tile[1] * (m * times) /\ m * times \in Nat
    BY <1>3, <1>16, <2>1
  <2>4. l.size = 256 * (n * times) /\ n * times \in Nat
    BY <1>16, <2>2
  <2>. QED BY <1>1, <1>3, <1>5, <1>17, <2>3, <2>4 DEF LevelOk, l
<1>18. CASE mode = linear_special
  <2>1. l.size \in Nat
    <3>1. texels * times \in Nat
      <4>. HIDE DEF texels, times
      <4>. QED BY <1>15
    <3>. DEFINE x == texels * times
    <3>. HIDE DEF x, texels, times
    <3>2. l.size = x \div 8 /\ x \in Nat
      BY <1>1, <1>15, <3>1 DEF x
    <3>. QED BY <3>2
  <2>2. l.base_alignment = 1 /\ l.size = 1 * l.size
    BY <1>1, <1>6, <1>18, <2>1
  <2>. QED BY <1>18, <2>1, <2>2 DEF LevelOk, l
<1>. QED BY <1>17, <1>18
----------------------------------------------------------------------------
(* The tile modes of the levels.                                            *)

LEMMA LevelAlignments ==
  ASSUME NEW s, LaidOutSurface(s), NEW mode \in MacroTiled, NEW level \in Nat \ {0}
  PROVE  LET l == Layout(s, mode, level)
             m == Layout(s, mode, level + 1)
         IN /\ l.pitch_alignment \in Int /\ m.pitch_alignment = l.pitch_alignment
            /\ l.height_alignment \in Int /\ m.height_alignment = l.height_alignment
<1>. DEFINE bits    == gx2_surface_format_bits(s.format)
            samples == TwoTo[s.aa_mode]
            tile    == TileAlignments(mode, bits, samples)
            display == HasFlag(s.use, DisplaySurfaceUse)
            asked   == IF display THEN align_gx2_dimension(tile[2], 32) ELSE tile[2]
            l == Layout(s, mode, level)
            m == Layout(s, mode, level + 1)
<1>1. mode # linear_special /\ level # 0 /\ level + 1 # 0
  BY DEF MacroTiled, linear_special, thin1_2d, thick_2d
<1>2. /\ l.pitch_alignment = BitCeil(asked) /\ l.height_alignment = BitCeil(tile[3])
      /\ m.pitch_alignment = BitCeil(asked) /\ m.height_alignment = BitCeil(tile[3])
  BY <1>1 DEF Layout, calculate_gx2_surface_mip_layout
<1>3. tile[2] \in SmallPowers /\ tile[3] \in SmallPowers
  <2>1. bits \in BitSizes /\ samples \in SampleCounts
    BY DEF LaidOutSurface
  <2>. HIDE DEF bits, samples
  <2>. QED BY <2>1, MacroTile DEF TileOk
<1>. HIDE DEF l, m, tile
<1>4. BitCeil(asked) \in SmallPowers
  <2>1. display \in BOOLEAN /\ TRUE \in BOOLEAN
    BY DEF HasFlag
  <2>. HIDE DEF display
  <2>2. (IF TRUE THEN BitCeil(asked) ELSE asked) \in SmallPowers
    BY <1>3, <2>1, Paddings
  <2>. QED BY <2>2
<1>5. BitCeil(tile[3]) \in SmallPowers
  BY <1>3, SmallPowersAre
<1>. HIDE DEF asked
<1>. QED BY <1>2, <1>4, <1>5 DEF SmallPowers, l, m

LEMMA LevelModes ==
  ASSUME NEW s, NEW mode \in TileModes, NEW level, NEW layout
  PROVE  LET own == LevelMode(s, mode, level, layout)
         IN /\ own \in TileModes
            /\ own = mode \/ (mode \in MacroTiled /\ own \in {thin1_1d, thick_1d})
<1>1. LevelMode(s, mode, level, layout) \in {mode, MicroTiled(mode)}
      /\ (mode \notin MacroTiled => LevelMode(s, mode, level, layout) = mode)
  BY DEF LevelMode
<1>2. MicroTiled(mode) \in {thin1_1d, thick_1d} /\ {thin1_1d, thick_1d} \subseteq TileModes
  BY DEF MicroTiled, TileModes
<1>. QED BY <1>1, <1>2

\* Once a level above the base has fallen back, those above it have.
LEMMA FallsBack ==
  ASSUME NEW s, LaidOutSurface(s), NEW mode \in TileModes, NEW level \in Nat \ {0},
         LevelMode(s, mode, level, Layout(s, mode, level)) # mode
  PROVE  LevelMode(s, mode, level + 1, Layout(s, mode, level + 1)) =
         LevelMode(s, mode, level, Layout(s, mode, level))
<1>1. mode \in MacroTiled
  BY LevelModes
<1>. DEFINE p == Layout(s, mode, level).pitch_alignment
            h == Layout(s, mode, level).height_alignment
<1>2. /\ p \in Int /\ Layout(s, mode, level + 1).pitch_alignment = p
      /\ h \in Int /\ Layout(s, mode, level + 1).height_alignment = h
  BY <1>1, LevelAlignments
<1>3. level # 0 /\ level + 1 # 0
  OBVIOUS
<1>4. Halved(s.width, level) < p \/ Halved(s.height, level) < h
  BY <1>3 DEF LevelMode
<1>5. Halved(s.width, level + 1) < p \/ Halved(s.height, level + 1) < h
  <2>1. /\ Halved(s.width, level) \in Int /\ Halved(s.width, level + 1) \in Int
        /\ Halved(s.width, level + 1) <= Halved(s.width, level)
    BY HalvedShrinks DEF LaidOutSurface, SurfaceTyped
  <2>2. /\ Halved(s.height, level) \in Int /\ Halved(s.height, level + 1) \in Int
        /\ Halved(s.height, level + 1) <= Halved(s.height, level)
    BY HalvedShrinks DEF LaidOutSurface, SurfaceTyped
  <2>. HIDE DEF p, h
  <2>. QED BY <1>2, <1>4, <2>1, <2>2
<1>. QED BY <1>1, <1>2, <1>3, <1>4, <1>5 DEF LevelMode

\* The layouts of a surface's levels.
LevelsOf(s, mode) == Layouts(s, mode, Macros(s, mode))
ModeOf(s, mode, n) == IF n = 1 THEN mode ELSE LevelMode(s, mode, n - 1, Layout(s, mode, n - 1))

LEMMA LevelCount ==
  ASSUME NEW s, LaidOutSurface(s)
  PROVE  mip_levels(s) \in Nat \ {0}
<1>1. ASSUME NEW n PROVE Levels(n) \in Nat /\ (Levels(n) = 0 => {k \in 0..24 : TwoTo[k] <= n} = {})
  <2>. DEFINE K == {k \in 0..24 : TwoTo[k] <= n}
              I == 0..24
  <2>1. IsFiniteSet(I)
    <3>1. 0 \in Int /\ 24 \in Int
      OBVIOUS
    <3>. QED BY <3>1, FS_Interval, Zenon
  <2>2. K \in SUBSET I /\ Levels(n) = Cardinality(K)
    BY DEF Levels
  <2>. HIDE DEF K, I
  <2>3. IsFiniteSet(K)
    BY <2>1, <2>2, FS_Subset
  <2>4. Cardinality(K) \in Nat /\ (Cardinality(K) = 0 <=> K = {})
    BY <2>3, FS_CardinalityType, FS_EmptySet
  <2>. QED BY <2>2, <2>4 DEF K
<1>2. ASSUME NEW n \in Nat \ {0} PROVE Levels(n) \in Nat \ {0}
  <2>1. 0 \in {k \in 0..24 : TwoTo[k] <= n}
    BY PowerStep
  <2>. QED BY <1>1, <2>1
<1>3. Larger(s.width, s.height) \in Nat \ {0}
  BY DEF LaidOutSurface, SurfaceTyped, Larger
<1>. DEFINE most == Larger(Levels(Larger(s.width, s.height)), IF s.dimension = 2 THEN Levels(s.depth) ELSE 1)
            asked == AtLeastOne(s.mip_levels)
<1>4. most \in Nat \ {0}
  <2>. DEFINE a == Levels(Larger(s.width, s.height))
              b == IF s.dimension = 2 THEN Levels(s.depth) ELSE 1
  <2>1. a \in Nat \ {0} /\ b \in Nat
    <3>1. Levels(s.depth) \in Nat
      BY <1>1
    <3>. QED BY <1>2, <1>3, <3>1
  <2>. HIDE DEF a, b
  <2>2. Larger(a, b) \in Nat \ {0}
    BY <2>1 DEF Larger
  <2>. QED BY <2>2 DEF a, b
<1>5. asked \in Nat \ {0}
  BY DEF AtLeastOne, LaidOutSurface, SurfaceTyped
<1>6. mip_levels(s) = Smaller(asked, most)
  BY DEF mip_levels
<1>. HIDE DEF most, asked
<1>. QED BY <1>4, <1>5, <1>6 DEF Smaller

LEMMA LevelsAre ==
  ASSUME NEW s, LaidOutSurface(s), NEW mode \in TileModes
  PROVE  LET layouts == LevelsOf(s, mode)
         IN /\ DOMAIN layouts = 1..mip_levels(s) /\ DOMAIN Macros(s, mode) = 1..mip_levels(s)
            /\ Len(layouts) = mip_levels(s) /\ mip_levels(s) \in Nat \ {0}
            /\ \A n \in 1..mip_levels(s) : layouts[n] = Layout(s, ModeOf(s, mode, n), n - 1)
<1>. DEFINE count   == mip_levels(s)
            macros  == Macros(s, mode)
            layouts == LevelsOf(s, mode)
<1>1. count \in Nat \ {0}
  BY LevelCount
<1>2. macros = [n \in 1..count |-> Layout(s, mode, n - 1)]
  BY DEF Macros
<1>. HIDE DEF count, macros
<1>3. DOMAIN macros = 1..count /\ \A n \in 1..count : macros[n] = Layout(s, mode, n - 1)
  BY <1>2
<1>4. layouts = [n \in 1..count |->
                   LET own == IF n = 1 THEN mode ELSE LevelMode(s, mode, n - 1, macros[n])
                   IN IF own = mode THEN macros[n] ELSE Layout(s, own, n - 1)]
  BY <1>3 DEF LevelsOf, Layouts, macros
<1>. HIDE DEF layouts
<1>5. DOMAIN layouts = 1..count
  BY <1>4
<1>6. Len(layouts) = count
  <2>1. layouts \in Seq({layouts[n] : n \in 1..count})
    BY <1>1, <1>4, <1>5
  <2>. QED BY <1>1, <1>5, <2>1, LenProperties
<1>7. ASSUME NEW n \in 1..count PROVE layouts[n] = Layout(s, ModeOf(s, mode, n), n - 1)
  BY <1>3, <1>4 DEF ModeOf
<1>. QED BY <1>1, <1>3, <1>5, <1>6, <1>7 DEF count, macros, layouts
----------------------------------------------------------------------------
(* Where the levels start.                                                  *)

\* The size of a level is a multiple of the alignment of the next.
LEMMA NextAlignment ==
  ASSUME NEW s, LaidOutSurface(s), NEW mode \in TileModes, NEW n \in Nat \ {0}
  PROVE  LET below == Layout(s, ModeOf(s, mode, n), n - 1)
             above == Layout(s, ModeOf(s, mode, n + 1), n)
         IN /\ below.size \in Nat /\ above.size \in Nat /\ above.base_alignment \in Nat \ {0}
            /\ \E m \in Nat : below.size = above.base_alignment * m
<1>. DEFINE own   == ModeOf(s, mode, n)
            next  == ModeOf(s, mode, n + 1)
            below == Layout(s, own, n - 1)
            above == Layout(s, next, n)
            Good  == /\ below.size \in Nat /\ above.size \in Nat /\ above.base_alignment \in Nat \ {0}
                     /\ \E m \in Nat : below.size = above.base_alignment * m
<1>1. n - 1 \in Nat /\ n \in Nat /\ n + 1 # 1 /\ (n + 1) - 1 = n
  OBVIOUS
<1>2. own \in TileModes /\ (own = mode \/ (mode \in MacroTiled /\ own \in {thin1_1d, thick_1d}))
  BY LevelModes DEF ModeOf
<1>3. next \in TileModes /\ (next = mode \/ (mode \in MacroTiled /\ next \in {thin1_1d, thick_1d}))
  BY <1>1, LevelModes DEF ModeOf
<1>4. own = next \/ own = mode
  <2>1. CASE n = 1
    BY <2>1 DEF ModeOf
  <2>2. CASE n # 1
    <3>1. n - 1 \in Nat \ {0} /\ (n - 1) + 1 = n
      BY <2>2
    <3>2. own = LevelMode(s, mode, n - 1, Layout(s, mode, n - 1)) /\ next = LevelMode(s, mode, n, Layout(s, mode, n))
      BY <1>1, <2>2 DEF ModeOf
    <3>3. own # mode => LevelMode(s, mode, (n - 1) + 1, Layout(s, mode, (n - 1) + 1)) = own
      BY <3>1, <3>2, FallsBack
    <3>. QED BY <3>1, <3>2, <3>3
  <2>. QED BY <2>1, <2>2
<1>. HIDE DEF own, next
<1>5. LevelOk(below, own) /\ LevelOk(above, next)
  BY <1>1, <1>2, <1>3, LevelLayout
<1>6. own = next => below.base_alignment = above.base_alignment
  <2>1. ASSUME NEW k, NEW m PROVE Layout(s, m, k).base_alignment =
                                 TileAlignments(m, gx2_surface_format_bits(s.format), TwoTo[s.aa_mode])[1]
    BY DEF Layout, calculate_gx2_surface_mip_layout
  <2>. QED BY <2>1
<1>. HIDE DEF below, above
<1>7. ASSUME own = next PROVE Good
  <2>1. below.base_alignment = above.base_alignment /\ above.base_alignment \in Nat \ {0}
    BY <1>5, <1>6, <1>7 DEF LevelOk
  <2>2. below.size \in Nat /\ above.size \in Nat /\ \E m \in Nat : below.size = below.base_alignment * m
    BY <1>5 DEF LevelOk
  <2>. QED BY <2>1, <2>2
<1>8. ASSUME own # next PROVE Good
  <2>1. own = mode /\ mode \in MacroTiled /\ next \in {thin1_1d, thick_1d}
    BY <1>2, <1>3, <1>4, <1>8
  <2>2. own # linear_special /\ next \notin MacroTiled \cup {linear_special}
    BY <2>1 DEF MacroTiled, thin1_1d, thick_1d, thin1_2d, thick_2d, linear_special
  <2>3. above.base_alignment = 256 /\ above.size \in Nat /\ below.size \in Nat
    BY <1>5, <2>2 DEF LevelOk
  <2>4. \E m \in Nat : below.size = 256 * m
    BY <1>5, <2>2 DEF LevelOk
  <2>. QED BY <2>3, <2>4
<1>9. Good
  BY <1>7, <1>8
<1>. QED BY <1>9 DEF below, above, own, next

\* Where a level starts, given where the one before it does.
StartAfter(layouts, n, before) ==
  LET align == layouts[n].base_alignment
  IN before + ((align - (before % align)) % align) + layouts[n - 1].size
Placed(layouts, m) == {f \in [1..m -> Nat] :
  \A n \in 1..m : f[n] = IF n = 1 THEN 0 ELSE StartAfter(layouts, n, f[n - 1])}

\* A multiple that is not below a number, and its distance.
LEMMA Padding ==
  ASSUME NEW b \in Nat, NEW a \in Nat \ {0}
  PROVE  /\ (a - (b % a)) % a \in Nat
         /\ \E q \in Nat : b + ((a - (b % a)) % a) = a * q
<1>. DEFINE q == b \div a
            r == b % a
<1>1. q \in Int /\ r \in 0..a - 1 /\ b = a * q + r
  <2>1. b \in Int
    OBVIOUS
  <2>. QED BY <2>1, Division, Zenon
<1>. HIDE DEF q, r
<1>2. q \in Nat
  <2>1. q < 0 => a * q <= -a
    BY <1>1
  <2>. QED BY <1>1, <2>1
<1>3. CASE r = 0
  <2>1. a = a * 1 + 0 /\ 0 \in 0..(a - 1) /\ a > 0 /\ a \in Int /\ 1 \in Int /\ a \in Nat
    OBVIOUS
  <2>2. a % a = 0
    BY <2>1, DivModUnique
  <2>3. (a - r) % a = 0
    BY <1>3, <2>2
  <2>4. b + 0 = a * q
    BY <1>1, <1>3
  <2>. QED BY <1>2, <2>3, <2>4 DEF r
<1>4. CASE r # 0
  <2>. DEFINE x == a - r
  <2>1. x = a * 0 + x /\ x \in 0..(a - 1) /\ a > 0 /\ x \in Int /\ 0 \in Int /\ a \in Nat
    BY <1>1, <1>4
  <2>2. x % a = x
    <3>. HIDE DEF x
    <3>. QED BY <2>1, DivModUnique
  <2>3. b + x = a * (q + 1) /\ x \in Nat /\ q + 1 \in Nat
    BY <1>1, <1>2, <2>1
  <2>4. (a - r) % a = x
    BY <2>2
  <2>. HIDE DEF x
  <2>5. (a - r) % a \in Nat /\ b + ((a - r) % a) = a * (q + 1) /\ q + 1 \in Nat
    BY <2>3, <2>4
  <2>. QED BY <2>5 DEF r
<1>. QED BY <1>3, <1>4

LEMMA StartAligned ==
  ASSUME NEW layouts, NEW n, NEW b \in Nat,
         layouts[n].base_alignment \in Nat \ {0}, layouts[n - 1].size \in Nat,
         \E m \in Nat : layouts[n - 1].size = layouts[n].base_alignment * m
  PROVE  LET start == StartAfter(layouts, n, b)
         IN /\ start \in Nat /\ start % layouts[n].base_alignment = 0
            /\ b + layouts[n - 1].size <= start
<1>. DEFINE a == layouts[n].base_alignment
            z == layouts[n - 1].size
            p == (a - (b % a)) % a
<1>1. StartAfter(layouts, n, b) = b + p + z
  BY DEF StartAfter
<1>2. a \in Nat \ {0} /\ z \in Nat
  OBVIOUS
<1>3. PICK m \in Nat : z = a * m
  OBVIOUS
<1>. HIDE DEF a, z
<1>4. p \in Nat /\ \E q \in Nat : b + p = a * q
  BY <1>2, Padding
<1>. HIDE DEF p
<1>5. PICK q \in Nat : b + p = a * q
  BY <1>4
<1>. DEFINE x == b + p + z
<1>6. x = a * (q + m) + 0 /\ x \in Nat /\ q + m \in Int /\ 0 \in 0..(a - 1) /\ b + z <= x
  BY <1>2, <1>3, <1>4, <1>5
<1>7. x % a = 0
  <2>. HIDE DEF x
  <2>. QED BY <1>2, <1>6, DivModUnique
<1>. QED BY <1>1, <1>6, <1>7 DEF a, z

\* Levels whose sizes are multiples of the alignment of the next.
SizesOk(layouts) ==
  /\ Len(layouts) \in Nat \ {0}
  /\ \A n \in 1..Len(layouts) : layouts[n].size \in Nat /\ layouts[n].base_alignment \in Nat \ {0}
  /\ \A n \in 2..Len(layouts) : \E m \in Nat : layouts[n - 1].size = layouts[n].base_alignment * m

LEMMA SizesOfLevels ==
  ASSUME NEW s, LaidOutSurface(s), NEW mode \in TileModes
  PROVE  SizesOk(LevelsOf(s, mode))
<1>. DEFINE layouts == LevelsOf(s, mode)
            count   == Len(layouts)
<1>1. count \in Nat \ {0} /\ \A n \in 1..count : layouts[n] = Layout(s, ModeOf(s, mode, n), n - 1)
  BY LevelsAre
<1>. HIDE DEF layouts, count
<1>2. ASSUME NEW n \in 1..count PROVE layouts[n].size \in Nat /\ layouts[n].base_alignment \in Nat \ {0}
  <2>1. n - 1 \in Nat /\ ModeOf(s, mode, n) \in TileModes
    BY <1>1, LevelModes DEF ModeOf
  <2>2. LevelOk(layouts[n], ModeOf(s, mode, n))
    BY <1>1, <2>1, LevelLayout
  <2>. QED BY <2>2 DEF LevelOk
<1>3. ASSUME NEW n \in 2..count PROVE \E m \in Nat : layouts[n - 1].size = layouts[n].base_alignment * m
  <2>. DEFINE k == n - 1
  <2>1. k \in Nat \ {0} /\ k \in 1..count /\ k + 1 = n /\ n \in 1..count
    BY <1>1
  <2>2. layouts[k] = Layout(s, ModeOf(s, mode, k), k - 1) /\ layouts[n] = Layout(s, ModeOf(s, mode, k + 1), k)
    BY <1>1, <2>1
  <2>. HIDE DEF k
  <2>3. \E m \in Nat : layouts[k].size = layouts[n].base_alignment * m
    BY <2>1, <2>2, NextAlignment
  <2>. QED BY <2>3 DEF k
<1>. QED BY <1>1, <1>2, <1>3 DEF SizesOk, layouts, count

StartsOf(layouts, starts) ==
  starts = [n \in 1..Len(layouts) |-> IF n = 1 THEN 0 ELSE StartAfter(layouts, n, starts[n - 1])]

LEMMA StartsExist ==
  ASSUME NEW layouts, SizesOk(layouts)
  PROVE  \E f : StartsOf(layouts, f)
<1>. DEFINE count == Len(layouts)
            T == {m \in Nat : m <= count => Placed(layouts, m) # {}}
<1>1. count \in Nat \ {0}
  BY DEF SizesOk
<1>. HIDE DEF count
<1>2. 0 \in T
  <2>1. [n \in 1..0 |-> 0] \in Placed(layouts, 0)
    BY DEF Placed
  <2>. QED BY <2>1
<1>3. ASSUME NEW m \in Nat, m \in T PROVE m + 1 \in T
  <2>. SUFFICES ASSUME m + 1 <= count PROVE Placed(layouts, m + 1) # {}
    OBVIOUS
  <2>1. PICK f : f \in Placed(layouts, m)
    BY <1>1, <1>3
  <2>2. f \in [1..m -> Nat] /\ \A n \in 1..m : f[n] = IF n = 1 THEN 0 ELSE StartAfter(layouts, n, f[n - 1])
    BY <2>1 DEF Placed
  <2>. DEFINE new == IF m = 0 THEN 0 ELSE StartAfter(layouts, m + 1, f[m])
              g   == [n \in 1..m + 1 |-> IF n = m + 1 THEN new ELSE f[n]]
  <2>3. new \in Nat
    <3>1. CASE m = 0
      BY <3>1
    <3>2. CASE m # 0
      <4>. DEFINE k == m + 1
                  b == f[m]
      <4>1. k \in 2..count /\ k \in 1..count /\ k - 1 \in 1..count /\ b \in Nat
        BY <1>1, <2>2, <3>2
      <4>. HIDE DEF k, b
      <4>2. /\ layouts[k].base_alignment \in Nat \ {0} /\ layouts[k - 1].size \in Nat
            /\ \E i \in Nat : layouts[k - 1].size = layouts[k].base_alignment * i
        BY <4>1 DEF SizesOk, count
      <4>3. StartAfter(layouts, k, b) \in Nat
        BY <4>1, <4>2, StartAligned
      <4>. QED BY <3>2, <4>3 DEF k, b
    <3>. QED BY <3>1, <3>2
  <2>. HIDE DEF new
  <2>4. g \in [1..m + 1 -> Nat]
    BY <2>2, <2>3
  <2>5. ASSUME NEW n \in 1..m + 1 PROVE g[n] = IF n = 1 THEN 0 ELSE StartAfter(layouts, n, g[n - 1])
    <3>1. CASE n = m + 1
      <4>1. CASE m = 0
        BY <3>1, <4>1 DEF new
      <4>2. CASE m # 0
        <5>1. n # 1 /\ g[n] = StartAfter(layouts, n, f[m]) /\ n - 1 = m /\ m \in 1..m + 1 /\ m # m + 1
          BY <3>1, <4>2 DEF new
        <5>2. g[m] = f[m]
          BY <5>1
        <5>. HIDE DEF g
        <5>. QED BY <5>1, <5>2
      <4>. QED BY <4>1, <4>2
    <3>2. CASE n # m + 1
      <4>1. n \in 1..m /\ g[n] = f[n]
        BY <3>2
      <4>2. n # 1 => n - 1 \in 1..m /\ g[n - 1] = f[n - 1]
        BY <4>1
      <4>. HIDE DEF g
      <4>. QED BY <4>1, <4>2, <2>2
    <3>. QED BY <3>1, <3>2
  <2>6. g \in Placed(layouts, m + 1)
    <3>. HIDE DEF g
    <3>. QED BY <2>4, <2>5 DEF Placed
  <2>. QED BY <2>6
<1>4. \A m \in Nat : m \in T
  <2>. HIDE DEF T
  <2>. QED BY <1>2, <1>3, Induction
<1>5. PICK f : f \in Placed(layouts, count)
  BY <1>1, <1>4
<1>6. f \in [1..count -> Nat] /\ \A n \in 1..count : f[n] = IF n = 1 THEN 0 ELSE StartAfter(layouts, n, f[n - 1])
  BY <1>5 DEF Placed
<1>7. f = [n \in 1..count |-> IF n = 1 THEN 0 ELSE StartAfter(layouts, n, f[n - 1])]
  BY <1>6
<1>. QED BY <1>7 DEF StartsOf, count

LEMMA OffsetsAre ==
  ASSUME NEW layouts, SizesOk(layouts)
  PROVE  LET starts == Offsets(layouts)
         IN /\ DOMAIN starts = 1..Len(layouts)
            /\ \A n \in 1..Len(layouts) : starts[n] \in Nat /\ starts[n] % layouts[n].base_alignment = 0
            /\ \A n \in 2..Len(layouts) : starts[n - 1] + layouts[n - 1].size <= starts[n]
<1>. DEFINE count  == Len(layouts)
            starts == Offsets(layouts)
<1>1. starts = CHOOSE f : StartsOf(layouts, f)
  BY DEF Offsets, StartsOf, StartAfter
<1>2. StartsOf(layouts, starts)
  <2>. HIDE DEF starts
  <2>. QED BY <1>1, StartsExist
<1>3. count \in Nat \ {0}
  BY DEF SizesOk
<1>. HIDE DEF starts, count
<1>4. /\ DOMAIN starts = 1..count
      /\ \A n \in 1..count : starts[n] = IF n = 1 THEN 0 ELSE StartAfter(layouts, n, starts[n - 1])
  <2>1. starts = [n \in 1..count |-> IF n = 1 THEN 0 ELSE StartAfter(layouts, n, starts[n - 1])]
    BY <1>2, Zenon DEF StartsOf, count
  <2>. DEFINE f == [n \in 1..count |-> IF n = 1 THEN 0 ELSE StartAfter(layouts, n, starts[n - 1])]
  <2>2. DOMAIN f = 1..count /\ \A n \in 1..count : f[n] = IF n = 1 THEN 0 ELSE StartAfter(layouts, n, starts[n - 1])
    OBVIOUS
  <2>3. starts = f
    BY <2>1
  <2>. HIDE DEF f
  <2>. QED BY <2>2, <2>3
<1>5. ASSUME NEW n \in 2..count, starts[n - 1] \in Nat
      PROVE  /\ starts[n] \in Nat /\ starts[n] % layouts[n].base_alignment = 0
             /\ starts[n - 1] + layouts[n - 1].size <= starts[n]
  <2>1. n \in 1..count /\ n - 1 \in 1..count /\ n # 1
    BY <1>3
  <2>2. /\ layouts[n].base_alignment \in Nat \ {0} /\ layouts[n - 1].size \in Nat
        /\ \E m \in Nat : layouts[n - 1].size = layouts[n].base_alignment * m
    BY <2>1 DEF SizesOk, count
  <2>3. starts[n] = StartAfter(layouts, n, starts[n - 1])
    BY <1>4, <2>1
  <2>. QED BY <1>5, <2>2, <2>3, StartAligned
<1>. DEFINE T == {m \in Nat : m + 1 \in 1..count => starts[m + 1] \in Nat}
<1>6. 0 \in T
  BY <1>3, <1>4
<1>7. ASSUME NEW m \in Nat, m \in T PROVE m + 1 \in T
  <2>. DEFINE n == m + 2
  <2>1. n \in 1..count => n \in 2..count /\ n - 1 = m + 1 /\ m + 1 \in 1..count
    BY <1>3
  <2>2. (m + 1) + 1 = n
    OBVIOUS
  <2>. HIDE DEF n
  <2>3. n \in 1..count => starts[n] \in Nat
    BY <1>5, <1>7, <2>1
  <2>. QED BY <2>2, <2>3
<1>8. \A m \in Nat : m \in T
  <2>. HIDE DEF T
  <2>. QED BY <1>6, <1>7, Induction
<1>9. ASSUME NEW n \in 1..count PROVE starts[n] \in Nat
  <2>1. n - 1 \in Nat /\ (n - 1) + 1 = n
    BY <1>3
  <2>. QED BY <1>8, <2>1
<1>10. ASSUME NEW n \in 1..count PROVE starts[n] % layouts[n].base_alignment = 0
  <2>1. CASE n = 1
    <3>. DEFINE a == layouts[1].base_alignment
    <3>1. a \in Nat \ {0}
      BY <2>1 DEF SizesOk, count
    <3>2. starts[n] = 0
      BY <1>4, <2>1
    <3>. HIDE DEF a
    <3>3. 0 = a * 0 + 0 /\ 0 \in 0..(a - 1) /\ a > 0 /\ 0 \in Int /\ a \in Nat
      BY <3>1
    <3>4. 0 % a = 0
      BY <3>3, DivModUnique
    <3>. QED BY <2>1, <3>2, <3>4 DEF a
  <2>2. CASE n # 1
    <3>1. n \in 2..count /\ n - 1 \in 1..count
      BY <1>3, <2>2
    <3>. QED BY <1>5, <1>9, <3>1
  <2>. QED BY <2>1, <2>2
<1>11. ASSUME NEW n \in 2..count PROVE starts[n - 1] + layouts[n - 1].size <= starts[n]
  <2>1. n - 1 \in 1..count
    BY <1>3
  <2>. QED BY <1>5, <1>9, <2>1
<1>. QED BY <1>4, <1>9, <1>10, <1>11 DEF starts, count

LEMMA CalculatedFrom ==
  ASSUME NEW s, calculate_gx2_surface_size_and_alignment(s) # Failed
  PROVE  /\ ~RefusedSurface(s)
         /\ \E mode \in TileModes : calculate_gx2_surface_size_and_alignment(s) =
              SurfaceFields(s, mode, LevelsOf(s, mode), Offsets(LevelsOf(s, mode)))
<1>. DEFINE asked == asked_tile_mode(s)
            base  == Layout(s, asked, 0)
            mode  == LevelMode(s, asked, 0, base)
<1>1. ~RefusedSurface(s) /\ asked \in TileModes
  BY DEF calculate_gx2_surface_size_and_alignment
<1>2. calculate_gx2_surface_size_and_alignment(s) = Based(s, asked, base)
  <2>1. calculate_gx2_surface_size_and_alignment(s) = Evaluated(LAMBDA b : Based(s, asked_tile_mode(s), b), Layout(s, asked_tile_mode(s), 0))
    BY <1>1 DEF calculate_gx2_surface_size_and_alignment
  <2>. QED BY <2>1 DEF Evaluated
<1>3. Based(s, asked, base) = Tiled(s, mode)
  BY <1>2 DEF Based, Evaluated
<1>4. mode \in TileModes
  <2>. HIDE DEF base, asked
  <2>. QED BY <1>1, LevelModes
<1>. HIDE DEF mode
<1>5. Tiled(s, mode) = Leveled(s, mode, Macros(s, mode))
  BY DEF Tiled, Evaluated
<1>6. Leveled(s, mode, Macros(s, mode)) = Finished(s, mode, Macros(s, mode), LevelsOf(s, mode))
  BY DEF Leveled, Evaluated, LevelsOf
<1>. DEFINE done == Finished(s, mode, Macros(s, mode), LevelsOf(s, mode))
<1>7. done # Failed
  BY <1>2, <1>3, <1>5, <1>6
<1>8. done = SurfaceFields(s, mode, LevelsOf(s, mode), Offsets(LevelsOf(s, mode)))
  BY <1>7 DEF Finished, Evaluated
<1>. QED BY <1>1, <1>2, <1>3, <1>4, <1>5, <1>6, <1>8

\* The levels lie one behind the other in what the surface says it takes.
Apart(levels, surface) ==
  /\ \A n \in DOMAIN levels :
       LET level == levels[n]
           end   == level.start + level.size
       IN /\ level.start % level.alignment = 0
          /\ IF n < Len(levels) THEN end <= levels[n + 1].start
             ELSE n > 1 => end <= surface.mipmap_size
  /\ levels[1].size <= surface.image_size

LEMMA LayoutApart ==
  ASSUME NEW s, SurfaceTyped(s), calculate_gx2_surface_size_and_alignment(s) # Failed
  PROVE  LET layout == calculate_gx2_surface_size_and_alignment(s)
         IN layout.mip_levels \in Nat /\ Apart(layout.levels, layout)
<1>. DEFINE layout == calculate_gx2_surface_size_and_alignment(s)
<1>1. LaidOutSurface(s)
  BY CalculatedFrom, Unrefused
<1>2. PICK mode \in TileModes : layout = SurfaceFields(s, mode, LevelsOf(s, mode), Offsets(LevelsOf(s, mode)))
  BY CalculatedFrom
<1>3. layout # Failed
  OBVIOUS
<1>. DEFINE layouts == LevelsOf(s, mode)
            starts  == Offsets(layouts)
            count   == Len(layouts)
            size    == IF count > 1 THEN mipmap_bytes(starts[count], layouts[count].size) ELSE 0
            levels  == [n \in 1..count |-> [start |-> starts[n], size |-> layouts[n].size,
                                            alignment |-> layouts[n].base_alignment]]
<1>4. SizesOk(layouts)
  BY <1>1, SizesOfLevels
<1>. HIDE DEF layout, layouts
<1>5. /\ layout.mip_levels = count /\ layout.image_size = layouts[1].size /\ layout.mipmap_size = size
      /\ layout.levels = levels
  BY <1>2, <1>3 DEF SurfaceFields, layouts
<1>6. /\ DOMAIN starts = 1..count
      /\ \A n \in 1..count : starts[n] \in Nat /\ starts[n] % layouts[n].base_alignment = 0
      /\ \A n \in 2..count : starts[n - 1] + layouts[n - 1].size <= starts[n]
  BY <1>4, OffsetsAre
<1>7. count \in Nat \ {0} /\ \A n \in 1..count : layouts[n].size \in Nat
  BY <1>4 DEF SizesOk
<1>8. Len(levels) = count /\ DOMAIN levels = 1..count
  <2>1. DOMAIN levels = 1..count
    OBVIOUS
  <2>. DEFINE S == {levels[n] : n \in 1..count}
  <2>2. levels \in [1..count -> S]
    OBVIOUS
  <2>. HIDE DEF levels, count
  <2>3. levels \in Seq(S)
    BY <1>7, <2>2
  <2>. QED BY <1>7, <2>1, <2>3, LenProperties
<1>9. \A n \in 1..count : levels[n].start = starts[n] /\ levels[n].size = layouts[n].size
                          /\ levels[n].alignment = layouts[n].base_alignment
  OBVIOUS
<1>10. count > 1 => size = starts[count] + layouts[count].size
  BY DEF mipmap_bytes
<1>. HIDE DEF levels, count, starts, size
<1>11. ASSUME NEW n \in 1..count
       PROVE  /\ levels[n].start % levels[n].alignment = 0
              /\ IF n < count THEN levels[n].start + levels[n].size <= levels[n + 1].start
                 ELSE n > 1 => levels[n].start + levels[n].size <= size
  <2>1. levels[n].start % levels[n].alignment = 0
    BY <1>6, <1>9
  <2>2. CASE n < count
    <3>1. n + 1 \in 2..count /\ n + 1 \in 1..count /\ (n + 1) - 1 = n
      BY <1>7, <2>2
    <3>2. starts[n] + layouts[n].size <= starts[n + 1]
      BY <1>6, <3>1
    <3>. QED BY <1>9, <2>1, <2>2, <3>1, <3>2
  <2>3. CASE ~(n < count)
    <3>1. n = count
      BY <1>7, <2>3
    <3>2. n > 1 => levels[n].start + levels[n].size = size
      BY <1>9, <1>10, <3>1
    <3>3. starts[n] \in Nat /\ layouts[n].size \in Nat
      BY <1>6, <1>7
    <3>. QED BY <1>9, <2>1, <2>3, <3>2, <3>3
  <2>. QED BY <2>2, <2>3
<1>12. levels[1].size <= layouts[1].size
  <2>1. 1 \in 1..count
    BY <1>7
  <2>. QED BY <1>7, <1>9, <2>1
<1>. QED BY <1>5, <1>7, <1>8, <1>11, <1>12 DEF Apart, layout

----------------------------------------------------------------------------
(* The surface of the title.                                                *)

\* A surface's fields are typed, and its levels, if it has any, lie in what it says.
KnownFields == {"width", "height", "depth", "aa_mode", "mip_levels", "image_size", "mipmap_size"}
LayoutOf(surface, levels) ==
  /\ SurfaceTyped(surface) /\ KnownFields \subseteq DOMAIN surface
  /\ levels = Null \/ Apart(levels, surface)
SurfaceInv == LayoutOf(guest.surface, guest.levels)

LEMMA ApartIn ==
  ASSUME NEW levels, NEW s, NEW t, Apart(levels, s), t.mipmap_size = s.mipmap_size, t.image_size = s.image_size
  PROVE  Apart(levels, t)
BY Zenon DEF Apart

LEMMA LaidOutFields ==
  ASSUME NEW s, NEW l, SurfaceTyped(s), KnownFields \subseteq DOMAIN s, l.mip_levels \in Nat
  PROVE  /\ SurfaceTyped(LaidOut(s, l)) /\ DOMAIN LaidOut(s, l) = DOMAIN s
         /\ LaidOut(s, l).image_size = l.image_size /\ LaidOut(s, l).mipmap_size = l.mipmap_size
<1>1. DOMAIN LaidOut(s, l) = DOMAIN s
  BY DEF LaidOut
<1>2. /\ LaidOut(s, l).image_size = l.image_size /\ LaidOut(s, l).mipmap_size = l.mipmap_size
      /\ LaidOut(s, l).mip_levels = l.mip_levels
  BY DEF LaidOut, KnownFields
<1>3. /\ LaidOut(s, l).width = s.width /\ LaidOut(s, l).height = s.height
      /\ LaidOut(s, l).depth = s.depth /\ LaidOut(s, l).aa_mode = s.aa_mode
  BY DEF LaidOut, KnownFields
<1>. QED BY <1>1, <1>2, <1>3 DEF SurfaceTyped

\* Any field but those written.
LEMMA OtherField ==
  ASSUME NEW s, NEW use, SurfaceTyped(s), KnownFields \subseteq DOMAIN s
  PROVE  LET t == [s EXCEPT !.use = use]
         IN /\ SurfaceTyped(t) /\ KnownFields \subseteq DOMAIN t
            /\ t.mipmap_size = s.mipmap_size /\ t.image_size = s.image_size
<1>. DEFINE t == [s EXCEPT !.use = use]
<1>1. /\ t.width = s.width /\ t.height = s.height /\ t.depth = s.depth /\ t.aa_mode = s.aa_mode
      /\ t.mip_levels = s.mip_levels /\ t.mipmap_size = s.mipmap_size /\ t.image_size = s.image_size
      /\ DOMAIN t = DOMAIN s
  BY DEF KnownFields
<1>. HIDE DEF t
<1>. QED BY <1>1 DEF SurfaceTyped, t

LEMMA CalculateStep ==
  ASSUME SurfaceInv, DOMAIN guest = GuestFields, GX2CalcSurfaceSizeAndAlignment
  PROVE  SurfaceInv'
<1>. DEFINE s == guest.surface
            layout == calculate_gx2_surface_size_and_alignment(s)
            levels == layout.levels
            t == LaidOut(s, layout)
<1>1. layout # Failed /\ guest' = [guest EXCEPT !.surface = t, !.levels = levels]
  BY DEF GX2CalcSurfaceSizeAndAlignment
<1>2. SurfaceTyped(s) /\ KnownFields \subseteq DOMAIN s
  BY DEF SurfaceInv, LayoutOf
<1>3. layout.mip_levels \in Nat /\ Apart(levels, layout)
  BY <1>1, <1>2, LayoutApart
<1>. HIDE DEF layout
<1>4. /\ SurfaceTyped(t) /\ DOMAIN t = DOMAIN s
      /\ t.image_size = layout.image_size /\ t.mipmap_size = layout.mipmap_size
  BY <1>2, <1>3, LaidOutFields
<1>. HIDE DEF t, levels, s
<1>5. Apart(levels, t)
  BY <1>3, <1>4, ApartIn
<1>6. guest'.surface = t /\ guest'.levels = levels
  BY <1>1 DEF GuestFields, NewGuest
<1>. QED BY <1>2, <1>4, <1>5, <1>6 DEF SurfaceInv, LayoutOf

LEMMA CreateStep ==
  ASSUME SurfaceInv, DOMAIN guest = GuestFields, guest.surface = [field \in DOMAIN guest.surface |-> guest.surface[field]],
         NEW image, NEW mipmap, NEW flags, GX2RCreateSurfaceUserMemory(image, mipmap, flags)
  PROVE  SurfaceInv'
<1>. DEFINE s == guest.surface
            use == WithoutFlag(WithoutFlag(flags, locked_flag), allocated_flag)
            flagged == [s EXCEPT !.use = use]
            layout == calculate_gx2_surface_size_and_alignment(flagged)
            made == create_gx2_surface_user_memory(s, image, mipmap, flags)
<1>1. guest'.surface = made.surface /\ guest'.levels = made.levels
  <2>. DEFINE a == made.surface
              b == made.levels
  <2>1. guest' = [guest EXCEPT !.surface = a, !.levels = b]
    BY DEF GX2RCreateSurfaceUserMemory
  <2>. HIDE DEF a, b
  <2>2. guest'.surface = a /\ guest'.levels = b
    BY <2>1 DEF GuestFields, NewGuest
  <2>. QED BY <2>2, Zenon DEF a, b
<1>2. SurfaceTyped(s) /\ KnownFields \subseteq DOMAIN s
  BY DEF SurfaceInv, LayoutOf
<1>. HIDE DEF use
<1>3. SurfaceTyped(flagged) /\ KnownFields \subseteq DOMAIN flagged
  <2>. HIDE DEF s
  <2>. QED BY <1>2, OtherField
<1>4. CASE layout = Failed
  <2>1. made = [made |-> FALSE, levels |-> Null, surface |-> [flagged EXCEPT !.use = s.use]]
    BY <1>4 DEF create_gx2_surface_user_memory, use
  <2>2. [flagged EXCEPT !.use = s.use] = s
    <3>1. s = [field \in DOMAIN s |-> s[field]]
      OBVIOUS
    <3>. HIDE DEF s
    <3>. QED BY <3>1, FieldBack
  <2>. HIDE DEF made, flagged
  <2>3. made.surface = s /\ made.levels = Null
    BY <2>1, <2>2
  <2>. HIDE DEF s
  <2>. QED BY <1>1, <1>2, <2>3 DEF SurfaceInv, LayoutOf
<1>5. CASE layout # Failed
  <2>. DEFINE laid == LaidOut(flagged, layout)
              t == [laid EXCEPT !.image = image, !.mipmap = mipmap]
  <2>1. made = [made |-> TRUE, levels |-> layout.levels, surface |-> t]
    BY <1>5 DEF create_gx2_surface_user_memory, use
  <2>. HIDE DEF made, flagged
  <2>2. layout.mip_levels \in Nat /\ Apart(layout.levels, layout)
    BY <1>3, <1>5, LayoutApart
  <2>. HIDE DEF layout
  <2>3. /\ SurfaceTyped(laid) /\ KnownFields \subseteq DOMAIN laid
        /\ laid.image_size = layout.image_size /\ laid.mipmap_size = layout.mipmap_size
    BY <1>3, <2>2, LaidOutFields
  <2>. HIDE DEF laid
  <2>4. /\ t.width = laid.width /\ t.height = laid.height /\ t.depth = laid.depth /\ t.aa_mode = laid.aa_mode
        /\ t.mip_levels = laid.mip_levels /\ t.mipmap_size = laid.mipmap_size /\ t.image_size = laid.image_size
        /\ DOMAIN t = DOMAIN laid
    BY <2>3 DEF KnownFields
  <2>5. made.surface = t /\ made.levels = layout.levels
    BY <2>1
  <2>. HIDE DEF t
  <2>6. SurfaceTyped(t) /\ KnownFields \subseteq DOMAIN t
    BY <2>3, <2>4 DEF SurfaceTyped
  <2>7. Apart(layout.levels, t)
    BY <2>2, <2>3, <2>4, ApartIn
  <2>. QED BY <1>1, <2>5, <2>6, <2>7 DEF SurfaceInv, LayoutOf
<1>. QED BY <1>4, <1>5

LEMMA LockStep ==
  ASSUME SurfaceInv, DOMAIN guest = GuestFields, GX2RLockSurfaceEx \/ GX2RUnlockSurfaceEx
  PROVE  SurfaceInv'
<1>. DEFINE s == guest.surface
<1>1. \E use : guest' = [guest EXCEPT !.surface = [s EXCEPT !.use = use]]
  BY DEF GX2RLockSurfaceEx, GX2RUnlockSurfaceEx
<1>2. PICK use : guest' = [guest EXCEPT !.surface = [s EXCEPT !.use = use]]
  BY <1>1
<1>. DEFINE t == [s EXCEPT !.use = use]
<1>3. guest'.surface = t /\ guest'.levels = guest.levels
  <2>. HIDE DEF s
  <2>. QED BY <1>2 DEF GuestFields, NewGuest
<1>4. SurfaceTyped(s) /\ KnownFields \subseteq DOMAIN s /\ (guest.levels = Null \/ Apart(guest.levels, s))
  BY DEF SurfaceInv, LayoutOf
<1>. HIDE DEF s
<1>5. /\ SurfaceTyped(t) /\ KnownFields \subseteq DOMAIN t
      /\ t.mipmap_size = s.mipmap_size /\ t.image_size = s.image_size
  BY <1>4, OtherField
<1>. HIDE DEF t
<1>6. guest.levels = Null \/ Apart(guest.levels, t)
  BY <1>4, <1>5, ApartIn
<1>. QED BY <1>3, <1>5, <1>6 DEF SurfaceInv, LayoutOf

\* No other step changes the surface or its levels.
LEMMA SurfaceKept ==
  ASSUME DOMAIN guest = GuestFields, Registers \/ Resources \/ Stream \/ Display \/ Publish \/ Apply
  PROVE  guest'.surface = guest.surface /\ guest'.levels = guest.levels
<1>1. ASSUME guest' = guest PROVE guest'.surface = guest.surface /\ guest'.levels = guest.levels
  BY <1>1
<1>2. ASSUME NEW state, NEW a, InitStateReg(state, a)
      PROVE  guest'.surface = guest.surface /\ guest'.levels = guest.levels
  BY <1>2 DEF InitStateReg, GuestFields, NewGuest
<1>3. ASSUME NEW step, ChangeSampler(step)
      PROVE  guest'.surface = guest.surface /\ guest'.levels = guest.levels
  BY <1>3 DEF ChangeSampler, GuestFields, NewGuest
<1>4. ASSUME NEW t, DescribeTexture(t) \/ GX2InitTextureRegs
      PROVE  guest'.surface = guest.surface /\ guest'.levels = guest.levels
  BY <1>4 DEF DescribeTexture, GX2InitTextureRegs, GuestFields, NewGuest
<1>5. ASSUME NEW o, GuestWrites(o) PROVE guest'.surface = guest.surface /\ guest'.levels = guest.levels
  BY <1>5 DEF GuestWrites, GuestFields, NewGuest
<1>6. CASE GX2SetupContextStateEx
  BY <1>6 DEF GX2SetupContextStateEx, GuestFields, NewGuest
<1>7. CASE Registers
  BY <1>1, <1>2, <1>7 DEF Registers, SetState, SetStateReg
<1>8. CASE Resources
  BY <1>1, <1>3, <1>4, <1>8 DEF Resources, SetTexture, SetSampler, SetSamplerBorderColor
<1>9. CASE Stream
  BY <1>1, <1>5, <1>6, <1>9 DEF Stream, BindObject, GX2DrawEx, GX2SwapScanBuffers, GX2Flush, GX2DrawDone,
     GX2SetGPUFence, GX2Init, GX2SetContextState, GX2LeaveContextState
<1>10. CASE Display \/ Publish \/ Apply
  BY <1>1, <1>10 DEF Display, GX2SetTVBuffer, GX2SetTVEnable, GX2WaitForVsync, Publish, Apply
<1>. QED BY <1>7, <1>8, <1>9, <1>10

LEMMA SurfaceInitially == Init => SurfaceInv
<1>. SUFFICES ASSUME Init PROVE SurfaceInv
  OBVIOUS
<1>1. scenario.surface \in SurfaceObjects
  BY ScenariosAssumption, Zenon DEF Init
<1>2. guest.surface = scenario.surface /\ guest.levels = Null
  BY DEF Init, NewGuest
<1>3. SurfaceTyped(scenario.surface) /\ KnownFields \subseteq DOMAIN scenario.surface
  <2>1. TwoTo[14] \in Nat
    BY PowerStep
  <2>2. \A x \in Extents : x \in Nat
    BY <2>1 DEF Extents
  <2>. QED BY <1>1, <2>2 DEF SurfaceObjects, SurfaceTyped, KnownFields
<1>. QED BY <1>2, <1>3 DEF SurfaceInv, LayoutOf

LEMMA SurfaceStays == Gx2Inv /\ SurfaceInv /\ [Next]_vars => SurfaceInv'
<1>. SUFFICES ASSUME Gx2Inv, SurfaceInv, [Next]_vars PROVE SurfaceInv'
  OBVIOUS
<1>0. DOMAIN guest = GuestFields /\ guest.surface = [field \in DOMAIN guest.surface |-> guest.surface[field]]
  BY DEF Gx2Inv, SurfaceOf
<1>1. CASE UNCHANGED vars
  BY <1>1 DEF vars, SurfaceInv
<1>2. CASE Registers \/ Resources \/ Stream \/ Display \/ Publish \/ Apply
  BY <1>0, <1>2, SurfaceKept DEF SurfaceInv
<1>3. CASE Surfaces
  BY <1>0, <1>3, CalculateStep, CreateStep, LockStep DEF Surfaces
<1>. QED BY <1>1, <1>2, <1>3 DEF Next

\* The levels of a laid-out surface start at their alignment, each ends before the next starts,
\* and the last ends within the size the surface says its mipmaps have
\* (calculate_gx2_surface_size_and_alignment), for every extent that mip_offsets has room for,
\* every format, number of samples, tile mode and number of levels, whatever is created, laid
\* out or locked again.
THEOREM LevelsStayApart == Spec => []LevelsApart
<1>1. SurfaceInv => LevelsApart
  BY Zenon DEF SurfaceInv, LayoutOf, Apart, LevelsApart
<1>2. Spec => []SurfaceInv
  BY Gx2Correct, SurfaceInitially, SurfaceStays, PTL DEF Spec
<1>. QED BY <1>1, <1>2, PTL
=============================================================================
