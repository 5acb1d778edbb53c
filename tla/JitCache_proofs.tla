-------------------------- MODULE JitCache_proofs --------------------------
(***************************************************************************)
(* Theorems about the recompiler's block cache, for every size of memory,  *)
(* pages, blocks and budgets.                                              *)
(***************************************************************************)
EXTENDS JitCache, TLAPS

----------------------------------------------------------------------------
(***************************************************************************)
(* Pages and words.                                                        *)
(***************************************************************************)
\* Every mapped word lies in a page, at an offset within it.
LEMMA MappedPages ==
  ASSUME NEW a \in Mapped
  PROVE  a \in Nat /\ PageOf(a) \in Page /\ PageOf(a) \in Nat
         /\ a % PageWords \in 0..(PageWords - 1)
         /\ a = PageWords * PageOf(a) + (a % PageWords)
<1>1. PICK p \in Page : a \in (p * PageWords)..(p * PageWords + PageWords - 1)
  BY DEF Mapped
<1>2. p \in Nat /\ PageWords \in Nat \ {0}
  BY MemoryAssumption DEF Page, AliasPage
<1>3. p * PageWords \in Nat /\ a \in Nat
  BY <1>1, <1>2
<1>4. a \div PageWords = p
  BY <1>1, <1>2
<1>5. a % PageWords \in 0..(PageWords - 1) /\ a = PageWords * (a \div PageWords) + (a % PageWords)
  BY <1>2, <1>3
<1> QED BY <1>2, <1>3, <1>4, <1>5 DEF PageOf

\* An alias page shows a page of memory.
LEMMA PagesAreBacked ==
  ASSUME NEW p \in Page
  PROVE  BackingOf(p) \in BackingPage
<1>1. CASE p \in AliasPage
  BY <1>1, MemoryAssumption DEF BackingOf, AliasPage
<1>2. CASE p \notin AliasPage
  BY <1>2 DEF BackingOf, Page
<1> QED BY <1>1, <1>2

\* Instructions are what memory holds.
LEMMA ReadsCode ==
  ASSUME NEW mem \in Memories, NEW a \in Mapped
  PROVE  Read(mem, a) \in Code
<1>1. BackingOf(PageOf(a)) \in BackingPage /\ a % PageWords \in 0..(PageWords - 1)
  BY MappedPages, PagesAreBacked
<1> QED BY <1>1 DEF Read, Memories

\* A block is short enough to lie in the pages of its first and last words.
LEMMA BlockPages ==
  ASSUME NEW a \in Nat, NEW n \in 1..MaxBlock, NEW i \in 1..n
  PROVE  PageOf(a + i - 1) \in {PageOf(a), PageOf(a + n - 1)}
<1>1. PageWords \in Nat \ {0} /\ MaxBlock \in 1..(PageWords + 1)
  BY MemoryAssumption, JitAssumption
<1>2. a <= a + i - 1 /\ a + i - 1 <= a + n - 1 /\ a + n - 1 <= a + PageWords
      /\ a + i - 1 \in Nat /\ a + n - 1 \in Nat
  BY <1>1
<1>3. PageOf(a) <= PageOf(a + i - 1) /\ PageOf(a + i - 1) <= PageOf(a + n - 1)
      /\ PageOf(a + n - 1) <= PageOf(a) + 1
  <2> DEFINE b == a + i - 1
             c == a + n - 1
  <2>1. b \in Nat /\ c \in Nat /\ a <= b /\ b <= c /\ c <= a + PageWords
    BY <1>2
  <2> HIDE DEF b, c
  <2>2. a \div PageWords <= b \div PageWords
    BY <1>1, <2>1
  <2>3. b \div PageWords <= c \div PageWords
    BY <1>1, <2>1
  <2>4. c \div PageWords <= (a \div PageWords) + 1
    BY <1>1, <2>1
  <2> QED BY <2>2, <2>3, <2>4 DEF PageOf, b, c
<1>4. PageOf(a) \in Int /\ PageOf(a + i - 1) \in Int /\ PageOf(a + n - 1) \in Int
  BY <1>1, <1>2 DEF PageOf
<1> QED BY <1>3, <1>4

\* A store leaves memory well formed and only advances generations.
LEMMA WriteTypes ==
  ASSUME memory \in Memories, generation \in [Page -> Nat], write_generation \in Nat,
         NEW first, NEW last, NEW v \in Code, NEW byte, Write(first, last, v, byte)
  PROVE  /\ memory' \in Memories
         /\ generation' \in [Page -> Nat]
         /\ write_generation' \in Nat
         /\ \A p \in Page : generation[p] <= generation'[p]
<1>1. memory' \in Memories
  BY DEF Write, Stored, Memories
<1>2. generation' \in [Page -> Nat] /\ \A p \in Page : generation[p] <= generation'[p]
  BY DEF Write
<1>3. write_generation' \in Nat
  BY DEF Write
<1> QED BY <1>1, <1>2, <1>3

----------------------------------------------------------------------------
(***************************************************************************)
(* The shape of the cache.  An entry is a nonempty run of mapped words, and *)
(* every pointer of the lookup tables is to an entry of the cache; a slot  *)
(* points only at an entry that belongs in it, so clearing the one slot of *)
(* an erased entry is enough.                                              *)
(***************************************************************************)
Shapes ==
  \A a \in Mapped : cache[a] # NoEntry =>
    /\ Len(cache[a].words) \in 1..MaxBlock
    /\ \A i \in 1..Len(cache[a].words) : a + i - 1 \in Mapped

LookupsAlive ==
  /\ latest # NoAddress => cache[latest] # NoEntry
  /\ \A s \in 0..(Slots - 1) :
       fast[s] # NoAddress => cache[fast[s]] # NoEntry /\ Slot(fast[s]) = s

Idle == mode # "native" => index = 0

BlocksInv == TypeOK /\ Shapes /\ LookupsAlive /\ Idle /\ WatchpointHonoured

LEMMA Addresses ==
  /\ Mapped \subseteq Nat /\ Import \in Nat /\ Targets \subseteq Nat
  /\ NoAddress \notin Mapped
  /\ \A a \in Mapped : Slot(a) \in 0..(Slots - 1)
<1>1. Mapped \subseteq Nat
  BY MappedPages
<1>2. Import \in Nat /\ Slots \in Nat \ {0}
  BY JitAssumption
<1> QED BY <1>1, <1>2 DEF Targets, NoAddress, Slot

LEMMA BlocksInit == Init => BlocksInv
<1> SUFFICES ASSUME Init PROVE BlocksInv
  OBVIOUS
<1>1. NoEntry \in Entries /\ NoEntry.words = <<>> /\ Len(NoEntry.words) = 0
  BY DEF NoEntry, Entries
<1>2. cache \in [Mapped -> Entries] /\ \A a \in Mapped : cache[a] = NoEntry
  BY <1>1 DEF Init
<1>3. MaxSteps \in Nat \ {0} /\ MaxBlock \in Nat /\ Slots \in Nat \ {0}
  BY JitAssumption, MemoryAssumption
<1>4. TypeOK
  <2>1. generation \in [Page -> Nat] /\ fast \in [0..(Slots - 1) -> Mapped \cup {NoAddress}]
        /\ latest \in Mapped \cup {NoAddress} /\ cia \in Nat
    BY Addresses DEF Init
  <2>2. \A a \in Mapped : Len(cache[a].words) <= MaxBlock
    BY <1>1, <1>2, <1>3
  <2>3. 0 \in 0..MaxSteps
    BY <1>3
  <2> QED BY <1>2, <2>1, <2>2, <2>3 DEF TypeOK, Init
<1>5. Shapes /\ LookupsAlive /\ Idle /\ WatchpointHonoured
  BY <1>2, <1>3 DEF Shapes, LookupsAlive, Idle, WatchpointHonoured, Init
<1> QED BY <1>4, <1>5 DEF BlocksInv

\* Entering the block at cia once the cache and its tables are in order.
LEMMA EnterKeepsBlocks ==
  ASSUME BlocksInv, Dispatching, cia \in Mapped, NEW n \in Nat, Enter(n),
         cache' \in [Mapped -> Entries],
         \A a \in Mapped : Len(cache'[a].words) <= MaxBlock,
         fast' \in [0..(Slots - 1) -> Mapped \cup {NoAddress}],
         latest' \in Mapped \cup {NoAddress},
         Shapes', LookupsAlive',
         n = Len(cache'[cia].words), n > 0, cache'[cia].watch = watchpoint
  PROVE  BlocksInv'
<1>1. mode' = (IF n <= remaining THEN "native" ELSE "interpret")
      /\ index' = 0 /\ cia' = cia /\ remaining' = remaining /\ remaining > 0
      /\ watchpoint' = watchpoint /\ stopped' = stopped
      /\ memory' = memory /\ generation' = generation
      /\ write_generation' = write_generation
  BY DEF Enter, Dispatching, memoryVars
<1>2. TypeOK'
  BY <1>1 DEF BlocksInv, TypeOK, Words
<1>3. Idle' /\ WatchpointHonoured'
  BY <1>1 DEF Idle, WatchpointHonoured
<1> QED BY <1>2, <1>3 DEF BlocksInv

\* Pointing the tables at an entry that exists keeps them alive.
LEMMA PointKeepsLookups ==
  ASSUME TypeOK, LookupsAlive, NEW a \in Mapped, Point(a), cache'[a] # NoEntry,
         \A b \in Mapped : b # a => cache'[b] = cache[b]
  PROVE  LookupsAlive' /\ latest' \in Mapped \cup {NoAddress}
         /\ fast' \in [0..(Slots - 1) -> Mapped \cup {NoAddress}]
<1>1. latest' = a /\ fast' = [fast EXCEPT ![Slot(a)] = a]
  BY DEF Point
<1>2. fast \in [0..(Slots - 1) -> Mapped \cup {NoAddress}]
  BY DEF TypeOK
<1>3. Slot(a) \in 0..(Slots - 1)
  BY Addresses
<1>4. ASSUME NEW s \in 0..(Slots - 1), fast'[s] # NoAddress
      PROVE  cache'[fast'[s]] # NoEntry /\ Slot(fast'[s]) = s
  <2>1. CASE s = Slot(a)
    BY <1>1, <1>2, <1>3, <2>1
  <2>2. CASE s # Slot(a)
    <3>1. fast'[s] = fast[s] /\ fast[s] \in Mapped
      BY <1>1, <1>2, <1>4, <2>2
    <3>2. cache[fast[s]] # NoEntry /\ Slot(fast[s]) = s
      BY <3>1, <1>4 DEF LookupsAlive
    <3> QED BY <3>1, <3>2, <2>2
  <2> QED BY <2>1, <2>2
<1> QED BY <1>1, <1>2, <1>4 DEF LookupsAlive

LEMMA UseHitKeepsBlocks == BlocksInv /\ UseHit => BlocksInv'
<1> SUFFICES ASSUME BlocksInv, UseHit PROVE BlocksInv'
  OBVIOUS
<1> DEFINE n == Len(cache[cia].words)
<1>1. cia \in Mapped /\ Dispatching /\ Enter(n) /\ cache' = cache /\ fast' = fast
      /\ latest' = cia /\ cache[cia].watch = watchpoint
      /\ (latest = cia \/ fast[Slot(cia)] = cia)
  BY DEF UseHit, Hit
<1>2. cache[cia] # NoEntry
  BY <1>1, Addresses DEF BlocksInv, LookupsAlive
<1>3. n \in 1..MaxBlock
  BY <1>1, <1>2 DEF BlocksInv, Shapes
<1>4. Shapes' /\ LookupsAlive'
  BY <1>1, <1>2 DEF BlocksInv, Shapes, LookupsAlive
<1>5. MaxBlock \in Nat
  BY JitAssumption, MemoryAssumption
<1> QED
  BY <1>1, <1>3, <1>4, <1>5, EnterKeepsBlocks DEF BlocksInv, TypeOK

LEMMA UseFoundKeepsBlocks == BlocksInv /\ UseFound => BlocksInv'
<1> SUFFICES ASSUME BlocksInv, UseFound PROVE BlocksInv'
  OBVIOUS
<1> DEFINE n == Len(cache[cia].words)
           e == IF GenerationsMatch(cia) THEN cache[cia] ELSE Captured(cia, cache[cia].words)
<1>1. cia \in Mapped /\ Dispatching /\ Enter(n) /\ Point(cia) /\ Usable(cia)
  BY DEF UseFound
<1>2. cache \in [Mapped -> Entries] /\ generation \in [Page -> Nat]
      /\ watchpoint \in BOOLEAN /\ cache' = [cache EXCEPT ![cia] = e]
  BY DEF BlocksInv, TypeOK, UseFound
<1>3. cache[cia] # NoEntry /\ cache[cia].watch = watchpoint
  BY <1>1 DEF Usable
<1>4. n \in 1..MaxBlock /\ \A i \in 1..n : cia + i - 1 \in Mapped
  BY <1>1, <1>3 DEF BlocksInv, Shapes
<1>5. MaxBlock \in Nat
  BY JitAssumption, MemoryAssumption
<1>6. PageGeneration(cia) \in Nat /\ PageGeneration(cia + n - 1) \in Nat
  <2>1. cia \in Mapped /\ cia + n - 1 \in Mapped
    BY <1>1, <1>4, <1>5
  <2> QED BY <1>2, <2>1, MappedPages, PagesAreBacked DEF PageGeneration, Page
<1>7. e \in Entries /\ e.words = cache[cia].words /\ e.watch = watchpoint
  BY <1>1, <1>2, <1>3, <1>6 DEF Captured, Entries
<1>8. e # NoEntry
  <2>1. Len(NoEntry.words) = 0
    BY DEF NoEntry
  <2> QED BY <1>4, <1>5, <1>7, <2>1
<1> HIDE DEF e
<1>9. cache'[cia] = e /\ \A b \in Mapped : b # cia => cache'[b] = cache[b]
  BY <1>1, <1>2
<1>10. cache' \in [Mapped -> Entries]
  BY <1>1, <1>2, <1>7
<1>11. \A a \in Mapped : cache'[a].words = cache[a].words
  BY <1>7, <1>9
<1>12. \A a \in Mapped : Len(cache'[a].words) <= MaxBlock
  BY <1>11 DEF BlocksInv, TypeOK
<1>13. Shapes'
  BY <1>3, <1>9, <1>11 DEF BlocksInv, Shapes
<1>14. LookupsAlive' /\ latest' \in Mapped \cup {NoAddress}
       /\ fast' \in [0..(Slots - 1) -> Mapped \cup {NoAddress}]
  BY <1>1, <1>8, <1>9, PointKeepsLookups DEF BlocksInv
<1>15. n = Len(cache'[cia].words) /\ n > 0 /\ n \in Nat /\ cache'[cia].watch = watchpoint
  BY <1>1, <1>3, <1>4, <1>5, <1>7, <1>9
<1> QED
  BY <1>1, <1>10, <1>12, <1>13, <1>14, <1>15, EnterKeepsBlocks

\* The words a translation copies are a nonempty run of mapped words.
LEMMA TranslationTypes ==
  ASSUME memory \in Memories, generation \in [Page -> Nat], watchpoint \in BOOLEAN,
         NEW a \in Mapped, NEW n \in 1..MaxBlock, Translatable(a, n),
         NEW words, words = [i \in 1..n |-> Read(memory, a + i - 1)]
  PROVE  /\ Captured(a, words) \in Entries
         /\ Captured(a, words).words = words
         /\ Captured(a, words).watch = watchpoint
         /\ Len(words) = n
         /\ \A i \in 1..n : a + i - 1 \in Mapped
<1>1. n \in Nat /\ n > 0 /\ a \in Nat
  BY JitAssumption, MemoryAssumption, MappedPages
<1>2. \A i \in 1..n : a + i - 1 \in Mapped /\ Read(memory, a + i - 1) # "foreign"
  <2>1. TAKE i \in 1..n
  <2>2. i - 1 \in 0..(n - 1) /\ a + (i - 1) = a + i - 1
    BY <1>1
  <2> QED BY <2>2 DEF Translatable
<1>3. \A i \in 1..n : Read(memory, a + i - 1) \in Instructions \ {"foreign"}
  BY <1>2, ReadsCode, MemoryAssumption
<1>4. words \in Seq(Instructions \ {"foreign"}) /\ Len(words) = n
  BY <1>1, <1>3
<1>5. a + n - 1 \in Mapped
  BY <1>1, <1>2
<1>6. PageGeneration(a) \in Nat /\ PageGeneration(a + n - 1) \in Nat
  BY <1>5, MappedPages, PagesAreBacked DEF PageGeneration, Page
<1> QED BY <1>2, <1>4, <1>6 DEF Captured, Entries

LEMMA CompileKeepsBlocks == BlocksInv /\ Compile => BlocksInv'
<1> SUFFICES ASSUME BlocksInv, Compile PROVE BlocksInv'
  OBVIOUS
<1>1. PICK n \in 1..MaxBlock :
        /\ Translatable(cia, n)
        /\ cache' = [cache EXCEPT ![cia] =
             Captured(cia, [i \in 1..n |-> Read(memory, cia + i - 1)])]
        /\ Enter(n)
  BY DEF Compile
<1>2. cia \in Mapped /\ Dispatching /\ Point(cia)
  BY DEF Compile
<1> DEFINE words == [i \in 1..n |-> Read(memory, cia + i - 1)]
           e == Captured(cia, words)
<1>3. memory \in Memories /\ generation \in [Page -> Nat] /\ watchpoint \in BOOLEAN
      /\ cache \in [Mapped -> Entries]
  BY DEF BlocksInv, TypeOK
<1>4. e \in Entries /\ e.words = words /\ e.watch = watchpoint /\ Len(words) = n
      /\ \A i \in 1..n : cia + i - 1 \in Mapped
  <2> HIDE DEF words
  <2>1. words = [i \in 1..n |-> Read(memory, cia + i - 1)]
    BY DEF words
  <2> QED BY <1>1, <1>2, <1>3, <2>1, TranslationTypes
<1>5. cache' = [cache EXCEPT ![cia] = e]
  BY <1>1
<1> HIDE DEF e, words
<1>6. MaxBlock \in Nat /\ n \in Nat /\ n > 0 /\ n <= MaxBlock
  BY JitAssumption, MemoryAssumption
<1>7. e # NoEntry
  <2>1. Len(NoEntry.words) = 0
    BY DEF NoEntry
  <2> QED BY <1>4, <1>6, <2>1
<1>8. cache'[cia] = e /\ cache' \in [Mapped -> Entries]
      /\ \A b \in Mapped : b # cia => cache'[b] = cache[b]
  BY <1>2, <1>3, <1>4, <1>5
<1>9. \A a \in Mapped : Len(cache'[a].words) <= MaxBlock
  BY <1>4, <1>6, <1>8 DEF BlocksInv, TypeOK
<1>10. Shapes'
  BY <1>4, <1>6, <1>8 DEF BlocksInv, Shapes
<1>11. LookupsAlive' /\ latest' \in Mapped \cup {NoAddress}
       /\ fast' \in [0..(Slots - 1) -> Mapped \cup {NoAddress}]
  BY <1>2, <1>7, <1>8, PointKeepsLookups DEF BlocksInv
<1>12. n = Len(cache'[cia].words) /\ cache'[cia].watch = watchpoint
  BY <1>4, <1>8
<1> QED
  BY <1>1, <1>2, <1>6, <1>8, <1>9, <1>10, <1>11, <1>12, EnterKeepsBlocks

LEMMA GiveUpKeepsBlocks == BlocksInv /\ GiveUp => BlocksInv'
<1> SUFFICES ASSUME BlocksInv, GiveUp PROVE BlocksInv'
  OBVIOUS
<1>1. /\ cia \in Mapped /\ mode = "dispatch" /\ remaining > 0
      /\ cache' = [cache EXCEPT ![cia] = NoEntry]
      /\ fast' = [fast EXCEPT ![Slot(cia)] = IF @ = cia THEN NoAddress ELSE @]
      /\ latest' = IF latest = cia THEN NoAddress ELSE latest
      /\ mode' = "interpret"
      /\ memory' = memory /\ generation' = generation
      /\ write_generation' = write_generation /\ watchpoint' = watchpoint
      /\ cia' = cia /\ index' = index /\ remaining' = remaining /\ stopped' = stopped
  BY DEF GiveUp, Dispatching, memoryVars
<1>2. cache \in [Mapped -> Entries] /\ NoEntry \in Entries /\ Len(NoEntry.words) = 0
      /\ fast \in [0..(Slots - 1) -> Mapped \cup {NoAddress}]
      /\ latest \in Mapped \cup {NoAddress} /\ index = 0 /\ MaxBlock \in Nat
  BY <1>1, JitAssumption, MemoryAssumption
     DEF BlocksInv, TypeOK, NoEntry, Entries, Idle
<1>3. \A a \in Mapped : cache'[a] = IF a = cia THEN NoEntry ELSE cache[a]
  BY <1>1, <1>2
<1>4. TypeOK'
  BY <1>1, <1>2, <1>3, Addresses DEF BlocksInv, TypeOK
<1>5. Shapes'
  BY <1>1, <1>3 DEF BlocksInv, Shapes
<1>6. ASSUME NEW s \in 0..(Slots - 1), fast'[s] # NoAddress
      PROVE  cache'[fast'[s]] # NoEntry /\ Slot(fast'[s]) = s
  <2>1. fast'[s] = fast[s] /\ fast[s] \in Mapped
    BY <1>1, <1>2, <1>6
  <2>2. cache[fast[s]] # NoEntry /\ Slot(fast[s]) = s
    BY <1>6, <2>1 DEF BlocksInv, LookupsAlive
  <2>3. fast[s] # cia
    BY <1>1, <1>2, <1>6, <2>1, <2>2 DEF NoAddress
  <2> QED BY <1>3, <2>1, <2>2, <2>3
<1>7. LookupsAlive'
  BY <1>1, <1>2, <1>3, <1>6 DEF BlocksInv, LookupsAlive
<1>8. Idle' /\ WatchpointHonoured'
  BY <1>1, <1>2 DEF Idle, WatchpointHonoured
<1> QED BY <1>4, <1>5, <1>7, <1>8 DEF BlocksInv

\* What an executed instruction may do to memory: nothing, or one store.
MemoryStep ==
  \/ UNCHANGED memoryVars
  \/ \E r \in Storable, v \in Code, byte \in BOOLEAN : Write(r[1], r[2], v, byte)

LEMMA MemoryStepTypes ==
  ASSUME TypeOK, MemoryStep
  PROVE  memory' \in Memories /\ generation' \in [Page -> Nat]
         /\ write_generation' \in Nat /\ \A p \in Page : generation[p] <= generation'[p]
<1>1. memory \in Memories /\ generation \in [Page -> Nat] /\ write_generation \in Nat
  BY DEF TypeOK
<1>2. CASE UNCHANGED memoryVars
  BY <1>1, <1>2 DEF memoryVars
<1>3. CASE \E r \in Storable, v \in Code, byte \in BOOLEAN : Write(r[1], r[2], v, byte)
  <2>1. PICK r \in Storable, v \in Code, byte \in BOOLEAN : Write(r[1], r[2], v, byte)
    BY <1>3
  <2> QED BY ONLY <1>1, <2>1, WriteTypes
<1> QED BY <1>2, <1>3 DEF MemoryStep

\* Leaving a block or an instruction, within the budget, keeps the cache.
LEMMA LeaveKeepsBlocks ==
  ASSUME BlocksInv, MemoryStep, UNCHANGED <<watchpoint, cacheVars>>,
         stopped' \in {"no"} \cup Reasons,
         NEW n \in Nat, n <= remaining, NEW next \in Nat, Leave(n, next)
  PROVE  BlocksInv'
<1>1. mode' = "dispatch" /\ index' = 0 /\ remaining' = remaining - n /\ cia' = next
  BY DEF Leave
<1>2. cache' = cache /\ fast' = fast /\ latest' = latest /\ watchpoint' = watchpoint
  BY DEF cacheVars
<1>3. memory' \in Memories /\ generation' \in [Page -> Nat] /\ write_generation' \in Nat
  BY MemoryStepTypes DEF BlocksInv
<1>4. remaining \in 0..MaxSteps /\ MaxSteps \in Nat
  BY JitAssumption DEF BlocksInv, TypeOK
<1>5. remaining' \in 0..MaxSteps
  BY <1>1, <1>4
<1>6. TypeOK'
  BY <1>1, <1>2, <1>3, <1>5 DEF BlocksInv, TypeOK
<1>7. Shapes' /\ LookupsAlive' /\ Idle' /\ WatchpointHonoured'
  BY <1>1, <1>2 DEF BlocksInv, Shapes, LookupsAlive, Idle, WatchpointHonoured
<1> QED BY <1>6, <1>7 DEF BlocksInv

\* What is known of a running block.
LEMMA RunningBlock ==
  ASSUME BlocksInv, mode = "native"
  PROVE  /\ cia \in Mapped /\ cia \in Nat /\ cache[cia] # NoEntry
         /\ Len(Words) \in 1..MaxBlock /\ Len(Words) \in Nat
         /\ index \in 0..(Len(Words) - 1) /\ index + 1 \in DOMAIN Words
         /\ index + 1 <= remaining /\ cia + index \in Mapped
         /\ Words \in Seq(Instructions \ {"foreign"})
         /\ index \in Nat /\ remaining \in Nat
<1>1. cia \in Mapped /\ index \in Nat /\ index < Len(Words) /\ Len(Words) <= remaining
      /\ cache \in [Mapped -> Entries] /\ remaining \in 0..MaxSteps
  BY DEF BlocksInv, TypeOK
<1>2. Words \in Seq(Instructions \ {"foreign"})
  BY <1>1 DEF Words, Entries
<1>3. Len(Words) \in Nat /\ DOMAIN Words = 1..Len(Words)
  BY <1>2
<1>4. cache[cia] # NoEntry
  BY <1>1, <1>3 DEF Words, NoEntry
<1>5. Len(Words) \in 1..MaxBlock /\ \A i \in 1..Len(Words) : cia + i - 1 \in Mapped
  BY <1>1, <1>4 DEF BlocksInv, Shapes, Words
<1>6. cia \in Nat /\ remaining \in Nat
  BY <1>1, Addresses, JitAssumption
<1>7. cia + (index + 1) - 1 \in Mapped /\ cia + (index + 1) - 1 = cia + index
  BY <1>1, <1>3, <1>5, <1>6
<1> QED BY <1>1, <1>2, <1>3, <1>4, <1>5, <1>6, <1>7

\* Going on to the next instruction of a running block keeps the cache.
LEMMA GoOnKeepsBlocks ==
  ASSUME BlocksInv, MemoryStep, UNCHANGED <<watchpoint, cacheVars, stopped>>,
         mode = "native", GoOn
  PROVE  BlocksInv'
<1>1. CASE index + 1 = Len(Words)
  <2>1. Leave(index + 1, cia + Len(Words))
    BY <1>1 DEF GoOn
  <2>2. index + 1 \in Nat /\ index + 1 <= remaining /\ cia + Len(Words) \in Nat
    BY RunningBlock
  <2>3. stopped' \in {"no"} \cup Reasons
    BY DEF BlocksInv, TypeOK
  <2> QED BY <2>1, <2>2, <2>3, LeaveKeepsBlocks
<1>2. CASE index + 1 # Len(Words)
  <2>1. index' = index + 1 /\ mode' = mode /\ remaining' = remaining /\ cia' = cia
    BY <1>2 DEF GoOn
  <2>2. cache' = cache /\ fast' = fast /\ latest' = latest /\ watchpoint' = watchpoint
        /\ stopped' = stopped
    BY DEF cacheVars
  <2>3. memory' \in Memories /\ generation' \in [Page -> Nat] /\ write_generation' \in Nat
    BY MemoryStepTypes DEF BlocksInv
  <2>4. index + 1 \in Nat /\ index + 1 < Len(Words) /\ Len(Words) <= remaining
        /\ remaining > index + 1 /\ cia \in Mapped
    <3>1. index \in Nat /\ Len(Words) \in Nat /\ index < Len(Words) /\ remaining \in Nat
      BY RunningBlock
    <3>2. Len(Words) <= remaining
      BY DEF BlocksInv, TypeOK
    <3> QED BY <1>2, <3>1, <3>2, RunningBlock
  <2>5. TypeOK'
    BY <2>1, <2>2, <2>3, <2>4 DEF BlocksInv, TypeOK, Words
  <2>6. Shapes' /\ LookupsAlive' /\ Idle' /\ WatchpointHonoured'
    BY <2>1, <2>2 DEF BlocksInv, Shapes, LookupsAlive, Idle, WatchpointHonoured
  <2> QED BY <2>5, <2>6 DEF BlocksInv
<1> QED BY <1>1, <1>2

LEMMA NativeKeepsBlocks == BlocksInv /\ NativeInstruction => BlocksInv'
<1> SUFFICES ASSUME BlocksInv, NativeInstruction PROVE BlocksInv'
  OBVIOUS
<1>1. mode = "native" /\ UNCHANGED <<watchpoint, cacheVars>> /\ stopped' = stopped
  BY DEF NativeInstruction
<1>2. stopped' \in {"no"} \cup Reasons
  BY <1>1 DEF BlocksInv, TypeOK
<1>3. index + 1 \in Nat /\ index + 1 <= remaining /\ cia + index + 1 \in Nat
  BY <1>1, RunningBlock
<1>4. CASE GoOn /\ UNCHANGED memoryVars
  BY <1>1, <1>4, GoOnKeepsBlocks DEF MemoryStep
<1>5. CASE (\E target \in Targets : Leave(index + 1, target)) /\ UNCHANGED memoryVars
  <2>1. PICK target \in Targets : Leave(index + 1, target)
    BY <1>5
  <2>2. target \in Nat
    BY Addresses
  <2>3. MemoryStep
    BY <1>5 DEF MemoryStep
  <2> QED BY <1>1, <1>2, <1>3, <2>1, <2>2, <2>3, LeaveKeepsBlocks
<1>6. CASE WriteSomething /\ Leave(index + 1, cia + index + 1)
  <2>1. MemoryStep
    BY <1>6 DEF MemoryStep, WriteSomething
  <2> QED BY <1>1, <1>2, <1>3, <1>6, <2>1, LeaveKeepsBlocks
<1>7. CASE \E r \in Storable, v \in Code, byte \in BOOLEAN :
             /\ Write(r[1], r[2], v, byte)
             /\ IF Overlaps(r[1], r[2])
                THEN Leave(index + 1, cia + index + 1) ELSE GoOn
  <2>1. MemoryStep
    BY <1>7 DEF MemoryStep
  <2>2. Leave(index + 1, cia + index + 1) \/ GoOn
    BY <1>7
  <2> QED BY <1>1, <1>2, <1>3, <2>1, <2>2, LeaveKeepsBlocks, GoOnKeepsBlocks
<1> QED BY <1>4, <1>5, <1>6, <1>7 DEF NativeInstruction

LEMMA InterpretedKeepsBlocks == BlocksInv /\ InterpretedInstruction => BlocksInv'
<1> SUFFICES ASSUME BlocksInv, InterpretedInstruction PROVE BlocksInv'
  OBVIOUS
<1>1. mode = "interpret" /\ UNCHANGED <<watchpoint, cacheVars>> /\ stopped' = stopped
  BY DEF InterpretedInstruction
<1>2. stopped' \in {"no"} \cup Reasons /\ cia + 1 \in Nat /\ 1 <= remaining
  BY <1>1, JitAssumption DEF BlocksInv, TypeOK
<1>3. MemoryStep
  BY DEF InterpretedInstruction, MemoryStep, WriteSomething
<1>4. \E next \in Nat : Leave(1, next)
  BY <1>2, Addresses DEF InterpretedInstruction
<1> QED BY <1>1, <1>2, <1>3, <1>4, LeaveKeepsBlocks

LEMMA TrapKeepsBlocks == BlocksInv /\ (StoreFault \/ Unsupported) => BlocksInv'
<1> SUFFICES ASSUME BlocksInv, StoreFault \/ Unsupported PROVE BlocksInv'
  OBVIOUS
<1>1. mode \in {"native", "interpret"} /\ Leave(index, cia + index)
      /\ stopped' \in {"no"} \cup Reasons /\ UNCHANGED memoryVars
      /\ UNCHANGED <<watchpoint, cacheVars>>
  BY DEF StoreFault, Unsupported, Trap, Reasons
<1>2. index \in Nat /\ cia + index \in Nat /\ index <= remaining
  BY <1>1, JitAssumption DEF BlocksInv, TypeOK
<1>3. MemoryStep
  BY <1>1 DEF MemoryStep
<1> QED BY <1>1, <1>2, <1>3, LeaveKeepsBlocks

LEMMA HleCallKeepsBlocks == BlocksInv /\ HleCall => BlocksInv'
<1> SUFFICES ASSUME BlocksInv, HleCall PROVE BlocksInv'
  OBVIOUS
<1>1. remaining > 0 /\ UNCHANGED <<watchpoint, cacheVars>> /\ stopped' = stopped
  BY DEF HleCall, Dispatching
<1>2. stopped' \in {"no"} \cup Reasons /\ 1 <= remaining
  BY <1>1, JitAssumption DEF BlocksInv, TypeOK
<1>3. MemoryStep
  BY DEF HleCall, MemoryStep, WriteSomething
<1>4. PICK target \in Targets : Leave(1, target)
  BY DEF HleCall
<1> QED BY <1>1, <1>2, <1>3, <1>4, Addresses, LeaveKeepsBlocks

LEMMA HleErrorKeepsBlocks == BlocksInv /\ HleError => BlocksInv'
<1> SUFFICES ASSUME BlocksInv, HleError PROVE BlocksInv'
  OBVIOUS
<1>1. mode = "dispatch" /\ stopped' \in Reasons
      /\ cache' = cache /\ fast' = fast /\ latest' = latest /\ watchpoint' = watchpoint
      /\ cia' = cia /\ mode' = mode /\ index' = index /\ remaining' = remaining
  BY DEF HleError, Dispatching, cacheVars, Reasons
<1>2. memory' \in Memories /\ generation' \in [Page -> Nat] /\ write_generation' \in Nat
  BY MemoryStepTypes DEF HleError, MemoryStep, WriteSomething, BlocksInv
<1> QED
  BY <1>1, <1>2 DEF BlocksInv, TypeOK, Words, Shapes, LookupsAlive, Idle, WatchpointHonoured

\* The steps that change neither memory nor the cache nor what runs.
LEMMA OtherKeepBlocks ==
  BlocksInv /\ (FetchFault \/ Run \/ SetWriteWatchpoint \/ UNCHANGED vars) => BlocksInv'
<1> SUFFICES ASSUME BlocksInv, FetchFault \/ Run \/ SetWriteWatchpoint \/ UNCHANGED vars
             PROVE  BlocksInv'
  OBVIOUS
<1>1. CASE FetchFault
  BY <1>1 DEF FetchFault, Dispatching, BlocksInv, TypeOK, Reasons, Words, Shapes, LookupsAlive, Idle,
              WatchpointHonoured, memoryVars, cacheVars
<1>2. CASE Run
  BY <1>2, JitAssumption DEF Run, BlocksInv, TypeOK, Words, Shapes, LookupsAlive, Idle,
              WatchpointHonoured, memoryVars, cacheVars
<1>3. CASE SetWriteWatchpoint
  BY <1>3 DEF SetWriteWatchpoint, BlocksInv, TypeOK, Words, Shapes, LookupsAlive, Idle,
              WatchpointHonoured, memoryVars, cacheVars
<1>4. CASE UNCHANGED vars
  BY <1>4 DEF vars, BlocksInv, TypeOK, Words, Shapes, LookupsAlive, Idle,
              WatchpointHonoured, memoryVars, cacheVars
<1> QED BY <1>1, <1>2, <1>3, <1>4

LEMMA BlocksStep == BlocksInv /\ [Next]_vars => BlocksInv'
  BY UseHitKeepsBlocks, UseFoundKeepsBlocks, CompileKeepsBlocks, GiveUpKeepsBlocks,
     NativeKeepsBlocks, InterpretedKeepsBlocks, TrapKeepsBlocks, HleCallKeepsBlocks,
     HleErrorKeepsBlocks, OtherKeepBlocks DEF Next, Halted

LEMMA BlocksAlways == Spec => []BlocksInv
  BY BlocksInit, BlocksStep, PTL DEF Spec

\* The state is well formed: no run executes more instructions than its budget
\* (run in recompiler.cpp), and no block runs past its last instruction.
THEOREM JitTypes == Spec => []TypeOK
<1>1. BlocksInv => TypeOK
  BY DEF BlocksInv
<1> QED BY <1>1, BlocksAlways, PTL

\* The lookup tables hold no pointer to an erased entry (the erasures of run in
\* recompiler.cpp).
THEOREM LookupsNeverDangle == Spec => []NoDanglingLookup
<1>1. BlocksInv => NoDanglingLookup
  BY DEF BlocksInv, TypeOK, LookupsAlive, NoDanglingLookup
<1> QED BY <1>1, BlocksAlways, PTL

\* Blocks compiled without the write watchpoint are not entered with it (the
\* comparison of write_watchpoint_enabled in recompiler.cpp).
THEOREM WatchpointAlwaysHonoured == Spec => []WatchpointHonoured
<1>1. BlocksInv => WatchpointHonoured
  BY DEF BlocksInv
<1> QED BY <1>1, BlocksAlways, PTL

----------------------------------------------------------------------------
(***************************************************************************)
(* Current code.  Generations only grow, so an entry whose generations     *)
(* still match saw no marked store to its pages; and stores mark the pages *)
(* they change.  This needs that byte stores and the alias do not meet:    *)
(* write8 marks an alias page where lookups read the page it shows.        *)
(***************************************************************************)
Coherent == AliasSize = 0 \/ ~ByteStores

EntriesKnown ==
  \A a \in Mapped : cache[a] # NoEntry =>
    /\ cache[a].first <= PageGeneration(a)
    /\ cache[a].second <= PageGeneration(a + Len(cache[a].words) - 1)

EntriesCurrent ==
  \A a \in Mapped : cache[a] # NoEntry /\ GenerationsMatch(a) => WordsMatch(a)

CurrencyInv == EntriesKnown /\ EntriesCurrent /\ EntersCurrentCode

LEMMA NothingAliased == AliasSize = 0 => \A p : BackingOf(p) = p
<1>1. AliasSize = 0 => AliasPage = {}
  BY MemoryAssumption DEF AliasPage
<1> QED BY <1>1 DEF BackingOf

\* A word whose page was not marked is unchanged.
LEMMA UnmarkedWords ==
  ASSUME Coherent, TypeOK, NEW r \in Storable, NEW v \in Code, NEW byte \in BOOLEAN,
         Write(r[1], r[2], v, byte), NEW a \in Mapped,
         PageGeneration(a)' = PageGeneration(a)
  PROVE  Read(memory', a) = Read(memory, a)
<1> DEFINE q == BackingOf(PageOf(a))
<1>1. r[1] \in Mapped /\ r[2] \in Mapped /\ r[1] <= r[2]
  BY DEF Storable
<1>2. q \in BackingPage /\ q \in Page /\ a % PageWords \in 0..(PageWords - 1)
  BY MappedPages, PagesAreBacked DEF Page
<1>3. generation \in [Page -> Nat] /\ memory' = Stored(memory, r[1], r[2], v)
      /\ generation' = [p \in Page |-> IF p \in Marked(r[1], r[2], byte)
                                       THEN generation[p] + 1 ELSE generation[p]]
      /\ (byte => ByteStores /\ r[1] = r[2])
  BY DEF TypeOK, Write
<1>4. generation'[q] = generation[q]
  BY DEF PageGeneration
<1> HIDE DEF q
<1>5. q \notin Marked(r[1], r[2], byte)
  BY <1>2, <1>3, <1>4
<1>6. ASSUME NEW x \in r[1]..r[2], BackingOf(PageOf(x)) = q PROVE FALSE
  <2>1. CASE byte
    <3>1. x = r[1] /\ AliasSize = 0
      BY <1>1, <1>3, <2>1, MappedPages DEF Coherent
    <3>2. q = PageOf(r[1])
      BY <1>6, <3>1, NothingAliased
    <3> QED BY <1>5, <2>1, <3>2 DEF Marked
  <2>2. CASE ~byte
    <3>1. r[1] \in Nat /\ r[2] \in Nat /\ x \in Nat /\ r[1] <= x /\ x <= r[2]
          /\ PageWords \in Nat \ {0}
      BY <1>1, MappedPages, MemoryAssumption
    <3>2. PageOf(x) \in PageOf(r[1])..PageOf(r[2])
      <4> DEFINE b == r[1]
                 c == r[2]
      <4>1. b \in Nat /\ c \in Nat /\ x \in Nat /\ b <= x /\ x <= c
        BY <3>1
      <4> HIDE DEF b, c
      <4>2. b \div PageWords <= x \div PageWords /\ x \div PageWords <= c \div PageWords
        BY <3>1, <4>1
      <4>3. b \div PageWords \in Int /\ c \div PageWords \in Int /\ x \div PageWords \in Int
        BY <3>1, <4>1
      <4> QED BY <4>2, <4>3 DEF PageOf, b, c
    <3> QED BY <1>5, <1>6, <2>2, <3>2 DEF Marked
  <2> QED BY <2>1, <2>2
<1>7. memory'[q][a % PageWords] = memory[q][a % PageWords]
  BY <1>2, <1>3, <1>6 DEF Stored
<1> QED BY <1>7 DEF Read, q

\* The entries stay current while memory changes and the cache does not.
LEMMA MemoryKeepsCurrency ==
  ASSUME Coherent, BlocksInv, MemoryStep, EntriesKnown, EntriesCurrent, cache' = cache
  PROVE  EntriesKnown' /\ EntriesCurrent'
<1>1. generation \in [Page -> Nat] /\ generation' \in [Page -> Nat]
      /\ \A p \in Page : generation[p] <= generation'[p]
  BY MemoryStepTypes DEF BlocksInv, TypeOK
<1>2. \A b \in Mapped : PageGeneration(b) \in Nat /\ PageGeneration(b)' \in Nat
                        /\ PageGeneration(b) <= PageGeneration(b)'
  BY <1>1, MappedPages, PagesAreBacked DEF PageGeneration, Page
<1>3. ASSUME NEW a \in Mapped, cache[a] # NoEntry
      PROVE  /\ a + Len(cache[a].words) - 1 \in Mapped
             /\ Len(cache[a].words) \in 1..MaxBlock
             /\ \A i \in 1..Len(cache[a].words) : a + i - 1 \in Mapped
             /\ cache[a].first \in Nat /\ cache[a].second \in Nat
             /\ DOMAIN cache[a].words = 1..Len(cache[a].words)
  <2>1. Len(cache[a].words) \in 1..MaxBlock
        /\ \A i \in 1..Len(cache[a].words) : a + i - 1 \in Mapped
    BY <1>3 DEF BlocksInv, Shapes
  <2>2. MaxBlock \in Nat
    BY JitAssumption, MemoryAssumption
  <2>3. cache[a] \in Entries
    BY DEF BlocksInv, TypeOK
  <2> QED BY <2>1, <2>2, <2>3 DEF Entries
<1>4. EntriesKnown'
  <2> SUFFICES ASSUME NEW a \in Mapped, cache[a] # NoEntry
               PROVE  /\ cache[a].first <= PageGeneration(a)'
                      /\ cache[a].second <= PageGeneration(a + Len(cache[a].words) - 1)'
    BY DEF EntriesKnown
  <2> QED BY <1>2, <1>3 DEF EntriesKnown
<1>5. EntriesCurrent'
  <2> SUFFICES ASSUME NEW a \in Mapped, cache[a] # NoEntry, GenerationsMatch(a)'
               PROVE  WordsMatch(a)'
    BY DEF EntriesCurrent
  <2> DEFINE n == Len(cache[a].words)
             z == a + n - 1
  <2>1. cache[a].first = PageGeneration(a)' /\ cache[a].second = PageGeneration(z)'
    BY DEF GenerationsMatch
  <2>2. cache[a].first <= PageGeneration(a) /\ cache[a].second <= PageGeneration(z)
    BY DEF EntriesKnown
  <2>3. z \in Mapped /\ a \in Nat
    BY <1>3, MappedPages
  <2>4. PageGeneration(a)' = PageGeneration(a) /\ PageGeneration(z)' = PageGeneration(z)
    BY <1>2, <1>3, <2>1, <2>2, <2>3
  <2>5. WordsMatch(a)
    BY <2>1, <2>4 DEF EntriesCurrent, GenerationsMatch
  <2>6. ASSUME NEW i \in 1..n
        PROVE  Read(memory', a + i - 1) = Read(memory, a + i - 1)
    <3>1. a + i - 1 \in Mapped /\ n \in 1..MaxBlock
      BY <1>3
    <3>2. PageOf(a + i - 1) \in {PageOf(a), PageOf(z)}
      BY <2>3, <3>1, BlockPages
    <3>3. PageGeneration(a + i - 1)' = PageGeneration(a + i - 1)
      BY <2>4, <3>2 DEF PageGeneration
    <3>4. CASE UNCHANGED memoryVars
      BY <3>4 DEF memoryVars
    <3>5. CASE \E r \in Storable, v \in Code, byte \in BOOLEAN : Write(r[1], r[2], v, byte)
      BY <3>1, <3>3, <3>5, UnmarkedWords DEF BlocksInv
    <3> QED BY <3>4, <3>5 DEF MemoryStep
  <2>7. ASSUME NEW i \in DOMAIN cache[a].words
        PROVE  cache[a].words[i] = Read(memory', a + i - 1)
    <3>1. i \in 1..n
      BY <1>3
    <3> QED BY <2>5, <2>6, <3>1 DEF WordsMatch
  <2> QED BY <2>7 DEF WordsMatch
<1> QED BY <1>4, <1>5

\* A capture is current when the words are those of memory.
LEMMA CaptureKeepsCurrency ==
  ASSUME EntriesKnown, EntriesCurrent, TypeOK, UNCHANGED memoryVars,
         NEW a \in Mapped, NEW words,
         \A i \in DOMAIN words : words[i] = Read(memory, a + i - 1),
         PageGeneration(a) \in Nat, PageGeneration(a + Len(words) - 1) \in Nat,
         cache' = [cache EXCEPT ![a] = Captured(a, words)]
  PROVE  EntriesKnown' /\ EntriesCurrent' /\ WordsMatch(a)'
<1>1. memory' = memory /\ generation' = generation
  BY DEF memoryVars
<1>2. cache'[a] = Captured(a, words) /\ \A b \in Mapped : b # a => cache'[b] = cache[b]
  BY DEF TypeOK
<1>3. cache'[a].words = words /\ cache'[a].first = PageGeneration(a)
      /\ cache'[a].second = PageGeneration(a + Len(words) - 1)
  BY <1>2 DEF Captured
<1>4. WordsMatch(a)'
  BY <1>1, <1>3 DEF WordsMatch
<1>5. EntriesKnown'
  BY <1>1, <1>2, <1>3 DEF EntriesKnown, PageGeneration
<1>6. EntriesCurrent'
  <2> SUFFICES ASSUME NEW b \in Mapped, cache'[b] # NoEntry, GenerationsMatch(b)'
               PROVE  WordsMatch(b)'
    BY DEF EntriesCurrent
  <2>1. CASE b = a
    BY <1>4, <2>1
  <2>2. CASE b # a
    <3>1. cache'[b] = cache[b]
      BY <1>2, <2>2
    <3>2. GenerationsMatch(b)
      BY <1>1, <3>1 DEF GenerationsMatch, PageGeneration
    <3> QED BY <1>1, <3>1, <3>2 DEF EntriesCurrent, WordsMatch
  <2> QED BY <2>1, <2>2
<1> QED BY <1>4, <1>5, <1>6

LEMMA CurrencyInit == Init => CurrencyInv
<1> SUFFICES ASSUME Init PROVE CurrencyInv
  OBVIOUS
<1>1. \A a \in Mapped : cache[a] = NoEntry
  BY DEF Init
<1> QED BY <1>1 DEF CurrencyInv, EntriesKnown, EntriesCurrent, EntersCurrentCode, Init

LEMMA UseHitKeepsCurrency == BlocksInv /\ CurrencyInv /\ UseHit => CurrencyInv'
<1> SUFFICES ASSUME BlocksInv, CurrencyInv, UseHit PROVE CurrencyInv'
  OBVIOUS
<1>1. cia \in Mapped /\ cache' = cache /\ cia' = cia /\ memory' = memory
      /\ generation' = generation /\ GenerationsMatch(cia)
      /\ (latest = cia \/ fast[Slot(cia)] = cia)
  BY DEF UseHit, Hit, Enter, memoryVars
<1>2. cache[cia] # NoEntry
  BY <1>1, Addresses DEF BlocksInv, LookupsAlive
<1>3. WordsMatch(cia)
  BY <1>1, <1>2 DEF CurrencyInv, EntriesCurrent
<1> QED
  BY <1>1, <1>3 DEF CurrencyInv, EntriesKnown, EntriesCurrent, EntersCurrentCode,
                    GenerationsMatch, WordsMatch, PageGeneration

LEMMA UseFoundKeepsCurrency == BlocksInv /\ CurrencyInv /\ UseFound => CurrencyInv'
<1> SUFFICES ASSUME BlocksInv, CurrencyInv, UseFound PROVE CurrencyInv'
  OBVIOUS
<1> DEFINE n == Len(cache[cia].words)
<1>1. cia \in Mapped /\ cia' = cia /\ UNCHANGED memoryVars /\ Usable(cia)
      /\ cache' = IF GenerationsMatch(cia)
                  THEN cache ELSE [cache EXCEPT ![cia] = Captured(cia, cache[cia].words)]
  BY DEF UseFound, Enter
<1>2. cache[cia] # NoEntry
  BY <1>1 DEF Usable
<1>3. WordsMatch(cia)
  BY <1>1, <1>2 DEF Usable, CurrencyInv, EntriesCurrent
<1>4. PageGeneration(cia) \in Nat /\ PageGeneration(cia + n - 1) \in Nat
  <2>1. n \in 1..MaxBlock /\ \A i \in 1..n : cia + i - 1 \in Mapped
    BY <1>1, <1>2 DEF BlocksInv, Shapes
  <2>2. cia + n - 1 \in Mapped
    BY <2>1, JitAssumption, MemoryAssumption
  <2> QED BY <1>1, <2>2, MappedPages, PagesAreBacked
          DEF PageGeneration, Page, BlocksInv, TypeOK
<1>5. \A i \in DOMAIN cache[cia].words : cache[cia].words[i] = Read(memory, cia + i - 1)
  BY <1>3 DEF WordsMatch
<1>6. EntriesKnown' /\ EntriesCurrent' /\ WordsMatch(cia)'
  <2>1. CASE cache' = cache
    BY <1>1, <1>3, <2>1 DEF CurrencyInv, EntriesKnown, EntriesCurrent, GenerationsMatch,
                            WordsMatch, PageGeneration, memoryVars
  <2>2. CASE cache' = [cache EXCEPT ![cia] = Captured(cia, cache[cia].words)]
    BY <1>1, <1>4, <1>5, <2>2, CaptureKeepsCurrency DEF BlocksInv, CurrencyInv
  <2> QED BY <1>1, <2>1, <2>2
<1> QED BY <1>1, <1>6 DEF CurrencyInv, EntersCurrentCode, WordsMatch

LEMMA CompileKeepsCurrency == BlocksInv /\ CurrencyInv /\ Compile => CurrencyInv'
<1> SUFFICES ASSUME BlocksInv, CurrencyInv, Compile PROVE CurrencyInv'
  OBVIOUS
<1>1. PICK n \in 1..MaxBlock :
        /\ Translatable(cia, n)
        /\ cache' = [cache EXCEPT ![cia] =
             Captured(cia, [i \in 1..n |-> Read(memory, cia + i - 1)])]
        /\ Enter(n)
  BY DEF Compile
<1> DEFINE words == [i \in 1..n |-> Read(memory, cia + i - 1)]
<1>2. cia \in Mapped /\ cia' = cia /\ UNCHANGED memoryVars
  BY <1>1 DEF Compile, Enter
<1>3. DOMAIN words = 1..n /\ \A i \in 1..n : words[i] = Read(memory, cia + i - 1)
  OBVIOUS
<1>4. Len(words) = n /\ \A i \in 1..n : cia + i - 1 \in Mapped
  <2> HIDE DEF words
  <2>1. words = [i \in 1..n |-> Read(memory, cia + i - 1)]
    BY DEF words
  <2>2. memory \in Memories /\ generation \in [Page -> Nat] /\ watchpoint \in BOOLEAN
    BY DEF BlocksInv, TypeOK
  <2> QED BY <1>1, <1>2, <2>1, <2>2, TranslationTypes
<1>5. cache' = [cache EXCEPT ![cia] = Captured(cia, words)]
  BY <1>1
<1> HIDE DEF words
<1>6. PageGeneration(cia) \in Nat /\ PageGeneration(cia + Len(words) - 1) \in Nat
  <2>1. cia + n - 1 \in Mapped
    BY <1>4, JitAssumption, MemoryAssumption
  <2> QED BY <1>2, <1>4, <2>1, MappedPages, PagesAreBacked
          DEF PageGeneration, Page, BlocksInv, TypeOK
<1>7. EntriesKnown' /\ EntriesCurrent' /\ WordsMatch(cia)'
  BY <1>2, <1>3, <1>5, <1>6, CaptureKeepsCurrency DEF BlocksInv, CurrencyInv
<1> QED BY <1>2, <1>7 DEF CurrencyInv, EntersCurrentCode, WordsMatch

LEMMA GiveUpKeepsCurrency == BlocksInv /\ CurrencyInv /\ GiveUp => CurrencyInv'
<1> SUFFICES ASSUME BlocksInv, CurrencyInv, GiveUp PROVE CurrencyInv'
  OBVIOUS
<1>1. \A a \in Mapped : cache'[a] = IF a = cia THEN NoEntry ELSE cache[a]
  BY DEF GiveUp, BlocksInv, TypeOK
<1>2. memory' = memory /\ generation' = generation /\ mode' = "interpret"
  BY DEF GiveUp, memoryVars
<1> QED
  BY <1>1, <1>2 DEF CurrencyInv, EntriesKnown, EntriesCurrent, EntersCurrentCode,
                    GenerationsMatch, WordsMatch, PageGeneration

\* All steps but those of the lookup leave the cache alone and enter no block.
LEMMA OthersKeepCurrency ==
  ASSUME Coherent, BlocksInv, CurrencyInv,
         \/ NativeInstruction \/ InterpretedInstruction \/ StoreFault \/ Unsupported
         \/ FetchFault \/ HleCall \/ HleError \/ Run \/ SetWriteWatchpoint \/ UNCHANGED vars
  PROVE  CurrencyInv'
<1>1. cache' = cache
  BY DEF NativeInstruction, InterpretedInstruction, StoreFault, Unsupported, Trap, FetchFault,
         HleCall, HleError, Run, SetWriteWatchpoint, vars, cacheVars
<1>2. MemoryStep
  BY DEF NativeInstruction, InterpretedInstruction, StoreFault, Unsupported, Trap, FetchFault,
         HleCall, HleError, Run, SetWriteWatchpoint, vars, WriteSomething, MemoryStep
<1>3. EntriesKnown' /\ EntriesCurrent'
  BY <1>1, <1>2, MemoryKeepsCurrency DEF CurrencyInv
<1>4. EntersCurrentCode'
  <2>1. CASE NativeInstruction
    <3>1. mode' = "dispatch" \/ index' = index + 1
      BY <2>1 DEF NativeInstruction, Leave, GoOn
    <3>2. index \in Nat
      BY DEF BlocksInv, TypeOK
    <3> QED BY <3>1, <3>2 DEF EntersCurrentCode
  <2>2. CASE InterpretedInstruction \/ StoreFault \/ Unsupported \/ HleCall
    <3>1. mode' = "dispatch"
      BY <2>2 DEF InterpretedInstruction, StoreFault, Unsupported, Trap, HleCall, Leave
    <3> QED BY <3>1 DEF EntersCurrentCode
  <2>3. CASE FetchFault \/ HleError \/ Run \/ SetWriteWatchpoint
    <3>1. mode' = "dispatch"
      BY <2>3 DEF FetchFault, HleError, Dispatching, Run, SetWriteWatchpoint
    <3> QED BY <3>1 DEF EntersCurrentCode
  <2>4. CASE UNCHANGED vars
    BY <2>4 DEF vars, memoryVars, cacheVars, CurrencyInv, EntersCurrentCode, WordsMatch
  <2> QED BY <2>1, <2>2, <2>3, <2>4
<1> QED BY <1>3, <1>4 DEF CurrencyInv

LEMMA CurrencyStep ==
  ASSUME Coherent
  PROVE  BlocksInv /\ CurrencyInv /\ [Next]_vars => CurrencyInv'
  BY UseHitKeepsCurrency, UseFoundKeepsCurrency, CompileKeepsCurrency,
     GiveUpKeepsCurrency, OthersKeepCurrency DEF Next, Halted

\* A block is entered only if its words are those of memory, although most
\* lookups compare two generations and no words, whatever stores there were
\* before (the generations of guest_memory.hpp and the lookup of run in
\* recompiler.cpp).  It needs that guest code stores no single bytes, or that
\* nothing is aliased: the run jit_alias_byte shows that it fails otherwise.
THEOREM EnteredCodeIsCurrent ==
  ASSUME Coherent
  PROVE  Spec => []EntersCurrentCode
<1>1. Init => CurrencyInv
  BY CurrencyInit
<1>2. BlocksInv /\ CurrencyInv /\ [Next]_vars => CurrencyInv'
  BY CurrencyStep
<1>3. CurrencyInv => EntersCurrentCode
  BY DEF CurrencyInv
<1> QED BY <1>1, <1>2, <1>3, BlocksAlways, PTL DEF Spec

----------------------------------------------------------------------------
(***************************************************************************)
(* Without an alias the code of a running block stays current: a store     *)
(* that changes one of its words overlaps the block's addresses, and ends  *)
(* it.  Then native execution implements execution from memory.            *)
(***************************************************************************)
Alive == stopped # "no" => mode = "dispatch"

RunsAhead ==
  mode = "native" => \A i \in DOMAIN Words : i > index => Words[i] = Read(memory, cia + i - 1)

ExecutionInv == BlocksInv /\ CurrencyInv /\ Alive /\ RunsAhead

\* Without an alias a store changes the words it covers and no others.
LEMMA StoresAreLocal ==
  ASSUME AliasSize = 0, TypeOK, NEW r \in Storable, NEW v \in Code, NEW byte \in BOOLEAN,
         Write(r[1], r[2], v, byte), NEW a \in Mapped, a \notin r[1]..r[2]
  PROVE  Read(memory', a) = Read(memory, a)
<1>1. r[1] \in Mapped /\ r[2] \in Mapped /\ \A x \in r[1]..r[2] : x \in Mapped
  BY DEF Storable
<1>2. PageOf(a) \in BackingPage /\ BackingOf(PageOf(a)) = PageOf(a)
      /\ a % PageWords \in 0..(PageWords - 1)
  BY MappedPages, PagesAreBacked, NothingAliased
<1>3. ASSUME NEW x \in r[1]..r[2], BackingOf(PageOf(x)) = PageOf(a),
             x % PageWords = a % PageWords
      PROVE  FALSE
  <2>1. x \in Mapped
    BY <1>1
  <2>2. x = PageWords * PageOf(x) + (x % PageWords) /\ PageOf(x) = PageOf(a)
    BY <1>3, <2>1, MappedPages, NothingAliased
  <2>3. a = PageWords * PageOf(a) + (a % PageWords)
    BY MappedPages
  <2>4. x = a
    BY <1>3, <2>2, <2>3
  <2> QED BY <2>4
<1>4. memory' = Stored(memory, r[1], r[2], v)
  BY DEF Write
<1>5. memory'[PageOf(a)][a % PageWords] = memory[PageOf(a)][a % PageWords]
  BY <1>2, <1>3, <1>4 DEF Stored
<1> QED BY <1>2, <1>5 DEF Read

LEMMA ExecutionInit == Init => ExecutionInv
  BY BlocksInit, CurrencyInit DEF ExecutionInv, Alive, RunsAhead, Init

LEMMA NativeKeepsAhead ==
  ASSUME AliasSize = 0, ExecutionInv, NativeInstruction
  PROVE  RunsAhead'
<1>1. mode = "native" /\ cache' = cache
  BY DEF NativeInstruction, cacheVars
<1>2. cia \in Nat /\ Len(Words) \in Nat /\ index \in Nat /\ DOMAIN Words = 1..Len(Words)
  BY <1>1, RunningBlock DEF ExecutionInv
<1>3. CASE mode' = "dispatch"
  BY <1>3 DEF RunsAhead
<1>4. CASE GoOn /\ mode' # "dispatch"
  <2>1. cia' = cia /\ index' = index + 1 /\ Words' = Words
    BY <1>1, <1>4 DEF GoOn, Leave, Words
  <2>2. ASSUME NEW i \in DOMAIN Words, i > index + 1
        PROVE  Words[i] = Read(memory', cia + i - 1)
    <3>1. i > index /\ i \in 1..Len(Words)
      BY <1>2, <2>2
    <3>2. Words[i] = Read(memory, cia + i - 1)
      BY <1>1, <3>1 DEF ExecutionInv, RunsAhead
    <3>3. CASE UNCHANGED memoryVars
      BY <3>2, <3>3 DEF memoryVars
    <3>4. CASE \E r \in Storable, v \in Code, byte \in BOOLEAN :
                 Write(r[1], r[2], v, byte) /\ ~Overlaps(r[1], r[2])
      <4>1. PICK r \in Storable, v \in Code, byte \in BOOLEAN :
              Write(r[1], r[2], v, byte) /\ ~Overlaps(r[1], r[2])
        BY <3>4
      <4>2. r[1] \in Nat /\ r[2] \in Nat
        BY MappedPages DEF Storable
      <4>3. cia + i - 1 \notin r[1]..r[2]
        BY <1>2, <3>1, <4>1, <4>2 DEF Overlaps
      <4>4. cia + i - 1 \in Mapped
        BY <1>1, <3>1, RunningBlock DEF ExecutionInv, BlocksInv, Shapes, Words
      <4>5. TypeOK
        BY DEF ExecutionInv, BlocksInv
      <4> QED BY <3>2, <4>1, <4>3, <4>4, <4>5, StoresAreLocal
    <3> QED BY <1>4, <3>3, <3>4 DEF NativeInstruction, Leave
  <2> QED BY <2>1, <2>2 DEF RunsAhead
<1> QED BY <1>3, <1>4 DEF NativeInstruction, Leave

LEMMA ExecutionStep ==
  ASSUME AliasSize = 0
  PROVE  ExecutionInv /\ [Next]_vars => ExecutionInv'
<1> SUFFICES ASSUME ExecutionInv, [Next]_vars PROVE ExecutionInv'
  OBVIOUS
<1>1. BlocksInv' /\ CurrencyInv'
  BY BlocksStep, CurrencyStep DEF ExecutionInv, Coherent
<1>2. CASE UseHit \/ UseFound \/ Compile
  <2>1. index' = 0 /\ stopped' = "no"
    BY <1>2 DEF UseHit, UseFound, Compile, Enter, Dispatching
  <2>2. mode' = "native" => WordsMatch(cia)'
    BY <1>1, <2>1 DEF CurrencyInv, EntersCurrentCode
  <2>3. RunsAhead' /\ Alive'
    BY <2>1, <2>2 DEF WordsMatch, RunsAhead, Alive, Words
  <2> QED BY <1>1, <2>3 DEF ExecutionInv
<1>3. CASE NativeInstruction
  <2>1. Alive'
    BY <1>3 DEF NativeInstruction, ExecutionInv, Alive, TypeOK
  <2> QED BY <1>1, <1>3, <2>1, NativeKeepsAhead DEF ExecutionInv
<1>4. CASE GiveUp
  BY <1>1, <1>4 DEF GiveUp, Dispatching, ExecutionInv, Alive, RunsAhead
<1>5. CASE InterpretedInstruction \/ StoreFault \/ Unsupported \/ HleCall
  <2>1. mode' = "dispatch"
    BY <1>5 DEF InterpretedInstruction, StoreFault, Unsupported, Trap, HleCall, Leave
  <2> QED BY <1>1, <2>1 DEF ExecutionInv, Alive, RunsAhead
<1>6. CASE FetchFault \/ HleError \/ Run \/ SetWriteWatchpoint
  <2>1. mode' = "dispatch"
    BY <1>6 DEF FetchFault, HleError, Dispatching, Run, SetWriteWatchpoint
  <2> QED BY <1>1, <2>1 DEF ExecutionInv, Alive, RunsAhead
<1>7. CASE UNCHANGED vars
  BY <1>1, <1>7 DEF vars, memoryVars, cacheVars, ExecutionInv, Alive, RunsAhead, Words
<1> QED BY <1>2, <1>3, <1>4, <1>5, <1>6, <1>7 DEF Next, Halted

LEMMA ExecutionAlways ==
  ASSUME AliasSize = 0
  PROVE  Spec => []ExecutionInv
<1>1. Init => ExecutionInv
  BY ExecutionInit
<1>2. ExecutionInv /\ [Next]_vars => ExecutionInv'
  BY ExecutionStep
<1> QED BY <1>1, <1>2, PTL DEF Spec

\* Without an alias the next native instruction is the one in memory, also
\* after stores of the block into itself (the range check after native stores
\* in recompiler.cpp).  The run jit_alias_self shows that an alias breaks it.
THEOREM RunningCodeIsCurrent ==
  ASSUME AliasSize = 0
  PROVE  Spec => []RunsCurrentCode
<1>1. ExecutionInv => RunsCurrentCode
  <2> SUFFICES ASSUME ExecutionInv, mode = "native"
               PROVE  Words[index + 1] = Read(memory, cia + index)
    BY DEF RunsCurrentCode
  <2>1. index + 1 \in DOMAIN Words /\ index \in Nat /\ cia \in Nat
    BY RunningBlock DEF ExecutionInv
  <2>2. Words[index + 1] = Read(memory, cia + (index + 1) - 1)
    BY <2>1 DEF ExecutionInv, RunsAhead
  <2> QED BY <2>1, <2>2
<1> QED BY <1>1, ExecutionAlways, PTL

----------------------------------------------------------------------------
(***************************************************************************)
(* The refinement: a dispatch is a stuttering step, an instruction is an   *)
(* instruction.                                                            *)
(***************************************************************************)
LEMMA SameMemory ==
  /\ Execution!Mapped = Mapped /\ Execution!Targets = Targets
  /\ Execution!Memories = Memories /\ Execution!Storable = Storable
  /\ \A m, a : Execution!Read(m, a) = Read(m, a)
  /\ \A m, first, last, v : Execution!Stored(m, first, last, v) = Stored(m, first, last, v)
<1>1. Execution!AliasPage = AliasPage
  BY DEF Execution!AliasPage, AliasPage
<1>2. \A p : Execution!BackingOf(p) = BackingOf(p)
  BY <1>1 DEF Execution!BackingOf, BackingOf
<1>3. \A a : Execution!PageOf(a) = PageOf(a)
  BY DEF Execution!PageOf, PageOf
<1>4. Execution!Mapped = Mapped
  BY <1>1 DEF Execution!Mapped, Mapped, Execution!Page, Page
<1>5. Execution!Targets = Targets /\ Execution!Storable = Storable
      /\ Execution!Memories = Memories
  BY <1>4 DEF Execution!Targets, Targets, Execution!Storable, Storable,
              Execution!Memories, Memories
<1>6. \A m, a : Execution!Read(m, a) = Read(m, a)
  BY <1>2, <1>3 DEF Execution!Read, Read
<1>7. \A m, first, last, v : Execution!Stored(m, first, last, v) = Stored(m, first, last, v)
  BY <1>2, <1>3 DEF Execution!Stored, Stored
<1> QED BY <1>4, <1>5, <1>6, <1>7

LEMMA WritesAreStores == WriteSomething => Execution!StoreSomething
  BY SameMemory DEF WriteSomething, Write, Execution!StoreSomething

LEMMA LookupsStutter ==
  BlocksInv /\ (UseHit \/ UseFound \/ Compile \/ GiveUp \/ Run \/ SetWriteWatchpoint \/ Halted)
    => UNCHANGED Execution!vars
<1> SUFFICES ASSUME BlocksInv, UseHit \/ UseFound \/ Compile \/ GiveUp \/ Run
                               \/ SetWriteWatchpoint \/ Halted
             PROVE  UNCHANGED Execution!vars
  OBVIOUS
<1>1. CASE Halted
  BY <1>1 DEF Halted, vars, memoryVars, Execution!vars
<1>2. CASE ~Halted
  <2>1. mode = "dispatch" /\ index = 0
    BY <1>2 DEF UseHit, UseFound, Compile, GiveUp, Dispatching, Run, SetWriteWatchpoint,
                BlocksInv, Idle
  <2>2. index' = 0 /\ cia' = cia /\ memory' = memory /\ executed' = executed
        /\ stopped' = stopped
    BY <1>2, <2>1 DEF UseHit, UseFound, Compile, GiveUp, Enter, Run, SetWriteWatchpoint,
                memoryVars
  <2> QED BY <2>1, <2>2 DEF Execution!vars
<1> QED BY <1>1, <1>2

LEMMA NativeExecutes ==
  ExecutionInv /\ NativeInstruction => Execution!Execute
<1> SUFFICES ASSUME ExecutionInv, NativeInstruction PROVE Execution!Execute
  OBVIOUS
<1> DEFINE insn == Words[index + 1]
<1>1. mode = "native" /\ stopped = "no" /\ stopped' = "no"
  BY DEF NativeInstruction, ExecutionInv, Alive
<1>2. cia + index \in Mapped /\ cia \in Nat /\ index \in Nat /\ Len(Words) \in Nat
      /\ index + 1 \in DOMAIN Words
  BY <1>1, RunningBlock DEF ExecutionInv
<1>3. insn = Read(memory, cia + index)
  <2>1. insn = Read(memory, cia + (index + 1) - 1)
    BY <1>1, <1>2 DEF ExecutionInv, RunsAhead
  <2> QED BY <1>2, <2>1
<1>4. executed' = [at |-> cia + index, insn |-> Read(memory, cia + index)]
  BY <1>3 DEF NativeInstruction
<1>5. GoOn => cia' + index' = cia + index + 1
  BY <1>2 DEF GoOn, Leave
<1>6. \A n, next \in Nat : Leave(n, next) => cia' + index' = next
  BY DEF Leave
<1> HIDE DEF insn
<1>7. CASE insn = "plain" /\ GoOn /\ UNCHANGED memoryVars
  BY <1>1, <1>2, <1>3, <1>4, <1>5, <1>7, SameMemory DEF Execution!Execute, memoryVars
<1>8. CASE insn = "branch" /\ (\E target \in Targets : Leave(index + 1, target))
           /\ UNCHANGED memoryVars
  <2>1. cia' + index' \in Targets
    BY <1>2, <1>6, <1>8, Addresses
  <2> QED BY <1>1, <1>2, <1>3, <1>4, <1>8, <2>1, SameMemory
          DEF Execution!Execute, memoryVars
<1>9. CASE insn \in {"store", "dcbz"} /\ WriteSomething
           /\ (GoOn \/ Leave(index + 1, cia + index + 1))
  <2>1. cia' + index' = cia + index + 1
    BY <1>2, <1>5, <1>6, <1>9
  <2> QED BY <1>1, <1>2, <1>3, <1>4, <1>9, <2>1, WritesAreStores, SameMemory
       DEF Execution!Execute
<1> QED BY <1>7, <1>8, <1>9 DEF NativeInstruction, insn, WriteSomething

LEMMA InterpreterExecutes ==
  ExecutionInv /\ InterpretedInstruction => Execution!Execute
<1> SUFFICES ASSUME ExecutionInv, InterpretedInstruction PROVE Execution!Execute
  OBVIOUS
<1>1. mode = "interpret" /\ stopped = "no" /\ stopped' = "no" /\ index = 0
      /\ cia \in Mapped /\ cia \in Nat
  BY Addresses DEF InterpretedInstruction, ExecutionInv, Alive, BlocksInv, Idle, TypeOK
<1>2. cia + index = cia
  BY <1>1
<1>3. executed' = [at |-> cia + index, insn |-> Read(memory, cia + index)]
  BY <1>2 DEF InterpretedInstruction
<1>4. \A next \in Nat : Leave(1, next) => cia' + index' = next
  BY DEF Leave
<1>5. CASE Read(memory, cia) \in {"plain", "foreign"} /\ Leave(1, cia + 1)
           /\ UNCHANGED memoryVars
  BY <1>1, <1>2, <1>3, <1>4, <1>5, SameMemory DEF Execution!Execute, memoryVars
<1>6. CASE Read(memory, cia) = "branch" /\ (\E target \in Targets : Leave(1, target))
           /\ UNCHANGED memoryVars
  <2>1. cia' + index' \in Targets
    BY <1>4, <1>6, Addresses
  <2> QED BY <1>1, <1>2, <1>3, <1>6, <2>1, SameMemory
          DEF Execution!Execute, memoryVars
<1>7. CASE Read(memory, cia) \in StoreInsns /\ WriteSomething /\ Leave(1, cia + 1)
  BY <1>1, <1>2, <1>3, <1>4, <1>7, WritesAreStores, SameMemory
       DEF Execution!Execute, StoreInsns
<1> QED BY <1>5, <1>6, <1>7 DEF InterpretedInstruction

LEMMA FaultsAreFaults ==
  ExecutionInv /\ (StoreFault \/ Unsupported \/ FetchFault) => Execution!Fault
<1> SUFFICES ASSUME ExecutionInv, StoreFault \/ Unsupported \/ FetchFault
             PROVE  Execution!Fault
  OBVIOUS
<1>1. CASE StoreFault \/ Unsupported
  <2>1. mode \in {"native", "interpret"} /\ stopped = "no" /\ memory' = memory /\ executed' = executed
        /\ cia' = cia + index /\ index' = 0
    BY <1>1 DEF StoreFault, Unsupported, Trap, Leave, memoryVars, ExecutionInv, Alive
  <2>2. cia \in Nat /\ index \in Nat
    BY DEF ExecutionInv, BlocksInv, TypeOK
  <2>3. cia' + index' = cia + index
    BY <2>1, <2>2
  <2>4. CASE mode = "native"
    <3>1. cia + index \in Mapped /\ index + 1 \in DOMAIN Words
      BY <2>4, RunningBlock DEF ExecutionInv
    <3>2. Words[index + 1] = Read(memory, cia + (index + 1) - 1)
      BY <2>2, <2>4, <3>1 DEF ExecutionInv, RunsAhead
    <3>3. Words[index + 1] = Read(memory, cia + index)
      BY <2>2, <3>2
    <3> QED BY <1>1, <2>1, <2>3, <2>4, <3>1, <3>3, SameMemory
           DEF StoreFault, Unsupported, Trap, StoreInsns, Execution!Fault
  <2>5. CASE mode = "interpret"
    <3>1. cia + index = cia /\ cia \in Mapped
      BY <2>2, <2>5 DEF ExecutionInv, BlocksInv, Idle, TypeOK
    <3> QED BY <1>1, <2>1, <2>3, <2>5, <3>1, SameMemory
           DEF StoreFault, Unsupported, Trap, StoreInsns, Execution!Fault
  <2> QED BY <2>1, <2>4, <2>5
<1>2. CASE FetchFault
  <2>1. mode = "dispatch" /\ index = 0 /\ cia \in Nat
    BY <1>2 DEF FetchFault, Dispatching, ExecutionInv, BlocksInv, Idle, TypeOK
  <2>2. cia + index = cia /\ cia' = cia /\ index' = index
    BY <1>2, <2>1 DEF FetchFault
  <2> QED BY <1>2, <2>2, SameMemory
          DEF FetchFault, Dispatching, memoryVars, Execution!Fault
<1> QED BY <1>1, <1>2

LEMMA CallsAreCalls == ExecutionInv /\ HleCall => Execution!Call
<1> SUFFICES ASSUME ExecutionInv, HleCall PROVE Execution!Call
  OBVIOUS
<1>1. mode = "dispatch" /\ index = 0 /\ cia = Import /\ stopped = "no"
      /\ stopped' = stopped /\ executed' = executed
  BY DEF HleCall, Dispatching, ExecutionInv, BlocksInv, Idle
<1>2. cia + index = Import
  BY <1>1, Addresses
<1>3. WriteSomething \/ memory' = memory
  BY DEF HleCall, memoryVars
<1>4. cia' + index' \in Targets
  BY Addresses DEF HleCall, Leave
<1> QED BY <1>1, <1>2, <1>3, <1>4, WritesAreStores, SameMemory
        DEF Execution!Call

LEMMA CallErrorsAreErrors == ExecutionInv /\ HleError => Execution!CallError
<1> SUFFICES ASSUME ExecutionInv, HleError PROVE Execution!CallError
  OBVIOUS
<1>1. index = 0 /\ cia = Import /\ stopped = "no" /\ stopped' = "hle_error"
      /\ executed' = executed /\ index' = index /\ cia' = cia
  BY DEF HleError, Dispatching, ExecutionInv, BlocksInv, Idle
<1>2. cia + index = Import /\ cia' + index' = cia + index
  BY <1>1, Addresses
<1>3. WriteSomething \/ memory' = memory
  BY DEF HleError, memoryVars
<1> QED BY <1>1, <1>2, <1>3, WritesAreStores DEF Execution!CallError

\* Native code, the interpreter and the switching between them execute the
\* guest's program as memory holds it, instruction by instruction, when nothing
\* is aliased (run in recompiler.cpp).
THEOREM JitImplementsExecution ==
  ASSUME AliasSize = 0
  PROVE  Spec => ImplementsExecution
<1>1. Init => Execution!Init
  <2> SUFFICES ASSUME Init PROVE Execution!Init
    OBVIOUS
  <2>1. cia \in Mapped /\ index = 0 /\ cia + index = cia
    BY Addresses DEF Init
  <2> QED BY <2>1, SameMemory DEF Init, Execution!Init, NoInstruction, Execution!NoInstruction
<1>2. ExecutionInv /\ [Next]_vars => [Execution!Next]_(Execution!vars)
  <2> SUFFICES ASSUME ExecutionInv, [Next]_vars
               PROVE  Execution!Next \/ UNCHANGED Execution!vars
    OBVIOUS
  <2>1. CASE UNCHANGED vars
    BY <2>1 DEF vars, memoryVars, Execution!vars
  <2>2. CASE Next
    BY <2>2, LookupsStutter, NativeExecutes, InterpreterExecutes, FaultsAreFaults,
       CallsAreCalls, CallErrorsAreErrors DEF Next, Execution!Next, ExecutionInv
  <2> QED BY <2>1, <2>2
<1> QED BY <1>1, <1>2, ExecutionAlways, PTL
        DEF Spec, ImplementsExecution, Execution!Spec
=============================================================================
