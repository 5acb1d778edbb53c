---------------------------- MODULE GuestMemory ----------------------------
(***************************************************************************)
(* Guest memory (src/src/cpu/espresso/guest_memory.hpp) at the granularity *)
(* of instruction words: pages with bytes of their own, and one page-      *)
(* aligned alias, the MEM1 window, that shows some of them at a second     *)
(* address.  An address is a word number; a word holds an instruction.     *)
(***************************************************************************)
EXTENDS Integers, FiniteSets

CONSTANTS
  BackingPage,  \* the numbers of the pages of flat memory and mapped regions
  PageWords,    \* instruction words per page
  AliasBase,    \* the first page of the alias
  AliasTarget,  \* the page it shows
  AliasSize,    \* its size in pages, 0 when nothing is aliased
  Code,         \* the instructions guest code consists of
  MaxSpan       \* the most consecutive words one store touches

\* What the recompiler's decisions tell apart: "foreign" instructions are left
\* to the interpreter, "branch" stands for all that end a block, "dcbz" leaves
\* the block after its store.
Instructions == {"plain", "store", "dcbz", "branch", "foreign"}

AliasPage == AliasBase..(AliasBase + AliasSize - 1)

\* map_alias accepts page-aligned ranges only, whose target is inside memory and
\* which overlap neither memory nor their own target.
ASSUME MemoryAssumption ==
  /\ BackingPage \subseteq Nat
  /\ PageWords \in Nat \ {0}
  /\ AliasBase \in Nat
  /\ AliasTarget \in Nat
  /\ AliasSize \in Nat
  /\ AliasPage \cap BackingPage = {}
  /\ AliasTarget..(AliasTarget + AliasSize - 1) \subseteq BackingPage
  /\ Code \subseteq Instructions
  /\ MaxSpan \in Nat \ {0}

Page       == BackingPage \cup AliasPage
PageOf(a)  == a \div PageWords
Mapped     == UNION {(p * PageWords)..(p * PageWords + PageWords - 1) : p \in Page}
Memories   == [BackingPage -> [0..(PageWords - 1) -> Code]]

\* resolve_alias_address, for a page.
BackingOf(p) == IF p \in AliasPage THEN AliasTarget + (p - AliasBase) ELSE p

Read(mem, a) == mem[BackingOf(PageOf(a))][a % PageWords]

\* Memory after instruction v is stored in the words first to last.
Stored(mem, first, last, v) ==
  [q \in BackingPage |-> [o \in 0..(PageWords - 1) |->
     IF \E a \in first..last : BackingOf(PageOf(a)) = q /\ a % PageWords = o
     THEN v ELSE mem[q][o]]]

\* The word ranges a store may cover without a fault.
Storable == {r \in Mapped \X Mapped :
               r[1] <= r[2] /\ r[2] - r[1] < MaxSpan /\ r[1]..r[2] \subseteq Mapped}
=============================================================================
