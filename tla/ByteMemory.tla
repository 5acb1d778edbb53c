----------------------------- MODULE ByteMemory -----------------------------
(***************************************************************************)
(* Guest memory (guest_memory.hpp) at the granularity of bytes: flat       *)
(* memory, mapped regions, aliases of flat memory, and the diagnostic      *)
(* watchpoint that records every write to a range.  A memory m is a record *)
(*   bytes   [location -> byte], on the locations that have storage,       *)
(*   watch   {} or {<<address, width>>},                                   *)
(*   writer  current_guest_cia_, and events, the writes recorded.          *)
(* A word has four bytes of ByteBits bits each (GuestWord).                *)
(***************************************************************************)
EXTENDS GuestWord, Sequences

CONSTANTS
  FlatSize,       \* bytes of flat memory, from address 0
  Regions,        \* {<<address, size>>}: map_region
  Aliases,        \* {<<address, target, size>>}: map_alias
  EventCapacity   \* write_watch_event_capacity, 256 in the code

RegionBytes(r) == r[1] .. (r[1] + r[2] - 1)
AliasBytes(a)  == a[1] .. (a[1] + a[3] - 1)

\* What map_region and map_alias refuse: ranges beyond the address space or overlapping
\* another, and targets outside flat memory.
ASSUME ByteMemoryAssumption ==
  /\ FlatSize \in 1..Modulus
  /\ EventCapacity \in Nat \ {0}
  /\ \A r \in Regions : /\ r[1] \in Words /\ r[2] \in Nat
                        /\ RegionBytes(r) \subseteq FlatSize .. AllOnes
  /\ \A a \in Aliases : /\ a[1] \in Words /\ a[2] \in Nat /\ a[3] \in Nat
                        /\ AliasBytes(a) \subseteq FlatSize .. AllOnes
                        /\ a[2] + a[3] <= FlatSize
  /\ \A r \in Regions, q \in Regions : r # q => RegionBytes(r) \cap RegionBytes(q) = {}
  /\ \A a \in Aliases, b \in Aliases : a # b => AliasBytes(a) \cap AliasBytes(b) = {}
  /\ \A a \in Aliases, r \in Regions : AliasBytes(a) \cap RegionBytes(r) = {}

ByteBase  == TwoTo[ByteBits]
Locations == (0 .. (FlatSize - 1)) \cup UNION {RegionBytes(r) : r \in Regions}
Addresses == Locations \cup UNION {AliasBytes(a) : a \in Aliases}

resolve_alias_address(address) ==
  IF \E a \in Aliases : address \in AliasBytes(a)
  THEN LET a == CHOOSE a \in Aliases : address \in AliasBytes(a) IN a[2] + (address - a[1])
  ELSE address

\* validate_access: the whole range has storage.
Accessible(address, width) ==
  width <= Modulus - address /\ address .. (address + width - 1) \subseteq Addresses

ReadBytes(m, address, width) ==
  [k \in 1..width |-> m.bytes[resolve_alias_address(address + k - 1)]]
\* Big-endian numbers.
Joined(bytes) ==
  LET value[k \in 0..Len(bytes)] == IF k = 0 THEN 0 ELSE value[k - 1] * ByteBase + bytes[k]
  IN  value[Len(bytes)]
Parted(value, width) == [k \in 1..width |-> (value \div TwoTo[ByteBits * (width - k)]) % ByteBase]
ReadValue(m, address, width) == Joined(ReadBytes(m, address, width))
Reversed(value, width) == Joined([k \in 1..width |-> Parted(value, width)[width + 1 - k]])

Overlapping(address, width, other, other_width) ==
  address < other + other_width /\ other < address + width
\* The event compares guest addresses, and keeps the registers and the value just written.
record_write_watch_event(m, gpr, address, width) ==
  IF \E w \in m.watch : Overlapping(address, width, w[1], w[2])
  THEN LET w == CHOOSE w \in m.watch : TRUE
           event == [writer |-> m.writer, address |-> address, width |-> width,
                     value |-> ReadValue(m, w[1], w[2]), gpr |-> gpr]
           kept == IF Len(m.events) = EventCapacity THEN Tail(m.events) ELSE m.events
       IN  [m EXCEPT !.events = Append(kept, event)]
  ELSE m
\* gpr is what the watchpoint's register source holds at the write.
WriteBytes(m, gpr, address, bytes) ==
  LET At(l) == {k \in 1..Len(bytes) : resolve_alias_address(address + k - 1) = l}
      after == [m EXCEPT !.bytes =
                  [l \in DOMAIN @ |-> IF At(l) = {} THEN @[l]
                                      ELSE bytes[CHOOSE k \in At(l) : \A j \in At(l) : j <= k]]]
  IN  record_write_watch_event(after, gpr, address, Len(bytes))
WriteValue(m, gpr, address, width, value) == WriteBytes(m, gpr, address, Parted(value, width))
\* The first registers of a stmw, one word after the other.
WriteWords(m, gpr, address, first, count) ==
  LET after[k \in 0..count] ==
        IF k = 0 THEN m
        ELSE WriteValue(after[k - 1], gpr, Unsigned(address + 4 * (k - 1)), 4, gpr[first + k - 1])
  IN  after[count]

set_current_guest_cia(m, cia) == IF m.watch = {} THEN m ELSE [m EXCEPT !.writer = cia]
=============================================================================
