----------------------- MODULE MemoryEngines_proofs -----------------------
(***************************************************************************)
(* The recompiler's loads, stores and cache instructions leave the same     *)
(* registers, memory, reservations and watch events as the interpreter's,   *)
(* for words of any width, any memory map and any program of the            *)
(* assumption.                                                              *)
(***************************************************************************)
EXTENDS MemoryEngines, FiniteSetTheorems, GuestWord_proofs

----------------------------------------------------------------------------
(* Bytes and the numbers they make.                                         *)

LEMMA ByteSizes ==
  /\ ByteBase \in Nat /\ ByteBase >= 2 /\ Bytes = 0 .. (ByteBase - 1) /\ 0 \in Bytes
  /\ TwoTo[ByteBits * 1] = ByteBase /\ TwoTo[ByteBits * 2] = TwoTo[HalfBits] /\ TwoTo[ByteBits * 4] = Modulus
  /\ HalfBits = ByteBits * 2 /\ WordBits = ByteBits * 4
<1>1. ByteBits \in Nat /\ ByteBits >= 1 /\ WordBits = 4 * ByteBits /\ WordBits = HalfBits + HalfBits /\ HalfBits \in Nat
  BY WordSizes
<1>2. ByteBits * 1 = ByteBits /\ ByteBits * 2 = HalfBits /\ ByteBits * 4 = WordBits
  BY <1>1
<1>3. TwoTo[ByteBits] \in Nat /\ TwoTo[ByteBits] > ByteBits
  BY <1>1, PowerStep, PowerOrder
<1>. QED BY <1>1, <1>2, <1>3 DEF ByteBase, Bytes, Modulus

\* The table Joined recurses through.
JoinedTable(f, bytes, n) ==
  f = [k \in 0..n |-> IF k = 0 THEN 0 ELSE f[k - 1] * ByteBase + bytes[k]]

LEMMA JoinedExists ==
  ASSUME NEW bytes
  PROVE  \A n \in Nat : \E f : JoinedTable(f, bytes, n)
<1>. DEFINE T == {n \in Nat : \E f : JoinedTable(f, bytes, n)}
<1>1. 0 \in T
  <2>. DEFINE f == [k \in 0..0 |-> 0]
  <2>1. JoinedTable(f, bytes, 0)
    BY DEF JoinedTable
  <2>. QED BY <2>1
<1>2. ASSUME NEW n \in Nat, n \in T PROVE n + 1 \in T
  <2>1. PICK f : JoinedTable(f, bytes, n)
    BY <1>2
  <2>. DEFINE E(h, k) == IF k = 0 THEN 0 ELSE h[k - 1] * ByteBase + bytes[k]
              g == [k \in 0..(n + 1) |-> IF k = n + 1 THEN f[n] * ByteBase + bytes[n + 1] ELSE f[k]]
  <2>2. \A k \in 0..n : f[k] = E(f, k)
    BY <2>1 DEF JoinedTable
  <2>3. \A k \in 0..n : g[k] = f[k]
    BY <1>2
  <2>4. g[n + 1] = f[n] * ByteBase + bytes[n + 1]
    BY <1>2
  <2>5. DOMAIN g = 0..(n + 1) /\ g = [k \in 0..(n + 1) |-> g[k]]
    OBVIOUS
  <2>. HIDE DEF g
  <2>6. \A k \in 0..(n + 1) : g[k] = E(g, k)
    <3>. TAKE k \in 0..(n + 1)
    <3>1. CASE k = n + 1
      <4>1. k - 1 = n /\ n \in 0..n /\ k # 0
        BY <3>1
      <4>. QED BY <3>1, <4>1, <2>3, <2>4
    <3>2. CASE k = 0
      BY <2>2, <2>3, <3>2
    <3>3. CASE k # n + 1 /\ k # 0
      <4>1. k \in 0..n /\ k - 1 \in 0..n
        BY <3>3
      <4>. QED BY <3>3, <4>1, <2>2, <2>3
    <3>. QED BY <3>1, <3>2, <3>3
  <2>7. JoinedTable(g, bytes, n + 1)
    <3>1. g = [k \in 0..(n + 1) |-> E(g, k)]
      BY <2>5, <2>6
    <3>. QED BY <3>1, Zenon DEF JoinedTable
  <2>. QED BY <2>7
<1>3. \A n \in Nat : n \in T
  <2>. HIDE DEF T
  <2>. QED BY <1>1, <1>2, Induction
<1>. QED BY <1>3

LEMMA RowsOf ==
  ASSUME NEW P \in Nat, NEW BB \in Nat, NEW v \in 0..(P - 1)
  PROVE  v * BB <= P * BB - BB /\ v * BB >= 0 /\ v * BB \in Int /\ P * BB \in Int
<1>. DEFINE d == P - 1 - v
<1>1. d \in Nat /\ P = v + d + 1
  OBVIOUS
<1>. HIDE DEF d
<1>2. P * BB = v * BB + d * BB + BB
  BY <1>1
<1>3. d * BB >= 0 /\ v * BB >= 0 /\ v * BB \in Int /\ d * BB \in Int /\ P * BB \in Int
  BY <1>1
<1>. QED BY <1>2, <1>3

\* A number of w bytes fits them.
LEMMA JoinedFits ==
  ASSUME NEW w \in Nat, NEW bytes \in [1..w -> Bytes]
  PROVE  Joined(bytes) \in 0 .. (TwoTo[ByteBits * w] - 1)
<1>. DEFINE value == CHOOSE f : JoinedTable(f, bytes, w)
<1>1. Len(bytes) = w
  OBVIOUS
<1>2. Joined(bytes) = value[w]
  BY <1>1, Zenon DEF Joined, JoinedTable
<1>3. JoinedTable(value, bytes, w)
  BY JoinedExists
<1>. HIDE DEF value
<1>. DEFINE BB == ByteBase
            T == {k \in Nat : k <= w => value[k] \in 0 .. (TwoTo[ByteBits * k] - 1)}
<1>4. BB \in Nat /\ BB = TwoTo[ByteBits] /\ ByteBits \in Nat /\ BB > 0 /\ Bytes = 0..(BB - 1)
  BY ByteSizes, WordSizes DEF ByteBase
<1>. HIDE DEF BB
<1>5. 0 \in T
  <2>1. ByteBits * 0 = 0 /\ TwoTo[0] = 1 /\ value[0] = 0
    BY <1>3, <1>4, PowerStep DEF JoinedTable
  <2>. QED BY <2>1
<1>6. ASSUME NEW k \in Nat, k \in T PROVE k + 1 \in T
  <2>1. SUFFICES ASSUME k + 1 <= w PROVE value[k + 1] \in 0 .. (TwoTo[ByteBits * (k + 1)] - 1)
    OBVIOUS
  <2>2. value[k] \in 0 .. (TwoTo[ByteBits * k] - 1)
    BY <1>6, <2>1
  <2>3. k + 1 \in 0..w /\ k + 1 # 0 /\ (k + 1) - 1 = k /\ k + 1 \in 1..w
    BY <2>1
  <2>4. value[k + 1] = value[k] * BB + bytes[k + 1]
    BY <1>3, <2>3 DEF JoinedTable, BB
  <2>5. bytes[k + 1] \in 0..(BB - 1)
    BY <2>3, <1>4
  <2>6. ByteBits * (k + 1) = (ByteBits * k) + ByteBits /\ ByteBits * k \in Nat
    BY <1>4
  <2>. DEFINE P == TwoTo[ByteBits * k]
              v == value[k]
              b == bytes[k + 1]
  <2>7. TwoTo[ByteBits * (k + 1)] = P * BB /\ P \in Nat
    BY <2>6, <1>4, PowerSum, PowerStep, ZenonT(30)
  <2>8. v \in 0..(P - 1) /\ b \in 0..(BB - 1)
    BY <2>2, <2>5
  <2>. HIDE DEF P, v, b
  <2>9. v * BB <= P * BB - BB /\ v * BB >= 0 /\ v * BB \in Int /\ P * BB \in Int
    BY <2>7, <2>8, <1>4, RowsOf
  <2>. DEFINE x == v * BB
              y == P * BB
  <2>10. x <= y - BB /\ x >= 0 /\ x \in Int /\ y \in Int
    BY <2>9
  <2>. HIDE DEF x, y
  <2>11. x + b \in 0 .. (y - 1)
    BY <2>8, <2>10, <1>4
  <2>. QED BY <2>4, <2>7, <2>11 DEF v, b, x, y
<1>7. w \in T
  <2>. HIDE DEF T
  <2>. QED BY <1>5, <1>6, Induction
<1>. QED BY <1>2, <1>7

\* The bytes of any number, and a number with its bytes reversed.
LEMMA PartedBytes ==
  ASSUME NEW value \in Int, NEW width \in Nat
  PROVE  Parted(value, width) \in [1..width -> Bytes] /\ Len(Parted(value, width)) = width
<1>1. \A k \in 1..width : (value \div TwoTo[ByteBits * (width - k)]) % ByteBase \in Bytes
  <2>. TAKE k \in 1..width
  <2>. DEFINE e == ByteBits * (width - k)
              p == TwoTo[e]
  <2>1. ByteBits \in Nat /\ width - k \in Nat
    BY WordSizes
  <2>2. e \in Nat
    BY <2>1
  <2>. HIDE DEF e
  <2>3. p \in Nat /\ p > 0
    BY <2>2, PowerStep
  <2>. HIDE DEF p
  <2>. DEFINE q == value \div p
  <2>4. q \in Int
    BY <2>3, DivMod
  <2>. HIDE DEF q
  <2>5. q % ByteBase \in Bytes
    BY <2>4, ByteSizes, DivMod
  <2>. QED BY <2>5 DEF q, p, e
<1>. DEFINE f == [k \in 1..width |-> (value \div TwoTo[ByteBits * (width - k)]) % ByteBase]
<1>2. f \in [1..width -> Bytes]
  BY <1>1
<1>. HIDE DEF f
<1>3. Len(f) = width
  BY <1>2
<1>4. Parted(value, width) = f
  BY Zenon DEF Parted, f
<1>. QED BY <1>2, <1>3, <1>4

LEMMA ReversedFits ==
  ASSUME NEW value \in Int, NEW width \in Nat
  PROVE  Reversed(value, width) \in 0 .. (TwoTo[ByteBits * width] - 1)
<1>. DEFINE p == Parted(value, width)
            r == [k \in 1..width |-> p[width + 1 - k]]
<1>1. p \in [1..width -> Bytes]
  BY PartedBytes
<1>2. \A k \in 1..width : width + 1 - k \in 1..width
  OBVIOUS
<1>. HIDE DEF p
<1>3. r \in [1..width -> Bytes]
  BY <1>1, <1>2
<1>4. Reversed(value, width) = Joined(r)
  BY Zenon DEF Reversed, p
<1>. HIDE DEF r
<1>. QED BY <1>3, <1>4, JoinedFits

----------------------------------------------------------------------------
(* Memory: where an address lies, what a read returns, what a write leaves. *)

LEMMA AliasTarget ==
  ASSUME NEW l \in Addresses
  PROVE  resolve_alias_address(l) \in Locations
<1>0. FlatSize \in Nat
  BY ByteMemoryAssumption, WordSizes
<1>1. CASE \E a \in Aliases : l \in AliasBytes(a)
  <2>. DEFINE a == CHOOSE b \in Aliases : l \in AliasBytes(b)
  <2>1. a \in Aliases /\ l \in AliasBytes(a)
    BY <1>1
  <2>2. resolve_alias_address(l) = a[2] + (l - a[1])
    BY <1>1, Zenon DEF resolve_alias_address
  <2>. HIDE DEF a
  <2>3. a[1] \in Words /\ a[2] \in Nat /\ a[3] \in Nat /\ a[2] + a[3] <= FlatSize
    BY <2>1, ByteMemoryAssumption
  <2>4. a[1] \in Int /\ l \in a[1] .. (a[1] + a[3] - 1)
    BY <2>1, <2>3, WordRange DEF AliasBytes
  <2>. DEFINE x == a[1]
              y == a[2]
              z == a[3]
  <2>5. x \in Int /\ y \in Nat /\ z \in Nat /\ y + z <= FlatSize /\ l \in x .. (x + z - 1)
    BY <2>3, <2>4
  <2>. HIDE DEF x, y, z
  <2>6. y + (l - x) \in 0 .. (FlatSize - 1)
    BY <2>5, <1>0
  <2>. QED BY <2>2, <2>6 DEF Locations, x, y
<1>2. CASE ~\E a \in Aliases : l \in AliasBytes(a)
  <2>1. resolve_alias_address(l) = l
    BY <1>2 DEF resolve_alias_address
  <2>2. l \in Locations
    BY <1>2 DEF Addresses
  <2>. QED BY <2>1, <2>2
<1>. QED BY <1>1, <1>2

LEMMA AddressesAreWords == Addresses \subseteq Words
<1>1. FlatSize \in Nat /\ FlatSize >= 1 /\ FlatSize <= Modulus /\ Modulus \in Nat /\ AllOnes = Modulus - 1
  BY ByteMemoryAssumption, WordSizes, WordRange
<1>2. 0 .. (FlatSize - 1) \subseteq Words /\ FlatSize .. AllOnes \subseteq Words
  BY <1>1, WordRange
<1>3. \A r \in Regions : RegionBytes(r) \subseteq Words
  BY <1>2, ByteMemoryAssumption
<1>4. \A a \in Aliases : AliasBytes(a) \subseteq Words
  BY <1>2, ByteMemoryAssumption
<1>5. Locations \subseteq Words
  BY <1>2, <1>3 DEF Locations
<1>. QED BY <1>4, <1>5 DEF Addresses

LEMMA ResolvedWord ==
  ASSUME NEW a \in Words
  PROVE  Accessible(a, 1) => resolve_alias_address(a) \in Words
<1>1. SUFFICES ASSUME Accessible(a, 1) PROVE resolve_alias_address(a) \in Words
  OBVIOUS
<1>2. a \in Int /\ a \in a .. (a + 1 - 1)
  BY WordRange
<1>3. a \in Addresses
  BY <1>1, <1>2 DEF Accessible
<1>. QED BY <1>3, AliasTarget, AddressesAreWords DEF Addresses

\* An access of several bytes takes its first, and any shorter part of it.
LEMMA PartAccessible ==
  ASSUME NEW a \in Words, NEW width \in Nat, Accessible(a, width)
  PROVE  /\ \A v \in Nat : v <= width => Accessible(a, v)
         /\ \A k \in 1..width : a + k - 1 \in Addresses
         /\ \A v \in Nat, w \in Nat :
              w # 0 /\ v + w <= width => Unsigned(a + v) = a + v /\ a + v \in Words /\ Accessible(a + v, w)
<1>0. a \in Int /\ a >= 0 /\ a < Modulus /\ Modulus \in Nat
  BY WordRange, WordSizes
<1>1. width <= Modulus - a /\ a .. (a + width - 1) \subseteq Addresses
  BY DEF Accessible
<1>2. ASSUME NEW v \in Nat, v <= width PROVE Accessible(a, v)
  <2>1. v <= Modulus - a /\ a .. (a + v - 1) \subseteq a .. (a + width - 1)
    BY <1>0, <1>1, <1>2
  <2>. QED BY <1>1, <2>1 DEF Accessible
<1>3. ASSUME NEW k \in 1..width PROVE a + k - 1 \in Addresses
  <2>1. a + k - 1 \in a .. (a + width - 1)
    BY <1>0, <1>3
  <2>. QED BY <1>1, <2>1
<1>4. ASSUME NEW v \in Nat, NEW w \in Nat, w # 0, v + w <= width
      PROVE  Unsigned(a + v) = a + v /\ a + v \in Words /\ Accessible(a + v, w)
  <2>1. a + v \in Int /\ 0 <= a + v /\ a + v < Modulus
    BY <1>0, <1>1, <1>4
  <2>2. Unsigned(a + v) = a + v /\ a + v \in Words
    BY <2>1, UnsignedNear, WordRange
  <2>3. w <= Modulus - (a + v) /\ (a + v) .. ((a + v) + w - 1) \subseteq a .. (a + width - 1)
    BY <1>0, <1>1, <1>4
  <2>4. Accessible(a + v, w)
    BY <1>1, <2>3 DEF Accessible
  <2>. QED BY <2>2, <2>4
<1>. QED BY <1>2, <1>3, <1>4

LEMMA ReadBytesAre ==
  ASSUME NEW m, IsMemory(m), NEW a \in Words, NEW width \in Nat, Accessible(a, width)
  PROVE  ReadBytes(m, a, width) \in [1..width -> Bytes]
<1>1. \A k \in 1..width : resolve_alias_address(a + k - 1) \in Locations
  BY PartAccessible, AliasTarget
<1>2. m.bytes \in [Locations -> Bytes]
  BY DEF IsMemory
<1>3. \A k \in 1..width : m.bytes[resolve_alias_address(a + k - 1)] \in Bytes
  BY <1>1, <1>2
<1>. QED BY <1>3 DEF ReadBytes

LEMMA ReadFits ==
  ASSUME NEW m, IsMemory(m), NEW a \in Words, NEW width \in Nat, Accessible(a, width)
  PROVE  ReadValue(m, a, width) \in 0 .. (TwoTo[ByteBits * width] - 1)
BY ReadBytesAre, JoinedFits, Zenon DEF ReadValue

\* The widths of the integer accesses.
LEMMA ReadWidths ==
  ASSUME NEW m, IsMemory(m), NEW a \in Words
  PROVE  /\ Accessible(a, 1) => ReadValue(m, a, 1) \in Bytes
         /\ Accessible(a, 2) => ReadValue(m, a, 2) \in 0 .. (TwoTo[HalfBits] - 1)
         /\ Accessible(a, 4) => ReadValue(m, a, 4) \in Words
         /\ Accessible(a, 8) => ReadValue(m, a, 8) \in Nat
<1>1. Accessible(a, 1) => ReadValue(m, a, 1) \in 0 .. (TwoTo[ByteBits * 1] - 1)
  BY ReadFits
<1>2. Accessible(a, 2) => ReadValue(m, a, 2) \in 0 .. (TwoTo[ByteBits * 2] - 1)
  BY ReadFits
<1>3. Accessible(a, 4) => ReadValue(m, a, 4) \in 0 .. (TwoTo[ByteBits * 4] - 1)
  BY ReadFits
<1>4. Accessible(a, 8) => ReadValue(m, a, 8) \in 0 .. (TwoTo[ByteBits * 8] - 1)
  BY ReadFits
<1>. QED BY <1>1, <1>2, <1>3, <1>4, ByteSizes DEF Words

LEMMA HalfAndByteWords ==
  0 .. (TwoTo[HalfBits] - 1) \subseteq Words /\ Bytes \subseteq Words /\ Bytes \subseteq 0 .. (TwoTo[HalfBits] - 1)
<1>1. ByteBits \in Nat /\ HalfBits \in Nat /\ WordBits \in Nat /\ ByteBits <= HalfBits /\ HalfBits <= WordBits
  BY WordSizes
<1>2. TwoTo[ByteBits] <= TwoTo[HalfBits] /\ TwoTo[HalfBits] <= TwoTo[WordBits]
  BY <1>1, PowerOrder
<1>3. TwoTo[ByteBits] \in Nat /\ TwoTo[HalfBits] \in Nat /\ TwoTo[WordBits] \in Nat
  BY <1>1, PowerStep
<1>. QED BY <1>2, <1>3 DEF Bytes, ByteBase, Words, Modulus

\* In flat memory an address is its own location.
LEMMA FlatReadIs ==
  ASSUME NEW n, IsMemory(n.memory), NEW a \in Words, NEW width \in Nat, Flat(a, width)
  PROVE  Accessible(a, width) /\ FlatRead(n, a, width) = ReadValue(n.memory, a, width)
<1>0. a \in Int /\ a >= 0 /\ FlatSize \in Nat /\ FlatSize <= Modulus /\ Modulus \in Nat /\ a + width <= FlatSize
  BY WordRange, WordSizes, ByteMemoryAssumption DEF Flat
<1>1. \A k \in 1..width : a + k - 1 \in 0 .. (FlatSize - 1)
  BY <1>0
<1>2. a .. (a + width - 1) \subseteq 0 .. (FlatSize - 1) /\ width <= Modulus - a
  BY <1>0
<1>3. Accessible(a, width)
  BY <1>2 DEF Accessible, Addresses, Locations
<1>4. ASSUME NEW l \in 0 .. (FlatSize - 1) PROVE resolve_alias_address(l) = l
  <2>1. \A b \in Aliases : l \notin AliasBytes(b)
    <3>. TAKE b \in Aliases
    <3>1. AliasBytes(b) \subseteq FlatSize .. AllOnes
      BY ByteMemoryAssumption
    <3>2. l \notin FlatSize .. AllOnes
      BY <1>0, <1>4
    <3>. QED BY <3>1, <3>2
  <2>. QED BY <2>1 DEF resolve_alias_address
<1>5. \A k \in 1..width : n.memory.bytes[resolve_alias_address(a + k - 1)] = n.memory.bytes[a + k - 1]
  BY <1>1, <1>4
<1>6. ReadBytes(n.memory, a, width) = [k \in 1..width |-> n.memory.bytes[a + k - 1]]
  BY <1>5 DEF ReadBytes
<1>7. FlatRead(n, a, width) = ReadValue(n.memory, a, width)
  BY <1>6, Zenon DEF FlatRead, ReadValue
<1>. QED BY <1>3, <1>7

LEMMA LastOf ==
  ASSUME NEW n \in Nat, NEW S \in SUBSET (1..n), S # {}
  PROVE  \E k \in S : \A j \in S : j <= k
<1>. DEFINE T == {k \in Nat : \A P \in SUBSET (1..k) : P # {} => \E x \in P : \A y \in P : y <= x}
<1>1. 0 \in T
  <2>1. 1..0 = {}
    OBVIOUS
  <2>2. \A P \in SUBSET (1..0) : P = {}
    BY <2>1
  <2>. QED BY <2>2
<1>2. ASSUME NEW k \in Nat, k \in T PROVE k + 1 \in T
  <2>1. SUFFICES ASSUME NEW P \in SUBSET (1..(k + 1)), P # {} PROVE \E x \in P : \A y \in P : y <= x
    OBVIOUS
  <2>2. CASE k + 1 \in P
    <3>1. \A y \in P : y <= k + 1
      BY <2>1
    <3>. QED BY <2>2, <3>1
  <2>3. CASE k + 1 \notin P
    <3>1. P \in SUBSET (1..k)
      BY <2>1, <2>3
    <3>. QED BY <3>1, <2>1, <1>2
  <2>. QED BY <2>2, <2>3
<1>3. n \in T
  <2>. HIDE DEF T
  <2>. QED BY <1>1, <1>2, Induction
<1>. QED BY <1>3

\* The bytes a write leaves, and the memory with them.
Placed(bytes, a, new) ==
  LET At(l) == {k \in 1..Len(new) : resolve_alias_address(a + k - 1) = l} IN
  [l \in DOMAIN bytes |-> IF At(l) = {} THEN bytes[l]
                          ELSE new[CHOOSE k \in At(l) : \A j \in At(l) : j <= k]]

LEMMA PlacedBytes ==
  ASSUME NEW bytes \in [Locations -> Bytes], NEW a, NEW n \in Nat, NEW new \in [1..n -> Bytes]
  PROVE  Placed(bytes, a, new) \in [Locations -> Bytes]
<1>. DEFINE At(l) == {k \in 1..n : resolve_alias_address(a + k - 1) = l}
            f == [l \in DOMAIN bytes |-> IF At(l) = {} THEN bytes[l]
                                         ELSE new[CHOOSE k \in At(l) : \A j \in At(l) : j <= k]]
<1>1. Len(new) = n
  OBVIOUS
<1>2. Placed(bytes, a, new) = f
  BY <1>1 DEF Placed
<1>3. ASSUME NEW l \in Locations
      PROVE  (IF At(l) = {} THEN bytes[l] ELSE new[CHOOSE k \in At(l) : \A j \in At(l) : j <= k]) \in Bytes
  <2>. DEFINE S == At(l)
  <2>1. S \in SUBSET (1..n)
    OBVIOUS
  <2>. HIDE DEF S
  <2>2. CASE S = {}
    BY <2>2 DEF S
  <2>3. CASE S # {}
    <3>1. \E k \in S : \A j \in S : j <= k
      BY <2>1, <2>3, LastOf
    <3>2. (CHOOSE k \in S : \A j \in S : j <= k) \in S
      BY <3>1
    <3>3. new[CHOOSE k \in S : \A j \in S : j <= k] \in Bytes
      BY <2>1, <3>2
    <3>. QED BY <2>3, <3>3 DEF S
  <2>. QED BY <2>2, <2>3
<1>4. f \in [Locations -> Bytes]
  BY <1>3
<1>. QED BY <1>2, <1>4

\* The event a write is recorded as, over the bytes it leaves.
EventsAfter(m, gpr, a, width) ==
  LET w == CHOOSE w \in m.watch : TRUE
      event == [writer |-> m.writer, address |-> a, width |-> width,
                value |-> ReadValue(m, w[1], w[2]), gpr |-> gpr]
      kept == IF Len(m.events) = EventCapacity THEN Tail(m.events) ELSE m.events
  IN  IF \E v \in m.watch : Overlapping(a, width, v[1], v[2]) THEN Append(kept, event) ELSE m.events
Memory(bytes, watch, writer, events) ==
  [bytes |-> bytes, watch |-> watch, writer |-> writer, events |-> events]
WithBytes(m, a, new) == [m EXCEPT !.bytes = Placed(m.bytes, a, new)]

LEMMA MemoryEqual ==
  ASSUME NEW m, IsMemory(m)
  PROVE  m = Memory(m.bytes, m.watch, m.writer, m.events)
BY Zenon DEF IsMemory, Memory

LEMMA WithBytesIs ==
  ASSUME NEW m, IsMemory(m), NEW a, NEW n \in Nat, NEW new \in [1..n -> Bytes]
  PROVE  /\ WithBytes(m, a, new) = Memory(Placed(m.bytes, a, new), m.watch, m.writer, m.events)
         /\ IsMemory(WithBytes(m, a, new))
<1>. DEFINE p == Placed(m.bytes, a, new)
            k == Memory(p, m.watch, m.writer, m.events)
<1>1. p \in [Locations -> Bytes]
  BY PlacedBytes DEF IsMemory
<1>2. WithBytes(m, a, new) = [m EXCEPT !.bytes = p]
  BY Zenon DEF WithBytes
<1>. HIDE DEF p
<1>3. [m EXCEPT !.bytes = p] = k
  BY MemoryEqual DEF Memory
<1>4. k.bytes = p /\ k.watch = m.watch /\ k.writer = m.writer /\ k.events = m.events
  BY DEF Memory
<1>. HIDE DEF k
<1>5. k = [bytes |-> k.bytes, watch |-> k.watch, writer |-> k.writer, events |-> k.events]
  BY <1>4 DEF k, Memory
<1>6. IsMemory(k)
  BY <1>1, <1>4, <1>5 DEF IsMemory
<1>. QED BY <1>2, <1>3, <1>6 DEF k, p

LEMMA RecordIs ==
  ASSUME NEW m, IsMemory(m), NEW gpr, NEW a, NEW width
  PROVE  /\ record_write_watch_event(m, gpr, a, width)
              = Memory(m.bytes, m.watch, m.writer, EventsAfter(m, gpr, a, width))
         /\ IsMemory(record_write_watch_event(m, gpr, a, width))
<1>. DEFINE e == EventsAfter(m, gpr, a, width)
            k == Memory(m.bytes, m.watch, m.writer, e)
            r == record_write_watch_event(m, gpr, a, width)
<1>1. r = IF \E w \in m.watch : Overlapping(a, width, w[1], w[2]) THEN [m EXCEPT !.events = e] ELSE m
  BY Zenon DEF record_write_watch_event, EventsAfter
<1>2. ~(\E w \in m.watch : Overlapping(a, width, w[1], w[2])) => e = m.events
  BY DEF EventsAfter
<1>. HIDE DEF e, r
<1>3. [m EXCEPT !.events = e] = k
  BY MemoryEqual DEF Memory
<1>4. r = k
  BY <1>1, <1>2, <1>3, MemoryEqual
<1>5. k.bytes = m.bytes /\ k.watch = m.watch /\ k.writer = m.writer /\ k.events = e
  BY DEF Memory
<1>6. k = [bytes |-> k.bytes, watch |-> k.watch, writer |-> k.writer, events |-> k.events]
  BY <1>5 DEF k, Memory
<1>. HIDE DEF k
<1>7. IsMemory(k)
  BY <1>5, <1>6 DEF IsMemory
<1>. QED BY <1>4, <1>7 DEF r, e, k

LEMMA WriteBytesIs ==
  ASSUME NEW m, IsMemory(m), NEW gpr, NEW a, NEW n \in Nat, NEW new \in [1..n -> Bytes]
  PROVE  LET w == WriteBytes(m, gpr, a, new)
             k == WithBytes(m, a, new)
         IN  /\ IsMemory(w) /\ w.watch = m.watch /\ w.writer = m.writer
             /\ w.bytes = Placed(m.bytes, a, new)
             /\ w = Memory(k.bytes, m.watch, m.writer, EventsAfter(k, gpr, a, n))
<1>. DEFINE w == WriteBytes(m, gpr, a, new)
            k == WithBytes(m, a, new)
            e == EventsAfter(k, gpr, a, n)
<1>1. Len(new) = n
  OBVIOUS
<1>2. w = record_write_watch_event(k, gpr, a, n)
  BY <1>1, Zenon DEF WriteBytes, WithBytes, Placed
<1>3. k = Memory(Placed(m.bytes, a, new), m.watch, m.writer, m.events) /\ IsMemory(k)
  BY WithBytesIs
<1>. HIDE DEF k, w
<1>4. w = Memory(k.bytes, k.watch, k.writer, e) /\ IsMemory(w)
  BY <1>2, <1>3, RecordIs
<1>. HIDE DEF e
<1>5. k.bytes = Placed(m.bytes, a, new) /\ k.watch = m.watch /\ k.writer = m.writer
  BY <1>3 DEF Memory
<1>6. w.bytes = k.bytes /\ w.watch = k.watch /\ w.writer = k.writer
  BY <1>4 DEF Memory
<1>. QED BY <1>4, <1>5, <1>6 DEF w, k, e

LEMMA WriteBytesForm ==
  ASSUME NEW m, IsMemory(m), NEW gpr, NEW a, NEW n \in Nat, NEW new \in [1..n -> Bytes]
  PROVE  WriteBytes(m, gpr, a, new)
           = Memory(WithBytes(m, a, new).bytes, m.watch, m.writer, EventsAfter(WithBytes(m, a, new), gpr, a, n))
BY WriteBytesIs, Zenon

\* Without a watchpoint the registers at a write are not kept.
LEMMA UnwatchedWrite ==
  ASSUME NEW m, IsMemory(m), m.watch = {}, NEW g, NEW h, NEW a, NEW n \in Nat, NEW new \in [1..n -> Bytes]
  PROVE  WriteBytes(m, g, a, new) = WriteBytes(m, h, a, new)
<1>. DEFINE k == WithBytes(m, a, new)
<1>1. k = Memory(Placed(m.bytes, a, new), m.watch, m.writer, m.events)
  BY WithBytesIs
<1>. HIDE DEF k
<1>2. k.watch = {}
  BY <1>1 DEF Memory
<1>3. EventsAfter(k, g, a, n) = k.events /\ EventsAfter(k, h, a, n) = k.events
  BY <1>2 DEF EventsAfter
<1>4. WriteBytes(m, g, a, new) = Memory(k.bytes, m.watch, m.writer, EventsAfter(k, g, a, n))
  BY WriteBytesForm, ZenonT(30) DEF k
<1>5. WriteBytes(m, h, a, new) = Memory(k.bytes, m.watch, m.writer, EventsAfter(k, h, a, n))
  BY WriteBytesForm, ZenonT(30) DEF k
<1>. QED BY <1>3, <1>4, <1>5

LEMMA WriteValueIs ==
  ASSUME NEW m, IsMemory(m), NEW g, NEW a, NEW width \in Nat, NEW value \in Int
  PROVE  LET w == WriteValue(m, g, a, width, value) IN
         /\ IsMemory(w) /\ w.watch = m.watch /\ w.writer = m.writer
         /\ m.watch = {} => \A h : WriteValue(m, h, a, width, value) = w
<1>. DEFINE p == Parted(value, width)
            w == WriteValue(m, g, a, width, value)
<1>1. p \in [1..width -> Bytes]
  BY PartedBytes
<1>2. \A h : WriteValue(m, h, a, width, value) = WriteBytes(m, h, a, p)
  BY Zenon DEF WriteValue
<1>. HIDE DEF p
<1>3. IsMemory(w) /\ w.watch = m.watch /\ w.writer = m.writer
  BY <1>1, <1>2, WriteBytesIs
<1>4. ASSUME m.watch = {}, NEW h PROVE WriteValue(m, h, a, width, value) = w
  BY <1>1, <1>2, <1>4, UnwatchedWrite
<1>. QED BY <1>3, <1>4

\* The table WriteWords recurses through.
WordsTable(f, m, gpr, a, first, n) ==
  f = [k \in 0..n |-> IF k = 0 THEN m
                      ELSE WriteValue(f[k - 1], gpr, Unsigned(a + 4 * (k - 1)), 4, gpr[first + k - 1])]

LEMMA WordsTableExists ==
  ASSUME NEW m, NEW gpr, NEW a, NEW first
  PROVE  \A n \in Nat : \E f : WordsTable(f, m, gpr, a, first, n)
<1>. DEFINE T == {n \in Nat : \E f : WordsTable(f, m, gpr, a, first, n)}
            WordPut(before, k) == WriteValue(before, gpr, Unsigned(a + 4 * (k - 1)), 4, gpr[first + k - 1])
<1>1. 0 \in T
  <2>. DEFINE f == [k \in 0..0 |-> m]
  <2>1. f = [k \in 0..0 |-> IF k = 0 THEN m ELSE WordPut(f[k - 1], k)]
    OBVIOUS
  <2>2. WordsTable(f, m, gpr, a, first, 0)
    BY <2>1, Zenon DEF WordsTable
  <2>. QED BY <2>2
<1>2. ASSUME NEW n \in Nat, n \in T PROVE n + 1 \in T
  <2>1. PICK f : WordsTable(f, m, gpr, a, first, n)
    BY <1>2
  <2>. DEFINE E(h, k) == IF k = 0 THEN m ELSE WordPut(h[k - 1], k)
              g == [k \in 0..(n + 1) |-> IF k = n + 1 THEN WordPut(f[n], n + 1) ELSE f[k]]
  <2>2. \A k \in 0..n : f[k] = E(f, k)
    <3>1. f = [k \in 0..n |-> E(f, k)]
      BY <2>1, Zenon DEF WordsTable
    <3>. HIDE DEF E
    <3>. QED BY <3>1
  <2>3. \A k \in 0..n : g[k] = f[k]
    BY <1>2
  <2>4. g[n + 1] = WordPut(f[n], n + 1)
    BY <1>2
  <2>5. DOMAIN g = 0..(n + 1) /\ g = [k \in 0..(n + 1) |-> g[k]]
    OBVIOUS
  <2>. HIDE DEF g, WordPut
  <2>6. \A k \in 0..(n + 1) : g[k] = E(g, k)
    <3>. TAKE k \in 0..(n + 1)
    <3>1. CASE k = n + 1
      <4>1. k - 1 = n /\ n \in 0..n /\ k # 0
        BY <3>1
      <4>. QED BY <3>1, <4>1, <2>3, <2>4
    <3>2. CASE k = 0
      <4>1. 0 \in 0..n
        OBVIOUS
      <4>. QED BY <4>1, <2>2, <2>3, <3>2
    <3>3. CASE k # n + 1 /\ k # 0
      <4>1. k \in 0..n /\ k - 1 \in 0..n
        BY <3>3
      <4>. QED BY <3>3, <4>1, <2>2, <2>3
    <3>. QED BY <3>1, <3>2, <3>3
  <2>7. WordsTable(g, m, gpr, a, first, n + 1)
    <3>1. g = [k \in 0..(n + 1) |-> E(g, k)]
      BY <2>5, <2>6
    <3>. QED BY <3>1, Zenon DEF WordsTable, WordPut
  <2>. QED BY <2>7
<1>3. \A n \in Nat : n \in T
  <2>. HIDE DEF T
  <2>. QED BY <1>1, <1>2, Induction
<1>. QED BY <1>3

LEMMA WriteWordsIs ==
  ASSUME NEW m, IsMemory(m), NEW g, NEW a \in Int, NEW first, NEW n \in Nat,
         \A k \in 1..n : g[first + k - 1] \in Int
  PROVE  LET w == WriteWords(m, g, a, first, n) IN
         IsMemory(w) /\ w.watch = m.watch /\ w.writer = m.writer
<1>. DEFINE f == CHOOSE f : WordsTable(f, m, g, a, first, n)
            Good(w) == IsMemory(w) /\ w.watch = m.watch /\ w.writer = m.writer
            T == {k \in Nat : k <= n => Good(f[k])}
<1>1. WriteWords(m, g, a, first, n) = f[n]
  BY Zenon DEF WriteWords, WordsTable
<1>2. WordsTable(f, m, g, a, first, n)
  BY WordsTableExists
<1>. HIDE DEF f
<1>. DEFINE WordPut(before, k) == WriteValue(before, g, Unsigned(a + 4 * (k - 1)), 4, g[first + k - 1])
<1>3. f = [k \in 0..n |-> IF k = 0 THEN m ELSE WordPut(f[k - 1], k)]
  BY <1>2, Zenon DEF WordsTable
<1>4. \A k \in 1..n : \A before : IsMemory(before) =>
        IsMemory(WordPut(before, k)) /\ WordPut(before, k).watch = before.watch /\ WordPut(before, k).writer = before.writer
  BY WriteValueIs
<1>. HIDE DEF WordPut
<1>5. 0 \in T
  BY <1>3
<1>6. ASSUME NEW k \in Nat, k \in T PROVE k + 1 \in T
  <2>1. SUFFICES ASSUME k + 1 <= n PROVE Good(f[k + 1])
    OBVIOUS
  <2>2. k + 1 \in 0..n /\ k + 1 \in 1..n /\ k + 1 # 0 /\ (k + 1) - 1 = k
    BY <2>1
  <2>3. f[k + 1] = WordPut(f[k], k + 1)
    BY <1>3, <2>2
  <2>4. Good(f[k])
    BY <1>6, <2>1
  <2>. QED BY <1>4, <2>2, <2>3, <2>4
<1>7. n \in T
  <2>. HIDE DEF T
  <2>. QED BY <1>5, <1>6, Induction
<1>. QED BY <1>1, <1>7

\* Memories that differ at most in the instruction the watchpoint was last told of; they are
\* the same once it is told again.
Near(m, k) ==
  /\ IsMemory(m) /\ IsMemory(k)
  /\ m.bytes = k.bytes /\ m.watch = k.watch /\ m.events = k.events
  /\ m.watch = {} => m.writer = k.writer

LEMMA AnnounceIs ==
  ASSUME NEW m, IsMemory(m), NEW a
  PROVE  LET k == set_current_guest_cia(m, a) IN
         /\ k = Memory(m.bytes, m.watch, IF m.watch = {} THEN m.writer ELSE a, m.events)
         /\ Near(m, k)
<1>. DEFINE x == IF m.watch = {} THEN m.writer ELSE a
            k == Memory(m.bytes, m.watch, x, m.events)
<1>1. m = Memory(m.bytes, m.watch, m.writer, m.events)
  BY MemoryEqual
<1>2. [m EXCEPT !.writer = a] = Memory(m.bytes, m.watch, a, m.events)
  BY <1>1 DEF Memory
<1>3. set_current_guest_cia(m, a) = k
  BY <1>1, <1>2 DEF set_current_guest_cia
<1>4. k.bytes = m.bytes /\ k.watch = m.watch /\ k.writer = x /\ k.events = m.events
  BY DEF Memory
<1>5. k = [bytes |-> k.bytes, watch |-> k.watch, writer |-> k.writer, events |-> k.events]
  BY <1>4 DEF k, Memory
<1>. HIDE DEF k
<1>6. IsMemory(k)
  BY <1>4, <1>5 DEF IsMemory
<1>7. Near(m, k)
  BY <1>4, <1>6 DEF Near
<1>. QED BY <1>3, <1>7 DEF k

LEMMA NearSame ==
  ASSUME NEW m, IsMemory(m)
  PROVE  Near(m, m)
BY DEF Near

LEMMA NearAnnounced ==
  ASSUME NEW m, NEW k, Near(m, k), NEW a
  PROVE  set_current_guest_cia(m, a) = set_current_guest_cia(k, a)
<1>1. IsMemory(m) /\ IsMemory(k) /\ m.bytes = k.bytes /\ m.watch = k.watch /\ m.events = k.events
        /\ (m.watch = {} => m.writer = k.writer)
  BY DEF Near
<1>2. /\ set_current_guest_cia(m, a) = Memory(m.bytes, m.watch, IF m.watch = {} THEN m.writer ELSE a, m.events)
      /\ set_current_guest_cia(k, a) = Memory(k.bytes, k.watch, IF k.watch = {} THEN k.writer ELSE a, k.events)
  BY <1>1, AnnounceIs
<1>. QED BY <1>1, <1>2

LEMMA NearChain ==
  ASSUME NEW m, NEW k, NEW l, Near(m, k), Near(k, l)
  PROVE  Near(m, l) /\ Near(k, m)
BY DEF Near

\* What is read does not depend on the watchpoint.
LEMMA NearReads ==
  ASSUME NEW m, NEW k, Near(m, k)
  PROVE  /\ \A a, width : ReadValue(m, a, width) = ReadValue(k, a, width)
         /\ \A a, width : ReadBytes(m, a, width) = ReadBytes(k, a, width)
<1>1. m.bytes = k.bytes
  BY DEF Near
<1>2. \A a, width : ReadBytes(m, a, width) = ReadBytes(k, a, width)
  BY <1>1 DEF ReadBytes
<1>. QED BY <1>2 DEF ReadValue

----------------------------------------------------------------------------
(* Machines, and the machine a native one stands for.                       *)

WithGprs(s, g) == [s EXCEPT !.gpr = g]
At(s, a)       == [s EXCEPT !.cia = a]
WithPairs(s, f, p) == [s EXCEPT !.fpr = f, !.ps1 = p]
WithLink(s, valid, a) == [s EXCEPT !.reservation_valid = valid, !.reservation_address = a]
WithCr(s, bits) == [s EXCEPT !.cr = bits]

LEMMA MachineTypes ==
  ASSUME NEW s, IsMachine(s)
  PROVE  /\ s.gpr \in [Gprs -> Words] /\ DOMAIN s.gpr = Gprs /\ s.cia \in Words /\ s.cr \in SUBSET BitIndex
         /\ s.xer \in SUBSET BitIndex /\ s.fpr \in [DOMAIN s.fpr -> Nat] /\ s.ps1 \in [DOMAIN s.fpr -> Nat]
         /\ s.gqr \in [DOMAIN s.gqr -> Quantizations] /\ 0 \in DOMAIN s.fpr /\ {0, 1} \subseteq DOMAIN s.gqr
         /\ s.reservation_valid \in BOOLEAN /\ s.reservation_address \in Words
         /\ s.lr \in Words /\ s.ctr \in Words
         /\ s = [gpr |-> s.gpr, xer |-> s.xer, cr |-> s.cr, lr |-> s.lr, ctr |-> s.ctr, cia |-> s.cia,
                 fpr |-> s.fpr, ps1 |-> s.ps1, gqr |-> s.gqr,
                 reservation_valid |-> s.reservation_valid, reservation_address |-> s.reservation_address]
BY DEF IsMachine

LEMMA GprsUpdate ==
  ASSUME NEW s, IsMachine(s), NEW g \in [Gprs -> Words]
  PROVE  LET t == WithGprs(s, g) IN
         /\ IsMachine(t) /\ t.gpr = g /\ t.cia = s.cia /\ t.cr = s.cr /\ t.xer = s.xer /\ t.fpr = s.fpr
         /\ t.ps1 = s.ps1 /\ t.gqr = s.gqr /\ t.reservation_valid = s.reservation_valid
         /\ t.reservation_address = s.reservation_address /\ t.lr = s.lr /\ t.ctr = s.ctr
BY DEF IsMachine, WithGprs

LEMMA AddressUpdate ==
  ASSUME NEW s, IsMachine(s), NEW a \in Words
  PROVE  LET t == At(s, a) IN
         /\ IsMachine(t) /\ t.gpr = s.gpr /\ t.cia = a /\ t.cr = s.cr /\ t.xer = s.xer /\ t.fpr = s.fpr
         /\ t.ps1 = s.ps1 /\ t.gqr = s.gqr /\ t.reservation_valid = s.reservation_valid
         /\ t.reservation_address = s.reservation_address /\ t.lr = s.lr /\ t.ctr = s.ctr
BY DEF IsMachine, At

LEMMA PairsUpdate ==
  ASSUME NEW s, IsMachine(s), NEW f \in [DOMAIN s.fpr -> Nat], NEW p \in [DOMAIN s.fpr -> Nat]
  PROVE  LET t == WithPairs(s, f, p) IN
         /\ IsMachine(t) /\ t.gpr = s.gpr /\ t.cia = s.cia /\ t.cr = s.cr /\ t.xer = s.xer /\ t.fpr = f
         /\ t.ps1 = p /\ t.gqr = s.gqr /\ t.reservation_valid = s.reservation_valid
         /\ t.reservation_address = s.reservation_address /\ t.lr = s.lr /\ t.ctr = s.ctr
BY DEF IsMachine, WithPairs

LEMMA LinkUpdate ==
  ASSUME NEW s, IsMachine(s), NEW valid \in BOOLEAN, NEW a \in Words
  PROVE  LET t == WithLink(s, valid, a) IN
         /\ IsMachine(t) /\ t.gpr = s.gpr /\ t.cia = s.cia /\ t.cr = s.cr /\ t.xer = s.xer /\ t.fpr = s.fpr
         /\ t.ps1 = s.ps1 /\ t.gqr = s.gqr /\ t.reservation_valid = valid
         /\ t.reservation_address = a /\ t.lr = s.lr /\ t.ctr = s.ctr
BY DEF IsMachine, WithLink

LEMMA CrUpdate ==
  ASSUME NEW s, IsMachine(s), NEW bits \in SUBSET BitIndex
  PROVE  LET t == WithCr(s, bits) IN
         /\ IsMachine(t) /\ t.gpr = s.gpr /\ t.cia = s.cia /\ t.cr = bits /\ t.xer = s.xer /\ t.fpr = s.fpr
         /\ t.ps1 = s.ps1 /\ t.gqr = s.gqr /\ t.reservation_valid = s.reservation_valid
         /\ t.reservation_address = s.reservation_address /\ t.lr = s.lr /\ t.ctr = s.ctr
BY DEF IsMachine, WithCr

\* The order of updates of different fields does not matter, and the last of one field wins.
LEMMA UpdatesCommute ==
  ASSUME NEW s, IsMachine(s)
  PROVE  /\ WithGprs(s, s.gpr) = s /\ At(s, s.cia) = s
         /\ \A g, h : WithGprs(WithGprs(s, g), h) = WithGprs(s, h)
         /\ \A a, b : At(At(s, a), b) = At(s, b)
         /\ \A a, g : At(WithGprs(s, g), a) = WithGprs(At(s, a), g)
         /\ \A f, p, g : WithGprs(WithPairs(s, f, p), g) = WithPairs(WithGprs(s, g), f, p)
         /\ \A f, p, a : At(WithPairs(s, f, p), a) = WithPairs(At(s, a), f, p)
         /\ \A v, l, g : WithGprs(WithLink(s, v, l), g) = WithLink(WithGprs(s, g), v, l)
         /\ \A v, l, a : At(WithLink(s, v, l), a) = WithLink(At(s, a), v, l)
         /\ \A c, g : WithGprs(WithCr(s, c), g) = WithCr(WithGprs(s, g), c)
         /\ \A c, a : At(WithCr(s, c), a) = WithCr(At(s, a), c)
<1>. DEFINE D == DOMAIN s
<1>1. /\ s = [gpr |-> s.gpr, xer |-> s.xer, cr |-> s.cr, lr |-> s.lr, ctr |-> s.ctr, cia |-> s.cia,
              fpr |-> s.fpr, ps1 |-> s.ps1, gqr |-> s.gqr,
              reservation_valid |-> s.reservation_valid, reservation_address |-> s.reservation_address]
  BY MachineTypes
<1>2. WithGprs(s, s.gpr) = s /\ At(s, s.cia) = s
  BY <1>1 DEF WithGprs, At
<1>3. \A g, h : WithGprs(WithGprs(s, g), h) = WithGprs(s, h)
  BY <1>1 DEF WithGprs
<1>4. \A a, b : At(At(s, a), b) = At(s, b)
  BY <1>1 DEF At
<1>5. \A a, g : At(WithGprs(s, g), a) = WithGprs(At(s, a), g)
  BY <1>1 DEF WithGprs, At
<1>6. \A f, p, g : WithGprs(WithPairs(s, f, p), g) = WithPairs(WithGprs(s, g), f, p)
  BY <1>1 DEF WithGprs, WithPairs
<1>7. \A f, p, a : At(WithPairs(s, f, p), a) = WithPairs(At(s, a), f, p)
  BY <1>1 DEF At, WithPairs
<1>8. \A v, l, g : WithGprs(WithLink(s, v, l), g) = WithLink(WithGprs(s, g), v, l)
  BY <1>1 DEF WithGprs, WithLink
<1>9. \A v, l, a : At(WithLink(s, v, l), a) = WithLink(At(s, a), v, l)
  BY <1>1 DEF At, WithLink
<1>10. \A c, g : WithGprs(WithCr(s, c), g) = WithCr(WithGprs(s, g), c)
  BY <1>1 DEF WithGprs, WithCr
<1>11. \A c, a : At(WithCr(s, c), a) = WithCr(At(s, a), c)
  BY <1>1 DEF At, WithCr
<1>. QED BY <1>2, <1>3, <1>4, <1>5, <1>6, <1>7, <1>8, <1>9, <1>10, <1>11

\* A native machine whose clean host registers are those of its state; the general
\* registers it stands for, and the machine it stands for at address a.
IsNative(n) ==
  /\ n = [state |-> n.state, host |-> n.host, dirty |-> n.dirty, memory |-> n.memory, exit |-> n.exit]
  /\ IsMachine(n.state) /\ IsMemory(n.memory)
  /\ DOMAIN n.host \subseteq Gprs
  /\ n.host \in [DOMAIN n.host -> Words]
  /\ n.dirty \subseteq DOMAIN n.host
  /\ \A r \in DOMAIN n.host \ n.dirty : n.host[r] = n.state.gpr[r]
Guests(n)  == [r \in Gprs |-> Guest(n, r)]
View(n, a) == At(WithGprs(n.state, Guests(n)), a)

LEMMA GuestsAre ==
  ASSUME NEW n, IsNative(n)
  PROVE  Guests(n) \in [Gprs -> Words] /\ \A r \in Gprs : Guests(n)[r] = Guest(n, r) /\ Guest(n, r) \in Words
<1>1. n.state.gpr \in [Gprs -> Words]
  BY MachineTypes DEF IsNative
<1>2. \A r \in Gprs : Guest(n, r) \in Words
  BY <1>1 DEF Guest, IsNative
<1>. QED BY <1>2 DEF Guests

LEMMA ViewIs ==
  ASSUME NEW n, IsNative(n), NEW a \in Words
  PROVE  LET v == View(n, a) IN
         /\ IsMachine(v) /\ v.gpr = Guests(n) /\ v.cia = a
         /\ v.cr = n.state.cr /\ v.xer = n.state.xer /\ v.fpr = n.state.fpr /\ v.ps1 = n.state.ps1
         /\ v.gqr = n.state.gqr /\ v.reservation_valid = n.state.reservation_valid
         /\ v.reservation_address = n.state.reservation_address
<1>1. Guests(n) \in [Gprs -> Words] /\ IsMachine(n.state)
  BY GuestsAre DEF IsNative
<1>. DEFINE t == WithGprs(n.state, Guests(n))
<1>2. /\ IsMachine(t) /\ t.gpr = Guests(n) /\ t.cr = n.state.cr /\ t.xer = n.state.xer /\ t.fpr = n.state.fpr
      /\ t.ps1 = n.state.ps1 /\ t.gqr = n.state.gqr /\ t.reservation_valid = n.state.reservation_valid
      /\ t.reservation_address = n.state.reservation_address
  BY <1>1, GprsUpdate
<1>. HIDE DEF t
<1>3. View(n, a) = At(t, a)
  BY Zenon DEF View, t
<1>. QED BY <1>2, <1>3, AddressUpdate

LEMMA ViewMoves ==
  ASSUME NEW n, IsNative(n), NEW a \in Words, NEW b \in Words
  PROVE  View(n, b) = At(View(n, a), b)
<1>1. IsMachine(WithGprs(n.state, Guests(n)))
  BY GuestsAre, GprsUpdate DEF IsNative
<1>. QED BY <1>1, UpdatesCommute DEF View

----------------------------------------------------------------------------
(* What the pieces of emitted code leave.                                   *)

NativeOf(state, host, dirty, memory, exit) ==
  [state |-> state, host |-> host, dirty |-> dirty, memory |-> memory, exit |-> exit]

LEMMA NativeFields ==
  ASSUME NEW n, IsNative(n)
  PROVE  /\ n = NativeOf(n.state, n.host, n.dirty, n.memory, n.exit)
         /\ IsMachine(n.state) /\ IsMemory(n.memory) /\ DOMAIN n.host \subseteq Gprs
         /\ n.dirty \subseteq DOMAIN n.host
BY DEF IsNative, NativeOf

LEMMA NativeHosts ==
  ASSUME NEW n, IsNative(n), NEW g, NEW c
  PROVE  [n EXCEPT !.host = g, !.dirty = c] = NativeOf(n.state, g, c, n.memory, n.exit)
<1>1. [n EXCEPT !.host = g, !.dirty = c] = [[n EXCEPT !.host = g] EXCEPT !.dirty = c]
  OBVIOUS
<1>2. [n EXCEPT !.host = g] = NativeOf(n.state, g, n.dirty, n.memory, n.exit)
  BY NativeFields DEF NativeOf
<1>3. [NativeOf(n.state, g, n.dirty, n.memory, n.exit) EXCEPT !.dirty = c] = NativeOf(n.state, g, c, n.memory, n.exit)
  BY DEF NativeOf
<1>. QED BY <1>1, <1>2, <1>3

LEMMA NativeReturns ==
  ASSUME NEW n, IsNative(n), NEW a, NEW x
  PROVE  [n EXCEPT !.state.cia = a, !.exit = x] = NativeOf(At(n.state, a), n.host, n.dirty, n.memory, x)
<1>1. [n EXCEPT !.state.cia = a, !.exit = x] = [[n EXCEPT !.state.cia = a] EXCEPT !.exit = x]
  OBVIOUS
<1>2. [n EXCEPT !.state.cia = a] = NativeOf(At(n.state, a), n.host, n.dirty, n.memory, n.exit)
  BY NativeFields DEF NativeOf, At
<1>3. [NativeOf(At(n.state, a), n.host, n.dirty, n.memory, n.exit) EXCEPT !.exit = x]
        = NativeOf(At(n.state, a), n.host, n.dirty, n.memory, x)
  BY DEF NativeOf
<1>. QED BY <1>1, <1>2, <1>3

\* Two native machines with the same registers and fields stand for the same machine.
LEMMA SameView ==
  ASSUME NEW n, NEW k, n.state = k.state, Guests(n) = Guests(k)
  PROVE  \A a : View(n, a) = View(k, a)
BY DEF View

LEMMA ReadIs ==
  ASSUME NEW n, IsNative(n), NEW S \in SUBSET Gprs
  PROVE  LET k == read_guest_gpr(n, S) IN
         /\ IsNative(k) /\ k.state = n.state /\ k.memory = n.memory /\ k.exit = n.exit /\ k.dirty = n.dirty
         /\ DOMAIN k.host = DOMAIN n.host \cup S
         /\ Guests(k) = Guests(n)
         /\ \A r \in Gprs : Guest(k, r) = Guest(n, r)
<1>. DEFINE h == [r \in DOMAIN n.host \cup S |-> Guest(n, r)]
            k == NativeOf(n.state, h, n.dirty, n.memory, n.exit)
<1>1. read_guest_gpr(n, S) = [n EXCEPT !.host = h]
  BY Zenon DEF read_guest_gpr
<1>2. /\ n = NativeOf(n.state, n.host, n.dirty, n.memory, n.exit) /\ DOMAIN n.host \subseteq Gprs
      /\ n.dirty \subseteq DOMAIN n.host
  BY NativeFields
<1>3. \A r \in DOMAIN h : h[r] = Guest(n, r) /\ Guest(n, r) \in Words /\ r \in Gprs
  BY <1>2, GuestsAre
<1>4. DOMAIN h = DOMAIN n.host \cup S /\ h \in [DOMAIN h -> Words]
  BY <1>3
<1>. HIDE DEF h
<1>5. [n EXCEPT !.host = h] = k
  BY <1>2 DEF NativeOf
<1>6. k.state = n.state /\ k.host = h /\ k.dirty = n.dirty /\ k.memory = n.memory /\ k.exit = n.exit
        /\ k = [state |-> k.state, host |-> k.host, dirty |-> k.dirty, memory |-> k.memory, exit |-> k.exit]
  BY DEF NativeOf
<1>. HIDE DEF k
<1>7. \A r \in DOMAIN h \ n.dirty : h[r] = n.state.gpr[r]
  BY <1>3, <1>4 DEF Guest, IsNative
<1>8. IsNative(k)
  BY <1>2, <1>3, <1>4, <1>6, <1>7 DEF IsNative
<1>9. \A r \in Gprs : Guest(k, r) = Guest(n, r)
  BY <1>3, <1>4, <1>6 DEF Guest
<1>10. Guests(k) = Guests(n)
  BY <1>9 DEF Guests
<1>. QED BY <1>1, <1>4, <1>5, <1>6, <1>8, <1>9, <1>10 DEF k

LEMMA WriteIs ==
  ASSUME NEW n, IsNative(n), NEW r \in Gprs, NEW v \in Words
  PROVE  LET k == write_guest_gpr(n, r, v) IN
         /\ IsNative(k) /\ k.state = n.state /\ k.memory = n.memory /\ k.exit = n.exit
         /\ Guests(k) = [Guests(n) EXCEPT ![r] = v] /\ r \in k.dirty
<1>. DEFINE h == [q \in DOMAIN n.host \cup {r} |-> IF q = r THEN v ELSE n.host[q]]
            d == n.dirty \cup {r}
            k == NativeOf(n.state, h, d, n.memory, n.exit)
<1>1. write_guest_gpr(n, r, v) = [n EXCEPT !.host = h, !.dirty = d]
  BY Zenon DEF write_guest_gpr
<1>2. /\ n = NativeOf(n.state, n.host, n.dirty, n.memory, n.exit) /\ DOMAIN n.host \subseteq Gprs
      /\ n.dirty \subseteq DOMAIN n.host /\ n.host \in [DOMAIN n.host -> Words]
  BY NativeFields DEF IsNative
<1>3. DOMAIN h = DOMAIN n.host \cup {r} /\ h \in [DOMAIN h -> Words] /\ h[r] = v
        /\ \A q \in DOMAIN n.host : q # r => h[q] = n.host[q]
  BY <1>2
<1>. HIDE DEF h
<1>5. [n EXCEPT !.host = h, !.dirty = d] = k
  BY NativeHosts, Zenon
<1>6. k.state = n.state /\ k.host = h /\ k.dirty = d /\ k.memory = n.memory /\ k.exit = n.exit
        /\ k = [state |-> k.state, host |-> k.host, dirty |-> k.dirty, memory |-> k.memory, exit |-> k.exit]
  BY DEF NativeOf
<1>. HIDE DEF k
<1>7. \A q \in DOMAIN h \ d : h[q] = n.state.gpr[q]
  BY <1>3 DEF IsNative
<1>8. IsNative(k)
  BY <1>2, <1>3, <1>6, <1>7 DEF IsNative
<1>9. \A q \in Gprs : Guest(k, q) = IF q = r THEN v ELSE Guest(n, q)
  BY <1>3, <1>6 DEF Guest
<1>10. Guests(k) = [Guests(n) EXCEPT ![r] = v]
  BY <1>9 DEF Guests
<1>. QED BY <1>1, <1>5, <1>6, <1>8, <1>10 DEF k

LEMMA FlushIs ==
  ASSUME NEW n, IsNative(n)
  PROVE  LET k == flush_guest_gprs(n) IN
         /\ IsNative(k) /\ k.state = WithGprs(n.state, Guests(n)) /\ k.memory = n.memory /\ k.exit = n.exit
         /\ k.host = n.host /\ k.dirty = n.dirty
         /\ Guests(k) = Guests(n) /\ k.state.gpr = Guests(n)
         /\ \A a \in Words : View(k, a) = View(n, a) /\ At(k.state, a) = View(n, a)
<1>. DEFINE g == [r \in DOMAIN n.state.gpr |-> IF r \in n.dirty THEN n.host[r] ELSE n.state.gpr[r]]
            s == WithGprs(n.state, g)
            k == NativeOf(s, n.host, n.dirty, n.memory, n.exit)
<1>1. flush_guest_gprs(n) = [n EXCEPT !.state.gpr = g]
  BY Zenon DEF flush_guest_gprs
<1>2. /\ n = NativeOf(n.state, n.host, n.dirty, n.memory, n.exit) /\ DOMAIN n.host \subseteq Gprs
      /\ n.dirty \subseteq DOMAIN n.host /\ IsMachine(n.state) /\ IsMemory(n.memory)
  BY NativeFields
<1>3. DOMAIN n.state.gpr = Gprs
  BY <1>2, MachineTypes
<1>4. g = Guests(n)
  <2>1. \A r \in Gprs : (IF r \in n.dirty THEN n.host[r] ELSE n.state.gpr[r]) = Guest(n, r)
    BY <1>2 DEF Guest, IsNative
  <2>. QED BY <1>3, <2>1 DEF Guests
<1>5. g \in [Gprs -> Words]
  BY <1>4, GuestsAre
<1>. HIDE DEF g
<1>6. [n EXCEPT !.state.gpr = g] = k
  BY <1>2 DEF NativeOf, WithGprs
<1>7. IsMachine(s) /\ s.gpr = g
  BY <1>2, <1>5, GprsUpdate
<1>. HIDE DEF s
<1>8. k.state = s /\ k.host = n.host /\ k.dirty = n.dirty /\ k.memory = n.memory /\ k.exit = n.exit
        /\ k = [state |-> k.state, host |-> k.host, dirty |-> k.dirty, memory |-> k.memory, exit |-> k.exit]
  BY DEF NativeOf
<1>. HIDE DEF k
<1>9. \A r \in DOMAIN n.host \ n.dirty : n.host[r] = g[r]
  BY <1>2, <1>4, GuestsAre DEF Guest
<1>10. IsNative(k)
  BY <1>2, <1>7, <1>8, <1>9 DEF IsNative
<1>11. \A r \in Gprs : Guest(k, r) = Guest(n, r)
  BY <1>4, <1>7, <1>8, GuestsAre DEF Guest
<1>12. Guests(k) = Guests(n)
  BY <1>11 DEF Guests
<1>13. s = WithGprs(n.state, Guests(n)) /\ s.gpr = Guests(n)
  BY <1>4, <1>7 DEF s
<1>14. ASSUME NEW a PROVE View(k, a) = View(n, a) /\ At(k.state, a) = View(n, a)
  <2>1. WithGprs(s, Guests(n)) = s
    BY <1>7, <1>13, UpdatesCommute
  <2>. QED BY <1>8, <1>12, <1>13, <2>1 DEF View
<1>. QED BY <1>1, <1>6, <1>8, <1>10, <1>12, <1>13, <1>14 DEF k

\* Another memory, another state with the same general registers, another exit.
LEMMA MemoryUpdate ==
  ASSUME NEW n, IsNative(n), NEW m, IsMemory(m)
  PROVE  LET k == [n EXCEPT !.memory = m] IN
         /\ IsNative(k) /\ k.state = n.state /\ k.memory = m /\ k.exit = n.exit
         /\ k.host = n.host /\ k.dirty = n.dirty /\ Guests(k) = Guests(n)
<1>. DEFINE k == NativeOf(n.state, n.host, n.dirty, m, n.exit)
<1>1. [n EXCEPT !.memory = m] = k
  BY NativeFields DEF NativeOf
<1>2. k.state = n.state /\ k.host = n.host /\ k.dirty = n.dirty /\ k.memory = m /\ k.exit = n.exit
        /\ k = [state |-> k.state, host |-> k.host, dirty |-> k.dirty, memory |-> k.memory, exit |-> k.exit]
  BY DEF NativeOf
<1>. HIDE DEF k
<1>3. IsNative(k)
  BY <1>2 DEF IsNative
<1>4. Guests(k) = Guests(n)
  BY <1>2 DEF Guests, Guest
<1>. QED BY <1>1, <1>2, <1>3, <1>4 DEF k

LEMMA StateUpdate ==
  ASSUME NEW n, IsNative(n), NEW s, IsMachine(s), s.gpr = n.state.gpr
  PROVE  LET k == [n EXCEPT !.state = s] IN
         /\ IsNative(k) /\ k.state = s /\ k.memory = n.memory /\ k.exit = n.exit
         /\ k.host = n.host /\ k.dirty = n.dirty /\ Guests(k) = Guests(n)
<1>. DEFINE k == NativeOf(s, n.host, n.dirty, n.memory, n.exit)
<1>1. [n EXCEPT !.state = s] = k
  BY NativeFields DEF NativeOf
<1>2. k.state = s /\ k.host = n.host /\ k.dirty = n.dirty /\ k.memory = n.memory /\ k.exit = n.exit
        /\ k = [state |-> k.state, host |-> k.host, dirty |-> k.dirty, memory |-> k.memory, exit |-> k.exit]
  BY DEF NativeOf
<1>. HIDE DEF k
<1>3. IsNative(k)
  BY <1>2 DEF IsNative
<1>4. Guests(k) = Guests(n)
  BY <1>2 DEF Guests, Guest
<1>. QED BY <1>1, <1>2, <1>3, <1>4 DEF k

LEMMA ReturnIs ==
  ASSUME NEW n, IsNative(n), NEW exit, NEW a \in Words
  PROVE  LET k == Return(n, exit, a) IN
         /\ IsNative(k) /\ k.state = At(n.state, a) /\ k.memory = n.memory /\ k.exit = exit
         /\ Guests(k) = Guests(n) /\ k.dirty = n.dirty
<1>. DEFINE s == At(n.state, a)
            k == NativeOf(s, n.host, n.dirty, n.memory, exit)
<1>1. Return(n, exit, a) = k
  BY NativeReturns, Zenon DEF Return
<1>2. IsMachine(s) /\ s.gpr = n.state.gpr
  BY AddressUpdate DEF IsNative
<1>. HIDE DEF s
<1>3. k.state = s /\ k.host = n.host /\ k.dirty = n.dirty /\ k.memory = n.memory /\ k.exit = exit
        /\ k = [state |-> k.state, host |-> k.host, dirty |-> k.dirty, memory |-> k.memory, exit |-> k.exit]
  BY DEF NativeOf
<1>. HIDE DEF k
<1>4. IsNative(k)
  BY <1>2, <1>3 DEF IsNative
<1>5. Guests(k) = Guests(n)
  BY <1>2, <1>3 DEF Guests, Guest
<1>. QED BY <1>1, <1>3, <1>4, <1>5 DEF k, s

\* An exit that writes the registers back leaves the machine the block stood for.
LEMMA FlushReturnIs ==
  ASSUME NEW n, IsNative(n), NEW exit, NEW a \in Words
  PROVE  LET k == FlushReturn(n, exit, a) IN
         IsNative(k) /\ k.state = View(n, a) /\ k.memory = n.memory /\ k.exit = exit
<1>. DEFINE f == flush_guest_gprs(n)
<1>1. IsNative(f) /\ f.memory = n.memory /\ At(f.state, a) = View(n, a)
  BY FlushIs
<1>2. FlushReturn(n, exit, a) = Return(f, exit, a)
  BY Zenon DEF FlushReturn
<1>. HIDE DEF f
<1>. QED BY <1>1, <1>2, ReturnIs

\* Written back and forgotten, the registers are those of the state, which may be changed.
LEMMA ForgottenIs ==
  ASSUME NEW n, IsNative(n)
  PROVE  LET k == Forgotten(flush_guest_gprs(n)) IN
         /\ IsNative(k) /\ k.state = WithGprs(n.state, Guests(n)) /\ k.state.gpr = Guests(n)
         /\ k.memory = n.memory /\ k.exit = n.exit /\ k.dirty = {}
         /\ k.host = NoHost /\ Guests(k) = Guests(n)
         /\ \A a \in Words : View(k, a) = View(n, a) /\ At(k.state, a) = View(n, a)
<1>. DEFINE f == flush_guest_gprs(n)
            k == NativeOf(f.state, NoHost, {}, f.memory, f.exit)
<1>1. /\ IsNative(f) /\ f.state = WithGprs(n.state, Guests(n)) /\ f.memory = n.memory /\ f.exit = n.exit
      /\ f.state.gpr = Guests(n)
      /\ \A a \in Words : At(f.state, a) = View(n, a)
  BY FlushIs
<1>. HIDE DEF f
<1>2. Forgotten(f) = k
  BY <1>1, NativeHosts, Zenon DEF Forgotten
<1>3. k.state = f.state /\ k.host = NoHost /\ k.dirty = {} /\ k.memory = f.memory /\ k.exit = f.exit
        /\ k = [state |-> k.state, host |-> k.host, dirty |-> k.dirty, memory |-> k.memory, exit |-> k.exit]
  BY DEF NativeOf
<1>4. DOMAIN NoHost = {} /\ NoHost \in [{} -> Words]
  BY DEF NoHost
<1>. HIDE DEF k
<1>5. IsNative(k)
  BY <1>1, <1>3, <1>4 DEF IsNative
<1>6. \A r \in Gprs : Guest(k, r) = f.state.gpr[r]
  BY <1>3, <1>4 DEF Guest
<1>7. Guests(n) \in [Gprs -> Words]
  BY GuestsAre
<1>8. Guests(k) = Guests(n)
  BY <1>1, <1>6, <1>7 DEF Guests
<1>9. WithGprs(f.state, Guests(n)) = f.state
  BY <1>1, UpdatesCommute DEF IsNative
<1>10. \A a \in Words : View(k, a) = View(n, a)
  BY <1>1, <1>3, <1>8, <1>9 DEF View
<1>. QED BY <1>1, <1>2, <1>3, <1>5, <1>8, <1>10 DEF f, k

----------------------------------------------------------------------------
(* An instruction in both engines: from where they agree to where they do.  *)

Core(s, m, stop) == [state |-> s, memory |-> m, stop |-> stop]
Slot(g, r, v) == [g EXCEPT ![r] = v]
IsInsn(i) ==
  /\ i.destination \in Gprs /\ i.base \in Gprs /\ i.source \in Gprs /\ i.immediate \in Words
  /\ i.fp_register = 0 /\ i.quantized_register \in {0, 1} /\ i.paired_single_w \in BOOLEAN
  /\ i.string_byte_count \in 0 .. (4 * GprCount)
Addressed(s, i, indexed) ==
  Unsigned((IF i.base = 0 THEN 0 ELSE s.gpr[i.base]) + (IF indexed THEN s.gpr[i.source] ELSE i.immediate))

\* The native machine n stands for the machine s over the memory m.
Stands(n, s, m) ==
  /\ IsNative(n) /\ n.exit = "no" /\ IsMachine(s) /\ View(n, s.cia) = s /\ Near(n.memory, m)
\* The interpreter went from s and m to the core d, the native code to e: both go on, the
\* code leaves its block, or both stop as if nothing had happened.
Agrees(s, m, d, e) ==
  /\ d = Core(d.state, d.memory, d.stop) /\ d.state.cia = s.cia
  /\ \/ d.stop = "none" /\ Stands(e, d.state, d.memory)
     \/ /\ d.stop = "none" /\ e.exit = "left" /\ IsNative(e) /\ IsMachine(d.state)
        /\ e.state = FellThrough(d.state) /\ Near(e.memory, d.memory)
     \/ /\ d.stop \in {"fault", "unsupported"} /\ d.state = s /\ d.memory = m
        /\ e.exit = d.stop /\ IsNative(e) /\ e.state = s /\ Near(e.memory, m)
Told(s, m) == set_current_guest_cia(m, s.cia) = m

LEMMA CoreUpdates ==
  ASSUME NEW s, NEW m, NEW x
  PROVE  LET c == Core(s, m, x) IN
         /\ c.state = s /\ c.memory = m /\ c.stop = x
         /\ \A t : [c EXCEPT !.state = t] = Core(t, m, x)
         /\ \A r, v : [c EXCEPT !.state.gpr[r] = v] = Core(WithGprs(s, Slot(s.gpr, r, v)), m, x)
         /\ \A g : [c EXCEPT !.state.gpr = g] = Core(WithGprs(s, g), m, x)
         /\ \A k : [c EXCEPT !.memory = k] = Core(s, k, x)
         /\ Fault(c) = Core(s, m, "fault") /\ Unsupported(c) = Core(s, m, "unsupported")
BY DEF Core, WithGprs, Fault, Unsupported, Slot

LEMMA AddressedWord ==
  ASSUME NEW s, IsMachine(s), NEW i, IsInsn(i), NEW indexed \in BOOLEAN
  PROVE  Addressed(s, i, indexed) \in Words
<1>1. s.gpr[i.base] \in Int /\ s.gpr[i.source] \in Int /\ i.immediate \in Int
  BY MachineTypes, WordRange, SMTT(30) DEF IsInsn
<1>2. (IF i.base = 0 THEN 0 ELSE s.gpr[i.base]) + (IF indexed THEN s.gpr[i.source] ELSE i.immediate) \in Int
  BY <1>1
<1>. QED BY <1>2, UnsignedOf DEF Addressed

LEMMA CoreAddresses ==
  ASSUME NEW s, IsMachine(s), NEW m, NEW x, NEW i, IsInsn(i)
  PROVE  /\ effective_address(Core(s, m, x), i) = Addressed(s, i, FALSE)
         /\ IndexedAddress(Core(s, m, x), i) = Addressed(s, i, TRUE)
         /\ i.base # 0 => UpdateAddress(Core(s, m, x), i) = Addressed(s, i, TRUE)
BY DEF effective_address, IndexedAddress, UpdateAddress, BaseOrZero, Gpr, Core, Addressed

LEMMA StandsFacts ==
  ASSUME NEW n, NEW s, NEW m, Stands(n, s, m)
  PROVE  /\ IsNative(n) /\ n.exit = "no" /\ IsMachine(s) /\ IsMemory(m) /\ IsMemory(n.memory)
         /\ Guests(n) = s.gpr /\ \A r \in Gprs : Guest(n, r) = s.gpr[r]
         /\ s.gpr \in [Gprs -> Words] /\ s.cia \in Words
         /\ n.state.cr = s.cr /\ n.state.xer = s.xer /\ n.state.fpr = s.fpr /\ n.state.ps1 = s.ps1
         /\ n.state.gqr = s.gqr /\ n.state.reservation_valid = s.reservation_valid
         /\ n.state.reservation_address = s.reservation_address
         /\ \A a \in Words : View(n, a) = At(s, a)
<1>1. IsNative(n) /\ IsMachine(s) /\ View(n, s.cia) = s /\ s.cia \in Words /\ n.exit = "no"
      /\ IsMemory(m) /\ IsMemory(n.memory)
  BY MachineTypes DEF Stands, Near
<1>2. /\ s.gpr = Guests(n)
      /\ s.cr = n.state.cr /\ s.xer = n.state.xer /\ s.fpr = n.state.fpr /\ s.ps1 = n.state.ps1
      /\ s.gqr = n.state.gqr /\ s.reservation_valid = n.state.reservation_valid
      /\ s.reservation_address = n.state.reservation_address
  BY <1>1, ViewIs
<1>3. \A r \in Gprs : Guest(n, r) = s.gpr[r]
  BY <1>1, <1>2, GuestsAre
<1>4. s.gpr \in [Gprs -> Words]
  BY <1>1, MachineTypes
<1>5. \A a \in Words : View(n, a) = At(s, a)
  BY <1>1, ViewMoves
<1>. QED BY <1>1, <1>2, <1>3, <1>4, <1>5

LEMMA StandsRead ==
  ASSUME NEW n, NEW s, NEW m, Stands(n, s, m), NEW S \in SUBSET Gprs
  PROVE  Stands(read_guest_gpr(n, S), s, m) /\ read_guest_gpr(n, S).memory = n.memory
<1>. DEFINE k == read_guest_gpr(n, S)
<1>1. IsNative(n) /\ n.exit = "no" /\ IsMachine(s) /\ View(n, s.cia) = s /\ Near(n.memory, m)
  BY DEF Stands
<1>2. IsNative(k) /\ k.state = n.state /\ k.memory = n.memory /\ k.exit = n.exit /\ Guests(k) = Guests(n)
  BY <1>1, ReadIs
<1>. HIDE DEF k
<1>3. View(k, s.cia) = View(n, s.cia)
  BY <1>2 DEF View
<1>. QED BY <1>1, <1>2, <1>3 DEF Stands, k

LEMMA StandsFlush ==
  ASSUME NEW n, NEW s, NEW m, Stands(n, s, m)
  PROVE  LET k == flush_guest_gprs(n) IN
         Stands(k, s, m) /\ k.memory = n.memory /\ k.state.gpr = s.gpr /\ \A a \in Words : At(k.state, a) = At(s, a)
<1>. DEFINE k == flush_guest_gprs(n)
<1>1. IsNative(n) /\ n.exit = "no" /\ IsMachine(s) /\ View(n, s.cia) = s /\ Near(n.memory, m) /\ s.cia \in Words
      /\ Guests(n) = s.gpr /\ \A a \in Words : View(n, a) = At(s, a)
  BY StandsFacts DEF Stands
<1>2. IsNative(k) /\ k.state.gpr = Guests(n) /\ k.memory = n.memory /\ k.exit = n.exit
      /\ \A a \in Words : View(k, a) = View(n, a) /\ At(k.state, a) = View(n, a)
  BY <1>1, FlushIs
<1>. HIDE DEF k
<1>. QED BY <1>1, <1>2 DEF Stands, k

LEMMA StandsForgotten ==
  ASSUME NEW n, NEW s, NEW m, Stands(n, s, m)
  PROVE  LET k == Forgotten(flush_guest_gprs(n)) IN
         /\ Stands(k, s, m) /\ k.memory = n.memory /\ k.state.gpr = s.gpr /\ k.host = NoHost /\ k.dirty = {}
         /\ \A a \in Words : At(k.state, a) = At(s, a)
<1>. DEFINE k == Forgotten(flush_guest_gprs(n))
<1>1. IsNative(n) /\ n.exit = "no" /\ IsMachine(s) /\ View(n, s.cia) = s /\ Near(n.memory, m) /\ s.cia \in Words
      /\ Guests(n) = s.gpr /\ \A a \in Words : View(n, a) = At(s, a)
  BY StandsFacts DEF Stands
<1>2. IsNative(k) /\ k.state.gpr = Guests(n) /\ k.memory = n.memory /\ k.exit = n.exit /\ k.dirty = {} /\ k.host = NoHost
      /\ \A a \in Words : View(k, a) = View(n, a) /\ At(k.state, a) = View(n, a)
  BY <1>1, ForgottenIs
<1>. HIDE DEF k
<1>. QED BY <1>1, <1>2 DEF Stands, k

LEMMA StandsWrite ==
  ASSUME NEW n, NEW s, NEW m, Stands(n, s, m), NEW r \in Gprs, NEW v \in Words
  PROVE  LET k == write_guest_gpr(n, r, v) IN
         Stands(k, WithGprs(s, Slot(s.gpr, r, v)), m) /\ k.memory = n.memory
<1>. DEFINE k == write_guest_gpr(n, r, v)
            g == Slot(s.gpr, r, v)
            t == WithGprs(s, g)
<1>1. IsNative(n) /\ n.exit = "no" /\ IsMachine(s) /\ View(n, s.cia) = s /\ Near(n.memory, m) /\ s.cia \in Words
      /\ Guests(n) = s.gpr /\ s.gpr \in [Gprs -> Words]
  BY StandsFacts DEF Stands
<1>2. IsNative(k) /\ k.state = n.state /\ k.memory = n.memory /\ k.exit = n.exit /\ Guests(k) = [Guests(n) EXCEPT ![r] = v]
  BY <1>1, WriteIs
<1>3. g \in [Gprs -> Words]
  BY <1>1 DEF Slot
<1>. HIDE DEF k, g
<1>4. IsMachine(t) /\ t.cia = s.cia
  BY <1>1, <1>3, GprsUpdate
<1>5. Guests(k) = g
  BY <1>1, <1>2 DEF g, Slot
<1>6. IsMachine(n.state)
  BY <1>1 DEF IsNative
<1>7. View(k, s.cia) = t
  <2>. DEFINE u == WithGprs(n.state, Guests(n))
  <2>1. View(k, s.cia) = At(WithGprs(n.state, g), s.cia)
    BY <1>2, <1>5 DEF View
  <2>2. WithGprs(n.state, g) = WithGprs(u, g)
    BY <1>6, UpdatesCommute
  <2>3. IsMachine(u)
    BY <1>6, <1>1, GprsUpdate
  <2>4. At(WithGprs(u, g), s.cia) = WithGprs(At(u, s.cia), g)
    BY <2>3, UpdatesCommute
  <2>5. At(u, s.cia) = s
    BY <1>1 DEF View
  <2>. QED BY <2>1, <2>2, <2>4, <2>5
<1>. HIDE DEF t
<1>. QED BY <1>1, <1>2, <1>4, <1>7 DEF Stands, k, g, t

LEMMA StandsTold ==
  ASSUME NEW n, NEW s, NEW m, Stands(n, s, m), Told(s, m)
  PROVE  LET k == Announced(n, s.cia) IN
         Stands(k, s, m) /\ k.memory = m /\ k.state = n.state /\ k.host = n.host /\ k.dirty = n.dirty
<1>. DEFINE w == set_current_guest_cia(n.memory, s.cia)
            k == Announced(n, s.cia)
<1>1. IsNative(n) /\ n.exit = "no" /\ IsMachine(s) /\ View(n, s.cia) = s /\ Near(n.memory, m) /\ IsMemory(m)
  BY StandsFacts DEF Stands
<1>2. w = m
  BY <1>1, NearAnnounced DEF Told
<1>3. k = [n EXCEPT !.memory = w]
  BY Zenon DEF Announced
<1>. HIDE DEF w
<1>4. k = [n EXCEPT !.memory = m]
  BY <1>2, <1>3
<1>. HIDE DEF k
<1>5. IsNative(k) /\ k.state = n.state /\ k.memory = m /\ k.exit = n.exit /\ Guests(k) = Guests(n)
      /\ k.host = n.host /\ k.dirty = n.dirty
  BY <1>1, <1>4, MemoryUpdate
<1>6. View(k, s.cia) = View(n, s.cia)
  BY <1>5, SameView
<1>. QED BY <1>1, <1>5, <1>6, NearSame DEF Stands, k

\* Another memory under the same registers.
LEMMA StandsMemory ==
  ASSUME NEW n, NEW s, \E m : Stands(n, s, m), NEW w, IsMemory(w),
         NEW k, k = [n EXCEPT !.memory = w]
  PROVE  Stands(k, s, w) /\ k.memory = w /\ k.state = n.state /\ k.host = n.host /\ k.dirty = n.dirty
<1>1. IsNative(n) /\ n.exit = "no" /\ IsMachine(s) /\ View(n, s.cia) = s
  BY DEF Stands
<1>2. IsNative(k) /\ k.state = n.state /\ k.memory = w /\ k.exit = n.exit /\ Guests(k) = Guests(n)
      /\ k.host = n.host /\ k.dirty = n.dirty
  BY <1>1, MemoryUpdate
<1>3. View(k, s.cia) = View(n, s.cia)
  BY <1>2 DEF View
<1>. QED BY <1>1, <1>2, <1>3, NearSame DEF Stands

LEMMA StandsStored ==
  ASSUME NEW n, NEW s, NEW m, Stands(n, s, m), n.memory = m, n.state.gpr = s.gpr \/ m.watch = {},
         NEW a, NEW width \in Nat, NEW value \in Int
  PROVE  LET w == WriteValue(m, s.gpr, a, width, value)
             k == Stored(n, a, width, value)
         IN  /\ Stands(k, s, w) /\ k.memory = w /\ IsMemory(w) /\ k.state = n.state
             /\ w.watch = m.watch /\ w.writer = m.writer
<1>. DEFINE v == WriteValue(m, n.state.gpr, a, width, value)
            w == WriteValue(m, s.gpr, a, width, value)
            k == Stored(n, a, width, value)
<1>1. IsMemory(m)
  BY StandsFacts
<1>2. /\ IsMemory(w) /\ w.watch = m.watch /\ w.writer = m.writer
      /\ m.watch = {} => \A h : WriteValue(m, h, a, width, value) = w
  BY <1>1, WriteValueIs
<1>3. v = w
  <2>1. CASE n.state.gpr = s.gpr
    BY <2>1
  <2>2. CASE m.watch = {}
    BY <1>2, <2>2, Zenon
  <2>. QED BY <2>1, <2>2
<1>4. k = [n EXCEPT !.memory = v]
  BY Zenon DEF Stored
<1>. HIDE DEF v, w
<1>5. k = [n EXCEPT !.memory = w]
  BY <1>3, <1>4
<1>. HIDE DEF k
<1>6. Stands(k, s, w) /\ k.memory = w /\ k.state = n.state
  <2>1. \E x : Stands(n, s, x)
    OBVIOUS
  <2>. QED BY <1>2, <1>5, <2>1, StandsMemory
<1>. QED BY <1>2, <1>6, Zenon DEF k, w

\* The exits.
LEMMA StandsFaults ==
  ASSUME NEW n, NEW s, NEW m, Stands(n, s, m), NEW exit \in {"fault", "unsupported"}
  PROVE  Agrees(s, m, Core(s, m, exit), FlushReturn(n, exit, s.cia))
<1>. DEFINE e == FlushReturn(n, exit, s.cia)
            d == Core(s, m, exit)
<1>1. IsNative(n) /\ IsMachine(s) /\ View(n, s.cia) = s /\ Near(n.memory, m) /\ s.cia \in Words
  BY StandsFacts DEF Stands
<1>2. IsNative(e) /\ e.state = s /\ e.memory = n.memory /\ e.exit = exit
  BY <1>1, FlushReturnIs
<1>3. d.state = s /\ d.memory = m /\ d.stop = exit
  BY CoreUpdates
<1>. HIDE DEF e, d
<1>4. d = Core(d.state, d.memory, d.stop)
  BY <1>3 DEF d
<1>. QED BY <1>1, <1>2, <1>3, <1>4 DEF Agrees, e, d

LEMMA StandsReturns ==
  ASSUME NEW n, NEW s, NEW m, Stands(n, s, m), \A a \in Words : At(n.state, a) = At(s, a)
  PROVE  /\ Agrees(s, m, Core(s, m, "fault"), Return(n, "fault", s.cia))
         /\ Agrees(s, m, Core(s, m, "none"), Return(n, "left", Unsigned(s.cia + 4)))
<1>. DEFINE e == Return(n, "fault", s.cia)
            d == Core(s, m, "fault")
            b == Unsigned(s.cia + 4)
            f == Return(n, "left", b)
            o == Core(s, m, "none")
<1>1. IsNative(n) /\ IsMachine(s) /\ Near(n.memory, m) /\ s.cia \in Words /\ At(s, s.cia) = s
  BY StandsFacts, UpdatesCommute DEF Stands
<1>2. b \in Words
  BY <1>1, WordRange, UnsignedOf
<1>3. IsNative(e) /\ e.state = s /\ e.memory = n.memory /\ e.exit = "fault"
  BY <1>1, ReturnIs
<1>4. b = Fallthrough(s)
  BY DEF Fallthrough
<1>. HIDE DEF b
<1>5. IsNative(f) /\ f.state = At(s, b) /\ f.memory = n.memory /\ f.exit = "left"
  BY <1>1, <1>2, ReturnIs
<1>6. d.state = s /\ d.memory = m /\ d.stop = "fault" /\ o.state = s /\ o.memory = m /\ o.stop = "none"
  BY CoreUpdates
<1>7. f.state = FellThrough(s)
  BY <1>4, <1>5 DEF FellThrough, At
<1>. HIDE DEF e, d, f, o
<1>8. d = Core(d.state, d.memory, d.stop) /\ o = Core(o.state, o.memory, o.stop)
  BY <1>6 DEF d, o
<1>9. Agrees(s, m, d, e)
  BY <1>1, <1>3, <1>6, <1>8 DEF Agrees
<1>10. Agrees(s, m, o, f)
  BY <1>1, <1>5, <1>6, <1>7, <1>8 DEF Agrees
<1>. QED BY <1>9, <1>10 DEF e, d, f, o, b

LEMMA AgreesMoved ==
  ASSUME NEW n, NEW t, NEW w, NEW s, NEW m, t.cia = s.cia
  PROVE  /\ Stands(n, t, w) => Agrees(s, m, Core(t, w, "none"), n)
         /\ Stands(n, t, w) => Agrees(s, m, Core(t, w, "none"), FlushReturn(n, "left", Unsigned(s.cia + 4)))
<1>. DEFINE d == Core(t, w, "none")
<1>1. d.state = t /\ d.memory = w /\ d.stop = "none"
  BY CoreUpdates
<1>2. ASSUME Stands(n, t, w) PROVE Agrees(s, m, d, n)
  <2>. HIDE DEF d
  <2>1. d = Core(d.state, d.memory, d.stop)
    BY <1>1 DEF d
  <2>. QED BY <1>1, <1>2, <2>1 DEF Agrees
<1>3. ASSUME Stands(n, t, w) PROVE Agrees(s, m, d, FlushReturn(n, "left", Unsigned(s.cia + 4)))
  <2>. DEFINE k == flush_guest_gprs(n)
              e == Return(k, "left", Unsigned(t.cia + 4))
  <2>1. Stands(k, t, w) /\ \A a \in Words : At(k.state, a) = At(t, a)
    BY <1>3, StandsFlush
  <2>2. FlushReturn(n, "left", Unsigned(s.cia + 4)) = e
    BY Zenon DEF FlushReturn
  <2>. HIDE DEF k
  <2>3. Agrees(t, w, d, e)
    BY <2>1, StandsReturns
  <2>. HIDE DEF d, e
  <2>4. Agrees(s, m, d, e)
    <3>1. d.stop = "none"
      BY <1>1
    <3>. QED BY <2>3, <3>1 DEF Agrees
  <2>. QED BY <2>2, <2>4
<1>. QED BY <1>2, <1>3

\* The registers of an address.
LEMMA StandsFetch ==
  ASSUME NEW n, NEW s, NEW m, Stands(n, s, m), NEW i, IsInsn(i), NEW indexed \in BOOLEAN
  PROVE  LET k == FetchAddress(n, i, indexed) IN
         Stands(k, s, m) /\ k.memory = n.memory /\ Address(k, i, indexed) = Addressed(s, i, indexed)
<1>. DEFINE S == (IF i.base = 0 THEN {} ELSE {i.base}) \cup (IF indexed THEN {i.source} ELSE {})
            k == FetchAddress(n, i, indexed)
<1>1. S \in SUBSET Gprs
  BY DEF IsInsn
<1>2. k = read_guest_gpr(n, S)
  BY Zenon DEF FetchAddress
<1>. HIDE DEF S, k
<1>3. Stands(k, s, m) /\ k.memory = n.memory
  BY <1>1, <1>2, StandsRead
<1>4. Guest(k, i.base) = s.gpr[i.base] /\ Guest(k, i.source) = s.gpr[i.source]
  BY <1>3, StandsFacts DEF IsInsn
<1>5. Address(k, i, indexed) = Addressed(s, i, indexed)
  BY <1>4 DEF Address, Addressed
<1>. QED BY <1>3, <1>5 DEF k

LEMMA CoreBase ==
  ASSUME NEW s, IsMachine(s), NEW g \in [Gprs -> Words], NEW m, NEW k, NEW i, NEW a
  PROVE  UpdateBase(Core(s, m, "none"), Core(WithGprs(s, g), k, "none"), i, a)
           = Core(WithGprs(s, Slot(g, i.base, a)), k, "none")
<1>. DEFINE t == WithGprs(s, g)
            h == Slot(g, i.base, a)
<1>1. t.gpr = g
  BY GprsUpdate
<1>2. WithGprs(t, h) = WithGprs(s, h)
  BY UpdatesCommute
<1>. HIDE DEF t
<1>3. [Core(t, k, "none") EXCEPT !.state.gpr[i.base] = a] = Core(WithGprs(s, h), k, "none")
  <2>1. [Core(t, k, "none") EXCEPT !.state.gpr[i.base] = a] = Core(WithGprs(t, Slot(t.gpr, i.base, a)), k, "none")
    BY DEF Core, WithGprs, Slot
  <2>. QED BY <1>1, <1>2, <2>1
<1>4. Core(s, m, "none").stop = "none" /\ Core(t, k, "none").stop = "none"
  BY CoreUpdates
<1>. QED BY <1>3, <1>4 DEF UpdateBase, t

LEMMA CoreBaseFault ==
  ASSUME NEW s, NEW m, NEW i, NEW a
  PROVE  UpdateBase(Core(s, m, "none"), Core(s, m, "fault"), i, a) = Core(s, m, "fault")
BY CoreUpdates DEF UpdateBase

LEMMA SlotWords ==
  ASSUME NEW g \in [Gprs -> Words], NEW r \in Gprs, NEW v \in Words
  PROVE  Slot(g, r, v) \in [Gprs -> Words]
BY DEF Slot
----------------------------------------------------------------------------
(* Loads and stores of one register.                                        *)

\* What the interpreter's loads and stores come to, in terms of the compiler's tables.
Converted(op, raw) ==
  CASE op \in {"lha", "lhax", "lhaux"} -> SignExtended(raw, HalfBits)
    [] op = "lwbrx" -> Reversed(raw, 4) [] op = "lhbrx" -> Reversed(raw, 2) [] OTHER -> raw
AddressIn(op, c, i) ==
  IF ~is_indexed_memory(op) THEN effective_address(c, i)
  ELSE IF UpdatesBase(op) THEN UpdateAddress(c, i) ELSE IndexedAddress(c, i)
PlainLoad(c, i, a, width, v) ==
  IF Accessible(a, width) THEN [c EXCEPT !.state.gpr[i.destination] = v] ELSE Fault(c)
WithUpdate(op, i, g, a) == IF UpdatesBase(op) THEN Slot(g, i.base, a) ELSE g
Based(op, c, d, i, a) == IF UpdatesBase(op) THEN UpdateBase(c, d, i, a) ELSE d

LEMMA LoadTables ==
  /\ memory_width("lwz") = 4 /\ is_indexed_memory("lwz") = FALSE /\ UpdatesBase("lwz") = FALSE
  /\ memory_width("lwzu") = 4 /\ is_indexed_memory("lwzu") = FALSE /\ UpdatesBase("lwzu") = TRUE
  /\ memory_width("lwzx") = 4 /\ is_indexed_memory("lwzx") = TRUE /\ UpdatesBase("lwzx") = FALSE
  /\ memory_width("lwzux") = 4 /\ is_indexed_memory("lwzux") = TRUE /\ UpdatesBase("lwzux") = TRUE
  /\ memory_width("lwbrx") = 4 /\ is_indexed_memory("lwbrx") = TRUE /\ UpdatesBase("lwbrx") = FALSE
  /\ memory_width("lhz") = 2 /\ is_indexed_memory("lhz") = FALSE /\ UpdatesBase("lhz") = FALSE
  /\ memory_width("lhzu") = 2 /\ is_indexed_memory("lhzu") = FALSE /\ UpdatesBase("lhzu") = TRUE
  /\ memory_width("lhzx") = 2 /\ is_indexed_memory("lhzx") = TRUE /\ UpdatesBase("lhzx") = FALSE
  /\ memory_width("lhzux") = 2 /\ is_indexed_memory("lhzux") = TRUE /\ UpdatesBase("lhzux") = TRUE
  /\ memory_width("lhbrx") = 2 /\ is_indexed_memory("lhbrx") = TRUE /\ UpdatesBase("lhbrx") = FALSE
  /\ memory_width("lha") = 2 /\ is_indexed_memory("lha") = FALSE /\ UpdatesBase("lha") = FALSE
  /\ memory_width("lhax") = 2 /\ is_indexed_memory("lhax") = TRUE /\ UpdatesBase("lhax") = FALSE
  /\ memory_width("lhaux") = 2 /\ is_indexed_memory("lhaux") = TRUE /\ UpdatesBase("lhaux") = TRUE
  /\ memory_width("lbz") = 1 /\ is_indexed_memory("lbz") = FALSE /\ UpdatesBase("lbz") = FALSE
  /\ memory_width("lbzu") = 1 /\ is_indexed_memory("lbzu") = FALSE /\ UpdatesBase("lbzu") = TRUE
  /\ memory_width("lbzx") = 1 /\ is_indexed_memory("lbzx") = TRUE /\ UpdatesBase("lbzx") = FALSE
  /\ memory_width("lbzux") = 1 /\ is_indexed_memory("lbzux") = TRUE /\ UpdatesBase("lbzux") = TRUE
BY DEF memory_width, is_indexed_memory, UpdatesBase, SingleStores, DoubleStores

LEMMA LoadShape ==
  ASSUME NEW op \in LoadOps, NEW c, NEW i
  PROVE  LET a == AddressIn(op, c, i)
             v == Converted(op, ReadValue(c.memory, a, memory_width(op)))
         IN  ExecuteLoad(op, c, i) = Based(op, c, PlainLoad(c, i, a, memory_width(op), v), i, a)
<1>. DEFINE Shape(o) ==
              LET a == AddressIn(o, c, i)
                  v == Converted(o, ReadValue(c.memory, a, memory_width(o)))
              IN  ExecuteLoad(o, c, i) = Based(o, c, PlainLoad(c, i, a, memory_width(o), v), i, a)
<1>1. Shape("lwz")
  BY LoadTables DEF ExecuteLoad, Load, LoadUpdate, PlainLoad, Based, AddressIn, Converted, Plainly, Algebraic, WordSwapped, HalfSwapped
<1>2. Shape("lwzu")
  BY LoadTables DEF ExecuteLoad, Load, LoadUpdate, PlainLoad, Based, AddressIn, Converted, Plainly, Algebraic, WordSwapped, HalfSwapped
<1>3. Shape("lwzx")
  BY LoadTables DEF ExecuteLoad, Load, LoadUpdate, PlainLoad, Based, AddressIn, Converted, Plainly, Algebraic, WordSwapped, HalfSwapped
<1>4. Shape("lwzux")
  BY LoadTables DEF ExecuteLoad, Load, LoadUpdate, PlainLoad, Based, AddressIn, Converted, Plainly, Algebraic, WordSwapped, HalfSwapped
<1>5. Shape("lwbrx")
  BY LoadTables DEF ExecuteLoad, Load, LoadUpdate, PlainLoad, Based, AddressIn, Converted, Plainly, Algebraic, WordSwapped, HalfSwapped
<1>6. Shape("lhz")
  BY LoadTables DEF ExecuteLoad, Load, LoadUpdate, PlainLoad, Based, AddressIn, Converted, Plainly, Algebraic, WordSwapped, HalfSwapped
<1>7. Shape("lhzu")
  BY LoadTables DEF ExecuteLoad, Load, LoadUpdate, PlainLoad, Based, AddressIn, Converted, Plainly, Algebraic, WordSwapped, HalfSwapped
<1>8. Shape("lhzx")
  BY LoadTables DEF ExecuteLoad, Load, LoadUpdate, PlainLoad, Based, AddressIn, Converted, Plainly, Algebraic, WordSwapped, HalfSwapped
<1>9. Shape("lhzux")
  BY LoadTables DEF ExecuteLoad, Load, LoadUpdate, PlainLoad, Based, AddressIn, Converted, Plainly, Algebraic, WordSwapped, HalfSwapped
<1>10. Shape("lhbrx")
  BY LoadTables DEF ExecuteLoad, Load, LoadUpdate, PlainLoad, Based, AddressIn, Converted, Plainly, Algebraic, WordSwapped, HalfSwapped
<1>11. Shape("lha")
  BY LoadTables DEF ExecuteLoad, Load, LoadUpdate, PlainLoad, Based, AddressIn, Converted, Plainly, Algebraic, WordSwapped, HalfSwapped
<1>12. Shape("lhax")
  BY LoadTables DEF ExecuteLoad, Load, LoadUpdate, PlainLoad, Based, AddressIn, Converted, Plainly, Algebraic, WordSwapped, HalfSwapped
<1>13. Shape("lhaux")
  BY LoadTables DEF ExecuteLoad, Load, LoadUpdate, PlainLoad, Based, AddressIn, Converted, Plainly, Algebraic, WordSwapped, HalfSwapped
<1>14. Shape("lbz")
  BY LoadTables DEF ExecuteLoad, Load, LoadUpdate, PlainLoad, Based, AddressIn, Converted, Plainly, Algebraic, WordSwapped, HalfSwapped
<1>15. Shape("lbzu")
  BY LoadTables DEF ExecuteLoad, Load, LoadUpdate, PlainLoad, Based, AddressIn, Converted, Plainly, Algebraic, WordSwapped, HalfSwapped
<1>16. Shape("lbzx")
  BY LoadTables DEF ExecuteLoad, Load, LoadUpdate, PlainLoad, Based, AddressIn, Converted, Plainly, Algebraic, WordSwapped, HalfSwapped
<1>17. Shape("lbzux")
  BY LoadTables DEF ExecuteLoad, Load, LoadUpdate, PlainLoad, Based, AddressIn, Converted, Plainly, Algebraic, WordSwapped, HalfSwapped
<1>. QED BY <1>1, <1>2, <1>3, <1>4, <1>5, <1>6, <1>7, <1>8, <1>9, <1>10, <1>11, <1>12, <1>13, <1>14, <1>15, <1>16, <1>17 DEF LoadOps

LEMMA StoreTables ==
  /\ memory_width("stw") = 4 /\ is_indexed_memory("stw") = FALSE /\ UpdatesBase("stw") = FALSE
  /\ memory_width("stwu") = 4 /\ is_indexed_memory("stwu") = FALSE /\ UpdatesBase("stwu") = TRUE
  /\ memory_width("stwx") = 4 /\ is_indexed_memory("stwx") = TRUE /\ UpdatesBase("stwx") = FALSE
  /\ memory_width("stwux") = 4 /\ is_indexed_memory("stwux") = TRUE /\ UpdatesBase("stwux") = TRUE
  /\ memory_width("stwbrx") = 4 /\ is_indexed_memory("stwbrx") = TRUE /\ UpdatesBase("stwbrx") = FALSE
  /\ memory_width("sth") = 2 /\ is_indexed_memory("sth") = FALSE /\ UpdatesBase("sth") = FALSE
  /\ memory_width("sthu") = 2 /\ is_indexed_memory("sthu") = FALSE /\ UpdatesBase("sthu") = TRUE
  /\ memory_width("sthx") = 2 /\ is_indexed_memory("sthx") = TRUE /\ UpdatesBase("sthx") = FALSE
  /\ memory_width("sthux") = 2 /\ is_indexed_memory("sthux") = TRUE /\ UpdatesBase("sthux") = TRUE
  /\ memory_width("sthbrx") = 2 /\ is_indexed_memory("sthbrx") = TRUE /\ UpdatesBase("sthbrx") = FALSE
  /\ memory_width("stb") = 1 /\ is_indexed_memory("stb") = FALSE /\ UpdatesBase("stb") = FALSE
  /\ memory_width("stbu") = 1 /\ is_indexed_memory("stbu") = FALSE /\ UpdatesBase("stbu") = TRUE
  /\ memory_width("stbx") = 1 /\ is_indexed_memory("stbx") = TRUE /\ UpdatesBase("stbx") = FALSE
  /\ memory_width("stbux") = 1 /\ is_indexed_memory("stbux") = TRUE /\ UpdatesBase("stbux") = TRUE
  /\ memory_width("stfiwx") = 4 /\ is_indexed_memory("stfiwx") = TRUE /\ UpdatesBase("stfiwx") = FALSE
BY DEF memory_width, is_indexed_memory, UpdatesBase, SingleStores, DoubleStores

\* The value an integer store writes.
Valued(op, c, i) ==
  CASE op = "stwbrx" -> Reversed(Gpr(c, i.destination), 4) [] op = "sthbrx" -> Reversed(Gpr(c, i.destination), 2)
    [] op = "stfiwx" -> c.state.fpr[i.fp_register] % Modulus [] OTHER -> Gpr(c, i.destination)

LEMMA StoreShape ==
  ASSUME NEW op \in StoreOps, NEW c, NEW i
  PROVE  LET a == AddressIn(op, c, i) IN
         ExecuteStore(op, c, i) = Based(op, c, Store(c, a, memory_width(op), Valued(op, c, i)), i, a)
<1>. DEFINE Shape(o) ==
              LET a == AddressIn(o, c, i) IN
              ExecuteStore(o, c, i) = Based(o, c, Store(c, a, memory_width(o), Valued(o, c, i)), i, a)
<1>1. Shape("stw")
  BY StoreTables DEF ExecuteStore, StoreUpdate, Based, AddressIn, Valued, WordSwapped, HalfSwapped
<1>2. Shape("stwu")
  BY StoreTables DEF ExecuteStore, StoreUpdate, Based, AddressIn, Valued, WordSwapped, HalfSwapped
<1>3. Shape("stwx")
  BY StoreTables DEF ExecuteStore, StoreUpdate, Based, AddressIn, Valued, WordSwapped, HalfSwapped
<1>4. Shape("stwux")
  BY StoreTables DEF ExecuteStore, StoreUpdate, Based, AddressIn, Valued, WordSwapped, HalfSwapped
<1>5. Shape("stwbrx")
  BY StoreTables DEF ExecuteStore, StoreUpdate, Based, AddressIn, Valued, WordSwapped, HalfSwapped
<1>6. Shape("sth")
  BY StoreTables DEF ExecuteStore, StoreUpdate, Based, AddressIn, Valued, WordSwapped, HalfSwapped
<1>7. Shape("sthu")
  BY StoreTables DEF ExecuteStore, StoreUpdate, Based, AddressIn, Valued, WordSwapped, HalfSwapped
<1>8. Shape("sthx")
  BY StoreTables DEF ExecuteStore, StoreUpdate, Based, AddressIn, Valued, WordSwapped, HalfSwapped
<1>9. Shape("sthux")
  BY StoreTables DEF ExecuteStore, StoreUpdate, Based, AddressIn, Valued, WordSwapped, HalfSwapped
<1>10. Shape("sthbrx")
  BY StoreTables DEF ExecuteStore, StoreUpdate, Based, AddressIn, Valued, WordSwapped, HalfSwapped
<1>11. Shape("stb")
  BY StoreTables DEF ExecuteStore, StoreUpdate, Based, AddressIn, Valued, WordSwapped, HalfSwapped
<1>12. Shape("stbu")
  BY StoreTables DEF ExecuteStore, StoreUpdate, Based, AddressIn, Valued, WordSwapped, HalfSwapped
<1>13. Shape("stbx")
  BY StoreTables DEF ExecuteStore, StoreUpdate, Based, AddressIn, Valued, WordSwapped, HalfSwapped
<1>14. Shape("stbux")
  BY StoreTables DEF ExecuteStore, StoreUpdate, Based, AddressIn, Valued, WordSwapped, HalfSwapped
<1>15. Shape("stfiwx")
  BY StoreTables DEF ExecuteStore, StoreUpdate, Based, AddressIn, Valued, WordSwapped, HalfSwapped
<1>. QED BY <1>1, <1>2, <1>3, <1>4, <1>5, <1>6, <1>7, <1>8, <1>9, <1>10, <1>11, <1>12, <1>13, <1>14, <1>15 DEF StoreOps

LEMMA PlainLoadIs ==
  ASSUME NEW s, NEW m, NEW i, NEW a, NEW w, NEW v
  PROVE  PlainLoad(Core(s, m, "none"), i, a, w, v)
           = IF Accessible(a, w) THEN Core(WithGprs(s, Slot(s.gpr, i.destination, v)), m, "none")
             ELSE Core(s, m, "fault")
BY DEF PlainLoad, Core, WithGprs, Slot, Fault

LEMMA BasedOps ==
  ASSUME NEW op \in LoadOps \cup StoreOps
  PROVE  UpdatesBase(op) => op \in Updates
BY DEF LoadOps, StoreOps, UpdatesBase, Updates

LEMMA InAddress ==
  ASSUME NEW op, NEW s, IsMachine(s), NEW m, NEW i, IsInsn(i), UpdatesBase(op) => i.base # 0
  PROVE  AddressIn(op, Core(s, m, "none"), i) = Addressed(s, i, is_indexed_memory(op))
<1>1. CASE is_indexed_memory(op)
  <2>1. IndexedAddress(Core(s, m, "none"), i) = Addressed(s, i, TRUE)
        /\ (i.base # 0 => UpdateAddress(Core(s, m, "none"), i) = Addressed(s, i, TRUE))
    BY CoreAddresses, ZenonT(30)
  <2>2. is_indexed_memory(op) = TRUE
    BY <1>1 DEF is_indexed_memory
  <2>. QED BY <2>1, <2>2 DEF AddressIn
<1>2. CASE ~is_indexed_memory(op)
  <2>1. effective_address(Core(s, m, "none"), i) = Addressed(s, i, FALSE)
    BY CoreAddresses
  <2>2. is_indexed_memory(op) = FALSE
    BY <1>2 DEF is_indexed_memory
  <2>. QED BY <2>1, <2>2 DEF AddressIn
<1>. QED BY <1>1, <1>2

LEMMA SignedHalf ==
  ASSUME NEW raw \in 0 .. (TwoTo[HalfBits] - 1)
  PROVE  /\ SignExtended(raw, HalfBits) \in Words
         /\ SignExtended(raw, HalfBits)
              = IF raw >= TwoTo[HalfBits - 1] THEN raw + (Modulus - TwoTo[HalfBits]) ELSE raw
<1>. DEFINE h == TwoTo[HalfBits]
            q == TwoTo[HalfBits - 1]
<1>1. h \in Nat /\ h > 0 /\ Modulus \in Nat /\ h <= Modulus
  BY WordSizes, PowerStep, PowerOrder DEF Modulus
<1>2. HalfBits - 1 \in Nat
  BY WordSizes
<1>3. q \in Nat
  BY <1>2, PowerStep
<1>4. (raw % h) = raw
  <2>. HIDE DEF h
  <2>. QED BY <1>1, DivModUnique, raw = h * 0 + raw DEF h
<1>5. SignExtended(raw, HalfBits) = (raw % h) + (IF (raw % h) >= q THEN Modulus - h ELSE 0)
  BY Zenon DEF SignExtended
<1>. HIDE DEF h, q
<1>6. SignExtended(raw, HalfBits) = IF raw >= q THEN raw + (Modulus - h) ELSE raw
  BY <1>1, <1>3, <1>4, <1>5 DEF h
<1>7. SignExtended(raw, HalfBits) \in Words
  BY <1>1, <1>3, <1>6, WordRange DEF h
<1>. QED BY <1>6, <1>7 DEF h, q

\* What the native code loads is what the interpreter loads.
LEMMA LoadedValue ==
  ASSUME NEW op \in LoadOps, NEW raw \in Nat,
         memory_width(op) = 1 => raw \in Bytes, memory_width(op) = 2 => raw \in 0 .. (TwoTo[HalfBits] - 1),
         memory_width(op) = 4 => raw \in Words
  PROVE  /\ Converted(op, raw) \in Words
         /\ LET x == op \in {"lha", "lhax", "lhaux"} IN
            Swapped(op, IF x /\ memory_width(op) = 2 /\ raw >= TwoTo[HalfBits - 1]
                        THEN raw + (Modulus - TwoTo[HalfBits]) ELSE raw) = Converted(op, raw)
<1>1. raw \in Words
  <2>1. memory_width(op) \in {1, 2, 4}
    BY LoadTables DEF LoadOps
  <2>. QED BY <2>1, HalfAndByteWords
<1>2. CASE op \in {"lha", "lhax", "lhaux"}
  <2>1. memory_width(op) = 2 /\ op # "lwbrx" /\ op # "lhbrx"
    BY <1>2, LoadTables
  <2>2. /\ SignExtended(raw, HalfBits) \in Words
        /\ SignExtended(raw, HalfBits)
             = IF raw >= TwoTo[HalfBits - 1] THEN raw + (Modulus - TwoTo[HalfBits]) ELSE raw
    BY <2>1, SignedHalf
  <2>. QED BY <1>2, <2>1, <2>2 DEF Converted, Swapped
<1>3. CASE op = "lwbrx"
  <2>1. Reversed(raw, 4) \in 0 .. (TwoTo[ByteBits * 4] - 1)
    <3>1. raw \in Int /\ 4 \in Nat
      OBVIOUS
    <3>. QED BY <3>1, ReversedFits, Zenon
  <2>2. Reversed(raw, 4) \in Words
    BY <2>1, ByteSizes DEF Words
  <2>. QED BY <1>3, <2>2 DEF Converted, Swapped
<1>4. CASE op = "lhbrx"
  <2>1. Reversed(raw, 2) \in 0 .. (TwoTo[ByteBits * 2] - 1)
    <3>1. raw \in Int /\ 2 \in Nat
      OBVIOUS
    <3>. QED BY <3>1, ReversedFits, Zenon
  <2>2. Reversed(raw, 2) \in Words
    BY <2>1, ByteSizes, HalfAndByteWords
  <2>. QED BY <1>4, <2>2 DEF Converted, Swapped
<1>5. CASE op \notin {"lha", "lhax", "lhaux", "lwbrx", "lhbrx"}
  BY <1>1, <1>5 DEF Converted, Swapped
<1>. QED BY <1>2, <1>3, <1>4, <1>5

\* Marking a register that was not fetched fetches it first.
LEMMA StandsMarked ==
  ASSUME NEW n, NEW s, NEW m, Stands(n, s, m), NEW r \in Gprs, NEW D, n.dirty \subseteq D,
         D \subseteq DOMAIN n.host \cup {r}
  PROVE  Stands([n EXCEPT !.host = [q \in DOMAIN n.host \cup {r} |-> Guest(n, q)], !.dirty = D], s, m)
<1>. DEFINE h == [q \in DOMAIN n.host \cup {r} |-> Guest(n, q)]
            k == NativeOf(n.state, h, D, n.memory, n.exit)
<1>1. IsNative(n) /\ n.exit = "no" /\ IsMachine(s) /\ View(n, s.cia) = s /\ Near(n.memory, m)
  BY DEF Stands
<1>2. DOMAIN n.host \subseteq Gprs /\ n.dirty \subseteq DOMAIN n.host /\ IsMachine(n.state) /\ IsMemory(n.memory)
  BY <1>1, NativeFields
<1>3. \A q \in DOMAIN h : h[q] = Guest(n, q) /\ Guest(n, q) \in Words /\ q \in Gprs
  BY <1>1, <1>2, GuestsAre
<1>4. DOMAIN h = DOMAIN n.host \cup {r} /\ h \in [DOMAIN h -> Words]
  BY <1>3
<1>. HIDE DEF h
<1>5. [n EXCEPT !.host = h, !.dirty = D] = k
  BY <1>1, NativeHosts, Zenon
<1>6. k.state = n.state /\ k.host = h /\ k.dirty = D /\ k.memory = n.memory /\ k.exit = n.exit
        /\ k = [state |-> k.state, host |-> k.host, dirty |-> k.dirty, memory |-> k.memory, exit |-> k.exit]
  BY DEF NativeOf
<1>. HIDE DEF k
<1>7. \A q \in DOMAIN h \ D : h[q] = n.state.gpr[q]
  BY <1>1, <1>3, <1>4 DEF Guest, IsNative
<1>8. IsNative(k)
  BY <1>2, <1>3, <1>4, <1>6, <1>7 DEF IsNative
<1>9. \A q \in Gprs : Guest(k, q) = Guest(n, q)
  BY <1>3, <1>4, <1>6 DEF Guest
<1>10. Guests(k) = Guests(n)
  BY <1>9 DEF Guests
<1>11. View(k, s.cia) = View(n, s.cia)
  BY <1>6, <1>10, SameView
<1>12. Stands(k, s, m)
  BY <1>1, <1>6, <1>8, <1>11 DEF Stands
<1>. QED BY <1>5, <1>12 DEF h

\* A register written, and then perhaps the base.
LEMMA StandsBase ==
  ASSUME NEW n, NEW s, NEW g \in [Gprs -> Words], NEW m, Stands(n, WithGprs(s, g), m), IsMachine(s),
         NEW op, NEW i, i.base \in Gprs, NEW a \in Words
  PROVE  Stands(WithBase(op, n, i, a), WithGprs(s, WithUpdate(op, i, g, a)), m)
<1>. DEFINE t == WithGprs(s, g)
            h == Slot(g, i.base, a)
            k == write_guest_gpr(n, i.base, a)
<1>1. t.gpr = g /\ \A x : WithGprs(t, x) = WithGprs(s, x)
  BY GprsUpdate, UpdatesCommute
<1>. HIDE DEF t
<1>2. Stands(k, WithGprs(t, Slot(t.gpr, i.base, a)), m)
  BY StandsWrite DEF t
<1>3. WithGprs(t, Slot(t.gpr, i.base, a)) = WithGprs(s, h)
  BY <1>1
<1>. HIDE DEF k, h
<1>4. Stands(k, WithGprs(s, h), m)
  BY <1>2, <1>3
<1>5. CASE UpdatesBase(op)
  <2>1. WithBase(op, n, i, a) = k /\ WithUpdate(op, i, g, a) = h
    BY <1>5 DEF WithBase, WithUpdate, k, h
  <2>. QED BY <1>4, <2>1
<1>6. CASE ~UpdatesBase(op)
  <2>1. WithBase(op, n, i, a) = n /\ WithUpdate(op, i, g, a) = g
    BY <1>6 DEF WithBase, WithUpdate
  <2>. QED BY <2>1
<1>. QED BY <1>5, <1>6
LEMMA FetchedBase ==
  ASSUME NEW n, NEW i, NEW indexed
  PROVE  i.base # 0 => i.base \in DOMAIN FetchAddress(n, i, indexed).host
<1>. DEFINE S == (IF i.base = 0 THEN {} ELSE {i.base}) \cup (IF indexed THEN {i.source} ELSE {})
<1>1. FetchAddress(n, i, indexed) = [n EXCEPT !.host = [r \in DOMAIN n.host \cup S |-> Guest(n, r)]]
  BY Zenon DEF FetchAddress, read_guest_gpr
<1>2. i.base # 0 => i.base \in S
  OBVIOUS
<1>. HIDE DEF S
<1>. DEFINE k == FetchAddress(n, i, indexed)
<1>. QED BY <1>1, <1>2

LEMMA LoadFaults ==
  ASSUME NEW op, NEW n, NEW s, NEW m, Stands(n, s, m), NEW i, IsInsn(i),
         UpdatesBase(op) => i.base \in DOMAIN n.host
  PROVE  Agrees(s, m, Core(s, m, "fault"), FaultedLoad(op, n, i, s.cia))
<1>. DEFINE r == i.destination
            D == n.dirty \cup {r} \cup (IF UpdatesBase(op) THEN {i.base} ELSE {})
            k == [n EXCEPT !.host = [q \in DOMAIN n.host \cup {r} |-> Guest(n, q)], !.dirty = D]
<1>1. r \in Gprs /\ n.dirty \subseteq D /\ D \subseteq DOMAIN n.host \cup {r}
  <2>1. n.dirty \subseteq DOMAIN n.host
    BY DEF Stands, IsNative
  <2>. QED BY <2>1 DEF IsInsn
<1>2. FaultedLoad(op, n, i, s.cia) = FlushReturn(k, "fault", s.cia)
  BY Zenon DEF FaultedLoad
<1>. HIDE DEF D
<1>3. Stands(k, s, m)
  <2>. HIDE DEF r
  <2>. QED BY <1>1, StandsMarked, Zenon DEF r
<1>. HIDE DEF k
<1>4. Agrees(s, m, Core(s, m, "fault"), FlushReturn(k, "fault", s.cia))
  BY <1>3, StandsFaults
<1>. QED BY <1>2, <1>4

LEMMA LoadAgrees ==
  ASSUME NEW op \in LoadOps, NEW n, NEW s, NEW m, Stands(n, s, m), Told(s, m), NEW i, IsInsn(i),
         op \in Updates => i.base # 0
  PROVE  Agrees(s, m, ExecuteLoad(op, Core(s, m, "none"), i), EmittedLoad(op, n, i, s.cia))
<1>. DEFINE X == is_indexed_memory(op)
            w == memory_width(op)
            a == Addressed(s, i, X)
            k == FetchAddress(n, i, X)
            c == Core(s, m, "none")
            raw == ReadValue(m, a, w)
            v == Converted(op, raw)
            sign == op \in {"lha", "lhax", "lhaux"}
            direct == ~sign /\ Flat(a, w)
            called == IF direct THEN k ELSE Announced(k, s.cia)
            value == IF direct THEN FlatRead(k, a, w) ELSE native_memory_access(k, a, w, sign)
            d == ExecuteLoad(op, c, i)
            e == EmittedLoad(op, n, i, s.cia)
            g == Slot(s.gpr, i.destination, v)
<1>1. X \in BOOLEAN /\ w \in {1, 2, 4} /\ (UpdatesBase(op) => i.base # 0)
  BY LoadTables, BasedOps DEF LoadOps
<1>2. IsMachine(s) /\ IsMemory(m) /\ s.gpr \in [Gprs -> Words] /\ i.destination \in Gprs /\ i.base \in Gprs
  BY StandsFacts DEF IsInsn
<1>3. a \in Words
  BY <1>1, <1>2, AddressedWord
<1>4. Stands(k, s, m) /\ k.memory = n.memory /\ Address(k, i, X) = a /\ (i.base # 0 => i.base \in DOMAIN k.host)
  BY <1>1, StandsFetch, FetchedBase
<1>5. Near(k.memory, m) /\ IsMemory(k.memory)
  BY <1>4 DEF Stands, Near
<1>6. Stands(called, s, m) /\ DOMAIN called.host = DOMAIN k.host
  <2>. DEFINE b == Announced(k, s.cia)
  <2>1. Stands(b, s, m) /\ b.host = k.host
    BY <1>4, StandsTold
  <2>. HIDE DEF b
  <2>. QED BY <1>4, <2>1 DEF b
<1>7. d = Based(op, c, PlainLoad(c, i, a, w, v), i, a)
  <2>1. AddressIn(op, c, i) = a
    BY <1>1, <1>2, InAddress
  <2>2. c.memory = m
    BY CoreUpdates
  <2>. HIDE DEF c, a, w, d
  <2>. QED BY <2>1, <2>2, LoadShape, Zenon DEF d, v, raw, w
<1>8. e = IF ~direct /\ ~Accessible(a, w) THEN FaultedLoad(op, called, i, s.cia)
          ELSE WithBase(op, write_guest_gpr(called, i.destination, Swapped(op, value)), i, a)
  <2>. DEFINE b == Address(k, i, X)
  <2>1. b = a
    BY <1>4
  <2>. HIDE DEF k
  <2>2. e = LET di == ~sign /\ Flat(b, w)
                ca == IF di THEN k ELSE Announced(k, s.cia)
                va == IF di THEN FlatRead(k, b, w) ELSE native_memory_access(k, b, w, sign)
            IN  IF ~di /\ ~Accessible(b, w) THEN FaultedLoad(op, ca, i, s.cia)
                ELSE WithBase(op, write_guest_gpr(ca, i.destination, Swapped(op, va)), i, b)
    BY Zenon DEF EmittedLoad, k
  <2>. HIDE DEF b, a, w, sign, e
  <2>. QED BY <2>1, <2>2, Zenon DEF direct, called, value
<1>9. direct => Accessible(a, w) /\ FlatRead(k, a, w) = ReadValue(k.memory, a, w)
  BY <1>1, <1>3, <1>5, FlatReadIs
<1>10. ReadValue(k.memory, a, w) = raw
  BY <1>5, NearReads
<1>11. CASE Accessible(a, w)
  <2>1. raw \in Nat /\ (w = 1 => raw \in Bytes) /\ (w = 2 => raw \in 0 .. (TwoTo[HalfBits] - 1)) /\ (w = 4 => raw \in Words)
    <3>1. w = 1 => raw \in Bytes
      BY <1>2, <1>3, <1>11, ReadWidths
    <3>2. w = 2 => raw \in 0 .. (TwoTo[HalfBits] - 1)
      BY <1>2, <1>3, <1>11, ReadWidths
    <3>3. w = 4 => raw \in Words
      BY <1>2, <1>3, <1>11, ReadWidths
    <3>. HIDE DEF raw, w
    <3>4. raw \in Words
      BY <1>1, <3>1, <3>2, <3>3, HalfAndByteWords
    <3>. QED BY <3>1, <3>2, <3>3, <3>4, WordRange
  <2>2. v \in Words /\ Swapped(op, value) = v
    <3>. DEFINE x == IF sign /\ w = 2 /\ raw >= TwoTo[HalfBits - 1] THEN raw + (Modulus - TwoTo[HalfBits]) ELSE raw
    <3>. HIDE DEF raw
    <3>1. v \in Words /\ Swapped(op, x) = v
      BY <2>1, LoadedValue, Zenon
    <3>2. value = x
      <4>1. native_memory_access(k, a, w, sign) = x
        BY <1>10, Zenon DEF native_memory_access
      <4>2. direct => x = raw
        OBVIOUS
      <4>. HIDE DEF x
      <4>. QED BY <1>9, <1>10, <4>1, <4>2
    <3>. HIDE DEF x, value, v
    <3>. QED BY <3>1, <3>2
  <2>. HIDE DEF a, v, X, w, k, c, value, d, e
  <2>3. e = WithBase(op, write_guest_gpr(called, i.destination, v), i, a)
    BY <1>8, <1>11, <2>2
  <2>. HIDE DEF called
  <2>. DEFINE e1 == write_guest_gpr(called, i.destination, v)
  <2>4. Stands(e1, WithGprs(s, g), m) /\ g \in [Gprs -> Words]
    BY <1>2, <1>6, <2>2, StandsWrite, SlotWords
  <2>. HIDE DEF e1, g
  <2>. DEFINE t == WithGprs(s, WithUpdate(op, i, g, a))
  <2>5. Stands(WithBase(op, e1, i, a), t, m)
    BY <1>2, <1>3, <2>4, StandsBase
  <2>6. t.cia = s.cia
    <3>1. WithUpdate(op, i, g, a) \in [Gprs -> Words]
      BY <2>4, <1>2, <1>3, SlotWords DEF WithUpdate
    <3>. QED BY <3>1, <1>2, GprsUpdate
  <2>7. d = Core(t, m, "none")
    <3>1. PlainLoad(c, i, a, w, v) = Core(WithGprs(s, g), m, "none")
      BY <1>11, PlainLoadIs DEF c, g
    <3>2. Based(op, c, Core(WithGprs(s, g), m, "none"), i, a) = Core(t, m, "none")
      <4>1. UpdateBase(Core(s, m, "none"), Core(WithGprs(s, g), m, "none"), i, a)
              = Core(WithGprs(s, Slot(g, i.base, a)), m, "none")
        BY <1>2, <2>4, CoreBase
      <4>. QED BY <4>1, Zenon DEF Based, c, WithUpdate
    <3>. QED BY <1>7, <3>1, <3>2
  <2>. HIDE DEF t
  <2>8. Agrees(s, m, Core(t, m, "none"), WithBase(op, e1, i, a))
    BY <2>5, <2>6, AgreesMoved
  <2>. QED BY <2>3, <2>7, <2>8 DEF e1, d, e, c
<1>12. CASE ~Accessible(a, w)
  <2>. HIDE DEF a, v, X, w, k, c, value, d, e
  <2>1. e = FaultedLoad(op, called, i, s.cia)
    BY <1>8, <1>9, <1>12
  <2>2. d = Core(s, m, "fault")
    <3>1. PlainLoad(c, i, a, w, v) = Core(s, m, "fault")
      BY <1>12, PlainLoadIs DEF c
    <3>2. Based(op, c, Core(s, m, "fault"), i, a) = Core(s, m, "fault")
      BY CoreBaseFault DEF Based, c
    <3>. QED BY <1>7, <3>1, <3>2
  <2>3. UpdatesBase(op) => i.base \in DOMAIN called.host
    BY <1>1, <1>4, <1>6
  <2>. HIDE DEF called
  <2>4. Agrees(s, m, Core(s, m, "fault"), FaultedLoad(op, called, i, s.cia))
    BY <1>6, <2>3, LoadFaults
  <2>. QED BY <2>1, <2>2, <2>4 DEF d, e, c
<1>. QED BY <1>11, <1>12
\* A store of the interpreter, with its base update.
StoresTo(op, s, m, i, a, w, v) ==
  IF Accessible(a, w)
  THEN Core(WithGprs(s, WithUpdate(op, i, s.gpr, a)), WriteValue(m, s.gpr, a, w, v), "none")
  ELSE Core(s, m, "fault")

LEMMA StoreIs ==
  ASSUME NEW s, NEW m, NEW a, NEW w, NEW v
  PROVE  Store(Core(s, m, "none"), a, w, v)
           = IF Accessible(a, w) THEN Core(s, WriteValue(m, s.gpr, a, w, v), "none") ELSE Core(s, m, "fault")
BY DEF Store, Core, Fault

LEMMA BasedStore ==
  ASSUME NEW op, NEW s, IsMachine(s), NEW m, NEW i, NEW a, NEW w, NEW v
  PROVE  Based(op, Core(s, m, "none"), Store(Core(s, m, "none"), a, w, v), i, a) = StoresTo(op, s, m, i, a, w, v)
<1>. DEFINE k == WriteValue(m, s.gpr, a, w, v)
            c == Core(s, m, "none")
<1>1. s.gpr \in [Gprs -> Words] /\ WithGprs(s, s.gpr) = s
  BY MachineTypes, UpdatesCommute
<1>2. Store(c, a, w, v) = IF Accessible(a, w) THEN Core(s, k, "none") ELSE Core(s, m, "fault")
  BY StoreIs
<1>3. UpdateBase(c, Core(WithGprs(s, s.gpr), k, "none"), i, a) = Core(WithGprs(s, Slot(s.gpr, i.base, a)), k, "none")
  <2>. HIDE DEF k
  <2>. QED BY <1>1, CoreBase
<1>4. UpdateBase(c, Core(s, m, "fault"), i, a) = Core(s, m, "fault")
  BY CoreBaseFault
<1>. HIDE DEF c, k
<1>. QED BY <1>1, <1>2, <1>3, <1>4 DEF Based, StoresTo, WithUpdate, c, k

\* The value a store writes, from the registers of the machine.
ValueIn(op, s, i) ==
  CASE op = "stfiwx"  -> s.fpr[i.fp_register] % Modulus
    [] op = "stwbrx"  -> Reversed(s.gpr[i.destination], 4)
    [] op = "sthbrx"  -> Reversed(s.gpr[i.destination], 2)
    [] op \in SingleStores -> Narrow(s.fpr[i.fp_register])
    [] op \in DoubleStores -> s.fpr[i.fp_register]
    [] OTHER          -> s.gpr[i.destination]

LEMMA ValueInInt ==
  ASSUME NEW op, NEW s, IsMachine(s), NEW i, IsInsn(i)
  PROVE  ValueIn(op, s, i) \in Int
<1>1. s.gpr[i.destination] \in Int /\ s.fpr[i.fp_register] \in Nat
  BY MachineTypes, WordRange DEF IsInsn
<1>2. Reversed(s.gpr[i.destination], 4) \in Int /\ Reversed(s.gpr[i.destination], 2) \in Int
  <2>. DEFINE g == s.gpr[i.destination]
  <2>. HIDE DEF g
  <2>1. g \in Int /\ 4 \in Nat /\ 2 \in Nat
    BY <1>1 DEF g
  <2>2. Reversed(g, 4) \in 0 .. (TwoTo[ByteBits * 4] - 1)
    BY <2>1, ReversedFits, Zenon
  <2>3. Reversed(g, 2) \in 0 .. (TwoTo[ByteBits * 2] - 1)
    BY <2>1, ReversedFits, Zenon
  <2>4. TwoTo[ByteBits * 4] \in Int /\ TwoTo[ByteBits * 2] \in Int
    <3>1. HalfBits \in Nat /\ WordBits \in Nat
      BY WordSizes
    <3>2. TwoTo[HalfBits] \in Int /\ TwoTo[WordBits] \in Int
      BY <3>1, PowerStep
    <3>. QED BY <3>2, ByteSizes DEF Modulus
  <2>. QED BY <2>2, <2>3, <2>4 DEF g
<1>3. s.fpr[i.fp_register] % Modulus \in Int /\ s.fpr[i.fp_register] \div Modulus \in Int
  <2>1. Modulus \in Nat /\ Modulus > 0
    BY WordSizes
  <2>. QED BY <1>1, <2>1, DivMod
<1>. QED BY <1>1, <1>2, <1>3 DEF ValueIn, Narrow

LEMMA StoredValueIs ==
  ASSUME NEW op, NEW n, NEW s, NEW m, Stands(n, s, m), NEW i, IsInsn(i)
  PROVE  StoredValue(op, n, i) = ValueIn(op, s, i)
<1>1. n.state.fpr = s.fpr /\ Guest(n, i.destination) = s.gpr[i.destination]
  BY StandsFacts DEF IsInsn
<1>. QED BY <1>1 DEF StoredValue, ValueIn

LEMMA AddressOfStands ==
  ASSUME NEW n, NEW s, NEW m, Stands(n, s, m), NEW i, IsInsn(i), NEW indexed
  PROVE  Address(n, i, indexed) = Addressed(s, i, indexed)
<1>1. Guest(n, i.base) = s.gpr[i.base] /\ Guest(n, i.source) = s.gpr[i.source]
  BY StandsFacts DEF IsInsn
<1>. QED BY <1>1 DEF Address, Addressed

LEMMA StoreAgrees ==
  ASSUME NEW op, NEW n, NEW s, NEW m, Stands(n, s, m), Told(s, m), NEW i, IsInsn(i), NEW b,
         UpdatesBase(op) => i.base # 0, memory_width(op) \in Nat
  PROVE  Agrees(s, m,
           StoresTo(op, s, m, i, Addressed(s, i, is_indexed_memory(op)), memory_width(op), ValueIn(op, s, i)),
           EmittedStore(op, n, i, s.cia, b))
<1>. DEFINE X == is_indexed_memory(op)
            w == memory_width(op)
            a == Addressed(s, i, X)
            v == ValueIn(op, s, i)
            f0 == FetchAddress(n, i, X)
            f == FetchStored(op, f0, i)
            k == IF Watched(n) THEN flush_guest_gprs(f) ELSE f
            t == Announced(k, s.cia)
            put == Stored(t, a, w, v)
            done == WithBase(op, put, i, a)
            e == EmittedStore(op, n, i, s.cia, b)
            g == WithUpdate(op, i, s.gpr, a)
            mm == WriteValue(m, s.gpr, a, w, v)
            d == StoresTo(op, s, m, i, a, w, v)
<1>1. X \in BOOLEAN
  BY DEF is_indexed_memory
<1>2. IsMachine(s) /\ IsMemory(m) /\ s.gpr \in [Gprs -> Words] /\ i.destination \in Gprs /\ i.base \in Gprs
      /\ WithGprs(s, s.gpr) = s
  BY StandsFacts, UpdatesCommute DEF IsInsn
<1>3. a \in Words /\ v \in Int
  BY <1>1, <1>2, AddressedWord, ValueInInt
<1>4. Stands(f, s, m) /\ f.memory = n.memory
  <2>1. Stands(f0, s, m) /\ f0.memory = n.memory
    BY <1>1, StandsFetch
  <2>. HIDE DEF f0
  <2>. DEFINE r == read_guest_gpr(f0, {i.destination})
  <2>2. Stands(r, s, m) /\ r.memory = n.memory
    <3>1. {i.destination} \in SUBSET Gprs
      BY <1>2
    <3>. QED BY <2>1, <3>1, StandsRead
  <2>. QED BY <2>1, <2>2 DEF FetchStored
<1>. HIDE DEF f
<1>5. /\ Stands(k, s, m) /\ k.memory = n.memory
      /\ k.state.gpr = s.gpr \/ m.watch = {}
  <2>. DEFINE q == flush_guest_gprs(f)
  <2>1. Stands(q, s, m) /\ q.memory = f.memory /\ q.state.gpr = s.gpr
    BY <1>4, StandsFlush
  <2>2. n.memory.watch = m.watch
    BY DEF Stands, Near
  <2>. HIDE DEF q
  <2>. QED BY <1>4, <2>1, <2>2 DEF Watched, q
<1>. HIDE DEF k
<1>6. Stands(t, s, m) /\ t.memory = m /\ t.state = k.state
  BY <1>5, StandsTold
<1>7. Address(k, i, X) = a /\ StoredValue(op, k, i) = v
  BY <1>5, AddressOfStands, StoredValueIs
<1>8. e = IF ~Accessible(a, w) THEN FlushReturn(t, "fault", s.cia)
          ELSE IF OverlapsBlock(b, a, w) THEN FlushReturn(done, "left", Unsigned(s.cia + 4)) ELSE done
  <2>. DEFINE aa == Address(k, i, X)
              vv == StoredValue(op, k, i)
              dd == WithBase(op, Stored(t, aa, w, vv), i, aa)
  <2>1. e = IF ~Accessible(aa, w) THEN FlushReturn(t, "fault", s.cia)
            ELSE IF OverlapsBlock(b, aa, w) THEN FlushReturn(dd, "left", Unsigned(s.cia + 4)) ELSE dd
    BY Zenon DEF EmittedStore, k, f
  <2>. HIDE DEF e, t, a, v, w
  <2>. QED BY <1>7, <2>1, Zenon
<1>. HIDE DEF t, e, a, v, w, X
<1>9. CASE Accessible(a, w)
  <2>1. Stands(put, s, mm) /\ IsMemory(mm)
    <3>1. w \in Nat
      BY DEF w
    <3>2. t.memory = m /\ (t.state.gpr = s.gpr \/ m.watch = {})
      BY <1>5, <1>6
    <3>. QED BY <1>3, <1>6, <3>1, <3>2, StandsStored
  <2>. HIDE DEF put, mm
  <2>2. Stands(done, WithGprs(s, g), mm)
    <3>1. Stands(put, WithGprs(s, s.gpr), mm)
      BY <1>2, <2>1
    <3>. QED BY <1>2, <1>3, <3>1, StandsBase
  <2>3. WithGprs(s, g).cia = s.cia
    <3>1. g \in [Gprs -> Words]
      BY <1>2, <1>3, SlotWords DEF WithUpdate
    <3>. QED BY <1>2, <3>1, GprsUpdate
  <2>4. d = Core(WithGprs(s, g), mm, "none")
    BY <1>9 DEF StoresTo, mm
  <2>. HIDE DEF g, d, done
  <2>5. Agrees(s, m, d, done) /\ Agrees(s, m, d, FlushReturn(done, "left", Unsigned(s.cia + 4)))
    BY <2>2, <2>3, <2>4, AgreesMoved
  <2>. QED BY <1>8, <1>9, <2>5 DEF e, d, a, w, v, X
<1>10. CASE ~Accessible(a, w)
  <2>1. d = Core(s, m, "fault")
    BY <1>10 DEF StoresTo
  <2>2. Agrees(s, m, Core(s, m, "fault"), FlushReturn(t, "fault", s.cia))
    BY <1>6, StandsFaults
  <2>. HIDE DEF d
  <2>. QED BY <1>8, <1>10, <2>1, <2>2 DEF e, d, a, w, v, X
<1>. QED BY <1>9, <1>10

LEMMA IntegerStoreAgrees ==
  ASSUME NEW op \in StoreOps, NEW n, NEW s, NEW m, Stands(n, s, m), Told(s, m), NEW i, IsInsn(i), NEW b,
         op \in Updates => i.base # 0
  PROVE  Agrees(s, m, ExecuteStore(op, Core(s, m, "none"), i), EmittedStore(op, n, i, s.cia, b))
<1>. DEFINE c == Core(s, m, "none")
            a == Addressed(s, i, is_indexed_memory(op))
            w == memory_width(op)
            v == ValueIn(op, s, i)
<1>1. (UpdatesBase(op) => i.base # 0) /\ w \in Nat /\ IsMachine(s)
  BY StoreTables, BasedOps, StandsFacts DEF StoreOps
<1>2. Valued(op, c, i) = v
  <2>1. c.state = s
    BY CoreUpdates
  <2>2. op \notin SingleStores /\ op \notin DoubleStores
    BY DEF StoreOps, SingleStores, DoubleStores
  <2>. HIDE DEF c
  <2>. QED BY <2>1, <2>2 DEF Valued, ValueIn, Gpr
<1>3. AddressIn(op, c, i) = a
  BY <1>1, InAddress
<1>4. ExecuteStore(op, c, i) = Based(op, c, Store(c, a, w, v), i, a)
  <2>. HIDE DEF c, a, v, w
  <2>. QED BY <1>2, <1>3, StoreShape, Zenon DEF w
<1>5. ExecuteStore(op, c, i) = StoresTo(op, s, m, i, a, w, v)
  BY <1>1, <1>4, BasedStore
<1>. HIDE DEF c
<1>6. Agrees(s, m, StoresTo(op, s, m, i, a, w, v), EmittedStore(op, n, i, s.cia, b))
  BY <1>1, StoreAgrees
<1>. HIDE DEF a, w, v
<1>. QED BY <1>5, <1>6 DEF c
----------------------------------------------------------------------------
(* Floating-point registers.                                                *)

LEMMA StandsPairs ==
  ASSUME NEW n, NEW s, NEW m, Stands(n, s, m), NEW f \in [DOMAIN s.fpr -> Nat], NEW p \in [DOMAIN s.fpr -> Nat]
  PROVE  LET k == [n EXCEPT !.state = WithPairs(n.state, f, p)] IN
         /\ Stands(k, WithPairs(s, f, p), m) /\ k.memory = n.memory /\ k.state = WithPairs(n.state, f, p)
         /\ k.host = n.host /\ k.dirty = n.dirty
<1>. DEFINE z == WithPairs(n.state, f, p)
            t == WithPairs(s, f, p)
            k == [n EXCEPT !.state = z]
            u == WithGprs(n.state, Guests(n))
<1>1. IsNative(n) /\ n.exit = "no" /\ IsMachine(s) /\ View(n, s.cia) = s /\ Near(n.memory, m) /\ IsMachine(n.state)
      /\ Guests(n) \in [Gprs -> Words]
  BY GuestsAre DEF Stands, IsNative
<1>2. n.state.fpr = s.fpr /\ s.cia \in Words
  BY StandsFacts
<1>3. IsMachine(z) /\ z.gpr = n.state.gpr
  BY <1>1, <1>2, PairsUpdate
<1>4. IsMachine(t) /\ t.cia = s.cia
  BY <1>1, PairsUpdate
<1>5. View(n, s.cia) = At(u, s.cia) /\ IsMachine(u)
  BY <1>1, GprsUpdate DEF View
<1>6. WithGprs(z, Guests(n)) = WithPairs(u, f, p)
  BY <1>1, UpdatesCommute
<1>7. At(WithPairs(u, f, p), s.cia) = WithPairs(At(u, s.cia), f, p)
  <2>. HIDE DEF u
  <2>. QED BY <1>5, UpdatesCommute
<1>. HIDE DEF z, u
<1>8. IsNative(k) /\ k.state = z /\ k.memory = n.memory /\ k.exit = n.exit /\ Guests(k) = Guests(n)
      /\ k.host = n.host /\ k.dirty = n.dirty
  BY <1>1, <1>3, StateUpdate
<1>. HIDE DEF k
<1>9. View(k, s.cia) = t
  BY <1>1, <1>5, <1>6, <1>7, <1>8 DEF View
<1>. HIDE DEF t
<1>10. Stands(k, t, m)
  BY <1>1, <1>4, <1>8, <1>9 DEF Stands
<1>. QED BY <1>8, <1>10 DEF k, t, z

LEMMA StandsLink ==
  ASSUME NEW n, NEW s, NEW m, Stands(n, s, m), NEW v \in BOOLEAN, NEW a \in Words
  PROVE  LET k == [n EXCEPT !.state = WithLink(n.state, v, a)] IN
         /\ Stands(k, WithLink(s, v, a), m) /\ k.memory = n.memory /\ k.state = WithLink(n.state, v, a)
         /\ k.host = n.host /\ k.dirty = n.dirty
<1>. DEFINE z == WithLink(n.state, v, a)
            t == WithLink(s, v, a)
            k == [n EXCEPT !.state = z]
            u == WithGprs(n.state, Guests(n))
<1>1. IsNative(n) /\ n.exit = "no" /\ IsMachine(s) /\ View(n, s.cia) = s /\ Near(n.memory, m) /\ IsMachine(n.state)
      /\ Guests(n) \in [Gprs -> Words]
  BY GuestsAre DEF Stands, IsNative
<1>2. n.state.fpr = s.fpr /\ s.cia \in Words
  BY StandsFacts
<1>3. IsMachine(z) /\ z.gpr = n.state.gpr
  BY <1>1, <1>2, LinkUpdate
<1>4. IsMachine(t) /\ t.cia = s.cia
  BY <1>1, LinkUpdate
<1>5. View(n, s.cia) = At(u, s.cia) /\ IsMachine(u)
  BY <1>1, GprsUpdate DEF View
<1>6. WithGprs(z, Guests(n)) = WithLink(u, v, a)
  BY <1>1, UpdatesCommute
<1>7. At(WithLink(u, v, a), s.cia) = WithLink(At(u, s.cia), v, a)
  <2>. HIDE DEF u
  <2>. QED BY <1>5, UpdatesCommute
<1>. HIDE DEF z, u
<1>8. IsNative(k) /\ k.state = z /\ k.memory = n.memory /\ k.exit = n.exit /\ Guests(k) = Guests(n)
      /\ k.host = n.host /\ k.dirty = n.dirty
  BY <1>1, <1>3, StateUpdate
<1>. HIDE DEF k
<1>9. View(k, s.cia) = t
  BY <1>1, <1>5, <1>6, <1>7, <1>8 DEF View
<1>. HIDE DEF t
<1>10. Stands(k, t, m)
  BY <1>1, <1>4, <1>8, <1>9 DEF Stands
<1>. QED BY <1>8, <1>10 DEF k, t, z

LEMMA StandsCr ==
  ASSUME NEW n, NEW s, NEW m, Stands(n, s, m), NEW bits \in SUBSET BitIndex
  PROVE  LET k == [n EXCEPT !.state = WithCr(n.state, bits)] IN
         /\ Stands(k, WithCr(s, bits), m) /\ k.memory = n.memory /\ k.state = WithCr(n.state, bits)
         /\ k.host = n.host /\ k.dirty = n.dirty
<1>. DEFINE z == WithCr(n.state, bits)
            t == WithCr(s, bits)
            k == [n EXCEPT !.state = z]
            u == WithGprs(n.state, Guests(n))
<1>1. IsNative(n) /\ n.exit = "no" /\ IsMachine(s) /\ View(n, s.cia) = s /\ Near(n.memory, m) /\ IsMachine(n.state)
      /\ Guests(n) \in [Gprs -> Words]
  BY GuestsAre DEF Stands, IsNative
<1>2. n.state.fpr = s.fpr /\ s.cia \in Words
  BY StandsFacts
<1>3. IsMachine(z) /\ z.gpr = n.state.gpr
  BY <1>1, <1>2, CrUpdate
<1>4. IsMachine(t) /\ t.cia = s.cia
  BY <1>1, CrUpdate
<1>5. View(n, s.cia) = At(u, s.cia) /\ IsMachine(u)
  BY <1>1, GprsUpdate DEF View
<1>6. WithGprs(z, Guests(n)) = WithCr(u, bits)
  BY <1>1, UpdatesCommute
<1>7. At(WithCr(u, bits), s.cia) = WithCr(At(u, s.cia), bits)
  <2>. HIDE DEF u
  <2>. QED BY <1>5, UpdatesCommute
<1>. HIDE DEF z, u
<1>8. IsNative(k) /\ k.state = z /\ k.memory = n.memory /\ k.exit = n.exit /\ Guests(k) = Guests(n)
      /\ k.host = n.host /\ k.dirty = n.dirty
  BY <1>1, <1>3, StateUpdate
<1>. HIDE DEF k
<1>9. View(k, s.cia) = t
  BY <1>1, <1>5, <1>6, <1>7, <1>8 DEF View
<1>. HIDE DEF t
<1>10. Stands(k, t, m)
  BY <1>1, <1>4, <1>8, <1>9 DEF Stands
<1>. QED BY <1>8, <1>10 DEF k, t, z

LEMMA CoreBaseAny ==
  ASSUME NEW s, NEW m, NEW t, NEW k, NEW i, NEW a
  PROVE  UpdateBase(Core(s, m, "none"), Core(t, k, "none"), i, a)
           = Core(WithGprs(t, Slot(t.gpr, i.base, a)), k, "none")
<1>1. [Core(t, k, "none") EXCEPT !.state.gpr[i.base] = a] = Core(WithGprs(t, Slot(t.gpr, i.base, a)), k, "none")
  BY DEF Core, WithGprs, Slot
<1>2. Core(s, m, "none").stop = "none" /\ Core(t, k, "none").stop = "none"
  BY CoreUpdates
<1>. QED BY <1>1, <1>2 DEF UpdateBase

\* An access that changed no general register, and then the base.
LEMMA UpdateAgrees ==
  ASSUME NEW n, NEW t, NEW w, Stands(n, t, w), NEW s, NEW m, t.cia = s.cia, NEW i, IsInsn(i), NEW a \in Words
  PROVE  Agrees(s, m, UpdateBase(Core(s, m, "none"), Core(t, w, "none"), i, a), write_guest_gpr(n, i.base, a))
<1>. DEFINE g == Slot(t.gpr, i.base, a)
            u == WithGprs(t, g)
            k == write_guest_gpr(n, i.base, a)
<1>1. IsMachine(t) /\ t.gpr \in [Gprs -> Words] /\ i.base \in Gprs
  BY StandsFacts DEF IsInsn
<1>2. g \in [Gprs -> Words]
  BY <1>1, SlotWords
<1>3. Stands(k, u, w)
  BY <1>1, StandsWrite
<1>. HIDE DEF g
<1>4. u.cia = s.cia
  BY <1>1, <1>2, GprsUpdate
<1>5. UpdateBase(Core(s, m, "none"), Core(t, w, "none"), i, a) = Core(u, w, "none")
  BY CoreBaseAny DEF g
<1>. HIDE DEF u, k
<1>6. Agrees(s, m, Core(u, w, "none"), k)
  BY <1>3, <1>4, AgreesMoved
<1>. QED BY <1>5, <1>6 DEF k

\* A value put in a floating-point register, or in its two halves, of a core or a native machine.
SetPair(c, r, x, y) == [c EXCEPT !.state.fpr[r] = x, !.state.ps1[r] = y]
SetFirst(c, r, x)   == [c EXCEPT !.state.fpr[r] = x]
ToState(n, s)       == [n EXCEPT !.state = s]

WithFpr(s, f)       == [s EXCEPT !.fpr = f]
WithPs1(s, p)       == [s EXCEPT !.ps1 = p]

LEMMA PairSteps ==
  ASSUME NEW s, IsMachine(s), NEW f, NEW p
  PROVE  LET t == WithFpr(s, f) IN
         t.ps1 = s.ps1 /\ t = WithPairs(s, f, s.ps1) /\ WithPs1(t, p) = WithPairs(s, f, p)
<1>. DEFINE t == [s EXCEPT !.fpr = f]
<1>1. s = [gpr |-> s.gpr, xer |-> s.xer, cr |-> s.cr, lr |-> s.lr, ctr |-> s.ctr, cia |-> s.cia,
           fpr |-> s.fpr, ps1 |-> s.ps1, gqr |-> s.gqr,
           reservation_valid |-> s.reservation_valid, reservation_address |-> s.reservation_address]
  BY MachineTypes
<1>2. t = [gpr |-> s.gpr, xer |-> s.xer, cr |-> s.cr, lr |-> s.lr, ctr |-> s.ctr, cia |-> s.cia,
           fpr |-> f, ps1 |-> s.ps1, gqr |-> s.gqr,
           reservation_valid |-> s.reservation_valid, reservation_address |-> s.reservation_address]
  BY <1>1
<1>3. \A q : WithPairs(s, f, q) = [t EXCEPT !.ps1 = q]
  BY DEF WithPairs
<1>. HIDE DEF t
<1>4. t.ps1 = s.ps1 /\ [t EXCEPT !.ps1 = s.ps1] = t
  BY <1>2
<1>. QED BY <1>3, <1>4 DEF t, WithFpr, WithPs1

LEMMA CorePairs ==
  ASSUME NEW s, IsMachine(s), NEW m, NEW r, NEW x, NEW y
  PROVE  /\ SetPair(Core(s, m, "none"), r, x, y)
              = Core(WithPairs(s, Slot(s.fpr, r, x), Slot(s.ps1, r, y)), m, "none")
         /\ SetFirst(Core(s, m, "none"), r, x) = Core(WithPairs(s, Slot(s.fpr, r, x), s.ps1), m, "none")
<1>. DEFINE c == Core(s, m, "none")
            f == Slot(s.fpr, r, x)
            p == Slot(s.ps1, r, y)
            t == WithFpr(s, f)
<1>1. SetPair(c, r, x, y) = [SetFirst(c, r, x) EXCEPT !.state.ps1[r] = y]
  BY DEF SetPair, SetFirst
<1>2. SetFirst(c, r, x) = Core(t, m, "none")
  BY DEF Core, Slot, SetFirst, WithFpr
<1>3. t.ps1 = s.ps1 /\ t = WithPairs(s, f, s.ps1) /\ WithPs1(t, p) = WithPairs(s, f, p)
  <2>. HIDE DEF f, p
  <2>. QED BY PairSteps
<1>. HIDE DEF t
<1>4. [Core(t, m, "none") EXCEPT !.state.ps1[r] = y] = Core(WithPs1(t, Slot(t.ps1, r, y)), m, "none")
  BY DEF Core, Slot, WithPs1
<1>. HIDE DEF c, f, p
<1>. QED BY <1>1, <1>2, <1>3, <1>4 DEF c, f, p

LEMMA NativePairs ==
  ASSUME NEW n, IsNative(n), NEW r, NEW x, NEW y
  PROVE  /\ SetPair(n, r, x, y) = ToState(n, WithPairs(n.state, Slot(n.state.fpr, r, x), Slot(n.state.ps1, r, y)))
         /\ SetFirst(n, r, x) = ToState(n, WithPairs(n.state, Slot(n.state.fpr, r, x), n.state.ps1))
<1>. DEFINE s == n.state
            f == Slot(s.fpr, r, x)
            p == Slot(s.ps1, r, y)
            t == WithFpr(s, f)
            At1(z) == NativeOf(z, n.host, n.dirty, n.memory, n.exit)
<1>0. n = At1(s) /\ IsMachine(s)
  BY NativeFields
<1>1. SetPair(n, r, x, y) = [SetFirst(n, r, x) EXCEPT !.state.ps1[r] = y]
  BY DEF SetPair, SetFirst
<1>2. SetFirst(n, r, x) = At1(t)
  BY <1>0 DEF Slot, NativeOf, SetFirst, WithFpr
<1>3. t.ps1 = s.ps1 /\ t = WithPairs(s, f, s.ps1) /\ WithPs1(t, p) = WithPairs(s, f, p)
  <2>. HIDE DEF s, f, p
  <2>. QED BY <1>0, PairSteps
<1>4. \A z : ToState(n, z) = At1(z)
  BY <1>0 DEF NativeOf, ToState
<1>. HIDE DEF t
<1>5. [At1(t) EXCEPT !.state.ps1[r] = y] = At1(WithPs1(t, Slot(t.ps1, r, y)))
  BY DEF NativeOf, Slot, WithPs1
<1>. HIDE DEF f, p, s, At1
<1>6. SetPair(n, r, x, y) = At1(WithPairs(s, f, p))
  BY <1>1, <1>2, <1>3, <1>5 DEF p
<1>7. SetFirst(n, r, x) = At1(WithPairs(s, f, s.ps1))
  BY <1>2, <1>3
<1>8. ToState(n, WithPairs(s, f, p)) = At1(WithPairs(s, f, p))
  BY <1>4
<1>9. ToState(n, WithPairs(s, f, s.ps1)) = At1(WithPairs(s, f, s.ps1))
  BY <1>4
<1>. QED BY <1>6, <1>7, <1>8, <1>9 DEF f, p, s

\* A load into a floating-point register, of both halves or of the first.
LEMMA PairsAgree ==
  ASSUME NEW n, NEW s, NEW m, Stands(n, s, m), NEW r \in DOMAIN s.fpr, NEW x \in Nat, NEW y \in Nat
  PROVE  LET t == WithPairs(s, Slot(s.fpr, r, x), Slot(s.ps1, r, y))
             k == SetPair(n, r, x, y)
         IN  /\ Stands(k, t, m) /\ t.cia = s.cia
             /\ SetPair(Core(s, m, "none"), r, x, y) = Core(t, m, "none")
<1>. DEFINE f == Slot(s.fpr, r, x)
            p == Slot(s.ps1, r, y)
<1>1. IsNative(n) /\ IsMachine(s) /\ n.state.fpr = s.fpr /\ n.state.ps1 = s.ps1
  BY StandsFacts
<1>2. f \in [DOMAIN s.fpr -> Nat] /\ p \in [DOMAIN s.fpr -> Nat]
  BY <1>1, MachineTypes DEF Slot
<1>3. SetPair(n, r, x, y) = ToState(n, WithPairs(n.state, f, p))
  BY <1>1, NativePairs
<1>4. SetPair(Core(s, m, "none"), r, x, y) = Core(WithPairs(s, f, p), m, "none")
  BY <1>1, CorePairs
<1>. HIDE DEF f, p
<1>5. Stands(ToState(n, WithPairs(n.state, f, p)), WithPairs(s, f, p), m)
  BY <1>2, StandsPairs DEF ToState
<1>6. WithPairs(s, f, p).cia = s.cia
  BY <1>1, <1>2, PairsUpdate
<1>. QED BY <1>3, <1>4, <1>5, <1>6 DEF f, p

LEMMA FirstAgrees ==
  ASSUME NEW n, NEW s, NEW m, Stands(n, s, m), NEW r \in DOMAIN s.fpr, NEW x \in Nat
  PROVE  LET t == WithPairs(s, Slot(s.fpr, r, x), s.ps1)
             k == SetFirst(n, r, x)
         IN  /\ Stands(k, t, m) /\ t.cia = s.cia
             /\ SetFirst(Core(s, m, "none"), r, x) = Core(t, m, "none")
<1>. DEFINE f == Slot(s.fpr, r, x)
            p == s.ps1
<1>1. IsNative(n) /\ IsMachine(s) /\ n.state.fpr = s.fpr /\ n.state.ps1 = s.ps1
  BY StandsFacts
<1>2. f \in [DOMAIN s.fpr -> Nat] /\ p \in [DOMAIN s.fpr -> Nat]
  BY <1>1, MachineTypes DEF Slot
<1>3. SetFirst(n, r, x) = ToState(n, WithPairs(n.state, f, p))
  BY <1>1, NativePairs
<1>4. SetFirst(Core(s, m, "none"), r, x) = Core(WithPairs(s, f, p), m, "none")
  BY <1>1, CorePairs
<1>. HIDE DEF f, p
<1>5. Stands(ToState(n, WithPairs(n.state, f, p)), WithPairs(s, f, p), m)
  BY <1>2, StandsPairs DEF ToState
<1>6. WithPairs(s, f, p).cia = s.cia
  BY <1>1, <1>2, PairsUpdate
<1>. QED BY <1>3, <1>4, <1>5, <1>6 DEF f, p
----------------------------------------------------------------------------
(* Floating-point loads and stores.                                         *)

SingleLoads == {"lfs", "lfsu", "lfsx", "lfsux"}
DoubleLoads == {"lfd", "lfdu", "lfdx", "lfdux"}

LEMMA FloatTables ==
  /\ \A op \in SingleLoads \cup DoubleLoads \cup SingleStores \cup DoubleStores :
       /\ is_indexed_memory(op) = (op \in {"lfsx", "lfsux", "lfdx", "lfdux", "stfsx", "stfsux", "stfdx", "stfdux"})
       /\ is_indexed_memory(op) \in BOOLEAN
       /\ memory_width(op) = (IF op \in DoubleStores THEN 8 ELSE 4)
       /\ op \in SingleStores \cup DoubleStores =>
            UpdatesBase(op) = (op \in {"stfsu", "stfsux", "stfdu", "stfdux"})
  /\ \A op \in PairLoads \cup PairStores :
       /\ is_indexed_memory(op) = (op \in {"psq_lx", "psq_lux", "psq_stx", "psq_stux"})
       /\ is_indexed_memory(op) \in BOOLEAN
<1>1. ASSUME NEW op \in DoubleLoads PROVE memory_width(op) = 4
  BY <1>1 DEF DoubleLoads, memory_width
<1>. QED
  BY <1>1 DEF SingleLoads, DoubleLoads, SingleStores, DoubleStores, PairLoads, PairStores,
     is_indexed_memory, memory_width, UpdatesBase

LEMMA FloatAddressIs ==
  ASSUME NEW op \in SingleLoads \cup DoubleLoads \cup SingleStores \cup DoubleStores,
         NEW s, IsMachine(s), NEW m, NEW i, IsInsn(i)
  PROVE  FloatAddress(op, Core(s, m, "none"), i) = Addressed(s, i, is_indexed_memory(op))
<1>1. /\ effective_address(Core(s, m, "none"), i) = Addressed(s, i, FALSE)
      /\ IndexedAddress(Core(s, m, "none"), i) = Addressed(s, i, TRUE)
  BY CoreAddresses, ZenonT(30)
<1>. QED BY <1>1, FloatTables DEF FloatAddress

LEMMA LoadedAgrees ==
  ASSUME NEW n, NEW t, NEW w, Stands(n, t, w), NEW s, NEW m, t.cia = s.cia, NEW i, IsInsn(i), NEW a \in Words,
         NEW U \in BOOLEAN
  PROVE  Agrees(s, m,
           IF U THEN UpdateBase(Core(s, m, "none"), Core(t, w, "none"), i, a) ELSE Core(t, w, "none"),
           IF U THEN write_guest_gpr(n, i.base, a) ELSE n)
<1>1. Agrees(s, m, UpdateBase(Core(s, m, "none"), Core(t, w, "none"), i, a), write_guest_gpr(n, i.base, a))
  BY UpdateAgrees
<1>2. Agrees(s, m, Core(t, w, "none"), n)
  BY AgreesMoved
<1>. QED BY <1>1, <1>2

LEMMA DoubleIsNat ==
  /\ \A x \in Nat : Widen(x) \in Nat /\ Narrow(x) \in Nat
  /\ One \in Nat /\ Widen(One) \in Nat
<1>1. Modulus \in Nat /\ Modulus > 0
  BY WordSizes
<1>2. \A x \in Nat : x * Modulus \in Nat /\ x \div Modulus \in Nat
  BY <1>1, DivMod
<1>. QED BY <1>2 DEF Widen, Narrow, One

LEMMA SingleLoadAgrees ==
  ASSUME NEW op \in SingleLoads, NEW n, NEW s, NEW m, Stands(n, s, m), Told(s, m), NEW i, IsInsn(i)
  PROVE  Agrees(s, m, lfs(op, Core(s, m, "none"), i), EmittedLoadSingle(op, n, i, s.cia))
<1>. DEFINE X == is_indexed_memory(op)
            a == Addressed(s, i, X)
            k == FetchAddress(n, i, X)
            c == Core(s, m, "none")
            x == Widen(ReadValue(m, a, 4))
            r == i.fp_register
            U == op \in {"lfsu", "lfsux"}
            d == lfs(op, c, i)
            e == EmittedLoadSingle(op, n, i, s.cia)
<1>1. X \in BOOLEAN /\ IsMachine(s) /\ IsMemory(m) /\ r \in DOMAIN s.fpr
  BY FloatTables, StandsFacts, MachineTypes DEF IsInsn
<1>2. a \in Words
  BY <1>1, AddressedWord
<1>3. Stands(k, s, m) /\ Address(k, i, X) = a
  BY <1>1, StandsFetch
<1>4. ReadValue(k.memory, a, 4) = ReadValue(m, a, 4)
  BY <1>3, NearReads DEF Stands
<1>5. FloatAddress(op, c, i) = a /\ c.memory = m
  BY <1>1, FloatAddressIs, CoreUpdates
<1>6. d = IF ~Accessible(a, 4) THEN Fault(c)
          ELSE IF U THEN UpdateBase(c, SetPair(c, r, x, x), i, a) ELSE SetPair(c, r, x, x)
  <2>. DEFINE b == FloatAddress(op, c, i)
              y == Widen(ReadValue(c.memory, b, 4))
  <2>1. d = IF ~Accessible(b, 4) THEN Fault(c) ELSE Updating(op, c, SetPair(c, r, y, y), i, b)
    BY Zenon DEF lfs, SetPair
  <2>2. \A z : Updating(op, c, z, i, a) = IF U THEN UpdateBase(c, z, i, a) ELSE z
    BY DEF Updating, SingleLoads
  <2>. HIDE DEF c, a, U, d
  <2>. QED BY <1>5, <2>1, <2>2
<1>7. e = IF ~Accessible(a, 4) THEN FlushReturn(k, "fault", s.cia)
          ELSE IF U THEN write_guest_gpr(SetPair(k, r, x, x), i.base, a) ELSE SetPair(k, r, x, x)
  <2>. DEFINE b == Address(k, i, X)
              y == Widen(ReadValue(k.memory, b, 4))
  <2>1. e = IF ~Accessible(b, 4) THEN FlushReturn(k, "fault", s.cia)
          ELSE IF U THEN write_guest_gpr(SetPair(k, r, y, y), i.base, b) ELSE SetPair(k, r, y, y)
    BY Zenon DEF EmittedLoadSingle, SetPair
  <2>. HIDE DEF k, a, U, e, X
  <2>. QED BY <1>3, <1>4, <2>1
<1>8. CASE Accessible(a, 4)
  <2>1. x \in Nat
    <3>1. ReadValue(m, a, 4) \in Nat
      BY <1>1, <1>2, <1>8, ReadWidths, WordRange
    <3>. QED BY <3>1, DoubleIsNat
  <2>. HIDE DEF x, a, k, X
  <2>. DEFINE t == WithPairs(s, Slot(s.fpr, r, x), Slot(s.ps1, r, x))
              q == SetPair(k, r, x, x)
  <2>2. Stands(q, t, m) /\ t.cia = s.cia /\ SetPair(c, r, x, x) = Core(t, m, "none")
    <3>. HIDE DEF r
    <3>. QED BY <1>1, <1>3, <2>1, PairsAgree DEF r
  <2>. HIDE DEF t, q
  <2>3. U \in BOOLEAN
    OBVIOUS
  <2>. HIDE DEF U
  <2>4. Agrees(s, m, IF U THEN UpdateBase(Core(s, m, "none"), Core(t, m, "none"), i, a) ELSE Core(t, m, "none"),
                     IF U THEN write_guest_gpr(q, i.base, a) ELSE q)
    BY <1>2, <2>2, <2>3, LoadedAgrees
  <2>. HIDE DEF d, e
  <2>. QED BY <1>6, <1>7, <1>8, <2>2, <2>4 DEF c, q, d, e
<1>9. CASE ~Accessible(a, 4)
  <2>1. d = Core(s, m, "fault")
    BY <1>6, <1>9, CoreUpdates
  <2>. HIDE DEF k, d, e
  <2>2. Agrees(s, m, Core(s, m, "fault"), FlushReturn(k, "fault", s.cia))
    BY <1>3, StandsFaults
  <2>. QED BY <1>7, <1>9, <2>1, <2>2 DEF d, e, c
<1>. QED BY <1>8, <1>9

LEMMA DoubleLoadAgrees ==
  ASSUME NEW op \in DoubleLoads, NEW n, NEW s, NEW m, Stands(n, s, m), Told(s, m), NEW i, IsInsn(i)
  PROVE  Agrees(s, m, lfd(op, Core(s, m, "none"), i), EmittedLoadDouble(op, n, i, s.cia))
<1>. DEFINE X == is_indexed_memory(op)
            a == Addressed(s, i, X)
            k == FetchAddress(n, i, X)
            c == Core(s, m, "none")
            x == ReadValue(m, a, 8)
            r == i.fp_register
            U == op \in {"lfdu", "lfdux"}
            d == lfd(op, c, i)
            e == EmittedLoadDouble(op, n, i, s.cia)
<1>1. X \in BOOLEAN /\ IsMachine(s) /\ IsMemory(m) /\ r \in DOMAIN s.fpr
  BY FloatTables, StandsFacts, MachineTypes DEF IsInsn
<1>2. a \in Words
  BY <1>1, AddressedWord
<1>3. Stands(k, s, m) /\ Address(k, i, X) = a
  BY <1>1, StandsFetch
<1>4. ReadValue(k.memory, a, 8) = ReadValue(m, a, 8)
  BY <1>3, NearReads DEF Stands
<1>5. FloatAddress(op, c, i) = a /\ c.memory = m
  BY <1>1, FloatAddressIs, CoreUpdates
<1>6. d = IF ~Accessible(a, 8) THEN Fault(c)
          ELSE IF U THEN UpdateBase(c, SetFirst(c, r, x), i, a) ELSE SetFirst(c, r, x)
  <2>. DEFINE b == FloatAddress(op, c, i)
              y == ReadValue(c.memory, b, 8)
  <2>1. d = IF ~Accessible(b, 8) THEN Fault(c) ELSE Updating(op, c, SetFirst(c, r, y), i, b)
    BY Zenon DEF lfd, SetFirst
  <2>2. \A z : Updating(op, c, z, i, a) = IF U THEN UpdateBase(c, z, i, a) ELSE z
    BY DEF Updating, DoubleLoads
  <2>. HIDE DEF c, a, U, d
  <2>. QED BY <1>5, <2>1, <2>2
<1>7. e = IF ~Accessible(a, 8) THEN FlushReturn(k, "fault", s.cia)
          ELSE IF U THEN write_guest_gpr(SetFirst(k, r, x), i.base, a) ELSE SetFirst(k, r, x)
  <2>. DEFINE b == Address(k, i, X)
              y == ReadValue(k.memory, b, 8)
  <2>1. e = IF ~Accessible(b, 8) THEN FlushReturn(k, "fault", s.cia)
          ELSE IF U THEN write_guest_gpr(SetFirst(k, r, y), i.base, b) ELSE SetFirst(k, r, y)
    BY Zenon DEF EmittedLoadDouble, SetFirst
  <2>. HIDE DEF k, a, U, e, X
  <2>. QED BY <1>3, <1>4, <2>1
<1>8. CASE Accessible(a, 8)
  <2>1. x \in Nat
    BY <1>1, <1>2, <1>8, ReadWidths
  <2>. HIDE DEF x, a, k, X
  <2>. DEFINE t == WithPairs(s, Slot(s.fpr, r, x), s.ps1)
              q == SetFirst(k, r, x)
  <2>2. Stands(q, t, m) /\ t.cia = s.cia /\ SetFirst(c, r, x) = Core(t, m, "none")
    <3>. HIDE DEF r
    <3>. QED BY <1>1, <1>3, <2>1, FirstAgrees DEF r
  <2>. HIDE DEF t, q
  <2>3. U \in BOOLEAN
    OBVIOUS
  <2>. HIDE DEF U
  <2>4. Agrees(s, m, IF U THEN UpdateBase(Core(s, m, "none"), Core(t, m, "none"), i, a) ELSE Core(t, m, "none"),
                     IF U THEN write_guest_gpr(q, i.base, a) ELSE q)
    BY <1>2, <2>2, <2>3, LoadedAgrees
  <2>. HIDE DEF d, e
  <2>. QED BY <1>6, <1>7, <1>8, <2>2, <2>4 DEF c, q, d, e
<1>9. CASE ~Accessible(a, 8)
  <2>1. d = Core(s, m, "fault")
    BY <1>6, <1>9, CoreUpdates
  <2>. HIDE DEF k, d, e
  <2>2. Agrees(s, m, Core(s, m, "fault"), FlushReturn(k, "fault", s.cia))
    BY <1>3, StandsFaults
  <2>. QED BY <1>7, <1>9, <2>1, <2>2 DEF d, e, c
<1>. QED BY <1>8, <1>9

LEMMA FloatStoreAgrees ==
  ASSUME NEW op \in SingleStores \cup DoubleStores, NEW n, NEW s, NEW m, Stands(n, s, m), Told(s, m),
         NEW i, IsInsn(i), op \in Updates => i.base # 0, NEW b
  PROVE  Agrees(s, m, ExecuteFloat(op, Core(s, m, "none"), i), EmittedStore(op, n, i, s.cia, b))
<1>. DEFINE c == Core(s, m, "none")
            a == Addressed(s, i, is_indexed_memory(op))
            w == memory_width(op)
            v == ValueIn(op, s, i)
            d == ExecuteFloat(op, c, i)
<1>1. (UpdatesBase(op) => i.base # 0) /\ w \in Nat /\ IsMachine(s)
  <2>1. /\ memory_width(op) = (IF op \in DoubleStores THEN 8 ELSE 4)
        /\ UpdatesBase(op) = (op \in {"stfsu", "stfsux", "stfdu", "stfdux"})
    BY FloatTables, Zenon
  <2>2. w \in Nat
    BY <2>1
  <2>3. UpdatesBase(op) => op \in {"stfsu", "stfsux", "stfdu", "stfdux"}
    BY <2>1, Zenon
  <2>4. op \in {"stfsu", "stfsux", "stfdu", "stfdux"} => op \in Updates
    BY DEF Updates
  <2>5. IsMachine(s)
    BY StandsFacts
  <2>. QED BY <2>2, <2>3, <2>4, <2>5, Zenon
<1>2. FloatAddress(op, c, i) = a
  BY <1>1, FloatAddressIs
<1>3. c.state = s
  BY CoreUpdates
<1>4. \A z, y : Updating(op, c, z, i, y) = Based(op, c, z, i, y)
  BY FloatTables DEF Updating, Based, SingleStores, DoubleStores
<1>5. v = (IF op \in SingleStores THEN Narrow(s.fpr[i.fp_register]) ELSE s.fpr[i.fp_register])
  BY DEF ValueIn, SingleStores, DoubleStores
<1>6. d = Based(op, c, Store(c, a, w, v), i, a)
  <2>1. CASE op \in SingleStores
    <3>1. d = stfs(op, c, i) /\ w = 4
      BY <2>1, FloatTables DEF ExecuteFloat, SingleStores, DoubleStores
    <3>. HIDE DEF c, d, a, w, v
    <3>. QED BY <1>2, <1>3, <1>4, <1>5, <2>1, <3>1, Zenon DEF stfs
  <2>2. CASE op \in DoubleStores
    <3>1. d = stfd(op, c, i) /\ w = 8 /\ op \notin SingleStores
      BY <2>2, FloatTables DEF ExecuteFloat, SingleStores, DoubleStores
    <3>. HIDE DEF c, d, a, w, v
    <3>. QED BY <1>2, <1>3, <1>4, <1>5, <2>2, <3>1, Zenon DEF stfd
  <2>. QED BY <2>1, <2>2
<1>7. d = StoresTo(op, s, m, i, a, w, v)
  <2>. HIDE DEF a, w, v, d
  <2>. QED BY <1>1, <1>6, BasedStore
<1>8. Agrees(s, m, StoresTo(op, s, m, i, a, w, v), EmittedStore(op, n, i, s.cia, b))
  BY <1>1, StoreAgrees
<1>. HIDE DEF a, w, v, d
<1>. QED BY <1>7, <1>8 DEF d, c

LEMMA ScalarFloatAgrees ==
  ASSUME NEW op \in ScalarFloatOps, NEW n, NEW s, NEW m, Stands(n, s, m), Told(s, m),
         NEW i, IsInsn(i), op \in Updates => i.base # 0, NEW b
  PROVE  Agrees(s, m, ExecuteFloat(op, Core(s, m, "none"), i), EmitFloat(op, n, i, s.cia, b))
<1>. DEFINE c == Core(s, m, "none")
<1>1. CASE op \in SingleLoads
  <2>1. ExecuteFloat(op, c, i) = lfs(op, c, i) /\ EmitFloat(op, n, i, s.cia, b) = EmittedLoadSingle(op, n, i, s.cia)
    <3>. HIDE DEF c
    <3>. QED BY <1>1 DEF SingleLoads, ExecuteFloat, EmitFloat, SingleStores, DoubleStores
  <2>. QED BY <1>1, <2>1, SingleLoadAgrees
<1>2. CASE op \in DoubleLoads
  <2>1. ExecuteFloat(op, c, i) = lfd(op, c, i) /\ EmitFloat(op, n, i, s.cia, b) = EmittedLoadDouble(op, n, i, s.cia)
    <3>. HIDE DEF c
    <3>. QED BY <1>2 DEF DoubleLoads, ExecuteFloat, EmitFloat, SingleStores, DoubleStores
  <2>. QED BY <1>2, <2>1, DoubleLoadAgrees
<1>3. CASE op \in SingleStores \cup DoubleStores
  <2>1. EmitFloat(op, n, i, s.cia, b) = EmittedStore(op, n, i, s.cia, b)
    BY <1>3 DEF EmitFloat, SingleStores, DoubleStores
  <2>2. Agrees(s, m, ExecuteFloat(op, Core(s, m, "none"), i), EmittedStore(op, n, i, s.cia, b))
    BY <1>3, FloatStoreAgrees
  <2>. QED BY <2>1, <2>2
<1>. QED BY <1>1, <1>2, <1>3 DEF ScalarFloatOps, SingleLoads, DoubleLoads, SingleStores, DoubleStores
----------------------------------------------------------------------------
(* Quantized loads.                                                         *)

LEMMA SignedPart ==
  ASSUME NEW b \in 1 .. (WordBits - 1), NEW raw \in 0 .. (TwoTo[b] - 1)
  PROVE  /\ SignExtended(raw, b) \in Words
         /\ Signed(SignExtended(raw, b)) = IF raw >= TwoTo[b - 1] THEN raw - TwoTo[b] ELSE raw
<1>. DEFINE h == TwoTo[b]
            q == TwoTo[b - 1]
            x == SignExtended(raw, b)
<1>1. b \in Nat /\ b - 1 \in Nat /\ b < WordBits /\ WordBits \in Nat /\ (b - 1) + 1 = b
  BY WordSizes
<1>2. h \in Nat /\ h > 0 /\ q \in Nat /\ h = 2 * q
  BY <1>1, PowerStep
<1>3. 2 * h <= Modulus /\ Modulus = 2 * Smallest /\ Modulus \in Nat /\ Smallest \in Nat
  BY <1>1, PowerOrder, WordSizes DEF Modulus
<1>4. (raw % h) = raw
  <2>1. raw \in 0 .. (h - 1) /\ raw \in Int /\ 0 \in Int
    OBVIOUS
  <2>. HIDE DEF h
  <2>2. raw = h * 0 + raw
    BY <1>2, <2>1
  <2>. QED BY <1>2, <2>1, <2>2, DivModUnique
<1>5. x = (raw % h) + (IF (raw % h) >= q THEN Modulus - h ELSE 0)
  BY Zenon DEF SignExtended
<1>. HIDE DEF h, q, x
<1>6. x = IF raw >= q THEN raw + (Modulus - h) ELSE raw
  BY <1>2, <1>3, <1>4, <1>5
<1>7. raw \in Int /\ raw >= 0 /\ raw < h
  BY <1>2 DEF h
<1>8. x \in Words
  BY <1>2, <1>3, <1>6, <1>7, WordRange
<1>9. Signed(x) = IF raw >= q THEN raw - h ELSE raw
  BY <1>2, <1>3, <1>6, <1>7 DEF Signed
<1>. QED BY <1>8, <1>9 DEF h, q, x

LEMMA ScaleIsInt ==
  ASSUME NEW f \in 0 .. (TwoTo[ScaleBits] - 1)
  PROVE  SignedScale(f) \in Int
<1>1. ScaleBits \in Nat /\ ScaleBits - 1 \in Nat
  BY LaneValuesAssumption
<1>2. TwoTo[ScaleBits] \in Nat /\ TwoTo[ScaleBits - 1] \in Nat
  BY <1>1, PowerStep
<1>. QED BY <1>2 DEF SignedScale

LEMMA ScaledIsInt ==
  ASSUME NEW z \in Int, NEW x \in Int
  PROVE  Scaled(z, x) \in Int
<1>1. CASE x >= 0
  <2>1. TwoTo[x] \in Nat
    BY <1>1, PowerStep
  <2>. QED BY <1>1, <2>1 DEF Scaled
<1>2. CASE ~(x >= 0)
  <2>. DEFINE p == TwoTo[-x]
  <2>1. p \in Nat /\ p > 0
    <3>1. -x \in Nat
      BY <1>2
    <3>. QED BY <3>1, PowerStep
  <2>. HIDE DEF p
  <2>2. z \div p \in Int /\ (-z) \div p \in Int
    BY <2>1, DivMod
  <2>. QED BY <1>2, <2>2 DEF Scaled, p
<1>. QED BY <1>1, <1>2

LEMMA SingleIsWord ==
  ASSUME NEW z \in Int
  PROVE  SingleOf(z) \in Words
<1>1. Smallest \in Int
  BY WordSizes
<1>2. Clamp(z, 1 - Smallest, Smallest - 1) \in Int
  BY <1>1 DEF Clamp
<1>. QED BY <1>2, UnsignedOf DEF SingleOf

\* A lane, from what was read.
LaneOf(type, raw, scale) ==
  LET number == CASE type \in {4, 5} -> raw
                  [] type = 6 -> Signed(SignExtended(raw, ByteBits))
                  [] type = 7 -> Signed(SignExtended(raw, HalfBits))
  IN  Widen(IF type = 0 THEN raw ELSE SingleOf(Scaled(number, -scale)))

LEMMA LoadLaneIs ==
  ASSUME NEW m, NEW a, NEW type, NEW scale
  PROVE  load_lane(m, a, type, scale) = LaneOf(type, ReadValue(m, a, LaneWidth(type)), scale)
BY Zenon DEF load_lane, LaneOf

LEMMA LanesAgree ==
  ASSUME NEW type \in 0..7, type \notin 1..3, NEW raw \in Nat, NEW scale \in Int,
         type \in {4, 6} => raw \in Bytes, type \in {5, 7} => raw \in 0 .. (TwoTo[HalfBits] - 1)
  PROVE  FromLane(type, raw, scale) = LaneOf(type, raw, scale) /\ LaneOf(type, raw, scale) \in Nat
<1>. DEFINE byte == IF raw >= TwoTo[ByteBits - 1] THEN raw - ByteBase ELSE raw
            half == IF raw >= TwoTo[HalfBits - 1] THEN raw - TwoTo[HalfBits] ELSE raw
            x == CASE type \in {4, 5} -> raw [] type = 6 -> byte [] type = 7 -> half
            y == CASE type \in {4, 5} -> raw
                  [] type = 6 -> Signed(SignExtended(raw, ByteBits))
                  [] type = 7 -> Signed(SignExtended(raw, HalfBits))
<1>1. type \in {0, 4, 5, 6, 7} /\ raw \in Int
  OBVIOUS
<1>2. ByteBits \in 1 .. (WordBits - 1) /\ HalfBits \in 1 .. (WordBits - 1) /\ ByteBase \in Nat /\ TwoTo[HalfBits] \in Nat
  BY WordSizes, ByteSizes
<1>3. type = 6 => Signed(SignExtended(raw, ByteBits)) = byte
  BY <1>2, SignedPart, ByteSizes DEF ByteBase
<1>4. type = 7 => Signed(SignExtended(raw, HalfBits)) = half
  BY <1>2, SignedPart
<1>5. FromLane(type, raw, scale) = Widen(IF type = 0 THEN raw ELSE SingleOf(Scaled(x, -scale)))
  BY Zenon DEF FromLane
<1>6. LaneOf(type, raw, scale) = Widen(IF type = 0 THEN raw ELSE SingleOf(Scaled(y, -scale)))
  BY Zenon DEF LaneOf
<1>7. byte \in Int /\ half \in Int
  BY <1>1, <1>2
<1>8. type # 0 => x = y /\ x \in Int
  <2>. HIDE DEF byte, half
  <2>. QED BY <1>1, <1>3, <1>4, <1>7
<1>. HIDE DEF x, y
<1>9. (IF type = 0 THEN raw ELSE SingleOf(Scaled(y, -scale))) \in Nat
  <2>1. CASE type = 0
    BY <2>1
  <2>2. CASE type # 0
    <3>1. -scale \in Int /\ y \in Int
      BY <1>8, <2>2
    <3>2. Scaled(y, -scale) \in Int
      BY <3>1, ScaledIsInt
    <3>3. SingleOf(Scaled(y, -scale)) \in Words
      BY <3>2, SingleIsWord
    <3>. QED BY <2>2, <3>3, WordRange
  <2>. QED BY <2>1, <2>2
<1>10. LaneOf(type, raw, scale) \in Nat
  BY <1>6, <1>9, DoubleIsNat
<1>. QED BY <1>5, <1>6, <1>8, <1>10

LEMMA LaneWidths ==
  \A type \in 0..7 : /\ LaneWidth(type) = Lane(type) /\ LaneWidth(type) \in {1, 2, 4}
                     /\ type \in {4, 6} => LaneWidth(type) = 1
                     /\ type \in {5, 7} => LaneWidth(type) = 2
                     /\ type = 0 => LaneWidth(type) = 4
BY DEF LaneWidth, Lane

LEMMA LaneRead ==
  ASSUME NEW m, IsMemory(m), NEW a \in Words, NEW type \in 0..7, type \notin 1..3, NEW scale \in Int,
         Accessible(a, LaneWidth(type))
  PROVE  /\ load_lane(m, a, type, scale) \in Nat
         /\ FromLane(type, ReadValue(m, a, LaneWidth(type)), scale) = load_lane(m, a, type, scale)
<1>. DEFINE w == LaneWidth(type)
            raw == ReadValue(m, a, w)
<1>1. w \in {1, 2, 4} /\ (type \in {4, 6} => w = 1) /\ (type \in {5, 7} => w = 2)
  BY LaneWidths
<1>2. w = 1 => raw \in Bytes
  BY ReadWidths
<1>3. w = 2 => raw \in 0 .. (TwoTo[HalfBits] - 1)
  BY ReadWidths
<1>4. w = 4 => raw \in Words
  BY ReadWidths
<1>5. load_lane(m, a, type, scale) = LaneOf(type, raw, scale)
  BY LoadLaneIs
<1>. HIDE DEF w, raw
<1>6. raw \in Nat
  <2>1. raw \in Words
    BY <1>1, <1>2, <1>3, <1>4, HalfAndByteWords
  <2>. QED BY <2>1, WordRange
<1>7. FromLane(type, raw, scale) = LaneOf(type, raw, scale) /\ LaneOf(type, raw, scale) \in Nat
  BY <1>1, <1>2, <1>3, <1>6, LanesAgree
<1>. QED BY <1>5, <1>7 DEF raw, w

\* The helper's exit, and the return it leads to.
LEMMA StandsStops ==
  ASSUME NEW n, NEW s, NEW m, Stands(n, s, m), NEW exit \in {"fault", "unsupported"}
  PROVE  LET k == [n EXCEPT !.exit = exit] IN
         k.exit = exit /\ Agrees(s, m, Core(s, m, exit), FlushReturn(k, exit, s.cia))
<1>. DEFINE k == NativeOf(n.state, n.host, n.dirty, n.memory, exit)
            e == FlushReturn(k, exit, s.cia)
            d == Core(s, m, exit)
<1>1. IsNative(n) /\ IsMachine(s) /\ View(n, s.cia) = s /\ Near(n.memory, m) /\ s.cia \in Words
  BY StandsFacts DEF Stands
<1>2. n = NativeOf(n.state, n.host, n.dirty, n.memory, n.exit)
  BY <1>1, NativeFields
<1>3. [n EXCEPT !.exit = exit] = k
  BY <1>2 DEF NativeOf
<1>4. k.state = n.state /\ k.host = n.host /\ k.dirty = n.dirty /\ k.memory = n.memory /\ k.exit = exit
        /\ k = [state |-> k.state, host |-> k.host, dirty |-> k.dirty, memory |-> k.memory, exit |-> k.exit]
  BY DEF NativeOf
<1>. HIDE DEF k
<1>5. IsNative(k)
  BY <1>1, <1>4 DEF IsNative
<1>6. Guests(k) = Guests(n)
  BY <1>4 DEF Guests, Guest
<1>7. View(k, s.cia) = View(n, s.cia)
  BY <1>4, <1>6, SameView
<1>8. IsNative(e) /\ e.state = s /\ e.memory = n.memory /\ e.exit = exit
  BY <1>1, <1>4, <1>5, <1>7, FlushReturnIs
<1>9. d.state = s /\ d.memory = m /\ d.stop = exit
  BY CoreUpdates
<1>. HIDE DEF e, d
<1>10. d = Core(d.state, d.memory, d.stop)
  BY <1>9 DEF d
<1>11. Agrees(s, m, d, e)
  BY <1>1, <1>8, <1>9, <1>10 DEF Agrees
<1>. QED BY <1>3, <1>4, <1>11 DEF e, d

LEMMA QuantizedAddressIs ==
  ASSUME NEW op \in PairLoads \cup PairStores, NEW s, IsMachine(s), NEW m, NEW i, IsInsn(i)
  PROVE  QuantizedAddress(op, Core(s, m, "none"), i) = Addressed(s, i, is_indexed_memory(op))
<1>1. /\ effective_address(Core(s, m, "none"), i) = Addressed(s, i, FALSE)
      /\ IndexedAddress(Core(s, m, "none"), i) = Addressed(s, i, TRUE)
  BY CoreAddresses, ZenonT(30)
<1>2. is_indexed_memory(op) = (op \in {"psq_lx", "psq_lux", "psq_stx", "psq_stux"})
  BY FloatTables
<1>. DEFINE c == Core(s, m, "none")
            d == Addressed(s, i, FALSE)
            x == Addressed(s, i, TRUE)
<1>3. effective_address(c, i) = d /\ IndexedAddress(c, i) = x
  BY <1>1
<1>. HIDE DEF c, d, x
<1>4. QuantizedAddress(op, c, i) = IF op \in {"psq_lx", "psq_lux", "psq_stx", "psq_stux"} THEN x ELSE d
  BY <1>3 DEF QuantizedAddress
<1>5. CASE op \in {"psq_lx", "psq_lux", "psq_stx", "psq_stux"}
  <2>1. is_indexed_memory(op) = TRUE
    BY <1>2, <1>5
  <2>2. Addressed(s, i, is_indexed_memory(op)) = x
    BY <2>1 DEF x
  <2>3. QuantizedAddress(op, c, i) = x
    BY <1>4, <1>5
  <2>. QED  BY <2>2, <2>3 DEF c
<1>6. CASE op \notin {"psq_lx", "psq_lux", "psq_stx", "psq_stux"}
  <2>1. ~is_indexed_memory(op)
    BY <1>2, <1>6
  <2>2. Addressed(s, i, is_indexed_memory(op)) = d
    BY <2>1 DEF d, Addressed
  <2>3. QuantizedAddress(op, c, i) = d
    BY <1>4, <1>6
  <2>. QED  BY <2>2, <2>3 DEF c
<1>. QED  BY <1>5, <1>6

LEMMA PairLoadAgrees ==
  ASSUME NEW op \in PairLoads, NEW n, NEW s, NEW m, Stands(n, s, m), Told(s, m), NEW i, IsInsn(i)
  PROVE  Agrees(s, m, psq_l(op, Core(s, m, "none"), i), EmittedQuantizedLoad(op, n, i, s.cia))
<1>. DEFINE X == is_indexed_memory(op)
            a == Addressed(s, i, X)
            k == FetchAddress(n, i, X)
            c == Core(s, m, "none")
            q == s.gqr[i.quantized_register]
            type == q.load_type
            sc == SignedScale(q.load_scale)
            w == LaneWidth(type)
            b == Unsigned(a + w)
            pair == i.paired_single_w
            x == load_lane(m, a, type, sc)
            y == IF pair THEN Widen(One) ELSE load_lane(m, b, type, sc)
            r == i.fp_register
            U == op \in {"psq_lu", "psq_lux"}
            bad == ~Accessible(a, w) \/ (~pair /\ ~Accessible(b, w))
            done == native_psq_load(k, i, a)
            d == psq_l(op, c, i)
            e == EmittedQuantizedLoad(op, n, i, s.cia)
<1>1. X \in BOOLEAN /\ IsMachine(s) /\ IsMemory(m) /\ r \in DOMAIN s.fpr /\ pair \in BOOLEAN
  BY FloatTables, StandsFacts, MachineTypes DEF IsInsn
<1>2. type \in 0..7 /\ q.load_scale \in 0 .. (TwoTo[ScaleBits] - 1)
  <2>1. q \in Quantizations
    BY <1>1, MachineTypes DEF IsInsn
  <2>. HIDE DEF q
  <2>. QED BY <2>1 DEF Quantizations
<1>3. sc \in Int
  BY <1>2, ScaleIsInt
<1>4. a \in Words
  BY <1>1, AddressedWord
<1>5. w \in {1, 2, 4} /\ w = Lane(type)
  BY <1>2, LaneWidths
<1>6. b \in Words
  <2>. HIDE DEF a, w
  <2>1. a + w \in Int
    BY <1>4, <1>5, WordRange
  <2>. QED BY <2>1, UnsignedOf
<1>7. Stands(k, s, m) /\ Address(k, i, X) = a
  BY <1>1, StandsFetch
<1>8. Near(k.memory, m) /\ k.state.gqr = s.gqr
  BY <1>7, StandsFacts DEF Stands
<1>9. \A z : ReadValue(k.memory, z, w) = ReadValue(m, z, w)
  <2>1. \A z, v : ReadValue(k.memory, z, v) = ReadValue(m, z, v)
    <3>. DEFINE h == k.memory
    <3>. HIDE DEF h
    <3>1. Near(h, m)
      BY <1>8 DEF h
    <3>2. \A z, v : ReadValue(h, z, v) = ReadValue(m, z, v)
      BY <3>1, NearReads
    <3>. QED BY <3>2 DEF h
  <2>. QED BY <2>1, Zenon
<1>10. QuantizedAddress(op, c, i) = a /\ c.memory = m /\ c.state = s
  BY <1>1, QuantizedAddressIs, CoreUpdates
<1>11. d = IF Reserved3(type) THEN Unsupported(c) ELSE IF bad THEN Fault(c)
           ELSE IF U THEN UpdateBase(c, SetPair(c, r, x, y), i, a) ELSE SetPair(c, r, x, y)
  <2>. DEFINE gq == c.state.gqr[i.quantized_register]
              aa == QuantizedAddress(op, c, i)
              bb == Unsigned(aa + LaneWidth(gq.load_type))
              L(z) == load_lane(c.memory, z, gq.load_type, SignedScale(gq.load_scale))
              R(z) == Accessible(z, LaneWidth(gq.load_type))
  <2>1. d = IF Reserved3(gq.load_type) THEN Unsupported(c)
            ELSE IF ~R(aa) \/ (~i.paired_single_w /\ ~R(bb)) THEN Fault(c)
            ELSE Updating(op, c, SetPair(c, r, L(aa), IF i.paired_single_w THEN Widen(One) ELSE L(bb)), i, aa)
    BY Zenon DEF psq_l, SetPair
  <2>2. \A z : Updating(op, c, z, i, a) = IF U THEN UpdateBase(c, z, i, a) ELSE z
    BY DEF Updating, PairLoads
  <2>3. gq = q
    BY <1>10
  <2>. HIDE DEF c, a, d, U, q, gq
  <2>. QED BY <1>10, <2>1, <2>2, <2>3, Zenon
<1>12. done = IF type \in 1..3 THEN [k EXCEPT !.exit = "unsupported"] ELSE IF bad THEN [k EXCEPT !.exit = "fault"]
              ELSE SetPair(k, r, FromLane(type, ReadValue(m, a, w), sc),
                              IF pair THEN Widen(One) ELSE FromLane(type, ReadValue(m, b, w), sc))
  <2>. DEFINE gq == k.state.gqr[i.quantized_register]
              ww == Lane(gq.load_type)
              bb == Unsigned(a + ww)
              L(z) == FromLane(gq.load_type, ReadValue(k.memory, z, ww), SignedScale(gq.load_scale))
              lanes == IF i.paired_single_w THEN {a} ELSE {a, bb}
  <2>1. done = IF gq.load_type \in 1..3 THEN [k EXCEPT !.exit = "unsupported"]
               ELSE IF \E z \in lanes : ~Accessible(z, ww) THEN [k EXCEPT !.exit = "fault"]
               ELSE SetPair(k, r, L(a), IF i.paired_single_w THEN Widen(One) ELSE L(bb))
    BY Zenon DEF native_psq_load, SetPair
  <2>2. gq = q
    BY <1>8
  <2>3. ww = w
    BY <1>5, <2>2
  <2>. HIDE DEF ww, gq
  <2>4. (\E z \in lanes : ~Accessible(z, ww)) <=> bad
    <3>1. bb = b
      BY <2>3
    <3>. HIDE DEF bb, b, a
    <3>. QED BY <1>1, <2>3, <3>1
  <2>5. L(a) = FromLane(type, ReadValue(m, a, w), sc) /\ L(bb) = FromLane(type, ReadValue(m, b, w), sc)
    <3>. HIDE DEF a, q, k, w
    <3>. QED BY <1>9, <2>2, <2>3
  <2>. HIDE DEF done, L, lanes, a, q, k, b, bad, w, sc, bb
  <2>. QED BY <2>1, <2>2, <2>4, <2>5 DEF type, pair
<1>13. e = IF done.exit # "no" THEN FlushReturn(done, done.exit, s.cia)
           ELSE IF U THEN write_guest_gpr(done, i.base, a) ELSE done
  <2>. DEFINE aa == Address(k, i, X)
              dd == native_psq_load(k, i, aa)
  <2>1. e = IF dd.exit # "no" THEN FlushReturn(dd, dd.exit, s.cia)
            ELSE IF U THEN write_guest_gpr(dd, i.base, aa) ELSE dd
    BY Zenon DEF EmittedQuantizedLoad
  <2>. HIDE DEF k, a, U, e, X
  <2>. QED BY <1>7, <2>1
<1>. HIDE DEF k, a, U, e, X, d, w, b, bad, sc, q
<1>14. CASE type \in 1..3
  <2>1. d = Core(s, m, "unsupported")
    BY <1>11, <1>14, CoreUpdates DEF Reserved3
  <2>2. done = [k EXCEPT !.exit = "unsupported"]
    BY <1>12, <1>14
  <2>3. done.exit = "unsupported" /\ Agrees(s, m, Core(s, m, "unsupported"), FlushReturn(done, "unsupported", s.cia))
    <3>. HIDE DEF done
    <3>. QED BY <1>7, <2>2, StandsStops
  <2>. HIDE DEF done, c
  <2>. QED BY <1>13, <2>1, <2>3 DEF d, e, c
<1>15. CASE type \notin 1..3 /\ bad
  <2>1. d = Core(s, m, "fault")
    BY <1>11, <1>15, CoreUpdates DEF Reserved3
  <2>2. done = [k EXCEPT !.exit = "fault"]
    BY <1>12, <1>15
  <2>3. done.exit = "fault" /\ Agrees(s, m, Core(s, m, "fault"), FlushReturn(done, "fault", s.cia))
    <3>. HIDE DEF done
    <3>. QED BY <1>7, <2>2, StandsStops
  <2>. HIDE DEF done, c
  <2>. QED BY <1>13, <2>1, <2>3 DEF d, e, c
<1>16. CASE type \notin 1..3 /\ ~bad
  <2>1. x \in Nat /\ FromLane(type, ReadValue(m, a, w), sc) = x
    <3>1. Accessible(a, LaneWidth(type))
      BY <1>16 DEF bad, w
    <3>. HIDE DEF type
    <3>. QED BY <1>1, <1>2, <1>3, <1>4, <1>16, <3>1, LaneRead DEF w
  <2>2. y \in Nat /\ (IF pair THEN Widen(One) ELSE FromLane(type, ReadValue(m, b, w), sc)) = y
    <3>1. CASE pair
      BY <3>1, DoubleIsNat
    <3>2. CASE ~pair
      <4>1. Accessible(b, LaneWidth(type))
        BY <1>16, <3>2 DEF bad, w
      <4>2. load_lane(m, b, type, sc) \in Nat /\ FromLane(type, ReadValue(m, b, w), sc) = load_lane(m, b, type, sc)
        <5>. HIDE DEF type
        <5>. QED BY <1>1, <1>2, <1>3, <1>6, <1>16, <4>1, LaneRead DEF w
      <4>. QED BY <3>2, <4>2
    <3>. QED BY <3>1, <3>2
  <2>3. done = SetPair(k, r, x, y)
    <3>. HIDE DEF done, x, y
    <3>. QED BY <1>12, <1>16, <2>1, <2>2
  <2>. HIDE DEF x, y, done
  <2>. DEFINE t == WithPairs(s, Slot(s.fpr, r, x), Slot(s.ps1, r, y))
  <2>4. Stands(done, t, m) /\ t.cia = s.cia /\ SetPair(c, r, x, y) = Core(t, m, "none")
    <3>. HIDE DEF r
    <3>. QED BY <1>1, <1>7, <2>1, <2>2, <2>3, PairsAgree DEF r
  <2>. HIDE DEF t
  <2>5. U \in BOOLEAN
    BY DEF U
  <2>6. Agrees(s, m, IF U THEN UpdateBase(Core(s, m, "none"), Core(t, m, "none"), i, a) ELSE Core(t, m, "none"),
                     IF U THEN write_guest_gpr(done, i.base, a) ELSE done)
    BY <1>4, <2>4, <2>5, LoadedAgrees
  <2>7. done.exit = "no"
    BY <2>4 DEF Stands
  <2>8. d = IF U THEN UpdateBase(c, SetPair(c, r, x, y), i, a) ELSE SetPair(c, r, x, y)
    <3>. HIDE DEF c
    <3>. QED BY <1>11, <1>16 DEF Reserved3
  <2>9. e = IF U THEN write_guest_gpr(done, i.base, a) ELSE done
    BY <1>13, <2>7
  <2>. HIDE DEF r
  <2>. QED BY <2>4, <2>6, <2>8, <2>9 DEF c, d, e
<1>. QED BY <1>14, <1>15, <1>16
----------------------------------------------------------------------------
(* Quantized stores.                                                        *)

LEMMA PartedSame ==
  ASSUME NEW v \in Int, NEW u \in Int, NEW q \in Int
  PROVE  /\ v = u + ByteBase * q => Parted(v, 1) = Parted(u, 1)
         /\ v = u + TwoTo[HalfBits] * q => Parted(v, 2) = Parted(u, 2)
<1>. DEFINE BB == ByteBase
<1>1. /\ BB \in Nat /\ BB > 0 /\ TwoTo[ByteBits * 1] = BB /\ HalfBits = ByteBits * 2 /\ ByteBits \in Nat
      /\ TwoTo[ByteBits * 0] = 1
  BY ByteSizes, WordSizes, PowerStep
<1>2. TwoTo[HalfBits] = BB * BB
  <2>1. TwoTo[ByteBits + ByteBits] = TwoTo[ByteBits] * TwoTo[ByteBits]
    BY <1>1, PowerSum
  <2>. QED BY <1>1, <2>1 DEF ByteBase
<1>3. \A x \in Int : x \div 1 = x
  BY DivModUnique
<1>. HIDE DEF BB
<1>4. \A x \in Int, y \in Int : x = y + BB * q => x % BB = y % BB
  <2>1. BB \in Nat /\ BB > 0
    BY <1>1
  <2>2. ASSUME NEW x \in Int, NEW y \in Int, x = y + BB * q PROVE x % BB = y % BB
    <3>1. (y + BB * q) % BB = y % BB
      BY <2>1, DivShifted
    <3>. QED BY <2>2, <3>1
  <2>. QED BY <2>2
<1>5. ASSUME v = u + BB * q PROVE Parted(v, 1) = Parted(u, 1)
  <2>1. v % BB = u % BB
    BY <1>4, <1>5
  <2>2. \A x \in Int : Parted(x, 1) = [k \in 1..1 |-> x % BB]
    <3>1. ASSUME NEW x \in Int PROVE Parted(x, 1) = [k \in 1..1 |-> x % BB]
      <4>1. \A k \in 1..1 : (x \div TwoTo[ByteBits * (1 - k)]) % ByteBase = x % BB
        <5>1. (x \div TwoTo[ByteBits * 0]) % ByteBase = x % BB
          BY <1>1, <1>3 DEF BB
        <5>2. \A k \in 1..1 : 1 - k = 0
          OBVIOUS
        <5>. QED BY <5>1, <5>2
      <4>. QED BY <4>1 DEF Parted
    <3>. QED BY <3>1
  <2>. QED BY <2>1, <2>2
<1>6. ASSUME v = u + (BB * BB) * q PROVE Parted(v, 2) = Parted(u, 2)
  <2>. DEFINE n == BB * q
  <2>1. v = u + BB * n /\ n \in Int
    BY <1>1, <1>6
  <2>. HIDE DEF n
  <2>2. v \div BB = (u \div BB) + n /\ v % BB = u % BB
    BY <1>1, <2>1, DivShifted
  <2>3. (v \div BB) % BB = (u \div BB) % BB
    <3>. DEFINE y == u \div BB
    <3>1. y \in Int
      BY <1>1, DivMod
    <3>. HIDE DEF y
    <3>2. (y + BB * q) % BB = y % BB
      BY <1>1, <3>1, DivShifted
    <3>. QED BY <2>2, <3>2 DEF n, y
  <2>4. ASSUME NEW k \in 1..2
        PROVE  (v \div TwoTo[ByteBits * (2 - k)]) % ByteBase = (u \div TwoTo[ByteBits * (2 - k)]) % ByteBase
    <3>1. CASE k = 1
      <4>1. 2 - k = 1
        BY <3>1
      <4>. QED BY <1>1, <2>3, <4>1 DEF BB
    <3>2. CASE k = 2
      <4>1. 2 - k = 0
        BY <3>2
      <4>2. v \div 1 = v /\ u \div 1 = u
        BY <1>3
      <4>. QED BY <1>1, <2>2, <4>1, <4>2 DEF BB
    <3>. QED BY <3>1, <3>2
  <2>. QED BY <2>4 DEF Parted
<1>. QED BY <1>2, <1>5, <1>6 DEF BB

\* Cut to a word or to the lane, a number leaves the same bytes.
LEMMA PartedCut ==
  ASSUME NEW z \in Int
  PROVE  /\ Unsigned(z) \in Int /\ z % ByteBase \in Int /\ z % TwoTo[HalfBits] \in Int
         /\ Parted(Unsigned(z), 1) = Parted(z % ByteBase, 1)
         /\ Parted(Unsigned(z), 2) = Parted(z % TwoTo[HalfBits], 2)
<1>. DEFINE BB == ByteBase
            H == TwoTo[HalfBits]
            x == Unsigned(z)
<1>1. BB \in Nat /\ BB > 0 /\ H \in Nat /\ H > 0
  BY ByteSizes, WordSizes
<1>0. Modulus = H * H
  BY WordSizes
<1>2. H = BB * BB
  <2>1. ByteBits \in Nat
    BY WordSizes
  <2>2. HalfBits = ByteBits + ByteBits
    BY <2>1, ByteSizes
  <2>3. TwoTo[ByteBits + ByteBits] = TwoTo[ByteBits] * TwoTo[ByteBits]
    BY <2>1, PowerSum
  <2>. QED BY <2>2, <2>3 DEF ByteBase
<1>3. PICK q \in Int : z = Modulus * q + x
  BY UnsignedOf
<1>4. x \in Int
  BY UnsignedOf, WordRange
<1>. HIDE DEF BB, H, x
<1>5. z % BB \in Int /\ z = BB * (z \div BB) + (z % BB) /\ z \div BB \in Int
  <2>1. z \in Int /\ BB \in Nat /\ BB > 0
    BY <1>1
  <2>2. z \div BB \in Int /\ z % BB \in 0 .. (BB - 1) /\ z = BB * (z \div BB) + (z % BB)
    BY <2>1, DivMod, Zenon
  <2>3. (z % BB) \in Int
    <3>. DEFINE r == z % BB
    <3>1. r \in 0 .. (BB - 1)
      BY <2>2
    <3>. HIDE DEF r
    <3>2. r \in Int
      BY <1>1, <3>1
    <3>. QED BY <3>2 DEF r
  <2>. QED BY <2>2, <2>3, Zenon
<1>6. z % H \in Int /\ z = H * (z \div H) + (z % H) /\ z \div H \in Int
  <2>1. z \in Int /\ H \in Nat /\ H > 0
    BY <1>1
  <2>2. z \div H \in Int /\ z % H \in 0 .. (H - 1) /\ z = H * (z \div H) + (z % H)
    BY <2>1, DivMod, Zenon
  <2>3. (z % H) \in Int
    <3>. DEFINE r == z % H
    <3>1. r \in 0 .. (H - 1)
      BY <2>2
    <3>. HIDE DEF r
    <3>2. r \in Int
      BY <1>1, <3>1
    <3>. QED BY <3>2 DEF r
  <2>. QED BY <2>2, <2>3, Zenon
<1>7. Parted(z, 1) = Parted(z % BB, 1)
  <2>. DEFINE r == z % BB
              n == z \div BB
  <2>1. r \in Int /\ n \in Int /\ z = r + BB * n
    BY <1>1, <1>5
  <2>. HIDE DEF r, n
  <2>2. Parted(z, 1) = Parted(r, 1)
    BY <2>1, PartedSame DEF BB
  <2>. QED BY <2>2 DEF r
<1>8. Parted(z, 2) = Parted(z % H, 2)
  <2>. DEFINE r == z % H
              n == z \div H
  <2>1. r \in Int /\ n \in Int /\ z = r + H * n
    BY <1>1, <1>6
  <2>. HIDE DEF r, n
  <2>2. Parted(z, 2) = Parted(r, 2)
    BY <2>1, PartedSame DEF H
  <2>. QED BY <2>2 DEF r
<1>9. z = x + H * (H * q) /\ H * q \in Int
  BY <1>0, <1>1, <1>3, <1>4
<1>10. z = x + BB * (BB * (H * q)) /\ BB * (H * q) \in Int
  BY <1>1, <1>2, <1>9
<1>11. Parted(z, 2) = Parted(x, 2)
  <2>. DEFINE n == H * q
  <2>. HIDE DEF n
  <2>1. z = x + H * n /\ n \in Int
    BY <1>9 DEF n
  <2>. QED BY <1>4, <2>1, PartedSame DEF H
<1>12. Parted(z, 1) = Parted(x, 1)
  <2>. DEFINE n == BB * (H * q)
  <2>. HIDE DEF n
  <2>1. z = x + BB * n /\ n \in Int
    BY <1>10 DEF n
  <2>. QED BY <1>4, <2>1, PartedSame DEF BB
<1>. QED BY <1>4, <1>5, <1>6, <1>7, <1>8, <1>11, <1>12 DEF x, BB, H

LEMMA QuantizedValues ==
  ASSUME NEW type \in 0..7, type \notin 1..3, NEW single \in Nat, NEW scale \in Int
  PROVE  /\ quantize_lane(single, type, scale) \in Int /\ ToLane(type, single, scale) \in Int
         /\ Parted(quantize_lane(single, type, scale), LaneWidth(type))
              = Parted(ToLane(type, single, scale), LaneWidth(type))
<1>. DEFINE z == Scaled(NumberOf(single), scale)
            v == quantize_lane(single, type, scale)
            u == ToLane(type, single, scale)
            h == TwoTo[ByteBits - 1]
            g == TwoTo[HalfBits - 1]
            H == TwoTo[HalfBits]
<1>1. NumberOf(single) \in Int
  BY WordSizes DEF NumberOf, Signed
<1>2. z \in Int
  BY <1>1, ScaledIsInt
<1>3. ByteBase \in Nat /\ ByteBase >= 2 /\ ByteBase <= Modulus /\ H \in Nat /\ H > 0 /\ H <= Modulus
      /\ Modulus \in Nat
  <2>1. ByteBits \in Nat /\ HalfBits \in Nat /\ WordBits \in Nat /\ ByteBits <= WordBits /\ HalfBits <= WordBits
    BY WordSizes
  <2>2. ByteBase <= Modulus /\ H <= Modulus
    BY <2>1, PowerOrder DEF ByteBase, Modulus
  <2>. QED BY <2>2, ByteSizes, WordSizes
<1>4. h \in Nat /\ ByteBase = 2 * h /\ g \in Nat
  <2>1. ByteBits - 1 \in Nat /\ (ByteBits - 1) + 1 = ByteBits /\ HalfBits - 1 \in Nat
    BY WordSizes
  <2>2. TwoTo[(ByteBits - 1) + 1] = 2 * h /\ h \in Nat /\ g \in Nat
    BY <2>1, PowerStep
  <2>. QED BY <2>1, <2>2 DEF ByteBase
<1>5. ByteBase \div 2 = h
  <2>. HIDE DEF h
  <2>1. ByteBase = 2 * h + 0 /\ 0 \in 0 .. (2 - 1)
    BY <1>4
  <2>. QED BY <1>4, <2>1, DivModUnique
<1>6. v = IF type = 0 THEN single ELSE Unsigned(Clamp(z, Limits(type)[1], Limits(type)[2]))
  BY Zenon DEF quantize_lane
<1>7. u = CASE type = 0 -> single
            [] type = 4 -> Clamp(z, 0, ByteBase - 1)
            [] type = 5 -> Clamp(z, 0, H - 1)
            [] type = 6 -> Clamp(z, -h, h - 1) % ByteBase
            [] type = 7 -> Clamp(z, -g, g - 1) % H
  BY Zenon DEF ToLane
<1>. HIDE DEF z, v, u, h, g, H
<1>8. \A low \in Int, high \in Int : Clamp(z, low, high) \in Int /\ (low <= high => Clamp(z, low, high) \in low..high)
  BY <1>2 DEF Clamp
<1>9. CASE type = 0
  BY <1>6, <1>7, <1>9 DEF v, u
<1>10. CASE type = 4
  <2>. DEFINE y == Clamp(z, 0, ByteBase - 1)
  <2>1. Limits(type)[1] = 0 /\ Limits(type)[2] = ByteBase - 1
    BY <1>10 DEF Limits
  <2>2. y \in 0 .. (ByteBase - 1)
    <3>1. 0 \in Int /\ ByteBase - 1 \in Int /\ 0 <= ByteBase - 1
      BY <1>3
    <3>. QED BY <1>8, <3>1
  <2>3. v = Unsigned(y) /\ u = y
    BY <1>6, <1>7, <1>10, <2>1
  <2>. HIDE DEF y
  <2>4. Unsigned(y) = y
    BY <1>3, <2>2, UnsignedNear
  <2>. QED BY <2>2, <2>3, <2>4 DEF v, u
<1>11. CASE type = 5
  <2>. DEFINE y == Clamp(z, 0, H - 1)
  <2>1. Limits(type)[1] = 0 /\ Limits(type)[2] = H - 1
    BY <1>11 DEF Limits, H
  <2>2. y \in 0 .. (H - 1)
    <3>1. 0 \in Int /\ H - 1 \in Int /\ 0 <= H - 1
      BY <1>3
    <3>. QED BY <1>8, <3>1
  <2>3. v = Unsigned(y) /\ u = y
    BY <1>6, <1>7, <1>11, <2>1
  <2>. HIDE DEF y
  <2>4. Unsigned(y) = y
    BY <1>3, <2>2, UnsignedNear
  <2>. QED BY <2>2, <2>3, <2>4 DEF v, u
<1>12. CASE type = 6
  <2>. DEFINE y == Clamp(z, -h, h - 1)
  <2>1. Limits(type)[1] = -h /\ Limits(type)[2] = h - 1
    BY <1>5, <1>12 DEF Limits
  <2>2. y \in Int
    <3>1. -h \in Int /\ h - 1 \in Int
      BY <1>4
    <3>. QED BY <1>8, <3>1
  <2>3. v = Unsigned(y) /\ u = y % ByteBase
    BY <1>6, <1>7, <1>12, <2>1
  <2>. HIDE DEF y
  <2>4. Unsigned(y) \in Int /\ y % ByteBase \in Int /\ Parted(Unsigned(y), 1) = Parted(y % ByteBase, 1)
    BY <2>2, PartedCut
  <2>5. LaneWidth(type) = 1
    BY <1>12, LaneWidths
  <2>. QED BY <2>3, <2>4, <2>5 DEF v, u
<1>13. CASE type = 7
  <2>. DEFINE y == Clamp(z, -g, g - 1)
  <2>1. Limits(type)[1] = -g /\ Limits(type)[2] = g - 1
    BY <1>13 DEF Limits, g
  <2>2. y \in Int
    <3>1. -g \in Int /\ g - 1 \in Int
      BY <1>4
    <3>. QED BY <1>8, <3>1
  <2>3. v = Unsigned(y) /\ u = y % H
    BY <1>6, <1>7, <1>13, <2>1
  <2>. HIDE DEF y
  <2>4. Unsigned(y) \in Int /\ y % H \in Int /\ Parted(Unsigned(y), 2) = Parted(y % H, 2)
    BY <2>2, PartedCut DEF H
  <2>5. LaneWidth(type) = 2
    BY <1>13, LaneWidths
  <2>. QED BY <2>3, <2>4, <2>5 DEF v, u
<1>. QED BY <1>9, <1>10, <1>11, <1>12, <1>13

\* Leaving without writing the registers back, when there is nothing to write back.
LEMMA CleanState ==
  ASSUME NEW n, IsNative(n), n.dirty = {}
  PROVE  n.state.gpr = Guests(n) /\ \A a : At(n.state, a) = View(n, a)
<1>1. IsMachine(n.state) /\ n.state.gpr \in [Gprs -> Words]
  BY MachineTypes DEF IsNative
<1>2. \A r \in Gprs : Guest(n, r) = n.state.gpr[r]
  BY DEF Guest, IsNative
<1>3. n.state.gpr = Guests(n)
  BY <1>1, <1>2 DEF Guests
<1>4. WithGprs(n.state, Guests(n)) = n.state
  BY <1>1, <1>3, UpdatesCommute
<1>. QED BY <1>3, <1>4 DEF View

LEMMA LeftAgrees ==
  ASSUME NEW n, NEW t, NEW w, Stands(n, t, w), \A a \in Words : At(n.state, a) = At(t, a), NEW s, NEW m, t.cia = s.cia
  PROVE  Agrees(s, m, Core(t, w, "none"), Return(n, "left", Unsigned(s.cia + 4)))
<1>. DEFINE d == Core(t, w, "none")
            e == Return(n, "left", Unsigned(t.cia + 4))
<1>1. d.stop = "none"
  BY CoreUpdates
<1>2. Agrees(t, w, d, e)
  BY StandsReturns
<1>. HIDE DEF d, e
<1>3. Agrees(s, m, d, e)
  BY <1>1, <1>2 DEF Agrees
<1>. QED BY <1>3 DEF d, e

LEMMA CleanLeft ==
  ASSUME NEW n, NEW t, NEW w, Stands(n, t, w), n.dirty = {}, NEW s, NEW m, t.cia = s.cia
  PROVE  Agrees(s, m, Core(t, w, "none"), Return(n, "left", Unsigned(s.cia + 4)))
<1>1. IsNative(n) /\ \A a \in Words : View(n, a) = At(t, a)
  BY StandsFacts
<1>2. \A a \in Words : At(n.state, a) = At(t, a)
  BY <1>1, CleanState
<1>. QED BY <1>2, LeftAgrees

\* Two stores of lanes that agree.
LEMMA LaneStored ==
  ASSUME NEW n, NEW s, NEW m, Stands(n, s, m), n.memory = m, n.state.gpr = s.gpr \/ m.watch = {},
         NEW a, NEW width \in Nat, NEW v \in Int, NEW u \in Int, Parted(v, width) = Parted(u, width)
  PROVE  LET w == WriteValue(m, s.gpr, a, width, v)
             k == Stored(n, a, width, u)
         IN  Stands(k, s, w) /\ k.memory = w /\ IsMemory(w) /\ k.state = n.state /\ w.watch = m.watch
<1>. DEFINE w == WriteValue(m, s.gpr, a, width, v)
            k == Stored(n, a, width, u)
<1>1. WriteValue(m, s.gpr, a, width, u) = w
  BY Zenon DEF WriteValue
<1>. HIDE DEF w
<1>2. LET x == WriteValue(m, s.gpr, a, width, u) IN
      Stands(k, s, x) /\ k.memory = x /\ IsMemory(x) /\ k.state = n.state /\ x.watch = m.watch
  BY StandsStored
<1>. HIDE DEF k
<1>. QED BY <1>1, <1>2 DEF k, w

LEMMA PairStoreAgrees ==
  ASSUME NEW op \in PairStores, NEW n, NEW s, NEW m, Stands(n, s, m), Told(s, m), NEW i, IsInsn(i), NEW block_,
         LET e == EmittedQuantizedStore(op, n, i, s.cia, block_) IN e.exit = "left" => e.dirty = {}
  PROVE  Agrees(s, m, psq_st(op, Core(s, m, "none"), i), EmittedQuantizedStore(op, n, i, s.cia, block_))
<1>. DEFINE X == is_indexed_memory(op)
            a == Addressed(s, i, X)
            f == FetchAddress(n, i, X)
            k == IF Watched(n) THEN flush_guest_gprs(f) ELSE f
            t == Announced(k, s.cia)
            c == Core(s, m, "none")
            q == s.gqr[i.quantized_register]
            type == q.store_type
            sc == SignedScale(q.store_scale)
            w == LaneWidth(type)
            b == Unsigned(a + w)
            pair == i.paired_single_w
            ps0 == Narrow(s.fpr[i.fp_register])
            ps1 == Narrow(s.ps1[i.fp_register])
            v0 == quantize_lane(ps0, type, sc)
            v1 == quantize_lane(ps1, type, sc)
            u0 == ToLane(type, ps0, sc)
            u1 == ToLane(type, ps1, sc)
            U == op \in {"psq_stu", "psq_stux"}
            odd == \/ type \in 1..3
                   \/ type # 0 /\ (IsNaN(ps0) \/ (~pair /\ IsNaN(ps1)))
            ok == Accessible(a, IF pair THEN w ELSE 2 * w)
            first == Store(c, a, w, v0)
            both == IF pair THEN first ELSE Store(first, b, w, v1)
            put0 == Stored(t, a, w, u0)
            put == IF pair THEN put0 ELSE Stored(put0, b, w, u1)
            done == native_psq_store(k, i, a, s.cia)
            updated == IF U THEN write_guest_gpr(done, i.base, a) ELSE done
            d == psq_st(op, c, i)
            e == EmittedQuantizedStore(op, n, i, s.cia, block_)
<1>1. X \in BOOLEAN /\ IsMachine(s) /\ IsMemory(m) /\ 0 \in DOMAIN s.fpr /\ pair \in BOOLEAN /\ i.fp_register = 0
      /\ i.base \in Gprs
  BY FloatTables, StandsFacts, MachineTypes DEF IsInsn
<1>2. type \in 0..7 /\ q.store_scale \in 0 .. (TwoTo[ScaleBits] - 1)
  <2>1. q \in Quantizations
    BY <1>1, MachineTypes DEF IsInsn
  <2>. HIDE DEF q
  <2>. QED BY <2>1 DEF Quantizations
<1>3. sc \in Int
  BY <1>2, ScaleIsInt
<1>4. a \in Words
  BY <1>1, AddressedWord
<1>5. w \in {1, 2, 4} /\ w = Lane(type) /\ w \in Nat
  BY <1>2, LaneWidths
<1>6. ps0 \in Nat /\ ps1 \in Nat
  <2>1. s.fpr[i.fp_register] \in Nat /\ s.ps1[i.fp_register] \in Nat
    BY <1>1, MachineTypes
  <2>. QED BY <2>1, DoubleIsNat
<1>7. Stands(f, s, m) /\ f.memory = n.memory
  BY <1>1, StandsFetch
<1>. HIDE DEF f
<1>8. /\ Stands(k, s, m) /\ k.memory = n.memory
      /\ k.state.gpr = s.gpr \/ m.watch = {}
  <2>. DEFINE r == flush_guest_gprs(f)
  <2>1. Stands(r, s, m) /\ r.memory = f.memory /\ r.state.gpr = s.gpr
    BY <1>7, StandsFlush
  <2>2. n.memory.watch = m.watch
    BY DEF Stands, Near
  <2>. HIDE DEF r
  <2>. QED BY <1>7, <2>1, <2>2 DEF Watched, r
<1>9. Address(k, i, X) = a
  BY <1>8, AddressOfStands
<1>10. e = IF done.exit # "no" THEN FlushReturn(done, done.exit, s.cia)
           ELSE IF OverlapsOrWraps(block_, a, 8) THEN Return(updated, "left", Unsigned(s.cia + 4)) ELSE updated
  <2>. DEFINE aa == Address(k, i, X)
              dd == native_psq_store(k, i, aa, s.cia)
              uu == IF U THEN write_guest_gpr(dd, i.base, aa) ELSE dd
  <2>1. e = IF dd.exit # "no" THEN FlushReturn(dd, dd.exit, s.cia)
            ELSE IF OverlapsOrWraps(block_, aa, 8) THEN Return(uu, "left", Unsigned(s.cia + 4)) ELSE uu
    BY Zenon DEF EmittedQuantizedStore, f
  <2>. HIDE DEF k, a, U, e, X
  <2>. QED BY <1>9, <2>1
<1>. HIDE DEF k
<1>11. Stands(t, s, m) /\ t.memory = m /\ t.state = k.state
  BY <1>8, StandsTold
<1>12. k.state.gqr = s.gqr /\ k.state.fpr = s.fpr /\ k.state.ps1 = s.ps1
  BY <1>8, StandsFacts
<1>13. QuantizedAddress(op, c, i) = a /\ c.memory = m /\ c.state = s
  BY <1>1, QuantizedAddressIs, CoreUpdates
<1>14. d = IF odd THEN Unsupported(c) ELSE IF ~ok THEN Fault(c)
           ELSE IF U THEN UpdateBase(c, both, i, a) ELSE both
  <2>. DEFINE gq == c.state.gqr[i.quantized_register]
              aa == QuantizedAddress(op, c, i)
              ww == LaneWidth(gq.store_type)
              x0 == Narrow(c.state.fpr[i.fp_register])
              x1 == Narrow(c.state.ps1[i.fp_register])
              V(x) == quantize_lane(x, gq.store_type, SignedScale(gq.store_scale))
              ff == Store(c, aa, ww, V(x0))
              bb == IF i.paired_single_w THEN ff ELSE Store(ff, Unsigned(aa + ww), ww, V(x1))
  <2>1. d = IF \/ Reserved3(gq.store_type)
               \/ gq.store_type # 0 /\ (IsNaN(x0) \/ (~i.paired_single_w /\ IsNaN(x1)))
            THEN Unsupported(c)
            ELSE IF ~Accessible(aa, IF i.paired_single_w THEN ww ELSE 2 * ww) THEN Fault(c)
            ELSE Updating(op, c, bb, i, aa)
    BY Zenon DEF psq_st
  <2>2. \A z : Updating(op, c, z, i, a) = IF U THEN UpdateBase(c, z, i, a) ELSE z
    BY DEF Updating, PairStores
  <2>3. gq = q /\ x0 = ps0 /\ x1 = ps1
    BY <1>13
  <2>. HIDE DEF c, a, d, U, q, gq, x0, x1, ps0, ps1
  <2>. QED BY <1>13, <2>1, <2>2, <2>3, Zenon DEF Reserved3
<1>15. done = IF odd THEN [k EXCEPT !.exit = "unsupported"] ELSE IF ~ok THEN [k EXCEPT !.exit = "fault"] ELSE put
  <2>. DEFINE gq == k.state.gqr[i.quantized_register]
              ww == Lane(gq.store_type)
              x0 == Narrow(k.state.fpr[i.fp_register])
              x1 == Narrow(k.state.ps1[i.fp_register])
              V(x) == ToLane(gq.store_type, x, SignedScale(gq.store_scale))
              ff == Stored(t, a, ww, V(x0))
  <2>1. done = IF \/ gq.store_type \in 1..3
                  \/ gq.store_type # 0 /\ (IsNaN(x0) \/ (~i.paired_single_w /\ IsNaN(x1)))
               THEN [k EXCEPT !.exit = "unsupported"]
               ELSE IF ~Accessible(a, IF i.paired_single_w THEN ww ELSE 2 * ww) THEN [k EXCEPT !.exit = "fault"]
               ELSE IF i.paired_single_w THEN ff
               ELSE Stored(ff, Unsigned(a + ww), ww, V(x1))
    BY Zenon DEF native_psq_store
  <2>2. gq = q /\ x0 = ps0 /\ x1 = ps1
    BY <1>12
  <2>3. ww = w
    BY <1>5, <2>2
  <2>. HIDE DEF a, q, gq, x0, x1, ps0, ps1, ww, w, t, done
  <2>4. (IF pair THEN ff ELSE Stored(ff, Unsigned(a + ww), ww, V(x1))) = put
    BY <2>2, <2>3, Zenon
  <2>. HIDE DEF put, ff, V
  <2>. QED BY <2>1, <2>2, <2>3, <2>4, Zenon
<1>. HIDE DEF t, e, d, a, X
<1>16. CASE odd
  <2>1. d = Core(s, m, "unsupported")
    <3>. HIDE DEF odd, ok, both, U
    <3>. QED BY <1>14, <1>16, CoreUpdates
  <2>2. done = [k EXCEPT !.exit = "unsupported"]
    <3>. HIDE DEF odd, ok, put, done
    <3>. QED BY <1>15, <1>16
  <2>3. done.exit = "unsupported" /\ Agrees(s, m, Core(s, m, "unsupported"), FlushReturn(done, "unsupported", s.cia))
    <3>. HIDE DEF done
    <3>. QED BY <1>8, <2>2, StandsStops
  <2>. HIDE DEF done, updated
  <2>. QED BY <1>10, <2>1, <2>3 DEF d, e
<1>17. CASE ~odd /\ ~ok
  <2>1. d = Core(s, m, "fault")
    <3>. HIDE DEF odd, ok, both, U
    <3>. QED BY <1>14, <1>17, CoreUpdates
  <2>2. done = [k EXCEPT !.exit = "fault"]
    <3>. HIDE DEF odd, ok, put, done
    <3>. QED BY <1>15, <1>17
  <2>3. done.exit = "fault" /\ Agrees(s, m, Core(s, m, "fault"), FlushReturn(done, "fault", s.cia))
    <3>. HIDE DEF done
    <3>. QED BY <1>8, <2>2, StandsStops
  <2>. HIDE DEF done, updated
  <2>. QED BY <1>10, <2>1, <2>3 DEF d, e
<1>18. CASE ~odd /\ ok
  <2>. DEFINE m1 == WriteValue(m, s.gpr, a, w, v0)
              m2 == IF pair THEN m1 ELSE WriteValue(m1, s.gpr, b, w, v1)
  <2>1. type \notin 1..3
    BY <1>18
  <2>2. v0 \in Int /\ u0 \in Int /\ Parted(v0, w) = Parted(u0, w) /\ v1 \in Int /\ u1 \in Int /\ Parted(v1, w) = Parted(u1, w)
    <3>. HIDE DEF type, sc, ps0, ps1
    <3>. QED BY <1>2, <1>3, <1>6, <2>1, QuantizedValues
  <2>3. Accessible(a, w) /\ (~pair => Accessible(b, w))
    <3>1. CASE pair
      BY <1>18, <3>1
    <3>2. CASE ~pair
      <4>1. Accessible(a, 2 * w)
        BY <1>18, <3>2
      <4>. HIDE DEF w
      <4>2. 2 * w \in Nat /\ w \in Nat /\ w # 0 /\ w <= 2 * w /\ w + w <= 2 * w
        BY <1>5
      <4>. QED BY <1>4, <4>1, <4>2, PartAccessible
    <3>. QED BY <3>1, <3>2
  <2>. HIDE DEF v0, v1, u0, u1, b, w
  <2>4. Stands(put0, s, m1) /\ put0.memory = m1 /\ IsMemory(m1) /\ put0.state = t.state /\ m1.watch = m.watch
    <3>1. Stands(t, s, m) /\ t.memory = m /\ (t.state.gpr = s.gpr \/ m.watch = {})
      BY <1>8, <1>11
    <3>2. w \in Nat
      BY <1>5
    <3>. HIDE DEF type, m1, put0, k, odd, ok
    <3>. QED BY <2>2, <3>1, <3>2, LaneStored DEF put0, m1
  <2>5. Stands(put, s, m2) /\ IsMemory(m2)
    <3>1. CASE pair
      BY <2>4, <3>1
    <3>2. CASE ~pair
      <4>. DEFINE put1 == Stored(put0, b, w, u1)
                  m3 == WriteValue(m1, s.gpr, b, w, v1)
      <4>1. put0.state.gpr = s.gpr \/ m1.watch = {}
        BY <1>8, <1>11, <2>4
      <4>. HIDE DEF put0, m1
      <4>2. Stands(put1, s, m3) /\ IsMemory(m3)
        BY <1>5, <2>2, <2>4, <4>1, LaneStored
      <4>. HIDE DEF put1, m3
      <4>3. put = put1 /\ m2 = m3
        BY <3>2 DEF put1, m3
      <4>. QED BY <4>2, <4>3
    <3>. QED BY <3>1, <3>2
  <2>6. both = Core(s, m2, "none")
    <3>1. first = Core(s, m1, "none")
      <4>. HIDE DEF m1
      <4>1. Store(Core(s, m, "none"), a, w, v0) = IF Accessible(a, w) THEN Core(s, WriteValue(m, s.gpr, a, w, v0), "none") ELSE Core(s, m, "fault")
        BY StoreIs
      <4>. QED BY <2>3, <4>1 DEF m1
    <3>. HIDE DEF first, m1
    <3>2. Store(Core(s, m1, "none"), b, w, v1) = IF Accessible(b, w) THEN Core(s, WriteValue(m1, s.gpr, b, w, v1), "none") ELSE Core(s, m1, "fault")
      BY StoreIs
    <3>. QED BY <2>3, <3>1, <3>2
  <2>7. d = IF U THEN UpdateBase(c, Core(s, m2, "none"), i, a) ELSE Core(s, m2, "none")
    <3>. HIDE DEF odd, ok, both, U, m2, c
    <3>. QED BY <1>14, <1>18, <2>6
  <2>8. done = put
    <3>. HIDE DEF odd, ok, put, done
    <3>. QED BY <1>15, <1>18
  <2>. HIDE DEF put, both, m2, done, ok, odd
  <2>9. Stands(done, s, m2) /\ done.exit = "no"
    BY <2>5, <2>8 DEF Stands
  <2>10. U \in BOOLEAN
    BY DEF U
  <2>. HIDE DEF U
  <2>11. Agrees(s, m, IF U THEN UpdateBase(Core(s, m, "none"), Core(s, m2, "none"), i, a) ELSE Core(s, m2, "none"), updated)
    BY <1>4, <2>9, <2>10, LoadedAgrees
  <2>12. CASE OverlapsOrWraps(block_, a, 8)
    <3>. DEFINE z == Return(updated, "left", Unsigned(s.cia + 4))
    <3>1. e = z
      BY <1>10, <2>9, <2>12
    <3>2. Unsigned(s.cia + 4) \in Words
      <4>1. s.cia \in Int
        BY <1>1, MachineTypes, WordRange
      <4>. QED BY <4>1, UnsignedOf
    <3>3. IsNative(updated) /\ (U => i.base \in updated.dirty)
      <4>1. IsNative(done)
        BY <2>9 DEF Stands
      <4>. QED BY <1>1, <1>4, <4>1, WriteIs
    <3>. HIDE DEF updated
    <3>4. z.exit = "left" /\ z.dirty = updated.dirty
      BY <3>2, <3>3, ReturnIs
    <3>. HIDE DEF z
    <3>5. updated.dirty = {}
      BY <3>1, <3>4 DEF e
    <3>6. ~U
      BY <3>3, <3>5
    <3>7. updated = done
      BY <3>6 DEF updated
    <3>8. Agrees(s, m, Core(s, m2, "none"), z)
      BY <2>9, <3>5, <3>7, CleanLeft DEF z
    <3>. QED BY <2>7, <3>1, <3>6, <3>8 DEF e, d
  <2>13. CASE ~OverlapsOrWraps(block_, a, 8)
    <3>. HIDE DEF updated
    <3>1. e = updated
      BY <1>10, <2>9, <2>13
    <3>. QED BY <2>7, <2>11, <3>1 DEF e, d
  <2>. QED BY <2>12, <2>13
<1>. QED BY <1>16, <1>17, <1>18

LEMMA PairAgrees ==
  ASSUME NEW op \in PairLoads \cup PairStores, NEW n, NEW s, NEW m, Stands(n, s, m), Told(s, m), NEW i, IsInsn(i), NEW b,
         LET e == EmitFloat(op, n, i, s.cia, b) IN op \in PairStores /\ e.exit = "left" => e.dirty = {}
  PROVE  Agrees(s, m, ExecuteFloat(op, Core(s, m, "none"), i), EmitFloat(op, n, i, s.cia, b))
<1>. DEFINE c == Core(s, m, "none")
<1>1. CASE op \in PairLoads
  <2>1. ExecuteFloat(op, c, i) = psq_l(op, c, i) /\ EmitFloat(op, n, i, s.cia, b) = EmittedQuantizedLoad(op, n, i, s.cia)
    <3>. HIDE DEF c
    <3>. QED BY <1>1 DEF PairLoads, ExecuteFloat, EmitFloat, SingleStores, DoubleStores
  <2>. QED BY <1>1, <2>1, PairLoadAgrees
<1>2. CASE op \in PairStores
  <2>1. ExecuteFloat(op, c, i) = psq_st(op, c, i) /\ EmitFloat(op, n, i, s.cia, b) = EmittedQuantizedStore(op, n, i, s.cia, b)
    <3>. HIDE DEF c
    <3>. QED BY <1>2 DEF PairStores, ExecuteFloat, EmitFloat, SingleStores, DoubleStores
  <2>2. LET e == EmittedQuantizedStore(op, n, i, s.cia, b) IN e.exit = "left" => e.dirty = {}
    BY <1>2, <2>1, Zenon
  <2>3. Agrees(s, m, psq_st(op, Core(s, m, "none"), i), EmittedQuantizedStore(op, n, i, s.cia, b))
    BY <1>2, <2>2, PairStoreAgrees
  <2>. QED BY <2>1, <2>3
<1>. QED BY <1>1, <1>2
----------------------------------------------------------------------------
(* Reservations, cache instructions and addi.                               *)

\* One field of a machine at a time, in a core or a native machine.
LinkValid(s, v)   == [s EXCEPT !.reservation_valid = v]
LinkAddress(s, a) == [s EXCEPT !.reservation_address = a]

LEMMA LinkSteps ==
  ASSUME NEW s, IsMachine(s), NEW v, NEW a
  PROVE  LinkValid(LinkAddress(s, a), v) = WithLink(s, v, a) /\ LinkValid(s, v) = WithLink(s, v, s.reservation_address)
<1>1. s = [gpr |-> s.gpr, xer |-> s.xer, cr |-> s.cr, lr |-> s.lr, ctr |-> s.ctr, cia |-> s.cia,
           fpr |-> s.fpr, ps1 |-> s.ps1, gqr |-> s.gqr,
           reservation_valid |-> s.reservation_valid, reservation_address |-> s.reservation_address]
  BY MachineTypes
<1>2. LinkAddress(s, a) = [gpr |-> s.gpr, xer |-> s.xer, cr |-> s.cr, lr |-> s.lr, ctr |-> s.ctr, cia |-> s.cia,
           fpr |-> s.fpr, ps1 |-> s.ps1, gqr |-> s.gqr,
           reservation_valid |-> s.reservation_valid, reservation_address |-> a]
  BY <1>1 DEF LinkAddress
<1>3. LinkValid(s, v) = [gpr |-> s.gpr, xer |-> s.xer, cr |-> s.cr, lr |-> s.lr, ctr |-> s.ctr, cia |-> s.cia,
           fpr |-> s.fpr, ps1 |-> s.ps1, gqr |-> s.gqr,
           reservation_valid |-> v, reservation_address |-> s.reservation_address]
  BY <1>1 DEF LinkValid
<1>4. \A x : WithLink(s, v, x) = [LinkValid(s, v) EXCEPT !.reservation_address = x]
  BY DEF WithLink, LinkValid
<1>5. \A x : WithLink(s, v, x) = [gpr |-> s.gpr, xer |-> s.xer, cr |-> s.cr, lr |-> s.lr, ctr |-> s.ctr, cia |-> s.cia,
           fpr |-> s.fpr, ps1 |-> s.ps1, gqr |-> s.gqr,
           reservation_valid |-> v, reservation_address |-> x]
  <2>. DEFINE t == LinkValid(s, v)
  <2>. HIDE DEF t
  <2>1. \A x : WithLink(s, v, x) = [t EXCEPT !.reservation_address = x]
    BY <1>4 DEF t
  <2>2. t = [gpr |-> s.gpr, xer |-> s.xer, cr |-> s.cr, lr |-> s.lr, ctr |-> s.ctr, cia |-> s.cia,
             fpr |-> s.fpr, ps1 |-> s.ps1, gqr |-> s.gqr,
             reservation_valid |-> v, reservation_address |-> s.reservation_address]
    BY <1>3 DEF t
  <2>. QED BY <2>1, <2>2
<1>6. LinkValid(LinkAddress(s, a), v) = [gpr |-> s.gpr, xer |-> s.xer, cr |-> s.cr, lr |-> s.lr, ctr |-> s.ctr, cia |-> s.cia,
           fpr |-> s.fpr, ps1 |-> s.ps1, gqr |-> s.gqr,
           reservation_valid |-> v, reservation_address |-> a]
  <2>. DEFINE t == LinkAddress(s, a)
  <2>. HIDE DEF t
  <2>1. t = [gpr |-> s.gpr, xer |-> s.xer, cr |-> s.cr, lr |-> s.lr, ctr |-> s.ctr, cia |-> s.cia,
           fpr |-> s.fpr, ps1 |-> s.ps1, gqr |-> s.gqr,
           reservation_valid |-> s.reservation_valid, reservation_address |-> a]
    BY <1>2 DEF t
  <2>2. LinkValid(t, v) = [gpr |-> s.gpr, xer |-> s.xer, cr |-> s.cr, lr |-> s.lr, ctr |-> s.ctr, cia |-> s.cia,
           fpr |-> s.fpr, ps1 |-> s.ps1, gqr |-> s.gqr,
           reservation_valid |-> v, reservation_address |-> a]
    BY <2>1 DEF LinkValid
  <2>. QED BY <2>2 DEF t
<1>. QED BY <1>3, <1>5, <1>6

LEMMA AddiAgrees ==
  ASSUME NEW n, NEW s, NEW m, Stands(n, s, m), NEW i, IsInsn(i)
  PROVE  Agrees(s, m, [Core(s, m, "none") EXCEPT !.state = addi(Core(s, m, "none").state, i)], EmittedAddi("addi", n, i))
<1>. DEFINE k == IF i.base = 0 THEN n ELSE read_guest_gpr(n, {i.base})
            a == IF i.base = 0 THEN 0 ELSE s.gpr[i.base]
            v == Unsigned(a + i.immediate)
            d == [Core(s, m, "none") EXCEPT !.state = addi(Core(s, m, "none").state, i)]
            g == Slot(s.gpr, i.destination, v)
            t == WithGprs(s, g)
            e == write_guest_gpr(k, i.destination, v)
<1>1. IsMachine(s) /\ s.gpr \in [Gprs -> Words] /\ i.base \in Gprs /\ i.destination \in Gprs /\ i.immediate \in Words
  BY StandsFacts DEF IsInsn
<1>2. v \in Words
  <2>1. a + i.immediate \in Int
    BY <1>1, WordRange
  <2>. HIDE DEF a
  <2>. QED BY <2>1, UnsignedOf
<1>3. Stands(k, s, m)
  <2>1. {i.base} \in SUBSET Gprs
    BY <1>1
  <2>2. Stands(read_guest_gpr(n, {i.base}), s, m)
    BY <2>1, StandsRead
  <2>. QED BY <2>2
<1>4. i.base # 0 => k.host[i.base] = s.gpr[i.base]
  <2>1. Guest(k, i.base) = s.gpr[i.base]
    BY <1>1, <1>3, StandsFacts
  <2>2. i.base # 0 => i.base \in DOMAIN k.host
    <3>. DEFINE h == [r \in DOMAIN n.host \cup {i.base} |-> Guest(n, r)]
    <3>1. n = NativeOf(n.state, n.host, n.dirty, n.memory, n.exit)
      BY NativeFields DEF Stands
    <3>2. read_guest_gpr(n, {i.base}) = [n EXCEPT !.host = h]
      BY Zenon DEF read_guest_gpr
    <3>3. i.base \in DOMAIN h
      OBVIOUS
    <3>. HIDE DEF h
    <3>4. [n EXCEPT !.host = h].host = h
      BY <3>1 DEF NativeOf
    <3>. QED BY <3>2, <3>3, <3>4
  <2>. HIDE DEF k
  <2>. QED BY <2>1, <2>2 DEF Guest
<1>5. EmittedAddi("addi", n, i) = e
  <2>1. immediate_value("addi", i) = i.immediate
    BY DEF immediate_value
  <2>2. EmittedAddi("addi", n, i)
          = write_guest_gpr(k, i.destination, Unsigned((IF i.base = 0 THEN 0 ELSE k.host[i.base]) + immediate_value("addi", i)))
    BY Zenon DEF EmittedAddi, Base
  <2>. HIDE DEF k
  <2>. QED BY <1>4, <2>1, <2>2
<1>6. d = Core(t, m, "none")
  <2>1. Core(s, m, "none").state = s
    BY CoreUpdates
  <2>2. addi(s, i) = t
    BY Zenon DEF addi, Put, AddiBase, A, WithGprs, Slot
  <2>. HIDE DEF t
  <2>. QED BY <2>1, <2>2, CoreUpdates
<1>. HIDE DEF k, v
<1>7. Stands(e, t, m)
  BY <1>1, <1>2, <1>3, StandsWrite
<1>8. t.cia = s.cia
  BY <1>1, <1>2, SlotWords, GprsUpdate
<1>. HIDE DEF t, e
<1>9. Agrees(s, m, Core(t, m, "none"), e)
  BY <1>7, <1>8, AgreesMoved
<1>. QED BY <1>5, <1>6, <1>9

LEMMA HintAgrees ==
  ASSUME NEW n, NEW s, NEW m, Stands(n, s, m), NEW i, IsInsn(i)
  PROVE  /\ Agrees(s, m, Core(s, m, "none"), EmittedCacheHint(n, i))
         /\ Agrees(s, m, Core(s, m, "none"), n)
<1>. DEFINE f == FetchAddress(n, i, FALSE)
            k == read_guest_gpr(f, {i.source})
<1>1. Stands(f, s, m) /\ {i.source} \in SUBSET Gprs
  BY StandsFetch DEF IsInsn
<1>. HIDE DEF f
<1>2. Stands(k, s, m)
  BY <1>1, StandsRead
<1>3. EmittedCacheHint(n, i) = k
  BY Zenon DEF EmittedCacheHint, f
<1>. HIDE DEF k
<1>. QED BY <1>2, <1>3, AgreesMoved

LEMMA ValidationAgrees ==
  ASSUME NEW n, NEW s, NEW m, Stands(n, s, m), Told(s, m), NEW i, IsInsn(i), NEW b
  PROVE  Agrees(s, m, dcbst(Core(s, m, "none"), i), EmittedValidation(n, i, s.cia, b))
<1>. DEFINE c == Core(s, m, "none")
            k == FetchAddress(n, i, TRUE)
            a == Addressed(s, i, TRUE)
            t == Announced(k, s.cia)
            e == EmittedValidation(n, i, s.cia, b)
<1>1. IndexedAddress(c, i) = a
  BY StandsFacts, CoreAddresses, ZenonT(30)
<1>2. Stands(k, s, m) /\ Address(k, i, TRUE) = a
  BY StandsFetch
<1>3. e = IF ~Accessible(a, 1) THEN FlushReturn(t, "fault", s.cia)
          ELSE IF OverlapsBlock(b, a, 1) THEN FlushReturn(t, "left", Unsigned(s.cia + 4)) ELSE t
  <2>. DEFINE aa == Address(k, i, TRUE)
  <2>1. e = IF ~Accessible(aa, 1) THEN FlushReturn(t, "fault", s.cia)
          ELSE IF OverlapsBlock(b, aa, 1) THEN FlushReturn(t, "left", Unsigned(s.cia + 4)) ELSE t
    BY Zenon DEF EmittedValidation
  <2>. HIDE DEF k, a, e, t
  <2>. QED BY <1>2, <2>1
<1>. HIDE DEF k
<1>4. Stands(t, s, m)
  BY <1>2, StandsTold
<1>5. dcbst(c, i) = IF Accessible(a, 1) THEN c ELSE Core(s, m, "fault")
  <2>1. Fault(c) = Core(s, m, "fault")
    BY CoreUpdates
  <2>. HIDE DEF c, a
  <2>. QED BY <1>1, <2>1 DEF dcbst
<1>. HIDE DEF t, a
<1>6. Agrees(s, m, c, t) /\ Agrees(s, m, c, FlushReturn(t, "left", Unsigned(s.cia + 4)))
  BY <1>4, AgreesMoved
<1>7. Agrees(s, m, Core(s, m, "fault"), FlushReturn(t, "fault", s.cia))
  BY <1>4, StandsFaults
<1>. HIDE DEF c, e
<1>. QED BY <1>3, <1>5, <1>6, <1>7 DEF c, e

LEMMA BlockZeroAgrees ==
  ASSUME NEW n, NEW s, NEW m, Stands(n, s, m), Told(s, m), NEW i, IsInsn(i), m.watch = {} \/ n.dirty = {}
  PROVE  Agrees(s, m, dcbz(Core(s, m, "none"), i), EmittedBlockZero(n, i, s.cia))
<1>. DEFINE c == Core(s, m, "none")
            k == FetchAddress(n, i, TRUE)
            t == Announced(k, s.cia)
            a == Addressed(s, i, TRUE)
            z == a - (a % CacheBlock)
            w == WriteBytes(m, s.gpr, z, Zeros)
            v == WriteBytes(t.memory, k.state.gpr, z, Zeros)
            put == [t EXCEPT !.memory = v]
            d == dcbz(c, i)
            e == EmittedBlockZero(n, i, s.cia)
<1>0. IndexedAddress(c, i) = a
  <2>1. IsMachine(s)
    BY StandsFacts
  <2>. QED BY <2>1, CoreAddresses, Zenon
<1>1. IsMachine(s) /\ IsMemory(m) /\ c.memory = m /\ c.state = s
  BY StandsFacts, CoreUpdates
<1>2. Stands(k, s, m) /\ Address(k, i, TRUE) = a /\ k.state = n.state
  <2>1. k.state = n.state
    <3>. DEFINE S == (IF i.base = 0 THEN {} ELSE {i.base}) \cup {i.source}
    <3>1. FetchAddress(n, i, TRUE) = read_guest_gpr(n, S)
      BY DEF FetchAddress
    <3>2. S \in SUBSET Gprs
      BY DEF IsInsn
    <3>. HIDE DEF S
    <3>. QED BY <3>1, <3>2, ReadIs DEF Stands
  <2>. QED BY <2>1, StandsFetch
<1>3. k.state.gpr = s.gpr \/ m.watch = {}
  <2>1. CASE n.dirty = {}
    <3>1. n.state.gpr = Guests(n)
      BY <2>1, CleanState DEF Stands
    <3>2. Guests(n) = s.gpr
      BY StandsFacts
    <3>. QED BY <1>2, <3>1, <3>2
  <2>. QED BY <2>1
<1>4. d = IF Accessible(z, CacheBlock) THEN Core(s, w, "none") ELSE Core(s, m, "fault")
  <2>1. CacheBlockOf(IndexedAddress(c, i)) = z
    <3>. HIDE DEF c, a
    <3>. QED BY <1>0 DEF CacheBlockOf
  <2>2. Fault(c) = Core(s, m, "fault") /\ [c EXCEPT !.memory = w] = Core(s, w, "none")
    <3>. HIDE DEF w
    <3>. QED BY CoreUpdates
  <2>3. d = IF Accessible(z, CacheBlock) THEN [c EXCEPT !.memory = WriteBytes(c.memory, c.state.gpr, z, Zeros)] ELSE Fault(c)
    <3>. DEFINE y == CacheBlockOf(IndexedAddress(c, i))
    <3>1. d = IF Accessible(y, CacheBlock) THEN [c EXCEPT !.memory = WriteBytes(c.memory, c.state.gpr, y, Zeros)] ELSE Fault(c)
      BY Zenon DEF dcbz
    <3>. HIDE DEF y, z, d, c
    <3>. QED BY <2>1, <3>1 DEF y
  <2>. HIDE DEF d, c, z
  <2>. QED BY <1>1, <2>2, <2>3
<1>5. e = IF Accessible(z, CacheBlock) THEN FlushReturn(put, "left", Unsigned(s.cia + 4)) ELSE FlushReturn(t, "fault", s.cia)
  <2>. DEFINE y == Address(k, i, TRUE) - (Address(k, i, TRUE) % CacheBlock)
  <2>1. e = IF Accessible(y, CacheBlock)
            THEN FlushReturn([t EXCEPT !.memory = WriteBytes(t.memory, k.state.gpr, y, Zeros)], "left", Unsigned(s.cia + 4))
            ELSE FlushReturn(t, "fault", s.cia)
    BY Zenon DEF EmittedBlockZero, Zeros
  <2>2. y = z
    BY <1>2
  <2>. HIDE DEF y, z, e, t, k
  <2>. QED BY <2>1, <2>2
<1>. HIDE DEF k
<1>6. Stands(t, s, m) /\ t.memory = m /\ t.state = k.state
  BY <1>2, StandsTold
<1>7. Zeros \in [1..CacheBlock -> Bytes] /\ CacheBlock \in Nat
  BY ByteSizes, LaneValuesAssumption DEF Zeros
<1>. HIDE DEF t, z
<1>8. v = w /\ IsMemory(w)
  <2>1. WriteBytes(m, k.state.gpr, z, Zeros) = w
    <3>1. CASE k.state.gpr = s.gpr
      BY <3>1
    <3>2. CASE m.watch = {}
      BY <1>1, <1>7, <3>2, UnwatchedWrite
    <3>. QED BY <1>3, <3>1, <3>2
  <2>2. IsMemory(w)
    <3>1. LET x == WriteBytes(m, s.gpr, z, Zeros) IN IsMemory(x)
      <4>. DEFINE h == s.gpr
      <4>. HIDE DEF h
      <4>1. IsMemory(WriteBytes(m, h, z, Zeros))
        BY <1>1, <1>7, WriteBytesIs
      <4>. QED BY <4>1 DEF h
    <3>. QED BY <3>1
  <2>. QED BY <1>6, <2>1, <2>2
<1>. HIDE DEF w, v
<1>9. Stands(put, s, w)
  <2>1. \E x : Stands(t, s, x)
    BY <1>6
  <2>2. put = [t EXCEPT !.memory = w]
    BY <1>8
  <2>. HIDE DEF put
  <2>. QED BY <1>8, <2>1, <2>2, StandsMemory
<1>. HIDE DEF put, c, d, e
<1>10. Agrees(s, m, Core(s, w, "none"), FlushReturn(put, "left", Unsigned(s.cia + 4)))
  BY <1>9, AgreesMoved
<1>11. Agrees(s, m, Core(s, m, "fault"), FlushReturn(t, "fault", s.cia))
  BY <1>6, StandsFaults
<1>. QED BY <1>4, <1>5, <1>10, <1>11 DEF c, d, e
----------------------------------------------------------------------------
(* Reservations.                                                            *)

LEMMA StandsAddress ==
  ASSUME NEW k, NEW s, NEW m, Stands(k, s, m), NEW i, IsInsn(i), NEW indexed \in BOOLEAN
  PROVE  Address(k, i, indexed) = Addressed(s, i, indexed)
<1>1. \A r \in Gprs : Guest(k, r) = s.gpr[r]
  BY StandsFacts
<1>2. i.base \in Gprs /\ i.source \in Gprs
  BY DEF IsInsn
<1>. QED BY <1>1, <1>2 DEF Address, Addressed

\* What lwarx leaves in a core and in a native machine.
LoadedLink(c, r, v, z) ==
  [c EXCEPT !.state.gpr[r] = v, !.state.reservation_address = z, !.state.reservation_valid = TRUE]
Replaced(h, r, v) == [q \in DOMAIN h |-> IF q = r THEN v ELSE h[q]]
HostLink(k, r, v, z) ==
  [k EXCEPT !.state.gpr[r] = v, !.state.reservation_address = z, !.state.reservation_valid = TRUE,
            !.host = [q \in DOMAIN @ |-> IF q = r THEN v ELSE @[q]]]

LinkedCore(s, m, r, v, z) == Core(WithLink(WithGprs(s, Slot(s.gpr, r, v)), TRUE, z), m, "none")

LEMMA LoadedLinkIs ==
  ASSUME NEW s, IsMachine(s), NEW m, NEW r \in Gprs, NEW v \in Words, NEW z
  PROVE  LoadedLink(Core(s, m, "none"), r, v, z) = LinkedCore(s, m, r, v, z)
<1>. DEFINE t == WithGprs(s, Slot(s.gpr, r, v))
<1>1. IsMachine(t)
  BY MachineTypes, SlotWords, GprsUpdate
<1>2. LoadedLink(Core(s, m, "none"), r, v, z) = Core(LinkValid(LinkAddress(t, z), TRUE), m, "none")
  <2>. DEFINE c == Core(s, m, "none")
              c1 == [c EXCEPT !.state.gpr[r] = v]
              c2 == [c1 EXCEPT !.state.reservation_address = z]
              c3 == [c2 EXCEPT !.state.reservation_valid = TRUE]
  <2>1. LoadedLink(c, r, v, z) = c3
    <3>. HIDE DEF c
    <3>. QED BY Zenon DEF LoadedLink
  <2>2. c1 = Core(t, m, "none")
    BY CoreUpdates, SMTT(30)
  <2>. HIDE DEF c1, t
  <2>3. c2 = Core(LinkAddress(t, z), m, "none")
    <3>1. \A y : [Core(y, m, "none") EXCEPT !.state.reservation_address = z] = Core(LinkAddress(y, z), m, "none")
      BY DEF Core, LinkAddress
    <3>. QED BY <2>2, <3>1
  <2>. HIDE DEF c2, c
  <2>4. c3 = Core(LinkValid(LinkAddress(t, z), TRUE), m, "none")
    <3>1. \A y, b : [Core(y, m, "none") EXCEPT !.state.reservation_valid = b] = Core(LinkValid(y, b), m, "none")
      BY DEF Core, LinkValid
    <3>. QED BY Zenon, <2>3, <3>1
  <2>. QED BY <2>1, <2>4 DEF c
<1>. HIDE DEF t
<1>. QED BY <1>1, <1>2, LinkSteps DEF t, LinkedCore

LEMMA HostLinkIs ==
  ASSUME NEW k, IsNative(k), NEW r \in Gprs, NEW v \in Words, NEW z
  PROVE  HostLink(k, r, v, z)
           = NativeOf(WithLink(WithGprs(k.state, Slot(k.state.gpr, r, v)), TRUE, z), Replaced(k.host, r, v),
                      k.dirty, k.memory, k.exit)
<1>. DEFINE t == WithGprs(k.state, Slot(k.state.gpr, r, v))
            n == NativeOf(k.state, k.host, k.dirty, k.memory, k.exit)
<1>1. k = n /\ IsMachine(k.state)
  BY NativeFields
<1>2. IsMachine(t)
  BY <1>1, MachineTypes, SlotWords, GprsUpdate
<1>3. HostLink(n, r, v, z) = NativeOf(LinkValid(LinkAddress(t, z), TRUE), Replaced(k.host, r, v), k.dirty, k.memory, k.exit)
  <2>. DEFINE n1 == [n EXCEPT !.state.gpr[r] = v]
              n2 == [n1 EXCEPT !.state.reservation_address = z]
              n3 == [n2 EXCEPT !.state.reservation_valid = TRUE]
              n4 == [n3 EXCEPT !.host = [q \in DOMAIN @ |-> IF q = r THEN v ELSE @[q]]]
              Of(y) == NativeOf(y, k.host, k.dirty, k.memory, k.exit)
  <2>1. HostLink(n, r, v, z) = n4
    <3>. HIDE DEF n
    <3>. QED BY Zenon DEF HostLink
  <2>2. n1 = Of(t)
    BY DEF NativeOf, WithGprs, Slot
  <2>. HIDE DEF n1, t
  <2>3. n2 = Of(LinkAddress(t, z))
    <3>1. \A y : [Of(y) EXCEPT !.state.reservation_address = z] = Of(LinkAddress(y, z))
      BY DEF NativeOf, LinkAddress
    <3>. HIDE DEF Of
    <3>. QED BY <2>2, <3>1
  <2>. HIDE DEF n2
  <2>4. n3 = Of(LinkValid(LinkAddress(t, z), TRUE))
    <3>1. \A y, b : [Of(y) EXCEPT !.state.reservation_valid = b] = Of(LinkValid(y, b))
      BY DEF NativeOf, LinkValid
    <3>. HIDE DEF Of
    <3>. QED BY Zenon, <2>3, <3>1
  <2>. HIDE DEF n3
  <2>5. n4 = NativeOf(LinkValid(LinkAddress(t, z), TRUE), Replaced(k.host, r, v), k.dirty, k.memory, k.exit)
    <3>1. \A y : [Of(y) EXCEPT !.host = [q \in DOMAIN @ |-> IF q = r THEN v ELSE @[q]]]
                  = NativeOf(y, Replaced(k.host, r, v), k.dirty, k.memory, k.exit)
      BY DEF NativeOf, Replaced
    <3>. HIDE DEF Of
    <3>. QED BY <2>4, <3>1
  <2>. QED BY <2>1, <2>5
<1>. HIDE DEF t, n
<1>4. LinkValid(LinkAddress(t, z), TRUE) = WithLink(t, TRUE, z)
  BY <1>2, LinkSteps
<1>. QED BY <1>1, <1>3, <1>4 DEF t

LEMMA HostLinkStands ==
  ASSUME NEW k, NEW s, NEW m, Stands(k, s, m), k.state.gpr = s.gpr, NEW r \in Gprs, NEW v \in Words, NEW z \in Words
  PROVE  Stands(HostLink(k, r, v, z), WithLink(WithGprs(s, Slot(s.gpr, r, v)), TRUE, z), m)
<1>. DEFINE g == Slot(s.gpr, r, v)
            y == WithGprs(k.state, g)
            x == WithLink(y, TRUE, z)
            h == Replaced(k.host, r, v)
            e == HostLink(k, r, v, z)
            t == WithLink(WithGprs(s, g), TRUE, z)
<1>1. IsNative(k) /\ IsMachine(s) /\ k.exit = "no" /\ Near(k.memory, m) /\ IsMachine(k.state) /\ s.cia \in Words
      /\ s.gpr \in [Gprs -> Words] /\ DOMAIN k.host \subseteq Gprs /\ k.dirty \subseteq DOMAIN k.host
      /\ IsMemory(k.memory)
  BY StandsFacts, NativeFields DEF Stands
<1>2. g \in [Gprs -> Words]
  BY <1>1, SlotWords
<1>3. e = NativeOf(x, h, k.dirty, k.memory, k.exit)
  BY <1>1, HostLinkIs
<1>4. \A q \in Gprs : Guest(k, q) = s.gpr[q]
  BY StandsFacts
<1>5. DOMAIN h = DOMAIN k.host /\ \A q \in DOMAIN h : h[q] = g[q]
  <2>1. \A q \in DOMAIN k.host : k.host[q] = s.gpr[q]
    BY <1>1, <1>4 DEF Guest
  <2>. QED BY <1>1, <2>1 DEF Replaced, Slot
<1>6. h \in [DOMAIN h -> Words]
  <2>1. h = [q \in DOMAIN h |-> h[q]]
    BY DEF Replaced
  <2>. HIDE DEF h, g
  <2>. QED BY <1>1, <1>2, <1>5, <2>1
<1>. HIDE DEF g, h
<1>7. IsMachine(y) /\ y.gpr = g
  BY <1>1, <1>2, GprsUpdate
<1>. HIDE DEF y
<1>8. IsMachine(x) /\ x.gpr = g
  BY <1>7, LinkUpdate
<1>. HIDE DEF x, e
<1>9. e.state = x /\ e.host = h /\ e.dirty = k.dirty /\ e.memory = k.memory /\ e.exit = k.exit
      /\ e = [state |-> e.state, host |-> e.host, dirty |-> e.dirty, memory |-> e.memory, exit |-> e.exit]
  BY <1>3 DEF NativeOf
<1>10. IsNative(e)
  BY <1>1, <1>5, <1>6, <1>8, <1>9 DEF IsNative
<1>11. Guests(e) = g
  <2>1. \A q \in Gprs : Guest(e, q) = g[q]
    BY <1>5, <1>8, <1>9 DEF Guest
  <2>. QED BY <1>2, <2>1 DEF Guests
<1>12. View(e, s.cia) = At(x, s.cia)
  BY <1>8, <1>9, <1>11, UpdatesCommute DEF View
<1>13. At(x, s.cia) = WithLink(At(y, s.cia), TRUE, z)
  <2>1. \A v1, l1, a1 : At(WithLink(y, v1, l1), a1) = WithLink(At(y, a1), v1, l1)
    BY <1>7, UpdatesCommute, Zenon
  <2>. QED BY <2>1 DEF x
<1>14. At(y, s.cia) = WithGprs(s, g)
  <2>1. At(y, s.cia) = WithGprs(At(k.state, s.cia), g)
    BY <1>1, UpdatesCommute DEF y
  <2>2. At(WithGprs(k.state, s.gpr), s.cia) = s
    <3>1. View(k, s.cia) = s /\ Guests(k) = s.gpr
      BY StandsFacts DEF Stands
    <3>. QED BY <3>1 DEF View
  <2>3. WithGprs(k.state, s.gpr) = k.state
    BY <1>1, UpdatesCommute
  <2>. QED BY <2>1, <2>2, <2>3
<1>15. IsMachine(t) /\ t.cia = s.cia
  <2>. DEFINE u == WithGprs(s, g)
  <2>1. IsMachine(u) /\ u.cia = s.cia
    BY <1>1, <1>2, GprsUpdate
  <2>. HIDE DEF u
  <2>2. IsMachine(WithLink(u, TRUE, z)) /\ WithLink(u, TRUE, z).cia = s.cia
    BY <2>1, LinkUpdate
  <2>. QED BY <2>2 DEF u
<1>16. View(e, s.cia) = t
  BY <1>12, <1>13, <1>14
<1>. HIDE DEF t
<1>17. Stands(e, t, m)
  BY <1>1, <1>9, <1>10, <1>15, <1>16 DEF Stands
<1>. QED BY <1>17 DEF e, t, g

LEMMA LoadReserveAgrees ==
  ASSUME NEW n, NEW s, NEW m, Stands(n, s, m), NEW i, IsInsn(i)
  PROVE  Agrees(s, m, lwarx(Core(s, m, "none"), i), EmittedLoadReserve(n, i, s.cia))
<1>. DEFINE c == Core(s, m, "none")
            f == FetchAddress(n, i, TRUE)
            k == flush_guest_gprs(f)
            a == Addressed(s, i, TRUE)
            r == i.destination
            v == ReadValue(m, a, 4)
            z == resolve_alias_address(a)
            t == WithLink(WithGprs(s, Slot(s.gpr, r, v)), TRUE, z)
            d == lwarx(c, i)
            e == EmittedLoadReserve(n, i, s.cia)
            bad == a % 4 # 0 \/ ~Accessible(a, 4)
<1>1. IsMachine(s) /\ IsMemory(m) /\ r \in Gprs /\ c.memory = m /\ c.state = s
  BY StandsFacts, CoreUpdates DEF IsInsn
<1>2. IndexedAddress(c, i) = a
  <2>1. IsMachine(s)
    BY StandsFacts
  <2>. QED BY <2>1, CoreAddresses, Zenon
<1>3. a \in Words
  BY <1>1, AddressedWord
<1>4. Stands(f, s, m)
  BY StandsFetch
<1>5. Stands(k, s, m) /\ k.state.gpr = s.gpr /\ \A x \in Words : At(k.state, x) = At(s, x)
  <2>. HIDE DEF f
  <2>. QED BY <1>4, StandsFlush
<1>6. d = IF bad THEN Fault(c) ELSE LoadedLink(c, r, v, z)
  <2>. DEFINE y == IndexedAddress(c, i)
  <2>1. d = IF y % 4 # 0 \/ ~Accessible(y, 4) THEN Fault(c)
            ELSE LoadedLink(c, r, ReadValue(c.memory, y, 4), resolve_alias_address(y))
    BY Zenon DEF lwarx, LoadedLink
  <2>2. y = a
    BY <1>2
  <2>. HIDE DEF y, a, c, d
  <2>. QED BY <1>1, <2>1, <2>2
<1>7. e = IF bad THEN Return(k, "fault", s.cia) ELSE HostLink(k, r, v, z)
  <2>. DEFINE y == Address(k, i, TRUE)
  <2>1. e = IF y % 4 # 0 \/ ~Accessible(y, 4) THEN Return(k, "fault", s.cia)
            ELSE HostLink(k, r, ReadValue(k.memory, y, 4), resolve_alias_address(y))
    BY Zenon DEF EmittedLoadReserve, HostLink
  <2>. HIDE DEF k
  <2>2. y = a
    BY <1>5, StandsAddress
  <2>3. ReadValue(k.memory, a, 4) = v
    <3>1. Near(k.memory, m)
      BY <1>5 DEF Stands
    <3>2. \A p, w : ReadValue(k.memory, p, w) = ReadValue(m, p, w)
      BY <3>1, NearReads
    <3>. HIDE DEF a
    <3>. QED BY <3>2
  <2>. HIDE DEF y, a, e
  <2>. QED BY <2>1, <2>2, <2>3
<1>. HIDE DEF k, f
<1>8. Agrees(s, m, Core(s, m, "fault"), Return(k, "fault", s.cia))
  BY <1>5, StandsReturns
<1>9. Fault(c) = Core(s, m, "fault")
  BY CoreUpdates
<1>10. CASE bad
  <2>1. d = Core(s, m, "fault") /\ e = Return(k, "fault", s.cia)
    <3>. HIDE DEF c, d, e, bad
    <3>. QED BY <1>6, <1>7, <1>9, <1>10
  <2>. HIDE DEF d, e
  <2>2. Agrees(s, m, d, e)
    BY <1>8, <2>1
  <2>. QED BY <2>2 DEF d, e, c
<1>11. CASE ~bad
  <2>1. v \in Words /\ z \in Words
    <3>1. Accessible(a, 4)
      BY <1>11
    <3>2. v \in Words
      BY <1>1, <1>3, <3>1, ReadWidths
    <3>3. Accessible(a, 1)
      <4>1. \A u \in Nat : u <= 4 => Accessible(a, u)
        <5>. HIDE DEF a
        <5>. QED BY <1>3, <3>1, PartAccessible
      <4>. HIDE DEF a
      <4>. QED BY <4>1
    <3>. QED BY <1>3, <3>2, <3>3, ResolvedWord
  <2>2. d = Core(t, m, "none") /\ e = HostLink(k, r, v, z)
    <3>1. LoadedLink(c, r, v, z) = Core(t, m, "none")
      <4>. HIDE DEF v, z
      <4>1. IsMachine(s) /\ r \in Gprs
        BY <1>1
      <4>. HIDE DEF r
      <4>2. LoadedLink(c, r, v, z) = LinkedCore(s, m, r, v, z)
        BY <2>1, <4>1, LoadedLinkIs
      <4>. QED BY <4>2 DEF LinkedCore
    <3>. HIDE DEF c, d, e, bad, t, v, z
    <3>. QED BY <1>6, <1>7, <1>11, <3>1
  <2>. HIDE DEF v, z
  <2>3. Stands(HostLink(k, r, v, z), t, m)
    BY <1>1, <1>5, <2>1, HostLinkStands
  <2>4. t.cia = s.cia
    <3>. DEFINE u == WithGprs(s, Slot(s.gpr, r, v))
    <3>1. IsMachine(u) /\ u.cia = s.cia
      BY <1>1, <2>1, MachineTypes, SlotWords, GprsUpdate
    <3>. HIDE DEF u
    <3>2. WithLink(u, TRUE, z).cia = s.cia
      BY <2>1, <3>1, LinkUpdate, ZenonT(30)
    <3>. QED BY <3>2 DEF u
  <2>. HIDE DEF t, d, e
  <2>5. Agrees(s, m, Core(t, m, "none"), HostLink(k, r, v, z))
    BY <2>3, <2>4, AgreesMoved
  <2>6. Agrees(s, m, d, e)
    BY <2>2, <2>5
  <2>. QED BY <2>6 DEF d, e, c
<1>. QED BY <1>10, <1>11

\* Condition field 0 after stwcx.
CondBits(cr, success, xer) ==
  (cr \ FieldBits(0)) \cup (IF success THEN {EQ(0)} ELSE {}) \cup (IF SO \in xer THEN {UN(0)} ELSE {})
CoreCond(c, success) == [c EXCEPT !.state = [ConditionalResult(@, success) EXCEPT !.reservation_valid = FALSE]]
HostValid(n, v) == [n EXCEPT !.state.reservation_valid = v]
HostCond(n, success, xer) ==
  [n EXCEPT !.state.reservation_valid = FALSE,
            !.state.cr = (@ \ FieldBits(0)) \cup (IF success THEN {EQ(0)} ELSE {}) \cup SummaryBit(xer, 0)]
Conditioned(s, success) == WithCr(WithLink(s, FALSE, s.reservation_address), CondBits(s.cr, success, s.xer))

LEMMA CondBitsAre ==
  ASSUME NEW cr \in SUBSET BitIndex, NEW success \in BOOLEAN, NEW xer
  PROVE  CondBits(cr, success, xer) \in SUBSET BitIndex
<1>1. EQ(0) \in BitIndex /\ UN(0) \in BitIndex
  <2>1. SignBit \in Nat /\ SignBit >= 3 /\ BitIndex = 0 .. SignBit
    BY WordSizes DEF BitIndex, SignBit
  <2>. QED BY <2>1 DEF EQ, UN, PpcBit
<1>2. CASE success = TRUE
  BY <1>1, <1>2 DEF CondBits
<1>3. CASE success = FALSE
  BY <1>1, <1>3 DEF CondBits
<1>. QED BY <1>2, <1>3

LEMMA LinkAndCr ==
  ASSUME NEW s, IsMachine(s), NEW v, NEW bits
  PROVE  LinkValid(WithCr(s, bits), v) = WithCr(LinkValid(s, v), bits)
<1>1. s = [gpr |-> s.gpr, xer |-> s.xer, cr |-> s.cr, lr |-> s.lr, ctr |-> s.ctr, cia |-> s.cia,
           fpr |-> s.fpr, ps1 |-> s.ps1, gqr |-> s.gqr,
           reservation_valid |-> s.reservation_valid, reservation_address |-> s.reservation_address]
  BY MachineTypes
<1>2. LinkValid(s, v) = [gpr |-> s.gpr, xer |-> s.xer, cr |-> s.cr, lr |-> s.lr, ctr |-> s.ctr, cia |-> s.cia,
           fpr |-> s.fpr, ps1 |-> s.ps1, gqr |-> s.gqr,
           reservation_valid |-> v, reservation_address |-> s.reservation_address]
  BY <1>1 DEF LinkValid
<1>3. WithCr(s, bits) = [gpr |-> s.gpr, xer |-> s.xer, cr |-> bits, lr |-> s.lr, ctr |-> s.ctr, cia |-> s.cia,
           fpr |-> s.fpr, ps1 |-> s.ps1, gqr |-> s.gqr,
           reservation_valid |-> s.reservation_valid, reservation_address |-> s.reservation_address]
  BY <1>1 DEF WithCr
<1>. DEFINE x == LinkValid(s, v)
            y == WithCr(s, bits)
<1>4. WithCr(x, bits) = [gpr |-> s.gpr, xer |-> s.xer, cr |-> bits, lr |-> s.lr, ctr |-> s.ctr, cia |-> s.cia,
           fpr |-> s.fpr, ps1 |-> s.ps1, gqr |-> s.gqr,
           reservation_valid |-> v, reservation_address |-> s.reservation_address]
  <2>. HIDE DEF x
  <2>. QED BY <1>2 DEF WithCr, x
<1>5. LinkValid(y, v) = [gpr |-> s.gpr, xer |-> s.xer, cr |-> bits, lr |-> s.lr, ctr |-> s.ctr, cia |-> s.cia,
           fpr |-> s.fpr, ps1 |-> s.ps1, gqr |-> s.gqr,
           reservation_valid |-> v, reservation_address |-> s.reservation_address]
  <2>. HIDE DEF y
  <2>. QED BY <1>3 DEF LinkValid, y
<1>. QED BY <1>4, <1>5

LEMMA CoreCondIs ==
  ASSUME NEW s, IsMachine(s), NEW m, NEW success \in BOOLEAN
  PROVE  CoreCond(Core(s, m, "none"), success) = Core(Conditioned(s, success), m, "none")
<1>. DEFINE c == Core(s, m, "none")
            r == ConditionalResult(s, success)
            bits == CondBits(s.cr, success, s.xer)
<1>1. c.state = s /\ \A t : [c EXCEPT !.state = t] = Core(t, m, "none")
  BY CoreUpdates
<1>2. CoreCond(c, success) = [c EXCEPT !.state = LinkValid(ConditionalResult(c.state, success), FALSE)]
  <2>. HIDE DEF c
  <2>. QED BY Zenon DEF CoreCond, LinkValid
<1>3. r = WithCr(s, bits)
  BY Zenon DEF ConditionalResult, WithCr, CondBits
<1>4. LinkValid(r, FALSE) = WithCr(LinkValid(s, FALSE), bits)
  <2>. HIDE DEF r, bits
  <2>1. \A v : LinkValid(WithCr(s, bits), v) = WithCr(LinkValid(s, v), bits)
    BY LinkAndCr
  <2>. QED BY Zenon, <1>3, <2>1
<1>5. LinkValid(s, FALSE) = WithLink(s, FALSE, s.reservation_address)
  <2>1. \A v : LinkValid(s, v) = WithLink(s, v, s.reservation_address)
    BY LinkSteps
  <2>. QED BY Zenon, <2>1
<1>. HIDE DEF c, r, bits
<1>6. LinkValid(r, FALSE) = Conditioned(s, success)
  BY Zenon, <1>4, <1>5 DEF Conditioned, bits
<1>7. CoreCond(c, success) = [c EXCEPT !.state = LinkValid(r, FALSE)]
  BY Zenon, <1>1, <1>2 DEF r
<1>. QED BY Zenon, <1>1, <1>6, <1>7 DEF c

LEMMA HostCondStands ==
  ASSUME NEW n, NEW s, NEW m, Stands(n, s, m), NEW success \in BOOLEAN
  PROVE  Stands(HostCond(n, success, n.state.xer), Conditioned(s, success), m)
<1>. DEFINE z == n.state
            bits == CondBits(s.cr, success, s.xer)
            y == WithLink(z, FALSE, z.reservation_address)
            k == [n EXCEPT !.state = y]
            t == WithLink(s, FALSE, s.reservation_address)
            e == [k EXCEPT !.state = WithCr(k.state, bits)]
            Of(x) == NativeOf(x, n.host, n.dirty, n.memory, n.exit)
<1>1. IsNative(n) /\ IsMachine(s) /\ IsMachine(z) /\ z.cr = s.cr /\ z.xer = s.xer /\ z.reservation_address = s.reservation_address
      /\ n = Of(z) /\ s.cr \in SUBSET BitIndex /\ s.reservation_address \in Words
  BY StandsFacts, NativeFields, MachineTypes
<1>2. Stands(k, t, m) /\ k.state = y
  <2>1. \A v \in BOOLEAN : LET x == [n EXCEPT !.state = WithLink(n.state, v, s.reservation_address)] IN
          Stands(x, WithLink(s, v, s.reservation_address), m) /\ x.state = WithLink(n.state, v, s.reservation_address)
    BY <1>1, StandsLink
  <2>. QED BY <1>1, <2>1
<1>3. bits \in SUBSET BitIndex
  BY <1>1, CondBitsAre
<1>4. Stands(e, WithCr(t, bits), m)
  <2>. HIDE DEF k, t, bits
  <2>. QED BY <1>2, <1>3, StandsCr
<1>5. k = Of(y)
  <2>1. \A x : [Of(z) EXCEPT !.state = x] = Of(x)
    BY DEF NativeOf
  <2>. HIDE DEF Of, y, z
  <2>. QED BY <1>1, <2>1
<1>6. e = Of(WithCr(y, bits))
  <2>1. \A u, x : [Of(u) EXCEPT !.state = x] = Of(x)
    BY DEF NativeOf
  <2>. HIDE DEF Of, y, z, k, bits
  <2>. QED BY <1>2, <1>5, <2>1
<1>7. HostCond(n, success, n.state.xer) = Of(WithCr(y, bits))
  <2>. DEFINE n1 == [n EXCEPT !.state.reservation_valid = FALSE]
              b == (n1.state.cr \ FieldBits(0)) \cup (IF success THEN {EQ(0)} ELSE {}) \cup SummaryBit(n.state.xer, 0)
              n2 == [n1 EXCEPT !.state.cr = b]
  <2>1. HostCond(n, success, n.state.xer) = n2
    BY Zenon DEF HostCond
  <2>2. n1 = Of(y)
    <3>1. \A x, v : HostValid(Of(x), v) = Of(LinkValid(x, v))
      BY DEF NativeOf, LinkValid, HostValid
    <3>2. \A v : LinkValid(z, v) = WithLink(z, v, z.reservation_address)
      BY <1>1, LinkSteps
    <3>3. n1 = HostValid(n, FALSE)
      BY DEF HostValid
    <3>. HIDE DEF Of, z, n1
    <3>. QED BY Zenon, <1>1, <3>1, <3>2, <3>3
  <2>3. y.cr = z.cr
    <3>1. \A v \in BOOLEAN : WithLink(z, v, z.reservation_address).cr = z.cr
      BY <1>1, LinkUpdate
    <3>. QED BY <3>1
  <2>4. b = bits
    <3>1. Of(y).state = y
      BY DEF NativeOf
    <3>. HIDE DEF n1, y, Of
    <3>2. n1.state.cr = s.cr
      BY <1>1, <2>2, <2>3, <3>1
    <3>. HIDE DEF z
    <3>. QED BY Zenon, <1>1, <3>2 DEF CondBits, SummaryBit, z
  <2>5. \A x, u : [Of(x) EXCEPT !.state.cr = u] = Of(WithCr(x, u))
    BY DEF NativeOf, WithCr
  <2>. HIDE DEF n1, y, Of, b, bits
  <2>. QED BY <2>1, <2>2, <2>4, <2>5
<1>. HIDE DEF e, Of, y
<1>. QED BY <1>4, <1>6, <1>7 DEF Conditioned

LEMMA StoreConditionalAgrees ==
  ASSUME NEW n, NEW s, NEW m, Stands(n, s, m), Told(s, m), NEW i, IsInsn(i)
  PROVE  Agrees(s, m, stwcx(Core(s, m, "none"), i), EmittedStoreConditional(n, i, s.cia))
<1>. DEFINE c == Core(s, m, "none")
            k == flush_guest_gprs(read_guest_gpr(FetchAddress(n, i, TRUE), {i.destination}))
            a == Addressed(s, i, TRUE)
            r == i.destination
            w == WriteValue(m, s.gpr, a, 4, s.gpr[r])
            win == Reserved(s, a)
            o == Announced(k, s.cia)
            q == Stored(o, a, 4, s.gpr[r])
            f == IF win THEN q ELSE k
            l == IF win THEN w ELSE m
            d == stwcx(c, i)
            e == EmittedStoreConditional(n, i, s.cia)
            bad == a % 4 # 0 \/ (win /\ ~Accessible(a, 4))
<1>1. IsMachine(s) /\ IsMemory(m) /\ r \in Gprs /\ c.memory = m /\ c.state = s /\ c.stop = "none" /\ s.gpr[r] \in Int
      /\ s.gpr[r] \in Words
  BY StandsFacts, CoreUpdates, WordRange DEF IsInsn
<1>2. IndexedAddress(c, i) = a
  <2>1. IsMachine(s)
    BY StandsFacts
  <2>. QED BY <2>1, CoreAddresses, Zenon
<1>3. a \in Words
  BY <1>1, AddressedWord
<1>4. Stands(k, s, m) /\ k.state.gpr = s.gpr /\ \A x \in Words : At(k.state, x) = At(s, x)
  <2>. DEFINE f1 == FetchAddress(n, i, TRUE)
              f2 == read_guest_gpr(f1, {r})
  <2>1. Stands(f1, s, m)
    BY StandsFetch
  <2>. HIDE DEF f1
  <2>2. {r} \in SUBSET Gprs
    BY <1>1
  <2>3. Stands(f2, s, m)
    BY <2>1, <2>2, StandsRead
  <2>. HIDE DEF f2
  <2>4. Stands(flush_guest_gprs(f2), s, m) /\ flush_guest_gprs(f2).state.gpr = s.gpr
        /\ \A x \in Words : At(flush_guest_gprs(f2).state, x) = At(s, x)
    BY <2>3, StandsFlush
  <2>. QED BY <2>4 DEF f1, f2
<1>5. d = IF bad THEN Core(s, m, "fault") ELSE CoreCond(Core(s, l, "none"), win)
  <2>. DEFINE y == IndexedAddress(c, i)
              x == IF Reserved(c.state, y) THEN Store(c, y, 4, Gpr(c, r)) ELSE c
  <2>1. d = IF y % 4 # 0 \/ x.stop # "none" THEN Fault(c) ELSE CoreCond(x, Reserved(c.state, y))
    BY Zenon DEF stwcx, CoreCond
  <2>2. Store(c, a, 4, Gpr(c, r)) = IF Accessible(a, 4) THEN Core(s, w, "none") ELSE Core(s, m, "fault")
    <3>1. [c EXCEPT !.memory = w] = Core(s, w, "none") /\ Fault(c) = Core(s, m, "fault") /\ Gpr(c, r) = s.gpr[r]
      <4>. HIDE DEF w
      <4>. QED BY CoreUpdates DEF Gpr
    <3>2. Store(c, a, 4, Gpr(c, r))
            = IF Accessible(a, 4) THEN [c EXCEPT !.memory = WriteValue(c.memory, c.state.gpr, a, 4, Gpr(c, r))] ELSE Fault(c)
      BY Zenon DEF Store
    <3>. HIDE DEF c, a
    <3>. QED BY <1>1, <3>1, <3>2
  <2>3. y = a
    BY <1>2
  <2>4. Fault(c) = Core(s, m, "fault")
    BY CoreUpdates
  <2>. HIDE DEF y, a, c, d, w
  <2>5. Core(s, w, "none").stop = "none" /\ Core(s, m, "fault").stop = "fault" /\ c = Core(s, m, "none")
    BY CoreUpdates DEF c
  <2>. HIDE DEF win
  <2>6. Reserved(c.state, y) = win
    BY <1>1, <2>3 DEF win
  <2>7. win \in BOOLEAN
    BY DEF win, Reserved
  <2>8. CASE win = TRUE
    <3>1. x = Store(c, a, 4, Gpr(c, r))
      BY <2>3, <2>6, <2>8
    <3>. HIDE DEF x
    <3>2. CASE Accessible(a, 4)
      <4>1. x = Core(s, w, "none") /\ l = w
        BY <2>2, <2>8, <3>1, <3>2
      <4>. HIDE DEF l
      <4>. QED BY <2>1, <2>3, <2>4, <2>5, <2>6, <3>2, <4>1
    <3>3. CASE ~Accessible(a, 4)
      <4>1. x = Core(s, m, "fault")
        BY <2>2, <3>1, <3>3
      <4>. QED BY <2>1, <2>3, <2>4, <2>5, <2>8, <3>3, <4>1
    <3>. QED BY <3>2, <3>3
  <2>9. CASE win = FALSE
    <3>1. x = c /\ l = m
      BY <2>3, <2>6, <2>9
    <3>. HIDE DEF x, l
    <3>. QED BY <1>1, <2>1, <2>3, <2>4, <2>5, <2>6, <2>9, <3>1
  <2>. QED BY <2>7, <2>8, <2>9
<1>6. e = IF bad THEN Return(k, "fault", s.cia) ELSE HostCond(f, win, k.state.xer)
  <2>. DEFINE y == Address(k, i, TRUE)
              ok == k.state.reservation_valid /\ k.state.reservation_address = resolve_alias_address(y)
              x == IF ok THEN Stored(Announced(k, s.cia), y, 4, Guest(k, r)) ELSE k
  <2>1. e = IF y % 4 # 0 \/ (ok /\ ~Accessible(y, 4)) THEN Return(k, "fault", s.cia) ELSE HostCond(x, ok, k.state.xer)
    BY Zenon DEF EmittedStoreConditional, HostCond
  <2>. HIDE DEF k
  <2>2. y = a
    BY <1>4, StandsAddress
  <2>3. Guest(k, r) = s.gpr[r] /\ k.state.reservation_valid = s.reservation_valid /\ k.state.reservation_address = s.reservation_address
    BY <1>1, <1>4, StandsFacts
  <2>. HIDE DEF y, a
  <2>4. ok = win
    BY <2>2, <2>3 DEF Reserved
  <2>. HIDE DEF ok, win
  <2>5. x = f
    BY <2>2, <2>3, <2>4
  <2>. HIDE DEF x, f, e
  <2>. QED BY <2>1, <2>2, <2>4, <2>5
<1>. HIDE DEF k
<1>7. Agrees(s, m, Core(s, m, "fault"), Return(k, "fault", s.cia))
  BY <1>4, StandsReturns
<1>8. win \in BOOLEAN
  BY DEF Reserved
<1>9. Stands(f, s, l) /\ f.state = k.state
  <2>1. Stands(o, s, m) /\ o.memory = m /\ o.state = k.state
    BY <1>4, StandsTold
  <2>. HIDE DEF o
  <2>2. Stands(q, s, w) /\ q.state = o.state
    <3>1. o.state.gpr = s.gpr \/ m.watch = {}
      BY <1>4, <2>1
    <3>2. \A x : \A width \in Nat, value \in Int :
            Stands(Stored(o, x, width, value), s, WriteValue(m, s.gpr, x, width, value))
            /\ Stored(o, x, width, value).state = o.state
      BY <2>1, <3>1, StandsStored
    <3>3. 4 \in Nat
      OBVIOUS
    <3>. HIDE DEF a, r
    <3>. QED BY <1>1, <3>2, <3>3, Zenon
  <2>. HIDE DEF q, w, win, a
  <2>. QED BY <1>4, <2>1, <2>2
<1>. HIDE DEF win, f, l
<1>10. Stands(HostCond(f, win, k.state.xer), Conditioned(s, win), l)
  <2>1. Stands(HostCond(f, win, f.state.xer), Conditioned(s, win), l)
    BY <1>8, <1>9, HostCondStands
  <2>. QED BY <1>9, <2>1
<1>11. CoreCond(Core(s, l, "none"), win) = Core(Conditioned(s, win), l, "none")
  BY <1>1, <1>8, CoreCondIs
<1>12. Conditioned(s, win).cia = s.cia
  <2>. DEFINE t == WithLink(s, FALSE, s.reservation_address)
  <2>1. IsMachine(t) /\ t.cia = s.cia
    <3>1. \A v \in BOOLEAN : IsMachine(WithLink(s, v, s.reservation_address)) /\ WithLink(s, v, s.reservation_address).cia = s.cia
      <4>1. s.reservation_address \in Words
        BY <1>1, MachineTypes
      <4>. QED BY <1>1, <4>1, LinkUpdate
    <3>. QED BY <3>1
  <2>. HIDE DEF t
  <2>2. CondBits(s.cr, win, s.xer) \in SUBSET BitIndex
    BY <1>1, <1>8, MachineTypes, CondBitsAre
  <2>3. WithCr(t, CondBits(s.cr, win, s.xer)).cia = t.cia
    BY <2>1, <2>2, CrUpdate
  <2>. QED BY <2>1, <2>3 DEF Conditioned, t
<1>13. Agrees(s, m, Core(Conditioned(s, win), l, "none"), HostCond(f, win, k.state.xer))
  BY <1>10, <1>12, AgreesMoved
<1>. HIDE DEF d, e, bad
<1>14. Agrees(s, m, d, e)
  BY <1>5, <1>6, <1>7, <1>11, <1>13
<1>. QED BY <1>14 DEF d, e, c

OtherOps == {"lwarx", "stwcx", "addi"} \cup CacheOps

LEMMA OtherAgrees ==
  ASSUME NEW op \in OtherOps, NEW n, NEW s, NEW m, Stands(n, s, m), Told(s, m), NEW i, IsInsn(i), NEW b,
         op = "dcbz" => m.watch = {} \/ n.dirty = {}
  PROVE  Agrees(s, m, ExecuteOther(op, Core(s, m, "none"), i), EmitOther(op, n, i, s.cia, b))
<1>. DEFINE c == Core(s, m, "none")
            d == ExecuteOther(op, c, i)
            e == EmitOther(op, n, i, s.cia, b)
<1>1. CASE op = "lwarx"
  <2>1. d = lwarx(c, i) /\ e = EmittedLoadReserve(n, i, s.cia)
    <3>. HIDE DEF c
    <3>. QED BY <1>1 DEF ExecuteOther, EmitOther
  <2>2. Agrees(s, m, lwarx(c, i), EmittedLoadReserve(n, i, s.cia))
    BY LoadReserveAgrees
  <2>. HIDE DEF c, d, e
  <2>3. Agrees(s, m, d, e)
    BY <2>1, <2>2
  <2>. QED BY <2>3 DEF c, d, e
<1>2. CASE op = "stwcx"
  <2>1. d = stwcx(c, i) /\ e = EmittedStoreConditional(n, i, s.cia)
    <3>. HIDE DEF c
    <3>. QED BY <1>2 DEF ExecuteOther, EmitOther
  <2>2. Agrees(s, m, stwcx(c, i), EmittedStoreConditional(n, i, s.cia))
    BY StoreConditionalAgrees
  <2>. HIDE DEF c, d, e
  <2>3. Agrees(s, m, d, e)
    BY <2>1, <2>2
  <2>. QED BY <2>3 DEF c, d, e
<1>3. CASE op = "addi"
  <2>1. d = [c EXCEPT !.state = addi(c.state, i)] /\ e = EmittedAddi("addi", n, i)
    <3>. HIDE DEF c
    <3>. QED BY <1>3 DEF ExecuteOther, EmitOther
  <2>2. Agrees(s, m, [c EXCEPT !.state = addi(c.state, i)], EmittedAddi("addi", n, i))
    BY AddiAgrees
  <2>. HIDE DEF c, d, e
  <2>3. Agrees(s, m, d, e)
    BY <2>1, <2>2
  <2>. QED BY <2>3 DEF c, d, e
<1>4. CASE op = "dcbz"
  <2>1. d = dcbz(c, i) /\ e = EmittedBlockZero(n, i, s.cia)
    <3>. HIDE DEF c
    <3>. QED BY <1>4 DEF ExecuteOther, EmitOther
  <2>2. Agrees(s, m, dcbz(c, i), EmittedBlockZero(n, i, s.cia))
    BY <1>4, BlockZeroAgrees
  <2>. HIDE DEF c, d, e
  <2>3. Agrees(s, m, d, e)
    BY <2>1, <2>2
  <2>. QED BY <2>3 DEF c, d, e
<1>5. CASE op \in {"dcbst", "dcbf"}
  <2>1. d = dcbst(c, i) /\ e = EmittedValidation(n, i, s.cia, b)
    <3>. HIDE DEF c
    <3>. QED BY <1>5 DEF ExecuteOther, EmitOther
  <2>2. Agrees(s, m, dcbst(c, i), EmittedValidation(n, i, s.cia, b))
    BY ValidationAgrees
  <2>. HIDE DEF c, d, e
  <2>3. Agrees(s, m, d, e)
    BY <2>1, <2>2
  <2>. QED BY <2>3 DEF c, d, e
<1>6. CASE op \in {"icbi", "dcbt", "dcbtst", "sync", "isync"}
  <2>1. d = c /\ (e = EmittedCacheHint(n, i) \/ e = n)
    <3>. HIDE DEF c
    <3>. QED BY <1>6 DEF ExecuteOther, EmitOther
  <2>2. Agrees(s, m, c, EmittedCacheHint(n, i)) /\ Agrees(s, m, c, n)
    BY HintAgrees
  <2>. HIDE DEF c, d, e
  <2>3. Agrees(s, m, d, e)
    BY <2>1, <2>2
  <2>. QED BY <2>3 DEF c, d, e
<1>. QED BY <1>1, <1>2, <1>3, <1>4, <1>5, <1>6 DEF OtherOps, CacheOps

----------------------------------------------------------------------------
(* Several registers.                                                       *)

HostGprs(n, g) == [n EXCEPT !.state.gpr = g]

LEMMA HostGprsIs ==
  ASSUME NEW n, NEW s, NEW m, Stands(n, s, m), n.host = NoHost, n.dirty = {}, NEW g \in [Gprs -> Words]
  PROVE  LET k == HostGprs(n, g) IN
         /\ Stands(k, WithGprs(s, g), m) /\ k.memory = n.memory /\ k.dirty = {}
         /\ \A a \in Words : At(k.state, a) = At(WithGprs(s, g), a)
<1>. DEFINE z == n.state
            y == WithGprs(z, g)
            k == NativeOf(y, n.host, n.dirty, n.memory, n.exit)
            t == WithGprs(s, g)
<1>1. IsNative(n) /\ IsMachine(s) /\ n.exit = "no" /\ Near(n.memory, m) /\ IsMachine(z) /\ s.cia \in Words
      /\ s.gpr \in [Gprs -> Words] /\ IsMemory(n.memory) /\ n = NativeOf(n.state, n.host, n.dirty, n.memory, n.exit)
  BY StandsFacts, NativeFields DEF Stands
<1>2. HostGprs(n, g) = k
  <2>. DEFINE o == NativeOf(n.state, n.host, n.dirty, n.memory, n.exit)
  <2>1. HostGprs(o, g) = k
    BY SMTT(30) DEF HostGprs, NativeOf, WithGprs
  <2>. HIDE DEF o, k
  <2>2. n = o
    BY <1>1 DEF o
  <2>. QED BY <2>1, <2>2
<1>3. IsMachine(y) /\ y.gpr = g
  BY <1>1, GprsUpdate
<1>4. k.state = y /\ k.host = n.host /\ k.dirty = n.dirty /\ k.memory = n.memory /\ k.exit = n.exit
      /\ k = [state |-> k.state, host |-> k.host, dirty |-> k.dirty, memory |-> k.memory, exit |-> k.exit]
  BY DEF NativeOf
<1>5. DOMAIN n.host = {} /\ n.host \in [{} -> Words]
  BY DEF NoHost
<1>. HIDE DEF y, k
<1>6. IsNative(k)
  BY <1>1, <1>3, <1>4, <1>5 DEF IsNative
<1>7. Guests(k) = g
  <2>1. \A r \in Gprs : Guest(k, r) = g[r]
    BY <1>3, <1>4, <1>5 DEF Guest
  <2>. QED BY <2>1 DEF Guests
<1>8. IsMachine(t) /\ t.cia = s.cia
  BY <1>1, GprsUpdate
<1>9. \A a \in Words : At(y, a) = At(t, a)
  <2>1. ASSUME NEW a \in Words PROVE At(y, a) = At(t, a)
    <3>1. At(WithGprs(z, g), a) = WithGprs(At(z, a), g) /\ At(WithGprs(s, g), a) = WithGprs(At(s, a), g)
      BY <1>1, UpdatesCommute
    <3>2. At(z, a) = View(n, a) /\ View(n, a) = At(s, a)
      BY <1>1, CleanState, StandsFacts
    <3>. QED BY <3>1, <3>2 DEF y
  <2>. QED BY <2>1
<1>10. View(k, s.cia) = t
  <2>1. View(k, s.cia) = At(y, s.cia)
    BY <1>3, <1>4, <1>7, UpdatesCommute DEF View
  <2>2. At(t, s.cia) = t
    BY <1>8, UpdatesCommute
  <2>. QED BY <1>1, <1>9, <2>1, <2>2
<1>. HIDE DEF t
<1>11. Stands(k, t, m)
  BY <1>1, <1>4, <1>6, <1>8, <1>10 DEF Stands
<1>. QED BY <1>2, <1>4, <1>9, <1>11 DEF t

\* The registers a lmw loads from the words it reaches.
Lifted(m, gpr, a, first, moved) ==
  [r \in DOMAIN gpr |-> IF r - first \in moved THEN ReadValue(m, WordAt(a, r - first), 4) ELSE gpr[r]]

LEMMA WordAtIs ==
  ASSUME NEW a \in Words, NEW k \in Int
  PROVE  WordAt(a, k) \in Words
<1>1. a + 4 * k \in Int
  BY WordRange
<1>. QED BY <1>1, UnsignedOf DEF WordAt

LEMMA LiftedWords ==
  ASSUME NEW m, IsMemory(m), NEW gpr \in [Gprs -> Words], NEW a \in Words, NEW first \in Int, NEW count
  PROVE  Lifted(m, gpr, a, first, Reached(a, count)) \in [Gprs -> Words]
<1>1. ASSUME NEW r \in Gprs, r - first \in Reached(a, count)
      PROVE  ReadValue(m, WordAt(a, r - first), 4) \in Words
  <2>1. r - first \in Int /\ r - first \in 0 .. (r - first) /\ Accessible(WordAt(a, r - first), 4)
    <3>1. r - first \in 0 .. (count - 1) /\ \A j \in 0 .. (r - first) : Accessible(WordAt(a, j), 4)
      BY <1>1 DEF Reached
    <3>2. r \in Int
      BY LaneValuesAssumption DEF Gprs
    <3>. QED BY <3>1, <3>2
  <2>2. WordAt(a, r - first) \in Words
    BY <2>1, WordAtIs
  <2>. QED BY <2>1, <2>2, ReadWidths
<1>2. DOMAIN gpr = Gprs /\ \A r \in Gprs : gpr[r] \in Words
  OBVIOUS
<1>. QED BY <1>1, <1>2 DEF Lifted

\* An instruction that stopped part of the way, in the same place in both engines.
AgreesInPart(d, e) ==
  /\ d = Core(d.state, d.memory, "fault") /\ e.exit = "fault"
  /\ e.state = d.state /\ Near(e.memory, d.memory)

LEMMA LoadMultipleIs ==
  ASSUME NEW s, NEW m, IsMachine(s), NEW i, IsInsn(i)
  PROVE  LET a == Addressed(s, i, FALSE)
             count == GprCount - i.destination
             moved == Reached(a, count)
         IN  lmw(Core(s, m, "none"), i)
               = Core(WithGprs(s, Lifted(m, s.gpr, a, i.destination, moved)), m,
                      IF moved = 0 .. (count - 1) THEN "none" ELSE "fault")
<1>. DEFINE c == Core(s, m, "none")
            a == Addressed(s, i, FALSE)
            count == GprCount - i.destination
            moved == Reached(a, count)
            g == Lifted(m, s.gpr, a, i.destination, moved)
            t == WithGprs(s, g)
            all == moved = 0 .. (count - 1)
            d == lmw(c, i)
<1>1. effective_address(c, i) = a
  BY CoreAddresses, Zenon
<1>2. c.state = s /\ c.memory = m
  BY CoreUpdates
<1>3. d = IF all THEN [c EXCEPT !.state.gpr = g] ELSE Fault([c EXCEPT !.state.gpr = g])
  <2>. DEFINE y == effective_address(c, i)
              mv == Reached(y, count)
              h == Lifted(c.memory, c.state.gpr, y, i.destination, mv)
  <2>1. d = IF mv = 0 .. (count - 1) THEN [c EXCEPT !.state.gpr = h] ELSE Fault([c EXCEPT !.state.gpr = h])
    BY Zenon DEF lmw, Lifted
  <2>2. mv = moved
    BY <1>1
  <2>3. h = g
    <3>. HIDE DEF mv, moved, c
    <3>. QED BY <1>1, <1>2, <2>2
  <2>. HIDE DEF mv, moved, h, g, d, c
  <2>. QED BY <2>1, <2>2, <2>3
<1>4. [c EXCEPT !.state.gpr = g] = Core(t, m, "none")
  <2>. HIDE DEF g
  <2>. QED BY CoreUpdates
<1>5. Fault(Core(t, m, "none")) = Core(t, m, "fault")
  <2>. HIDE DEF t
  <2>. QED BY CoreUpdates
<1>. HIDE DEF c, t, all, d
<1>6. d = Core(t, m, IF all THEN "none" ELSE "fault")
  BY <1>3, <1>4, <1>5
<1>. QED BY <1>6 DEF c, t, all, d

LEMMA ReachIs == \A a, count : Reach(a, count) = Reached(a, count)
BY DEF Reach, Reached, WordAt

LEMMA LoadMultipleAgrees ==
  ASSUME NEW n, NEW s, NEW m, Stands(n, s, m), NEW i, IsInsn(i)
  PROVE  LET d == lmw(Core(s, m, "none"), i)
             e == EmittedLoadMultiple(n, i, s.cia)
         IN  Agrees(s, m, d, e) \/ AgreesInPart(d, e)
<1>. DEFINE f == FetchAddress(n, i, FALSE)
            k == Forgotten(flush_guest_gprs(f))
            a == Addressed(s, i, FALSE)
            count == GprCount - i.destination
            moved == Reached(a, count)
            g == Lifted(m, s.gpr, a, i.destination, moved)
            t == WithGprs(s, g)
            all == moved = 0 .. (count - 1)
            d == lmw(Core(s, m, "none"), i)
            e == EmittedLoadMultiple(n, i, s.cia)
            q == HostGprs(k, g)
<1>1. IsMachine(s) /\ IsMemory(m) /\ s.gpr \in [Gprs -> Words] /\ s.cia \in Words
  BY StandsFacts
<1>2. Stands(f, s, m) /\ Address(f, i, FALSE) = a
  BY StandsFetch
<1>3. Stands(k, s, m) /\ k.state.gpr = s.gpr /\ k.host = NoHost /\ k.dirty = {}
  <2>. HIDE DEF f
  <2>. QED BY <1>2, StandsForgotten
<1>4. d = Core(t, m, IF all THEN "none" ELSE "fault")
  BY <1>1, LoadMultipleIs
<1>5. e = IF all THEN q ELSE Return(q, "fault", s.cia)
  <2>. DEFINE y == Address(f, i, FALSE)
              mv == Reach(y, count)
              h == [r \in DOMAIN k.state.gpr |->
                     IF r - i.destination \in mv
                     THEN ReadValue(k.memory, Unsigned(y + 4 * (r - i.destination)), 4) ELSE k.state.gpr[r]]
  <2>1. e = IF mv = 0 .. (count - 1) THEN HostGprs(k, h) ELSE Return(HostGprs(k, h), "fault", s.cia)
    BY Zenon DEF EmittedLoadMultiple, HostGprs
  <2>2. mv = moved
    <3>. HIDE DEF f
    <3>. QED BY <1>2, ReachIs
  <2>3. h = g
    <3>1. \A p, w : ReadValue(k.memory, p, w) = ReadValue(m, p, w)
      <4>1. Near(k.memory, m)
        BY <1>3 DEF Stands
      <4>. QED BY <4>1, NearReads
    <3>. HIDE DEF mv, moved, k, f, a
    <3>. QED BY <1>2, <1>3, <2>2, <3>1 DEF Lifted, WordAt
  <2>. HIDE DEF mv, moved, h, g, e, k
  <2>. QED BY <2>1, <2>2, <2>3
<1>. HIDE DEF k, f
<1>6. g \in [Gprs -> Words]
  <2>1. i.destination \in Int /\ a \in Words
    <3>1. i.destination \in Int
      BY LaneValuesAssumption DEF IsInsn, Gprs
    <3>2. \A x \in BOOLEAN : Addressed(s, i, x) \in Words
      BY <1>1, AddressedWord
    <3>. QED BY <3>1, <3>2
  <2>. HIDE DEF a, count
  <2>. QED BY <1>1, <2>1, LiftedWords
<1>. HIDE DEF g
<1>7. Stands(q, t, m) /\ \A b \in Words : At(q.state, b) = At(t, b)
  BY <1>3, <1>6, HostGprsIs
<1>8. t.cia = s.cia
  BY <1>1, <1>6, GprsUpdate
<1>. HIDE DEF q, t, d, e
<1>9. CASE all
  <2>1. Agrees(s, m, Core(t, m, "none"), q)
    BY <1>7, <1>8, AgreesMoved
  <2>. HIDE DEF all
  <2>2. Agrees(s, m, d, e)
    BY <1>4, <1>5, <1>9, <2>1
  <2>. QED BY <2>2 DEF d, e
<1>10. CASE ~all
  <2>. DEFINE x == Return(q, "fault", t.cia)
  <2>1. Agrees(t, m, Core(t, m, "fault"), x)
    BY <1>7, StandsReturns
  <2>2. d = Core(t, m, "fault") /\ e = x
    <3>. HIDE DEF all
    <3>. QED BY <1>4, <1>5, <1>8, <1>10
  <2>3. d.state = t /\ d.memory = m /\ d.stop = "fault"
    BY <2>2, CoreUpdates
  <2>. HIDE DEF x
  <2>4. AgreesInPart(d, e)
    BY <2>1, <2>2, <2>3 DEF Agrees, AgreesInPart
  <2>. QED BY <2>4 DEF d, e
<1>. QED BY <1>9, <1>10

\* Repeated after a fault, lmw does the same again unless it loaded its own base.
LEMMA LoadMultipleAgain ==
  ASSUME NEW s, NEW m, IsMachine(s), IsMemory(m), NEW i, IsInsn(i), i.base = 0 \/ i.base < i.destination
  PROVE  LET d == lmw(Core(s, m, "none"), i) IN
         lmw(Core(d.state, m, "none"), i) = d /\ d.memory = m /\ d.state.cia = s.cia /\ IsMachine(d.state)
<1>. DEFINE a == Addressed(s, i, FALSE)
            count == GprCount - i.destination
            moved == Reached(a, count)
            g == Lifted(m, s.gpr, a, i.destination, moved)
            t == WithGprs(s, g)
            x == IF moved = 0 .. (count - 1) THEN "none" ELSE "fault"
            d == lmw(Core(s, m, "none"), i)
<1>1. d = Core(t, m, x)
  BY LoadMultipleIs
<1>2. s.gpr \in [Gprs -> Words] /\ i.destination \in Int /\ i.base \in Int /\ i.base \in Gprs
  BY MachineTypes, LaneValuesAssumption, SMTT(30) DEF IsInsn, Gprs
<1>3. a \in Words
  <2>1. \A b \in BOOLEAN : Addressed(s, i, b) \in Words
    BY AddressedWord
  <2>. QED BY <2>1
<1>4. g \in [Gprs -> Words]
  <2>. HIDE DEF a, count
  <2>. QED BY <1>2, <1>3, LiftedWords
<1>5. i.base # 0 => g[i.base] = s.gpr[i.base]
  <2>1. moved \subseteq 0 .. (count - 1)
    BY DEF Reached
  <2>2. i.base # 0 => i.base - i.destination \notin moved
    <3>. HIDE DEF moved, count
    <3>. QED BY <1>2, <2>1
  <2>. HIDE DEF moved
  <2>. QED BY <1>2, <2>2 DEF Lifted
<1>6. Lifted(m, g, a, i.destination, moved) = g
  <2>. HIDE DEF moved, a
  <2>. QED BY <1>2 DEF Lifted
<1>. HIDE DEF g
<1>7. IsMachine(t) /\ t.gpr = g /\ t.cia = s.cia
  BY <1>4, GprsUpdate
<1>8. WithGprs(t, g) = t
  BY <1>7, UpdatesCommute
<1>. HIDE DEF t
<1>9. Addressed(t, i, FALSE) = a
  BY <1>5, <1>7 DEF Addressed
<1>10. lmw(Core(t, m, "none"), i) = Core(t, m, x)
  <2>. DEFINE b == Addressed(t, i, FALSE)
              mv == Reached(b, count)
  <2>1. lmw(Core(t, m, "none"), i)
          = Core(WithGprs(t, Lifted(m, t.gpr, b, i.destination, mv)), m,
                 IF mv = 0 .. (count - 1) THEN "none" ELSE "fault")
    BY <1>7, LoadMultipleIs
  <2>. HIDE DEF a, b, count
  <2>. QED BY <1>6, <1>7, <1>8, <1>9, <2>1 DEF b
<1>11. Core(t, m, x).state = t /\ Core(t, m, x).memory = m
  <2>. HIDE DEF x
  <2>. QED BY CoreUpdates
<1>. HIDE DEF x, d
<1>. QED BY <1>1, <1>7, <1>10, <1>11 DEF d

LEMMA StoreMultipleIs ==
  ASSUME NEW s, NEW m, IsMachine(s), NEW i, IsInsn(i)
  PROVE  LET a == Addressed(s, i, FALSE)
             count == GprCount - i.source
             moved == Reached(a, count)
         IN  stmw(Core(s, m, "none"), i)
               = Core(s, WriteWords(m, s.gpr, a, i.source, Cardinality(moved)),
                      IF moved = 0 .. (count - 1) THEN "none" ELSE "fault")
<1>. DEFINE c == Core(s, m, "none")
            a == Addressed(s, i, FALSE)
            count == GprCount - i.source
            moved == Reached(a, count)
            w == WriteWords(m, s.gpr, a, i.source, Cardinality(moved))
            all == moved = 0 .. (count - 1)
            d == stmw(c, i)
<1>1. effective_address(c, i) = a
  BY CoreAddresses, Zenon
<1>2. c.state = s /\ c.memory = m
  BY CoreUpdates
<1>3. d = IF all THEN [c EXCEPT !.memory = w] ELSE Fault([c EXCEPT !.memory = w])
  <2>. DEFINE y == effective_address(c, i)
              mv == Reached(y, count)
              h == WriteWords(c.memory, c.state.gpr, y, i.source, Cardinality(mv))
  <2>1. d = IF mv = 0 .. (count - 1) THEN [c EXCEPT !.memory = h] ELSE Fault([c EXCEPT !.memory = h])
    BY Zenon DEF stmw
  <2>2. mv = moved
    BY <1>1
  <2>3. h = w
    <3>. HIDE DEF mv, moved, c
    <3>. QED BY <1>1, <1>2, <2>2
  <2>. HIDE DEF mv, moved, h, w, d, c
  <2>. QED BY <2>1, <2>2, <2>3
<1>4. [c EXCEPT !.memory = w] = Core(s, w, "none")
  <2>. HIDE DEF w
  <2>. QED BY CoreUpdates
<1>5. Fault(Core(s, w, "none")) = Core(s, w, "fault")
  <2>. HIDE DEF w
  <2>. QED BY CoreUpdates
<1>. HIDE DEF c, w, all, d
<1>6. d = Core(s, w, IF all THEN "none" ELSE "fault")
  BY <1>3, <1>4, <1>5
<1>. QED BY <1>6 DEF c, w, all, d

LEMMA ReachedCount ==
  ASSUME NEW a, NEW count \in Nat
  PROVE  Cardinality(Reached(a, count)) \in 0..count
<1>1. Reached(a, count) \in SUBSET (0 .. (count - 1))
  BY DEF Reached
<1>2. IsFiniteSet(0 .. (count - 1)) /\ Cardinality(0 .. (count - 1)) = IF 0 > count - 1 THEN 0 ELSE (count - 1) - 0 + 1
  <2>1. 0 \in Int /\ count - 1 \in Int
    OBVIOUS
  <2>. QED BY <2>1, FS_Interval
<1>3. IsFiniteSet(Reached(a, count)) /\ Cardinality(Reached(a, count)) <= Cardinality(0 .. (count - 1))
  BY <1>1, <1>2, FS_Subset
<1>4. Cardinality(Reached(a, count)) \in Nat
  BY <1>3, FS_CardinalityType
<1>. QED BY <1>2, <1>3, <1>4

LEMMA StoreMultipleAgrees ==
  ASSUME NEW n, NEW s, NEW m, Stands(n, s, m), Told(s, m), NEW i, IsInsn(i), NEW b
  PROVE  LET d == stmw(Core(s, m, "none"), i)
             e == EmittedStoreMultiple(n, i, s.cia, b)
         IN  Agrees(s, m, d, e) \/ AgreesInPart(d, e)
<1>. DEFINE f == FetchAddress(n, i, FALSE)
            l == Forgotten(flush_guest_gprs(f))
            k == Announced(l, s.cia)
            a == Addressed(s, i, FALSE)
            count == GprCount - i.source
            moved == Reached(a, count)
            w == WriteWords(m, s.gpr, a, i.source, Cardinality(moved))
            q == [k EXCEPT !.memory = w]
            all == moved = 0 .. (count - 1)
            over == OverlapsOrWraps(b, a, 4 * count)
            d == stmw(Core(s, m, "none"), i)
            e == EmittedStoreMultiple(n, i, s.cia, b)
<1>1. IsMachine(s) /\ IsMemory(m) /\ s.gpr \in [Gprs -> Words] /\ s.cia \in Words
  BY StandsFacts
<1>2. Stands(f, s, m) /\ Address(f, i, FALSE) = a
  BY StandsFetch
<1>3. Stands(l, s, m) /\ l.state.gpr = s.gpr /\ l.dirty = {} /\ \A x \in Words : At(l.state, x) = At(s, x)
  <2>. HIDE DEF f
  <2>. QED BY <1>2, StandsForgotten
<1>4. d = Core(s, w, IF all THEN "none" ELSE "fault")
  BY <1>1, StoreMultipleIs
<1>5. Stands(k, s, m) /\ k.memory = m /\ k.state = l.state /\ k.dirty = {}
  <2>. HIDE DEF l
  <2>. QED BY <1>3, StandsTold
<1>6. e = IF ~all THEN Return(q, "fault", s.cia)
          ELSE IF over THEN Return(q, "left", Unsigned(s.cia + 4)) ELSE q
  <2>. DEFINE y == Address(f, i, FALSE)
              mv == Reach(y, count)
              h == [k EXCEPT !.memory = WriteWords(k.memory, k.state.gpr, y, i.source, Cardinality(mv))]
  <2>1. e = IF mv # 0 .. (count - 1) THEN Return(h, "fault", s.cia)
            ELSE IF OverlapsOrWraps(b, y, 4 * count) THEN Return(h, "left", Unsigned(s.cia + 4)) ELSE h
    BY Zenon DEF EmittedStoreMultiple
  <2>2. mv = moved /\ y = a
    <3>. HIDE DEF f, a
    <3>. QED BY <1>2, ReachIs
  <2>3. h = q
    <3>. HIDE DEF k, y, mv, moved, a
    <3>. QED BY <1>3, <1>5, <2>2
  <2>. HIDE DEF mv, moved, h, q, e, k, y, a
  <2>. QED BY <2>1, <2>2, <2>3
<1>. HIDE DEF k, f, l
<1>7. IsMemory(w)
  <2>1. count \in Nat /\ i.source \in Int /\ i.source + count - 1 < GprCount /\ i.source >= 0 /\ GprCount \in Int
    BY LaneValuesAssumption DEF IsInsn, Gprs
  <2>2. Cardinality(moved) \in 0..count
    <3>. HIDE DEF count, a
    <3>. QED BY <2>1, ReachedCount
  <2>3. a \in Words /\ a \in Int
    <3>1. \A x \in BOOLEAN : Addressed(s, i, x) \in Words
      BY <1>1, AddressedWord
    <3>. QED BY <3>1, WordRange
  <2>. DEFINE z == Cardinality(moved)
  <2>. HIDE DEF z, count, a
  <2>4. z \in Nat /\ z <= count
    BY <2>1, <2>2 DEF z
  <2>5. \A j \in 1..z : s.gpr[i.source + j - 1] \in Int
    <3>1. ASSUME NEW j \in 1..z PROVE s.gpr[i.source + j - 1] \in Int
      <4>1. i.source + j - 1 \in Gprs
        BY <2>1, <2>4 DEF Gprs
      <4>. QED BY <1>1, <4>1, WordRange
    <3>. QED BY <3>1
  <2>6. LET x == WriteWords(m, s.gpr, a, i.source, z) IN IsMemory(x)
    <3>. DEFINE g == s.gpr
                r == i.source
    <3>1. \A j \in 1..z : g[r + j - 1] \in Int
      BY <2>5
    <3>. HIDE DEF g, r
    <3>2. IsMemory(WriteWords(m, g, a, r, z))
      BY <1>1, <2>3, <2>4, <3>1, WriteWordsIs
    <3>. QED BY <3>2 DEF g, r
  <2>. QED BY <2>6 DEF z, a, count
<1>. HIDE DEF w
<1>8. Stands(q, s, w) /\ q.state = k.state /\ q.dirty = {}
  <2>1. \E x : Stands(k, s, x)
    BY <1>5
  <2>. QED BY <1>5, <1>7, <2>1, StandsMemory
<1>. HIDE DEF q, d, e
<1>9. CASE all
  <2>1. Agrees(s, m, Core(s, w, "none"), q)
    BY <1>8, AgreesMoved
  <2>2. Agrees(s, m, Core(s, w, "none"), Return(q, "left", Unsigned(s.cia + 4)))
    BY <1>8, CleanLeft
  <2>. HIDE DEF all, over
  <2>3. Agrees(s, m, d, e)
    BY <1>4, <1>6, <1>9, <2>1, <2>2
  <2>. QED BY <2>3 DEF d, e
<1>10. CASE ~all
  <2>. DEFINE x == Return(q, "fault", s.cia)
  <2>1. Agrees(s, w, Core(s, w, "fault"), x)
    <3>1. \A y \in Words : At(q.state, y) = At(s, y)
      BY <1>3, <1>5, <1>8
    <3>. QED BY <1>8, <3>1, StandsReturns
  <2>2. d = Core(s, w, "fault") /\ e = x
    <3>. HIDE DEF all
    <3>. QED BY <1>4, <1>6, <1>10
  <2>3. d.state = s /\ d.memory = w /\ d.stop = "fault"
    BY <2>2, CoreUpdates
  <2>. HIDE DEF x
  <2>4. AgreesInPart(d, e)
    BY <2>1, <2>2, <2>3 DEF Agrees, AgreesInPart
  <2>. QED BY <2>4 DEF d, e
<1>. QED BY <1>9, <1>10

----------------------------------------------------------------------------
(* Strings.                                                                 *)

StringPlace(op, s, i) ==
  CASE op \in {"lswi", "stswi"} -> IF i.base = 0 THEN 0 ELSE s.gpr[i.base]
    [] op = "lswx"  -> Unsigned((IF i.base = 0 THEN 0 ELSE s.gpr[i.base]) + s.gpr[i.source])
    [] op = "stswx" -> Unsigned((IF i.base = 0 THEN 0 ELSE s.gpr[i.base]) + s.gpr[i.destination])
StringCount(op, s, i) ==
  IF op \in {"lswx", "stswx"} THEN XerCount(s.xer) ELSE ImmediateCount(i)

LEMMA StringFacts ==
  ASSUME NEW op \in StringOps, NEW s, IsMachine(s), NEW i, IsInsn(i)
  PROVE  /\ StringPlace(op, s, i) \in Words /\ StringCount(op, s, i) \in Nat
         /\ \A z : z.gpr = s.gpr => StringAddress(op, z, i) = StringPlace(op, s, i)
         /\ \A n : n.state.xer = s.xer => Count(op, n, i) = StringCount(op, s, i)
<1>1. s.gpr[i.base] \in Words /\ s.gpr[i.source] \in Words /\ s.gpr[i.destination] \in Words
  BY MachineTypes DEF IsInsn
<1>. DEFINE b == IF i.base = 0 THEN 0 ELSE s.gpr[i.base]
<1>2. b \in Words /\ b \in Int
  BY <1>1, WordRange
<1>3. s.gpr[i.source] \in Int /\ s.gpr[i.destination] \in Int
  BY <1>1, WordRange
<1>4. Unsigned(b + s.gpr[i.source]) \in Words /\ Unsigned(b + s.gpr[i.destination]) \in Words
  <2>1. b + s.gpr[i.source] \in Int /\ b + s.gpr[i.destination] \in Int
    BY <1>2, <1>3
  <2>. HIDE DEF b
  <2>. QED BY <2>1, UnsignedOf
<1>5. StringPlace(op, s, i) \in Words
  BY <1>2, <1>4 DEF StringPlace, StringOps
<1>6. StringCount(op, s, i) \in Nat
  <2>1. s.xer \cap 0 .. (StringBits - 1) \in SUBSET BitIndex
    BY MachineTypes
  <2>2. XerCount(s.xer) \in Nat
    BY <2>1, WordOfBits, WordRange DEF XerCount
  <2>3. ImmediateCount(i) \in Nat
    BY LaneValuesAssumption DEF ImmediateCount, IsInsn
  <2>. QED BY <2>2, <2>3 DEF StringCount
<1>7. ASSUME NEW z, z.gpr = s.gpr PROVE StringAddress(op, z, i) = StringPlace(op, s, i)
  <2>1. Unsigned(b + 0) = b
    <3>1. b + 0 = b /\ 0 <= b /\ b < Modulus /\ b \in Int
      BY <1>2, WordRange
    <3>. HIDE DEF b
    <3>. QED BY <3>1, UnsignedNear
  <2>2. CASE op \in {"lswi", "stswi"}
    <3>1. StringAddress(op, z, i) = Unsigned(b + 0)
      BY <1>7, <2>2 DEF StringAddress
    <3>. QED BY <2>1, <2>2, <3>1 DEF StringPlace
  <2>3. CASE op \in {"lswx", "stswx"}
    BY <1>7, <2>3 DEF StringAddress, StringPlace
  <2>. QED BY <2>2, <2>3 DEF StringOps
<1>8. \A n : n.state.xer = s.xer => Count(op, n, i) = StringCount(op, s, i)
  BY DEF Count, StringCount, XerCount, ImmediateCount
<1>. QED BY <1>5, <1>6, <1>7, <1>8

\* The registers after a string load.
Filled(gpr, bytes, first, count) ==
  [r \in DOMAIN gpr |->
     LET Into == {k \in 0 .. (StringRegisters(count) - 1) : StringRegister(first, k) = r} IN
     IF Into = {} THEN gpr[r] ELSE StringWord(bytes, CHOOSE k \in Into : TRUE)]

LEMMA FilledWords ==
  ASSUME NEW gpr \in [Gprs -> Words], NEW count \in Nat, NEW bytes \in [1..count -> Bytes], NEW first
  PROVE  Filled(gpr, bytes, first, count) \in [Gprs -> Words]
<1>1. ASSUME NEW k \in Nat PROVE StringWord(bytes, k) \in Words
  <2>. DEFINE x == [n \in 1..4 |-> IF 4 * k + n <= Len(bytes) THEN bytes[4 * k + n] ELSE 0]
  <2>1. Len(bytes) = count
    OBVIOUS
  <2>2. x \in [1..4 -> Bytes]
    <3>1. ASSUME NEW n \in 1..4, 4 * k + n <= count PROVE bytes[4 * k + n] \in Bytes
      <4>1. 4 * k + n \in 1..count
        BY <3>1
      <4>. QED BY <4>1
    <3>2. 0 \in Bytes
      BY ByteSizes
    <3>. QED BY <2>1, <3>1, <3>2
  <2>. HIDE DEF x
  <2>3. Joined(x) \in 0 .. (TwoTo[ByteBits * 4] - 1)
    BY <2>2, JoinedFits
  <2>4. 0 .. (TwoTo[ByteBits * 4] - 1) = Words
    BY ByteSizes, WordRange
  <2>. QED BY <2>3, <2>4 DEF StringWord, x
<1>2. ASSUME NEW r \in Gprs
      PROVE  LET Into == {k \in 0 .. (StringRegisters(count) - 1) : StringRegister(first, k) = r} IN
             (IF Into = {} THEN gpr[r] ELSE StringWord(bytes, CHOOSE k \in Into : TRUE)) \in Words
  <2>. DEFINE Into == {k \in 0 .. (StringRegisters(count) - 1) : StringRegister(first, k) = r}
              c == CHOOSE k \in Into : TRUE
  <2>1. Into # {} => c \in Into
    <3>. HIDE DEF Into
    <3>. QED OBVIOUS
  <2>2. Into \subseteq Nat
    OBVIOUS
  <2>. HIDE DEF Into, c
  <2>3. Into # {} => StringWord(bytes, c) \in Words
    BY <1>1, <2>1, <2>2
  <2>4. (IF Into = {} THEN gpr[r] ELSE StringWord(bytes, c)) \in Words
    BY <2>3
  <2>. QED BY <2>4 DEF Into, c
<1>. QED BY <1>2, Zenon DEF Filled

\* What a string load and a string store leave in a core.
LoadsString(s, m, a, count, first) ==
  IF count = 0 THEN Core(s, m, "none")
  ELSE IF ~Accessible(a, count) THEN Core(s, m, "fault")
  ELSE Core(WithGprs(s, Filled(s.gpr, ReadBytes(m, a, count), first, count)), m, "none")
StoresString(s, m, a, count, first) ==
  IF count = 0 THEN Core(s, m, "none")
  ELSE IF ~Accessible(a, count) THEN Core(s, m, "fault")
  ELSE Core(s, WriteBytes(m, s.gpr, a, StringBytes(s.gpr, first, count)), "none")

LEMMA CoreStrings ==
  ASSUME NEW s, IsMachine(s), NEW m, NEW i, IsInsn(i), NEW op \in StringOps
  PROVE  ExecuteMany(op, Core(s, m, "none"), i)
           = IF op \in {"lswi", "lswx"}
             THEN LoadsString(s, m, StringPlace(op, s, i), StringCount(op, s, i), i.destination)
             ELSE StoresString(s, m, StringPlace(op, s, i), StringCount(op, s, i), i.source)
<1>. DEFINE c == Core(s, m, "none")
            a == StringPlace(op, s, i)
            count == StringCount(op, s, i)
            d == ExecuteMany(op, c, i)
<1>1. c.state = s /\ c.memory = m /\ Fault(c) = Core(s, m, "fault") /\ (\A g : [c EXCEPT !.state.gpr = g] = Core(WithGprs(s, g), m, "none"))
      /\ (\A k : [c EXCEPT !.memory = k] = Core(s, k, "none"))
  BY CoreUpdates
<1>2. BaseOrZero(c, i) = (IF i.base = 0 THEN 0 ELSE s.gpr[i.base]) /\ \A r : Gpr(c, r) = s.gpr[r]
  <2>. HIDE DEF c
  <2>. QED BY <1>1 DEF BaseOrZero, Gpr
<1>3. /\ op = "lswi" => d = LoadString(c, i, a, count)
      /\ op = "lswx" => d = LoadString(c, i, a, count)
      /\ op = "stswi" => d = StoreString(c, i, a, count)
      /\ op = "stswx" => d = StoreString(c, i, a, count)
  <2>. HIDE DEF c
  <2>. QED BY <1>1, <1>2 DEF ExecuteMany, lswi, lswx, stswi, stswx, StringPlace, StringCount, IndexedAddress
<1>4. LoadString(c, i, a, count) = LoadsString(s, m, a, count, i.destination)
  <2>. DEFINE bytes == ReadBytes(c.memory, a, count)
              g == Filled(c.state.gpr, bytes, i.destination, count)
  <2>1. LoadString(c, i, a, count) = IF count = 0 THEN c ELSE IF ~Accessible(a, count) THEN Fault(c) ELSE [c EXCEPT !.state.gpr = g]
    <3>. HIDE DEF c, a, count
    <3>. QED BY Zenon DEF LoadString, Filled
  <2>2. g = Filled(s.gpr, ReadBytes(m, a, count), i.destination, count)
    <3>. HIDE DEF c, a, count
    <3>. QED BY <1>1
  <2>. HIDE DEF c, a, count, g
  <2>3. c = Core(s, m, "none")
    BY DEF c
  <2>. QED BY <1>1, <2>1, <2>2, <2>3 DEF LoadsString
<1>5. StoreString(c, i, a, count) = StoresString(s, m, a, count, i.source)
  <2>. DEFINE g == WriteBytes(c.memory, c.state.gpr, a, StringBytes(c.state.gpr, i.source, count))
  <2>1. StoreString(c, i, a, count) = IF count = 0 THEN c ELSE IF ~Accessible(a, count) THEN Fault(c) ELSE [c EXCEPT !.memory = g]
    <3>. HIDE DEF c, a, count
    <3>. QED BY Zenon DEF StoreString
  <2>2. g = WriteBytes(m, s.gpr, a, StringBytes(s.gpr, i.source, count))
    <3>. HIDE DEF c, a, count
    <3>. QED BY <1>1
  <2>. HIDE DEF c, a, count, g
  <2>3. c = Core(s, m, "none")
    BY DEF c
  <2>. QED BY <1>1, <2>1, <2>2, <2>3 DEF StoresString
<1>. HIDE DEF c, a, count, d
<1>6. d = IF op \in {"lswi", "lswx"} THEN LoadsString(s, m, a, count, i.destination)
          ELSE StoresString(s, m, a, count, i.source)
  BY <1>3, <1>4, <1>5 DEF StringOps
<1>. QED BY <1>6 DEF d, c, a, count

LEMMA LoadStringAgrees ==
  ASSUME NEW n, NEW s, NEW m, Stands(n, s, m), NEW i, IsInsn(i), NEW op \in {"lswi", "lswx"}
  PROVE  Agrees(s, m, ExecuteMany(op, Core(s, m, "none"), i), EmittedLoadString(op, n, i, s.cia))
<1>. DEFINE k == Forgotten(flush_guest_gprs(n))
            a == StringPlace(op, s, i)
            count == StringCount(op, s, i)
            g == Filled(s.gpr, ReadBytes(m, a, count), i.destination, count)
            t == WithGprs(s, g)
            q == HostGprs(k, g)
            d == ExecuteMany(op, Core(s, m, "none"), i)
            e == EmittedLoadString(op, n, i, s.cia)
<1>1. IsMachine(s) /\ IsMemory(m) /\ s.gpr \in [Gprs -> Words] /\ s.cia \in Words
  BY StandsFacts
<1>2. Stands(k, s, m) /\ k.state.gpr = s.gpr /\ k.host = NoHost /\ k.dirty = {} /\ \A x \in Words : At(k.state, x) = At(s, x)
  BY StandsForgotten, ZenonT(30)
<1>3. op \in StringOps
  BY DEF StringOps
<1>4. d = LoadsString(s, m, a, count, i.destination)
  BY <1>1, <1>3, CoreStrings
<1>. HIDE DEF k
<1>5. a \in Words /\ count \in Nat /\ StringAddress(op, k.state, i) = a /\ Count(op, k, i) = count
  <2>1. k.state.xer = s.xer
    BY <1>2, StandsFacts
  <2>2. /\ a \in Words /\ count \in Nat
        /\ \A z : z.gpr = s.gpr => StringAddress(op, z, i) = a
        /\ \A z : z.state.xer = s.xer => Count(op, z, i) = count
    BY <1>1, <1>3, StringFacts
  <2>. HIDE DEF a, count
  <2>. QED BY <1>2, <2>1, <2>2
<1>6. e = IF count = 0 THEN k ELSE IF ~Accessible(a, count) THEN Return(k, "fault", s.cia) ELSE q
  <2>. DEFINE cn == Count(op, k, i)
              y == StringAddress(op, k.state, i)
              bytes == ReadBytes(k.memory, y, cn)
              Word(j) == Joined([x \in 1..4 |-> IF 4 * j + x <= cn THEN bytes[4 * j + x] ELSE 0])
              h == [r \in DOMAIN k.state.gpr |->
                     LET Puts == {j \in 0 .. ((cn + 3) \div 4 - 1) : (i.destination + j) % GprCount = r} IN
                     IF Puts = {} THEN k.state.gpr[r] ELSE Word(CHOOSE j \in Puts : TRUE)]
  <2>1. e = IF cn = 0 THEN k ELSE IF ~Accessible(y, cn) THEN Return(k, "fault", s.cia) ELSE HostGprs(k, h)
    BY Zenon DEF EmittedLoadString, HostGprs, k
  <2>2. h = g
    <3>1. \A p, w : ReadBytes(k.memory, p, w) = ReadBytes(m, p, w)
      <4>1. Near(k.memory, m)
        BY <1>2 DEF Stands
      <4>. QED BY <4>1, NearReads
    <3>. DEFINE u == ReadBytes(m, a, count)
    <3>2. bytes = u
      <4>. HIDE DEF a, count
      <4>. QED BY <1>5, <3>1
    <3>3. Len(u) = count
      <4>1. u = [x \in 1..count |-> m.bytes[resolve_alias_address(a + x - 1)]]
        BY Zenon DEF ReadBytes
      <4>. HIDE DEF a, count, u
      <4>. QED BY <1>5, <4>1
    <3>. HIDE DEF bytes, u, cn, a, count
    <3>4. \A j : Word(j) = StringWord(u, j)
      BY <1>5, <3>2, <3>3, Zenon DEF StringWord, cn
    <3>. HIDE DEF Word
    <3>5. h = Filled(s.gpr, u, i.destination, count)
      <4>. DEFINE Puts(r) == {j \in 0 .. ((cn + 3) \div 4 - 1) : (i.destination + j) % GprCount = r}
                  Into(r) == {j \in 0 .. (StringRegisters(count) - 1) : StringRegister(i.destination, j) = r}
                  PutFrom(r) == CHOOSE j \in Puts(r) : TRUE
                  IntoFrom(r) == CHOOSE j \in Into(r) : TRUE
                  x == [r \in DOMAIN k.state.gpr |-> IF Puts(r) = {} THEN k.state.gpr[r] ELSE Word(PutFrom(r))]
                  y1 == [r \in DOMAIN s.gpr |-> IF Into(r) = {} THEN s.gpr[r] ELSE StringWord(u, IntoFrom(r))]
      <4>1. cn = count
        BY <1>5 DEF cn
      <4>2. \A r : Puts(r) = Into(r)
        BY <4>1, Zenon DEF StringRegisters, StringRegister
      <4>3. h = x
        BY Zenon
      <4>4. Filled(s.gpr, u, i.destination, count) = y1
        BY Zenon DEF Filled
      <4>. HIDE DEF Puts, Into
      <4>5. \A r : PutFrom(r) = IntoFrom(r)
        BY <4>2, Zenon
      <4>. HIDE DEF PutFrom, IntoFrom
      <4>6. x = y1
        BY <1>2, <3>4, <4>2, <4>5
      <4>. HIDE DEF x, y1, h
      <4>. QED BY <4>3, <4>4, <4>6
    <3>. QED BY <3>5 DEF u
  <2>. HIDE DEF h, g, e, y, cn, a, count
  <2>. QED BY <1>5, <2>1, <2>2 DEF y, cn
<1>7. Agrees(s, m, Core(s, m, "none"), k)
  BY <1>2, AgreesMoved
<1>8. Agrees(s, m, Core(s, m, "fault"), Return(k, "fault", s.cia))
  BY <1>2, StandsReturns
<1>9. Accessible(a, count) => Agrees(s, m, Core(t, m, "none"), q)
  <2>. SUFFICES ASSUME Accessible(a, count) PROVE Agrees(s, m, Core(t, m, "none"), q)
    OBVIOUS
  <2>. DEFINE u == ReadBytes(m, a, count)
  <2>1. u \in [1..count -> Bytes]
    <3>. HIDE DEF a, count
    <3>. QED BY <1>1, <1>5, ReadBytesAre
  <2>2. g \in [Gprs -> Words]
    <3>. HIDE DEF a, count, u
    <3>1. Filled(s.gpr, u, i.destination, count) \in [Gprs -> Words]
      BY <1>1, <1>5, <2>1, FilledWords
    <3>. QED BY <3>1 DEF u
  <2>. HIDE DEF g
  <2>3. Stands(q, t, m)
    BY <1>2, <2>2, HostGprsIs
  <2>4. t.cia = s.cia
    BY <1>1, <2>2, GprsUpdate
  <2>. HIDE DEF q, t
  <2>. QED BY <2>3, <2>4, AgreesMoved
<1>10. d = IF count = 0 THEN Core(s, m, "none") ELSE IF ~Accessible(a, count) THEN Core(s, m, "fault") ELSE Core(t, m, "none")
  BY <1>4, Zenon DEF LoadsString
<1>. HIDE DEF d, e, q, t, g, a, count
<1>11. Agrees(s, m, d, e)
  BY <1>6, <1>7, <1>8, <1>9, <1>10
<1>. QED BY <1>11 DEF d, e

LEMMA StoreStringAgrees ==
  ASSUME NEW n, NEW s, NEW m, Stands(n, s, m), m.watch = {}, NEW i, IsInsn(i), NEW op \in {"stswi", "stswx"}, NEW b
  PROVE  Agrees(s, m, ExecuteMany(op, Core(s, m, "none"), i), EmittedStoreString(op, n, i, s.cia, b))
<1>. DEFINE f == IF op = "stswi" THEN FetchAddress(n, [i EXCEPT !.immediate = 0], FALSE) ELSE n
            k == flush_guest_gprs(f)
            a == StringPlace(op, s, i)
            count == StringCount(op, s, i)
            new == StringBytes(s.gpr, i.source, count)
            w == WriteBytes(m, s.gpr, a, new)
            q == [k EXCEPT !.memory = w]
            leaves == OverlapsOrWraps(b, a, count) \/ (op = "stswx" /\ a = AllOnes - count + 1)
            d == ExecuteMany(op, Core(s, m, "none"), i)
            e == EmittedStoreString(op, n, i, s.cia, b)
<1>1. IsMachine(s) /\ IsMemory(m) /\ s.gpr \in [Gprs -> Words] /\ s.cia \in Words
  BY StandsFacts
<1>2. Stands(f, s, m)
  <2>. DEFINE S == (IF i.base = 0 THEN {} ELSE {i.base})
  <2>1. FetchAddress(n, [i EXCEPT !.immediate = 0], FALSE) = read_guest_gpr(n, S)
    <3>1. [i EXCEPT !.immediate = 0].base = i.base
      OBVIOUS
    <3>. QED BY <3>1 DEF FetchAddress
  <2>2. S \in SUBSET Gprs
    BY DEF IsInsn
  <2>. HIDE DEF S
  <2>3. Stands(read_guest_gpr(n, S), s, m)
    BY <2>2, StandsRead
  <2>. QED BY <2>1, <2>3
<1>3. Stands(k, s, m) /\ k.state.gpr = s.gpr /\ \A x \in Words : At(k.state, x) = At(s, x)
  <2>. HIDE DEF f
  <2>. QED BY <1>2, StandsFlush
<1>4. op \in StringOps /\ op \notin {"lswi", "lswx"}
  BY DEF StringOps
<1>5. d = StoresString(s, m, a, count, i.source)
  BY <1>1, <1>4, CoreStrings
<1>6. k.memory = m
  <2>1. Near(k.memory, m) /\ IsMemory(k.memory)
    BY <1>3 DEF Stands, Near
  <2>2. k.memory = Memory(k.memory.bytes, k.memory.watch, k.memory.writer, k.memory.events)
        /\ m = Memory(m.bytes, m.watch, m.writer, m.events)
    BY <1>1, <2>1, MemoryEqual
  <2>. HIDE DEF k
  <2>. QED BY <2>1, <2>2 DEF Near
<1>. HIDE DEF k
<1>7. a \in Words /\ count \in Nat /\ StringAddress(op, k.state, i) = a /\ Count(op, k, i) = count
  <2>1. k.state.xer = s.xer
    BY <1>3, StandsFacts
  <2>2. /\ a \in Words /\ count \in Nat
        /\ \A z : z.gpr = s.gpr => StringAddress(op, z, i) = a
        /\ \A z : z.state.xer = s.xer => Count(op, z, i) = count
    BY <1>1, <1>4, StringFacts
  <2>. HIDE DEF a, count
  <2>. QED BY <1>3, <2>1, <2>2
<1>8. e = IF count = 0 THEN k ELSE IF ~Accessible(a, count) THEN Return(k, "fault", s.cia)
          ELSE IF leaves THEN Return(q, "left", Unsigned(s.cia + 4)) ELSE q
  <2>. DEFINE cn == Count(op, k, i)
              y == StringAddress(op, k.state, i)
              h == StringBytes(k.state.gpr, i.source, cn)
              x == [k EXCEPT !.memory = WriteBytes(k.memory, k.state.gpr, y, h)]
              lv == OverlapsOrWraps(b, y, cn) \/ (op = "stswx" /\ y = AllOnes - cn + 1)
  <2>1. e = IF cn = 0 THEN k ELSE IF ~Accessible(y, cn) THEN Return(k, "fault", s.cia)
            ELSE IF lv THEN Return(x, "left", Unsigned(s.cia + 4)) ELSE x
    BY Zenon DEF EmittedStoreString, k, StringBytes, StringRegister
  <2>2. x = q
    <3>. HIDE DEF y, cn, a, count
    <3>. QED BY <1>3, <1>6, <1>7 DEF y, cn
  <2>. HIDE DEF x, q, y, cn, a, count, e
  <2>. QED BY <1>7, <2>1, <2>2 DEF y, cn
<1>9. new \in [1..count -> Bytes]
  <2>1. ASSUME NEW x \in 1..count
        PROVE  Parted(s.gpr[StringRegister(i.source, (x - 1) \div 4)], 4)[1 + ((x - 1) % 4)] \in Bytes
    <3>. DEFINE j == (x - 1) \div 4
                v == s.gpr[StringRegister(i.source, j)]
                z == 1 + ((x - 1) % 4)
    <3>1. j \in Int /\ z \in 1..4
      <4>1. x - 1 \in Int
        BY <1>7
      <4>. QED BY <4>1
    <3>2. GprCount \in Nat /\ GprCount > 0 /\ i.source \in Int
      BY LaneValuesAssumption DEF IsInsn, Gprs
    <3>3. StringRegister(i.source, j) \in Gprs
      <4>. HIDE DEF j
      <4>. QED BY <3>1, <3>2 DEF StringRegister, Gprs
    <3>. HIDE DEF j
    <3>4. v \in Int
      BY <1>1, <3>3, WordRange
    <3>. HIDE DEF v, z
    <3>5. Parted(v, 4) \in [1..4 -> Bytes]
      BY <3>4, PartedBytes
    <3>6. Parted(v, 4)[z] \in Bytes
      BY <3>1, <3>5
    <3>. QED BY <3>6 DEF v, z, j
  <2>. HIDE DEF count
  <2>. QED BY <2>1, Zenon DEF StringBytes
<1>10. IsMemory(w)
  <2>. HIDE DEF new, a, count
  <2>1. LET x == WriteBytes(m, s.gpr, a, new) IN IsMemory(x)
    <3>. DEFINE g == s.gpr
    <3>. HIDE DEF g
    <3>1. IsMemory(WriteBytes(m, g, a, new))
      BY <1>1, <1>7, <1>9, WriteBytesIs
    <3>. QED BY <3>1 DEF g
  <2>. QED BY <2>1
<1>. HIDE DEF w
<1>11. Stands(q, s, w) /\ q.state = k.state
  <2>1. \E x : Stands(k, s, x)
    BY <1>3
  <2>. QED BY <1>3, <1>10, <2>1, StandsMemory
<1>12. Agrees(s, m, Core(s, m, "none"), k)
  BY <1>3, AgreesMoved
<1>13. Agrees(s, m, Core(s, m, "fault"), Return(k, "fault", s.cia))
  BY <1>3, StandsReturns
<1>. HIDE DEF q
<1>14. Agrees(s, m, Core(s, w, "none"), q)
  BY <1>11, AgreesMoved
<1>15. Agrees(s, m, Core(s, w, "none"), Return(q, "left", Unsigned(s.cia + 4)))
  <2>1. \A x \in Words : At(q.state, x) = At(s, x)
    BY <1>3, <1>11
  <2>. QED BY <1>11, <2>1, LeftAgrees
<1>16. d = IF count = 0 THEN Core(s, m, "none") ELSE IF ~Accessible(a, count) THEN Core(s, m, "fault") ELSE Core(s, w, "none")
  BY <1>5, Zenon DEF StoresString, w
<1>. HIDE DEF d, e, a, count, leaves
<1>17. Agrees(s, m, d, e)
  BY <1>8, <1>12, <1>13, <1>14, <1>15, <1>16, SMTT(30)
<1>. QED BY <1>17 DEF d, e

\* ---- The steps of the two engines -----------------------------------------------

\* The core an instruction executes on, and what becomes of the core it left.
ToldCore(c)  == [c EXCEPT !.memory = set_current_guest_cia(@, c.state.cia)]
Completed(d) == IF d.stop = "none" THEN [d EXCEPT !.state = FellThrough(@)] ELSE d
Resumed(n)   == [state |-> n.state, memory |-> n.memory, stop |-> "none"]

\* Perform, for the core d the interpreter's instruction left, the machine n the native code
\* left, and the core a its repetition left.
Recovered(op, n, a) ==
  IF n.exit = "fault" /\ op \in StringOps \cup {"stmw"}
  THEN native' = n /\ outcome' = "fault"
  ELSE /\ native' = [Begin(Completed(a).state, Completed(a).memory) EXCEPT !.exit = n.exit]
       /\ outcome' = IF Completed(a).stop = n.exit THEN n.exit ELSE "hle_error"
Finished(op, n, a) ==
  \/ /\ n.exit = "no" /\ index + 1 < block.size
     /\ native' = n /\ index' = index + 1 /\ UNCHANGED <<block, outcome>>
  \/ n.exit = "no" /\ index + 1 = block.size /\ Enters(EndBlock(n, op, Next4(Here)))
  \/ n.exit = "left" /\ Enters(n)
  \/ n.exit \in {"fault", "unsupported"} /\ Recovered(op, n, a) /\ UNCHANGED <<block, index>>
Performed(op, i, d, n, a) ==
  /\ EndsBlock(op) => index + 1 = block.size
  /\ ~Departs(op, i, n)
  /\ interpreter' = Completed(d)
  /\ Finished(op, n, a)
  /\ executed' = Append(executed, Outcome(op, i))
  /\ UNCHANGED program

\* What d, n and a are, by the kind of the instruction.
FloatOps == ScalarFloatOps \cup PairLoads \cup PairStores
Done(op, i, d, n, a) ==
  LET c == ToldCore(interpreter)
      r == ToldCore(Resumed(n))
  IN  \/ /\ op \in LoadOps
         /\ d = ExecuteLoad(op, c, i) /\ n = EmittedLoad(op, native, i, Here) /\ a = ExecuteLoad(op, r, i)
      \/ /\ op \in StoreOps
         /\ d = ExecuteStore(op, c, i) /\ n = EmittedStore(op, native, i, Here, block)
         /\ a = ExecuteStore(op, r, i)
      \/ /\ op \in MultipleOps \cup StringOps
         /\ d = ExecuteMany(op, c, i) /\ n = EmitMany(op, native, i, Here, block) /\ a = ExecuteMany(op, r, i)
      \/ /\ op \in FloatOps
         /\ d = ExecuteFloat(op, c, i) /\ n = EmitFloat(op, native, i, Here, block) /\ a = ExecuteFloat(op, r, i)
      \/ /\ op \in OtherOps
         /\ d = ExecuteOther(op, c, i) /\ n = EmitOther(op, native, i, Here, block) /\ a = ExecuteOther(op, r, i)
\* The decoder gave it, and both engines carried it out.
Occurs(op, i, d, n, a) ==
  /\ IsInsn(i) /\ (op \in Updates => i.base # 0)
  /\ interpreter.stop = "none" /\ outcome = "none"
  /\ Done(op, i, d, n, a) /\ Performed(op, i, d, n, a)

\* What a program's forms and immediates make is an instruction of the decoder.
LEMMA FormsAreInsns ==
  ASSUME program \in DOMAIN Programs
  PROVE  /\ \A i \in Forms : IsInsn(i)
         /\ \A op : \A i \in FormsOf(op) : IsInsn(i) /\ (op \in Updates => i.base # 0)
         /\ \A i \in Forms : \A count \in Programs[program].counts :
              IsInsn([i EXCEPT !.string_byte_count = count])
         /\ \A op : \A i \in FormsOf(op) : \A q \in {0, 1} : \A w \in BOOLEAN :
              LET j == [i EXCEPT !.quantized_register = q, !.paired_single_w = w] IN
              IsInsn(j) /\ j.base = i.base
<1>. DEFINE p == Programs[program]
            Row(i) == i = [destination |-> i.destination, base |-> i.base, source |-> i.source,
                          record |-> i.record, immediate |-> i.immediate, fp_register |-> i.fp_register,
                          quantized_register |-> i.quantized_register, paired_single_w |-> i.paired_single_w,
                          string_byte_count |-> i.string_byte_count] /\ IsInsn(i)
            Insns(I) == \A i \in I : Row(i)
<1>1. (\A f \in p.forms : {f[1], f[2], f[3]} \subseteq Gprs) /\ p.immediates \subseteq Words
      /\ p.counts \subseteq 0 .. (4 * GprCount)
  BY MemoryEnginesAssumption
<1>2. 0 \in Words /\ 0 \in 0 .. (4 * GprCount)
  BY WordSizes, LaneValuesAssumption DEF Words
<1>3. Insns(Forms)
  <2>. SUFFICES ASSUME NEW f \in p.forms PROVE Row(Insn(f))
    BY Zenon DEF Forms
  <2>. DEFINE x == f[1] y == f[2] z == f[3]
  <2>1. x \in Gprs /\ y \in Gprs /\ z \in Gprs
    BY <1>1
  <2>2. Insn(f) = [destination |-> x, base |-> y, source |-> z, record |-> FALSE,
                   immediate |-> 0, fp_register |-> 0, quantized_register |-> 0, paired_single_w |-> FALSE,
                   string_byte_count |-> 0]
    BY DEF Insn
  <2>. DEFINE j == Insn(f)
  <2>. HIDE DEF x, y, z
  <2>3. j.destination = x /\ j.base = y /\ j.source = z /\ j.record = FALSE /\ j.immediate = 0
        /\ j.fp_register = 0 /\ j.quantized_register = 0 /\ j.paired_single_w = FALSE /\ j.string_byte_count = 0
    BY <2>2
  <2>4. IsInsn(j)
    BY <1>2, <2>1, <2>3 DEF IsInsn
  <2>. QED  BY <2>2, <2>3, <2>4, Zenon
<1>4. ASSUME NEW op PROVE Insns(Displaced(op, Forms))
  <2>1. CASE is_indexed_memory(op)
    BY <1>3, <2>1 DEF Displaced
  <2>2. CASE ~is_indexed_memory(op)
    <3>. SUFFICES ASSUME NEW j \in Forms, NEW k \in p.immediates PROVE Row([j EXCEPT !.immediate = k])
      <4>1. \A i \in Displaced(op, Forms) :
              \E j \in Forms, k \in p.immediates : i = [j EXCEPT !.immediate = k]
        BY <2>2 DEF Displaced
      <4>. HIDE DEF Row, p
      <4>. QED  BY <4>1
    <3>1. k \in Words
      BY <1>1
    <3>2. j = [destination |-> j.destination, base |-> j.base, source |-> j.source,
               record |-> j.record, immediate |-> j.immediate, fp_register |-> j.fp_register,
               quantized_register |-> j.quantized_register, paired_single_w |-> j.paired_single_w,
               string_byte_count |-> j.string_byte_count] /\ IsInsn(j)
      BY <1>3
    <3>3. [j EXCEPT !.immediate = k] = [destination |-> j.destination, base |-> j.base, source |-> j.source,
               record |-> j.record, immediate |-> k, fp_register |-> j.fp_register,
               quantized_register |-> j.quantized_register, paired_single_w |-> j.paired_single_w,
               string_byte_count |-> j.string_byte_count]
      BY <3>2
    <3>. QED  BY <3>1, <3>2, <3>3 DEF IsInsn
  <2>. QED  BY <2>1, <2>2
<1>5. \A op : \A i \in FormsOf(op) : i \in Displaced(op, Forms) /\ (op \in Updates => i.base # 0)
  BY Zenon DEF FormsOf, Legal
<1>6. \A op : Insns(FormsOf(op))
  BY <1>4, <1>5, Zenon
<1>7. ASSUME NEW i \in Forms, NEW count \in p.counts PROVE IsInsn([i EXCEPT !.string_byte_count = count])
  BY <1>1, <1>3 DEF IsInsn
<1>8. ASSUME NEW op, NEW i \in FormsOf(op), NEW q \in {0, 1}, NEW w \in BOOLEAN
      PROVE  LET j == [i EXCEPT !.quantized_register = q, !.paired_single_w = w] IN
             IsInsn(j) /\ j.base = i.base
  <2>1. i = [destination |-> i.destination, base |-> i.base, source |-> i.source,
             record |-> i.record, immediate |-> i.immediate, fp_register |-> i.fp_register,
             quantized_register |-> i.quantized_register, paired_single_w |-> i.paired_single_w,
             string_byte_count |-> i.string_byte_count] /\ IsInsn(i)
    BY <1>6
  <2>. QED  BY <2>1 DEF IsInsn
<1>. QED  BY <1>3, <1>5, <1>6, <1>7, <1>8
\* Every step is an instruction that both engines carry out.
LEMMA NextOccurs ==
  ASSUME Next, program \in DOMAIN Programs
  PROVE  \E op, i, d, n, a : Occurs(op, i, d, n, a)
<1>. DEFINE c == ToldCore(interpreter)
<1>1. \A ops : \A op \in Allowed(ops) : op \in ops /\ interpreter.stop = "none" /\ outcome = "none"
  BY Zenon DEF Allowed
<1>2. CASE LoadInteger
  <2>1. PICK op \in Allowed(LoadOps) : \E i \in FormsOf(op) :
               Perform(op, i, LAMBDA x : ExecuteLoad(op, x, i), EmittedLoad(op, native, i, Here))
    BY <1>2 DEF LoadInteger
  <2>2. PICK i \in FormsOf(op) :
               Perform(op, i, LAMBDA x : ExecuteLoad(op, x, i), EmittedLoad(op, native, i, Here))
    BY <2>1
  <2>. DEFINE n == EmittedLoad(op, native, i, Here)
              a == ExecuteLoad(op, ToldCore(Resumed(n)), i)
  <2>3. Performed(op, i, ExecuteLoad(op, c, i), n, a)
    BY <2>2 DEF Perform, Performed, Finishes, Finished, Recover, Recovered, step, ToldCore, Completed, Resumed
  <2>4. Done(op, i, ExecuteLoad(op, c, i), n, a)
    BY <1>1, Zenon DEF Done
  <2>. QED  BY <1>1, <2>3, <2>4, FormsAreInsns, Zenon DEF Occurs
<1>3. CASE StoreInteger
  <2>1. PICK op \in Allowed(StoreOps) : \E i \in FormsOf(op) :
               Perform(op, i, LAMBDA x : ExecuteStore(op, x, i), EmittedStore(op, native, i, Here, block))
    BY <1>3 DEF StoreInteger
  <2>2. PICK i \in FormsOf(op) :
               Perform(op, i, LAMBDA x : ExecuteStore(op, x, i), EmittedStore(op, native, i, Here, block))
    BY <2>1
  <2>. DEFINE n == EmittedStore(op, native, i, Here, block)
              a == ExecuteStore(op, ToldCore(Resumed(n)), i)
  <2>3. Performed(op, i, ExecuteStore(op, c, i), n, a)
    BY <2>2 DEF Perform, Performed, Finishes, Finished, Recover, Recovered, step, ToldCore, Completed, Resumed
  <2>4. Done(op, i, ExecuteStore(op, c, i), n, a)
    BY <1>1, Zenon DEF Done
  <2>. QED  BY <1>1, <2>3, <2>4, FormsAreInsns, Zenon DEF Occurs
<1>4. ASSUME NEW op \in Allowed(MultipleOps) \cup Allowed(StringOps), NEW i, IsInsn(i), op \notin Updates,
             Perform(op, i, LAMBDA x : ExecuteMany(op, x, i), EmitMany(op, native, i, Here, block))
      PROVE  \E d, n, a : Occurs(op, i, d, n, a)
  <2>. DEFINE n == EmitMany(op, native, i, Here, block)
              a == ExecuteMany(op, ToldCore(Resumed(n)), i)
  <2>1. Performed(op, i, ExecuteMany(op, c, i), n, a)
    BY <1>4 DEF Perform, Performed, Finishes, Finished, Recover, Recovered, step, ToldCore, Completed, Resumed
  <2>2. op \in MultipleOps \cup StringOps /\ interpreter.stop = "none" /\ outcome = "none"
    BY <1>1, Zenon
  <2>3. Done(op, i, ExecuteMany(op, c, i), n, a)
    BY <2>2, Zenon DEF Done
  <2>. QED  BY <1>4, <2>1, <2>2, <2>3, Zenon DEF Occurs
<1>5. CASE Many
  <2>1. MultipleOps \cap Updates = {} /\ StringOps \cap Updates = {}
    BY DEF MultipleOps, StringOps, Updates
  <2>2. CASE \E op \in Allowed(MultipleOps) : \E i \in FormsOf(op) :
               Perform(op, i, LAMBDA x : ExecuteMany(op, x, i), EmitMany(op, native, i, Here, block))
    <3>1. PICK op \in Allowed(MultipleOps) : \E i \in FormsOf(op) :
               Perform(op, i, LAMBDA x : ExecuteMany(op, x, i), EmitMany(op, native, i, Here, block))
      BY <2>2
    <3>2. PICK i \in FormsOf(op) :
               Perform(op, i, LAMBDA x : ExecuteMany(op, x, i), EmitMany(op, native, i, Here, block))
      BY <3>1
    <3>3. op \notin Updates /\ IsInsn(i)
      BY <1>1, <2>1, FormsAreInsns, Zenon
    <3>. QED  BY <1>4, <3>2, <3>3
  <2>3. CASE \E op \in Allowed(StringOps), k \in Forms, count \in Programs[program].counts :
               LET i == [k EXCEPT !.string_byte_count = count] IN
               Perform(op, i, LAMBDA x : ExecuteMany(op, x, i), EmitMany(op, native, i, Here, block))
    <3>1. PICK op \in Allowed(StringOps), k \in Forms, count \in Programs[program].counts :
               LET i == [k EXCEPT !.string_byte_count = count] IN
               Perform(op, i, LAMBDA x : ExecuteMany(op, x, i), EmitMany(op, native, i, Here, block))
      BY <2>3
    <3>. DEFINE i == [k EXCEPT !.string_byte_count = count]
    <3>2. op \notin Updates /\ IsInsn(i)
      BY <1>1, <2>1, FormsAreInsns, Zenon
    <3>3. Perform(op, i, LAMBDA x : ExecuteMany(op, x, i), EmitMany(op, native, i, Here, block))
      BY <3>1
    <3>. HIDE DEF i
    <3>. QED  BY <1>4, <3>2, <3>3
  <2>. QED  BY <1>5, <2>2, <2>3 DEF Many
<1>6. ASSUME NEW op \in Allowed(ScalarFloatOps) \cup Allowed(PairLoads \cup PairStores), NEW i, IsInsn(i),
             op \in Updates => i.base # 0,
             Perform(op, i, LAMBDA x : ExecuteFloat(op, x, i), EmitFloat(op, native, i, Here, block))
      PROVE  \E d, n, a : Occurs(op, i, d, n, a)
  <2>. DEFINE n == EmitFloat(op, native, i, Here, block)
              a == ExecuteFloat(op, ToldCore(Resumed(n)), i)
  <2>1. Performed(op, i, ExecuteFloat(op, c, i), n, a)
    BY <1>6 DEF Perform, Performed, Finishes, Finished, Recover, Recovered, step, ToldCore, Completed, Resumed
  <2>2. op \in FloatOps /\ interpreter.stop = "none" /\ outcome = "none"
    BY <1>1, ZenonT(30) DEF FloatOps
  <2>3. Done(op, i, ExecuteFloat(op, c, i), n, a)
    BY <2>2, Zenon DEF Done
  <2>. QED  BY <1>6, <2>1, <2>2, <2>3, Zenon DEF Occurs
<1>7. CASE Float
  <2>2. CASE \E op \in Allowed(ScalarFloatOps) : \E i \in FormsOf(op) :
               Perform(op, i, LAMBDA x : ExecuteFloat(op, x, i), EmitFloat(op, native, i, Here, block))
    <3>1. PICK op \in Allowed(ScalarFloatOps) : \E i \in FormsOf(op) :
               Perform(op, i, LAMBDA x : ExecuteFloat(op, x, i), EmitFloat(op, native, i, Here, block))
      BY <2>2
    <3>2. PICK i \in FormsOf(op) :
               Perform(op, i, LAMBDA x : ExecuteFloat(op, x, i), EmitFloat(op, native, i, Here, block))
      BY <3>1
    <3>3. IsInsn(i) /\ (op \in Updates => i.base # 0)
      BY FormsAreInsns, Zenon
    <3>. QED  BY <1>6, <3>2, <3>3
  <2>3. CASE \E op \in Allowed(PairLoads \cup PairStores), q \in {0, 1}, w \in BOOLEAN : \E k \in FormsOf(op) :
               LET i == [k EXCEPT !.quantized_register = q, !.paired_single_w = w] IN
               Perform(op, i, LAMBDA x : ExecuteFloat(op, x, i), EmitFloat(op, native, i, Here, block))
    <3>1. PICK op \in Allowed(PairLoads \cup PairStores), q \in {0, 1}, w \in BOOLEAN : \E k \in FormsOf(op) :
               LET i == [k EXCEPT !.quantized_register = q, !.paired_single_w = w] IN
               Perform(op, i, LAMBDA x : ExecuteFloat(op, x, i), EmitFloat(op, native, i, Here, block))
      BY <2>3
    <3>2. PICK k \in FormsOf(op) :
               LET i == [k EXCEPT !.quantized_register = q, !.paired_single_w = w] IN
               Perform(op, i, LAMBDA x : ExecuteFloat(op, x, i), EmitFloat(op, native, i, Here, block))
      BY <3>1
    <3>. DEFINE i == [k EXCEPT !.quantized_register = q, !.paired_single_w = w]
    <3>5. LET j == [k EXCEPT !.quantized_register = q, !.paired_single_w = w] IN IsInsn(j) /\ j.base = k.base
      BY FormsAreInsns
    <3>6. op \in Updates => k.base # 0
      BY FormsAreInsns, Zenon
    <3>3. IsInsn(i) /\ (op \in Updates => i.base # 0)
      BY <3>5, <3>6, Zenon
    <3>4. Perform(op, i, LAMBDA x : ExecuteFloat(op, x, i), EmitFloat(op, native, i, Here, block))
      BY <3>2
    <3>. HIDE DEF i
    <3>. QED  BY <1>6, <3>3, <3>4
  <2>. QED  BY <1>7, <2>2, <2>3 DEF Float
<1>8. ASSUME NEW op, NEW i, IsInsn(i), op \in OtherOps, interpreter.stop = "none", outcome = "none",
             Perform(op, i, LAMBDA x : ExecuteOther(op, x, i), EmitOther(op, native, i, Here, block))
      PROVE  \E d, n, a : Occurs(op, i, d, n, a)
  <2>. DEFINE n == EmitOther(op, native, i, Here, block)
              a == ExecuteOther(op, ToldCore(Resumed(n)), i)
  <2>1. Performed(op, i, ExecuteOther(op, c, i), n, a)
    BY <1>8 DEF Perform, Performed, Finishes, Finished, Recover, Recovered, step, ToldCore, Completed, Resumed
  <2>2. op \notin Updates
    BY <1>8 DEF OtherOps, CacheOps, Updates
  <2>3. Done(op, i, ExecuteOther(op, c, i), n, a)
    BY <1>8, Zenon DEF Done
  <2>. QED  BY <1>8, <2>1, <2>2, <2>3, Zenon DEF Occurs
<1>9. CASE Reserve \/ Arithmetic
  <2>1. PICK op, i : /\ op \in Allowed({"lwarx", "stwcx"}) \cup Allowed({"addi"}) /\ i \in FormsOf(op)
                     /\ Perform(op, i, LAMBDA x : ExecuteOther(op, x, i), EmitOther(op, native, i, Here, block))
    BY <1>9 DEF Reserve, Arithmetic
  <2>2. op \in {"lwarx", "stwcx", "addi"} /\ interpreter.stop = "none" /\ outcome = "none"
    BY <1>1, <2>1
  <2>3. op \in OtherOps /\ IsInsn(i)
    BY <2>1, <2>2, FormsAreInsns, Zenon DEF OtherOps
  <2>. QED  BY <1>8, <2>1, <2>2, <2>3
<1>10. CASE Cache
  <2>1. PICK op \in Allowed(CacheOps) : \E i \in Forms :
               Perform(op, i, LAMBDA x : ExecuteOther(op, x, i), EmitOther(op, native, i, Here, block))
    BY <1>10 DEF Cache
  <2>2. PICK i \in Forms :
               Perform(op, i, LAMBDA x : ExecuteOther(op, x, i), EmitOther(op, native, i, Here, block))
    BY <2>1
  <2>3. op \in OtherOps /\ IsInsn(i) /\ interpreter.stop = "none" /\ outcome = "none"
    BY <1>1, FormsAreInsns, Zenon DEF OtherOps
  <2>. QED  BY <1>8, <2>2, <2>3
<1>. QED  BY <1>2, <1>3, <1>5, <1>7, <1>9, <1>10, Zenon DEF Next
\* ---- The invariant ----------------------------------------------------------------

\* The block in progress.
BlockOk ==
  /\ block = [start |-> block.start, size |-> block.size]
  /\ block.start \in Words /\ block.size \in Nat /\ index \in Nat /\ index < block.size
\* While both run, the native machine stands for the interpreter's over the same memory, at
\* the instruction the interpreter is at; once they have stopped, CpuState is its machine.
Together ==
  /\ program \in DOMAIN Programs /\ BlockOk
  /\ interpreter = Core(interpreter.state, interpreter.memory, interpreter.stop)
  /\ outcome = interpreter.stop
  /\ \/ /\ outcome = "none" /\ Here = interpreter.state.cia
        /\ Stands(native, interpreter.state, interpreter.memory)
     \/ /\ outcome \in {"fault", "unsupported"}
        /\ native.state = interpreter.state /\ Near(native.memory, interpreter.memory)

\* The memory an instruction executes on.
ToldMemory == set_current_guest_cia(interpreter.memory, interpreter.state.cia)

LEMMA ToldCoreIs ==
  ASSUME NEW s, NEW m
  PROVE  ToldCore(Core(s, m, "none")) = Core(s, set_current_guest_cia(m, s.cia), "none")
<1>. DEFINE c == Core(s, m, "none")
<1>1. c.memory = m /\ c.state = s /\ \A k : [c EXCEPT !.memory = k] = Core(s, k, "none")
  BY CoreUpdates
<1>. HIDE DEF c
<1>. QED  BY <1>1, Zenon DEF ToldCore, c

LEMMA ResumedIs ==
  ASSUME NEW t, NEW m, NEW n, n.state = t, Near(n.memory, m), Told(t, m)
  PROVE  ToldCore(Resumed(n)) = Core(t, m, "none")
<1>1. Resumed(n) = Core(t, n.memory, "none")
  BY DEF Resumed, Core
<1>2. set_current_guest_cia(n.memory, t.cia) = m
  BY NearAnnounced DEF Told
<1>. QED  BY <1>1, <1>2, ToldCoreIs

LEMMA ToldFacts ==
  ASSUME Together, outcome = "none"
  PROVE  LET s == interpreter.state IN
         /\ ToldCore(interpreter) = Core(s, ToldMemory, "none")
         /\ Told(s, ToldMemory) /\ Stands(native, s, ToldMemory) /\ Here = s.cia
         /\ native.memory.watch = ToldMemory.watch /\ IsMachine(s) /\ IsMemory(ToldMemory)
         /\ ToldMemory.bytes = interpreter.memory.bytes
<1>. DEFINE s == interpreter.state
            k == interpreter.memory
            m == set_current_guest_cia(k, s.cia)
<1>1. Stands(native, s, k) /\ Here = s.cia /\ interpreter = Core(s, k, "none")
  BY Zenon DEF Together
<1>2. IsMachine(s) /\ IsMemory(k) /\ Near(native.memory, k)
  BY <1>1, StandsFacts DEF Stands
<1>3. Near(k, m)
  BY <1>2, AnnounceIs
<1>4. Told(s, m)
  BY <1>3, NearAnnounced DEF Told
<1>5. ToldCore(interpreter) = Core(s, m, "none")
  BY <1>1, ToldCoreIs
<1>6. Near(native.memory, m) /\ native.memory.watch = m.watch /\ m.bytes = k.bytes
  BY <1>2, <1>3, NearChain DEF Near
<1>7. Stands(native, s, m)
  BY <1>1, <1>6 DEF Stands
<1>. QED  BY <1>1, <1>2, <1>3, <1>4, <1>5, <1>6, <1>7, Zenon DEF Near, ToldMemory

\* The kinds of instructions and their names.
LEMMA OpKinds ==
  /\ MultipleOps = {"lmw", "stmw"} /\ StringOps = {"lswi", "lswx", "stswi", "stswx"}
  /\ "lmw" \notin StringOps \cup {"stmw"}
BY DEF MultipleOps, StringOps

\* The first part of a step: the interpreter's instruction and the native code agree.
LEMMA DoneAgrees ==
  ASSUME Together, Departures = {}, NEW op, NEW i, NEW d, NEW n, NEW a, Occurs(op, i, d, n, a)
  PROVE  LET s == interpreter.state
             m == ToldMemory
         IN  Agrees(s, m, d, n) \/ (op \in MultipleOps /\ AgreesInPart(d, n))
<1>. DEFINE s == interpreter.state
            m == ToldMemory
            c == Core(s, m, "none")
<1>1. /\ ToldCore(interpreter) = c /\ Told(s, m) /\ Stands(native, s, m) /\ Here = s.cia
      /\ native.memory.watch = m.watch
  BY ToldFacts, Zenon DEF Occurs
<1>2. IsInsn(i) /\ (op \in Updates => i.base # 0) /\ Done(op, i, d, n, a) /\ ~Departs(op, i, n)
  BY Zenon DEF Occurs, Performed
<1>. SUFFICES Agrees(s, m, d, n) \/ (op \in MultipleOps /\ AgreesInPart(d, n))
  OBVIOUS
<1>. HIDE DEF s, m
<1>3. CASE op \in LoadOps /\ d = ExecuteLoad(op, c, i) /\ n = EmittedLoad(op, native, i, s.cia)
  <2>. QED  BY <1>1, <1>2, <1>3, LoadAgrees, Zenon
<1>4. CASE op \in StoreOps /\ d = ExecuteStore(op, c, i) /\ n = EmittedStore(op, native, i, s.cia, block)
  <2>. QED  BY <1>1, <1>2, <1>4, IntegerStoreAgrees, Zenon
<1>5. CASE op \in MultipleOps \cup StringOps /\ d = ExecuteMany(op, c, i) /\ n = EmitMany(op, native, i, s.cia, block)
  <2>1. CASE op = "lmw"
    <3>1. d = lmw(c, i) /\ n = EmittedLoadMultiple(native, i, s.cia)
      BY <1>5, <2>1 DEF ExecuteMany, EmitMany
    <3>. QED  BY <1>1, <1>2, <2>1, <3>1, LoadMultipleAgrees, OpKinds, Zenon
  <2>2. CASE op = "stmw"
    <3>1. d = stmw(c, i) /\ n = EmittedStoreMultiple(native, i, s.cia, block)
      BY <1>5, <2>2 DEF ExecuteMany, EmitMany
    <3>. QED  BY <1>1, <1>2, <2>2, <3>1, StoreMultipleAgrees, OpKinds, Zenon
  <2>3. CASE op \in {"lswi", "lswx"}
    <3>1. n = EmittedLoadString(op, native, i, s.cia)
      BY <1>5, <2>3 DEF EmitMany
    <3>. QED  BY <1>1, <1>2, <1>5, <2>3, <3>1, LoadStringAgrees, Zenon
  <2>4. CASE op \in {"stswi", "stswx"}
    <3>1. n = EmittedStoreString(op, native, i, s.cia, block)
      BY <1>5, <2>4 DEF EmitMany
    <3>2. m.watch = {}
      BY <1>1, <1>2, <2>4 DEF Departs
    <3>. QED  BY <1>1, <1>2, <1>5, <2>4, <3>1, <3>2, StoreStringAgrees, Zenon
  <2>. QED  BY <1>5, <2>1, <2>2, <2>3, <2>4, OpKinds
<1>6. CASE op \in FloatOps /\ d = ExecuteFloat(op, c, i) /\ n = EmitFloat(op, native, i, s.cia, block)
  <2>1. CASE op \in ScalarFloatOps
    BY <1>1, <1>2, <1>6, <2>1, ScalarFloatAgrees, Zenon
  <2>2. CASE op \in PairLoads \cup PairStores
    <3>1. op \in PairStores /\ n.exit = "left" => n.dirty = {}
      BY <1>2 DEF Departs
    <3>. QED  BY <1>1, <1>2, <1>6, <2>2, <3>1, PairAgrees, Zenon
  <2>. QED  BY <1>6, <2>1, <2>2 DEF FloatOps
<1>7. CASE op \in OtherOps /\ d = ExecuteOther(op, c, i) /\ n = EmitOther(op, native, i, s.cia, block)
  <2>1. op = "dcbz" => m.watch = {} \/ native.dirty = {}
    BY <1>1, <1>2 DEF Departs
  <2>. QED  BY <1>1, <1>2, <1>7, <2>1, OtherAgrees, Zenon
<1>8. \/ op \in LoadOps /\ d = ExecuteLoad(op, c, i) /\ n = EmittedLoad(op, native, i, s.cia)
      \/ op \in StoreOps /\ d = ExecuteStore(op, c, i) /\ n = EmittedStore(op, native, i, s.cia, block)
      \/ op \in MultipleOps \cup StringOps /\ d = ExecuteMany(op, c, i) /\ n = EmitMany(op, native, i, s.cia, block)
      \/ op \in FloatOps /\ d = ExecuteFloat(op, c, i) /\ n = EmitFloat(op, native, i, s.cia, block)
      \/ op \in OtherOps /\ d = ExecuteOther(op, c, i) /\ n = EmitOther(op, native, i, s.cia, block)
  <2>. HIDE DEF c
  <2>. QED  BY <1>1, <1>2, Zenon DEF Done
<1>. QED  BY <1>3, <1>4, <1>5, <1>6, <1>7, <1>8, Zenon

\* The second part: the interpreter stops at the same instruction when it repeats it, from
\* what the native code left.
LEMMA RepeatedStops ==
  ASSUME Together, Departures = {}, NEW op, NEW i, NEW d, NEW n, NEW a, Occurs(op, i, d, n, a),
         n.exit \in {"fault", "unsupported"}
  PROVE  a = d \/ (op \in StringOps \cup {"stmw"} /\ n.exit = "fault")
<1>. DEFINE s == interpreter.state
            m == ToldMemory
            c == Core(s, m, "none")
            r == ToldCore(Resumed(n))
<1>1. ToldCore(interpreter) = c /\ Told(s, m) /\ IsMachine(s) /\ IsMemory(m)
  BY ToldFacts, Zenon DEF Occurs
<1>2. IsInsn(i) /\ Done(op, i, d, n, a) /\ ~Departs(op, i, n)
  BY Zenon DEF Occurs, Performed
<1>3. Agrees(s, m, d, n) \/ (op \in MultipleOps /\ AgreesInPart(d, n))
  BY DoneAgrees
<1>4. CASE Agrees(s, m, d, n)
  <2>1. n.state = s /\ Near(n.memory, m)
    BY <1>4 DEF Agrees, Stands
  <2>2. r = c
    BY <1>1, <2>1, ResumedIs
  <2>. HIDE DEF s, m, c, r
  <2>3. a = d
    BY <1>1, <1>2, <2>2 DEF Done, r
  <2>. QED  BY <2>3
<1>5. CASE op = "lmw" /\ AgreesInPart(d, n)
  <2>1. i.base = 0 \/ i.base < i.destination
    <3>1. ~(i.base # 0 /\ i.base >= i.destination)
      BY <1>2, <1>5 DEF Departs, AgreesInPart
    <3>. QED  BY <1>2, <3>1, LaneValuesAssumption DEF IsInsn, Gprs
  <2>2. "lmw" \notin LoadOps /\ "lmw" \notin StoreOps /\ "lmw" \notin FloatOps /\ "lmw" \notin OtherOps
    BY DEF LoadOps, StoreOps, FloatOps, ScalarFloatOps, PairLoads, PairStores, OtherOps, CacheOps
  <2>3. d = ExecuteMany("lmw", c, i) /\ a = ExecuteMany("lmw", r, i)
    <3>. HIDE DEF c, r
    <3>. QED  BY <1>1, <1>2, <1>5, <2>2, Zenon DEF Done, r
  <2>4. d = lmw(c, i) /\ a = lmw(r, i)
    <3>. HIDE DEF c, r
    <3>. QED  BY <2>3 DEF ExecuteMany
  <2>5. lmw(Core(d.state, m, "none"), i) = d /\ d.memory = m /\ d.state.cia = s.cia
    BY <1>1, <1>2, <2>1, <2>4, LoadMultipleAgain
  <2>6. n.state = d.state /\ Near(n.memory, m) /\ Told(d.state, m)
    BY <1>1, <1>5, <2>5 DEF AgreesInPart, Told
  <2>7. r = Core(d.state, m, "none")
    BY <2>6, ResumedIs
  <2>. QED  BY <2>4, <2>5, <2>7
<1>6. CASE op = "stmw" /\ AgreesInPart(d, n)
  BY <1>6 DEF AgreesInPart
<1>. QED  BY <1>3, <1>4, <1>5, <1>6, OpKinds
\* ---- A step keeps them together ------------------------------------------------------

\* The address of the instruction after it.
After(t) == At(t, Unsigned(t.cia + 4))

LEMMA AfterIs ==
  ASSUME NEW t, IsMachine(t)
  PROVE  FellThrough(t) = After(t) /\ IsMachine(After(t)) /\ After(t).cia = Unsigned(t.cia + 4)
<1>1. FellThrough(t) = After(t)
  BY Zenon DEF FellThrough, Fallthrough, After, At
<1>2. t.cia + 4 \in Int
  BY MachineTypes DEF Words
<1>3. Unsigned(t.cia + 4) \in Words
  BY <1>2, UnsignedOf
<1>. QED  BY <1>1, <1>3, AddressUpdate DEF After

LEMMA CompletedIs ==
  ASSUME NEW t, IsMachine(t), NEW m, NEW x
  PROVE  Completed(Core(t, m, x)) = IF x = "none" THEN Core(After(t), m, "none") ELSE Core(t, m, x)
<1>. DEFINE c == Core(t, m, x)
<1>1. c.stop = x /\ c.state = t /\ \A u : [c EXCEPT !.state = u] = Core(u, m, x)
  BY CoreUpdates
<1>2. FellThrough(t) = After(t)
  BY AfterIs
<1>. HIDE DEF c
<1>3. Completed(c) = IF x = "none" THEN Core(After(t), m, "none") ELSE c
  BY <1>1, <1>2, Zenon DEF Completed
<1>. QED  BY <1>3 DEF c

\* A block begins with nothing in host registers.
LEMMA BeginStands ==
  ASSUME NEW t, IsMachine(t), NEW k, NEW m, Near(k, m)
  PROVE  Stands(Begin(t, k), t, m)
<1>. DEFINE n == Begin(t, k)
<1>1. n = NativeOf(t, NoHost, {}, k, "no") /\ n.state = t /\ n.host = NoHost /\ n.dirty = {} /\ n.memory = k
      /\ n.exit = "no"
  BY DEF Begin, NativeOf
<1>2. DOMAIN NoHost = {} /\ NoHost \in [{} -> Words]
  BY DEF NoHost
<1>3. IsNative(n)
  <2>. HIDE DEF n
  <2>. QED  BY <1>1, <1>2 DEF IsNative, NativeOf, Near
<1>4. Guests(n) = t.gpr
  <2>1. t.gpr \in [Gprs -> Words]
    BY MachineTypes
  <2>2. \A r \in Gprs : Guest(n, r) = t.gpr[r]
    <3>. HIDE DEF n
    <3>. QED  BY <1>1, <1>2 DEF Guest
  <2>. HIDE DEF n
  <2>. QED  BY <2>1, <2>2 DEF Guests
<1>5. View(n, t.cia) = t
  <2>1. WithGprs(t, t.gpr) = t /\ At(t, t.cia) = t
    BY UpdatesCommute
  <2>. HIDE DEF n
  <2>. QED  BY <1>1, <1>4, <2>1 DEF View
<1>. HIDE DEF n
<1>6. Stands(n, t, m)
  BY <1>1, <1>3, <1>5 DEF Stands
<1>. QED  BY <1>6 DEF n

\* The end of a block writes every register back.
LEMMA EndBlockIs ==
  ASSUME NEW n, IsNative(n), NEW a \in Words, NEW op, op \notin {"b", "bc", "bclr", "bcctr"}
  PROVE  EndBlock(n, op, a).state = View(n, a) /\ EndBlock(n, op, a).memory = n.memory
<1>. DEFINE k == [n EXCEPT !.state = At(n.state, a)]
<1>1. n.state \in {n.state} /\ IsMachine(n.state)
  BY NativeFields
<1>2. IsMachine(At(n.state, a)) /\ At(n.state, a).gpr = n.state.gpr
  BY <1>1, AddressUpdate
<1>3. IsNative(k) /\ k.state = At(n.state, a) /\ k.memory = n.memory /\ Guests(k) = Guests(n)
  BY <1>2, StateUpdate
<1>4. flush_guest_gprs(k).state = WithGprs(k.state, Guests(k)) /\ flush_guest_gprs(k).memory = k.memory
  <2>. HIDE DEF k
  <2>. QED  BY <1>3, FlushIs
<1>5. WithGprs(At(n.state, a), Guests(n)) = View(n, a)
  <2>. DEFINE s == n.state
  <2>. HIDE DEF s
  <2>1. \A b, g : At(WithGprs(s, g), b) = WithGprs(At(s, b), g)
    BY <1>1, UpdatesCommute DEF s
  <2>. QED  BY <2>1, Zenon DEF View, s
<1>6. [n EXCEPT !.state.cia = a] = k
  BY Zenon DEF At
<1>7. EndBlock(n, op, a) = flush_guest_gprs(k)
  <2>. HIDE DEF k
  <2>. QED  BY <1>6, Zenon DEF EndBlock
<1>. HIDE DEF k
<1>. QED  BY <1>3, <1>4, <1>5, <1>7, Zenon

\* The address of the next instruction of a block, modulo the address space.
LEMMA NextHere ==
  ASSUME NEW b \in Nat, NEW k \in Nat
  PROVE  Unsigned(b + 4 * (k + 1)) = Unsigned(Unsigned(b + 4 * k) + 4)
<1>1. b + 4 * (k + 1) = (b + 4 * k) + 4 /\ b + 4 * k \in Int
  OBVIOUS
<1>. QED  BY <1>1, UnsignedSum
\* Together, after an instruction of a run that goes on.
LEMMA TogetherGoing ==
  ASSUME program' \in DOMAIN Programs, BlockOk', NEW t, NEW m, interpreter' = Core(t, m, "none"),
         outcome' = "none", Here' = t.cia, Stands(native', t, m)
  PROVE  Together'
<1>1. interpreter'.state = t /\ interpreter'.memory = m /\ interpreter'.stop = "none"
  BY CoreUpdates
<1>. QED  BY <1>1 DEF Together

\* A new block begins where the machine is.
LEMMA EntersBlock ==
  ASSUME program \in DOMAIN Programs, program' = program, NEW n, NEW t, n.state = t, IsMachine(t), Enters(n)
  PROVE  BlockOk' /\ Here' = t.cia /\ native' = Begin(t, n.memory) /\ outcome' = outcome
<1>1. block' \in BlocksAt(t.cia) /\ index' = 0 /\ native' = Begin(t, n.memory) /\ outcome' = outcome
  BY DEF Enters
<1>2. PICK k \in Programs[program].sizes : block' = [start |-> t.cia, size |-> k]
  BY <1>1 DEF BlocksAt
<1>3. k \in Nat /\ k > 0
  BY MemoryEnginesAssumption
<1>4. t.cia \in Words
  BY MachineTypes
<1>5. BlockOk'
  BY <1>1, <1>2, <1>3, <1>4 DEF BlockOk
<1>6. t.cia \in Int /\ 0 <= t.cia /\ t.cia < Modulus /\ t.cia + 4 * 0 = t.cia
  BY <1>4, WordSizes, WordRange, SMTT(30)
<1>7. Unsigned(t.cia) = t.cia
  BY <1>6, UnsignedNear
<1>8. Here' = Unsigned(t.cia + 4 * 0)
  BY <1>1, <1>2 DEF Here
<1>. QED  BY <1>1, <1>5, <1>6, <1>7, <1>8

\* Where neither stopped, both are at the next instruction.
LEMMA GoesOn ==
  ASSUME Together, NEW op, op \notin {"b", "bc", "bclr", "bcctr"}, NEW i, NEW d, NEW n, NEW a,
         Occurs(op, i, d, n, a), d = Core(d.state, d.memory, "none"), d.state.cia = interpreter.state.cia,
         \/ Stands(n, d.state, d.memory)
         \/ /\ n.exit = "left" /\ IsNative(n) /\ IsMachine(d.state)
            /\ n.state = After(d.state) /\ Near(n.memory, d.memory)
  PROVE  Together' /\ interpreter' = Core(After(d.state), d.memory, "none")
<1>. DEFINE t == After(d.state)
            w == Unsigned(Here + 4)
<1>1. Here = d.state.cia /\ outcome = "none" /\ BlockOk /\ program \in DOMAIN Programs
  BY Zenon DEF Together, Occurs
<1>2. Finished(op, n, a) /\ interpreter' = Completed(d) /\ program' = program
  BY Zenon DEF Occurs, Performed
<1>3. IsMachine(d.state)
  BY StandsFacts
<1>4. IsMachine(t) /\ t.cia = w /\ t = At(d.state, w) /\ w \in Words /\ d.state.cia \in Words
  BY <1>1, <1>3, AfterIs, MachineTypes DEF After
<1>5. interpreter' = Core(t, d.memory, "none")
  BY <1>2, <1>3, CompletedIs
<1>. HIDE DEF t, w
<1>6. CASE Stands(n, d.state, d.memory)
  <2>1. n.exit = "no" /\ IsNative(n) /\ View(n, w) = t /\ Near(n.memory, d.memory)
    BY <1>4, <1>6, StandsFacts DEF Stands
  <2>2. CASE index + 1 < block.size /\ native' = n /\ index' = index + 1 /\ UNCHANGED <<block, outcome>>
    <3>1. BlockOk'
      BY <1>1, <2>2 DEF BlockOk
    <3>2. Here' = Unsigned(block.start + 4 * (index + 1))
      BY <2>2 DEF Here
    <3>3. block.start \in Nat /\ index \in Nat
      BY <1>1 DEF BlockOk, Words
    <3>4. Here' = t.cia
      <4>1. Unsigned(block.start + 4 * (index + 1)) = Unsigned(Unsigned(block.start + 4 * index) + 4)
        BY <3>3, NextHere
      <4>. QED  BY <1>4, <3>2, <4>1 DEF Here, w
    <3>5. Stands(native', t, d.memory)
      BY <1>4, <2>1, <2>2 DEF Stands
    <3>6. Together'
      BY <1>1, <1>2, <1>5, <2>2, <3>1, <3>4, <3>5, TogetherGoing
    <3>. QED  BY <1>5, <3>6 DEF t
  <2>3. CASE Enters(EndBlock(n, op, Next4(Here)))
    <3>. DEFINE e == EndBlock(n, op, Next4(Here))
    <3>1. Next4(Here) = w
      BY DEF Next4, w
    <3>2. e.state = t /\ e.memory = n.memory
      BY <1>4, <2>1, <3>1, EndBlockIs
    <3>. HIDE DEF e
    <3>3. Enters(e)
      BY <2>3 DEF e
    <3>4. BlockOk' /\ Here' = t.cia /\ native' = Begin(t, n.memory) /\ outcome' = "none"
      BY <1>1, <1>2, <1>4, <3>2, <3>3, EntersBlock
    <3>5. Stands(native', t, d.memory)
      BY <1>4, <2>1, <3>4, BeginStands
    <3>6. Together'
      BY <1>1, <1>2, <1>5, <3>4, <3>5, TogetherGoing
    <3>. QED  BY <1>5, <3>6 DEF t
  <2>. QED  BY <1>2, <2>1, <2>2, <2>3 DEF Finished
<1>7. CASE n.exit = "left" /\ n.state = t /\ Near(n.memory, d.memory)
  <2>1. Enters(n)
    BY <1>2, <1>7 DEF Finished
  <2>2. BlockOk' /\ Here' = t.cia /\ native' = Begin(t, n.memory) /\ outcome' = "none"
    BY <1>1, <1>2, <1>4, <1>7, <2>1, EntersBlock
  <2>3. Stands(native', t, d.memory)
    BY <1>4, <1>7, <2>2, BeginStands
  <2>4. Together'
    BY <1>1, <1>2, <1>5, <2>2, <2>3, TogetherGoing
  <2>. QED  BY <1>5, <2>4 DEF t
<1>. QED  BY <1>6, <1>7 DEF t

\* Where they stop, they stop for the same reason, with the same machine and memory.
LEMMA Stops ==
  ASSUME Together, NEW op, NEW i, NEW d, NEW n, NEW a, Occurs(op, i, d, n, a),
         d = Core(d.state, d.memory, n.exit), n.exit \in {"fault", "unsupported"},
         n.state = d.state, Near(n.memory, d.memory),
         a = d \/ (op \in StringOps \cup {"stmw"} /\ n.exit = "fault")
  PROVE  /\ Together' /\ interpreter' = d /\ outcome' = n.exit
         /\ native'.state = d.state /\ Near(native'.memory, d.memory)
<1>1. BlockOk /\ program \in DOMAIN Programs
  BY Zenon DEF Together
<1>2. Recovered(op, n, a) /\ UNCHANGED <<block, index>> /\ interpreter' = Completed(d) /\ program' = program
  BY Zenon DEF Occurs, Performed, Finished
<1>3. d.stop = n.exit
  BY CoreUpdates
<1>4. Completed(d) = d
  BY <1>3 DEF Completed
<1>5. native'.state = d.state /\ Near(native'.memory, d.memory) /\ outcome' = n.exit
  <2>1. CASE n.exit = "fault" /\ op \in StringOps \cup {"stmw"}
    BY <1>2, <2>1, Zenon DEF Recovered
  <2>2. CASE ~(n.exit = "fault" /\ op \in StringOps \cup {"stmw"})
    <3>1. native' = [Begin(d.state, d.memory) EXCEPT !.exit = n.exit] /\ outcome' = n.exit
      BY <1>2, <1>3, <1>4, <2>2 DEF Recovered
    <3>2. native'.state = d.state /\ native'.memory = d.memory
      BY <3>1 DEF Begin
    <3>3. Near(d.memory, d.memory)
      BY NearSame DEF Near
    <3>. QED  BY <3>1, <3>2, <3>3
  <2>. QED  BY <2>1, <2>2
<1>6. BlockOk'
  BY <1>1, <1>2 DEF BlockOk
<1>7. Together'
  BY <1>1, <1>2, <1>3, <1>4, <1>5, <1>6 DEF Together
<1>. QED  BY <1>2, <1>4, <1>5, <1>7

\* No operation is a branch.
LEMMA NoBranches ==
  ASSUME NEW op, NEW i, NEW d, NEW n, NEW a, Done(op, i, d, n, a)
  PROVE  op \notin {"b", "bc", "bclr", "bcctr"}
<1>1. op \in LoadOps \cup StoreOps \cup MultipleOps \cup StringOps \cup FloatOps \cup OtherOps
  BY Zenon DEF Done
<1>. QED  BY <1>1 DEF LoadOps, StoreOps, MultipleOps, StringOps, FloatOps, ScalarFloatOps, PairLoads, PairStores,
                      OtherOps, CacheOps

\* A step of an instruction: what both engines are left with.
LEMMA StepKeeps ==
  ASSUME Together, Departures = {}, NEW op, NEW i, NEW d, NEW n, NEW a, Occurs(op, i, d, n, a)
  PROVE  LET s == interpreter.state
             m == ToldMemory
         IN  /\ Together'
             /\ d = Core(d.state, d.memory, d.stop)
             /\ d.stop = "none" => interpreter' = Core(After(d.state), d.memory, "none")
             /\ d.stop # "none" => /\ interpreter' = d /\ outcome' # "none"
                                   /\ native'.state = d.state /\ Near(native'.memory, d.memory)
             /\ d.stop # "none" /\ op \notin MultipleOps => d.state = s /\ d.memory = m
<1>. DEFINE s == interpreter.state
            m == ToldMemory
<1>1. Agrees(s, m, d, n) \/ (op \in MultipleOps /\ AgreesInPart(d, n))
  BY DoneAgrees
<1>2. n.exit \in {"fault", "unsupported"} => a = d \/ (op \in StringOps \cup {"stmw"} /\ n.exit = "fault")
  BY RepeatedStops
<1>3. op \notin {"b", "bc", "bclr", "bcctr"}
  BY NoBranches, Zenon DEF Occurs
<1>. SUFFICES /\ Together'
              /\ d = Core(d.state, d.memory, d.stop)
              /\ d.stop = "none" => interpreter' = Core(After(d.state), d.memory, "none")
              /\ d.stop # "none" => /\ interpreter' = d /\ outcome' # "none"
                                    /\ native'.state = d.state /\ Near(native'.memory, d.memory)
              /\ d.stop # "none" /\ op \notin MultipleOps => d.state = s /\ d.memory = m
  OBVIOUS
<1>4. CASE /\ d = Core(d.state, d.memory, d.stop) /\ d.state.cia = s.cia /\ d.stop = "none"
           /\ \/ Stands(n, d.state, d.memory)
              \/ /\ n.exit = "left" /\ IsNative(n) /\ IsMachine(d.state)
                 /\ n.state = FellThrough(d.state) /\ Near(n.memory, d.memory)
  <2>1. IsMachine(d.state) => FellThrough(d.state) = After(d.state)
    BY AfterIs
  <2>2. Together' /\ interpreter' = Core(After(d.state), d.memory, "none")
    BY <1>3, <1>4, <2>1, GoesOn
  <2>. HIDE DEF s, m
  <2>. QED  BY <1>4, <2>2
<1>5. CASE /\ d = Core(d.state, d.memory, d.stop) /\ d.state.cia = s.cia
           /\ d.stop \in {"fault", "unsupported"} /\ d.state = s /\ d.memory = m
           /\ n.exit = d.stop /\ n.state = s /\ Near(n.memory, m)
  <2>1. /\ Together' /\ interpreter' = d /\ outcome' = n.exit
        /\ native'.state = d.state /\ Near(native'.memory, d.memory)
    BY <1>2, <1>5, Stops
  <2>. HIDE DEF s, m
  <2>. QED  BY <1>5, <2>1
<1>6. CASE op \in MultipleOps /\ AgreesInPart(d, n)
  <2>1. d = Core(d.state, d.memory, "fault") /\ n.exit = "fault" /\ n.state = d.state /\ Near(n.memory, d.memory)
    BY <1>6, Zenon DEF AgreesInPart
  <2>2. d.stop = "fault"
    BY <2>1, CoreUpdates
  <2>3. /\ Together' /\ interpreter' = d /\ outcome' = n.exit
        /\ native'.state = d.state /\ Near(native'.memory, d.memory)
    BY <1>2, <2>1, Stops
  <2>. HIDE DEF s, m
  <2>. QED  BY <1>6, <2>1, <2>2, <2>3
<1>. QED  BY <1>1, <1>4, <1>5, <1>6 DEF Agrees
\* ---- Reservations -----------------------------------------------------------------------

\* The core d has the reservation of c.
HasLink(c) ==
  /\ {"state", "memory", "stop"} \subseteq DOMAIN c
  /\ {"reservation_valid", "reservation_address", "gpr", "fpr", "ps1"} \subseteq DOMAIN c.state
SameLink(c, d) ==
  /\ HasLink(d)
  /\ d.state.reservation_valid = c.state.reservation_valid
  /\ d.state.reservation_address = c.state.reservation_address

LEMMA CoreHasLink ==
  ASSUME NEW s, IsMachine(s), NEW m, NEW x
  PROVE  HasLink(Core(s, m, x)) /\ SameLink(Core(s, m, x), Core(s, m, x))
<1>1. {"reservation_valid", "reservation_address", "gpr", "fpr", "ps1"} \subseteq DOMAIN s
  <2>1. s = [gpr |-> s.gpr, xer |-> s.xer, cr |-> s.cr, lr |-> s.lr, ctr |-> s.ctr, cia |-> s.cia,
                 fpr |-> s.fpr, ps1 |-> s.ps1, gqr |-> s.gqr,
                 reservation_valid |-> s.reservation_valid, reservation_address |-> s.reservation_address]
    BY MachineTypes
  <2>. QED  BY <2>1
<1>. QED  BY <1>1 DEF HasLink, SameLink, Core

\* What stores, faults and registers of other kinds leave of it.
LEMMA LinkRules ==
  ASSUME NEW c, NEW d, SameLink(c, d)
  PROVE  /\ \A k : SameLink(c, [d EXCEPT !.memory = k])
         /\ SameLink(c, Fault(d)) /\ SameLink(c, Unsupported(d))
         /\ \A g : SameLink(c, [d EXCEPT !.state.gpr = g])
         /\ \A r, v : SameLink(c, [d EXCEPT !.state.gpr[r] = v])
         /\ \A r, v : SameLink(c, SetFirst(d, r, v))
         /\ \A r, v, w : SameLink(c, SetPair(d, r, v, w))
<1>1. \A k : SameLink(c, [d EXCEPT !.memory = k])
  BY DEF SameLink, HasLink
<1>2. SameLink(c, Fault(d)) /\ SameLink(c, Unsupported(d))
  BY DEF SameLink, HasLink, Fault, Unsupported
<1>3. \A g : SameLink(c, [d EXCEPT !.state.gpr = g])
  BY DEF SameLink, HasLink
<1>4. \A r, v : SameLink(c, [d EXCEPT !.state.gpr[r] = v])
  BY DEF SameLink, HasLink
<1>5. \A r, v : SameLink(c, SetFirst(d, r, v))
  BY ZenonT(30) DEF SameLink, HasLink, SetFirst
<1>6. \A r, v, w : SameLink(c, SetPair(d, r, v, w))
  BY ZenonT(30) DEF SameLink, HasLink, SetPair
<1>. QED  BY <1>1, <1>2, <1>3, <1>4, <1>5, <1>6

LEMMA AccessesKeepLink ==
  ASSUME NEW c, NEW d, SameLink(c, d)
  PROVE  /\ \A b, i, a : SameLink(c, UpdateBase(b, d, i, a))
         /\ \A op, b, i, a : SameLink(c, Updating(op, b, d, i, a)) /\ SameLink(c, Based(op, b, d, i, a))
         /\ \A a, w, v : SameLink(c, Store(d, a, w, v))
         /\ \A i, a, w, v : SameLink(c, PlainLoad(d, i, a, w, v))
         /\ \A i, a, n : SameLink(c, LoadString(d, i, a, n)) /\ SameLink(c, StoreString(d, i, a, n))
<1>1. \A b, i, a : SameLink(c, UpdateBase(b, d, i, a))
  BY LinkRules, Zenon DEF UpdateBase
<1>2. \A op, b, i, a : SameLink(c, Updating(op, b, d, i, a)) /\ SameLink(c, Based(op, b, d, i, a))
  BY <1>1, Zenon DEF Updating, Based
<1>3. \A a, w, v : SameLink(c, Store(d, a, w, v))
  BY LinkRules, Zenon DEF Store
<1>4. \A i, a, w, v : SameLink(c, PlainLoad(d, i, a, w, v))
  BY LinkRules, Zenon DEF PlainLoad
<1>5. \A i, a, n : SameLink(c, LoadString(d, i, a, n))
  BY LinkRules, Zenon DEF LoadString
<1>6. \A i, a, n : SameLink(c, StoreString(d, i, a, n))
  BY LinkRules, Zenon DEF StoreString
<1>. QED  BY <1>1, <1>2, <1>3, <1>4, <1>5, <1>6

LEMMA ManyKeepLink ==
  ASSUME NEW c, HasLink(c), NEW op \in MultipleOps \cup StringOps, NEW i
  PROVE  SameLink(c, ExecuteMany(op, c, i))
<1>1. SameLink(c, c)
  BY DEF SameLink
<1>2. SameLink(c, lmw(c, i))
  BY <1>1, LinkRules, Zenon DEF lmw
<1>3. SameLink(c, stmw(c, i))
  BY <1>1, LinkRules, Zenon DEF stmw
<1>4. SameLink(c, lswi(c, i)) /\ SameLink(c, lswx(c, i)) /\ SameLink(c, stswi(c, i)) /\ SameLink(c, stswx(c, i))
  BY <1>1, AccessesKeepLink, Zenon DEF lswi, lswx, stswi, stswx
<1>. QED  BY <1>2, <1>3, <1>4 DEF ExecuteMany, MultipleOps, StringOps

LEMMA FloatsKeepLink ==
  ASSUME NEW c, HasLink(c), NEW op \in FloatOps, NEW i
  PROVE  SameLink(c, ExecuteFloat(op, c, i))
<1>1. SameLink(c, c)
  BY DEF SameLink
<1>2. SameLink(c, lfs(op, c, i))
  BY <1>1, LinkRules, AccessesKeepLink, Zenon DEF lfs, SetPair
<1>3. SameLink(c, lfd(op, c, i))
  BY <1>1, LinkRules, AccessesKeepLink, Zenon DEF lfd, SetFirst
<1>4. SameLink(c, stfs(op, c, i)) /\ SameLink(c, stfd(op, c, i))
  BY <1>1, AccessesKeepLink, Zenon DEF stfs, stfd
<1>5. SameLink(c, psq_l(op, c, i))
  BY <1>1, LinkRules, AccessesKeepLink, Zenon DEF psq_l, SetPair
<1>6. SameLink(c, psq_st(op, c, i))
  <2>1. \A a, w, v : SameLink(c, Store(c, a, w, v))
    BY <1>1, AccessesKeepLink
  <2>2. \A a, w, v, x, y, z : SameLink(c, Store(Store(c, a, w, v), x, y, z))
    BY <2>1, AccessesKeepLink
  <2>3. \A a : /\ \A x, w, v : SameLink(c, Updating(op, c, Store(c, x, w, v), i, a))
               /\ \A x, w, v, y, z, u : SameLink(c, Updating(op, c, Store(Store(c, x, w, v), y, z, u), i, a))
    BY <2>1, <2>2, AccessesKeepLink
  <2>. QED  BY <1>1, <2>3, LinkRules, Zenon DEF psq_st
<1>. QED  BY <1>2, <1>3, <1>4, <1>5, <1>6 DEF ExecuteFloat, FloatOps, ScalarFloatOps, PairLoads, PairStores

LEMMA OthersKeepLink ==
  ASSUME NEW c, HasLink(c), NEW op \in OtherOps \ {"lwarx", "stwcx"}, NEW i
  PROVE  SameLink(c, ExecuteOther(op, c, i))
<1>1. SameLink(c, c)
  BY DEF SameLink
<1>2. SameLink(c, dcbz(c, i)) /\ SameLink(c, dcbst(c, i))
  BY <1>1, LinkRules, Zenon DEF dcbz, dcbst
<1>3. SameLink(c, [c EXCEPT !.state = addi(@, i)])
  BY <1>1 DEF SameLink, HasLink, addi, Put
<1>. QED  BY <1>1, <1>2, <1>3 DEF ExecuteOther, OtherOps, CacheOps

LEMMA ScalarsKeepLink ==
  ASSUME NEW c, HasLink(c), NEW op, NEW i
  PROVE  /\ op \in LoadOps => SameLink(c, ExecuteLoad(op, c, i))
         /\ op \in StoreOps => SameLink(c, ExecuteStore(op, c, i))
<1>1. SameLink(c, c)
  BY DEF SameLink
<1>2. \A a, w, v, x : SameLink(c, Based(op, c, PlainLoad(c, i, a, w, v), i, x))
  BY <1>1, AccessesKeepLink
<1>3. \A a, w, v, x : SameLink(c, Based(op, c, Store(c, a, w, v), i, x))
  BY <1>1, AccessesKeepLink
<1>4. op \in LoadOps => SameLink(c, ExecuteLoad(op, c, i))
  BY <1>2, LoadShape, Zenon
<1>5. op \in StoreOps => SameLink(c, ExecuteStore(op, c, i))
  BY <1>3, StoreShape, Zenon
<1>. QED  BY <1>4, <1>5
\* What lwarx and stwcx. do with it.
LEMMA ReservesIs ==
  ASSUME NEW c, HasLink(c), c.stop = "none", NEW i, lwarx(c, i).stop = "none"
  PROVE  lwarx(c, i).state.reservation_address = resolve_alias_address(IndexedAddress(c, i))
BY DEF lwarx, HasLink, Fault

LEMMA EqualBits ==
  EQ(0) \in FieldBits(0) /\ EQ(0) # UN(0)
<1>1. SignBit \in Nat
  BY WordSizes DEF SignBit
<1>. QED  BY <1>1 DEF EQ, UN, FieldBits, PpcBit

\* The reservation is given up, and a store that is reported had it.
GaveUp(s, at, t) ==
  /\ ~t.reservation_valid
  /\ EQ(0) \in t.cr => s.reservation_valid /\ s.reservation_address = at

LEMMA ConditionalIs ==
  ASSUME NEW s, IsMachine(s), NEW m, NEW i, stwcx(Core(s, m, "none"), i).stop = "none"
  PROVE  GaveUp(s, resolve_alias_address(IndexedAddress(Core(s, m, "none"), i)), stwcx(Core(s, m, "none"), i).state)
<1>. DEFINE c == Core(s, m, "none")
            success == Reserved(c.state, IndexedAddress(c, i))
            stored == IF success THEN Store(c, IndexedAddress(c, i), 4, Gpr(c, i.destination)) ELSE c
            d == stwcx(c, i)
<1>1. c.state = s /\ c.stop = "none"
  BY CoreUpdates
<1>2. success \in BOOLEAN
  BY MachineTypes, <1>1 DEF Reserved
<1>3. d.stop = "none" => d = CoreCond(stored, success)
  <2>1. d = IF IndexedAddress(c, i) % 4 # 0 \/ stored.stop # "none" THEN Fault(c)
            ELSE CoreCond(stored, success)
    BY Zenon DEF stwcx, CoreCond
  <2>2. Fault(c).stop = "fault"
    BY CoreUpdates
  <2>. HIDE DEF c, success, stored, d
  <2>. QED  BY <2>1, <2>2
<1>4. stored.stop = "none" => \E k : stored = Core(s, k, "none")
  <2>1. \A a, w, v : Store(c, a, w, v) = IF Accessible(a, w) THEN Core(s, WriteValue(m, s.gpr, a, w, v), "none")
                                          ELSE Core(s, m, "fault")
    BY StoreIs
  <2>2. Core(s, m, "fault").stop = "fault"
    BY CoreUpdates
  <2>3. CASE success
    <3>1. stored = Store(c, IndexedAddress(c, i), 4, Gpr(c, i.destination))
      BY <2>3
    <3>. HIDE DEF stored, success
    <3>. QED  BY <2>1, <2>2, <3>1
  <2>4. CASE ~success
    <3>1. stored = Core(s, m, "none")
      BY <2>4
    <3>. HIDE DEF stored, success
    <3>. QED  BY <3>1
  <2>. HIDE DEF stored, success
  <2>. QED  BY <2>3, <2>4
<1>5. PICK k : stored = Core(s, k, "none")
  <2>1. stored.stop = "none"
    <3>1. d = IF IndexedAddress(c, i) % 4 # 0 \/ stored.stop # "none" THEN Fault(c)
              ELSE CoreCond(stored, success)
      BY Zenon DEF stwcx, CoreCond
    <3>2. Fault(c).stop = "fault" /\ d.stop = "none"
      BY CoreUpdates
    <3>. HIDE DEF c, success, stored, d
    <3>. QED  BY <3>1, <3>2
  <2>. HIDE DEF stored
  <2>. QED  BY <2>1, <1>4
<1>6. d = Core(Conditioned(s, success), k, "none")
  <2>1. d.stop = "none"
    OBVIOUS
  <2>2. \A b \in BOOLEAN : CoreCond(Core(s, k, "none"), b) = Core(Conditioned(s, b), k, "none")
    BY CoreCondIs
  <2>. HIDE DEF stored, success, d
  <2>. QED  BY <1>2, <1>3, <1>5, <2>1, <2>2, Zenon
<1>7. d.state = Conditioned(s, success)
  <2>. HIDE DEF stored, success, d
  <2>. QED  BY <1>6, CoreUpdates
<1>8. \A b \in BOOLEAN : LET t == Conditioned(s, b) IN
        ~t.reservation_valid /\ t.cr = CondBits(s.cr, b, s.xer)
  <2>1. s.reservation_address \in Words /\ s.cr \in SUBSET BitIndex /\ FALSE \in BOOLEAN
    BY MachineTypes
  <2>. DEFINE l == WithLink(s, FALSE, s.reservation_address)
  <2>2. IsMachine(l) /\ ~l.reservation_valid /\ l.cr = s.cr
    BY <2>1, LinkUpdate
  <2>3. \A b \in BOOLEAN : CondBits(s.cr, b, s.xer) \in SUBSET BitIndex
    BY <2>1, CondBitsAre
  <2>. HIDE DEF l
  <2>4. \A bits \in SUBSET BitIndex : ~WithCr(l, bits).reservation_valid /\ WithCr(l, bits).cr = bits
    BY <2>2, CrUpdate
  <2>. QED  BY <2>3, <2>4 DEF Conditioned, l
<1>9. \A b \in BOOLEAN : EQ(0) \in CondBits(s.cr, b, s.xer) => b
  BY EqualBits DEF CondBits
<1>10. EQ(0) \in d.state.cr => success
  <2>. HIDE DEF stored, success, d
  <2>. QED  BY <1>2, <1>7, <1>8, <1>9, Zenon
<1>11. ~d.state.reservation_valid
  <2>. HIDE DEF stored, success, d
  <2>. QED  BY <1>2, <1>7, <1>8, Zenon
<1>12. success => s.reservation_valid /\ s.reservation_address = resolve_alias_address(IndexedAddress(c, i))
  BY <1>1, Zenon DEF Reserved
<1>. HIDE DEF success, d
<1>. QED  BY <1>10, <1>11, <1>12, Zenon DEF GaveUp, d
\* ---- The history ------------------------------------------------------------------------

\* Before the step s of the history e, the last lwarx or stwcx. is a lwarx of the storage a.
Reserving(e, s, a) ==
  \E l \in 1 .. (s - 1) :
    /\ e[l].op = "lwarx" /\ e[l].at = a
    /\ \A k \in (l + 1) .. (s - 1) : e[k].op # "stwcx"
Paired(e) == \A s \in 1..Len(e) : e[s].stored => Reserving(e, s, e[s].at)

LEMMA HistoryAppends ==
  ASSUME NEW S, NEW e \in Seq(S), NEW x
  PROVE  LET n == Len(e)
             f == Append(e, x)
         IN  /\ \E T : f \in Seq(T)
             /\ n \in Nat /\ Len(f) = n + 1 /\ f[n + 1] = x /\ \A k \in 1..n : f[k] = e[k]
             /\ \A s \in 1 .. (n + 1) : \A a : Reserving(e, s, a) => Reserving(f, s, a)
             /\ \A a : x.op # "stwcx" /\ Reserving(e, n + 1, a) => Reserving(f, n + 2, a)
             /\ x.op = "lwarx" => Reserving(f, n + 2, x.at)
<1>. DEFINE n == Len(e)
            f == Append(e, x)
            T == S \cup {x}
<1>1. e \in Seq(T) /\ x \in T /\ n \in Nat
  OBVIOUS
<1>2. f \in Seq(T) /\ Len(f) = n + 1 /\ f[n + 1] = x /\ \A k \in 1..n : f[k] = e[k]
  BY <1>1
<1>3. n \in Nat
  OBVIOUS
<1>. HIDE DEF f, n
<1>4. \A s \in 1 .. (n + 1) : \A a : Reserving(e, s, a) => Reserving(f, s, a)
  <2>. SUFFICES ASSUME NEW s \in 1 .. (n + 1), NEW a, Reserving(e, s, a) PROVE Reserving(f, s, a)
    OBVIOUS
  <2>0. PICK l \in 1 .. (s - 1) : /\ e[l].op = "lwarx" /\ e[l].at = a
                                  /\ \A k \in (l + 1) .. (s - 1) : e[k].op # "stwcx"
    BY Zenon DEF Reserving
  <2>1. l \in 1..n /\ \A k \in (l + 1) .. (s - 1) : k \in 1..n
    BY <1>3
  <2>2. f[l] = e[l] /\ \A k \in (l + 1) .. (s - 1) : f[k] = e[k]
    BY <1>2, <2>1
  <2>3. /\ f[l].op = "lwarx" /\ f[l].at = a
        /\ \A k \in (l + 1) .. (s - 1) : f[k].op # "stwcx"
    BY <2>0, <2>2
  <2>. QED  BY <2>3, Zenon DEF Reserving
<1>5. ASSUME NEW a, x.op # "stwcx", Reserving(e, n + 1, a) PROVE Reserving(f, n + 2, a)
  <2>1. PICK l \in 1 .. ((n + 1) - 1) : /\ e[l].op = "lwarx" /\ e[l].at = a
                                      /\ \A k \in (l + 1) .. ((n + 1) - 1) : e[k].op # "stwcx"
    BY <1>5, Zenon DEF Reserving
  <2>2. l \in 1..n /\ l \in 1 .. ((n + 2) - 1) /\ \A k \in (l + 1) .. ((n + 2) - 1) : k = n + 1 \/ k \in (l + 1)..n
    BY <1>3
  <2>3. (l + 1)..n \subseteq 1..n /\ (n + 1) - 1 = n
    BY <1>3, <2>2
  <2>4. \A k \in (l + 1)..n : f[k].op # "stwcx"
    BY <1>2, <2>1, <2>3
  <2>5. f[n + 1].op # "stwcx" /\ f[l] = e[l]
    BY <1>2, <1>5, <2>2
  <2>6. /\ f[l].op = "lwarx" /\ f[l].at = a
        /\ \A k \in (l + 1) .. ((n + 2) - 1) : f[k].op # "stwcx"
    BY <2>1, <2>2, <2>4, <2>5
  <2>. QED  BY <2>2, <2>6, Zenon DEF Reserving
<1>6. x.op = "lwarx" => Reserving(f, n + 2, x.at)
  <2>1. n + 1 \in 1 .. ((n + 2) - 1) /\ \A k \in (n + 1 + 1) .. ((n + 2) - 1) : FALSE
    BY <1>3
  <2>. QED  BY <1>2, <2>1, Zenon DEF Reserving
<1>7. \E U : f \in Seq(U)
  BY <1>2
<1>. QED  BY <1>2, <1>3, <1>4, <1>5, <1>6, <1>7 DEF n, f

\* The history is a sequence in which every store is paired, and a reservation that is held
\* comes from the last lwarx.
History ==
  /\ \E S : executed \in Seq(S)
  /\ Paired(executed)
  /\ interpreter.stop = "none" /\ interpreter.state.reservation_valid =>
       Reserving(executed, Len(executed) + 1, interpreter.state.reservation_address)

\* Where the interpreter goes on, its machine is one.
LEMMA DoneMachine ==
  ASSUME Together, Departures = {}, NEW op, NEW i, NEW d, NEW n, NEW a, Occurs(op, i, d, n, a), d.stop = "none"
  PROVE  IsMachine(d.state)
<1>1. \/ Agrees(interpreter.state, ToldMemory, d, n)
      \/ AgreesInPart(d, n)
  BY DoneAgrees
<1>2. ~AgreesInPart(d, n)
  <2>1. Core(d.state, d.memory, "fault").stop = "fault"
    BY CoreUpdates
  <2>. QED  BY <2>1 DEF AgreesInPart
<1>. QED  BY <1>1, <1>2 DEF Agrees, Stands

\* The reservation after an instruction, and the one that a store needed.
LEMMA StepLinks ==
  ASSUME Together, Departures = {}, NEW op, NEW i, NEW d, NEW n, NEW a, Occurs(op, i, d, n, a), d.stop = "none"
  PROVE  LET s == interpreter.state
             t == interpreter'.state
             at == resolve_alias_address(IndexedAddress(interpreter, i))
         IN  /\ interpreter'.stop = "none"
             /\ op \notin {"lwarx", "stwcx"} => /\ t.reservation_valid = s.reservation_valid
                                                /\ t.reservation_address = s.reservation_address
             /\ op = "lwarx" => t.reservation_address = at
             /\ op = "stwcx" => GaveUp(s, at, t)
<1>. DEFINE s == interpreter.state
            m == ToldMemory
            c == Core(s, m, "none")
            at == resolve_alias_address(IndexedAddress(interpreter, i))
<1>1. ToldCore(interpreter) = c /\ IsMachine(s)
  BY ToldFacts, Zenon DEF Occurs
<1>2. interpreter' = Core(After(d.state), d.memory, "none") /\ d = Core(d.state, d.memory, "none")
  BY StepKeeps
<1>3. IsMachine(d.state)
  BY DoneMachine
<1>4. LET t == interpreter'.state IN
      /\ t.reservation_valid = d.state.reservation_valid /\ t.reservation_address = d.state.reservation_address
      /\ t.cr = d.state.cr /\ interpreter'.stop = "none"
  <2>1. After(d.state).reservation_valid = d.state.reservation_valid
        /\ After(d.state).reservation_address = d.state.reservation_address /\ After(d.state).cr = d.state.cr
    <3>1. Unsigned(d.state.cia + 4) \in Words
      BY <1>3, AfterIs, MachineTypes
    <3>. QED  BY <1>3, <3>1, AddressUpdate DEF After
  <2>. QED  BY <1>2, <2>1, CoreUpdates
<1>5. Done(op, i, d, n, a) /\ interpreter.stop = "none"
  BY Zenon DEF Occurs
<1>6. IndexedAddress(interpreter, i) = IndexedAddress(c, i)
  <2>1. c.state = interpreter.state
    BY CoreUpdates
  <2>. HIDE DEF c
  <2>. QED  BY <2>1 DEF IndexedAddress, BaseOrZero, Gpr
<1>7. HasLink(c) /\ c.stop = "none" /\ c.state = s
  BY <1>1, CoreHasLink, CoreUpdates
<1>. HIDE DEF c
<1>8. op \notin {"lwarx", "stwcx"} => SameLink(c, d)
  BY <1>1, <1>5, <1>7, ScalarsKeepLink, ManyKeepLink, FloatsKeepLink, OthersKeepLink DEF Done
<1>9. "lwarx" \notin LoadOps \cup StoreOps \cup MultipleOps \cup StringOps \cup FloatOps
      /\ "stwcx" \notin LoadOps \cup StoreOps \cup MultipleOps \cup StringOps \cup FloatOps
  BY DEF LoadOps, StoreOps, MultipleOps, StringOps, FloatOps, ScalarFloatOps, PairLoads, PairStores
<1>10. op \in {"lwarx", "stwcx"} => d = ExecuteOther(op, c, i)
  BY <1>1, <1>5, <1>9, Zenon DEF Done
<1>11. op = "lwarx" => d.state.reservation_address = at
  <2>1. op = "lwarx" => d = lwarx(c, i)
    BY <1>10 DEF ExecuteOther
  <2>. QED  BY <1>6, <1>7, <2>1, ReservesIs
<1>12. op = "stwcx" => GaveUp(s, at, d.state)
  <2>1. op = "stwcx" => d = stwcx(c, i)
    BY <1>10 DEF ExecuteOther
  <2>2. stwcx(c, i).stop = "none" => GaveUp(s, resolve_alias_address(IndexedAddress(c, i)), stwcx(c, i).state)
    BY <1>1, ConditionalIs DEF c
  <2>. QED  BY <1>6, <2>1, <2>2
<1>13. op = "stwcx" => GaveUp(s, at, interpreter'.state)
  <2>. HIDE DEF s, at
  <2>. QED  BY <1>4, <1>12, Zenon DEF GaveUp
<1>. DEFINE t == interpreter'.state
<1>. SUFFICES /\ interpreter'.stop = "none"
              /\ op \notin {"lwarx", "stwcx"} => /\ t.reservation_valid = s.reservation_valid
                                                 /\ t.reservation_address = s.reservation_address
              /\ op = "lwarx" => t.reservation_address = at
              /\ op = "stwcx" => GaveUp(s, at, t)
  BY Zenon
<1>14. /\ t.reservation_valid = d.state.reservation_valid /\ t.reservation_address = d.state.reservation_address
       /\ interpreter'.stop = "none"
  BY <1>4, Zenon
<1>15. op \notin {"lwarx", "stwcx"} => /\ d.state.reservation_valid = s.reservation_valid
                                      /\ d.state.reservation_address = s.reservation_address
  BY <1>7, <1>8, Zenon DEF SameLink
<1>. HIDE DEF s, m, at, t
<1>16. op = "lwarx" => t.reservation_address = at
  BY <1>11, <1>14, Zenon
<1>17. op = "stwcx" => GaveUp(s, at, t)
  BY <1>13, Zenon DEF t
<1>. QED  BY <1>14, <1>15, <1>16, <1>17, Zenon

LEMMA InitHistory ==
  ASSUME Init
  PROVE  History
<1>1. program \in DOMAIN Programs /\ executed = << >>
  BY DEF Init
<1>2. PICK begin \in Programs[program].starts :
             interpreter = [state |-> begin.state, memory |-> begin.memory, stop |-> "none"]
  BY DEF Init
<1>3. ~begin.state.reservation_valid
  BY <1>1, MemoryEnginesAssumption
<1>4. ~interpreter.state.reservation_valid
  BY <1>2, <1>3
<1>5. executed \in Seq({}) /\ 1..Len(executed) = {}
  BY <1>1
<1>. QED  BY <1>4, <1>5 DEF History, Paired

\* What an instruction adds to the history.
LEMMA OutcomeIs ==
  ASSUME Together, Departures = {}, NEW op, NEW i, NEW d, NEW n, NEW a, Occurs(op, i, d, n, a)
  PROVE  LET x == Outcome(op, i)
             at == resolve_alias_address(IndexedAddress(interpreter, i))
         IN  /\ executed' = Append(executed, x) /\ x.op = op
             /\ op \in {"lwarx", "stwcx"} => x.at = at
             /\ x.stored => op = "stwcx" /\ EQ(0) \in interpreter'.state.cr
             /\ x.stored \/ interpreter'.stop = "none" => d.stop = "none"
<1>. DEFINE x == Outcome(op, i)
            at == resolve_alias_address(IndexedAddress(interpreter, i))
<1>1. executed' = Append(executed, x)
  BY Zenon DEF Occurs, Performed
<1>2. x.op = op /\ (op \in {"lwarx", "stwcx"} => x.at = at)
  BY DEF Outcome
<1>3. x.stored => /\ op = "stwcx" /\ interpreter'.stop = "none" /\ outcome' = "none"
                  /\ EQ(0) \in interpreter'.state.cr \cup native'.state.cr
  <2>. DEFINE y == /\ op = "stwcx" /\ interpreter'.stop = "none" /\ outcome' = "none"
                   /\ EQ(0) \in interpreter'.state.cr \cup native'.state.cr
              w == IF op \in {"lwarx", "stwcx"} THEN at ELSE 0
  <2>1. x = [op |-> op, insn |-> i, at |-> w, stored |-> y]
    BY Zenon DEF Outcome
  <2>. HIDE DEF w, x
  <2>2. x.stored <=> y
    <3>1. y \in BOOLEAN
      OBVIOUS
    <3>. HIDE DEF y
    <3>. QED  BY <2>1, <3>1
  <2>. QED  BY <2>2
<1>4. Together' /\ (d.stop # "none" => interpreter' = d)
  BY StepKeeps
<1>5. outcome' = "none" => native'.state.cr = interpreter'.state.cr
  <2>. SUFFICES ASSUME outcome' = "none" PROVE native'.state.cr = interpreter'.state.cr
    OBVIOUS
  <2>1. Stands(native', interpreter'.state, interpreter'.memory)
    BY <1>4, Zenon DEF Together
  <2>. QED  BY <2>1, StandsFacts
<1>6. x.stored => op = "stwcx" /\ EQ(0) \in interpreter'.state.cr
  BY <1>3, <1>5
<1>7. x.stored \/ interpreter'.stop = "none" => d.stop = "none"
  <2>. HIDE DEF x
  <2>. QED  BY <1>3, <1>4
<1>. SUFFICES /\ executed' = Append(executed, x) /\ x.op = op
              /\ op \in {"lwarx", "stwcx"} => x.at = at
              /\ x.stored => op = "stwcx" /\ EQ(0) \in interpreter'.state.cr
              /\ x.stored \/ interpreter'.stop = "none" => d.stop = "none"
  BY Zenon
<1>. HIDE DEF x, at
<1>. QED  BY <1>1, <1>2, <1>6, <1>7, Zenon

LEMMA NextHistory ==
  ASSUME Together, Departures = {}, History, Next
  PROVE  History'
<1>1. PICK op, i, d, n, a : Occurs(op, i, d, n, a)
  BY NextOccurs DEF Together
<1>. DEFINE x == Outcome(op, i)
            at == resolve_alias_address(IndexedAddress(interpreter, i))
            s == interpreter.state
            t == interpreter'.state
            k == Len(executed)
            f == executed'
<1>2. /\ f = Append(executed, x) /\ x.op = op /\ (op \in {"lwarx", "stwcx"} => x.at = at)
      /\ x.stored => op = "stwcx" /\ EQ(0) \in t.cr
      /\ x.stored \/ interpreter'.stop = "none" => d.stop = "none"
  BY <1>1, OutcomeIs
<1>3. d.stop = "none" => /\ interpreter'.stop = "none"
                         /\ op \notin {"lwarx", "stwcx"} => /\ t.reservation_valid = s.reservation_valid
                                                            /\ t.reservation_address = s.reservation_address
                         /\ op = "lwarx" => t.reservation_address = at
                         /\ op = "stwcx" => GaveUp(s, at, t)
  BY <1>1, StepLinks
<1>4. interpreter.stop = "none"
  BY <1>1, Zenon DEF Occurs
<1>5. /\ Paired(executed)
      /\ s.reservation_valid => Reserving(executed, k + 1, s.reservation_address)
  BY <1>4, Zenon DEF History
<1>. HIDE DEF x, at, s, t
<1>6. /\ \E T : f \in Seq(T)
      /\ k \in Nat /\ Len(f) = k + 1 /\ f[k + 1] = x /\ \A l \in 1..k : f[l] = executed[l]
      /\ \A l \in 1 .. (k + 1) : \A b : Reserving(executed, l, b) => Reserving(f, l, b)
      /\ \A b : x.op # "stwcx" /\ Reserving(executed, k + 1, b) => Reserving(f, k + 2, b)
      /\ x.op = "lwarx" => Reserving(f, k + 2, x.at)
  <2>1. PICK S : executed \in Seq(S)
    BY DEF History
  <2>2. f = Append(executed, x)
    BY <1>2
  <2>. HIDE DEF f
  <2>. QED  BY <2>1, <2>2, HistoryAppends
<1>7. x.stored => Reserving(f, k + 1, x.at)
  <2>. SUFFICES ASSUME x.stored PROVE Reserving(f, k + 1, x.at)
    OBVIOUS
  <2>1. op = "stwcx" /\ d.stop = "none" /\ x.at = at /\ EQ(0) \in t.cr
    BY <1>2
  <2>2. s.reservation_valid /\ s.reservation_address = at
    BY <1>3, <2>1, Zenon DEF GaveUp
  <2>3. Reserving(executed, k + 1, at)
    BY <1>5, <2>2, Zenon
  <2>4. k + 1 \in 1 .. (k + 1)
    BY <1>6
  <2>. QED  BY <1>6, <2>1, <2>3, <2>4, Zenon
<1>8. Paired(f)
  <2>. SUFFICES ASSUME NEW l \in 1..Len(f), f[l].stored PROVE Reserving(f, l, f[l].at)
    BY Zenon DEF Paired
  <2>. HIDE DEF f, k
  <2>1. l = k + 1 \/ l \in 1..k
    BY <1>6
  <2>2. CASE l = k + 1
    BY <1>6, <1>7, <2>2
  <2>3. CASE l \in 1..k
    <3>1. f[l] = executed[l] /\ l \in 1 .. (k + 1)
      BY <1>6, <2>3
    <3>2. Reserving(executed, l, executed[l].at)
      BY <1>5, <2>3, <3>1, Zenon DEF Paired, k
    <3>. QED  BY <1>6, <3>1, <3>2, Zenon
  <2>. QED  BY <2>1, <2>2, <2>3
<1>9. interpreter'.stop = "none" /\ t.reservation_valid => Reserving(f, Len(f) + 1, t.reservation_address)
  <2>. SUFFICES ASSUME interpreter'.stop = "none", t.reservation_valid
                PROVE  Reserving(f, k + 2, t.reservation_address)
    <3>1. Len(f) + 1 = k + 2
      <4>. HIDE DEF f, k
      <4>. QED  BY <1>6
    <3>. QED  BY <3>1
  <2>1. d.stop = "none"
    BY <1>2
  <2>2. CASE op = "lwarx"
    BY <1>2, <1>3, <1>6, <2>1, <2>2, Zenon
  <2>3. CASE op = "stwcx"
    BY <1>3, <2>1, <2>3, Zenon DEF GaveUp
  <2>4. CASE op \notin {"lwarx", "stwcx"}
    <3>1. s.reservation_valid /\ t.reservation_address = s.reservation_address
      BY <1>3, <2>1, <2>4, Zenon
    <3>2. Reserving(executed, k + 1, s.reservation_address) /\ x.op # "stwcx"
      BY <1>2, <1>5, <2>4, <3>1
    <3>. QED  BY <1>6, <3>1, <3>2, Zenon
  <2>. QED  BY <2>2, <2>3, <2>4
<1>10. \E T : executed' \in Seq(T)
  BY <1>6
<1>. QED  BY <1>8, <1>9, <1>10, Zenon DEF History, t

\* ---- Theorems ---------------------------------------------------------------------------

LEMMA InitTogether ==
  ASSUME Init
  PROVE  Together
<1>1. program \in DOMAIN Programs
  BY DEF Init
<1>2. PICK begin \in Programs[program].starts :
             /\ interpreter = [state |-> begin.state, memory |-> begin.memory, stop |-> "none"]
             /\ native = Begin(begin.state, begin.memory)
             /\ block \in BlocksAt(begin.state.cia)
  BY DEF Init
<1>. DEFINE t == begin.state
            m == begin.memory
<1>3. IsMachine(t) /\ IsMemory(m)
  BY <1>1, MemoryEnginesAssumption
<1>4. outcome = "none" /\ index = 0 /\ interpreter = Core(t, m, "none") /\ native = Begin(t, m)
  BY <1>2 DEF Init, Core
<1>5. block \in BlocksAt(t.cia)
  BY <1>2
<1>. HIDE DEF t, m
<1>6. PICK k \in Programs[program].sizes : block = [start |-> t.cia, size |-> k]
  BY <1>5 DEF BlocksAt
<1>7. k \in Nat /\ k > 0 /\ t.cia \in Words
  BY <1>1, <1>3, MemoryEnginesAssumption, MachineTypes
<1>8. BlockOk
  BY <1>4, <1>6, <1>7 DEF BlockOk
<1>9. Here = t.cia
  <2>1. t.cia \in Int /\ 0 <= t.cia /\ t.cia < Modulus /\ t.cia + 4 * 0 = t.cia
    BY <1>7, WordSizes, WordRange
  <2>2. Unsigned(t.cia) = t.cia
    BY <2>1, UnsignedNear
  <2>. QED  BY <1>4, <1>6, <2>1, <2>2 DEF Here
<1>10. Stands(native, t, m)
  BY <1>3, <1>4, NearSame, BeginStands
<1>11. interpreter.state = t /\ interpreter.memory = m /\ interpreter.stop = "none"
  BY <1>4, CoreUpdates
<1>. QED  BY <1>1, <1>4, <1>8, <1>9, <1>10, <1>11 DEF Together

LEMMA NextTogether ==
  ASSUME Together, Departures = {}, Next
  PROVE  Together'
<1>1. PICK op, i, d, n, a : Occurs(op, i, d, n, a)
  BY NextOccurs DEF Together
<1>. QED  BY <1>1, StepKeeps

\* Between instructions and where a run stops, the native code stands for the interpreter's
\* machine over the same memory, and the reservation held is the one of the history.
LEMMA StaysTogether ==
  ASSUME Departures = {}
  PROVE  Spec => [](Together /\ History)
<1>1. Init => Together /\ History
  BY InitTogether, InitHistory
<1>2. Together /\ History /\ [Next]_vars => Together' /\ History'
  <2>1. Together /\ History /\ Next => Together' /\ History'
    BY NextTogether, NextHistory
  <2>2. Together /\ UNCHANGED vars => Together'
    BY DEF Together, vars, BlockOk, Here
  <2>3. History /\ UNCHANGED vars => History'
    BY DEF History, vars
  <2>. QED  BY <2>1, <2>2, <2>3
<1>. QED  BY <1>1, <1>2, PTL DEF Spec

\* What the native code stands for is what a debugger between instructions would see of it.
LEMMA ObservedIs ==
  ASSUME Together
  PROVE  Observed = interpreter.state
<1>1. CASE outcome # "none"
  BY <1>1 DEF Together, Observed
<1>2. CASE outcome = "none"
  <2>. DEFINE s == interpreter.state
  <2>1. Stands(native, s, interpreter.memory) /\ Here = s.cia
    BY <1>2 DEF Together
  <2>2. DOMAIN native.state.gpr = Gprs
    BY <2>1, MachineTypes DEF Stands, IsNative
  <2>3. View(native, Here) = s
    BY <2>1 DEF Stands
  <2>4. Observed = [native.state EXCEPT !.gpr = Guests(native), !.cia = Here]
    BY <1>2, <2>2 DEF Observed, Guests
  <2>5. [native.state EXCEPT !.gpr = Guests(native), !.cia = Here]
          = [[native.state EXCEPT !.gpr = Guests(native)] EXCEPT !.cia = Here]
    OBVIOUS
  <2>. HIDE DEF s
  <2>6. Observed = s
    BY <2>3, <2>4, <2>5, Zenon DEF View, At, WithGprs
  <2>. QED  BY <2>6 DEF s
<1>. QED  BY <1>1, <1>2

LEMMA TogetherMemory ==
  ASSUME Together
  PROVE  native.memory.bytes = interpreter.memory.bytes /\ native.memory.events = interpreter.memory.events
BY DEF Together, Stands, Near

\* After every instruction, and where a run stops, both engines have the same registers,
\* reservation, address and memory, and stop for the same reason (the emitters of
\* recompiler.cpp against the handlers of interpreter.cpp): for every program of the
\* assumption, unless one of the four known disagreements occurs.
THEOREM EnginesNeverDisagree ==
  ASSUME Departures = {}
  PROVE  Spec => []EnginesAgree
<1>1. Together => EnginesAgree
  <2>. SUFFICES ASSUME Together PROVE EnginesAgree
    OBVIOUS
  <2>1. Observed = interpreter.state /\ native.memory.bytes = interpreter.memory.bytes
    BY ObservedIs, TogetherMemory
  <2>2. outcome = interpreter.stop
    BY DEF Together
  <2>. QED  BY <2>1, <2>2 DEF EnginesAgree
<1>. QED  BY <1>1, StaysTogether, PTL

\* The diagnostic watchpoint (guest_write_watch.h) records the same writes under both
\* engines: the instruction, the place, what was left there, and the registers at that moment.
THEOREM WatchpointsNeverDisagree ==
  ASSUME Departures = {}
  PROVE  Spec => []WatchEventsAgree
<1>1. Together => WatchEventsAgree
  BY TogetherMemory DEF WatchEventsAgree
<1>. QED  BY <1>1, StaysTogether, PTL

\* A conditional store that either engine reports follows a lwarx of the same storage, with
\* no other stwcx. between them (lwarx and stwcx. of both engines, and the aliases of
\* resolve_alias_address).
THEOREM StoresHavePartners ==
  ASSUME Departures = {}
  PROVE  Spec => []ConditionalStoresPaired
<1>1. History => ConditionalStoresPaired
  BY Zenon DEF History, Paired, Reserving, ConditionalStoresPaired
<1>. QED  BY <1>1, StaysTogether, PTL

\* An instruction that stops the run leaves no trace, whatever the native code had done of it
\* before it found out: no base update, no first half of a pair, no register of a string.
THEOREM FaultsAreClean ==
  ASSUME Departures = {}
  PROVE  Spec => FaultsLeaveNoTrace
<1>. DEFINE Stopped == /\ interpreter'.stop # "none" \/ outcome' # "none"
                       /\ executed'[Len(executed')].op \notin {"lmw", "stmw"}
            Untouched == /\ Observed' = Observed
                         /\ interpreter'.state = interpreter.state
                         /\ native'.memory.bytes = native.memory.bytes
                         /\ interpreter'.memory.bytes = interpreter.memory.bytes
            Seen == Observed = interpreter.state /\ native.memory.bytes = interpreter.memory.bytes
<1>1. Together => Seen
  BY ObservedIs, TogetherMemory
<1>2. ASSUME Together, History, Next, Stopped, Seen' PROVE Untouched
  <2>1. PICK op, i, d, n, a : Occurs(op, i, d, n, a)
    BY <1>2, NextOccurs DEF Together
  <2>2. executed'[Len(executed')].op = op
    <3>. DEFINE x == Outcome(op, i)
    <3>1. PICK S : executed \in Seq(S)
      BY <1>2 DEF History
    <3>2. executed' = Append(executed, x) /\ x.op = op
      BY <1>2, <2>1, OutcomeIs
    <3>. HIDE DEF x
    <3>3. Append(executed, x)[Len(executed) + 1] = x /\ Len(Append(executed, x)) = Len(executed) + 1
      BY <3>1, HistoryAppends
    <3>. QED  BY <3>2, <3>3
  <2>3. /\ Together'
        /\ d.stop = "none" => interpreter' = Core(After(d.state), d.memory, "none")
        /\ d.stop # "none" => interpreter' = d
        /\ d.stop # "none" /\ op \notin MultipleOps => d.state = interpreter.state /\ d.memory = ToldMemory
    BY <1>2, <2>1, StepKeeps
  <2>4. d.stop # "none"
    <3>. SUFFICES ASSUME d.stop = "none" PROVE FALSE
      OBVIOUS
    <3>1. interpreter'.stop = "none"
      BY <2>3, CoreUpdates
    <3>2. outcome' = interpreter'.stop
      BY <2>3, Zenon DEF Together
    <3>. QED  BY <1>2, <3>1, <3>2
  <2>5. interpreter'.state = interpreter.state /\ interpreter'.memory = ToldMemory
    BY <1>2, <2>2, <2>3, <2>4, OpKinds
  <2>6. ToldMemory.bytes = interpreter.memory.bytes
    BY <1>2, <2>1, ToldFacts, Zenon DEF Occurs
  <2>7. Observed = interpreter.state /\ native.memory.bytes = interpreter.memory.bytes
    BY <1>2, ObservedIs, TogetherMemory
  <2>8. Observed' = interpreter'.state /\ native'.memory.bytes = interpreter'.memory.bytes
    BY <1>2
  <2>. QED  BY <2>5, <2>6, <2>7, <2>8
<1>3. Together /\ History /\ [Next]_vars /\ Seen' => [Stopped => Untouched]_vars
  BY <1>2
<1>. HIDE DEF Seen
<1>. QED  BY <1>1, <1>3, StaysTogether, PTL DEF Spec, FaultsLeaveNoTrace
============================================================================
