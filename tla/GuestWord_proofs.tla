------------------------- MODULE GuestWord_proofs -------------------------
(***************************************************************************)
(* Arithmetic of guest words, for words of any width: powers of two, the    *)
(* wrapped and signed values of integers, and words as sets of bits.        *)
(***************************************************************************)
EXTENDS GuestWord, WellFoundedInduction, TLAPS

----------------------------------------------------------------------------
(* Induction, and the recursive function TwoTo.                             *)

LEMMA Induction ==
  ASSUME NEW T, 0 \in T, \A n \in Nat : n \in T => n + 1 \in T
  PROVE  \A n \in Nat : n \in T
<1>. DEFINE U == {n \in Nat : n \notin T}
<1>1. ASSUME U # {} PROVE FALSE
  <2>1. PICK m \in U : \A k \in U : ~(<<k, m>> \in OpToRel(<, Nat))
    <3>1. U \subseteq Nat
      OBVIOUS
    <3>. HIDE DEF U
    <3>. QED BY <1>1, <3>1, NatLessThanWellFounded, WFMin
  <2>2. m \in Nat /\ m # 0 /\ m - 1 \in Nat
    OBVIOUS
  <2>3. m - 1 \in T => m \in T
    BY <2>2
  <2>4. m - 1 \in U
    BY <2>2, <2>3
  <2>5. <<m - 1, m>> \in OpToRel(<, Nat)
    BY <2>2 DEF OpToRel
  <2>. QED BY <2>1, <2>4, <2>5
<1>. QED BY <1>1

\* The first n + 1 powers, as a table.
Tables(n) == {h \in [0..n -> Nat] : h[0] = 1 /\ \A k \in 1..n : h[k] = 2 * h[k - 1]}

LEMMA TablesExist == \A n \in Nat : Tables(n) # {}
<1>. DEFINE T == {n \in Nat : Tables(n) # {}}
<1>1. 0 \in T
  <2>1. [k \in 0..0 |-> 1] \in Tables(0)
    BY DEF Tables
  <2>. QED BY <2>1
<1>2. ASSUME NEW n \in Nat, n \in T PROVE n + 1 \in T
  <2>1. PICK h : h \in Tables(n)
    BY <1>2
  <2>. DEFINE g == [k \in 0..(n + 1) |-> IF k = n + 1 THEN 2 * h[n] ELSE h[k]]
  <2>2. h \in [0..n -> Nat] /\ h[0] = 1 /\ \A k \in 1..n : h[k] = 2 * h[k - 1]
    BY <2>1 DEF Tables
  <2>3. g \in [0..(n + 1) -> Nat]
    BY <2>2
  <2>4. g[0] = 1
    BY <2>2
  <2>5. ASSUME NEW k \in 1..(n + 1) PROVE g[k] = 2 * g[k - 1]
    <3>1. CASE k = n + 1
      BY <3>1, <2>2
    <3>2. CASE k # n + 1
      <4>1. k \in 1..n /\ k - 1 # n + 1 /\ k - 1 \in 0..(n + 1)
        BY <3>2
      <4>. QED BY <3>2, <4>1, <2>2
    <3>. QED BY <3>1, <3>2
  <2>6. g \in Tables(n + 1)
    <3>. HIDE DEF g
    <3>. QED BY <2>3, <2>4, <2>5 DEF Tables
  <2>. HIDE DEF g
  <2>. QED BY <2>6
<1>3. \A n \in Nat : n \in T
  <2>. HIDE DEF T
  <2>. QED BY <1>1, <1>2, Induction
<1>. QED BY <1>3

LEMMA TablesAgree ==
  ASSUME NEW n \in Nat, NEW m \in Nat, NEW h \in Tables(n), NEW g \in Tables(m)
  PROVE  \A k \in Nat : k <= n /\ k <= m => h[k] = g[k]
<1>. DEFINE T == {k \in Nat : k <= n /\ k <= m => h[k] = g[k]}
<1>1. 0 \in T
  BY DEF Tables
<1>2. ASSUME NEW k \in Nat, k \in T PROVE k + 1 \in T
  <2>1. CASE k + 1 <= n /\ k + 1 <= m
    <3>1. k + 1 \in 1..n /\ k + 1 \in 1..m /\ (k + 1) - 1 = k
      BY <2>1
    <3>2. h[k + 1] = 2 * h[(k + 1) - 1]
      BY <3>1 DEF Tables
    <3>3. g[k + 1] = 2 * g[(k + 1) - 1]
      BY <3>1 DEF Tables
    <3>4. h[k] = g[k]
      BY <1>2, <2>1
    <3>. QED BY <3>1, <3>2, <3>3, <3>4
  <2>. QED BY <2>1
<1>3. \A k \in Nat : k \in T
  <2>. HIDE DEF T
  <2>. QED BY <1>1, <1>2, Induction
<1>. QED BY <1>3

LEMMA TwoToDefined ==
  TwoTo = [k \in Nat |-> IF k = 0 THEN 1 ELSE 2 * TwoTo[k - 1]]
<1>. DEFINE f == [k \in Nat |-> (CHOOSE h : h \in Tables(k))[k]]
            Equation(g) == g = [k \in Nat |-> IF k = 0 THEN 1 ELSE 2 * g[k - 1]]
<1>1. ASSUME NEW k \in Nat PROVE f[k] = IF k = 0 THEN 1 ELSE 2 * f[k - 1]
  <2>1. PICK h : h \in Tables(k) /\ f[k] = h[k]
    <3>1. (CHOOSE h : h \in Tables(k)) \in Tables(k)
      BY TablesExist
    <3>. QED BY <3>1
  <2>2. CASE k = 0
    BY <2>1, <2>2 DEF Tables
  <2>3. CASE k # 0
    <3>1. k - 1 \in Nat
      BY <2>3
    <3>2. PICK g : g \in Tables(k - 1) /\ f[k - 1] = g[k - 1]
      <4>1. (CHOOSE h2 : h2 \in Tables(k - 1)) \in Tables(k - 1)
        BY <3>1, TablesExist
      <4>. QED BY <3>1, <4>1
    <3>. HIDE DEF f
    <3>3. h[k - 1] = g[k - 1]
      BY <2>1, <3>1, <3>2, TablesAgree
    <3>4. h[k] = 2 * h[k - 1]
      BY <2>1, <2>3 DEF Tables
    <3>. QED BY <2>1, <2>3, <3>2, <3>3, <3>4
  <2>. QED BY <2>2, <2>3
<1>2. Equation(f)
  <2>1. f = [k \in Nat |-> f[k]]
    OBVIOUS
  <2>. HIDE DEF f
  <2>. QED BY <1>1, <2>1
<1>3. TwoTo = CHOOSE g : Equation(g)
  BY DEF TwoTo
<1>. HIDE DEF f, Equation
<1>4. Equation(TwoTo)
  BY <1>2, <1>3
<1>. QED BY <1>4 DEF Equation

LEMMA PowerStep ==
  /\ TwoTo[0] = 1
  /\ \A k \in Nat : TwoTo[k] \in Nat /\ TwoTo[k] > 0 /\ TwoTo[k + 1] = 2 * TwoTo[k]
<1>1. ASSUME NEW k \in Nat PROVE TwoTo[k] = IF k = 0 THEN 1 ELSE 2 * TwoTo[k - 1]
  <2>. DEFINE f == [n \in Nat |-> IF n = 0 THEN 1 ELSE 2 * TwoTo[n - 1]]
  <2>1. TwoTo = f
    BY TwoToDefined, Zenon
  <2>2. f[k] = IF k = 0 THEN 1 ELSE 2 * TwoTo[k - 1]
    OBVIOUS
  <2>. HIDE DEF f
  <2>. QED BY <2>1, <2>2
<1>2. TwoTo[0] = 1
  BY <1>1
<1>3. \A k \in Nat : TwoTo[k + 1] = 2 * TwoTo[k]
  <2>1. ASSUME NEW k \in Nat PROVE TwoTo[k + 1] = 2 * TwoTo[k]
    <3>1. k + 1 \in Nat /\ k + 1 # 0 /\ (k + 1) - 1 = k
      OBVIOUS
    <3>. QED BY <1>1, <3>1
  <2>. QED BY <2>1
<1>. DEFINE T == {k \in Nat : TwoTo[k] \in Nat /\ TwoTo[k] > 0}
<1>4. 0 \in T
  BY <1>2
<1>5. \A k \in Nat : k \in T => k + 1 \in T
  BY <1>3
<1>6. \A k \in Nat : k \in T
  <2>. HIDE DEF T
  <2>. QED BY <1>4, <1>5, Induction
<1>. QED BY <1>2, <1>3, <1>6

LEMMA PowerSum ==
  ASSUME NEW a \in Nat, NEW b \in Nat
  PROVE  TwoTo[a + b] = TwoTo[a] * TwoTo[b]
<1>. DEFINE T == {k \in Nat : TwoTo[a + k] = TwoTo[a] * TwoTo[k]}
<1>1. 0 \in T
  BY PowerStep
<1>2. ASSUME NEW k \in Nat, k \in T PROVE k + 1 \in T
  <2>1. TwoTo[a + (k + 1)] = 2 * TwoTo[a + k]
    <3>1. a + (k + 1) = (a + k) + 1 /\ a + k \in Nat
      OBVIOUS
    <3>. QED BY <3>1, PowerStep
  <2>2. TwoTo[k + 1] = 2 * TwoTo[k] /\ TwoTo[k] \in Nat /\ TwoTo[a] \in Nat
    BY PowerStep
  <2>3. TwoTo[a + k] = TwoTo[a] * TwoTo[k]
    BY <1>2
  <2>4. 2 * (TwoTo[a] * TwoTo[k]) = TwoTo[a] * (2 * TwoTo[k])
    BY <2>2
  <2>. QED BY <2>1, <2>2, <2>3, <2>4
<1>3. \A k \in Nat : k \in T
  <2>. HIDE DEF T
  <2>. QED BY <1>1, <1>2, Induction
<1>. QED BY <1>3

LEMMA PowerOrder ==
  ASSUME NEW a \in Nat, NEW b \in Nat
  PROVE  /\ a <= b => TwoTo[a] <= TwoTo[b]
         /\ a < b => 2 * TwoTo[a] <= TwoTo[b]
         /\ a < TwoTo[a]
<1>1. ASSUME NEW c \in Nat, NEW d \in Nat, c <= d PROVE TwoTo[c] <= TwoTo[d]
  <2>1. d - c \in Nat /\ c + (d - c) = d
    BY <1>1
  <2>2. TwoTo[d] = TwoTo[c] * TwoTo[d - c]
    BY <2>1, PowerSum
  <2>. DEFINE x == TwoTo[c]
              y == TwoTo[d - c]
  <2>3. x \in Nat /\ y \in Nat /\ y > 0
    BY <2>1, PowerStep
  <2>. HIDE DEF x, y
  <2>4. x * y >= x
    BY <2>3
  <2>. QED BY <2>2, <2>4 DEF x, y
<1>2. a < b => 2 * TwoTo[a] <= TwoTo[b]
  <2>1. a < b => a + 1 <= b /\ a + 1 \in Nat
    OBVIOUS
  <2>2. TwoTo[a + 1] = 2 * TwoTo[a]
    BY PowerStep
  <2>. QED BY <1>1, <2>1, <2>2
<1>. DEFINE T == {k \in Nat : k < TwoTo[k]}
<1>3. 0 \in T
  BY PowerStep
<1>4. \A k \in Nat : k \in T => k + 1 \in T
  BY PowerStep
<1>5. \A k \in Nat : k \in T
  <2>. HIDE DEF T
  <2>. QED BY <1>3, <1>4, Induction
<1>. QED BY <1>1, <1>2, <1>5

----------------------------------------------------------------------------
(* Quotients and remainders.                                                *)

LEMMA DivMod ==
  ASSUME NEW a \in Int, NEW m \in Nat, m > 0
  PROVE  /\ a \div m \in Int /\ a % m \in 0..(m - 1)
         /\ a = m * (a \div m) + (a % m)
OBVIOUS

LEMMA DivModUnique ==
  ASSUME NEW a \in Int, NEW m \in Nat, m > 0, NEW q \in Int, NEW r \in 0..(m - 1), a = m * q + r
  PROVE  a \div m = q /\ a % m = r
<1>. DEFINE p == a \div m
            s == a % m
<1>1. p \in Int /\ s \in 0..(m - 1) /\ a = m * p + s
  BY DivMod
<1>. HIDE DEF p, s
<1>2. (q - p) * m = s - r
  BY <1>1
<1>3. q - p > 0 => (q - p) * m >= m
  BY <1>1
<1>4. q - p < 0 => (q - p) * m <= -m
  BY <1>1
<1>5. q = p
  BY <1>1, <1>2, <1>3, <1>4
<1>6. r = s
  BY <1>1, <1>2, <1>5
<1>. QED BY <1>5, <1>6 DEF p, s

LEMMA DivDiv ==
  ASSUME NEW a \in Int, NEW m \in Nat, m > 0, NEW n \in Nat, n > 0
  PROVE  (a \div m) \div n = a \div (m * n)
<1>. DEFINE q == a \div m
            r == a % m
            p == q \div n
            s == q % n
<1>1. q \in Int /\ r \in 0..(m - 1) /\ a = m * q + r
  BY DivMod
<1>. HIDE DEF q, r
<1>2. p \in Int /\ s \in 0..(n - 1) /\ q = n * p + s
  BY <1>1, DivMod
<1>. HIDE DEF p, s
<1>3. a = m * (n * p + s) + r
  BY <1>1, <1>2
<1>4. m * (n * p + s) = (m * n) * p + m * s
  BY <1>2
<1>5. m * s <= m * (n - 1) /\ m * s >= 0 /\ m * s \in Int
  BY <1>2
<1>6. m * (n - 1) = m * n - m
  OBVIOUS
<1>7. m * n \in Nat /\ m * n > 0
  OBVIOUS
<1>8. (m * s) + r \in 0..(m * n - 1)
  BY <1>1, <1>5, <1>6, <1>7
<1>9. a = (m * n) * p + ((m * s) + r)
  BY <1>1, <1>2, <1>3, <1>4, <1>5, <1>7
<1>10. a \div (m * n) = p
  BY <1>2, <1>7, <1>8, <1>9, DivModUnique
<1>. QED BY <1>10 DEF p, q

LEMMA ModScaled ==
  ASSUME NEW a \in Int, NEW m \in Nat, m > 0, NEW n \in Nat, n > 0
  PROVE  (a * n) % (m * n) = (a % m) * n /\ (a * n) \div (m * n) = a \div m
<1>. DEFINE q == a \div m
            r == a % m
<1>1. q \in Int /\ r \in 0..(m - 1) /\ a = m * q + r
  BY DivMod
<1>. HIDE DEF q, r
<1>2. a * n = (m * n) * q + r * n
  BY <1>1
<1>3. r * n >= 0 /\ r * n <= (m - 1) * n /\ r * n \in Int
  BY <1>1
<1>4. (m - 1) * n = m * n - n
  OBVIOUS
<1>5. m * n \in Nat /\ m * n > 0 /\ a * n \in Int
  OBVIOUS
<1>6. r * n \in 0..(m * n - 1)
  BY <1>3, <1>4, <1>5
<1>. DEFINE x == a * n
            y == m * n
            z == r * n
<1>7. x \in Int /\ y \in Nat /\ y > 0 /\ z \in 0..(y - 1) /\ x = y * q + z
  BY <1>2, <1>5, <1>6
<1>. HIDE DEF x, y, z
<1>8. x % y = z /\ x \div y = q
  BY <1>1, <1>7, DivModUnique
<1>. QED BY <1>8 DEF q, r, x, y, z

----------------------------------------------------------------------------
(* The words of the machine.                                                *)

LEMMA WordSizes ==
  /\ WordBits \in Nat /\ WordBits >= 4 /\ SignBit = WordBits - 1 /\ SignBit \in BitIndex
  /\ HalfBits \in Nat /\ WordBits = HalfBits + HalfBits /\ HalfBits >= 2
  /\ ByteBits \in Nat /\ WordBits = 4 * ByteBits /\ ByteBits >= 1
  /\ Modulus \in Nat /\ Smallest \in Nat /\ Modulus = 2 * Smallest /\ Smallest >= 8
  /\ TwoTo[HalfBits] \in Nat /\ TwoTo[HalfBits] > 0 /\ Modulus = TwoTo[HalfBits] * TwoTo[HalfBits]
<1>1. WordBits \in Nat /\ WordBits >= 4 /\ WordBits % 4 = 0
  BY WordBitsAssumption
<1>2. SignBit = WordBits - 1 /\ SignBit \in Nat /\ SignBit >= 3 /\ SignBit \in BitIndex /\ SignBit + 1 = WordBits
  BY <1>1 DEF SignBit, BitIndex
<1>3. HalfBits \in Nat /\ WordBits = HalfBits + HalfBits /\ HalfBits >= 2
  BY <1>1 DEF HalfBits
<1>4. ByteBits \in Nat /\ WordBits = 4 * ByteBits /\ ByteBits >= 1
  BY <1>1 DEF ByteBits
<1>5. Modulus = TwoTo[WordBits] /\ Smallest = TwoTo[SignBit]
  BY DEF Modulus, Smallest
<1>6. Modulus \in Nat /\ Smallest \in Nat /\ Modulus = 2 * Smallest
  BY <1>1, <1>2, <1>5, PowerStep
<1>7. Smallest >= 8
  <2>1. TwoTo[3] <= TwoTo[SignBit]
    BY <1>2, PowerOrder
  <2>2. TwoTo[0 + 1] = 2 * TwoTo[0] /\ TwoTo[1 + 1] = 2 * TwoTo[1] /\ TwoTo[2 + 1] = 2 * TwoTo[2] /\ TwoTo[0] = 1
    BY PowerStep
  <2>3. TwoTo[3] = 8
    BY <2>2
  <2>. QED BY <1>5, <2>1, <2>3
<1>8. TwoTo[HalfBits] \in Nat /\ TwoTo[HalfBits] > 0 /\ Modulus = TwoTo[HalfBits] * TwoTo[HalfBits]
  BY <1>3, <1>5, PowerSum, PowerStep
<1>. QED BY <1>1, <1>2, <1>3, <1>4, <1>6, <1>7, <1>8

LEMMA WordRange ==
  /\ Words = 0..(Modulus - 1) /\ AllOnes = Modulus - 1 /\ AllOnes \in Words /\ 0 \in Words
  /\ WordBits \in Words /\ \A k \in BitIndex : k \in Words
  /\ \A x : x \in Words <=> x \in Int /\ 0 <= x /\ x < Modulus
<1>1. Modulus \in Nat /\ Modulus > 0
  BY WordSizes
<1>2. WordBits < Modulus
  BY WordSizes, PowerOrder DEF Modulus
<1>. QED BY <1>1, <1>2, WordSizes DEF Words, AllOnes, BitIndex

\* The wrapped value is the word that differs by a multiple of the modulus.
LEMMA UnsignedIs ==
  ASSUME NEW z \in Int, NEW q \in Int, NEW r \in Words, z = Modulus * q + r
  PROVE  Unsigned(z) = r
<1>1. Modulus \in Nat /\ Modulus > 0 /\ r \in 0..(Modulus - 1)
  BY WordSizes, WordRange
<1>2. z % Modulus = r
  BY <1>1, DivModUnique
<1>. QED BY <1>2 DEF Unsigned

LEMMA UnsignedOf ==
  ASSUME NEW z \in Int
  PROVE  /\ Unsigned(z) \in Words
         /\ \E q \in Int : z = Modulus * q + Unsigned(z)
<1>1. Modulus \in Nat /\ Modulus > 0
  BY WordSizes
<1>2. z \div Modulus \in Int /\ z % Modulus \in 0..(Modulus - 1) /\ z = Modulus * (z \div Modulus) + (z % Modulus)
  BY <1>1, DivMod
<1>. QED BY <1>2 DEF Unsigned, Words

\* Sums and differences of words wrap once.
LEMMA UnsignedNear ==
  ASSUME NEW z \in Int
  PROVE  /\ 0 <= z /\ z < Modulus => Unsigned(z) = z
         /\ Modulus <= z /\ z < 2 * Modulus => Unsigned(z) = z - Modulus
         /\ -Modulus <= z /\ z < 0 => Unsigned(z) = z + Modulus
         /\ -(2 * Modulus) <= z /\ z < -Modulus => Unsigned(z) = z + 2 * Modulus
<1>0. Modulus \in Nat /\ Modulus > 0 /\ \A x : x \in Words <=> x \in Int /\ 0 <= x /\ x < Modulus
  BY WordSizes, WordRange
<1>1. 0 <= z /\ z < Modulus => Unsigned(z) = z
  <2>. SUFFICES ASSUME 0 <= z, z < Modulus PROVE Unsigned(z) = z
    OBVIOUS
  <2>. DEFINE r == z
  <2>1. r \in Words /\ 0 \in Int /\ z = Modulus * (0) + r
    BY <1>0
  <2>. HIDE DEF r
  <2>2. Unsigned(z) = r
    BY <2>1, UnsignedIs
  <2>. QED BY <2>2 DEF r
<1>2. Modulus <= z /\ z < 2 * Modulus => Unsigned(z) = z - Modulus
  <2>. SUFFICES ASSUME Modulus <= z, z < 2 * Modulus PROVE Unsigned(z) = z - Modulus
    OBVIOUS
  <2>. DEFINE r == z - Modulus
  <2>1. r \in Words /\ 1 \in Int /\ z = Modulus * (1) + r
    BY <1>0
  <2>. HIDE DEF r
  <2>2. Unsigned(z) = r
    BY <2>1, UnsignedIs
  <2>. QED BY <2>2 DEF r
<1>3. -Modulus <= z /\ z < 0 => Unsigned(z) = z + Modulus
  <2>. SUFFICES ASSUME -Modulus <= z, z < 0 PROVE Unsigned(z) = z + Modulus
    OBVIOUS
  <2>. DEFINE r == z + Modulus
  <2>1. r \in Words /\ -1 \in Int /\ z = Modulus * (-1) + r
    BY <1>0
  <2>. HIDE DEF r
  <2>2. Unsigned(z) = r
    BY <2>1, UnsignedIs
  <2>. QED BY <2>2 DEF r
<1>4. -(2 * Modulus) <= z /\ z < -Modulus => Unsigned(z) = z + 2 * Modulus
  <2>. SUFFICES ASSUME -(2 * Modulus) <= z, z < -Modulus PROVE Unsigned(z) = z + 2 * Modulus
    OBVIOUS
  <2>. DEFINE r == z + 2 * Modulus
  <2>1. r \in Words /\ -2 \in Int /\ z = Modulus * (-2) + r
    BY <1>0
  <2>. HIDE DEF r
  <2>2. Unsigned(z) = r
    BY <2>1, UnsignedIs
  <2>. QED BY <2>2 DEF r
<1>. QED BY <1>1, <1>2, <1>3, <1>4

\* Wrapping an operand first does not change a wrapped sum or product.
LEMMA UnsignedSum ==
  ASSUME NEW x \in Int, NEW y \in Int
  PROVE  Unsigned(x + Unsigned(y)) = Unsigned(x + y) /\ Unsigned(Unsigned(x) + y) = Unsigned(x + y)
<1>0. Modulus \in Nat /\ Modulus > 0
  BY WordSizes
<1>1. PICK p \in Int : x = Modulus * p + Unsigned(x)
  BY UnsignedOf
<1>2. PICK q \in Int : y = Modulus * q + Unsigned(y)
  BY UnsignedOf
<1>3. Unsigned(x) \in Int /\ Unsigned(y) \in Int
  BY UnsignedOf, WordRange
<1>. DEFINE a == Unsigned(x)
            b == Unsigned(y)
            u == x + y
            r == Unsigned(u)
<1>4. u \in Int /\ r \in Words
  BY UnsignedOf
<1>. HIDE DEF r
<1>5. PICK k \in Int : u = Modulus * k + r
  BY <1>4, UnsignedOf DEF r
<1>6. a \in Int /\ b \in Int /\ r \in Int
  BY <1>3, <1>4, WordRange
<1>. HIDE DEF a, b
<1>7. x + b = Modulus * (k - q) + r
  <2>1. Modulus * (k - q) = Modulus * k - Modulus * q
    BY <1>0
  <2>2. y = Modulus * q + b
    BY <1>2 DEF b
  <2>. QED BY <1>0, <1>5, <1>6, <2>1, <2>2
<1>8. a + y = Modulus * (k - p) + r
  <2>1. Modulus * (k - p) = Modulus * k - Modulus * p
    BY <1>0
  <2>2. x = Modulus * p + a
    BY <1>1 DEF a
  <2>. QED BY <1>0, <1>5, <1>6, <2>1, <2>2
<1>9. Unsigned(x + b) = r
  BY <1>4, <1>6, <1>7, UnsignedIs
<1>10. Unsigned(a + y) = r
  BY <1>4, <1>6, <1>8, UnsignedIs
<1>. QED BY <1>9, <1>10 DEF a, b, r

LEMMA UnsignedProduct ==
  ASSUME NEW x \in Int, NEW y \in Int, NEW p \in Int, NEW q \in Int
  PROVE  Unsigned((x + Modulus * p) * (y + Modulus * q)) = Unsigned(x * y)
<1>0. Modulus \in Nat /\ Modulus > 0
  BY WordSizes
<1>. DEFINE u == x * y
            r == Unsigned(u)
            z == (x + Modulus * p) * (y + Modulus * q)
            t == x * q + p * y + Modulus * (p * q)
<1>1. u \in Int /\ r \in Words
  BY UnsignedOf
<1>. HIDE DEF r
<1>2. PICK k \in Int : u = Modulus * k + r
  BY <1>1, UnsignedOf DEF r
<1>3. z = u + Modulus * t
  BY <1>0
<1>4. t \in Int /\ z \in Int
  BY <1>0
<1>5. r \in Int
  BY <1>1, WordRange
<1>. HIDE DEF u, z, t
<1>6. z = Modulus * (k + t) + r
  <2>1. Modulus * (k + t) = Modulus * k + Modulus * t
    BY <1>0, <1>4
  <2>. QED BY <1>0, <1>1, <1>2, <1>3, <1>4, <1>5, <2>1
<1>7. Unsigned(z) = r
  BY <1>1, <1>4, <1>6, UnsignedIs
<1>. QED BY <1>7 DEF r, u, z

LEMMA SignedWord ==
  ASSUME NEW x \in Words
  PROVE  /\ Signed(x) \in Int /\ FitsSigned(Signed(x))
         /\ Signed(x) = IF Negative(x) THEN x - Modulus ELSE x
         /\ Signed(x) < 0 <=> Negative(x)
         /\ Signed(x) = 0 <=> x = 0
         /\ Unsigned(Signed(x)) = x
<1>1. x \in Int /\ 0 <= x /\ x < Modulus /\ Modulus \in Nat /\ Smallest \in Nat /\ Modulus = 2 * Smallest
  BY WordSizes, WordRange
<1>2. Signed(x) = IF x >= Smallest THEN x - Modulus ELSE x
  BY DEF Signed
<1>3. Unsigned(Signed(x)) = x
  <2>1. CASE x >= Smallest
    <3>1. Signed(x) = x - Modulus
      BY <1>2, <2>1
    <3>2. Unsigned(x - Modulus) = (x - Modulus) + Modulus
      <4>1. x - Modulus \in Int /\ -Modulus <= x - Modulus /\ x - Modulus < 0
        BY <1>1
      <4>. QED BY <4>1, UnsignedNear
    <3>. QED BY <1>1, <3>1, <3>2
  <2>2. CASE ~(x >= Smallest)
    <3>1. Signed(x) = x
      BY <1>2, <2>2
    <3>. QED BY <1>1, <3>1, UnsignedNear
  <2>. QED BY <2>1, <2>2
<1>. QED BY <1>1, <1>2, <1>3 DEF Negative, FitsSigned

----------------------------------------------------------------------------
(* Words as sets of bits.                                                   *)

LEMMA DivShifted ==
  ASSUME NEW a \in Int, NEW m \in Nat, m > 0, NEW n \in Int
  PROVE  (a + m * n) \div m = (a \div m) + n /\ (a + m * n) % m = a % m
<1>. DEFINE q == a \div m
            r == a % m
            x == a + m * n
            p == q + n
<1>1. q \in Int /\ r \in 0..(m - 1) /\ a = m * q + r
  BY DivMod
<1>. HIDE DEF q, r
<1>2. m * p = m * q + m * n
  BY <1>1
<1>3. x \in Int /\ p \in Int /\ x = m * p + r
  BY <1>1, <1>2
<1>. HIDE DEF x, p
<1>4. x \div m = p /\ x % m = r
  BY <1>1, <1>3, DivModUnique
<1>. QED BY <1>4 DEF x, p, q, r

\* Bit k of an integer.
Odd(z) == z % 2 = 1
Bit(x, k) == Odd(x \div TwoTo[k])

LEMMA BitsAre ==
  ASSUME NEW x \in Words
  PROVE  Bits[x] = {k \in BitIndex : Bit(x, k)} /\ Bits[x] \subseteq BitIndex
BY DEF Bits, Bit, Odd

\* The low k + 1 bits are the low k bits and bit k.
LEMMA LowBits ==
  ASSUME NEW x \in Nat, NEW k \in Nat
  PROVE  x % TwoTo[k + 1] = (x % TwoTo[k]) + TwoTo[k] * ((x \div TwoTo[k]) % 2)
<1>. DEFINE m == TwoTo[k]
            q == x \div m
            r == x % m
            p == q \div 2
            b == q % 2
<1>1. m \in Nat /\ m > 0 /\ TwoTo[k + 1] = 2 * m
  BY PowerStep
<1>. HIDE DEF m
<1>2. q \in Int /\ r \in 0..(m - 1) /\ x = m * q + r
  BY <1>1, DivMod
<1>. HIDE DEF q, r
<1>3. p \in Int /\ b \in 0..1 /\ q = 2 * p + b
  BY <1>2, DivMod
<1>. HIDE DEF p, b
<1>4. m * q = (2 * m) * p + m * b
  BY <1>1, <1>3
<1>. DEFINE w == r + m * b
            t == 2 * m
<1>5. w \in 0..(t - 1)
  <2>1. CASE b = 0
    BY <1>1, <1>2, <2>1
  <2>2. CASE b = 1
    BY <1>1, <1>2, <2>2
  <2>. QED BY <1>3, <2>1, <2>2
<1>6. t \in Nat /\ t > 0 /\ x = t * p + w
  BY <1>1, <1>2, <1>3, <1>4
<1>. HIDE DEF w, t
<1>7. x % t = w
  BY <1>3, <1>5, <1>6, DivModUnique
<1>. QED BY <1>1, <1>7 DEF w, t, r, b, q, m

LEMMA BitsInjective ==
  ASSUME NEW x \in Words, NEW y \in Words, Bits[x] = Bits[y]
  PROVE  x = y
<1>0. x \in Nat /\ y \in Nat /\ x < Modulus /\ y < Modulus /\ WordBits \in Nat
  BY WordRange, WordSizes
<1>. DEFINE T == {k \in Nat : k <= WordBits => x % TwoTo[k] = y % TwoTo[k]}
<1>1. 0 \in T
  BY <1>0, PowerStep
<1>2. ASSUME NEW k \in Nat, k \in T PROVE k + 1 \in T
  <2>1. CASE k + 1 <= WordBits
    <3>1. k \in BitIndex
      BY <1>0, <2>1 DEF BitIndex
    <3>2. ((x \div TwoTo[k]) % 2 = 1) <=> ((y \div TwoTo[k]) % 2 = 1)
      BY <3>1, BitsAre DEF Bit, Odd
    <3>3. (x \div TwoTo[k]) % 2 \in 0..1 /\ (y \div TwoTo[k]) % 2 \in 0..1
      <4>1. TwoTo[k] \in Nat /\ TwoTo[k] > 0
        BY PowerStep
      <4>2. x \div TwoTo[k] \in Int /\ y \div TwoTo[k] \in Int
        BY <1>0, <4>1, DivMod
      <4>. QED BY <4>2
    <3>4. (x \div TwoTo[k]) % 2 = (y \div TwoTo[k]) % 2
      BY <3>2, <3>3
    <3>5. x % TwoTo[k] = y % TwoTo[k]
      BY <1>0, <1>2, <2>1
    <3>. QED BY <1>0, <3>4, <3>5, LowBits
  <2>. QED BY <2>1
<1>3. \A k \in Nat : k \in T
  <2>. HIDE DEF T
  <2>. QED BY <1>1, <1>2, Induction
<1>4. x % Modulus = y % Modulus
  BY <1>0, <1>3 DEF Modulus
<1>. QED BY <1>0, <1>4, UnsignedNear DEF Unsigned

LEMMA BitsSurjective ==
  ASSUME NEW S \in SUBSET BitIndex
  PROVE  \E x \in Words : Bits[x] = S
<1>. DEFINE Good(x, k) == \A j \in 0..(k - 1) : Bit(x, j) <=> j \in S
            T == {k \in Nat : \E x \in 0..(TwoTo[k] - 1) : Good(x, k)}
<1>1. 0 \in T
  <2>1. 0 \in 0..(TwoTo[0] - 1)
    BY PowerStep
  <2>. QED BY <2>1
<1>2. ASSUME NEW k \in Nat, k \in T PROVE k + 1 \in T
  <2>1. PICK x \in 0..(TwoTo[k] - 1) : Good(x, k)
    BY <1>2
  <2>2. TwoTo[k] \in Nat /\ TwoTo[k] > 0 /\ TwoTo[k + 1] = 2 * TwoTo[k]
    BY PowerStep
  <2>3. CASE k \notin S
    <3>1. ~Bit(x, k)
      <4>1. x = TwoTo[k] * 0 + x
        BY <2>2
      <4>2. x \div TwoTo[k] = 0
        BY <2>2, <4>1, DivModUnique
      <4>. QED BY <4>2 DEF Bit, Odd
    <3>2. Good(x, k + 1)
      BY <2>1, <2>3, <3>1
    <3>3. x \in 0..(TwoTo[k + 1] - 1)
      BY <2>2
    <3>. QED BY <3>2, <3>3
  <2>4. CASE k \in S
    <3>. DEFINE y == x + TwoTo[k] * 1
    <3>1. y \in 0..(TwoTo[k + 1] - 1)
      BY <2>2
    <3>2. Bit(y, k)
      <4>1. x = TwoTo[k] * 0 + x
        BY <2>2
      <4>2. x \div TwoTo[k] = 0
        BY <2>2, <4>1, DivModUnique
      <4>3. y \div TwoTo[k] = (x \div TwoTo[k]) + 1
        BY <2>2, DivShifted
      <4>. HIDE DEF y
      <4>. QED BY <4>2, <4>3 DEF Bit, Odd
    <3>3. ASSUME NEW j \in 0..(k - 1) PROVE Bit(y, j) <=> j \in S
      <4>. DEFINE d == k - j
                  m == TwoTo[j]
                  h == TwoTo[d - 1]
                  q == x \div m
      <4>1. d \in Nat /\ d - 1 \in Nat /\ j + d = k /\ j \in Nat /\ (d - 1) + 1 = d
        OBVIOUS
      <4>2. TwoTo[k] = m * (2 * h) /\ h \in Nat /\ m \in Nat /\ m > 0
        <5>1. TwoTo[j + d] = TwoTo[j] * TwoTo[d]
          BY <4>1, PowerSum
        <5>2. TwoTo[d] = 2 * TwoTo[d - 1]
          <6>1. TwoTo[(d - 1) + 1] = 2 * TwoTo[d - 1]
            BY <4>1, PowerStep
          <6>. QED BY <4>1, <6>1
        <5>. QED BY <4>1, <5>1, <5>2, PowerStep
      <4>. HIDE DEF d, m, h
      <4>3. y = x + m * (2 * h)
        BY <2>2, <4>2
      <4>4. 2 * h \in Int
        BY <4>2
      <4>5. (x + m * (2 * h)) \div m = q + 2 * h
        <5>. DEFINE g == 2 * h
        <5>1. g \in Int
          BY <4>2
        <5>. HIDE DEF g
        <5>2. (x + m * g) \div m = (x \div m) + g
          BY <4>2, <5>1, DivShifted
        <5>. QED BY <5>2 DEF g
      <4>6. q \in Int
        BY <4>2, DivMod
      <4>. HIDE DEF q, y
      <4>7. (q + 2 * h) % 2 = q % 2
        BY <4>2, <4>6
      <4>8. Bit(y, j) <=> Bit(x, j)
        BY <4>3, <4>5, <4>7 DEF Bit, Odd, m, q
      <4>. QED BY <2>1, <4>8
    <3>4. Good(y, k + 1)
      <4>. HIDE DEF y
      <4>. QED BY <2>4, <3>2, <3>3
    <3>. HIDE DEF y, Good
    <3>. QED BY <3>1, <3>4
  <2>. QED BY <2>3, <2>4
<1>3. WordBits \in T
  <2>. HIDE DEF T
  <2>. QED BY <1>1, <1>2, Induction, WordSizes
<1>4. PICK x \in 0..(TwoTo[WordBits] - 1) : Good(x, WordBits)
  BY <1>3
<1>5. x \in Words
  BY <1>4 DEF Words, Modulus
<1>6. Bits[x] = S
  <2>1. Bits[x] = {k \in BitIndex : Bit(x, k)}
    BY <1>5, BitsAre
  <2>2. \A k \in BitIndex : Bit(x, k) <=> k \in S
    BY <1>4 DEF BitIndex
  <2>. QED BY <2>1, <2>2
<1>. QED BY <1>5, <1>6

LEMMA WordOfBits ==
  ASSUME NEW S \in SUBSET BitIndex
  PROVE  ToWord[S] \in Words /\ Bits[ToWord[S]] = S
<1>1. ToWord[S] = CHOOSE x \in Words : Bits[x] = S
  BY DEF ToWord
<1>. QED BY <1>1, BitsSurjective

LEMMA BitsOfWord ==
  ASSUME NEW x \in Words
  PROVE  Bits[x] \subseteq BitIndex /\ ToWord[Bits[x]] = x
<1>1. Bits[x] \in SUBSET BitIndex
  BY BitsAre
<1>. DEFINE y == ToWord[Bits[x]]
<1>2. y \in Words /\ Bits[y] = Bits[x]
  BY <1>1, WordOfBits
<1>. HIDE DEF y
<1>3. y = x
  BY <1>2, BitsInjective
<1>. QED BY <1>1, <1>3 DEF y

LEMMA SignIsTopBit ==
  ASSUME NEW x \in Words
  PROVE  SignBit \in Bits[x] <=> Negative(x)
<1>1. Bits[x] = {k \in BitIndex : (x \div TwoTo[k]) % 2 = 1}
  BY DEF Bits
<1>2. SignBit \in BitIndex /\ Smallest = TwoTo[SignBit] /\ Smallest \in Nat /\ Smallest > 0
        /\ Modulus = 2 * Smallest /\ x \in Int /\ 0 <= x /\ x < Modulus
  BY WordSizes, WordRange DEF Smallest
<1>3. CASE Negative(x)
  <2>1. x = Smallest * 1 + (x - Smallest) /\ x - Smallest \in 0..(Smallest - 1)
    BY <1>2, <1>3 DEF Negative
  <2>. DEFINE r == x - Smallest
  <2>2. r \in 0..(Smallest - 1) /\ x = Smallest * 1 + r
    BY <2>1
  <2>. HIDE DEF r
  <2>3. x \div Smallest = 1
    BY <1>2, <2>2, DivModUnique
  <2>. QED BY <1>1, <1>2, <1>3, <2>3
<1>4. CASE ~Negative(x)
  <2>1. x = Smallest * 0 + x /\ x \in 0..(Smallest - 1)
    BY <1>2, <1>4 DEF Negative
  <2>2. x \div Smallest = 0
    BY <1>2, <2>1, DivModUnique
  <2>. QED BY <1>1, <1>2, <1>4, <2>2
<1>. QED BY <1>3, <1>4

\* The bitwise operations give words, whatever their order.
LEMMA BitwiseWords ==
  ASSUME NEW x \in Words, NEW y \in Words
  PROVE  /\ And(x, y) \in Words /\ Bits[And(x, y)] = Bits[x] \cap Bits[y] /\ And(x, y) = And(y, x)
         /\ Or(x, y) \in Words /\ Bits[Or(x, y)] = Bits[x] \cup Bits[y] /\ Or(x, y) = Or(y, x)
         /\ Xor(x, y) \in Words
         /\ Bits[Xor(x, y)] = (Bits[x] \ Bits[y]) \cup (Bits[y] \ Bits[x])
         /\ Xor(x, y) = Xor(y, x)
         /\ Not(x) \in Words
<1>1. Bits[x] \subseteq BitIndex /\ Bits[y] \subseteq BitIndex
  BY BitsOfWord
<1>2. Not(x) \in Words
  BY WordRange, WordSizes DEF Not
<1>3. Bits[x] \cap Bits[y] \in SUBSET BitIndex /\ Bits[x] \cup Bits[y] \in SUBSET BitIndex
        /\ (Bits[x] \ Bits[y]) \cup (Bits[y] \ Bits[x]) \in SUBSET BitIndex
  BY <1>1
<1>4. And(x, y) \in Words /\ Bits[And(x, y)] = Bits[x] \cap Bits[y]
  BY <1>3, WordOfBits DEF And
<1>5. Or(x, y) \in Words /\ Bits[Or(x, y)] = Bits[x] \cup Bits[y]
  BY <1>3, WordOfBits DEF Or
<1>6. Xor(x, y) \in Words /\ Bits[Xor(x, y)] = (Bits[x] \ Bits[y]) \cup (Bits[y] \ Bits[x])
  BY <1>3, WordOfBits DEF Xor
<1>7. And(x, y) = And(y, x)
  <2>1. Bits[x] \cap Bits[y] = Bits[y] \cap Bits[x]
    OBVIOUS
  <2>. QED BY <2>1, Zenon DEF And
<1>8. Or(x, y) = Or(y, x)
  <2>1. Bits[x] \cup Bits[y] = Bits[y] \cup Bits[x]
    OBVIOUS
  <2>. QED BY <2>1, Zenon DEF Or
<1>9. Xor(x, y) = Xor(y, x)
  <2>1. (Bits[x] \ Bits[y]) \cup (Bits[y] \ Bits[x]) = (Bits[y] \ Bits[x]) \cup (Bits[x] \ Bits[y])
    OBVIOUS
  <2>. QED BY <2>1, Zenon DEF Xor
<1>. QED BY <1>2, <1>4, <1>5, <1>6, <1>7, <1>8, <1>9

----------------------------------------------------------------------------
(* Aligned addresses: clearing the two low bits.                            *)

LEMMA FourIsPower == TwoTo[0] = 1 /\ TwoTo[1] = 2 /\ TwoTo[2] = 4
<1>1. TwoTo[0 + 1] = 2 * TwoTo[0] /\ TwoTo[1 + 1] = 2 * TwoTo[1] /\ TwoTo[0] = 1
  BY PowerStep
<1>. QED BY <1>1

LEMMA AlignedBits ==
  ASSUME NEW x \in Words
  PROVE  x - (x % 4) \in Words /\ Bits[x - (x % 4)] = Bits[x] \ {0, 1}
<1>. DEFINE y == x - (x % 4)
            q == x \div 4
            r == x % 4
<1>1. x \in Nat /\ q \in Nat /\ r \in 0..3 /\ x = 4 * q + r
  BY WordRange
<1>2. y \in Words /\ y = 4 * q /\ y \in Nat
  BY <1>1, WordRange
<1>3. \A k \in BitIndex : Bit(y, k) <=> Bit(x, k) /\ k \notin {0, 1}
  <2>. SUFFICES ASSUME NEW k \in BitIndex PROVE Bit(y, k) <=> Bit(x, k) /\ k \notin {0, 1}
    OBVIOUS
  <2>. HIDE DEF y, q, r
  <2>0. k \in Nat
    BY WordSizes DEF BitIndex
  <2>1. CASE k = 0
    <3>1. y \div 1 = y
      BY <1>2
    <3>. QED BY <1>1, <1>2, <2>1, <3>1, FourIsPower DEF Bit, Odd
  <2>2. CASE k = 1
    <3>1. y \div 2 = 2 * q
      BY <1>1, <1>2
    <3>. QED BY <1>1, <2>2, <3>1, FourIsPower DEF Bit, Odd
  <2>3. CASE k \notin {0, 1}
    <3>. DEFINE h == TwoTo[k - 2]
    <3>1. k - 2 \in Nat /\ 2 + (k - 2) = k
      BY <2>0, <2>3
    <3>2. TwoTo[k] = 4 * h /\ h \in Nat /\ h > 0
      <4>1. TwoTo[2 + (k - 2)] = TwoTo[2] * TwoTo[k - 2]
        BY <3>1, PowerSum
      <4>. QED BY <3>1, <4>1, PowerStep, FourIsPower
    <3>. HIDE DEF h
    <3>3. y \div 4 = q /\ x \div 4 = q
      BY <1>1, <1>2 DEF q
    <3>4. (y \div 4) \div h = y \div (4 * h) /\ (x \div 4) \div h = x \div (4 * h)
      BY <1>1, <1>2, <3>2, DivDiv
    <3>. QED BY <2>3, <3>2, <3>3, <3>4 DEF Bit
  <2>. QED BY <2>1, <2>2, <2>3
<1>4. Bits[y] = {k \in BitIndex : Bit(y, k)} /\ Bits[x] = {k \in BitIndex : Bit(x, k)}
  BY <1>2, BitsAre
<1>. HIDE DEF y
<1>5. Bits[y] = Bits[x] \ {0, 1}
  BY <1>3, <1>4
<1>. QED BY <1>2, <1>5 DEF y

LEMMA AllOnesBits == Bits[AllOnes] = BitIndex
<1>1. \A k \in BitIndex : Bit(AllOnes, k)
  <2>. SUFFICES ASSUME NEW k \in BitIndex PROVE Bit(AllOnes, k)
    OBVIOUS
  <2>. DEFINE m == TwoTo[k]
              d == WordBits - k
              h == TwoTo[d - 1]
              p == 2 * h - 1
              r == m - 1
  <2>1. k \in Nat /\ d \in Nat /\ d - 1 \in Nat /\ k + d = WordBits /\ (d - 1) + 1 = d
    BY WordSizes DEF BitIndex
  <2>2. Modulus = m * TwoTo[d] /\ m \in Nat /\ m > 0
    <3>1. TwoTo[k + d] = TwoTo[k] * TwoTo[d]
      BY <2>1, PowerSum
    <3>2. TwoTo[k] \in Nat /\ TwoTo[k] > 0
      BY <2>1, PowerStep
    <3>. QED BY <2>1, <3>1, <3>2, Zenon DEF Modulus
  <2>3. TwoTo[d] = 2 * h /\ h \in Nat
    <3>1. TwoTo[(d - 1) + 1] = 2 * TwoTo[d - 1]
      BY <2>1, PowerStep
    <3>. QED BY <2>1, <3>1, PowerStep
  <2>4. p \in Int /\ p % 2 = 1 /\ p + 1 = TwoTo[d]
    BY <2>3
  <2>. HIDE DEF h, d, m, p
  <2>5. m * (p + 1) = m * p + m
    BY <2>2, <2>4
  <2>6. AllOnes = m * p + r /\ r \in 0..(m - 1) /\ AllOnes \in Int
    <3>1. AllOnes = Modulus - 1 /\ Modulus \in Nat /\ Modulus = m * (p + 1)
      BY <2>2, <2>4, WordRange, WordSizes
    <3>2. m * p \in Int
      BY <2>2, <2>4
    <3>. QED BY <2>2, <2>4, <2>5, <3>1, <3>2
  <2>. HIDE DEF r
  <2>7. AllOnes \div m = p
    BY <2>2, <2>4, <2>6, DivModUnique
  <2>. QED BY <2>4, <2>7 DEF Bit, Odd, m
<1>. QED BY <1>1, WordRange, BitsAre

LEMMA AlignedByMask ==
  ASSUME NEW x \in Words
  PROVE  And(x, AllOnes - 3) = x - (x % 4) /\ x - (x % 4) \in Words
<1>1. AllOnes % 4 = 3 /\ AllOnes \in Words
  <2>1. WordBits - 2 \in Nat /\ 2 + (WordBits - 2) = WordBits
    BY WordSizes
  <2>. DEFINE h == TwoTo[WordBits - 2]
  <2>2. Modulus = 4 * h /\ h \in Nat
    <3>1. TwoTo[2 + (WordBits - 2)] = TwoTo[2] * TwoTo[WordBits - 2]
      BY <2>1, PowerSum
    <3>. QED BY <2>1, <3>1, PowerStep, FourIsPower DEF Modulus
  <2>. HIDE DEF h
  <2>. QED BY <2>2, WordRange
<1>2. AllOnes - 3 \in Words /\ Bits[AllOnes - 3] = Bits[AllOnes] \ {0, 1}
  <2>1. AllOnes - (AllOnes % 4) \in Words /\ Bits[AllOnes - (AllOnes % 4)] = Bits[AllOnes] \ {0, 1}
    BY <1>1, AlignedBits
  <2>. QED BY <1>1, <2>1
<1>. DEFINE y == x - (x % 4)
            m == AllOnes - 3
            a == And(x, m)
<1>3. y \in Words /\ Bits[y] = Bits[x] \ {0, 1}
  BY AlignedBits
<1>. HIDE DEF y, m
<1>4. a \in Words /\ Bits[a] = Bits[x] \cap Bits[m]
  BY <1>2, BitwiseWords DEF m
<1>5. Bits[a] = Bits[y]
  BY <1>2, <1>3, <1>4, BitsOfWord, AllOnesBits DEF m
<1>. HIDE DEF a
<1>6. a = y
  BY <1>3, <1>4, <1>5, BitsInjective
<1>. QED BY <1>3, <1>6 DEF a, y, m

----------------------------------------------------------------------------
(* Sign tests: the overflow of a sum or a difference from three words.      *)

LEMMA AddSigns ==
  ASSUME NEW a \in Words, NEW b \in Words
  PROVE  LET result == Unsigned(a + b) IN
         (SignBit \notin Bits[Xor(a, b)] /\ SignBit \in Bits[Xor(a, result)])
           <=> ~FitsSigned(Signed(a) + Signed(b))
<1>. DEFINE r == Unsigned(a + b)
<1>1. a \in Int /\ 0 <= a /\ a < Modulus /\ b \in Int /\ 0 <= b /\ b < Modulus
        /\ Modulus = 2 * Smallest /\ Smallest \in Nat /\ Smallest > 0
  BY WordRange, WordSizes
<1>2. r = (IF a + b < Modulus THEN a + b ELSE a + b - Modulus) /\ r \in Words
  <2>1. a + b \in Int
    BY <1>1
  <2>2. r \in Words
    BY <2>1, UnsignedOf
  <2>3. a + b < Modulus => r = a + b
    BY <1>1, <2>1, UnsignedNear
  <2>4. a + b >= Modulus => r = a + b - Modulus
    BY <1>1, <2>1, UnsignedNear
  <2>. HIDE DEF r
  <2>. QED BY <1>1, <2>2, <2>3, <2>4
<1>. HIDE DEF r
<1>3. SignBit \in Bits[Xor(a, b)] <=> Negative(a) # Negative(b)
  <2>1. Bits[Xor(a, b)] = (Bits[a] \ Bits[b]) \cup (Bits[b] \ Bits[a])
    BY BitwiseWords
  <2>. QED BY <2>1, SignIsTopBit DEF Negative
<1>4. SignBit \in Bits[Xor(a, r)] <=> Negative(a) # Negative(r)
  <2>1. Bits[Xor(a, r)] = (Bits[a] \ Bits[r]) \cup (Bits[r] \ Bits[a])
    BY <1>2, BitwiseWords
  <2>. QED BY <1>2, <2>1, SignIsTopBit DEF Negative
<1>5. (SignBit \notin Bits[Xor(a, b)] /\ SignBit \in Bits[Xor(a, r)])
        <=> ~FitsSigned(Signed(a) + Signed(b))
  BY <1>1, <1>2, <1>3, <1>4 DEF Negative, FitsSigned, Signed
<1>. QED BY <1>5 DEF r

LEMMA SubtractSigns ==
  ASSUME NEW a \in Words, NEW b \in Words
  PROVE  LET result == Unsigned(b - a) IN
         (SignBit \in Bits[Xor(b, a)] /\ SignBit \in Bits[Xor(b, result)])
           <=> ~FitsSigned(Signed(b) - Signed(a))
<1>. DEFINE r == Unsigned(b - a)
<1>1. a \in Int /\ 0 <= a /\ a < Modulus /\ b \in Int /\ 0 <= b /\ b < Modulus
        /\ Modulus = 2 * Smallest /\ Smallest \in Nat /\ Smallest > 0
  BY WordRange, WordSizes
<1>2. r = (IF b >= a THEN b - a ELSE b - a + Modulus) /\ r \in Words
  <2>1. b - a \in Int
    BY <1>1
  <2>2. r \in Words
    BY <2>1, UnsignedOf
  <2>3. b >= a => r = b - a
    BY <1>1, <2>1, UnsignedNear
  <2>4. b < a => r = b - a + Modulus
    BY <1>1, <2>1, UnsignedNear
  <2>. HIDE DEF r
  <2>. QED BY <1>1, <2>2, <2>3, <2>4
<1>. HIDE DEF r
<1>3. SignBit \in Bits[Xor(b, a)] <=> Negative(b) # Negative(a)
  <2>1. Bits[Xor(b, a)] = (Bits[b] \ Bits[a]) \cup (Bits[a] \ Bits[b])
    BY BitwiseWords
  <2>. QED BY <2>1, SignIsTopBit DEF Negative
<1>4. SignBit \in Bits[Xor(b, r)] <=> Negative(b) # Negative(r)
  <2>1. Bits[Xor(b, r)] = (Bits[b] \ Bits[r]) \cup (Bits[r] \ Bits[b])
    BY <1>2, BitwiseWords
  <2>. QED BY <1>2, <2>1, SignIsTopBit DEF Negative
<1>5. (SignBit \in Bits[Xor(b, a)] /\ SignBit \in Bits[Xor(b, r)])
        <=> ~FitsSigned(Signed(b) - Signed(a))
  BY <1>1, <1>2, <1>3, <1>4 DEF Negative, FitsSigned, Signed
<1>. QED BY <1>5 DEF r

----------------------------------------------------------------------------
(* Shifts, extensions and the count of leading zeros.                       *)

\* A right shift of the signed value keeps a word a word.
LEMMA SignedShift ==
  ASSUME NEW x \in Words, NEW k \in Nat
  PROVE  /\ ShiftRightSigned(x, k) \in Words
         /\ ShiftRightSigned(x, SignBit) = IF Negative(x) THEN AllOnes ELSE 0
<1>1. Signed(x) \in Int /\ TwoTo[k] \in Nat /\ TwoTo[k] > 0
  BY SignedWord, PowerStep
<1>2. ShiftRightSigned(x, k) \in Words
  BY <1>1, DivMod, UnsignedOf DEF ShiftRightSigned
<1>. DEFINE s == Signed(x)
            h == Smallest
<1>3. s \in Int /\ h \in Nat /\ h > 0 /\ -h <= s /\ s < h /\ (s < 0 <=> Negative(x)) /\ h = TwoTo[SignBit]
  BY SignedWord, WordSizes DEF FitsSigned, Smallest
<1>4. CASE Negative(x)
  <2>. DEFINE r == s + h
  <2>1. r \in 0..(h - 1) /\ s = h * (-1) + r
    BY <1>3, <1>4
  <2>. HIDE DEF r, s, h
  <2>2. s \div h = -1
    BY <1>3, <2>1, DivModUnique
  <2>3. Unsigned(-1) = AllOnes
    BY UnsignedNear, WordRange, WordSizes
  <2>4. ShiftRightSigned(x, SignBit) = AllOnes
    BY <1>3, <2>2, <2>3, Zenon DEF ShiftRightSigned, s
  <2>. QED BY <1>2, <1>4, <2>4
<1>5. CASE ~Negative(x)
  <2>1. s \in 0..(h - 1) /\ s = h * 0 + s
    BY <1>3, <1>5
  <2>. HIDE DEF s, h
  <2>2. s \div h = 0
    BY <1>3, <2>1, DivModUnique
  <2>3. Unsigned(0) = 0
    BY UnsignedNear, WordSizes
  <2>4. ShiftRightSigned(x, SignBit) = 0
    BY <1>3, <2>2, <2>3, Zenon DEF ShiftRightSigned, s
  <2>. QED BY <1>2, <1>5, <2>4
<1>. QED BY <1>2, <1>4, <1>5

\* What a left shift leaves of a word are the bits a right shift drops.
LEMMA LowPart ==
  ASSUME NEW x \in Words, NEW k \in Nat, k <= WordBits
  PROVE  /\ Unsigned(x * TwoTo[WordBits - k]) = (x % TwoTo[k]) * TwoTo[WordBits - k]
         /\ (x % TwoTo[k]) * TwoTo[WordBits - k] \in Words
         /\ Unsigned(x * TwoTo[WordBits - k]) # 0 <=> x % TwoTo[k] # 0
<1>. DEFINE m == TwoTo[k]
            n == TwoTo[WordBits - k]
            r == x % m
<1>1. WordBits - k \in Nat /\ k + (WordBits - k) = WordBits /\ x \in Int
  BY WordSizes, WordRange
<1>2. m \in Nat /\ m > 0 /\ n \in Nat /\ n > 0 /\ Modulus = m * n
  <2>1. TwoTo[k + (WordBits - k)] = TwoTo[k] * TwoTo[WordBits - k]
    BY <1>1, PowerSum
  <2>2. m \in Nat /\ m > 0 /\ n \in Nat /\ n > 0
    BY <1>1, PowerStep
  <2>3. Modulus = m * n
    BY <1>1, <2>1, Zenon DEF Modulus
  <2>. QED BY <2>2, <2>3
<1>. HIDE DEF m, n
<1>3. (x * n) % (m * n) = r * n
  BY <1>1, <1>2, ModScaled
<1>4. r \in Int /\ x * n \in Int
  BY <1>1, <1>2, DivMod
<1>. HIDE DEF r
<1>5. Unsigned(x * n) = r * n /\ Unsigned(x * n) \in Words
  BY <1>2, <1>3, <1>4, UnsignedOf DEF Unsigned
<1>6. r * n = 0 <=> r = 0
  <2>1. r > 0 => r * n > 0
    BY <1>2, <1>4
  <2>2. r < 0 => r * n < 0
    BY <1>2, <1>4
  <2>. QED BY <1>2, <1>4, <2>1, <2>2
<1>. QED BY <1>5, <1>6 DEF m, n, r

\* Shifting the low part up and arithmetically down again extends its sign.
LEMMA ExtendByShifts ==
  ASSUME NEW x \in Words, NEW k \in Nat, 0 < k, k <= WordBits
  PROVE  LET up == WordBits - k
             low == x % TwoTo[k]
         IN  ShiftRightSigned(Unsigned(x * TwoTo[up]), up)
               = low + (IF low >= TwoTo[k - 1] THEN Modulus - TwoTo[k] ELSE 0)
<1>. DEFINE up == WordBits - k
            m == TwoTo[k]
            n == TwoTo[up]
            h == TwoTo[k - 1]
            r == x % m
            y == r * n
<1>1. up \in Nat /\ k + up = WordBits /\ k - 1 \in Nat /\ (k - 1) + 1 = k /\ (k - 1) + up = SignBit /\ x \in Int
  BY WordSizes, WordRange
<1>2. m \in Nat /\ m > 0 /\ n \in Nat /\ n > 0 /\ h \in Nat /\ h > 0 /\ Modulus = m * n /\ Smallest = h * n /\ m = 2 * h
  <2>1. TwoTo[(k - 1) + 1] = 2 * TwoTo[k - 1]
    BY <1>1, PowerStep
  <2>2. TwoTo[k + up] = TwoTo[k] * TwoTo[up] /\ TwoTo[(k - 1) + up] = TwoTo[k - 1] * TwoTo[up]
    BY <1>1, PowerSum
  <2>3. m \in Nat /\ m > 0 /\ n \in Nat /\ n > 0 /\ h \in Nat /\ h > 0
    BY <1>1, PowerStep
  <2>4. Modulus = m * n /\ Smallest = h * n
    BY <1>1, <2>2, Zenon DEF Modulus, Smallest
  <2>5. m = 2 * h
    BY <1>1, <2>1
  <2>. QED BY <2>3, <2>4, <2>5
<1>3. Unsigned(x * n) = y /\ y \in Words
  BY LowPart
<1>4. r \in 0..(m - 1)
  BY <1>1, <1>2, DivMod
<1>5. m <= Modulus
  <2>1. TwoTo[k] <= TwoTo[WordBits]
    BY PowerOrder, WordSizes
  <2>. QED BY <2>1 DEF Modulus
<1>. HIDE DEF m, n, h, r, y, up
<1>6. y = r * n
  BY DEF y
<1>7. y >= Smallest <=> r >= h
  <2>1. r >= h => r * n >= h * n
    BY <1>2, <1>4
  <2>2. r < h => r * n < h * n
    BY <1>2, <1>4
  <2>. QED BY <1>2, <1>4, <1>6, <2>1, <2>2
<1>8. CASE r >= h
  <2>. DEFINE z == r - m
  <2>1. Signed(y) = y - Modulus
    BY <1>7, <1>8 DEF Signed
  <2>2. z * n = r * n - m * n
    BY <1>2, <1>4
  <2>3. z \in Int
    BY <1>2, <1>4
  <2>4. Signed(y) = n * z + 0
    <3>1. n * z = z * n
      BY <1>2, <2>3
    <3>2. n * z \in Int
      BY <1>2, <2>3
    <3>. HIDE DEF z
    <3>. QED BY <1>2, <1>6, <2>1, <2>2, <3>1, <3>2
  <2>5. Signed(y) \in Int
    BY <1>3, SignedWord
  <2>. HIDE DEF z
  <2>6. Signed(y) \div n = z
    <3>1. 0 \in 0..(n - 1)
      BY <1>2
    <3>. QED BY <1>2, <2>3, <2>4, <2>5, <3>1, DivModUnique
  <2>7. Unsigned(z) = r - m + Modulus
    BY <1>2, <1>4, <1>5, <2>3, UnsignedNear, WordSizes DEF z
  <2>8. ShiftRightSigned(y, up) = r - m + Modulus
    BY <2>6, <2>7 DEF ShiftRightSigned, n
  <2>. QED BY <1>2, <1>3, <1>4, <1>8, <2>8, WordSizes DEF r, m, n, h, up
<1>9. CASE ~(r >= h)
  <2>1. Signed(y) = y
    BY <1>7, <1>9 DEF Signed
  <2>2. y = n * r + 0
    BY <1>2, <1>4, <1>6
  <2>3. y \div n = r
    <3>1. 0 \in 0..(n - 1) /\ y \in Int /\ r \in Int
      BY <1>2, <1>3, <1>4, WordRange
    <3>. QED BY <1>2, <2>2, <3>1, DivModUnique
  <2>4. Unsigned(r) = r
    BY <1>2, <1>4, <1>5, UnsignedNear
  <2>5. ShiftRightSigned(y, up) = r
    BY <2>1, <2>3, <2>4 DEF ShiftRightSigned, n
  <2>. QED BY <1>2, <1>3, <1>4, <1>9, <2>5 DEF r, m, n, h, up
<1>. QED BY <1>8, <1>9

\* A word that is not zero has a highest bit.
LEMMA HighestBit ==
  ASSUME NEW x \in Words, x # 0
  PROVE  \E b \in BitIndex : /\ TwoTo[b] <= x /\ x < TwoTo[b + 1]
                             /\ b \in Bits[x]
                             /\ \A k \in BitIndex : k > b => k \notin Bits[x]
<1>0. x \in Nat /\ x >= 1 /\ x < TwoTo[WordBits] /\ WordBits \in Nat
  BY WordRange, WordSizes DEF Modulus
<1>. DEFINE T == {k \in Nat : x < TwoTo[k] => \E b \in 0..(k - 1) : TwoTo[b] <= x /\ x < TwoTo[b + 1]}
<1>1. 0 \in T
  BY <1>0, PowerStep
<1>2. ASSUME NEW k \in Nat, k \in T PROVE k + 1 \in T
  <2>1. CASE x < TwoTo[k]
    BY <1>2, <2>1
  <2>2. CASE ~(x < TwoTo[k])
    <3>1. TwoTo[k] <= x /\ k \in 0..((k + 1) - 1)
      BY <1>0, <2>2, PowerStep
    <3>. QED BY <3>1
  <2>. QED BY <2>1, <2>2
<1>3. WordBits \in T
  <2>. HIDE DEF T
  <2>. QED BY <1>0, <1>1, <1>2, Induction
<1>4. PICK b \in 0..(WordBits - 1) : TwoTo[b] <= x /\ x < TwoTo[b + 1]
  BY <1>0, <1>3
<1>5. b \in BitIndex /\ b \in Nat
  BY <1>4 DEF BitIndex
<1>6. Bits[x] = {k \in BitIndex : Bit(x, k)}
  BY BitsAre
<1>7. Bit(x, b)
  <2>. DEFINE m == TwoTo[b]
              r == x - m
  <2>1. m \in Nat /\ m > 0 /\ TwoTo[b + 1] = 2 * m
    BY <1>5, PowerStep
  <2>2. r \in 0..(m - 1) /\ x = m * 1 + r
    BY <1>0, <1>4, <2>1
  <2>. HIDE DEF m, r
  <2>3. x \div m = 1
    BY <1>0, <2>1, <2>2, DivModUnique
  <2>. QED BY <2>3 DEF Bit, Odd, m
<1>8. ASSUME NEW k \in BitIndex, k > b PROVE ~Bit(x, k)
  <2>. DEFINE m == TwoTo[k]
  <2>1. k \in Nat /\ b + 1 \in Nat /\ b + 1 <= k
    BY <1>5, <1>8 DEF BitIndex
  <2>2. m \in Nat /\ m > 0 /\ TwoTo[b + 1] <= m /\ TwoTo[b + 1] \in Nat
    BY <2>1, PowerOrder, PowerStep
  <2>3. x \in 0..(m - 1) /\ x = m * 0 + x
    BY <1>0, <1>4, <2>2
  <2>. HIDE DEF m
  <2>4. x \div m = 0
    BY <1>0, <2>2, <2>3, DivModUnique
  <2>. QED BY <2>4 DEF Bit, Odd, m
<1>. QED BY <1>4, <1>5, <1>6, <1>7, <1>8

\* An unsigned quotient of a word is a word, and so is a right shift.
LEMMA QuotientWord ==
  ASSUME NEW x \in Words, NEW m \in Nat, m > 0
  PROVE  x \div m \in Words
<1>. DEFINE q == x \div m
            r == x % m
<1>1. x \in Int /\ 0 <= x /\ x < Modulus
  BY WordRange
<1>2. q \in Int /\ r \in 0..(m - 1) /\ x = m * q + r
  BY <1>1, DivMod
<1>. HIDE DEF q, r
<1>3. q >= 0
  <2>1. q <= -1 => m * q <= m * (-1)
    BY <1>1, <1>2
  <2>. QED BY <1>1, <1>2, <2>1
<1>4. q <= x
  <2>1. m * q >= q
    BY <1>1, <1>2, <1>3
  <2>. QED BY <1>1, <1>2, <2>1
<1>5. q \in Words
  BY <1>1, <1>2, <1>3, <1>4, WordRange
<1>. QED BY <1>5 DEF q

LEMMA LogicalShift ==
  ASSUME NEW x \in Words, NEW k \in Nat
  PROVE  x \div TwoTo[k] \in Words
BY QuotientWord, PowerStep

\* A register's shift amount has one bit more than a shift within the word.
LEMMA ShiftAmounts ==
  ASSUME NEW x \in Words
  PROVE  /\ x % (2 * WordBits) \in Nat
         /\ x % WordBits \in BitIndex
<1>1. WordBits \in Nat /\ WordBits > 0 /\ 2 * WordBits \in Nat /\ 2 * WordBits > 0 /\ x \in Int
  BY WordSizes, WordRange
<1>2. x % (2 * WordBits) \in 0..(2 * WordBits - 1) /\ x % WordBits \in 0..(WordBits - 1)
  BY <1>1, DivMod
<1>. QED BY <1>1, <1>2 DEF BitIndex

\* The zeros in front of the highest bit, counted from either end.
LEMMA LeadingZeros ==
  ASSUME NEW x \in Words, x # 0
  PROVE  LET counted == CHOOSE n \in BitIndex : /\ PpcBit(n) \in Bits[x]
                                                /\ \A k \in 0..(n - 1) : PpcBit(k) \notin Bits[x]
             bsr == CHOOSE b \in BitIndex : TwoTo[b] <= x /\ x < TwoTo[b + 1]
         IN  SignBit - bsr = counted /\ counted \in BitIndex
<1>. DEFINE First(n) == /\ PpcBit(n) \in Bits[x]
                        /\ \A k \in 0..(n - 1) : PpcBit(k) \notin Bits[x]
            Top(b) == TwoTo[b] <= x /\ x < TwoTo[b + 1]
            counted == CHOOSE n \in BitIndex : First(n)
            bsr == CHOOSE b \in BitIndex : Top(b)
<1>1. PICK b \in BitIndex : Top(b) /\ b \in Bits[x] /\ \A k \in BitIndex : k > b => k \notin Bits[x]
  BY HighestBit
<1>2. BitIndex = 0..SignBit /\ SignBit \in Nat /\ x \in Int
  BY WordSizes, WordRange DEF BitIndex
<1>3. ASSUME NEW c \in BitIndex, Top(c) PROVE c = b
  <2>1. TwoTo[b] \in Nat /\ TwoTo[c] \in Nat /\ TwoTo[b + 1] \in Nat /\ TwoTo[c + 1] \in Nat
    <3>1. b \in Nat /\ c \in Nat /\ b + 1 \in Nat /\ c + 1 \in Nat
      BY <1>1, <1>2
    <3>. QED BY <3>1, PowerStep
  <2>2. b < c => TwoTo[b + 1] <= TwoTo[c]
    <3>1. b + 1 \in Nat /\ c \in Nat /\ (b < c => b + 1 <= c)
      BY <1>1, <1>2
    <3>. QED BY <3>1, PowerOrder
  <2>3. c < b => TwoTo[c + 1] <= TwoTo[b]
    <3>1. c + 1 \in Nat /\ b \in Nat /\ (c < b => c + 1 <= b)
      BY <1>1, <1>2
    <3>. QED BY <3>1, PowerOrder
  <2>. QED BY <1>1, <1>2, <1>3, <2>1, <2>2, <2>3
<1>4. bsr = b
  <2>1. bsr \in BitIndex /\ Top(bsr)
    BY <1>1, Zenon
  <2>. QED BY <1>3, <2>1, Zenon
<1>. DEFINE z == SignBit - b
<1>5. z \in BitIndex /\ PpcBit(z) = b
  BY <1>1, <1>2 DEF PpcBit
<1>6. First(z)
  BY <1>1, <1>2, <1>5 DEF PpcBit
<1>7. ASSUME NEW n \in BitIndex, First(n) PROVE n = z
  <2>1. PpcBit(n) = SignBit - n /\ PpcBit(n) \in BitIndex
    BY <1>2 DEF PpcBit
  <2>2. SignBit - n <= b
    BY <1>1, <1>2, <1>7, <2>1
  <2>3. n > z => z \in 0..(n - 1)
    BY <1>1, <1>2, <1>5
  <2>4. ~(n > z)
    BY <1>1, <1>5, <1>7, <2>3
  <2>. QED BY <1>1, <1>2, <2>2, <2>4
<1>8. counted = z
  <2>. HIDE DEF z
  <2>1. counted \in BitIndex /\ First(counted)
    BY <1>5, <1>6, Zenon
  <2>. HIDE DEF counted, First
  <2>. QED BY <1>7, <2>1, Zenon
<1>. QED BY <1>4, <1>5, <1>8

\* A mask of the rotations is a word.
LEMMA MaskWord ==
  ASSUME NEW begin, NEW end
  PROVE  rotate_mask(begin, end) \in Words
<1>. DEFINE S == {PpcBit(n) : n \in {b \in BitIndex : IF begin <= end
                                                       THEN begin <= b /\ b <= end
                                                       ELSE begin <= b \/ b <= end}}
<1>1. \A n \in BitIndex : PpcBit(n) \in BitIndex
  BY WordSizes DEF BitIndex, PpcBit
<1>2. S \in SUBSET BitIndex
  BY <1>1
<1>3. rotate_mask(begin, end) = ToWord[S]
  BY Zenon DEF rotate_mask
<1>. HIDE DEF S
<1>. QED BY <1>2, <1>3, WordOfBits

\* What a mask keeps of anything is a word.
LEMMA MaskedWord ==
  ASSUME NEW x, NEW mask \in Words
  PROVE  And(x, mask) \in Words
<1>1. Bits[x] \cap Bits[mask] \in SUBSET BitIndex
  BY BitsOfWord
<1>. QED BY <1>1, WordOfBits DEF And
=============================================================================
