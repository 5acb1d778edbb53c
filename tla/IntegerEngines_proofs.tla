----------------------- MODULE IntegerEngines_proofs -----------------------
(***************************************************************************)
(* The recompiler's emitted code and the interpreter agree on every integer *)
(* instruction, for words of any width and any program of the assumption;   *)
(* pairs of them compute exactly on double words.                           *)
(***************************************************************************)
EXTENDS IntegerEngines, GuestWord_proofs

----------------------------------------------------------------------------
(* Machines: equality field by field, and the interpreter's updates.        *)

LEMMA MachineFields ==
  ASSUME NEW R, NEW s \in Machines(R)
  PROVE  /\ s.gpr \in [R -> Words] /\ s.cr \in SUBSET BitIndex /\ s.xer \in SUBSET BitIndex
         /\ s.lr \in Words /\ s.ctr \in Words /\ s.gqr \in Words /\ s.cia \in Words
         /\ DOMAIN s.gpr = R
         /\ s = [gpr |-> s.gpr, cr |-> s.cr, xer |-> s.xer, lr |-> s.lr, ctr |-> s.ctr,
                 gqr |-> s.gqr, cia |-> s.cia]
BY DEF Machines

LEMMA MachineEqual ==
  ASSUME NEW R, NEW s \in Machines(R), NEW t \in Machines(R),
         s.gpr = t.gpr, s.cr = t.cr, s.xer = t.xer, s.lr = t.lr, s.ctr = t.ctr,
         s.gqr = t.gqr, s.cia = t.cia
  PROVE  s = t
<1>1. s = [gpr |-> s.gpr, cr |-> s.cr, xer |-> s.xer, lr |-> s.lr, ctr |-> s.ctr,
           gqr |-> s.gqr, cia |-> s.cia]
  BY MachineFields
<1>2. t = [gpr |-> t.gpr, cr |-> t.cr, xer |-> t.xer, lr |-> t.lr, ctr |-> t.ctr,
           gqr |-> t.gqr, cia |-> t.cia]
  BY MachineFields
<1>. QED BY <1>1, <1>2, Zenon

\* The native machine with its host registers over the general ones, at address a.
View(n, a) ==
  [gpr |-> [r \in DOMAIN n.state.gpr |-> Guest(n, r)], cr |-> n.state.cr, xer |-> n.state.xer,
   lr |-> n.state.lr, ctr |-> n.state.ctr, gqr |-> n.state.gqr, cia |-> a]

\* A native machine whose clean host registers are those of its state.
IsNative(n, R) ==
  /\ n = [state |-> n.state, host |-> n.host, dirty |-> n.dirty]
  /\ n.state \in Machines(R)
  /\ DOMAIN n.host \subseteq R
  /\ n.host \in [DOMAIN n.host -> Words]
  /\ n.dirty \subseteq DOMAIN n.host
  /\ \A r \in DOMAIN n.host \ n.dirty : n.host[r] = n.state.gpr[r]

LEMMA ViewFields ==
  ASSUME NEW R, NEW n, IsNative(n, R), NEW a \in Words
  PROVE  /\ View(n, a) \in Machines(R)
         /\ \A r \in R : View(n, a).gpr[r] = Guest(n, r) /\ Guest(n, r) \in Words
         /\ View(n, a).cr = n.state.cr /\ View(n, a).xer = n.state.xer
         /\ View(n, a).lr = n.state.lr /\ View(n, a).ctr = n.state.ctr
         /\ View(n, a).gqr = n.state.gqr /\ View(n, a).cia = a
<1>. DEFINE s == n.state
<1>1. s \in Machines(R)
  BY DEF IsNative
<1>2. s.gpr \in [R -> Words] /\ s.cr \in SUBSET BitIndex /\ s.xer \in SUBSET BitIndex
        /\ s.lr \in Words /\ s.ctr \in Words /\ s.gqr \in Words /\ DOMAIN s.gpr = R
  BY <1>1, MachineFields
<1>3. \A r \in R : Guest(n, r) \in Words
  BY <1>2 DEF Guest, IsNative
<1>. DEFINE g == [r \in R |-> Guest(n, r)]
<1>4. g \in [R -> Words] /\ \A r \in R : g[r] = Guest(n, r)
  BY <1>3
<1>5. View(n, a) = [gpr |-> g, cr |-> s.cr, xer |-> s.xer, lr |-> s.lr, ctr |-> s.ctr,
                    gqr |-> s.gqr, cia |-> a]
  BY <1>2, Zenon DEF View
<1>. HIDE DEF g, s
<1>. QED BY <1>2, <1>3, <1>4, <1>5 DEF Machines, s

LEMMA ObservedIsView ==
  ASSUME NEW R, IsNative(native, R), Here \in Words
  PROVE  Observed = View(native, Here)
<1>. DEFINE s == native.state
            g == [r \in DOMAIN s.gpr |-> Guest(native, r)]
<1>1. s \in Machines(R)
  BY DEF IsNative
<1>2. Observed = [s EXCEPT !.gpr = g, !.cia = Here]
  BY DEF Observed
<1>3. View(native, Here) = [gpr |-> g, cr |-> s.cr, xer |-> s.xer, lr |-> s.lr, ctr |-> s.ctr,
                            gqr |-> s.gqr, cia |-> Here]
  BY Zenon DEF View
<1>4. g \in [R -> Words] /\ View(native, Here) \in Machines(R)
  BY <1>1, MachineFields, ViewFields
<1>. HIDE DEF s, g
<1>. DEFINE e == [s EXCEPT !.gpr = g, !.cia = Here]
            v == View(native, Here)
<1>5. e \in Machines(R) /\ e.gpr = g /\ e.cr = s.cr /\ e.xer = s.xer /\ e.lr = s.lr /\ e.ctr = s.ctr
        /\ e.gqr = s.gqr /\ e.cia = Here
  BY <1>1, <1>4 DEF Machines
<1>6. v.gpr = g /\ v.cr = s.cr /\ v.xer = s.xer /\ v.lr = s.lr /\ v.ctr = s.ctr
        /\ v.gqr = s.gqr /\ v.cia = Here
  BY <1>3
<1>7. v \in Machines(R)
  BY <1>4
<1>. HIDE DEF e, v
<1>8. e = v
  BY <1>5, <1>6, <1>7, MachineEqual
<1>. QED BY <1>2, <1>8 DEF e, v

LEMMA PutIs ==
  ASSUME NEW R, NEW s \in Machines(R), NEW i, i.destination \in R, NEW value \in Words
  PROVE  /\ Put(s, i, value) \in Machines(R)
         /\ Put(s, i, value).gpr = [s.gpr EXCEPT ![i.destination] = value]
         /\ Put(s, i, value).cr = s.cr /\ Put(s, i, value).xer = s.xer
         /\ Put(s, i, value).lr = s.lr /\ Put(s, i, value).ctr = s.ctr
         /\ Put(s, i, value).gqr = s.gqr /\ Put(s, i, value).cia = s.cia
<1>. DEFINE g == [s.gpr EXCEPT ![i.destination] = value]
<1>1. s.gpr \in [R -> Words]
  BY MachineFields
<1>2. g \in [R -> Words]
  BY <1>1
<1>3. Put(s, i, value) = [s EXCEPT !.gpr = g]
  BY MachineFields DEF Put
<1>. HIDE DEF g
<1>. QED BY <1>2, <1>3 DEF Machines, g

\* The same without the registers.
LEMMA PutKeeps ==
  ASSUME NEW R, NEW s \in Machines(R), NEW i, i.destination \in R, NEW value \in Words
  PROVE  /\ Put(s, i, value) \in Machines(R)
         /\ Put(s, i, value).cr = s.cr /\ Put(s, i, value).xer = s.xer
         /\ Put(s, i, value).lr = s.lr /\ Put(s, i, value).ctr = s.ctr
         /\ Put(s, i, value).gqr = s.gqr /\ Put(s, i, value).cia = s.cia
<1>. DEFINE p == Put(s, i, value)
<1>1. p \in Machines(R) /\ p.gpr = [s.gpr EXCEPT ![i.destination] = value] /\ p.cr = s.cr
        /\ p.xer = s.xer /\ p.lr = s.lr /\ p.ctr = s.ctr /\ p.gqr = s.gqr /\ p.cia = s.cia
  BY PutIs
<1>. HIDE DEF p
<1>. QED BY <1>1 DEF p

LEMMA CrIs ==
  ASSUME NEW R, NEW s \in Machines(R), NEW c \in SUBSET BitIndex
  PROVE  /\ [s EXCEPT !.cr = c] \in Machines(R)
         /\ [s EXCEPT !.cr = c].gpr = s.gpr
         /\ [s EXCEPT !.cr = c].cr = c /\ [s EXCEPT !.cr = c].xer = s.xer
         /\ [s EXCEPT !.cr = c].lr = s.lr /\ [s EXCEPT !.cr = c].ctr = s.ctr
         /\ [s EXCEPT !.cr = c].gqr = s.gqr /\ [s EXCEPT !.cr = c].cia = s.cia
BY DEF Machines

LEMMA XerIs ==
  ASSUME NEW R, NEW s \in Machines(R), NEW c \in SUBSET BitIndex
  PROVE  /\ [s EXCEPT !.xer = c] \in Machines(R)
         /\ [s EXCEPT !.xer = c].gpr = s.gpr
         /\ [s EXCEPT !.xer = c].cr = s.cr /\ [s EXCEPT !.xer = c].xer = c
         /\ [s EXCEPT !.xer = c].lr = s.lr /\ [s EXCEPT !.xer = c].ctr = s.ctr
         /\ [s EXCEPT !.xer = c].gqr = s.gqr /\ [s EXCEPT !.xer = c].cia = s.cia
BY DEF Machines

LEMMA ViewIs ==
  ASSUME NEW R, NEW n, IsNative(n, R), NEW a \in Words, NEW t \in Machines(R),
         \A r \in R : t.gpr[r] = Guest(n, r),
         t.cr = n.state.cr, t.xer = n.state.xer, t.lr = n.state.lr, t.ctr = n.state.ctr,
         t.gqr = n.state.gqr, t.cia = a
  PROVE  View(n, a) = t
<1>. DEFINE v == View(n, a)
<1>1. v \in Machines(R) /\ \A r \in R : v.gpr[r] = t.gpr[r]
  BY ViewFields
<1>2. v.gpr \in [R -> Words] /\ t.gpr \in [R -> Words]
  BY <1>1, MachineFields
<1>3. v.gpr = t.gpr
  <2>. DEFINE g == v.gpr
              h == t.gpr
  <2>1. g \in [R -> Words] /\ h \in [R -> Words] /\ \A r \in R : g[r] = h[r]
    BY <1>1, <1>2
  <2>. HIDE DEF g, h
  <2>2. g = h
    BY <2>1
  <2>. QED BY <2>2 DEF g, h
<1>4. v.cr = t.cr /\ v.xer = t.xer /\ v.lr = t.lr /\ v.ctr = t.ctr /\ v.gqr = t.gqr /\ v.cia = t.cia
  BY ViewFields
<1>. HIDE DEF v
<1>5. v = t
  BY <1>1, <1>3, <1>4, MachineEqual
<1>. QED BY <1>5 DEF v

----------------------------------------------------------------------------
(* Condition fields and the bits of XER.                                    *)

LEMMA FieldsAreBits ==
  /\ \A f \in ConditionFields :
       /\ FieldBits(f) \subseteq BitIndex
       /\ LT(f) \in BitIndex /\ GT(f) \in BitIndex /\ EQ(f) \in BitIndex /\ UN(f) \in BitIndex
  /\ 0 \in ConditionFields
  /\ SO \in BitIndex /\ OV \in BitIndex /\ CA \in BitIndex /\ SO # OV /\ OV # CA /\ SO # CA
<1>1. WordBits \in Nat /\ WordBits >= 4 /\ WordBits \div 4 = ByteBits /\ WordBits = 4 * ByteBits /\ ByteBits \in Nat /\ ByteBits >= 1
  BY WordSizes DEF ByteBits
<1>2. ConditionFields = 0..(ByteBits - 1)
  BY <1>1 DEF ConditionFields
<1>3. \A f \in ConditionFields, k \in 0..3 : PpcBit(4 * f + k) \in BitIndex
  BY <1>1, <1>2 DEF PpcBit, SignBit, BitIndex
<1>4. \A f \in ConditionFields : 4 * f = 4 * f + 0
  BY <1>2
<1>5. \A f \in ConditionFields : PpcBit(4 * f) \in BitIndex
  <2>. SUFFICES ASSUME NEW f \in ConditionFields PROVE PpcBit(4 * f) \in BitIndex
    OBVIOUS
  <2>1. 0 \in 0..3
    OBVIOUS
  <2>2. PpcBit(4 * f + 0) \in BitIndex
    BY <1>3, <2>1, Zenon
  <2>. QED BY <1>4, <2>2, Zenon
<1>6. \A f \in ConditionFields : FieldBits(f) \subseteq BitIndex
  BY <1>3 DEF FieldBits
<1>7. \A f \in ConditionFields : LT(f) \in BitIndex /\ GT(f) \in BitIndex /\ EQ(f) \in BitIndex /\ UN(f) \in BitIndex
  BY <1>3, <1>5 DEF LT, GT, EQ, UN
<1>8. SO \in BitIndex /\ OV \in BitIndex /\ CA \in BitIndex /\ SO # OV /\ OV # CA /\ SO # CA
  BY <1>1 DEF SO, OV, CA, PpcBit, SignBit, BitIndex
<1>. QED BY <1>1, <1>2, <1>6, <1>7, <1>8

SetCr(s, c)  == [s EXCEPT !.cr = c]
SetXer(s, c) == [s EXCEPT !.xer = c]

\* A condition field as the interpreter sets it.
FieldSet(cr, xer, field, order) ==
  (cr \ FieldBits(field)) \cup {order} \cup (IF SO \in xer THEN {UN(field)} ELSE {})

LEMMA CompareFieldIs ==
  ASSUME NEW R, NEW s \in Machines(R), NEW f \in ConditionFields,
         NEW less \in BOOLEAN, NEW greater \in BOOLEAN
  PROVE  LET order == IF less THEN LT(f) ELSE IF greater THEN GT(f) ELSE EQ(f) IN
         /\ CompareField(s, f, less, greater) = SetCr(s, FieldSet(s.cr, s.xer, f, order))
         /\ FieldSet(s.cr, s.xer, f, order) \in SUBSET BitIndex
<1>. DEFINE order == IF less THEN LT(f) ELSE IF greater THEN GT(f) ELSE EQ(f)
            c == FieldSet(s.cr, s.xer, f, order)
<1>1. order \in BitIndex /\ UN(f) \in BitIndex
  BY FieldsAreBits
<1>2. s.cr \in SUBSET BitIndex
  BY MachineFields
<1>3. OrderBits(f, less, greater) = {order}
  BY DEF OrderBits
<1>4. c = (s.cr \ FieldBits(f)) \cup OrderBits(f, less, greater) \cup (IF SO \in s.xer THEN {UN(f)} ELSE {})
  BY <1>3, Zenon DEF FieldSet
<1>5. c \in SUBSET BitIndex
  BY <1>1, <1>2 DEF FieldSet
<1>6. CompareField(s, f, less, greater) = SetCr(s, c)
  <2>. DEFINE d == (s.cr \ FieldBits(f)) \cup OrderBits(f, less, greater) \cup (IF SO \in s.xer THEN {UN(f)} ELSE {})
  <2>1. CompareField(s, f, less, greater) = [s EXCEPT !.cr = d]
    BY MachineFields DEF CompareField
  <2>. HIDE DEF d, c
  <2>. QED BY <1>4, <2>1, Zenon DEF d, SetCr
<1>. QED BY <1>5, <1>6

----------------------------------------------------------------------------
(* The native machine's updates, as updates of the machine it stands for.   *)

LEMMA NativeState ==
  ASSUME NEW R, NEW n, IsNative(n, R), NEW s \in Machines(R), s.gpr = n.state.gpr
  PROVE  LET m == [n EXCEPT !.state = s] IN
         /\ IsNative(m, R) /\ m.state = s /\ m.host = n.host /\ m.dirty = n.dirty
         /\ \A r \in R : Guest(m, r) = Guest(n, r)
<1>. DEFINE m == [n EXCEPT !.state = s]
<1>1. m = [state |-> s, host |-> n.host, dirty |-> n.dirty]
  BY DEF IsNative
<1>. HIDE DEF m
<1>2. m.state = s /\ m.host = n.host /\ m.dirty = n.dirty
  BY <1>1
<1>3. IsNative(m, R)
  BY <1>1, <1>2 DEF IsNative
<1>4. \A r \in R : Guest(m, r) = Guest(n, r)
  BY <1>2 DEF Guest
<1>. QED BY <1>2, <1>3, <1>4 DEF m

NewCr(n, c)  == [n EXCEPT !.state.cr = c]
NewXer(n, c) == [n EXCEPT !.state.xer = c]

LEMMA NativeCr ==
  ASSUME NEW R, NEW n, IsNative(n, R), NEW c \in SUBSET BitIndex, NEW a \in Words
  PROVE  /\ IsNative(NewCr(n, c), R) /\ NewCr(n, c).host = n.host
         /\ View(NewCr(n, c), a) = SetCr(View(n, a), c)
<1>. DEFINE s == [n.state EXCEPT !.cr = c]
            m == [n EXCEPT !.state = s]
            v == View(n, a)
            t == [v EXCEPT !.cr = c]
<1>1. n.state \in Machines(R)
  BY DEF IsNative
<1>2. s \in Machines(R) /\ s.gpr = n.state.gpr /\ s.cr = c /\ s.xer = n.state.xer
        /\ s.lr = n.state.lr /\ s.ctr = n.state.ctr /\ s.gqr = n.state.gqr
  BY <1>1, CrIs
<1>3. NewCr(n, c) = m
  BY DEF IsNative, NewCr
<1>4. v \in Machines(R) /\ (\A r \in R : v.gpr[r] = Guest(n, r)) /\ v.xer = n.state.xer
        /\ v.lr = n.state.lr /\ v.ctr = n.state.ctr /\ v.gqr = n.state.gqr /\ v.cia = a
  BY ViewFields
<1>. HIDE DEF s, v
<1>5. t \in Machines(R) /\ t.gpr = v.gpr /\ t.cr = c /\ t.xer = v.xer /\ t.lr = v.lr
        /\ t.ctr = v.ctr /\ t.gqr = v.gqr /\ t.cia = v.cia
  BY <1>4, CrIs
<1>6. IsNative(m, R) /\ m.state = s /\ m.host = n.host /\ \A r \in R : Guest(m, r) = Guest(n, r)
  BY <1>2, NativeState
<1>. HIDE DEF m, t
<1>7. \A r \in R : t.gpr[r] = Guest(m, r)
  BY <1>4, <1>5, <1>6
<1>8. View(m, a) = t
  BY <1>2, <1>4, <1>5, <1>6, <1>7, ViewIs
<1>. QED BY <1>3, <1>6, <1>8, Zenon DEF t, v, SetCr

LEMMA NativeXer ==
  ASSUME NEW R, NEW n, IsNative(n, R), NEW c \in SUBSET BitIndex, NEW a \in Words
  PROVE  /\ IsNative(NewXer(n, c), R) /\ NewXer(n, c).host = n.host
         /\ View(NewXer(n, c), a) = SetXer(View(n, a), c)
<1>. DEFINE s == [n.state EXCEPT !.xer = c]
            m == [n EXCEPT !.state = s]
            v == View(n, a)
            t == [v EXCEPT !.xer = c]
<1>1. n.state \in Machines(R)
  BY DEF IsNative
<1>2. s \in Machines(R) /\ s.gpr = n.state.gpr /\ s.xer = c /\ s.cr = n.state.cr
        /\ s.lr = n.state.lr /\ s.ctr = n.state.ctr /\ s.gqr = n.state.gqr
  BY <1>1, XerIs
<1>3. NewXer(n, c) = m
  BY DEF IsNative, NewXer
<1>4. v \in Machines(R) /\ (\A r \in R : v.gpr[r] = Guest(n, r)) /\ v.cr = n.state.cr
        /\ v.lr = n.state.lr /\ v.ctr = n.state.ctr /\ v.gqr = n.state.gqr /\ v.cia = a
  BY ViewFields
<1>. HIDE DEF s, v
<1>5. t \in Machines(R) /\ t.gpr = v.gpr /\ t.xer = c /\ t.cr = v.cr /\ t.lr = v.lr
        /\ t.ctr = v.ctr /\ t.gqr = v.gqr /\ t.cia = v.cia
  BY <1>4, XerIs
<1>6. IsNative(m, R) /\ m.state = s /\ m.host = n.host /\ \A r \in R : Guest(m, r) = Guest(n, r)
  BY <1>2, NativeState
<1>. HIDE DEF m, t
<1>7. \A r \in R : t.gpr[r] = Guest(m, r)
  BY <1>4, <1>5, <1>6
<1>8. View(m, a) = t
  BY <1>2, <1>4, <1>5, <1>6, <1>7, ViewIs
<1>. QED BY <1>3, <1>6, <1>8, Zenon DEF t, v, SetXer

\* A fetch changes no register; the fetched ones are in the host's.
LEMMA FetchIs ==
  ASSUME NEW R, NEW n, IsNative(n, R), NEW F \in SUBSET R, NEW a \in Words
  PROVE  LET m == read_guest_gpr(n, F) IN
         /\ IsNative(m, R) /\ View(m, a) = View(n, a)
         /\ m.state = n.state
         /\ \A r \in F : m.host[r] = View(n, a).gpr[r] /\ m.host[r] \in Words
<1>. DEFINE h == [r \in DOMAIN n.host \cup F |-> Guest(n, r)]
            m == [n EXCEPT !.host = h]
            v == View(n, a)
<1>1. read_guest_gpr(n, F) = m
  BY DEF read_guest_gpr
<1>2. m = [state |-> n.state, host |-> h, dirty |-> n.dirty]
  BY DEF IsNative
<1>3. v \in Machines(R) /\ (\A r \in R : v.gpr[r] = Guest(n, r) /\ Guest(n, r) \in Words)
        /\ v.cr = n.state.cr /\ v.xer = n.state.xer
        /\ v.lr = n.state.lr /\ v.ctr = n.state.ctr /\ v.gqr = n.state.gqr /\ v.cia = a
  BY ViewFields
<1>4. DOMAIN n.host \subseteq R /\ n.dirty \subseteq DOMAIN n.host /\ n.state \in Machines(R)
        /\ \A r \in DOMAIN n.host \ n.dirty : n.host[r] = n.state.gpr[r]
  BY DEF IsNative
<1>5. DOMAIN h = DOMAIN n.host \cup F /\ (\A r \in DOMAIN h : h[r] = Guest(n, r)) /\ DOMAIN h \subseteq R
        /\ h \in [DOMAIN h -> Words]
  BY <1>3, <1>4
<1>. HIDE DEF h, m, v
<1>6. m.state = n.state /\ m.host = h /\ m.dirty = n.dirty
  BY <1>2
<1>7. \A r \in DOMAIN h \ n.dirty : h[r] = n.state.gpr[r]
  BY <1>4, <1>5 DEF Guest
<1>8. IsNative(m, R)
  BY <1>2, <1>4, <1>5, <1>6, <1>7 DEF IsNative
<1>9. \A r \in R : v.gpr[r] = Guest(m, r)
  BY <1>3, <1>5, <1>6 DEF Guest
<1>10. View(m, a) = v
  BY <1>3, <1>6, <1>8, <1>9, ViewIs
<1>11. \A r \in F : m.host[r] = v.gpr[r] /\ m.host[r] \in Words
  BY <1>3, <1>5, <1>6
<1>. QED BY <1>1, <1>6, <1>8, <1>10, <1>11 DEF v

\* A write to a guest register.
LEMMA WriteIs ==
  ASSUME NEW R, NEW n, IsNative(n, R), NEW i, i.destination \in R, NEW value \in Words, NEW a \in Words
  PROVE  LET m == write_guest_gpr(n, i.destination, value) IN
         /\ IsNative(m, R) /\ View(m, a) = Put(View(n, a), i, value) /\ m.state = n.state
<1>. DEFINE d == i.destination
            h == [q \in DOMAIN n.host \cup {d} |-> IF q = d THEN value ELSE n.host[q]]
            m == [n EXCEPT !.host = h, !.dirty = @ \cup {d}]
            v == View(n, a)
            t == Put(v, i, value)
<1>1. write_guest_gpr(n, d, value) = m
  BY DEF write_guest_gpr
<1>2. m = [state |-> n.state, host |-> h, dirty |-> n.dirty \cup {d}]
  <2>1. n = [state |-> n.state, host |-> n.host, dirty |-> n.dirty]
    BY DEF IsNative
  <2>. DEFINE e == n.dirty \cup {d}
  <2>2. m = [n EXCEPT !.host = h, !.dirty = e]
    BY <2>1
  <2>. HIDE DEF h, e, m
  <2>3. m = [state |-> n.state, host |-> h, dirty |-> e]
    BY <2>1, <2>2
  <2>. QED BY <2>3 DEF e
<1>3. v \in Machines(R) /\ (\A r \in R : v.gpr[r] = Guest(n, r))
        /\ v.cr = n.state.cr /\ v.xer = n.state.xer
        /\ v.lr = n.state.lr /\ v.ctr = n.state.ctr /\ v.gqr = n.state.gqr /\ v.cia = a
  BY ViewFields
<1>4. DOMAIN n.host \subseteq R /\ n.dirty \subseteq DOMAIN n.host /\ n.state \in Machines(R)
        /\ (\A r \in DOMAIN n.host \ n.dirty : n.host[r] = n.state.gpr[r])
        /\ n.host \in [DOMAIN n.host -> Words]
  BY DEF IsNative
<1>. HIDE DEF v
<1>5. t \in Machines(R) /\ t.gpr = [v.gpr EXCEPT ![d] = value] /\ t.cr = v.cr /\ t.xer = v.xer
        /\ t.lr = v.lr /\ t.ctr = v.ctr /\ t.gqr = v.gqr /\ t.cia = v.cia
  BY <1>3, PutIs
<1>6. DOMAIN h = DOMAIN n.host \cup {d} /\ (\A r \in DOMAIN h : h[r] = IF r = d THEN value ELSE n.host[r])
  OBVIOUS
<1>7. DOMAIN h \subseteq R /\ h \in [DOMAIN h -> Words]
  <2>1. DOMAIN h \subseteq R
    BY <1>4
  <2>2. \A r \in DOMAIN h : h[r] \in Words
    BY <1>4, <1>6
  <2>3. h = [r \in DOMAIN h |-> h[r]]
    OBVIOUS
  <2>. HIDE DEF h
  <2>. QED BY <2>1, <2>2, <2>3
<1>. HIDE DEF h, m, t
<1>8. m.state = n.state /\ m.host = h /\ m.dirty = n.dirty \cup {d}
  BY <1>2
<1>9. IsNative(m, R)
  <2>1. \A r \in DOMAIN h \ (n.dirty \cup {d}) : h[r] = n.state.gpr[r]
    BY <1>4, <1>6
  <2>2. n.dirty \cup {d} \subseteq DOMAIN h
    BY <1>4, <1>6
  <2>. QED BY <1>2, <1>4, <1>7, <1>8, <2>1, <2>2 DEF IsNative
<1>10. \A r \in R : t.gpr[r] = Guest(m, r)
  <2>1. v.gpr \in [R -> Words]
    BY <1>3, MachineFields
  <2>2. \A r \in R : t.gpr[r] = IF r = d THEN value ELSE v.gpr[r]
    BY <1>5, <2>1
  <2>3. \A r \in R : Guest(m, r) = IF r = d THEN value ELSE Guest(n, r)
    BY <1>6, <1>8 DEF Guest
  <2>. QED BY <1>3, <2>2, <2>3
<1>11. t.cr = m.state.cr /\ t.xer = m.state.xer /\ t.lr = m.state.lr /\ t.ctr = m.state.ctr
         /\ t.gqr = m.state.gqr /\ t.cia = a /\ t \in Machines(R)
  BY <1>3, <1>5, <1>8
<1>12. View(m, a) = t
  BY <1>9, <1>10, <1>11, ViewIs
<1>. QED BY <1>1, <1>8, <1>9, <1>12 DEF t, v

----------------------------------------------------------------------------
(* Carry, overflow and record: the pieces of an emission.                   *)

CarrySet(xer, carry)       == IF carry THEN xer \cup {CA} ELSE xer \ {CA}
OverflowSet(xer, overflow) == IF overflow THEN xer \cup {OV, SO} ELSE xer \ {OV}

LEMMA XerSets ==
  ASSUME NEW xer \in SUBSET BitIndex, NEW c \in BOOLEAN
  PROVE  /\ CarrySet(xer, c) \in SUBSET BitIndex /\ OverflowSet(xer, c) \in SUBSET BitIndex
         /\ CarrySet(xer, c) = (xer \ {CA}) \cup (IF c THEN {CA} ELSE {})
         /\ OverflowSet(xer, c) = (xer \ {OV}) \cup (IF c THEN {SO, OV} ELSE {})
<1>1. SO \in BitIndex /\ OV \in BitIndex /\ CA \in BitIndex
  BY FieldsAreBits
<1>2. CASE c
  BY <1>1, <1>2 DEF CarrySet, OverflowSet
<1>3. CASE ~c
  BY <1>1, <1>3 DEF CarrySet, OverflowSet
<1>. QED BY <1>2, <1>3

LEMMA SetXerIs ==
  ASSUME NEW R, NEW s \in Machines(R), NEW c \in BOOLEAN
  PROVE  /\ set_xer_carry(s, c) = SetXer(s, CarrySet(s.xer, c))
         /\ set_overflow(s, c) = SetXer(s, OverflowSet(s.xer, c))
<1>. DEFINE x == CarrySet(s.xer, c)
            y == OverflowSet(s.xer, c)
<1>1. set_xer_carry(s, c) = [s EXCEPT !.xer = IF c THEN s.xer \cup {CA} ELSE s.xer \ {CA}]
  BY MachineFields DEF set_xer_carry
<1>2. set_overflow(s, c) = [s EXCEPT !.xer = IF c THEN s.xer \cup {OV, SO} ELSE s.xer \ {OV}]
  BY MachineFields DEF set_overflow
<1>. QED BY <1>1, <1>2, Zenon DEF CarrySet, OverflowSet, SetXer

\* Writing a register and changing XER commute.
LEMMA PutAndXer ==
  ASSUME NEW R, NEW s \in Machines(R), NEW i, i.destination \in R, NEW value \in Words,
         NEW c \in SUBSET BitIndex
  PROVE  Put(SetXer(s, c), i, value) = SetXer(Put(s, i, value), c)
<1>. DEFINE x == [s EXCEPT !.xer = c]
            p == Put(s, i, value)
            y == [p EXCEPT !.xer = c]
            z == Put(x, i, value)
<1>1. x \in Machines(R) /\ x.gpr = s.gpr /\ x.cr = s.cr /\ x.xer = c /\ x.lr = s.lr
        /\ x.ctr = s.ctr /\ x.gqr = s.gqr /\ x.cia = s.cia
  BY XerIs
<1>2. p \in Machines(R) /\ p.gpr = [s.gpr EXCEPT ![i.destination] = value] /\ p.cr = s.cr
        /\ p.lr = s.lr /\ p.ctr = s.ctr /\ p.gqr = s.gqr /\ p.cia = s.cia
  BY PutIs
<1>. HIDE DEF x, p
<1>3. y \in Machines(R) /\ y.gpr = p.gpr /\ y.cr = p.cr /\ y.xer = c /\ y.lr = p.lr
        /\ y.ctr = p.ctr /\ y.gqr = p.gqr /\ y.cia = p.cia
  BY <1>2, XerIs
<1>4. z \in Machines(R) /\ z.gpr = [x.gpr EXCEPT ![i.destination] = value] /\ z.cr = x.cr
        /\ z.xer = x.xer /\ z.lr = x.lr /\ z.ctr = x.ctr /\ z.gqr = x.gqr /\ z.cia = x.cia
  BY <1>1, PutIs
<1>. HIDE DEF y, z
<1>5. z.gpr = y.gpr
  BY <1>1, <1>2, <1>3, <1>4, Zenon
<1>6. z = y
  BY <1>1, <1>2, <1>3, <1>4, <1>5, MachineEqual
<1>. QED BY <1>6, Zenon DEF x, p, y, z, SetXer

LEMMA CarryIs ==
  ASSUME NEW R, NEW n, IsNative(n, R), NEW c \in BOOLEAN, NEW a \in Words
  PROVE  /\ IsNative(EmitCarry(n, c), R) /\ EmitCarry(n, c).host = n.host
         /\ View(EmitCarry(n, c), a) = set_xer_carry(View(n, a), c)
<1>. DEFINE v == View(n, a)
            x == CarrySet(v.xer, c)
            m == NewXer(n, x)
<1>1. v \in Machines(R) /\ v.xer = n.state.xer
  BY ViewFields
<1>2. v.xer \in SUBSET BitIndex
  BY <1>1, MachineFields
<1>. HIDE DEF v
<1>0. x \in SUBSET BitIndex
  BY <1>2, XerSets
<1>3. x = (n.state.xer \ {CA}) \cup (IF c THEN {CA} ELSE {})
  BY <1>1, <1>2, XerSets
<1>4. EmitCarry(n, c) = [n EXCEPT !.state.xer = (n.state.xer \ {CA}) \cup (IF c THEN {CA} ELSE {})]
  BY DEF EmitCarry, IsNative
<1>5. EmitCarry(n, c) = m
  BY <1>3, <1>4, Zenon DEF NewXer
<1>6. set_xer_carry(v, c) = SetXer(v, x)
  BY <1>1, SetXerIs
<1>. HIDE DEF x
<1>7. IsNative(m, R) /\ m.host = n.host /\ View(m, a) = SetXer(v, x)
  BY <1>0, NativeXer, Zenon DEF v
<1>. HIDE DEF m
<1>. QED BY <1>5, <1>6, <1>7 DEF v

LEMMA OverflowIs ==
  ASSUME NEW R, NEW n, IsNative(n, R), NEW c \in BOOLEAN, NEW a \in Words
  PROVE  /\ IsNative(EmitOverflow(n, c), R) /\ EmitOverflow(n, c).host = n.host
         /\ View(EmitOverflow(n, c), a) = set_overflow(View(n, a), c)
<1>. DEFINE v == View(n, a)
            x == OverflowSet(v.xer, c)
            m == NewXer(n, x)
<1>1. v \in Machines(R) /\ v.xer = n.state.xer
  BY ViewFields
<1>2. v.xer \in SUBSET BitIndex
  BY <1>1, MachineFields
<1>. HIDE DEF v
<1>0. x \in SUBSET BitIndex
  BY <1>2, XerSets
<1>3. x = (n.state.xer \ {OV}) \cup (IF c THEN {SO, OV} ELSE {})
  BY <1>1, <1>2, XerSets
<1>4. EmitOverflow(n, c) = [n EXCEPT !.state.xer = (n.state.xer \ {OV}) \cup (IF c THEN {SO, OV} ELSE {})]
  BY DEF EmitOverflow, IsNative
<1>5. EmitOverflow(n, c) = m
  BY <1>3, <1>4, Zenon DEF NewXer
<1>6. set_overflow(v, c) = SetXer(v, x)
  BY <1>1, SetXerIs
<1>. HIDE DEF x
<1>7. IsNative(m, R) /\ m.host = n.host /\ View(m, a) = SetXer(v, x)
  BY <1>0, NativeXer, Zenon DEF v
<1>. HIDE DEF m
<1>. QED BY <1>5, <1>6, <1>7 DEF v

LEMMA RecordIs ==
  ASSUME NEW R, NEW n, IsNative(n, R), NEW i, i.record \in BOOLEAN, NEW value \in Words, NEW a \in Words
  PROVE  /\ IsNative(EmitRecord(n, i, value), R)
         /\ View(EmitRecord(n, i, value), a) = Recorded(View(n, a), i, value)
<1>1. CASE ~i.record
  <2>1. EmitRecord(n, i, value) = n
    BY <1>1, Zenon DEF EmitRecord
  <2>2. Recorded(View(n, a), i, value) = View(n, a)
    BY <1>1, Zenon DEF Recorded
  <2>. QED BY <2>1, <2>2, Zenon
<1>2. CASE i.record
  <2>. DEFINE v == View(n, a)
              less == Signed(value) < 0
              greater == Signed(value) > 0
              order == IF less THEN LT(0) ELSE IF greater THEN GT(0) ELSE EQ(0)
              emitted == CASE Negative(value) -> LT(0) [] value = 0 -> EQ(0) [] OTHER -> GT(0)
              x == FieldSet(v.cr, v.xer, 0, order)
              m == NewCr(n, x)
  <2>1. v \in Machines(R) /\ v.xer = n.state.xer /\ v.cr = n.state.cr
    BY ViewFields
  <2>2. Signed(value) \in Int /\ (Signed(value) < 0 <=> Negative(value)) /\ (Signed(value) = 0 <=> value = 0)
    BY SignedWord
  <2>3. less \in BOOLEAN /\ greater \in BOOLEAN /\ 0 \in ConditionFields
    BY FieldsAreBits
  <2>4. emitted = order
    <3>1. Negative(value) <=> less
      BY <2>2
    <3>2. value = 0 <=> ~less /\ ~greater
      BY <2>2
    <3>3. emitted = IF Negative(value) THEN LT(0) ELSE IF value = 0 THEN EQ(0) ELSE GT(0)
      <4>1. ~(Negative(value) /\ value = 0)
        BY WordSizes DEF Negative
      <4>. QED BY <4>1
    <3>. HIDE DEF less, greater, emitted
    <3>4. CASE less
      BY <3>1, <3>3, <3>4, Zenon
    <3>5. CASE ~less /\ greater
      BY <3>1, <3>2, <3>3, <3>5, Zenon
    <3>6. CASE ~less /\ ~greater
      BY <3>1, <3>2, <3>3, <3>6, Zenon
    <3>. QED BY <3>4, <3>5, <3>6
  <2>5. EmitRecord(n, i, value)
          = [n EXCEPT !.state.cr = (n.state.cr \ FieldBits(0)) \cup {emitted} \cup SummaryBit(n.state.xer, 0)]
    BY <1>2 DEF EmitRecord, IsNative
  <2>6. set_record_result(v, value) = CompareField(v, 0, less, greater)
    BY Zenon DEF set_record_result, set_compare_result
  <2>7. Recorded(v, i, value) = set_record_result(v, value)
    BY <1>2, Zenon DEF Recorded
  <2>. HIDE DEF v, less, greater, emitted
  <2>8. CompareField(v, 0, less, greater) = SetCr(v, x) /\ x \in SUBSET BitIndex
    BY <2>1, <2>3, CompareFieldIs
  <2>. HIDE DEF order
  <2>9. EmitRecord(n, i, value) = m
    <3>1. x = (n.state.cr \ FieldBits(0)) \cup {emitted} \cup SummaryBit(n.state.xer, 0)
      BY <2>1, <2>4, Zenon DEF FieldSet, SummaryBit
    <3>. HIDE DEF x
    <3>. QED BY <2>5, <3>1, Zenon DEF NewCr
  <2>. HIDE DEF x
  <2>10. IsNative(m, R) /\ View(m, a) = SetCr(v, x)
    BY <2>8, NativeCr, Zenon DEF v
  <2>. HIDE DEF m
  <2>. QED BY <2>6, <2>7, <2>8, <2>9, <2>10 DEF v
<1>. QED BY <1>1, <1>2

LEMMA ResultIs ==
  ASSUME NEW R, NEW n, IsNative(n, R), NEW i, i.record \in BOOLEAN, i.destination \in R,
         NEW value \in Words, NEW a \in Words
  PROVE  /\ IsNative(EmitResult(n, i, value), R)
         /\ View(EmitResult(n, i, value), a) = Plain(View(n, a), i, value)
<1>. DEFINE m == write_guest_gpr(n, i.destination, value)
<1>1. IsNative(m, R) /\ View(m, a) = Put(View(n, a), i, value)
  BY WriteIs
<1>2. EmitResult(n, i, value) = EmitRecord(m, i, value)
  BY Zenon DEF EmitResult
<1>. HIDE DEF m
<1>3. IsNative(EmitRecord(m, i, value), R) /\ View(EmitRecord(m, i, value), a) = Recorded(View(m, a), i, value)
  BY <1>1, RecordIs
<1>4. Plain(View(n, a), i, value) = Recorded(Put(View(n, a), i, value), i, value)
  BY Zenon DEF Plain
<1>. QED BY <1>1, <1>2, <1>3, <1>4, Zenon

LEMMA CarryingIs ==
  ASSUME NEW R, NEW n, IsNative(n, R), NEW i, i.record \in BOOLEAN, i.destination \in R,
         NEW f, f.value \in Words, f.carry \in BOOLEAN, NEW a \in Words
  PROVE  /\ IsNative(EmitCarrying(n, i, f), R)
         /\ View(EmitCarrying(n, i, f), a) = WithCarry(View(n, a), i, f.value, f.carry)
<1>. DEFINE m == EmitCarry(n, f.carry)
            v == View(n, a)
            x == CarrySet(v.xer, f.carry)
            p == Put(v, i, f.value)
<1>1. IsNative(m, R) /\ View(m, a) = set_xer_carry(v, f.carry)
  BY CarryIs
<1>2. EmitCarrying(n, i, f) = EmitResult(m, i, f.value)
  BY Zenon DEF EmitCarrying
<1>3. v \in Machines(R)
  BY ViewFields
<1>. HIDE DEF m, v
<1>4. IsNative(EmitResult(m, i, f.value), R)
        /\ View(EmitResult(m, i, f.value), a) = Plain(View(m, a), i, f.value)
  BY <1>1, ResultIs
<1>5. v.xer \in SUBSET BitIndex /\ p \in Machines(R) /\ p.xer = v.xer
  <2>1. v.xer \in SUBSET BitIndex
    BY <1>3, MachineFields
  <2>2. p \in Machines(R) /\ p.xer = v.xer
    BY <1>3, PutKeeps
  <2>. QED BY <2>1, <2>2
<1>6. x \in SUBSET BitIndex
  BY <1>5, XerSets
<1>7. set_xer_carry(v, f.carry) = SetXer(v, x)
  BY <1>3, SetXerIs
<1>8. set_xer_carry(p, f.carry) = SetXer(p, x)
  BY <1>5, SetXerIs
<1>. HIDE DEF x
<1>9. Put(SetXer(v, x), i, f.value) = SetXer(p, x)
  BY <1>3, <1>6, PutAndXer
<1>10. Plain(View(m, a), i, f.value) = Recorded(Put(View(m, a), i, f.value), i, f.value)
  BY Zenon DEF Plain
<1>11. WithCarry(v, i, f.value, f.carry) = Recorded(set_xer_carry(p, f.carry), i, f.value)
  BY Zenon DEF WithCarry
<1>. QED BY <1>1, <1>2, <1>4, <1>7, <1>8, <1>9, <1>10, <1>11, Zenon DEF v

LEMMA OverflowingIs ==
  ASSUME NEW R, NEW n, IsNative(n, R), NEW i, i.record \in BOOLEAN, i.destination \in R,
         NEW f, f.value \in Words, f.overflow \in BOOLEAN, NEW a \in Words
  PROVE  /\ IsNative(EmitOverflowing(n, i, f), R)
         /\ View(EmitOverflowing(n, i, f), a) = WithOverflow(View(n, a), i, f.value, f.overflow)
<1>. DEFINE m == EmitOverflow(n, f.overflow)
            v == View(n, a)
            x == OverflowSet(v.xer, f.overflow)
            p == Put(v, i, f.value)
<1>1. IsNative(m, R) /\ View(m, a) = set_overflow(v, f.overflow)
  BY OverflowIs
<1>2. EmitOverflowing(n, i, f) = EmitResult(m, i, f.value)
  BY Zenon DEF EmitOverflowing
<1>3. v \in Machines(R)
  BY ViewFields
<1>. HIDE DEF m, v
<1>4. IsNative(EmitResult(m, i, f.value), R)
        /\ View(EmitResult(m, i, f.value), a) = Plain(View(m, a), i, f.value)
  BY <1>1, ResultIs
<1>5. v.xer \in SUBSET BitIndex /\ p \in Machines(R) /\ p.xer = v.xer
  <2>1. v.xer \in SUBSET BitIndex
    BY <1>3, MachineFields
  <2>2. p \in Machines(R) /\ p.xer = v.xer
    BY <1>3, PutKeeps
  <2>. QED BY <2>1, <2>2
<1>6. x \in SUBSET BitIndex
  BY <1>5, XerSets
<1>7. set_overflow(v, f.overflow) = SetXer(v, x)
  BY <1>3, SetXerIs
<1>8. set_overflow(p, f.overflow) = SetXer(p, x)
  BY <1>5, SetXerIs
<1>. HIDE DEF x
<1>9. Put(SetXer(v, x), i, f.value) = SetXer(p, x)
  BY <1>3, <1>6, PutAndXer
<1>10. Plain(View(m, a), i, f.value) = Recorded(Put(View(m, a), i, f.value), i, f.value)
  BY Zenon DEF Plain
<1>11. WithOverflow(v, i, f.value, f.overflow) = Recorded(set_overflow(p, f.overflow), i, f.value)
  BY Zenon DEF WithOverflow
<1>. QED BY <1>1, <1>2, <1>4, <1>7, <1>8, <1>9, <1>10, <1>11, Zenon DEF v

LEMMA BothIs ==
  ASSUME NEW R, NEW n, IsNative(n, R), NEW i, i.record \in BOOLEAN, i.destination \in R,
         NEW f, f.value \in Words, f.carry \in BOOLEAN, f.overflow \in BOOLEAN, NEW a \in Words
  PROVE  /\ IsNative(EmitBoth(n, i, f), R)
         /\ View(EmitBoth(n, i, f), a) = WithBoth(View(n, a), i, f.value, f.carry, f.overflow)
<1>. DEFINE m == EmitCarry(n, f.carry)
            v == View(n, a)
            u == set_xer_carry(v, f.carry)
            x == CarrySet(v.xer, f.carry)
            y == OverflowSet(x, f.overflow)
            p == Put(v, i, f.value)
            q == set_xer_carry(p, f.carry)
<1>1. IsNative(m, R) /\ View(m, a) = u
  BY CarryIs
<1>2. EmitBoth(n, i, f) = EmitOverflowing(m, i, f)
  BY Zenon DEF EmitBoth, EmitOverflowing
<1>3. v \in Machines(R)
  BY ViewFields
<1>. HIDE DEF m, v
<1>4. IsNative(EmitOverflowing(m, i, f), R)
        /\ View(EmitOverflowing(m, i, f), a) = WithOverflow(View(m, a), i, f.value, f.overflow)
  BY <1>1, OverflowingIs
<1>5. v.xer \in SUBSET BitIndex /\ p \in Machines(R) /\ p.xer = v.xer
  <2>1. v.xer \in SUBSET BitIndex
    BY <1>3, MachineFields
  <2>2. p \in Machines(R) /\ p.xer = v.xer
    BY <1>3, PutKeeps
  <2>. QED BY <2>1, <2>2
<1>6. x \in SUBSET BitIndex
  BY <1>5, XerSets
<1>7. u = SetXer(v, x)
  BY <1>3, SetXerIs
<1>8. q = SetXer(p, x)
  BY <1>5, SetXerIs
<1>. HIDE DEF x, u, q
<1>9. Put(u, i, f.value) = q
  BY <1>3, <1>6, <1>7, <1>8, PutAndXer
<1>10. WithOverflow(u, i, f.value, f.overflow)
         = Recorded(set_overflow(Put(u, i, f.value), f.overflow), i, f.value)
  BY Zenon DEF WithOverflow
<1>11. WithBoth(v, i, f.value, f.carry, f.overflow) = Recorded(set_overflow(q, f.overflow), i, f.value)
  BY Zenon DEF WithBoth, q, p
<1>. QED BY <1>1, <1>2, <1>4, <1>9, <1>10, <1>11, Zenon DEF v

----------------------------------------------------------------------------
(* One instruction: its decoded form, its operands, and what it emits.      *)

\* An instruction whose registers are among R, with the decoder's other fields.
IsInsn(i, R) ==
  /\ {"destination", "record"} \subseteq DOMAIN i
  /\ i.destination \in R /\ i.base \in R /\ i.source \in R
  /\ i.record \in BOOLEAN
  /\ i.immediate \in Words
  /\ i.shift \in BitIndex
  /\ i.cr_field \in ConditionFields /\ i.cr_field_source \in ConditionFields
  /\ i.cr_fields \subseteq ConditionFields
  /\ PpcBit(i.cr_destination_bit) \in BitIndex
  /\ i.link \in BOOLEAN /\ i.absolute \in BOOLEAN
  /\ i.ignore_condition \in BOOLEAN /\ i.condition_sense \in BOOLEAN
  /\ i.ignore_count \in BOOLEAN /\ i.count_sense \in BOOLEAN

\* Native machine m is sound and stands for machine t at address a.
Stands(m, t, R, a) == IsNative(m, R) /\ View(m, a) = t

LEMMA SameTruth ==
  ASSUME NEW b \in BOOLEAN, NEW c \in BOOLEAN, b <=> c
  PROVE  b = c
BY Zenon

LEMMA Fetched ==
  ASSUME NEW R, NEW n, IsNative(n, R), NEW i, IsInsn(i, R), NEW F \in SUBSET R, NEW a \in Words
  PROVE  LET k == read_guest_gpr(n, F)
             v == View(n, a)
         IN  /\ IsNative(k, R) /\ View(k, a) = v
             /\ i.base \in F => Base(k, i) = A(v, i)
             /\ i.source \in F => Source(k, i) = B(v, i)
             /\ \A r \in F : k.host[r] = v.gpr[r]
<1>. DEFINE k == read_guest_gpr(n, F)
            v == View(n, a)
<1>1. IsNative(k, R) /\ View(k, a) = v /\ \A r \in F : k.host[r] = v.gpr[r]
  BY FetchIs
<1>. QED BY <1>1 DEF A, B, Base, Source

LEMMA OperandWords ==
  ASSUME NEW R, NEW n, IsNative(n, R), NEW i, IsInsn(i, R), NEW a \in Words
  PROVE  LET v == View(n, a) IN
         /\ v \in Machines(R) /\ A(v, i) \in Words /\ B(v, i) \in Words
         /\ v.gpr[i.destination] \in Words
         /\ CarryIn(n) = Carry(v.xer) /\ CarryIn(n) \in {0, 1}
<1>. DEFINE v == View(n, a)
<1>1. v \in Machines(R) /\ v.xer = n.state.xer
  BY ViewFields
<1>. HIDE DEF v
<1>2. v.gpr \in [R -> Words]
  BY <1>1, MachineFields
<1>3. i.base \in R /\ i.source \in R /\ i.destination \in R
  BY DEF IsInsn
<1>4. A(v, i) \in Words /\ B(v, i) \in Words /\ v.gpr[i.destination] \in Words
  BY <1>2, <1>3 DEF A, B
<1>5. CarryIn(n) = Carry(v.xer) /\ CarryIn(n) \in {0, 1}
  BY <1>1 DEF CarryIn, Carry
<1>. QED BY <1>1, <1>4, <1>5 DEF v

\* Both operands fetched.
LEMMA FetchedPair ==
  ASSUME NEW R, NEW n, IsNative(n, R), NEW i, IsInsn(i, R), NEW a \in Words
  PROVE  LET k == Fetch(n, i)
             v == View(n, a)
         IN  /\ IsNative(k, R) /\ View(k, a) = v
             /\ Base(k, i) = A(v, i) /\ Source(k, i) = B(v, i)
<1>. DEFINE F == {i.base, i.source}
<1>1. F \in SUBSET R /\ i.base \in F /\ i.source \in F
  BY DEF IsInsn
<1>2. Fetch(n, i) = read_guest_gpr(n, F)
  BY Zenon DEF Fetch
<1>. HIDE DEF F
<1>. QED BY <1>1, <1>2, Fetched

\* One operand fetched.
LEMMA FetchedBase ==
  ASSUME NEW R, NEW n, IsNative(n, R), NEW i, IsInsn(i, R), NEW a \in Words
  PROVE  LET k == read_guest_gpr(n, {i.base})
             v == View(n, a)
         IN  IsNative(k, R) /\ View(k, a) = v /\ Base(k, i) = A(v, i)
<1>. DEFINE F == {i.base}
<1>1. F \in SUBSET R /\ i.base \in F
  BY DEF IsInsn
<1>. HIDE DEF F
<1>2. LET k == read_guest_gpr(n, F)
          v == View(n, a)
      IN  IsNative(k, R) /\ View(k, a) = v /\ Base(k, i) = A(v, i)
  BY <1>1, Fetched
<1>. QED BY <1>2 DEF F

LEMMA FetchedSource ==
  ASSUME NEW R, NEW n, IsNative(n, R), NEW i, IsInsn(i, R), NEW a \in Words
  PROVE  LET k == read_guest_gpr(n, {i.source})
             v == View(n, a)
         IN  IsNative(k, R) /\ View(k, a) = v /\ Source(k, i) = B(v, i)
<1>. DEFINE F == {i.source}
<1>1. F \in SUBSET R /\ i.source \in F
  BY DEF IsInsn
<1>. HIDE DEF F
<1>2. LET k == read_guest_gpr(n, F)
          v == View(n, a)
      IN  IsNative(k, R) /\ View(k, a) = v /\ Source(k, i) = B(v, i)
  BY <1>1, Fetched
<1>. QED BY <1>2 DEF F

LEMMA EmitsWrite ==
  ASSUME NEW R, NEW k, IsNative(k, R), NEW i, IsInsn(i, R), NEW a \in Words,
         NEW v, View(k, a) = v, NEW value \in Words
  PROVE  Stands(write_guest_gpr(k, i.destination, value), Put(v, i, value), R, a)
BY WriteIs DEF Stands, IsInsn

LEMMA EmitsPlain ==
  ASSUME NEW R, NEW k, IsNative(k, R), NEW i, IsInsn(i, R), NEW a \in Words,
         NEW v, View(k, a) = v, NEW value \in Words
  PROVE  Stands(EmitResult(k, i, value), Plain(v, i, value), R, a)
BY ResultIs DEF Stands, IsInsn

LEMMA EmitsCarry ==
  ASSUME NEW R, NEW k, IsNative(k, R), NEW i, IsInsn(i, R), NEW a \in Words,
         NEW v, View(k, a) = v, NEW f, NEW value \in Words, NEW carry \in BOOLEAN,
         f.value = value, f.carry \in BOOLEAN, f.carry <=> carry
  PROVE  Stands(EmitCarrying(k, i, f), WithCarry(v, i, value, carry), R, a)
<1>1. f.carry = carry
  BY SameTruth
<1>2. i.record \in BOOLEAN /\ i.destination \in R
  BY DEF IsInsn
<1>3. f.value \in Words
  OBVIOUS
<1>4. IsNative(EmitCarrying(k, i, f), R)
        /\ View(EmitCarrying(k, i, f), a) = WithCarry(View(k, a), i, f.value, f.carry)
  BY <1>2, <1>3, CarryingIs
<1>. QED BY <1>1, <1>4, Zenon DEF Stands

LEMMA EmitsOverflow ==
  ASSUME NEW R, NEW k, IsNative(k, R), NEW i, IsInsn(i, R), NEW a \in Words,
         NEW v, View(k, a) = v, NEW f, NEW value \in Words, NEW overflow \in BOOLEAN,
         f.value = value, f.overflow \in BOOLEAN, f.overflow <=> overflow
  PROVE  Stands(EmitOverflowing(k, i, f), WithOverflow(v, i, value, overflow), R, a)
<1>1. f.overflow = overflow
  BY SameTruth
<1>2. i.record \in BOOLEAN /\ i.destination \in R
  BY DEF IsInsn
<1>3. f.value \in Words
  OBVIOUS
<1>4. IsNative(EmitOverflowing(k, i, f), R)
        /\ View(EmitOverflowing(k, i, f), a) = WithOverflow(View(k, a), i, f.value, f.overflow)
  BY <1>2, <1>3, OverflowingIs
<1>. QED BY <1>1, <1>4, Zenon DEF Stands

LEMMA EmitsBoth ==
  ASSUME NEW R, NEW k, IsNative(k, R), NEW i, IsInsn(i, R), NEW a \in Words,
         NEW v, View(k, a) = v, NEW f, NEW value \in Words, NEW carry \in BOOLEAN,
         NEW overflow \in BOOLEAN, f.value = value, f.carry \in BOOLEAN, f.carry <=> carry,
         f.overflow \in BOOLEAN, f.overflow <=> overflow
  PROVE  Stands(EmitBoth(k, i, f), WithBoth(v, i, value, carry, overflow), R, a)
<1>1. f.carry = carry
  BY SameTruth
<1>2. f.overflow = overflow
  BY SameTruth
<1>3. i.record \in BOOLEAN /\ i.destination \in R
  BY DEF IsInsn
<1>4. f.value \in Words
  OBVIOUS
<1>5. IsNative(EmitBoth(k, i, f), R)
        /\ View(EmitBoth(k, i, f), a) = WithBoth(View(k, a), i, f.value, f.carry, f.overflow)
  BY <1>3, <1>4, BothIs
<1>. QED BY <1>1, <1>2, <1>5, Zenon DEF Stands

----------------------------------------------------------------------------
(* The arithmetic of the host.                                              *)

LEMMA WordFacts ==
  ASSUME NEW x \in Words
  PROVE  /\ x \in Int /\ 0 <= x /\ x < Modulus
         /\ Signed(x) \in Int /\ (Signed(x) = IF x >= Smallest THEN x - Modulus ELSE x)
         /\ Modulus \in Nat /\ Smallest \in Nat /\ Modulus = 2 * Smallest /\ Smallest >= 8
         /\ AllOnes = Modulus - 1
BY WordRange, WordSizes, SignedWord DEF Signed

LEMMA Wraps ==
  ASSUME NEW z \in Int
  PROVE  /\ Unsigned(z) \in Words
         /\ Unsigned(z + Modulus) = Unsigned(z)
         /\ Unsigned(z + 2 * Modulus) = Unsigned(z)
<1>1. Modulus \in Nat /\ Modulus > 0
  BY WordSizes
<1>2. (z + Modulus * 1) % Modulus = z % Modulus
  BY <1>1, DivShifted
<1>3. (z + Modulus * 2) % Modulus = z % Modulus
  BY <1>1, DivShifted
<1>4. Modulus * 1 = Modulus /\ Modulus * 2 = 2 * Modulus
  BY <1>1
<1>5. Unsigned(z + Modulus) = Unsigned(z) /\ Unsigned(z + 2 * Modulus) = Unsigned(z)
  BY <1>2, <1>3, <1>4, Zenon DEF Unsigned
<1>. QED BY <1>5, UnsignedOf

LEMMA HostAddIs ==
  ASSUME NEW x \in Words, NEW y \in Words, NEW c \in {0, 1}
  PROVE  LET f == HostAdd(x, y, c) IN
         /\ f.value = Unsigned(x + y + c) /\ f.value \in Words
         /\ f.carry \in BOOLEAN /\ (f.carry <=> x + y + c >= Modulus)
         /\ f.overflow \in BOOLEAN /\ (f.overflow <=> ~FitsSigned(Signed(x) + Signed(y) + c))
<1>1. x + y + c \in Int
  BY WordFacts
<1>2. Unsigned(x + y + c) \in Words
  BY <1>1, UnsignedOf
<1>. DEFINE u == Unsigned(x + y + c)
            k == x + y + c >= Modulus
            o == ~FitsSigned(Signed(x) + Signed(y) + c)
            f == HostAdd(x, y, c)
<1>3. f = [value |-> u, carry |-> k, overflow |-> o]
  BY Zenon DEF HostAdd
<1>4. k \in BOOLEAN /\ o \in BOOLEAN
  BY DEF FitsSigned
<1>5. f.value = u /\ f.carry = k /\ f.overflow = o
  <2>. HIDE DEF u, k, o, f
  <2>. QED BY <1>3
<1>6. (f.carry <=> k) /\ (f.overflow <=> o)
  <2>. HIDE DEF u, k, o, f
  <2>. QED BY <1>5, Zenon
<1>7. f.carry \in BOOLEAN /\ f.overflow \in BOOLEAN /\ f.value \in Words
  <2>. HIDE DEF k, o, f
  <2>. QED BY <1>2, <1>4, <1>5, Zenon
<1>. QED BY <1>5, <1>6, <1>7, Zenon

LEMMA HostSubIs ==
  ASSUME NEW x \in Words, NEW y \in Words, NEW c \in {0, 1}
  PROVE  LET f == HostSub(x, y, c) IN
         /\ f.value = Unsigned(x - y - c) /\ f.value \in Words
         /\ f.carry \in BOOLEAN /\ (f.carry <=> x < y + c)
         /\ f.overflow \in BOOLEAN /\ (f.overflow <=> ~FitsSigned(Signed(x) - Signed(y) - c))
         /\ NoBorrow(f).value = f.value /\ NoBorrow(f).overflow = f.overflow
         /\ NoBorrow(f).carry \in BOOLEAN /\ (NoBorrow(f).carry <=> x >= y + c)
<1>1. x - y - c \in Int /\ x \in Int /\ y + c \in Int
  BY WordFacts
<1>2. Unsigned(x - y - c) \in Words
  BY <1>1, UnsignedOf
<1>. DEFINE u == Unsigned(x - y - c)
            k == x < y + c
            o == ~FitsSigned(Signed(x) - Signed(y) - c)
            f == HostSub(x, y, c)
            g == NoBorrow(f)
<1>3. f = [value |-> u, carry |-> k, overflow |-> o]
  BY Zenon DEF HostSub
<1>4. k \in BOOLEAN /\ o \in BOOLEAN
  BY DEF FitsSigned
<1>5. f.value = u /\ f.carry = k /\ f.overflow = o
  <2>. HIDE DEF u, k, o, f
  <2>. QED BY <1>3
<1>6. (f.carry <=> k) /\ (f.overflow <=> o)
  <2>. HIDE DEF u, k, o, f
  <2>. QED BY <1>5, Zenon
<1>7. f.carry \in BOOLEAN /\ f.overflow \in BOOLEAN /\ f.value \in Words
  <2>. HIDE DEF k, o, f
  <2>. QED BY <1>2, <1>4, <1>5, Zenon
<1>. DEFINE nk == ~k
<1>8. g = [value |-> u, carry |-> nk, overflow |-> o]
  <2>1. g = [f EXCEPT !.carry = ~f.carry]
    BY Zenon DEF NoBorrow
  <2>2. nk = ~f.carry
    <3>. HIDE DEF f, k
    <3>. QED BY <1>5, Zenon
  <2>3. g = [f EXCEPT !.carry = nk]
    <3>. HIDE DEF f, g, nk
    <3>. QED BY <2>1, <2>2, Zenon
  <2>. HIDE DEF f, g, nk, u, k, o
  <2>. QED BY <1>3, <2>3
<1>9. nk \in BOOLEAN
  BY Zenon
<1>10. g.value = u /\ g.carry = nk /\ g.overflow = o
  <2>. HIDE DEF g, nk, u, o
  <2>. QED BY <1>8
<1>11. g.value = f.value /\ g.overflow = f.overflow /\ g.carry \in BOOLEAN /\ (g.carry <=> nk)
  <2>. HIDE DEF g, nk, u, o, f
  <2>. QED BY <1>5, <1>9, <1>10, Zenon
<1>12. nk <=> x >= y + c
  BY <1>1
<1>. QED BY <1>5, <1>6, <1>7, <1>11, <1>12, Zenon

LEMMA AddAgrees ==
  ASSUME NEW R, NEW n, IsNative(n, R), NEW i, IsInsn(i, R), NEW a \in Words
  PROVE  Stands(EmittedBitwise("add", n, i), add(View(n, a), i), R, a)
<1>. DEFINE v == View(n, a)
            k == Fetch(n, i)
            x == A(v, i)
            y == B(v, i)
            c == Carry(v.xer)
            value == Unsigned(x + y)
            f == HostAdd(x, y, 0).value
<1>1. IsNative(k, R) /\ View(k, a) = v /\ Base(k, i) = x /\ Source(k, i) = y
  BY FetchedPair
<1>2. x \in Words /\ y \in Words /\ c \in {0, 1} /\ CarryIn(n) = c
  BY OperandWords
<1>3. EmittedBitwise("add", n, i) = EmitResult(k, i, f)
  BY <1>1, <1>2, Zenon DEF EmittedBitwise
<1>4. add(v, i) = Plain(v, i, value)
  BY Zenon DEF add
<1>. HIDE DEF v, k, x, y, c
<1>5. value \in Words /\ f = value
  <2>0. x \in Int /\ 0 <= x /\ x < Modulus /\ y \in Int /\ 0 <= y /\ y < Modulus /\ c \in Int /\ Modulus \in Nat
    BY <1>2, WordFacts
  <2>1. x + y + 0 = x + y
    BY <2>0
  <2>2. HostAdd(x, y, 0).value = Unsigned(x + y + 0) /\ HostAdd(x, y, 0).value \in Words
    BY <1>2, HostAddIs
  <2>. QED BY <2>1, <2>2
<1>. HIDE DEF value, f
<1>6. Stands(EmitResult(k, i, value), Plain(v, i, value), R, a)
  BY <1>1, <1>5, EmitsPlain
<1>. QED BY <1>3, <1>4, <1>5, <1>6, Zenon DEF v

LEMMA AddOverflowAgrees ==
  ASSUME NEW R, NEW n, IsNative(n, R), NEW i, IsInsn(i, R), NEW a \in Words
  PROVE  Stands(EmittedAddOverflow("addo", n, i), addo(View(n, a), i), R, a)
<1>. DEFINE v == View(n, a)
            k == Fetch(n, i)
            x == A(v, i)
            y == B(v, i)
            c == Carry(v.xer)
            value == Unsigned(x + y)
            overflow == AddOverflows(x, y, value)
            f == HostAdd(x, y, 0)
<1>1. IsNative(k, R) /\ View(k, a) = v /\ Base(k, i) = x /\ Source(k, i) = y
  BY FetchedPair
<1>2. x \in Words /\ y \in Words /\ c \in {0, 1} /\ CarryIn(n) = c
  BY OperandWords
<1>3. EmittedAddOverflow("addo", n, i) = EmitOverflowing(k, i, f)
  BY <1>1, <1>2, Zenon DEF EmittedAddOverflow
<1>4. addo(v, i) = WithOverflow(v, i, value, overflow)
  BY Zenon DEF addo
<1>. HIDE DEF v, k, x, y, c
<1>5. value \in Words /\ f.value = value /\ overflow \in BOOLEAN /\ f.overflow \in BOOLEAN
        /\ (f.overflow <=> overflow)
  <2>1. x + y + 0 = x + y /\ Signed(x) + Signed(y) + 0 = Signed(x) + Signed(y)
    BY <1>2, WordFacts
  <2>2. f.value = Unsigned(x + y + 0) /\ f.value \in Words /\ f.carry \in BOOLEAN
          /\ (f.carry <=> x + y + 0 >= Modulus) /\ f.overflow \in BOOLEAN
          /\ (f.overflow <=> ~FitsSigned(Signed(x) + Signed(y) + 0))
    BY <1>2, HostAddIs
  <2>3. overflow \in BOOLEAN /\ (overflow <=> ~FitsSigned(Signed(x) + Signed(y)))
    BY <1>2, AddSigns DEF AddOverflows
  <2>. HIDE DEF f, overflow
  <2>. QED BY <2>1, <2>2, <2>3
<1>. HIDE DEF value, overflow, f
<1>6. Stands(EmitOverflowing(k, i, f), WithOverflow(v, i, value, overflow), R, a)
  BY <1>1, <1>5, EmitsOverflow
<1>. QED BY <1>3, <1>4, <1>6, Zenon DEF v

LEMMA AddCarryingAgrees ==
  ASSUME NEW R, NEW n, IsNative(n, R), NEW i, IsInsn(i, R), NEW a \in Words
  PROVE  Stands(EmittedAddCarrying(n, i), addc(View(n, a), i), R, a)
<1>. DEFINE v == View(n, a)
            k == Fetch(n, i)
            x == A(v, i)
            y == B(v, i)
            c == Carry(v.xer)
            value == Unsigned(x + y)
            carry == x + y >= Modulus
            f == HostAdd(x, y, 0)
<1>1. IsNative(k, R) /\ View(k, a) = v /\ Base(k, i) = x /\ Source(k, i) = y
  BY FetchedPair
<1>2. x \in Words /\ y \in Words /\ c \in {0, 1} /\ CarryIn(n) = c
  BY OperandWords
<1>3. EmittedAddCarrying(n, i) = EmitCarrying(k, i, f)
  BY <1>1, <1>2, Zenon DEF EmittedAddCarrying
<1>4. addc(v, i) = WithCarry(v, i, value, carry)
  BY Zenon DEF addc
<1>. HIDE DEF v, k, x, y, c
<1>5. value \in Words /\ f.value = value /\ carry \in BOOLEAN /\ f.carry \in BOOLEAN /\ (f.carry <=> carry)
  <2>1. x + y + 0 = x + y /\ Signed(x) + Signed(y) + 0 = Signed(x) + Signed(y)
    BY <1>2, WordFacts
  <2>2. f.value = Unsigned(x + y + 0) /\ f.value \in Words /\ f.carry \in BOOLEAN
          /\ (f.carry <=> x + y + 0 >= Modulus) /\ f.overflow \in BOOLEAN
          /\ (f.overflow <=> ~FitsSigned(Signed(x) + Signed(y) + 0))
    BY <1>2, HostAddIs
  <2>. HIDE DEF f
  <2>. QED BY <2>1, <2>2
<1>. HIDE DEF value, carry, f
<1>6. Stands(EmitCarrying(k, i, f), WithCarry(v, i, value, carry), R, a)
  BY <1>1, <1>5, EmitsCarry
<1>. QED BY <1>3, <1>4, <1>6, Zenon DEF v

LEMMA AddCarryingOverflowAgrees ==
  ASSUME NEW R, NEW n, IsNative(n, R), NEW i, IsInsn(i, R), NEW a \in Words
  PROVE  Stands(EmittedAddCarryingOverflow(n, i), addco(View(n, a), i), R, a)
<1>. DEFINE v == View(n, a)
            k == Fetch(n, i)
            x == A(v, i)
            y == B(v, i)
            c == Carry(v.xer)
            value == Unsigned(x + y)
            carry == x + y >= Modulus
            overflow == AddOverflows(x, y, value)
            f == HostAdd(x, y, 0)
<1>1. IsNative(k, R) /\ View(k, a) = v /\ Base(k, i) = x /\ Source(k, i) = y
  BY FetchedPair
<1>2. x \in Words /\ y \in Words /\ c \in {0, 1} /\ CarryIn(n) = c
  BY OperandWords
<1>3. EmittedAddCarryingOverflow(n, i) = EmitBoth(k, i, f)
  BY <1>1, <1>2, Zenon DEF EmittedAddCarryingOverflow
<1>4. addco(v, i) = WithBoth(v, i, value, carry, overflow)
  BY Zenon DEF addco
<1>. HIDE DEF v, k, x, y, c
<1>5. value \in Words /\ f.value = value /\ carry \in BOOLEAN /\ f.carry \in BOOLEAN /\ (f.carry <=> carry)
        /\ overflow \in BOOLEAN /\ f.overflow \in BOOLEAN /\ (f.overflow <=> overflow)
  <2>1. x + y + 0 = x + y /\ Signed(x) + Signed(y) + 0 = Signed(x) + Signed(y)
    BY <1>2, WordFacts
  <2>2. f.value = Unsigned(x + y + 0) /\ f.value \in Words /\ f.carry \in BOOLEAN
          /\ (f.carry <=> x + y + 0 >= Modulus) /\ f.overflow \in BOOLEAN
          /\ (f.overflow <=> ~FitsSigned(Signed(x) + Signed(y) + 0))
    BY <1>2, HostAddIs
  <2>3. overflow \in BOOLEAN /\ (overflow <=> ~FitsSigned(Signed(x) + Signed(y)))
    BY <1>2, AddSigns DEF AddOverflows
  <2>. HIDE DEF f, overflow
  <2>. QED BY <2>1, <2>2, <2>3
<1>. HIDE DEF value, carry, overflow, f
<1>6. Stands(EmitBoth(k, i, f), WithBoth(v, i, value, carry, overflow), R, a)
  BY <1>1, <1>5, EmitsBoth
<1>. QED BY <1>3, <1>4, <1>6, Zenon DEF v

LEMMA AddExtendedAgrees ==
  ASSUME NEW R, NEW n, IsNative(n, R), NEW i, IsInsn(i, R), NEW a \in Words
  PROVE  Stands(EmittedAddExtended(n, i), adde(View(n, a), i), R, a)
<1>. DEFINE v == View(n, a)
            k == Fetch(n, i)
            x == A(v, i)
            y == B(v, i)
            c == Carry(v.xer)
            value == Unsigned(x + y + c)
            carry == x + y + c >= Modulus
            f == [value |-> HostAdd(HostAdd(x, y, 0).value, c, 0).value,
                  carry |-> HostAdd(x, y, 0).carry \/ HostAdd(HostAdd(x, y, 0).value, c, 0).carry]
<1>1. IsNative(k, R) /\ View(k, a) = v /\ Base(k, i) = x /\ Source(k, i) = y
  BY FetchedPair
<1>2. x \in Words /\ y \in Words /\ c \in {0, 1} /\ CarryIn(n) = c
  BY OperandWords
<1>3. EmittedAddExtended(n, i) = EmitCarrying(k, i, f)
  BY <1>1, <1>2, Zenon DEF EmittedAddExtended
<1>4. adde(v, i) = WithCarry(v, i, value, carry)
  BY Zenon DEF adde
<1>. HIDE DEF v, k, x, y, c
<1>5. value \in Words /\ f.value = value /\ carry \in BOOLEAN /\ f.carry \in BOOLEAN /\ (f.carry <=> carry)
  <2>0. /\ x \in Int /\ 0 <= x /\ x < Modulus /\ y \in Int /\ 0 <= y /\ y < Modulus /\ c \in Int
        /\ Signed(x) \in Int /\ Signed(y) \in Int /\ Modulus \in Nat /\ Modulus > 1 /\ AllOnes = Modulus - 1
    BY <1>2, WordFacts
  <2>9. carry \in BOOLEAN
    OBVIOUS
  <2>. DEFINE ab == HostAdd(x, y, 0)
              all == HostAdd(ab.value, c, 0)
              carries == ab.carry \/ all.carry
  <2>1. c \in Words
    BY <1>2, <2>0, WordRange
  <2>2. ab.value = Unsigned(x + y + 0) /\ ab.value \in Words
          /\ ab.carry \in BOOLEAN /\ (ab.carry <=> x + y + 0 >= Modulus)
    BY <1>2, HostAddIs
  <2>. DEFINE u == ab.value
  <2>3. u \in Words /\ u = Unsigned(x + y) /\ u \in Int
    <3>1. x + y + 0 = x + y
      BY <2>0
    <3>. QED BY <2>2, <3>1, WordRange
  <2>4. u = IF x + y < Modulus THEN x + y ELSE x + y - Modulus
    <3>1. x + y \in Int
      BY <2>0
    <3>2. x + y < Modulus => Unsigned(x + y) = x + y
      BY <2>0, <3>1, UnsignedNear
    <3>3. x + y >= Modulus => Unsigned(x + y) = x + y - Modulus
      BY <2>0, <3>1, UnsignedNear
    <3>. HIDE DEF u
    <3>. QED BY <2>0, <2>3, <3>2, <3>3
  <2>. HIDE DEF ab, u
  <2>5. all.value = Unsigned(u + c + 0) /\ all.value \in Words
          /\ all.carry \in BOOLEAN /\ (all.carry <=> u + c + 0 >= Modulus)
    BY <2>1, <2>3, HostAddIs DEF u
  <2>6. all.value = value
    <3>1. Unsigned(Unsigned(x + y) + c) = Unsigned(x + y + c)
      BY <2>0, UnsignedSum
    <3>2. u + c + 0 = u + c
      BY <2>0, <2>3
    <3>. HIDE DEF all
    <3>. QED BY <2>3, <2>5, <3>1, <3>2
  <2>7. carries \in BOOLEAN /\ (carries <=> carry)
    <3>1. (x + y + 0 >= Modulus \/ u + c + 0 >= Modulus) <=> carry
      BY <1>2, <2>0, <2>3, <2>4
    <3>. HIDE DEF all, carry
    <3>. QED BY <2>2, <2>5, <3>1, Zenon
  <2>8. f.value = all.value /\ f.carry = carries
    <3>1. f = [value |-> all.value, carry |-> carries]
      BY Zenon DEF ab
    <3>. HIDE DEF f, all, carries
    <3>. QED BY <3>1
  <2>. HIDE DEF f, all, carries, value, carry
  <2>. QED BY <2>5, <2>6, <2>7, <2>8, <2>9, Zenon
<1>. HIDE DEF value, carry, f
<1>6. Stands(EmitCarrying(k, i, f), WithCarry(v, i, value, carry), R, a)
  BY <1>1, <1>5, EmitsCarry
<1>. QED BY <1>3, <1>4, <1>6, Zenon DEF v

LEMMA AddExtendedOverflowAgrees ==
  ASSUME NEW R, NEW n, IsNative(n, R), NEW i, IsInsn(i, R), NEW a \in Words
  PROVE  Stands(EmittedAddExtendedOverflow(n, i), addeo(View(n, a), i), R, a)
<1>. DEFINE v == View(n, a)
            k == Fetch(n, i)
            x == A(v, i)
            y == B(v, i)
            c == Carry(v.xer)
            value == Unsigned(x + y + c)
            carry == x + y + c >= Modulus
            overflow == ~FitsSigned(Signed(x) + Signed(y) + c)
            f == HostAdd(x, y, c)
<1>1. IsNative(k, R) /\ View(k, a) = v /\ Base(k, i) = x /\ Source(k, i) = y
  BY FetchedPair
<1>2. x \in Words /\ y \in Words /\ c \in {0, 1} /\ CarryIn(n) = c
  BY OperandWords
<1>3. EmittedAddExtendedOverflow(n, i) = EmitBoth(k, i, f)
  BY <1>1, <1>2, Zenon DEF EmittedAddExtendedOverflow
<1>4. addeo(v, i) = WithBoth(v, i, value, carry, overflow)
  BY Zenon DEF addeo, Extended
<1>. HIDE DEF v, k, x, y, c
<1>5. value \in Words /\ f.value = value /\ carry \in BOOLEAN /\ f.carry \in BOOLEAN /\ (f.carry <=> carry)
        /\ overflow \in BOOLEAN /\ f.overflow \in BOOLEAN /\ (f.overflow <=> overflow)
  <2>0. /\ x \in Int /\ 0 <= x /\ x < Modulus /\ y \in Int /\ 0 <= y /\ y < Modulus /\ c \in Int
        /\ Signed(x) \in Int /\ Signed(y) \in Int /\ Modulus \in Nat /\ Modulus > 1 /\ AllOnes = Modulus - 1
    BY <1>2, WordFacts
  <2>9. (carry \in BOOLEAN) /\ (overflow \in BOOLEAN)
    BY DEF FitsSigned
  <2>1. x \in Words /\ y \in Words
    BY <1>2, <2>0, WordRange
  <2>2. f.value = Unsigned(x + y + c) /\ f.value \in Words /\ f.carry \in BOOLEAN
          /\ (f.carry <=> x + y + c >= Modulus) /\ f.overflow \in BOOLEAN
          /\ (f.overflow <=> ~FitsSigned(Signed(x) + Signed(y) + c))
    BY <1>2, <2>1, HostAddIs
  <2>. HIDE DEF f
  <2>. QED BY <2>2, <2>9
<1>. HIDE DEF value, carry, overflow, f
<1>6. Stands(EmitBoth(k, i, f), WithBoth(v, i, value, carry, overflow), R, a)
  BY <1>1, <1>5, EmitsBoth
<1>. QED BY <1>3, <1>4, <1>6, Zenon DEF v

LEMMA AddToZeroAgrees ==
  ASSUME NEW R, NEW n, IsNative(n, R), NEW i, IsInsn(i, R), NEW a \in Words
  PROVE  Stands(EmittedAddToZero(n, i), addze(View(n, a), i), R, a)
<1>. DEFINE v == View(n, a)
            k == read_guest_gpr(n, {i.base})
            x == A(v, i)
            y == B(v, i)
            c == Carry(v.xer)
            value == Unsigned(x + c)
            carry == x + c >= Modulus
            f == HostAdd(x, c, 0)
<1>1. IsNative(k, R) /\ View(k, a) = v /\ Base(k, i) = x
  BY FetchedBase
<1>2. x \in Words /\ y \in Words /\ c \in {0, 1} /\ CarryIn(n) = c
  BY OperandWords
<1>3. EmittedAddToZero(n, i) = EmitCarrying(k, i, f)
  BY <1>1, <1>2, Zenon DEF EmittedAddToZero
<1>4. addze(v, i) = WithCarry(v, i, value, carry)
  BY Zenon DEF addze
<1>. HIDE DEF v, k, x, y, c
<1>5. value \in Words /\ f.value = value /\ carry \in BOOLEAN /\ f.carry \in BOOLEAN /\ (f.carry <=> carry)
  <2>0. /\ x \in Int /\ 0 <= x /\ x < Modulus /\ y \in Int /\ 0 <= y /\ y < Modulus /\ c \in Int
        /\ Signed(x) \in Int /\ Signed(y) \in Int /\ Modulus \in Nat /\ Modulus > 1 /\ AllOnes = Modulus - 1
    BY <1>2, WordFacts
  <2>9. carry \in BOOLEAN
    OBVIOUS
  <2>1. c \in Words
    BY <1>2, <2>0, WordRange
  <2>2. f.value = Unsigned(x + c + 0) /\ f.value \in Words /\ f.carry \in BOOLEAN
          /\ (f.carry <=> x + c + 0 >= Modulus)
    BY <1>2, <2>1, HostAddIs
  <2>3. x + c + 0 = x + c
    BY <2>0
  <2>. HIDE DEF f
  <2>. QED BY <2>2, <2>3, <2>9
<1>. HIDE DEF value, carry, f
<1>6. Stands(EmitCarrying(k, i, f), WithCarry(v, i, value, carry), R, a)
  BY <1>1, <1>5, EmitsCarry
<1>. QED BY <1>3, <1>4, <1>6, Zenon DEF v

LEMMA AddToZeroOverflowAgrees ==
  ASSUME NEW R, NEW n, IsNative(n, R), NEW i, IsInsn(i, R), NEW a \in Words
  PROVE  Stands(EmittedAddToZeroOverflow(n, i), addzeo(View(n, a), i), R, a)
<1>. DEFINE v == View(n, a)
            k == read_guest_gpr(n, {i.base})
            x == A(v, i)
            y == B(v, i)
            c == Carry(v.xer)
            value == Unsigned(x + c)
            carry == x + c >= Modulus
            overflow == ~FitsSigned(Signed(x) + c)
            f == HostAdd(x, 0, c)
<1>1. IsNative(k, R) /\ View(k, a) = v /\ Base(k, i) = x
  BY FetchedBase
<1>2. x \in Words /\ y \in Words /\ c \in {0, 1} /\ CarryIn(n) = c
  BY OperandWords
<1>3. EmittedAddToZeroOverflow(n, i) = EmitBoth(k, i, f)
  BY <1>1, <1>2, Zenon DEF EmittedAddToZeroOverflow
<1>4. addzeo(v, i) = WithBoth(v, i, value, carry, overflow)
  BY Zenon DEF addzeo, Extended
<1>. HIDE DEF v, k, x, y, c
<1>5. value \in Words /\ f.value = value /\ carry \in BOOLEAN /\ f.carry \in BOOLEAN /\ (f.carry <=> carry)
        /\ overflow \in BOOLEAN /\ f.overflow \in BOOLEAN /\ (f.overflow <=> overflow)
  <2>0. /\ x \in Int /\ 0 <= x /\ x < Modulus /\ y \in Int /\ 0 <= y /\ y < Modulus /\ c \in Int
        /\ Signed(x) \in Int /\ Signed(y) \in Int /\ Modulus \in Nat /\ Modulus > 1 /\ AllOnes = Modulus - 1
    BY <1>2, WordFacts
  <2>9. (carry \in BOOLEAN) /\ (overflow \in BOOLEAN)
    BY DEF FitsSigned
  <2>1. x \in Words /\ 0 \in Words
    BY <1>2, <2>0, WordRange
  <2>2. f.value = Unsigned(x + 0 + c) /\ f.value \in Words /\ f.carry \in BOOLEAN
          /\ (f.carry <=> x + 0 + c >= Modulus) /\ f.overflow \in BOOLEAN
          /\ (f.overflow <=> ~FitsSigned(Signed(x) + Signed(0) + c))
    BY <1>2, <2>1, HostAddIs
  <2>3. Signed(0) = 0 /\ Signed(AllOnes) = -1
    BY WordSizes, WordRange DEF Signed
  <2>4. x + 0 + c = x + c /\ Signed(x) + Signed(0) + c = Signed(x) + c
    BY <2>0, <2>3
  <2>. HIDE DEF f
  <2>. QED BY <2>2, <2>4, <2>9
<1>. HIDE DEF value, carry, overflow, f
<1>6. Stands(EmitBoth(k, i, f), WithBoth(v, i, value, carry, overflow), R, a)
  BY <1>1, <1>5, EmitsBoth
<1>. QED BY <1>3, <1>4, <1>6, Zenon DEF v

LEMMA AddToMinusOneAgrees ==
  ASSUME NEW R, NEW n, IsNative(n, R), NEW i, IsInsn(i, R), NEW a \in Words
  PROVE  Stands(EmittedAddToMinusOne(n, i), addme(View(n, a), i), R, a)
<1>. DEFINE v == View(n, a)
            k == read_guest_gpr(n, {i.base})
            x == A(v, i)
            y == B(v, i)
            c == Carry(v.xer)
            value == Unsigned(x + AllOnes + c)
            carry == x + AllOnes + c >= Modulus
            f == [value |-> HostAdd(HostSub(x, 1, 0).value, c, 0).value, carry |-> x # 0 \/ c = 1]
<1>1. IsNative(k, R) /\ View(k, a) = v /\ Base(k, i) = x
  BY FetchedBase
<1>2. x \in Words /\ y \in Words /\ c \in {0, 1} /\ CarryIn(n) = c
  BY OperandWords
<1>3. EmittedAddToMinusOne(n, i) = EmitCarrying(k, i, f)
  BY <1>1, <1>2, Zenon DEF EmittedAddToMinusOne
<1>4. addme(v, i) = WithCarry(v, i, value, carry)
  BY Zenon DEF addme
<1>. HIDE DEF v, k, x, y, c
<1>5. value \in Words /\ f.value = value /\ carry \in BOOLEAN /\ f.carry \in BOOLEAN /\ (f.carry <=> carry)
  <2>0. /\ x \in Int /\ 0 <= x /\ x < Modulus /\ y \in Int /\ 0 <= y /\ y < Modulus /\ c \in Int
        /\ Signed(x) \in Int /\ Signed(y) \in Int /\ Modulus \in Nat /\ Modulus > 1 /\ AllOnes = Modulus - 1
    BY <1>2, WordFacts
  <2>9. carry \in BOOLEAN
    OBVIOUS
  <2>. DEFINE u == HostSub(x, 1, 0).value
              w == HostAdd(u, c, 0).value
              carries == x # 0 \/ c = 1
  <2>1. c \in Words /\ 1 \in Words
    BY <1>2, <2>0, WordRange
  <2>2. u = Unsigned(x - 1 - 0) /\ u \in Words
    BY <1>2, <2>1, HostSubIs
  <2>. HIDE DEF u
  <2>3. w = Unsigned(u + c + 0) /\ w \in Words
    BY <2>1, <2>2, HostAddIs
  <2>. HIDE DEF w
  <2>4. w = value
    <3>1. x - 1 - 0 = x - 1 /\ u + c + 0 = u + c /\ x - 1 \in Int /\ u \in Int
      BY <2>0, <2>2, WordRange
    <3>2. Unsigned(Unsigned(x - 1) + c) = Unsigned((x - 1) + c)
      BY <2>0, <3>1, UnsignedSum
    <3>3. Unsigned(((x - 1) + c) + Modulus) = Unsigned((x - 1) + c)
      BY <2>0, Wraps
    <3>4. ((x - 1) + c) + Modulus = x + AllOnes + c
      BY <2>0
    <3>. QED BY <2>2, <2>3, <3>1, <3>2, <3>3, <3>4
  <2>5. carries \in BOOLEAN /\ (carries <=> carry)
    BY <1>2, <2>0
  <2>6. f.value = w /\ f.carry = carries
    <3>1. f = [value |-> w, carry |-> carries]
      BY Zenon DEF u, w
    <3>. HIDE DEF f, carries
    <3>. QED BY <3>1
  <2>. HIDE DEF f, carries, value, carry
  <2>. QED BY <2>3, <2>4, <2>5, <2>6, <2>9, Zenon
<1>. HIDE DEF value, carry, f
<1>6. Stands(EmitCarrying(k, i, f), WithCarry(v, i, value, carry), R, a)
  BY <1>1, <1>5, EmitsCarry
<1>. QED BY <1>3, <1>4, <1>6, Zenon DEF v

LEMMA AddToMinusOneOverflowAgrees ==
  ASSUME NEW R, NEW n, IsNative(n, R), NEW i, IsInsn(i, R), NEW a \in Words
  PROVE  Stands(EmittedAddToMinusOneOverflow(n, i), addmeo(View(n, a), i), R, a)
<1>. DEFINE v == View(n, a)
            k == read_guest_gpr(n, {i.base})
            x == A(v, i)
            y == B(v, i)
            c == Carry(v.xer)
            value == Unsigned(x + AllOnes + c)
            carry == x + AllOnes + c >= Modulus
            overflow == ~FitsSigned(Signed(x) - 1 + c)
            f == HostAdd(x, AllOnes, c)
<1>1. IsNative(k, R) /\ View(k, a) = v /\ Base(k, i) = x
  BY FetchedBase
<1>2. x \in Words /\ y \in Words /\ c \in {0, 1} /\ CarryIn(n) = c
  BY OperandWords
<1>3. EmittedAddToMinusOneOverflow(n, i) = EmitBoth(k, i, f)
  BY <1>1, <1>2, Zenon DEF EmittedAddToMinusOneOverflow
<1>4. addmeo(v, i) = WithBoth(v, i, value, carry, overflow)
  BY Zenon DEF addmeo, Extended
<1>. HIDE DEF v, k, x, y, c
<1>5. value \in Words /\ f.value = value /\ carry \in BOOLEAN /\ f.carry \in BOOLEAN /\ (f.carry <=> carry)
        /\ overflow \in BOOLEAN /\ f.overflow \in BOOLEAN /\ (f.overflow <=> overflow)
  <2>0. /\ x \in Int /\ 0 <= x /\ x < Modulus /\ y \in Int /\ 0 <= y /\ y < Modulus /\ c \in Int
        /\ Signed(x) \in Int /\ Signed(y) \in Int /\ Modulus \in Nat /\ Modulus > 1 /\ AllOnes = Modulus - 1
    BY <1>2, WordFacts
  <2>9. (carry \in BOOLEAN) /\ (overflow \in BOOLEAN)
    BY DEF FitsSigned
  <2>1. x \in Words /\ AllOnes \in Words
    BY <1>2, <2>0, WordRange
  <2>2. f.value = Unsigned(x + AllOnes + c) /\ f.value \in Words /\ f.carry \in BOOLEAN
          /\ (f.carry <=> x + AllOnes + c >= Modulus) /\ f.overflow \in BOOLEAN
          /\ (f.overflow <=> ~FitsSigned(Signed(x) + Signed(AllOnes) + c))
    BY <1>2, <2>1, HostAddIs
  <2>3. Signed(0) = 0 /\ Signed(AllOnes) = -1
    BY WordSizes, WordRange DEF Signed
  <2>4. Signed(x) + Signed(AllOnes) + c = Signed(x) - 1 + c
    BY <2>0, <2>3
  <2>. HIDE DEF f
  <2>. QED BY <2>2, <2>4, <2>9
<1>. HIDE DEF value, carry, overflow, f
<1>6. Stands(EmitBoth(k, i, f), WithBoth(v, i, value, carry, overflow), R, a)
  BY <1>1, <1>5, EmitsBoth
<1>. QED BY <1>3, <1>4, <1>6, Zenon DEF v

LEMMA NegateAgrees ==
  ASSUME NEW R, NEW n, IsNative(n, R), NEW i, IsInsn(i, R), NEW a \in Words
  PROVE  Stands(EmittedNegate(n, i), neg(View(n, a), i), R, a)
<1>. DEFINE v == View(n, a)
            k == read_guest_gpr(n, {i.source})
            x == A(v, i)
            y == B(v, i)
            c == Carry(v.xer)
            value == Unsigned(-y)
            f == HostSub(0, y, 0).value
<1>1. IsNative(k, R) /\ View(k, a) = v /\ Source(k, i) = y
  BY FetchedSource
<1>2. x \in Words /\ y \in Words /\ c \in {0, 1} /\ CarryIn(n) = c
  BY OperandWords
<1>3. EmittedNegate(n, i) = EmitResult(k, i, f)
  BY <1>1, <1>2, Zenon DEF EmittedNegate
<1>4. neg(v, i) = Plain(v, i, value)
  BY Zenon DEF neg
<1>. HIDE DEF v, k, x, y, c
<1>5. value \in Words /\ f = value
  <2>0. /\ x \in Int /\ 0 <= x /\ x < Modulus /\ y \in Int /\ 0 <= y /\ y < Modulus /\ c \in Int
        /\ Signed(x) \in Int /\ Signed(y) \in Int /\ Modulus \in Nat /\ Modulus > 1 /\ AllOnes = Modulus - 1
    BY <1>2, WordFacts
  <2>1. 0 \in Words
    BY <1>2, WordRange
  <2>3. 0 - y - 0 = -y
    BY <2>0
  <2>2. HostSub(0, y, 0).value = Unsigned(0 - y - 0) /\ HostSub(0, y, 0).value \in Words
    BY <1>2, <2>1, HostSubIs
  <2>. QED BY <2>2, <2>3
<1>. HIDE DEF value, f
<1>6. Stands(EmitResult(k, i, value), Plain(v, i, value), R, a)
  BY <1>1, <1>5, EmitsPlain
<1>. QED BY <1>3, <1>4, <1>5, <1>6, Zenon DEF v

LEMMA NegateOverflowAgrees ==
  ASSUME NEW R, NEW n, IsNative(n, R), NEW i, IsInsn(i, R), NEW a \in Words
  PROVE  Stands(EmittedNegateOverflow(n, i), nego(View(n, a), i), R, a)
<1>. DEFINE v == View(n, a)
            k == read_guest_gpr(n, {i.source})
            x == A(v, i)
            y == B(v, i)
            c == Carry(v.xer)
            value == Unsigned(-y)
            overflow == y = Smallest
            f == HostSub(0, y, 0)
<1>1. IsNative(k, R) /\ View(k, a) = v /\ Source(k, i) = y
  BY FetchedSource
<1>2. x \in Words /\ y \in Words /\ c \in {0, 1} /\ CarryIn(n) = c
  BY OperandWords
<1>3. EmittedNegateOverflow(n, i) = EmitOverflowing(k, i, f)
  BY <1>1, <1>2, Zenon DEF EmittedNegateOverflow
<1>4. nego(v, i) = WithOverflow(v, i, value, overflow)
  BY Zenon DEF nego
<1>. HIDE DEF v, k, x, y, c
<1>5. value \in Words /\ f.value = value /\ overflow \in BOOLEAN /\ f.overflow \in BOOLEAN
        /\ (f.overflow <=> overflow)
  <2>0. /\ x \in Int /\ 0 <= x /\ x < Modulus /\ y \in Int /\ 0 <= y /\ y < Modulus /\ c \in Int
        /\ Signed(x) \in Int /\ Signed(y) \in Int /\ Modulus \in Nat /\ Modulus > 1 /\ AllOnes = Modulus - 1
    BY <1>2, WordFacts
  <2>1. 0 \in Words
    BY <1>2, WordRange
  <2>3. 0 - y - 0 = -y
    BY <2>0
  <2>2. f.value = Unsigned(0 - y - 0) /\ f.value \in Words /\ f.overflow \in BOOLEAN
          /\ (f.overflow <=> ~FitsSigned(Signed(0) - Signed(y) - 0))
    BY <1>2, <2>1, HostSubIs
  <2>4. overflow \in BOOLEAN /\ (~FitsSigned(Signed(0) - Signed(y) - 0) <=> overflow)
    <3>1. Signed(0) = 0 /\ (Signed(y) = IF y >= Smallest THEN y - Modulus ELSE y)
            /\ Smallest \in Nat /\ Smallest > 0 /\ Modulus = 2 * Smallest
      BY <1>2, WordFacts, WordSizes DEF Signed
    <3>. QED BY <2>0, <3>1 DEF FitsSigned
  <2>. HIDE DEF f, overflow
  <2>. QED BY <2>2, <2>3, <2>4
<1>. HIDE DEF value, overflow, f
<1>6. Stands(EmitOverflowing(k, i, f), WithOverflow(v, i, value, overflow), R, a)
  BY <1>1, <1>5, EmitsOverflow
<1>. QED BY <1>3, <1>4, <1>6, Zenon DEF v

LEMMA MultiplyLowAgrees ==
  ASSUME NEW R, NEW n, IsNative(n, R), NEW i, IsInsn(i, R), NEW a \in Words
  PROVE  Stands(EmittedMultiplyLow("mullw", n, i), mullw(View(n, a), i), R, a)
<1>. DEFINE v == View(n, a)
            k == Fetch(n, i)
            x == A(v, i)
            y == B(v, i)
            c == Carry(v.xer)
            value == Unsigned(Signed(x) * Signed(y))
            f == Unsigned(Signed(x) * Signed(y))
<1>1. IsNative(k, R) /\ View(k, a) = v /\ Base(k, i) = x /\ Source(k, i) = y
  BY FetchedPair
<1>2. x \in Words /\ y \in Words /\ c \in {0, 1} /\ CarryIn(n) = c
  BY OperandWords
<1>3. EmittedMultiplyLow("mullw", n, i) = EmitResult(k, i, f)
  BY <1>1, <1>2, Zenon DEF EmittedMultiplyLow
<1>4. mullw(v, i) = Plain(v, i, value)
  BY Zenon DEF mullw
<1>. HIDE DEF v, k, x, y, c
<1>5. value \in Words /\ f = value
  <2>1. Signed(x) \in Int /\ Signed(y) \in Int /\ Signed(x) * Signed(y) \in Int
    BY <1>2, WordFacts
  <2>. QED BY <2>1, UnsignedOf
<1>. HIDE DEF value, f
<1>6. Stands(EmitResult(k, i, value), Plain(v, i, value), R, a)
  BY <1>1, <1>5, EmitsPlain
<1>. QED BY <1>3, <1>4, <1>5, <1>6, Zenon DEF v

LEMMA MultiplyLowOverflowAgrees ==
  ASSUME NEW R, NEW n, IsNative(n, R), NEW i, IsInsn(i, R), NEW a \in Words
  PROVE  Stands(EmittedMultiplyLow("mullwo", n, i), mullwo(View(n, a), i), R, a)
<1>. DEFINE v == View(n, a)
            k == Fetch(n, i)
            x == A(v, i)
            y == B(v, i)
            c == Carry(v.xer)
            value == Unsigned(Signed(x) * Signed(y))
            overflow == ~FitsSigned(Signed(x) * Signed(y))
            f == [value |-> Unsigned(Signed(x) * Signed(y)), overflow |-> ~FitsSigned(Signed(x) * Signed(y))]
<1>1. IsNative(k, R) /\ View(k, a) = v /\ Base(k, i) = x /\ Source(k, i) = y
  BY FetchedPair
<1>2. x \in Words /\ y \in Words /\ c \in {0, 1} /\ CarryIn(n) = c
  BY OperandWords
<1>3. EmittedMultiplyLow("mullwo", n, i) = EmitOverflowing(k, i, f)
  BY <1>1, <1>2, Zenon DEF EmittedMultiplyLow
<1>4. mullwo(v, i) = WithOverflow(v, i, value, overflow)
  BY Zenon DEF mullwo
<1>. HIDE DEF v, k, x, y, c
<1>5. value \in Words /\ f.value = value /\ overflow \in BOOLEAN /\ f.overflow \in BOOLEAN
        /\ (f.overflow <=> overflow)
  <2>1. Signed(x) \in Int /\ Signed(y) \in Int /\ Signed(x) * Signed(y) \in Int
    BY <1>2, WordFacts
  <2>2. value \in Words
    BY <2>1, UnsignedOf
  <2>3. overflow \in BOOLEAN
    BY DEF FitsSigned
  <2>4. f.value = value /\ f.overflow = overflow
    <3>1. f = [value |-> value, overflow |-> overflow]
      BY Zenon
    <3>. HIDE DEF f, value, overflow
    <3>. QED BY <3>1
  <2>. HIDE DEF f, value, overflow
  <2>. QED BY <2>2, <2>3, <2>4, Zenon
<1>. HIDE DEF value, overflow, f
<1>6. Stands(EmitOverflowing(k, i, f), WithOverflow(v, i, value, overflow), R, a)
  BY <1>1, <1>5, EmitsOverflow
<1>. QED BY <1>3, <1>4, <1>6, Zenon DEF v

\* The high half of a product cut to a double word.
LEMMA HighHalf ==
  ASSUME NEW p \in Int
  PROVE  (p % (Modulus * Modulus)) \div Modulus = Unsigned(p \div Modulus)
<1>. DEFINE m == Modulus
            q == p \div m
            r == p % m
            h == q \div m
            l == q % m
<1>1. m \in Nat /\ m > 0
  BY WordSizes
<1>. HIDE DEF m
<1>2. q \in Int /\ r \in 0..(m - 1) /\ p = m * q + r
  BY <1>1, DivMod
<1>. HIDE DEF q, r
<1>3. h \in Int /\ l \in 0..(m - 1) /\ q = m * h + l
  BY <1>1, <1>2, DivMod
<1>. HIDE DEF h, l
<1>. DEFINE mm == m * m
            t == m * l
            w == t + r
<1>4. mm \in Nat /\ mm > 0 /\ t \in Int /\ t >= 0 /\ t <= mm - m
  <2>1. m * l <= m * (m - 1) /\ m * l >= 0 /\ m * l \in Int
    BY <1>1, <1>3
  <2>2. m * (m - 1) = m * m - m
    BY <1>1
  <2>. QED BY <1>1, <2>1, <2>2
<1>5. w \in 0..(mm - 1)
  <2>. HIDE DEF mm, t
  <2>. QED BY <1>1, <1>2, <1>4
<1>6. p = mm * h + w
  <2>1. m * q = m * (m * h) + m * l
    BY <1>1, <1>3
  <2>2. m * (m * h) = (m * m) * h
    BY <1>1, <1>3
  <2>3. (m * m) * h \in Int /\ m * l \in Int
    BY <1>1, <1>3
  <2>. QED BY <1>1, <1>2, <2>1, <2>2, <2>3
<1>7. p % mm = w
  <2>. HIDE DEF mm, w
  <2>. QED BY <1>3, <1>4, <1>5, <1>6, DivModUnique
<1>8. w \div m = l
  <2>1. w \in Int /\ w = m * l + r
    BY <1>2, <1>4
  <2>. HIDE DEF w
  <2>. QED BY <1>1, <1>2, <1>3, <2>1, DivModUnique
<1>9. (p % mm) \div m = l
  BY <1>7, <1>8, Zenon
<1>. QED BY <1>9, Zenon DEF mm, m, l, q, Unsigned

LEMMA MultiplyHighAgrees ==
  ASSUME NEW R, NEW n, IsNative(n, R), NEW i, IsInsn(i, R), NEW a \in Words
  PROVE  Stands(EmittedMultiplyHigh("mulhw", n, i), mulhw(View(n, a), i), R, a)
<1>. DEFINE v == View(n, a)
            k == Fetch(n, i)
            x == A(v, i)
            y == B(v, i)
            c == Carry(v.xer)
            value == Unsigned((Signed(x) * Signed(y)) \div Modulus)
            f == ((Signed(x) * Signed(y)) % (Modulus * Modulus)) \div Modulus
<1>1. IsNative(k, R) /\ View(k, a) = v /\ Base(k, i) = x /\ Source(k, i) = y
  BY FetchedPair
<1>2. x \in Words /\ y \in Words /\ c \in {0, 1} /\ CarryIn(n) = c
  BY OperandWords
<1>3. EmittedMultiplyHigh("mulhw", n, i) = EmitResult(k, i, f)
  BY <1>1, <1>2, Zenon DEF EmittedMultiplyHigh
<1>4. mulhw(v, i) = Plain(v, i, value)
  BY Zenon DEF mulhw
<1>. HIDE DEF v, k, x, y, c
<1>5. value \in Words /\ f = value
  <2>1. Signed(x) \in Int /\ Signed(y) \in Int /\ Signed(x) * Signed(y) \in Int
    BY <1>2, WordFacts
  <2>2. f = value
    BY <2>1, HighHalf
  <2>3. Modulus \in Nat /\ Modulus > 0
    BY WordSizes
  <2>4. (Signed(x) * Signed(y)) \div Modulus \in Int
    BY <2>1, <2>3, DivMod
  <2>5. value \in Words
    BY <2>4, UnsignedOf
  <2>. QED BY <2>2, <2>5
<1>. HIDE DEF value, f
<1>6. Stands(EmitResult(k, i, value), Plain(v, i, value), R, a)
  BY <1>1, <1>5, EmitsPlain
<1>. QED BY <1>3, <1>4, <1>5, <1>6, Zenon DEF v

LEMMA MultiplyHighUnsignedAgrees ==
  ASSUME NEW R, NEW n, IsNative(n, R), NEW i, IsInsn(i, R), NEW a \in Words
  PROVE  Stands(EmittedMultiplyHigh("mulhwu", n, i), mulhwu(View(n, a), i), R, a)
<1>. DEFINE v == View(n, a)
            k == Fetch(n, i)
            x == A(v, i)
            y == B(v, i)
            c == Carry(v.xer)
            value == (x * y) \div Modulus
            f == ((x * y) % (Modulus * Modulus)) \div Modulus
<1>1. IsNative(k, R) /\ View(k, a) = v /\ Base(k, i) = x /\ Source(k, i) = y
  BY FetchedPair
<1>2. x \in Words /\ y \in Words /\ c \in {0, 1} /\ CarryIn(n) = c
  BY OperandWords
<1>3. EmittedMultiplyHigh("mulhwu", n, i) = EmitResult(k, i, f)
  BY <1>1, <1>2, Zenon DEF EmittedMultiplyHigh
<1>4. mulhwu(v, i) = Plain(v, i, value)
  BY Zenon DEF mulhwu
<1>. HIDE DEF v, k, x, y, c
<1>5. value \in Words /\ f = value
  <2>0. /\ x \in Int /\ 0 <= x /\ x < Modulus /\ y \in Int /\ 0 <= y /\ y < Modulus /\ c \in Int
        /\ Signed(x) \in Int /\ Signed(y) \in Int /\ Modulus \in Nat /\ Modulus > 1 /\ AllOnes = Modulus - 1
    BY <1>2, WordFacts
  <2>. DEFINE m == Modulus
              p == x * y
              q == p \div m
              r == p % m
  <2>1. m \in Nat /\ m > 0 /\ p \in Int
    BY <2>0
  <2>2. p >= 0 /\ p < m * m
    <3>1. x * y >= 0
      BY <2>0
    <3>2. x * y <= x * m
      BY <2>0
    <3>3. x * m < m * m
      BY <2>0
    <3>4. x * y \in Int /\ x * m \in Int /\ m * m \in Int
      BY <2>0
    <3>. HIDE DEF m
    <3>. QED BY <3>1, <3>2, <3>3, <3>4
  <2>3. f = Unsigned(q)
    BY <2>1, HighHalf
  <2>. HIDE DEF m, p
  <2>4. q \in Int /\ r \in 0..(m - 1) /\ p = m * q + r
    BY <2>1, DivMod
  <2>. HIDE DEF q, r
  <2>5. 0 <= q /\ q < m
    <3>1. q < 0 => m * q <= -m
      BY <2>1, <2>4
    <3>2. q >= m => m * q >= m * m
      BY <2>1, <2>4
    <3>3. m * q \in Int /\ m * m \in Int
      BY <2>1, <2>4
    <3>. QED BY <2>1, <2>2, <2>4, <3>1, <3>2, <3>3
  <2>6. Unsigned(q) = q /\ q \in Words
    BY <2>4, <2>5, UnsignedNear, WordRange DEF m
  <2>7. value = q
    BY Zenon DEF q, p, m
  <2>. HIDE DEF f, value
  <2>. QED BY <2>3, <2>6, <2>7
<1>. HIDE DEF value, f
<1>6. Stands(EmitResult(k, i, value), Plain(v, i, value), R, a)
  BY <1>1, <1>5, EmitsPlain
<1>. QED BY <1>3, <1>4, <1>5, <1>6, Zenon DEF v

LEMMA SubtractAgrees ==
  ASSUME NEW R, NEW n, IsNative(n, R), NEW i, IsInsn(i, R), NEW a \in Words
  PROVE  Stands(EmittedBitwise("subf", n, i), subf(View(n, a), i), R, a)
<1>. DEFINE v == View(n, a)
            k == Fetch(n, i)
            x == A(v, i)
            y == B(v, i)
            c == Carry(v.xer)
            value == Unsigned(y - x)
            f == HostSub(y, x, 0).value
<1>1. IsNative(k, R) /\ View(k, a) = v /\ Base(k, i) = x /\ Source(k, i) = y
  BY FetchedPair
<1>2. x \in Words /\ y \in Words /\ c \in {0, 1} /\ CarryIn(n) = c
  BY OperandWords
<1>3. EmittedBitwise("subf", n, i) = EmitResult(k, i, f)
  BY <1>1, <1>2, Zenon DEF EmittedBitwise
<1>4. subf(v, i) = Plain(v, i, value)
  BY Zenon DEF subf
<1>. HIDE DEF v, k, x, y, c
<1>5. value \in Words /\ f = value
  <2>0. /\ x \in Int /\ 0 <= x /\ x < Modulus /\ y \in Int /\ 0 <= y /\ y < Modulus /\ c \in Int
        /\ Signed(x) \in Int /\ Signed(y) \in Int /\ Modulus \in Nat /\ Modulus > 1 /\ AllOnes = Modulus - 1
    BY <1>2, WordFacts
  <2>1. y - x - 0 = y - x /\ x + 0 = x /\ Signed(y) - Signed(x) - 0 = Signed(y) - Signed(x)
    BY <2>0
  <2>. DEFINE g == HostSub(y, x, 0)
  <2>2. g.value = Unsigned(y - x - 0) /\ g.value \in Words
          /\ g.overflow \in BOOLEAN /\ (g.overflow <=> ~FitsSigned(Signed(y) - Signed(x) - 0))
          /\ NoBorrow(g).value = g.value /\ NoBorrow(g).overflow = g.overflow
          /\ NoBorrow(g).carry \in BOOLEAN /\ (NoBorrow(g).carry <=> y >= x + 0)
    BY <1>2, HostSubIs
  <2>. HIDE DEF g
  <2>. QED BY <2>1, <2>2 DEF g
<1>. HIDE DEF value, f
<1>6. Stands(EmitResult(k, i, value), Plain(v, i, value), R, a)
  BY <1>1, <1>5, EmitsPlain
<1>. QED BY <1>3, <1>4, <1>5, <1>6, Zenon DEF v

LEMMA SubtractOverflowAgrees ==
  ASSUME NEW R, NEW n, IsNative(n, R), NEW i, IsInsn(i, R), NEW a \in Words
  PROVE  Stands(EmittedAddOverflow("subfo", n, i), subfo(View(n, a), i), R, a)
<1>. DEFINE v == View(n, a)
            k == Fetch(n, i)
            x == A(v, i)
            y == B(v, i)
            c == Carry(v.xer)
            value == Unsigned(y - x)
            overflow == SubtractOverflows(y, x, value)
            f == HostSub(y, x, 0)
<1>1. IsNative(k, R) /\ View(k, a) = v /\ Base(k, i) = x /\ Source(k, i) = y
  BY FetchedPair
<1>2. x \in Words /\ y \in Words /\ c \in {0, 1} /\ CarryIn(n) = c
  BY OperandWords
<1>3. EmittedAddOverflow("subfo", n, i) = EmitOverflowing(k, i, f)
  BY <1>1, <1>2, Zenon DEF EmittedAddOverflow
<1>4. subfo(v, i) = WithOverflow(v, i, value, overflow)
  BY Zenon DEF subfo
<1>. HIDE DEF v, k, x, y, c
<1>5. value \in Words /\ f.value = value /\ overflow \in BOOLEAN /\ f.overflow \in BOOLEAN
        /\ (f.overflow <=> overflow)
  <2>0. /\ x \in Int /\ 0 <= x /\ x < Modulus /\ y \in Int /\ 0 <= y /\ y < Modulus /\ c \in Int
        /\ Signed(x) \in Int /\ Signed(y) \in Int /\ Modulus \in Nat /\ Modulus > 1 /\ AllOnes = Modulus - 1
    BY <1>2, WordFacts
  <2>1. y - x - 0 = y - x /\ x + 0 = x /\ Signed(y) - Signed(x) - 0 = Signed(y) - Signed(x)
    BY <2>0
  <2>. DEFINE g == HostSub(y, x, 0)
  <2>2. g.value = Unsigned(y - x - 0) /\ g.value \in Words
          /\ g.overflow \in BOOLEAN /\ (g.overflow <=> ~FitsSigned(Signed(y) - Signed(x) - 0))
          /\ NoBorrow(g).value = g.value /\ NoBorrow(g).overflow = g.overflow
          /\ NoBorrow(g).carry \in BOOLEAN /\ (NoBorrow(g).carry <=> y >= x + 0)
    BY <1>2, HostSubIs
  <2>3. overflow \in BOOLEAN /\ (overflow <=> ~FitsSigned(Signed(y) - Signed(x)))
    BY <1>2, SubtractSigns DEF SubtractOverflows
  <2>4. f = g
    OBVIOUS
  <2>. HIDE DEF g, f, overflow
  <2>. QED BY <2>1, <2>2, <2>3, <2>4
<1>. HIDE DEF value, overflow, f
<1>6. Stands(EmitOverflowing(k, i, f), WithOverflow(v, i, value, overflow), R, a)
  BY <1>1, <1>5, EmitsOverflow
<1>. QED BY <1>3, <1>4, <1>6, Zenon DEF v

LEMMA SubtractCarryingAgrees ==
  ASSUME NEW R, NEW n, IsNative(n, R), NEW i, IsInsn(i, R), NEW a \in Words
  PROVE  Stands(EmittedSubtractCarrying(n, i), subfc(View(n, a), i), R, a)
<1>. DEFINE v == View(n, a)
            k == Fetch(n, i)
            x == A(v, i)
            y == B(v, i)
            c == Carry(v.xer)
            value == Unsigned(y - x)
            carry == y >= x
            f == NoBorrow(HostSub(y, x, 0))
<1>1. IsNative(k, R) /\ View(k, a) = v /\ Base(k, i) = x /\ Source(k, i) = y
  BY FetchedPair
<1>2. x \in Words /\ y \in Words /\ c \in {0, 1} /\ CarryIn(n) = c
  BY OperandWords
<1>3. EmittedSubtractCarrying(n, i) = EmitCarrying(k, i, f)
  BY <1>1, <1>2, Zenon DEF EmittedSubtractCarrying
<1>4. subfc(v, i) = WithCarry(v, i, value, carry)
  BY Zenon DEF subfc
<1>. HIDE DEF v, k, x, y, c
<1>5. value \in Words /\ f.value = value /\ carry \in BOOLEAN /\ f.carry \in BOOLEAN /\ (f.carry <=> carry)
  <2>0. /\ x \in Int /\ 0 <= x /\ x < Modulus /\ y \in Int /\ 0 <= y /\ y < Modulus /\ c \in Int
        /\ Signed(x) \in Int /\ Signed(y) \in Int /\ Modulus \in Nat /\ Modulus > 1 /\ AllOnes = Modulus - 1
    BY <1>2, WordFacts
  <2>9. carry \in BOOLEAN
    OBVIOUS
  <2>1. y - x - 0 = y - x /\ x + 0 = x /\ Signed(y) - Signed(x) - 0 = Signed(y) - Signed(x)
    BY <2>0
  <2>. DEFINE g == HostSub(y, x, 0)
  <2>2. g.value = Unsigned(y - x - 0) /\ g.value \in Words
          /\ g.overflow \in BOOLEAN /\ (g.overflow <=> ~FitsSigned(Signed(y) - Signed(x) - 0))
          /\ NoBorrow(g).value = g.value /\ NoBorrow(g).overflow = g.overflow
          /\ NoBorrow(g).carry \in BOOLEAN /\ (NoBorrow(g).carry <=> y >= x + 0)
    BY <1>2, HostSubIs
  <2>3. f = NoBorrow(g)
    OBVIOUS
  <2>. HIDE DEF g, f
  <2>. QED BY <2>1, <2>2, <2>3, <2>9
<1>. HIDE DEF value, carry, f
<1>6. Stands(EmitCarrying(k, i, f), WithCarry(v, i, value, carry), R, a)
  BY <1>1, <1>5, EmitsCarry
<1>. QED BY <1>3, <1>4, <1>6, Zenon DEF v

LEMMA SubtractCarryingOverflowAgrees ==
  ASSUME NEW R, NEW n, IsNative(n, R), NEW i, IsInsn(i, R), NEW a \in Words
  PROVE  Stands(EmittedSubtractCarryingOverflow(n, i), subfco(View(n, a), i), R, a)
<1>. DEFINE v == View(n, a)
            k == Fetch(n, i)
            x == A(v, i)
            y == B(v, i)
            c == Carry(v.xer)
            value == Unsigned(y - x)
            carry == y >= x
            overflow == SubtractOverflows(y, x, value)
            f == NoBorrow(HostSub(y, x, 0))
<1>1. IsNative(k, R) /\ View(k, a) = v /\ Base(k, i) = x /\ Source(k, i) = y
  BY FetchedPair
<1>2. x \in Words /\ y \in Words /\ c \in {0, 1} /\ CarryIn(n) = c
  BY OperandWords
<1>3. EmittedSubtractCarryingOverflow(n, i) = EmitBoth(k, i, f)
  BY <1>1, <1>2, Zenon DEF EmittedSubtractCarryingOverflow
<1>4. subfco(v, i) = WithBoth(v, i, value, carry, overflow)
  BY Zenon DEF subfco
<1>. HIDE DEF v, k, x, y, c
<1>5. value \in Words /\ f.value = value /\ carry \in BOOLEAN /\ f.carry \in BOOLEAN /\ (f.carry <=> carry)
        /\ overflow \in BOOLEAN /\ f.overflow \in BOOLEAN /\ (f.overflow <=> overflow)
  <2>0. /\ x \in Int /\ 0 <= x /\ x < Modulus /\ y \in Int /\ 0 <= y /\ y < Modulus /\ c \in Int
        /\ Signed(x) \in Int /\ Signed(y) \in Int /\ Modulus \in Nat /\ Modulus > 1 /\ AllOnes = Modulus - 1
    BY <1>2, WordFacts
  <2>1. y - x - 0 = y - x /\ x + 0 = x /\ Signed(y) - Signed(x) - 0 = Signed(y) - Signed(x)
    BY <2>0
  <2>. DEFINE g == HostSub(y, x, 0)
  <2>2. g.value = Unsigned(y - x - 0) /\ g.value \in Words
          /\ g.overflow \in BOOLEAN /\ (g.overflow <=> ~FitsSigned(Signed(y) - Signed(x) - 0))
          /\ NoBorrow(g).value = g.value /\ NoBorrow(g).overflow = g.overflow
          /\ NoBorrow(g).carry \in BOOLEAN /\ (NoBorrow(g).carry <=> y >= x + 0)
    BY <1>2, HostSubIs
  <2>3. overflow \in BOOLEAN /\ (overflow <=> ~FitsSigned(Signed(y) - Signed(x)))
    BY <1>2, SubtractSigns DEF SubtractOverflows
  <2>4. f = NoBorrow(g)
    OBVIOUS
  <2>5. carry \in BOOLEAN
    OBVIOUS
  <2>. HIDE DEF g, f, overflow
  <2>. QED BY <2>1, <2>2, <2>3, <2>4, <2>5
<1>. HIDE DEF value, carry, overflow, f
<1>6. Stands(EmitBoth(k, i, f), WithBoth(v, i, value, carry, overflow), R, a)
  BY <1>1, <1>5, EmitsBoth
<1>. QED BY <1>3, <1>4, <1>6, Zenon DEF v

LEMMA SubtractExtendedAgrees ==
  ASSUME NEW R, NEW n, IsNative(n, R), NEW i, IsInsn(i, R), NEW a \in Words
  PROVE  Stands(EmittedSubtractExtended(n, i), subfe(View(n, a), i), R, a)
<1>. DEFINE v == View(n, a)
            k == Fetch(n, i)
            x == A(v, i)
            y == B(v, i)
            c == Carry(v.xer)
            value == Unsigned(Not(x) + y + c)
            carry == Not(x) + y + c >= Modulus
            f == [value |-> HostSub(HostSub(y, x, 0).value, 1 - c, 0).value,
                  carry |-> ~(HostSub(y, x, 0).carry \/ HostSub(HostSub(y, x, 0).value, 1 - c, 0).carry)]
<1>1. IsNative(k, R) /\ View(k, a) = v /\ Base(k, i) = x /\ Source(k, i) = y
  BY FetchedPair
<1>2. x \in Words /\ y \in Words /\ c \in {0, 1} /\ CarryIn(n) = c
  BY OperandWords
<1>3. EmittedSubtractExtended(n, i) = EmitCarrying(k, i, f)
  BY <1>1, <1>2, Zenon DEF EmittedSubtractExtended
<1>4. subfe(v, i) = WithCarry(v, i, value, carry)
  BY Zenon DEF subfe
<1>. HIDE DEF v, k, x, y, c
<1>5. value \in Words /\ f.value = value /\ carry \in BOOLEAN /\ f.carry \in BOOLEAN /\ (f.carry <=> carry)
  <2>0. /\ x \in Int /\ 0 <= x /\ x < Modulus /\ y \in Int /\ 0 <= y /\ y < Modulus /\ c \in Int
        /\ Signed(x) \in Int /\ Signed(y) \in Int /\ Modulus \in Nat /\ Modulus > 1 /\ AllOnes = Modulus - 1
    BY <1>2, WordFacts
  <2>9. carry \in BOOLEAN
    OBVIOUS
  <2>a. Not(x) = Modulus - 1 - x /\ Not(x) \in Words
    BY <1>2, <2>0, BitwiseWords DEF Not
  <2>. DEFINE ba == HostSub(y, x, 0)
              all == HostSub(ba.value, 1 - c, 0)
              clear == ~(ba.carry \/ all.carry)
              u == ba.value
  <2>1. 1 - c \in Words /\ 1 - c \in Int
    BY <1>2, <2>0, WordRange
  <2>2. u = Unsigned(y - x - 0) /\ u \in Words
          /\ ba.carry \in BOOLEAN /\ (ba.carry <=> y < x + 0)
    BY <1>2, HostSubIs
  <2>3. u \in Words /\ u = Unsigned(y - x) /\ u \in Int
    <3>1. y - x - 0 = y - x
      BY <2>0
    <3>. QED BY <2>2, <3>1, WordRange
  <2>4. u = IF y >= x THEN y - x ELSE y - x + Modulus
    <3>1. y - x \in Int
      BY <2>0
    <3>2. y >= x => Unsigned(y - x) = y - x
      BY <2>0, <3>1, UnsignedNear
    <3>3. y < x => Unsigned(y - x) = y - x + Modulus
      BY <2>0, <3>1, UnsignedNear
    <3>. HIDE DEF u
    <3>. QED BY <2>0, <2>3, <3>2, <3>3
  <2>. HIDE DEF ba, u
  <2>5. all.value = Unsigned(u - (1 - c) - 0) /\ all.value \in Words
          /\ all.carry \in BOOLEAN /\ (all.carry <=> u < (1 - c) + 0)
    BY <2>1, <2>3, HostSubIs DEF u
  <2>6. all.value = value
    <3>1. u - (1 - c) - 0 = u + (c - 1) /\ c - 1 \in Int /\ y - x \in Int
      BY <2>0, <2>3
    <3>2. Unsigned(Unsigned(y - x) + (c - 1)) = Unsigned((y - x) + (c - 1))
      BY <3>1, UnsignedSum
    <3>3. Not(x) + y + c = ((y - x) + (c - 1)) + Modulus /\ (y - x) + (c - 1) \in Int
      BY <2>0, <2>a
    <3>4. Unsigned(((y - x) + (c - 1)) + Modulus) = Unsigned((y - x) + (c - 1))
      BY <3>3, Wraps
    <3>. HIDE DEF all
    <3>. QED BY <2>3, <2>5, <3>1, <3>2, <3>3, <3>4
  <2>7. clear \in BOOLEAN /\ (clear <=> carry)
    <3>1. ~(y < x + 0 \/ u < (1 - c) + 0) <=> carry
      BY <1>2, <2>0, <2>a, <2>3, <2>4
    <3>. HIDE DEF all, carry
    <3>. QED BY <2>2, <2>5, <3>1, Zenon
  <2>8. f.value = all.value /\ f.carry = clear
    <3>1. f = [value |-> all.value, carry |-> clear]
      BY Zenon DEF ba, u
    <3>. HIDE DEF f, all, clear
    <3>. QED BY <3>1
  <2>. HIDE DEF f, all, clear, value, carry
  <2>. QED BY <2>5, <2>6, <2>7, <2>8, <2>9, Zenon
<1>. HIDE DEF value, carry, f
<1>6. Stands(EmitCarrying(k, i, f), WithCarry(v, i, value, carry), R, a)
  BY <1>1, <1>5, EmitsCarry
<1>. QED BY <1>3, <1>4, <1>6, Zenon DEF v

LEMMA SubtractExtendedOverflowAgrees ==
  ASSUME NEW R, NEW n, IsNative(n, R), NEW i, IsInsn(i, R), NEW a \in Words
  PROVE  Stands(EmittedSubtractExtendedOverflow(n, i), subfeo(View(n, a), i), R, a)
<1>. DEFINE v == View(n, a)
            k == Fetch(n, i)
            x == A(v, i)
            y == B(v, i)
            c == Carry(v.xer)
            value == Unsigned(Not(x) + y + c)
            carry == Not(x) + y + c >= Modulus
            overflow == ~FitsSigned(Signed(y) - Signed(x) - (1 - c))
            f == NoBorrow(HostSub(y, x, 1 - c))
<1>1. IsNative(k, R) /\ View(k, a) = v /\ Base(k, i) = x /\ Source(k, i) = y
  BY FetchedPair
<1>2. x \in Words /\ y \in Words /\ c \in {0, 1} /\ CarryIn(n) = c
  BY OperandWords
<1>3. EmittedSubtractExtendedOverflow(n, i) = EmitBoth(k, i, f)
  BY <1>1, <1>2, Zenon DEF EmittedSubtractExtendedOverflow
<1>4. subfeo(v, i) = WithBoth(v, i, value, carry, overflow)
  BY Zenon DEF subfeo, Extended
<1>. HIDE DEF v, k, x, y, c
<1>5. value \in Words /\ f.value = value /\ carry \in BOOLEAN /\ f.carry \in BOOLEAN /\ (f.carry <=> carry)
        /\ overflow \in BOOLEAN /\ f.overflow \in BOOLEAN /\ (f.overflow <=> overflow)
  <2>0. /\ x \in Int /\ 0 <= x /\ x < Modulus /\ y \in Int /\ 0 <= y /\ y < Modulus /\ c \in Int
        /\ Signed(x) \in Int /\ Signed(y) \in Int /\ Modulus \in Nat /\ Modulus > 1 /\ AllOnes = Modulus - 1
    BY <1>2, WordFacts
  <2>9. (carry \in BOOLEAN) /\ (overflow \in BOOLEAN)
    BY DEF FitsSigned
  <2>a. Not(x) = Modulus - 1 - x /\ Not(x) \in Words
    BY <1>2, <2>0, BitwiseWords DEF Not
  <2>. DEFINE d == 1 - c
              g == HostSub(y, x, d)
  <2>1. d \in {0, 1}
    BY <1>2
  <2>2. g.value = Unsigned(y - x - d) /\ g.value \in Words
          /\ g.overflow \in BOOLEAN /\ (g.overflow <=> ~FitsSigned(Signed(y) - Signed(x) - d))
          /\ NoBorrow(g).value = g.value /\ NoBorrow(g).overflow = g.overflow
          /\ NoBorrow(g).carry \in BOOLEAN /\ (NoBorrow(g).carry <=> y >= x + d)
    <3>. HIDE DEF d
    <3>. QED BY <1>2, <2>1, HostSubIs
  <2>3. value = Unsigned(y - x - (1 - c))
    <3>1. Not(x) + y + c = (y - x - (1 - c)) + Modulus /\ y - x - (1 - c) \in Int
      BY <2>0, <2>a
    <3>2. Unsigned((y - x - (1 - c)) + Modulus) = Unsigned(y - x - (1 - c))
      BY <3>1, Wraps
    <3>. QED BY <3>1, <3>2
  <2>4. y >= x + (1 - c) <=> carry
    BY <2>0, <2>a
  <2>5. f = NoBorrow(g)
    OBVIOUS
  <2>. HIDE DEF f, g, value, carry
  <2>. QED BY <2>2, <2>3, <2>4, <2>5, <2>9
<1>. HIDE DEF value, carry, overflow, f
<1>6. Stands(EmitBoth(k, i, f), WithBoth(v, i, value, carry, overflow), R, a)
  BY <1>1, <1>5, EmitsBoth
<1>. QED BY <1>3, <1>4, <1>6, Zenon DEF v

LEMMA SubtractFromZeroAgrees ==
  ASSUME NEW R, NEW n, IsNative(n, R), NEW i, IsInsn(i, R), NEW a \in Words
  PROVE  Stands(EmittedSubtractFromZero(n, i), subfze(View(n, a), i), R, a)
<1>. DEFINE v == View(n, a)
            k == read_guest_gpr(n, {i.base})
            x == A(v, i)
            y == B(v, i)
            c == Carry(v.xer)
            value == Unsigned(Not(x) + c)
            carry == Not(x) + c >= Modulus
            f == HostAdd(Not(x), c, 0)
<1>1. IsNative(k, R) /\ View(k, a) = v /\ Base(k, i) = x
  BY FetchedBase
<1>2. x \in Words /\ y \in Words /\ c \in {0, 1} /\ CarryIn(n) = c
  BY OperandWords
<1>3. EmittedSubtractFromZero(n, i) = EmitCarrying(k, i, f)
  BY <1>1, <1>2, Zenon DEF EmittedSubtractFromZero
<1>4. subfze(v, i) = WithCarry(v, i, value, carry)
  BY Zenon DEF subfze
<1>. HIDE DEF v, k, x, y, c
<1>5. value \in Words /\ f.value = value /\ carry \in BOOLEAN /\ f.carry \in BOOLEAN /\ (f.carry <=> carry)
  <2>0. /\ x \in Int /\ 0 <= x /\ x < Modulus /\ y \in Int /\ 0 <= y /\ y < Modulus /\ c \in Int
        /\ Signed(x) \in Int /\ Signed(y) \in Int /\ Modulus \in Nat /\ Modulus > 1 /\ AllOnes = Modulus - 1
    BY <1>2, WordFacts
  <2>9. carry \in BOOLEAN
    OBVIOUS
  <2>a. Not(x) = Modulus - 1 - x /\ Not(x) \in Words
    BY <1>2, <2>0, BitwiseWords DEF Not
  <2>1. c \in Words
    BY <1>2, <2>0, WordRange
  <2>2. f.value = Unsigned(Not(x) + c + 0) /\ f.value \in Words /\ f.carry \in BOOLEAN
          /\ (f.carry <=> Not(x) + c + 0 >= Modulus)
    BY <2>1, <2>a, HostAddIs
  <2>3. Not(x) + c + 0 = Not(x) + c
    BY <2>0, <2>a
  <2>. HIDE DEF f
  <2>. QED BY <2>2, <2>3, <2>9
<1>. HIDE DEF value, carry, f
<1>6. Stands(EmitCarrying(k, i, f), WithCarry(v, i, value, carry), R, a)
  BY <1>1, <1>5, EmitsCarry
<1>. QED BY <1>3, <1>4, <1>6, Zenon DEF v

LEMMA SubtractFromZeroOverflowAgrees ==
  ASSUME NEW R, NEW n, IsNative(n, R), NEW i, IsInsn(i, R), NEW a \in Words
  PROVE  Stands(EmittedSubtractFromZeroOverflow(n, i), subfzeo(View(n, a), i), R, a)
<1>. DEFINE v == View(n, a)
            k == read_guest_gpr(n, {i.base})
            x == A(v, i)
            y == B(v, i)
            c == Carry(v.xer)
            value == Unsigned(Not(x) + c)
            carry == Not(x) + c >= Modulus
            overflow == ~FitsSigned(-Signed(x) - 1 + c)
            f == HostAdd(Not(x), 0, c)
<1>1. IsNative(k, R) /\ View(k, a) = v /\ Base(k, i) = x
  BY FetchedBase
<1>2. x \in Words /\ y \in Words /\ c \in {0, 1} /\ CarryIn(n) = c
  BY OperandWords
<1>3. EmittedSubtractFromZeroOverflow(n, i) = EmitBoth(k, i, f)
  BY <1>1, <1>2, Zenon DEF EmittedSubtractFromZeroOverflow
<1>4. subfzeo(v, i) = WithBoth(v, i, value, carry, overflow)
  BY Zenon DEF subfzeo, Extended
<1>. HIDE DEF v, k, x, y, c
<1>5. value \in Words /\ f.value = value /\ carry \in BOOLEAN /\ f.carry \in BOOLEAN /\ (f.carry <=> carry)
        /\ overflow \in BOOLEAN /\ f.overflow \in BOOLEAN /\ (f.overflow <=> overflow)
  <2>0. /\ x \in Int /\ 0 <= x /\ x < Modulus /\ y \in Int /\ 0 <= y /\ y < Modulus /\ c \in Int
        /\ Signed(x) \in Int /\ Signed(y) \in Int /\ Modulus \in Nat /\ Modulus > 1 /\ AllOnes = Modulus - 1
    BY <1>2, WordFacts
  <2>9. (carry \in BOOLEAN) /\ (overflow \in BOOLEAN)
    BY DEF FitsSigned
  <2>a. Not(x) = Modulus - 1 - x /\ Not(x) \in Words
    BY <1>2, <2>0, BitwiseWords DEF Not
  <2>1. 0 \in Words
    BY WordRange
  <2>2. f.value = Unsigned(Not(x) + 0 + c) /\ f.value \in Words /\ f.carry \in BOOLEAN
          /\ (f.carry <=> Not(x) + 0 + c >= Modulus) /\ f.overflow \in BOOLEAN
          /\ (f.overflow <=> ~FitsSigned(Signed(Not(x)) + Signed(0) + c))
    BY <1>2, <2>1, <2>a, HostAddIs
  <2>3. Signed(Not(x)) = -Signed(x) - 1 /\ Signed(0) = 0 /\ Signed(AllOnes) = -1
    BY <1>2, <2>0, <2>a, WordSizes, WordFacts DEF Signed
  <2>4. Not(x) + 0 + c = Not(x) + c /\ Signed(Not(x)) + Signed(0) + c = -Signed(x) - 1 + c
    BY <2>0, <2>3, <2>a
  <2>. HIDE DEF f
  <2>. QED BY <2>2, <2>4, <2>9
<1>. HIDE DEF value, carry, overflow, f
<1>6. Stands(EmitBoth(k, i, f), WithBoth(v, i, value, carry, overflow), R, a)
  BY <1>1, <1>5, EmitsBoth
<1>. QED BY <1>3, <1>4, <1>6, Zenon DEF v

LEMMA SubtractFromMinusOneAgrees ==
  ASSUME NEW R, NEW n, IsNative(n, R), NEW i, IsInsn(i, R), NEW a \in Words
  PROVE  Stands(EmittedSubtractFromMinusOne(n, i), subfme(View(n, a), i), R, a)
<1>. DEFINE v == View(n, a)
            k == read_guest_gpr(n, {i.base})
            x == A(v, i)
            y == B(v, i)
            c == Carry(v.xer)
            value == Unsigned(Not(x) + AllOnes + c)
            carry == Not(x) + AllOnes + c >= Modulus
            f == [value |-> HostAdd(HostSub(Not(x), 1, 0).value, c, 0).value, carry |-> x # AllOnes \/ c = 1]
<1>1. IsNative(k, R) /\ View(k, a) = v /\ Base(k, i) = x
  BY FetchedBase
<1>2. x \in Words /\ y \in Words /\ c \in {0, 1} /\ CarryIn(n) = c
  BY OperandWords
<1>3. EmittedSubtractFromMinusOne(n, i) = EmitCarrying(k, i, f)
  BY <1>1, <1>2, Zenon DEF EmittedSubtractFromMinusOne
<1>4. subfme(v, i) = WithCarry(v, i, value, carry)
  BY Zenon DEF subfme
<1>. HIDE DEF v, k, x, y, c
<1>5. value \in Words /\ f.value = value /\ carry \in BOOLEAN /\ f.carry \in BOOLEAN /\ (f.carry <=> carry)
  <2>0. /\ x \in Int /\ 0 <= x /\ x < Modulus /\ y \in Int /\ 0 <= y /\ y < Modulus /\ c \in Int
        /\ Signed(x) \in Int /\ Signed(y) \in Int /\ Modulus \in Nat /\ Modulus > 1 /\ AllOnes = Modulus - 1
    BY <1>2, WordFacts
  <2>9. carry \in BOOLEAN
    OBVIOUS
  <2>a. Not(x) = Modulus - 1 - x /\ Not(x) \in Words
    BY <1>2, <2>0, BitwiseWords DEF Not
  <2>. DEFINE z == Not(x)
              u == HostSub(z, 1, 0).value
              w == HostAdd(u, c, 0).value
              carries == x # AllOnes \/ c = 1
  <2>1. c \in Words /\ 1 \in Words /\ z \in Words /\ z \in Int
    BY <1>2, <2>0, <2>a, WordRange
  <2>2. u = Unsigned(z - 1 - 0) /\ u \in Words
    BY <1>2, <2>1, HostSubIs
  <2>. HIDE DEF u
  <2>3. w = Unsigned(u + c + 0) /\ w \in Words
    BY <2>1, <2>2, HostAddIs
  <2>. HIDE DEF w
  <2>5. carries \in BOOLEAN /\ (carries <=> carry)
    BY <1>2, <2>0, <2>a
  <2>6. f.value = w /\ f.carry = carries
    <3>1. f = [value |-> w, carry |-> carries]
      BY Zenon DEF u, w
    <3>. HIDE DEF f, carries
    <3>. QED BY <3>1
  <2>. HIDE DEF z
  <2>4. w = value
    <3>1. z - 1 - 0 = z - 1 /\ u + c + 0 = u + c /\ z - 1 \in Int /\ u \in Int
      BY <2>0, <2>1, <2>2, WordRange
    <3>2. Unsigned(Unsigned(z - 1) + c) = Unsigned((z - 1) + c)
      BY <2>0, <3>1, UnsignedSum
    <3>3. Unsigned(((z - 1) + c) + Modulus) = Unsigned((z - 1) + c)
      BY <2>0, <2>1, Wraps
    <3>4. ((z - 1) + c) + Modulus = z + AllOnes + c
      BY <2>0, <2>1
    <3>5. value = Unsigned(z + AllOnes + c)
      BY Zenon DEF z
    <3>. HIDE DEF value
    <3>. QED BY <2>2, <2>3, <3>1, <3>2, <3>3, <3>4, <3>5
  <2>. HIDE DEF f, carries, value, carry
  <2>. QED BY <2>3, <2>4, <2>5, <2>6, <2>9, Zenon
<1>. HIDE DEF value, carry, f
<1>6. Stands(EmitCarrying(k, i, f), WithCarry(v, i, value, carry), R, a)
  BY <1>1, <1>5, EmitsCarry
<1>. QED BY <1>3, <1>4, <1>6, Zenon DEF v

LEMMA SubtractFromMinusOneOverflowAgrees ==
  ASSUME NEW R, NEW n, IsNative(n, R), NEW i, IsInsn(i, R), NEW a \in Words
  PROVE  Stands(EmittedSubtractFromMinusOneOverflow(n, i), subfmeo(View(n, a), i), R, a)
<1>. DEFINE v == View(n, a)
            k == read_guest_gpr(n, {i.base})
            x == A(v, i)
            y == B(v, i)
            c == Carry(v.xer)
            value == Unsigned(Not(x) + AllOnes + c)
            carry == Not(x) + AllOnes + c >= Modulus
            overflow == ~FitsSigned(-Signed(x) - 2 + c)
            f == HostAdd(Not(x), AllOnes, c)
<1>1. IsNative(k, R) /\ View(k, a) = v /\ Base(k, i) = x
  BY FetchedBase
<1>2. x \in Words /\ y \in Words /\ c \in {0, 1} /\ CarryIn(n) = c
  BY OperandWords
<1>3. EmittedSubtractFromMinusOneOverflow(n, i) = EmitBoth(k, i, f)
  BY <1>1, <1>2, Zenon DEF EmittedSubtractFromMinusOneOverflow
<1>4. subfmeo(v, i) = WithBoth(v, i, value, carry, overflow)
  BY Zenon DEF subfmeo, Extended
<1>. HIDE DEF v, k, x, y, c
<1>5. value \in Words /\ f.value = value /\ carry \in BOOLEAN /\ f.carry \in BOOLEAN /\ (f.carry <=> carry)
        /\ overflow \in BOOLEAN /\ f.overflow \in BOOLEAN /\ (f.overflow <=> overflow)
  <2>0. /\ x \in Int /\ 0 <= x /\ x < Modulus /\ y \in Int /\ 0 <= y /\ y < Modulus /\ c \in Int
        /\ Signed(x) \in Int /\ Signed(y) \in Int /\ Modulus \in Nat /\ Modulus > 1 /\ AllOnes = Modulus - 1
    BY <1>2, WordFacts
  <2>9. (carry \in BOOLEAN) /\ (overflow \in BOOLEAN)
    BY DEF FitsSigned
  <2>a. Not(x) = Modulus - 1 - x /\ Not(x) \in Words
    BY <1>2, <2>0, BitwiseWords DEF Not
  <2>1. AllOnes \in Words
    BY WordRange
  <2>2. f.value = Unsigned(Not(x) + AllOnes + c) /\ f.value \in Words /\ f.carry \in BOOLEAN
          /\ (f.carry <=> Not(x) + AllOnes + c >= Modulus) /\ f.overflow \in BOOLEAN
          /\ (f.overflow <=> ~FitsSigned(Signed(Not(x)) + Signed(AllOnes) + c))
    BY <1>2, <2>1, <2>a, HostAddIs
  <2>3. Signed(Not(x)) = -Signed(x) - 1 /\ Signed(0) = 0 /\ Signed(AllOnes) = -1
    BY <1>2, <2>0, <2>a, WordSizes, WordFacts DEF Signed
  <2>4. Signed(Not(x)) + Signed(AllOnes) + c = -Signed(x) - 2 + c
    BY <2>0, <2>3, <2>a
  <2>. HIDE DEF f
  <2>. QED BY <2>2, <2>4, <2>9
<1>. HIDE DEF value, carry, overflow, f
<1>6. Stands(EmitBoth(k, i, f), WithBoth(v, i, value, carry, overflow), R, a)
  BY <1>1, <1>5, EmitsBoth
<1>. QED BY <1>3, <1>4, <1>6, Zenon DEF v

----------------------------------------------------------------------------
(* Immediate forms and comparisons.                                         *)

LEMMA AddImmediateAgrees ==
  ASSUME NEW R, NEW n, IsNative(n, R), NEW i, IsInsn(i, R), NEW a \in Words
  PROVE  Stands(EmittedAddi("addi", n, i), addi(View(n, a), i), R, a)
<1>. DEFINE v == View(n, a)
            k == IF i.base = 0 THEN n ELSE read_guest_gpr(n, {i.base})
            x == IF i.base = 0 THEN 0 ELSE Base(k, i)
            m == i.immediate
            value == Unsigned(AddiBase(v, i) + i.immediate)
            f == Unsigned(x + m)
<1>1. IsNative(k, R) /\ View(k, a) = v /\ x = AddiBase(v, i)
  <2>1. CASE i.base = 0
    BY <2>1, Zenon DEF AddiBase
  <2>2. CASE i.base # 0
    <3>. DEFINE j == read_guest_gpr(n, {i.base})
    <3>1. IsNative(j, R) /\ View(j, a) = v /\ Base(j, i) = A(v, i)
      BY FetchedBase
    <3>. QED BY <2>2, <3>1, Zenon DEF AddiBase
  <2>. QED BY <2>1, <2>2
<1>2. A(v, i) \in Words /\ i.immediate \in Words /\ i.destination \in R
  BY OperandWords DEF IsInsn
<1>3. immediate_value("addi", i) = m
  BY DEF immediate_value
<1>4. EmittedAddi("addi", n, i) = write_guest_gpr(k, i.destination, f)
  BY <1>3, Zenon DEF EmittedAddi
<1>5. addi(v, i) = Put(v, i, value)
  BY Zenon DEF addi
<1>6. AddiBase(v, i) \in Words /\ AddiBase(v, i) \in Int /\ i.immediate \in Int
  <2>1. 0 \in Words
    BY WordRange
  <2>2. AddiBase(v, i) \in Words
    BY <1>2, <2>1, Zenon DEF AddiBase
  <2>. QED BY <1>2, <2>2, WordFacts
<1>. HIDE DEF v, k, x
<1>7. value \in Words /\ f = value
  <2>1. AddiBase(v, i) + i.immediate \in Int
    BY <1>6
  <2>. QED BY <1>1, <2>1, UnsignedOf
<1>. HIDE DEF value, f
<1>8. Stands(write_guest_gpr(k, i.destination, value), Put(v, i, value), R, a)
  BY <1>1, <1>7, EmitsWrite
<1>. QED BY <1>4, <1>5, <1>7, <1>8, Zenon DEF v

LEMMA AddImmediateShiftedAgrees ==
  ASSUME NEW R, NEW n, IsNative(n, R), NEW i, IsInsn(i, R), NEW a \in Words
  PROVE  Stands(EmittedAddi("addis", n, i), addis(View(n, a), i), R, a)
<1>. DEFINE v == View(n, a)
            k == IF i.base = 0 THEN n ELSE read_guest_gpr(n, {i.base})
            x == IF i.base = 0 THEN 0 ELSE Base(k, i)
            m == Unsigned(i.immediate * TwoTo[HalfBits])
            value == Unsigned(AddiBase(v, i) + i.immediate * TwoTo[HalfBits])
            f == Unsigned(x + m)
<1>1. IsNative(k, R) /\ View(k, a) = v /\ x = AddiBase(v, i)
  <2>1. CASE i.base = 0
    BY <2>1, Zenon DEF AddiBase
  <2>2. CASE i.base # 0
    <3>. DEFINE j == read_guest_gpr(n, {i.base})
    <3>1. IsNative(j, R) /\ View(j, a) = v /\ Base(j, i) = A(v, i)
      BY FetchedBase
    <3>. QED BY <2>2, <3>1, Zenon DEF AddiBase
  <2>. QED BY <2>1, <2>2
<1>2. A(v, i) \in Words /\ i.immediate \in Words /\ i.destination \in R
  BY OperandWords DEF IsInsn
<1>3. immediate_value("addis", i) = m
  BY DEF immediate_value
<1>4. EmittedAddi("addis", n, i) = write_guest_gpr(k, i.destination, f)
  BY <1>3, Zenon DEF EmittedAddi
<1>5. addis(v, i) = Put(v, i, value)
  BY Zenon DEF addis
<1>6. AddiBase(v, i) \in Words /\ AddiBase(v, i) \in Int /\ i.immediate \in Int
  <2>1. 0 \in Words
    BY WordRange
  <2>2. AddiBase(v, i) \in Words
    BY <1>2, <2>1, Zenon DEF AddiBase
  <2>. QED BY <1>2, <2>2, WordFacts
<1>. HIDE DEF v, k, x
<1>7. value \in Words /\ f = value
  <2>. DEFINE b == AddiBase(v, i)
              p == i.immediate * TwoTo[HalfBits]
  <2>1. p \in Int /\ b \in Int
    BY <1>6, WordSizes
  <2>2. f = Unsigned(b + Unsigned(p)) /\ value = Unsigned(b + p)
    BY <1>1
  <2>. HIDE DEF b, p, f, value
  <2>3. Unsigned(b + Unsigned(p)) = Unsigned(b + p) /\ b + p \in Int
    BY <2>1, UnsignedSum
  <2>4. Unsigned(b + p) \in Words
    BY <2>3, UnsignedOf
  <2>. QED BY <2>2, <2>3, <2>4
<1>. HIDE DEF value, f
<1>8. Stands(write_guest_gpr(k, i.destination, value), Put(v, i, value), R, a)
  BY <1>1, <1>7, EmitsWrite
<1>. QED BY <1>4, <1>5, <1>7, <1>8, Zenon DEF v

LEMMA AddImmediateCarryingAgrees ==
  ASSUME NEW R, NEW n, IsNative(n, R), NEW i, IsInsn(i, R), NEW a \in Words
  PROVE  Stands(EmittedAddic(n, i), addic(View(n, a), i), R, a)
<1>. DEFINE v == View(n, a)
            k == read_guest_gpr(n, {i.base})
            x == A(v, i)
            y == B(v, i)
            c == Carry(v.xer)
            value == Unsigned(x + i.immediate)
            carry == x + i.immediate >= Modulus
            f == HostAdd(x, i.immediate, 0)
<1>1. IsNative(k, R) /\ View(k, a) = v /\ Base(k, i) = x
  BY FetchedBase
<1>2. x \in Words /\ y \in Words /\ c \in {0, 1} /\ CarryIn(n) = c
  BY OperandWords
<1>3. EmittedAddic(n, i) = EmitCarrying(k, i, f)
  BY <1>1, <1>2, Zenon DEF EmittedAddic
<1>4. addic(v, i) = WithCarry(v, i, value, carry)
  BY Zenon DEF addic
<1>. HIDE DEF v, k, x, y, c
<1>a. i.immediate \in Words
  BY DEF IsInsn
<1>b. i.immediate \in Int /\ x \in Int
  BY <1>2, <1>a, WordFacts
<1>5. value \in Words /\ f.value = value /\ carry \in BOOLEAN /\ f.carry \in BOOLEAN /\ (f.carry <=> carry)
  <2>1. f.value = Unsigned(x + i.immediate + 0) /\ f.value \in Words
          /\ f.carry \in BOOLEAN /\ (f.carry <=> x + i.immediate + 0 >= Modulus)
    BY <1>2, <1>a, HostAddIs
  <2>2. x + i.immediate + 0 = x + i.immediate
    BY <1>b
  <2>3. carry \in BOOLEAN
    OBVIOUS
  <2>. HIDE DEF f
  <2>. QED BY <2>1, <2>2, <2>3
<1>. HIDE DEF value, carry, f
<1>6. Stands(EmitCarrying(k, i, f), WithCarry(v, i, value, carry), R, a)
  BY <1>1, <1>5, EmitsCarry
<1>. QED BY <1>3, <1>4, <1>6, Zenon DEF v

LEMMA MultiplyImmediateAgrees ==
  ASSUME NEW R, NEW n, IsNative(n, R), NEW i, IsInsn(i, R), NEW a \in Words
  PROVE  Stands(EmittedMulli(n, i), mulli(View(n, a), i), R, a)
<1>. DEFINE v == View(n, a)
            k == read_guest_gpr(n, {i.base})
            x == A(v, i)
            y == B(v, i)
            c == Carry(v.xer)
            value == Unsigned(Signed(x) * Signed(i.immediate))
            f == Unsigned(x * i.immediate)
<1>1. IsNative(k, R) /\ View(k, a) = v /\ Base(k, i) = x
  BY FetchedBase
<1>2. x \in Words /\ y \in Words /\ c \in {0, 1} /\ CarryIn(n) = c
  BY OperandWords
<1>3. EmittedMulli(n, i) = write_guest_gpr(k, i.destination, f)
  BY <1>1, <1>2, Zenon DEF EmittedMulli
<1>4. mulli(v, i) = Put(v, i, value)
  BY Zenon DEF mulli
<1>. HIDE DEF v, k, x, y, c
<1>a. i.immediate \in Words
  BY DEF IsInsn
<1>b. i.immediate \in Int /\ x \in Int
  BY <1>2, <1>a, WordFacts
<1>5. value \in Words /\ f = value
  <2>. DEFINE sx == Signed(x)
              m == i.immediate
              sm == Signed(m)
              p == IF Negative(x) THEN 1 ELSE 0
              q == IF Negative(m) THEN 1 ELSE 0
  <2>1. sx \in Int /\ sm \in Int /\ p \in Int /\ q \in Int /\ Modulus \in Int
    BY <1>2, <1>a, WordFacts
  <2>2. x = sx + Modulus * p
    <3>1. sx = IF Negative(x) THEN x - Modulus ELSE x
      BY <1>2, SignedWord
    <3>. HIDE DEF sx
    <3>2. CASE Negative(x)
      BY <1>b, <2>1, <3>1, <3>2
    <3>3. CASE ~Negative(x)
      BY <1>b, <2>1, <3>1, <3>3
    <3>. QED BY <3>2, <3>3
  <2>3. m = sm + Modulus * q
    <3>1. sm = IF Negative(m) THEN m - Modulus ELSE m
      BY <1>a, SignedWord
    <3>. HIDE DEF sm
    <3>2. CASE Negative(m)
      BY <1>b, <2>1, <3>1, <3>2
    <3>3. CASE ~Negative(m)
      BY <1>b, <2>1, <3>1, <3>3
    <3>. QED BY <3>2, <3>3
  <2>4. f = Unsigned(x * m) /\ value = Unsigned(sx * sm)
    OBVIOUS
  <2>. HIDE DEF sx, m, sm, p, q, f, value
  <2>5. Unsigned((sx + Modulus * p) * (sm + Modulus * q)) = Unsigned(sx * sm)
    <3>1. \A s, t, d, e \in Int : Unsigned((s + Modulus * d) * (t + Modulus * e)) = Unsigned(s * t)
      BY UnsignedProduct
    <3>2. \A d, e \in Int : Unsigned((sx + Modulus * d) * (sm + Modulus * e)) = Unsigned(sx * sm)
      BY <2>1, <3>1, Zenon
    <3>. QED BY <2>1, <3>2, Zenon
  <2>6. sx * sm \in Int
    BY <2>1
  <2>7. Unsigned(sx * sm) \in Words
    BY <2>6, UnsignedOf
  <2>. QED BY <2>2, <2>3, <2>4, <2>5, <2>7
<1>. HIDE DEF value, f
<1>6. Stands(write_guest_gpr(k, i.destination, value), Put(v, i, value), R, a)
  BY <1>1, <1>5, EmitsWrite
<1>. QED BY <1>3, <1>4, <1>5, <1>6, Zenon DEF v

LEMMA SubtractFromImmediateAgrees ==
  ASSUME NEW R, NEW n, IsNative(n, R), NEW i, IsInsn(i, R), NEW a \in Words
  PROVE  Stands(EmittedSubfic(n, i), subfic(View(n, a), i), R, a)
<1>. DEFINE v == View(n, a)
            k == read_guest_gpr(n, {i.base})
            x == A(v, i)
            m == i.immediate
            g == HostSub(m, x, 0)
            f == NoBorrow(g)
            value == Unsigned(m - x)
            carry == m >= x
            e == EmitCarry(k, f.carry)
            c == CarrySet(v.xer, carry)
<1>1. IsNative(k, R) /\ View(k, a) = v /\ Base(k, i) = x
  BY FetchedBase
<1>2. x \in Words /\ m \in Words /\ i.destination \in R /\ v \in Machines(R)
  BY OperandWords DEF IsInsn
<1>3. EmittedSubfic(n, i) = write_guest_gpr(e, i.destination, f.value)
  BY <1>1, Zenon DEF EmittedSubfic
<1>4. subfic(v, i) = set_xer_carry(Put(v, i, value), carry)
  BY Zenon DEF subfic
<1>. HIDE DEF v, k, x, m
<1>5. carry \in BOOLEAN /\ value \in Words /\ f.value = value /\ f.carry = carry
  <2>1. g.value = Unsigned(m - x - 0) /\ g.value \in Words
          /\ f.value = g.value /\ f.carry \in BOOLEAN /\ (f.carry <=> m >= x + 0)
    BY <1>2, HostSubIs
  <2>2. m - x - 0 = m - x /\ x + 0 = x
    BY <1>2, WordFacts
  <2>3. carry \in BOOLEAN
    OBVIOUS
  <2>4. f.carry <=> carry
    BY <2>1, <2>2
  <2>. HIDE DEF f, g, carry
  <2>5. f.carry = carry
    BY <2>1, <2>3, <2>4, SameTruth
  <2>. QED BY <2>1, <2>2, <2>3, <2>5
<1>. HIDE DEF value, carry, f
<1>6. IsNative(e, R) /\ View(e, a) = set_xer_carry(v, carry)
  BY <1>1, <1>5, CarryIs
<1>. HIDE DEF e
<1>7. v.xer \in SUBSET BitIndex
  BY <1>2, MachineFields
<1>8. c \in SUBSET BitIndex
  BY <1>5, <1>7, XerSets
<1>9. set_xer_carry(v, carry) = SetXer(v, c)
  BY <1>2, <1>5, SetXerIs
<1>. DEFINE p == Put(v, i, value)
<1>10. p \in Machines(R) /\ p.xer = v.xer
  BY <1>2, <1>5, PutKeeps
<1>11. set_xer_carry(p, carry) = SetXer(p, c)
  <2>. HIDE DEF p
  <2>. QED BY <1>5, <1>10, SetXerIs
<1>. HIDE DEF c
<1>12. Put(SetXer(v, c), i, value) = SetXer(p, c)
  BY <1>2, <1>5, <1>8, PutAndXer
<1>. DEFINE w == View(e, a)
<1>13. Stands(write_guest_gpr(e, i.destination, value), Put(w, i, value), R, a)
  BY <1>5, <1>6, EmitsWrite
<1>14. Put(w, i, value) = subfic(v, i)
  BY <1>4, <1>6, <1>9, <1>11, <1>12, Zenon
<1>. HIDE DEF w
<1>. QED BY <1>3, <1>5, <1>13, <1>14, Zenon DEF v

LEMMA CompareImmediateAgrees ==
  ASSUME NEW R, NEW n, IsNative(n, R), NEW i, IsInsn(i, R), NEW a \in Words
  PROVE  Stands(EmittedCompare("cmpwi", n, i), cmpw(View(n, a), i, i.immediate), R, a)
<1>. DEFINE v == View(n, a)
            F == {i.base} \cup {}
            k == read_guest_gpr(n, F)
            x == A(v, i)
            y == i.immediate
            h == i.cr_field
            less == Signed(x) < Signed(y)
            greater == Signed(x) > Signed(y)
            order == IF less THEN LT(h) ELSE IF greater THEN GT(h) ELSE EQ(h)
            emitted == CASE x = y -> EQ(h) [] less -> LT(h) [] OTHER -> GT(h)
            c == FieldSet(v.cr, v.xer, h, order)
<1>1. IsNative(k, R) /\ View(k, a) = v /\ Base(k, i) = x
  <2>1. F \in SUBSET R /\ i.base \in F
    BY DEF IsInsn
  <2>. HIDE DEF F
  <2>. QED BY <2>1, Fetched
<1>2. x \in Words /\ y \in Words /\ h \in ConditionFields /\ v \in Machines(R)
  BY OperandWords DEF IsInsn
<1>3. EmittedCompare("cmpwi", n, i)
        = [k EXCEPT !.state.cr = (@ \ FieldBits(h)) \cup {emitted} \cup SummaryBit(k.state.xer, h)]
  BY <1>1 DEF EmittedCompare
<1>4. cmpw(v, i, y) = CompareField(v, h, less, greater)
  BY Zenon DEF cmpw, set_compare_result, set_compare_result_unsigned
<1>5. k.state.cr = v.cr /\ k.state.xer = v.xer
  BY <1>1, ViewFields
<1>. HIDE DEF v, k, x, y, h
<1>6. order = emitted
  <2>1. x \in Int /\ y \in Int /\ Signed(x) \in Int /\ Signed(y) \in Int
    BY <1>2, WordFacts
  <2>2. (x = y <=> ~less /\ ~greater) /\ ~(less /\ greater)
    BY <1>2, <2>1, SignedWord, WordFacts
  <2>3. emitted = IF x = y THEN EQ(h) ELSE IF less THEN LT(h) ELSE GT(h)
    BY <2>2
  <2>. HIDE DEF less, greater, emitted
  <2>4. CASE less
    BY <2>2, <2>3, <2>4, Zenon
  <2>5. CASE ~less /\ greater
    BY <2>2, <2>3, <2>5, Zenon
  <2>6. CASE ~less /\ ~greater
    BY <2>2, <2>3, <2>6, Zenon
  <2>. QED BY <2>4, <2>5, <2>6
<1>7. less \in BOOLEAN /\ greater \in BOOLEAN
  OBVIOUS
<1>. HIDE DEF less, greater, emitted
<1>8. CompareField(v, h, less, greater) = SetCr(v, c) /\ c \in SUBSET BitIndex
  BY <1>2, <1>7, CompareFieldIs
<1>. HIDE DEF order
<1>9. EmittedCompare("cmpwi", n, i) = NewCr(k, c)
  <2>1. c = (v.cr \ FieldBits(h)) \cup {emitted} \cup SummaryBit(v.xer, h)
    BY <1>6, Zenon DEF FieldSet, SummaryBit
  <2>2. [k EXCEPT !.state.cr = (@ \ FieldBits(h)) \cup {emitted} \cup SummaryBit(k.state.xer, h)]
          = [k EXCEPT !.state.cr = (v.cr \ FieldBits(h)) \cup {emitted} \cup SummaryBit(v.xer, h)]
    BY <1>1, <1>5 DEF IsNative
  <2>. HIDE DEF c
  <2>. QED BY <1>3, <2>1, <2>2, Zenon DEF NewCr
<1>. HIDE DEF c
<1>10. IsNative(NewCr(k, c), R) /\ View(NewCr(k, c), a) = SetCr(View(k, a), c)
  BY <1>1, <1>8, NativeCr
<1>. QED BY <1>1, <1>4, <1>8, <1>9, <1>10, Zenon DEF v, Stands, y

LEMMA CompareLogicalImmediateAgrees ==
  ASSUME NEW R, NEW n, IsNative(n, R), NEW i, IsInsn(i, R), NEW a \in Words
  PROVE  Stands(EmittedCompare("cmplwi", n, i), cmplw(View(n, a), i, i.immediate), R, a)
<1>. DEFINE v == View(n, a)
            F == {i.base} \cup {}
            k == read_guest_gpr(n, F)
            x == A(v, i)
            y == i.immediate
            h == i.cr_field
            less == x < y
            greater == x > y
            order == IF less THEN LT(h) ELSE IF greater THEN GT(h) ELSE EQ(h)
            emitted == CASE x = y -> EQ(h) [] less -> LT(h) [] OTHER -> GT(h)
            c == FieldSet(v.cr, v.xer, h, order)
<1>1. IsNative(k, R) /\ View(k, a) = v /\ Base(k, i) = x
  <2>1. F \in SUBSET R /\ i.base \in F
    BY DEF IsInsn
  <2>. HIDE DEF F
  <2>. QED BY <2>1, Fetched
<1>2. x \in Words /\ y \in Words /\ h \in ConditionFields /\ v \in Machines(R)
  BY OperandWords DEF IsInsn
<1>3. EmittedCompare("cmplwi", n, i)
        = [k EXCEPT !.state.cr = (@ \ FieldBits(h)) \cup {emitted} \cup SummaryBit(k.state.xer, h)]
  BY <1>1 DEF EmittedCompare
<1>4. cmplw(v, i, y) = CompareField(v, h, less, greater)
  BY Zenon DEF cmplw, set_compare_result, set_compare_result_unsigned
<1>5. k.state.cr = v.cr /\ k.state.xer = v.xer
  BY <1>1, ViewFields
<1>. HIDE DEF v, k, x, y, h
<1>6. order = emitted
  <2>1. x \in Int /\ y \in Int /\ Signed(x) \in Int /\ Signed(y) \in Int
    BY <1>2, WordFacts
  <2>2. (x = y <=> ~less /\ ~greater) /\ ~(less /\ greater)
    BY <1>2, <2>1, SignedWord, WordFacts
  <2>3. emitted = IF x = y THEN EQ(h) ELSE IF less THEN LT(h) ELSE GT(h)
    BY <2>2
  <2>. HIDE DEF less, greater, emitted
  <2>4. CASE less
    BY <2>2, <2>3, <2>4, Zenon
  <2>5. CASE ~less /\ greater
    BY <2>2, <2>3, <2>5, Zenon
  <2>6. CASE ~less /\ ~greater
    BY <2>2, <2>3, <2>6, Zenon
  <2>. QED BY <2>4, <2>5, <2>6
<1>7. less \in BOOLEAN /\ greater \in BOOLEAN
  OBVIOUS
<1>. HIDE DEF less, greater, emitted
<1>8. CompareField(v, h, less, greater) = SetCr(v, c) /\ c \in SUBSET BitIndex
  BY <1>2, <1>7, CompareFieldIs
<1>. HIDE DEF order
<1>9. EmittedCompare("cmplwi", n, i) = NewCr(k, c)
  <2>1. c = (v.cr \ FieldBits(h)) \cup {emitted} \cup SummaryBit(v.xer, h)
    BY <1>6, Zenon DEF FieldSet, SummaryBit
  <2>2. [k EXCEPT !.state.cr = (@ \ FieldBits(h)) \cup {emitted} \cup SummaryBit(k.state.xer, h)]
          = [k EXCEPT !.state.cr = (v.cr \ FieldBits(h)) \cup {emitted} \cup SummaryBit(v.xer, h)]
    BY <1>1, <1>5 DEF IsNative
  <2>. HIDE DEF c
  <2>. QED BY <1>3, <2>1, <2>2, Zenon DEF NewCr
<1>. HIDE DEF c
<1>10. IsNative(NewCr(k, c), R) /\ View(NewCr(k, c), a) = SetCr(View(k, a), c)
  BY <1>1, <1>8, NativeCr
<1>. QED BY <1>1, <1>4, <1>8, <1>9, <1>10, Zenon DEF v, Stands, y

LEMMA CompareAgrees ==
  ASSUME NEW R, NEW n, IsNative(n, R), NEW i, IsInsn(i, R), NEW a \in Words
  PROVE  Stands(EmittedCompare("cmpw", n, i), cmpw(View(n, a), i, B(View(n, a), i)), R, a)
<1>. DEFINE v == View(n, a)
            F == {i.base} \cup {i.source}
            k == read_guest_gpr(n, F)
            x == A(v, i)
            y == B(v, i)
            h == i.cr_field
            less == Signed(x) < Signed(y)
            greater == Signed(x) > Signed(y)
            order == IF less THEN LT(h) ELSE IF greater THEN GT(h) ELSE EQ(h)
            emitted == CASE x = y -> EQ(h) [] less -> LT(h) [] OTHER -> GT(h)
            c == FieldSet(v.cr, v.xer, h, order)
<1>1. IsNative(k, R) /\ View(k, a) = v /\ Base(k, i) = x /\ Source(k, i) = y
  <2>1. F \in SUBSET R /\ i.base \in F /\ i.source \in F
    BY DEF IsInsn
  <2>. HIDE DEF F
  <2>. QED BY <2>1, Fetched
<1>2. x \in Words /\ y \in Words /\ h \in ConditionFields /\ v \in Machines(R)
  BY OperandWords DEF IsInsn
<1>3. EmittedCompare("cmpw", n, i)
        = [k EXCEPT !.state.cr = (@ \ FieldBits(h)) \cup {emitted} \cup SummaryBit(k.state.xer, h)]
  BY <1>1 DEF EmittedCompare
<1>4. cmpw(v, i, y) = CompareField(v, h, less, greater)
  BY Zenon DEF cmpw, set_compare_result, set_compare_result_unsigned
<1>5. k.state.cr = v.cr /\ k.state.xer = v.xer
  BY <1>1, ViewFields
<1>. HIDE DEF v, k, x, y, h
<1>6. order = emitted
  <2>1. x \in Int /\ y \in Int /\ Signed(x) \in Int /\ Signed(y) \in Int
    BY <1>2, WordFacts
  <2>2. (x = y <=> ~less /\ ~greater) /\ ~(less /\ greater)
    BY <1>2, <2>1, SignedWord, WordFacts
  <2>3. emitted = IF x = y THEN EQ(h) ELSE IF less THEN LT(h) ELSE GT(h)
    BY <2>2
  <2>. HIDE DEF less, greater, emitted
  <2>4. CASE less
    BY <2>2, <2>3, <2>4, Zenon
  <2>5. CASE ~less /\ greater
    BY <2>2, <2>3, <2>5, Zenon
  <2>6. CASE ~less /\ ~greater
    BY <2>2, <2>3, <2>6, Zenon
  <2>. QED BY <2>4, <2>5, <2>6
<1>7. less \in BOOLEAN /\ greater \in BOOLEAN
  OBVIOUS
<1>. HIDE DEF less, greater, emitted
<1>8. CompareField(v, h, less, greater) = SetCr(v, c) /\ c \in SUBSET BitIndex
  BY <1>2, <1>7, CompareFieldIs
<1>. HIDE DEF order
<1>9. EmittedCompare("cmpw", n, i) = NewCr(k, c)
  <2>1. c = (v.cr \ FieldBits(h)) \cup {emitted} \cup SummaryBit(v.xer, h)
    BY <1>6, Zenon DEF FieldSet, SummaryBit
  <2>2. [k EXCEPT !.state.cr = (@ \ FieldBits(h)) \cup {emitted} \cup SummaryBit(k.state.xer, h)]
          = [k EXCEPT !.state.cr = (v.cr \ FieldBits(h)) \cup {emitted} \cup SummaryBit(v.xer, h)]
    BY <1>1, <1>5 DEF IsNative
  <2>. HIDE DEF c
  <2>. QED BY <1>3, <2>1, <2>2, Zenon DEF NewCr
<1>. HIDE DEF c
<1>10. IsNative(NewCr(k, c), R) /\ View(NewCr(k, c), a) = SetCr(View(k, a), c)
  BY <1>1, <1>8, NativeCr
<1>. QED BY <1>1, <1>4, <1>8, <1>9, <1>10, Zenon DEF v, Stands, y

LEMMA CompareLogicalAgrees ==
  ASSUME NEW R, NEW n, IsNative(n, R), NEW i, IsInsn(i, R), NEW a \in Words
  PROVE  Stands(EmittedCompare("cmplw", n, i), cmplw(View(n, a), i, B(View(n, a), i)), R, a)
<1>. DEFINE v == View(n, a)
            F == {i.base} \cup {i.source}
            k == read_guest_gpr(n, F)
            x == A(v, i)
            y == B(v, i)
            h == i.cr_field
            less == x < y
            greater == x > y
            order == IF less THEN LT(h) ELSE IF greater THEN GT(h) ELSE EQ(h)
            emitted == CASE x = y -> EQ(h) [] less -> LT(h) [] OTHER -> GT(h)
            c == FieldSet(v.cr, v.xer, h, order)
<1>1. IsNative(k, R) /\ View(k, a) = v /\ Base(k, i) = x /\ Source(k, i) = y
  <2>1. F \in SUBSET R /\ i.base \in F /\ i.source \in F
    BY DEF IsInsn
  <2>. HIDE DEF F
  <2>. QED BY <2>1, Fetched
<1>2. x \in Words /\ y \in Words /\ h \in ConditionFields /\ v \in Machines(R)
  BY OperandWords DEF IsInsn
<1>3. EmittedCompare("cmplw", n, i)
        = [k EXCEPT !.state.cr = (@ \ FieldBits(h)) \cup {emitted} \cup SummaryBit(k.state.xer, h)]
  BY <1>1 DEF EmittedCompare
<1>4. cmplw(v, i, y) = CompareField(v, h, less, greater)
  BY Zenon DEF cmplw, set_compare_result, set_compare_result_unsigned
<1>5. k.state.cr = v.cr /\ k.state.xer = v.xer
  BY <1>1, ViewFields
<1>. HIDE DEF v, k, x, y, h
<1>6. order = emitted
  <2>1. x \in Int /\ y \in Int /\ Signed(x) \in Int /\ Signed(y) \in Int
    BY <1>2, WordFacts
  <2>2. (x = y <=> ~less /\ ~greater) /\ ~(less /\ greater)
    BY <1>2, <2>1, SignedWord, WordFacts
  <2>3. emitted = IF x = y THEN EQ(h) ELSE IF less THEN LT(h) ELSE GT(h)
    BY <2>2
  <2>. HIDE DEF less, greater, emitted
  <2>4. CASE less
    BY <2>2, <2>3, <2>4, Zenon
  <2>5. CASE ~less /\ greater
    BY <2>2, <2>3, <2>5, Zenon
  <2>6. CASE ~less /\ ~greater
    BY <2>2, <2>3, <2>6, Zenon
  <2>. QED BY <2>4, <2>5, <2>6
<1>7. less \in BOOLEAN /\ greater \in BOOLEAN
  OBVIOUS
<1>. HIDE DEF less, greater, emitted
<1>8. CompareField(v, h, less, greater) = SetCr(v, c) /\ c \in SUBSET BitIndex
  BY <1>2, <1>7, CompareFieldIs
<1>. HIDE DEF order
<1>9. EmittedCompare("cmplw", n, i) = NewCr(k, c)
  <2>1. c = (v.cr \ FieldBits(h)) \cup {emitted} \cup SummaryBit(v.xer, h)
    BY <1>6, Zenon DEF FieldSet, SummaryBit
  <2>2. [k EXCEPT !.state.cr = (@ \ FieldBits(h)) \cup {emitted} \cup SummaryBit(k.state.xer, h)]
          = [k EXCEPT !.state.cr = (v.cr \ FieldBits(h)) \cup {emitted} \cup SummaryBit(v.xer, h)]
    BY <1>1, <1>5 DEF IsNative
  <2>. HIDE DEF c
  <2>. QED BY <1>3, <2>1, <2>2, Zenon DEF NewCr
<1>. HIDE DEF c
<1>10. IsNative(NewCr(k, c), R) /\ View(NewCr(k, c), a) = SetCr(View(k, a), c)
  BY <1>1, <1>8, NativeCr
<1>. QED BY <1>1, <1>4, <1>8, <1>9, <1>10, Zenon DEF v, Stands, y

----------------------------------------------------------------------------
(* Logical forms with an immediate.                                         *)

LEMMA EmitsLogical ==
  ASSUME NEW R, NEW k, IsNative(k, R), NEW i, IsInsn(i, R), NEW a \in Words,
         NEW v, View(k, a) = v, NEW value \in Words, NEW r \in BOOLEAN
  PROVE  Stands(EmitResult(k, [i EXCEPT !.record = r], value),
                IF r THEN set_record_result(Put(v, i, value), value) ELSE Put(v, i, value), R, a)
<1>. DEFINE j == [i EXCEPT !.record = r]
            t == IF r THEN set_record_result(Put(v, i, value), value) ELSE Put(v, i, value)
<1>1. j.record = r /\ j.destination = i.destination /\ i.destination \in R
  BY DEF IsInsn
<1>. HIDE DEF j
<1>2. IsNative(EmitResult(k, j, value), R) /\ View(EmitResult(k, j, value), a) = Plain(v, j, value)
  BY <1>1, ResultIs
<1>3. Put(v, j, value) = Put(v, i, value)
  BY <1>1, Zenon DEF Put
<1>4. Plain(v, j, value) = t
  <2>1. Plain(v, j, value) = Recorded(Put(v, i, value), j, value)
    BY <1>3, Zenon DEF Plain
  <2>2. CASE r
    BY <1>1, <2>1, <2>2, Zenon DEF Recorded
  <2>3. CASE ~r
    BY <1>1, <2>1, <2>3, Zenon DEF Recorded
  <2>. QED BY <2>2, <2>3
<1>. HIDE DEF t
<1>. QED BY <1>2, <1>4, Zenon DEF Stands, j, t

LEMMA LogicalImmediates ==
  ASSUME NEW i, i.immediate \in 0..(TwoTo[HalfBits] - 1)
  PROVE  /\ i.immediate \in Words
         /\ i.immediate * TwoTo[HalfBits] \in Words
         /\ Unsigned(i.immediate * TwoTo[HalfBits]) = i.immediate * TwoTo[HalfBits]
<1>. DEFINE m == i.immediate
            h == TwoTo[HalfBits]
            p == m * h
<1>1. h \in Nat /\ h > 0 /\ Modulus = h * h /\ m \in 0..(h - 1)
  BY WordSizes
<1>. HIDE DEF m, h
<1>2. p \in Int /\ 0 <= p /\ p < Modulus /\ m <= p
  <2>1. m * h <= (h - 1) * h /\ (h - 1) * h = h * h - h /\ m * 1 <= m * h /\ 0 <= m * h
    BY <1>1
  <2>. QED BY <1>1, <2>1
<1>. HIDE DEF p
<1>3. m \in Words /\ p \in Words
  BY <1>1, <1>2, WordRange
<1>4. Unsigned(p) = p
  BY <1>2, UnsignedNear
<1>. QED BY <1>3, <1>4 DEF m, h, p

LEMMA LogicalAgrees ==
  ASSUME NEW R, NEW n, IsNative(n, R), NEW i, IsInsn(i, R), NEW a \in Words,
         i.immediate \in 0..(TwoTo[HalfBits] - 1), NEW op \in LogicalOps
  PROVE  Stands(EmittedLogicalImmediate(op, n, i), ExecuteLogical(op, View(n, a), i), R, a)
<1>. DEFINE v == View(n, a)
            k == read_guest_gpr(n, {i.source})
            x == B(v, i)
            shifted == op \in {"oris", "xoris", "andis"}
            m == LogicalOperand(i, shifted)
            E(value, r) == EmitResult(k, [i EXCEPT !.record = r], value)
            r == set_record_result(Put(v, i, And(x, m)), And(x, m))
<1>1. IsNative(k, R) /\ View(k, a) = v /\ Source(k, i) = x
  BY FetchedSource
<1>2. x \in Words
  BY OperandWords
<1>3. m \in Words /\ immediate_value(op, i) = m
  <2>1. CASE shifted
    <3>1. immediate_value(op, i) = Unsigned(i.immediate * TwoTo[HalfBits])
            /\ m = i.immediate * TwoTo[HalfBits]
      BY <2>1 DEF immediate_value, LogicalOperand
    <3>. QED BY <3>1, LogicalImmediates
  <2>2. CASE ~shifted
    <3>1. immediate_value(op, i) = i.immediate /\ m = i.immediate
      BY <2>2 DEF immediate_value, LogicalOperand, LogicalOps
    <3>. QED BY <3>1, LogicalImmediates
  <2>. QED BY <2>1, <2>2
<1>4. Or(x, m) \in Words /\ Xor(x, m) \in Words /\ And(x, m) \in Words
  BY <1>2, <1>3, BitwiseWords
<1>5. /\ op \in {"ori", "oris"} =>
             EmittedLogicalImmediate(op, n, i) = E(Or(x, m), FALSE)
      /\ op \in {"xori", "xoris"} =>
             EmittedLogicalImmediate(op, n, i) = E(Xor(x, m), FALSE)
      /\ op \in {"andi", "andis"} =>
             EmittedLogicalImmediate(op, n, i) = E(And(x, m), TRUE)
  <2>. HIDE DEF m, x, k
  <2>. DEFINE q == op \in {"andi", "andis"}
              w == CASE op \in {"ori", "oris"} -> Or(x, m)
                     [] op \in {"xori", "xoris"} -> Xor(x, m)
                     [] op \in {"andi", "andis"} -> And(x, m)
  <2>1. EmittedLogicalImmediate(op, n, i) = E(w, q)
    BY <1>1, <1>3, Zenon DEF EmittedLogicalImmediate, k
  <2>2. /\ op \in {"ori", "oris"} => w = Or(x, m) /\ ~q
        /\ op \in {"xori", "xoris"} => w = Xor(x, m) /\ ~q
        /\ op \in {"andi", "andis"} => w = And(x, m) /\ q
    BY DEF LogicalOps
  <2>3. q \in BOOLEAN
    OBVIOUS
  <2>. HIDE DEF q, w, E
  <2>4. CASE op \in {"ori", "oris"}
    <3>1. w = Or(x, m) /\ q = FALSE
      BY <2>2, <2>3, <2>4, Zenon
    <3>. QED BY <2>1, <2>2, <2>4, <3>1, Zenon
  <2>5. CASE op \in {"xori", "xoris"}
    <3>1. w = Xor(x, m) /\ q = FALSE
      BY <2>2, <2>3, <2>5, Zenon
    <3>. QED BY <2>1, <2>2, <2>5, <3>1, Zenon
  <2>6. CASE op \in {"andi", "andis"}
    <3>1. w = And(x, m) /\ q = TRUE
      BY <2>2, <2>3, <2>6, Zenon
    <3>. QED BY <2>1, <2>2, <2>6, <3>1, Zenon
  <2>7. op \in {"ori", "oris"} \/ op \in {"xori", "xoris"} \/ op \in {"andi", "andis"}
    BY DEF LogicalOps
  <2>. QED BY <2>2, <2>4, <2>5, <2>6, <2>7, Zenon
<1>6. /\ op \in {"ori", "oris"} => ExecuteLogical(op, v, i) = Put(v, i, Or(x, m))
      /\ op \in {"xori", "xoris"} => ExecuteLogical(op, v, i) = Put(v, i, Xor(x, m))
      /\ op \in {"andi", "andis"} => ExecuteLogical(op, v, i) = r
  <2>. HIDE DEF v
  <2>. QED BY DEF ExecuteLogical, ori, xori, andi, LogicalOperand
<1>. HIDE DEF v, k, x, m, r
<1>7. Stands(E(Or(x, m), FALSE), Put(v, i, Or(x, m)), R, a)
  BY <1>1, <1>4, EmitsLogical
<1>8. Stands(E(Xor(x, m), FALSE), Put(v, i, Xor(x, m)), R, a)
  BY <1>1, <1>4, EmitsLogical
<1>9. Stands(E(And(x, m), TRUE), r, R, a)
  BY <1>1, <1>4, EmitsLogical DEF r
<1>10. op \in {"ori", "oris"} \/ op \in {"xori", "xoris"} \/ op \in {"andi", "andis"}
  BY DEF LogicalOps
<1>. HIDE DEF E
<1>. QED BY <1>5, <1>6, <1>7, <1>8, <1>9, <1>10, Zenon DEF v

----------------------------------------------------------------------------
(* Shifts, extensions, counts and the bitwise operations.                   *)

\* Nothing is dropped by a shift of nothing.
LEMMA NothingDropped ==
  ASSUME NEW x \in Words
  PROVE  x % TwoTo[0] = 0
<1>1. TwoTo[0] = 1 /\ x \in Int
  BY PowerStep, WordFacts
<1>. QED BY <1>1

\* The bit a scan for the highest one finds.
Highest(x) == CHOOSE b \in BitIndex : TwoTo[b] <= x /\ x < TwoTo[b + 1]

LEMMA ShiftLeftAgrees ==
  ASSUME NEW R, NEW n, IsNative(n, R), NEW i, IsInsn(i, R), NEW a \in Words
  PROVE  Stands(EmittedShift("slw", n, i), slw(View(n, a), i), R, a)
<1>. DEFINE v == View(n, a)
            k == Fetch(n, i)
            x == A(v, i)
            y == B(v, i)
            c == Carry(v.xer)
            value == IF ShiftAmount(x) >= WordBits THEN 0 ELSE Unsigned(y * TwoTo[ShiftAmount(x)])
            f == IF TooFar(Amount(x)) THEN 0 ELSE HostShl(y, Amount(x))
<1>1. IsNative(k, R) /\ View(k, a) = v /\ Base(k, i) = x /\ Source(k, i) = y
  BY FetchedPair
<1>2. x \in Words /\ y \in Words /\ c \in {0, 1} /\ CarryIn(n) = c
  BY OperandWords
<1>3. EmittedShift("slw", n, i) = EmitResult(k, i, f)
  BY <1>1, <1>2, Zenon DEF EmittedShift
<1>4. slw(v, i) = Plain(v, i, value)
  BY Zenon DEF slw
<1>. HIDE DEF v, k, x, y, c
<1>5. value \in Words /\ f = value
  <2>. DEFINE s == ShiftAmount(x)
  <2>1. s \in Nat /\ Amount(x) = s
    BY <1>2, ShiftAmounts DEF ShiftAmount, Amount
  <2>2. y * TwoTo[s] \in Int
    <3>1. TwoTo[s] \in Nat /\ y \in Int
      BY <1>2, <2>1, PowerStep, WordFacts
    <3>. HIDE DEF s
    <3>. QED BY <3>1
  <2>. HIDE DEF s
  <2>3. Unsigned(y * TwoTo[s]) \in Words /\ 0 \in Words
    BY <2>2, UnsignedOf, WordRange
  <2>4. value = IF s >= WordBits THEN 0 ELSE Unsigned(y * TwoTo[s])
    BY Zenon DEF s
  <2>5. f = IF s >= WordBits THEN 0 ELSE Unsigned(y * TwoTo[s])
    BY <2>1, Zenon DEF TooFar, HostShl
  <2>. HIDE DEF value, f
  <2>6. value \in Words
    BY <2>3, <2>4, Zenon
  <2>. QED BY <2>4, <2>5, <2>6, Zenon
<1>. HIDE DEF value, f
<1>6. Stands(EmitResult(k, i, value), Plain(v, i, value), R, a)
  BY <1>1, <1>5, EmitsPlain
<1>. QED BY <1>3, <1>4, <1>5, <1>6, Zenon DEF v

LEMMA ShiftRightAgrees ==
  ASSUME NEW R, NEW n, IsNative(n, R), NEW i, IsInsn(i, R), NEW a \in Words
  PROVE  Stands(EmittedShift("srw", n, i), srw(View(n, a), i), R, a)
<1>. DEFINE v == View(n, a)
            k == Fetch(n, i)
            x == A(v, i)
            y == B(v, i)
            c == Carry(v.xer)
            value == IF ShiftAmount(x) >= WordBits THEN 0 ELSE y \div TwoTo[ShiftAmount(x)]
            f == IF TooFar(Amount(x)) THEN 0 ELSE y \div TwoTo[Amount(x)]
<1>1. IsNative(k, R) /\ View(k, a) = v /\ Base(k, i) = x /\ Source(k, i) = y
  BY FetchedPair
<1>2. x \in Words /\ y \in Words /\ c \in {0, 1} /\ CarryIn(n) = c
  BY OperandWords
<1>3. EmittedShift("srw", n, i) = EmitResult(k, i, f)
  BY <1>1, <1>2, Zenon DEF EmittedShift
<1>4. srw(v, i) = Plain(v, i, value)
  BY Zenon DEF srw
<1>. HIDE DEF v, k, x, y, c
<1>5. value \in Words /\ f = value
  <2>. DEFINE s == ShiftAmount(x)
  <2>1. s \in Nat /\ Amount(x) = s
    BY <1>2, ShiftAmounts DEF ShiftAmount, Amount
  <2>2. y \div TwoTo[s] \in Words /\ 0 \in Words
    BY <1>2, <2>1, LogicalShift, WordRange
  <2>. HIDE DEF s
  <2>4. value = IF s >= WordBits THEN 0 ELSE y \div TwoTo[s]
    BY Zenon DEF s
  <2>5. f = IF s >= WordBits THEN 0 ELSE y \div TwoTo[s]
    BY <2>1, Zenon DEF TooFar
  <2>. HIDE DEF value, f
  <2>6. value \in Words
    BY <2>2, <2>4, Zenon
  <2>. QED BY <2>4, <2>5, <2>6, Zenon
<1>. HIDE DEF value, f
<1>6. Stands(EmitResult(k, i, value), Plain(v, i, value), R, a)
  BY <1>1, <1>5, EmitsPlain
<1>. QED BY <1>3, <1>4, <1>5, <1>6, Zenon DEF v

LEMMA ShiftRightAlgebraicAgrees ==
  ASSUME NEW R, NEW n, IsNative(n, R), NEW i, IsInsn(i, R), NEW a \in Words
  PROVE  Stands(EmittedSraw(n, i), sraw(View(n, a), i), R, a)
<1>. DEFINE v == View(n, a)
            k == Fetch(n, i)
            x == A(v, i)
            y == B(v, i)
            c == Carry(v.xer)
            value == IF ShiftAmount(x) < WordBits THEN ShiftRightSigned(y, ShiftAmount(x)) ELSE IF Negative(y) THEN AllOnes ELSE 0
            carry == IF ShiftAmount(x) < WordBits THEN Negative(y) /\ y % TwoTo[ShiftAmount(x)] # 0 ELSE Negative(y)
            f == [value |-> ShiftRightSigned(y, IF TooFar(Amount(x)) THEN SignBit ELSE Amount(x)),
                  carry |-> IF TooFar(Amount(x)) THEN Negative(y)
                            ELSE /\ Amount(x) # 0
                                 /\ HostShl(y, WordBits - Amount(x)) # 0
                                 /\ Negative(y)]
<1>1. IsNative(k, R) /\ View(k, a) = v /\ Base(k, i) = x /\ Source(k, i) = y
  BY FetchedPair
<1>2. x \in Words /\ y \in Words /\ c \in {0, 1} /\ CarryIn(n) = c
  BY OperandWords
<1>3. EmittedSraw(n, i) = EmitCarrying(k, i, f)
  BY <1>1, <1>2, Zenon DEF EmittedSraw
<1>4. sraw(v, i) = WithCarry(v, i, value, carry)
  <2>. DEFINE s == ShiftAmount(x)
  <2>1. CASE s < WordBits
    <3>1. value = ShiftRightSigned(y, s) /\ carry = (Negative(y) /\ y % TwoTo[s] # 0)
      BY <2>1, Zenon
    <3>. HIDE DEF value, carry
    <3>. QED BY <2>1, <3>1, Zenon DEF sraw
  <2>2. CASE ~(s < WordBits)
    <3>1. value = (IF Negative(y) THEN AllOnes ELSE 0) /\ carry = Negative(y)
      BY <2>2, Zenon
    <3>. HIDE DEF value, carry
    <3>. QED BY <2>2, <3>1, Zenon DEF sraw
  <2>. QED BY <2>1, <2>2
<1>. HIDE DEF v, k, x, y, c
<1>5. value \in Words /\ f.value = value /\ carry \in BOOLEAN /\ f.carry \in BOOLEAN /\ (f.carry <=> carry)
  <2>. DEFINE s == ShiftAmount(x)
              u == ShiftRightSigned(y, IF TooFar(Amount(x)) THEN SignBit ELSE Amount(x))
              g == IF TooFar(Amount(x)) THEN Negative(y)
                   ELSE /\ Amount(x) # 0
                        /\ HostShl(y, WordBits - Amount(x)) # 0
                        /\ Negative(y)
  <2>1. s \in Nat /\ Amount(x) = s
    BY <1>2, ShiftAmounts DEF ShiftAmount, Amount
  <2>2. WordBits \in Nat /\ SignBit \in Nat
    BY WordSizes DEF BitIndex
  <2>3. g \in BOOLEAN /\ carry \in BOOLEAN
    <3>1. Negative(y) \in BOOLEAN
      BY DEF Negative
    <3>2. g \in BOOLEAN
      BY <3>1, Zenon
    <3>3. carry \in BOOLEAN
      BY <3>1, Zenon
    <3>. QED BY <3>2, <3>3
  <2>4. f = [value |-> u, carry |-> g]
    OBVIOUS
  <2>5. f.value = u /\ f.carry = g
    <3>. HIDE DEF f, u, g
    <3>. QED BY <2>4
  <2>6. value \in Words /\ u = value
    <3>. HIDE DEF s
    <3>1. CASE s < WordBits
      <4>1. ~TooFar(s)
        BY <2>1, <2>2, <3>1 DEF TooFar
      <4>2. value = ShiftRightSigned(y, s)
        BY <3>1, Zenon DEF s
      <4>3. u = ShiftRightSigned(y, s)
        BY <2>1, <4>1, Zenon
      <4>. HIDE DEF value, u
      <4>. QED BY <1>2, <2>1, <4>2, <4>3, SignedShift
    <3>2. CASE ~(s < WordBits)
      <4>1. TooFar(s)
        BY <2>1, <2>2, <3>2 DEF TooFar
      <4>2. value = IF Negative(y) THEN AllOnes ELSE 0
        BY <3>2, Zenon DEF s
      <4>3. u = ShiftRightSigned(y, SignBit)
        BY <2>1, <4>1, Zenon
      <4>. HIDE DEF value, u
      <4>. QED BY <1>2, <2>2, <4>2, <4>3, SignedShift
    <3>. QED BY <3>1, <3>2
  <2>7. g <=> carry
    <3>. HIDE DEF s
    <3>1. CASE ~(s < WordBits)
      <4>1. TooFar(s)
        BY <2>1, <2>2, <3>1 DEF TooFar
      <4>2. g <=> Negative(y)
        BY <2>1, <4>1, Zenon
      <4>3. carry <=> Negative(y)
        BY <3>1, Zenon DEF s
      <4>. QED BY <4>2, <4>3
    <3>2. CASE s < WordBits
      <4>1. ~TooFar(s) /\ s <= WordBits
        BY <2>1, <2>2, <3>2 DEF TooFar
      <4>2. g <=> s # 0 /\ HostShl(y, WordBits - s) # 0 /\ Negative(y)
        BY <2>1, <4>1, Zenon
      <4>3. carry <=> Negative(y) /\ y % TwoTo[s] # 0
        BY <3>2, Zenon DEF s
      <4>4. HostShl(y, WordBits - s) # 0 <=> y % TwoTo[s] # 0
        BY <1>2, <2>1, <4>1, LowPart DEF HostShl
      <4>5. s = 0 => y % TwoTo[s] = 0
        BY <1>2, NothingDropped
      <4>. QED BY <4>2, <4>3, <4>4, <4>5, Zenon
    <3>. QED BY <3>1, <3>2
  <2>. HIDE DEF f, u, g, value, carry
  <2>. QED BY <2>3, <2>5, <2>6, <2>7, Zenon
<1>. HIDE DEF value, carry, f
<1>6. Stands(EmitCarrying(k, i, f), WithCarry(v, i, value, carry), R, a)
  BY <1>1, <1>5, EmitsCarry
<1>. QED BY <1>3, <1>4, <1>6, Zenon DEF v

LEMMA ShiftRightAlgebraicImmediateAgrees ==
  ASSUME NEW R, NEW n, IsNative(n, R), NEW i, IsInsn(i, R), NEW a \in Words
  PROVE  Stands(EmittedSrawi(n, i), srawi(View(n, a), i), R, a)
<1>. DEFINE v == View(n, a)
            k == read_guest_gpr(n, {i.source})
            x == A(v, i)
            y == B(v, i)
            c == Carry(v.xer)
            value == ShiftRightSigned(y, i.shift)
            carry == Negative(y) /\ y % TwoTo[i.shift] # 0
            f == [value |-> ShiftRightSigned(y, i.shift),
                  carry |-> i.shift # 0 /\ Negative(y) /\ y % TwoTo[i.shift] # 0]
<1>1. IsNative(k, R) /\ View(k, a) = v /\ Source(k, i) = y
  BY FetchedSource
<1>2. x \in Words /\ y \in Words /\ c \in {0, 1} /\ CarryIn(n) = c
  BY OperandWords
<1>3. EmittedSrawi(n, i) = EmitCarrying(k, i, f)
  BY <1>1, <1>2, Zenon DEF EmittedSrawi
<1>4. srawi(v, i) = WithCarry(v, i, value, carry)
  BY Zenon DEF srawi
<1>. HIDE DEF v, k, x, y, c
<1>5. value \in Words /\ f.value = value /\ carry \in BOOLEAN /\ f.carry \in BOOLEAN /\ (f.carry <=> carry)
  <2>. DEFINE g == i.shift # 0 /\ Negative(y) /\ y % TwoTo[i.shift] # 0
  <2>1. i.shift \in Nat
    BY DEF IsInsn, BitIndex
  <2>2. g \in BOOLEAN /\ carry \in BOOLEAN
    OBVIOUS
  <2>3. f = [value |-> value, carry |-> g]
    OBVIOUS
  <2>4. f.value = value /\ f.carry = g
    <3>. HIDE DEF f, value, g
    <3>. QED BY <2>3
  <2>5. value \in Words
    BY <1>2, <2>1, SignedShift
  <2>6. i.shift = 0 => y % TwoTo[i.shift] = 0
    BY <1>2, NothingDropped
  <2>7. g <=> carry
    BY <2>6, Zenon
  <2>. HIDE DEF f, g, value, carry
  <2>. QED BY <2>2, <2>4, <2>5, <2>7, Zenon
<1>. HIDE DEF value, carry, f
<1>6. Stands(EmitCarrying(k, i, f), WithCarry(v, i, value, carry), R, a)
  BY <1>1, <1>5, EmitsCarry
<1>. QED BY <1>3, <1>4, <1>6, Zenon DEF v

LEMMA ExtendByteAgrees ==
  ASSUME NEW R, NEW n, IsNative(n, R), NEW i, IsInsn(i, R), NEW a \in Words
  PROVE  Stands(EmittedExtendSign("extsb", n, i), extsb(View(n, a), i), R, a)
<1>. DEFINE v == View(n, a)
            k == read_guest_gpr(n, {i.source})
            x == A(v, i)
            y == B(v, i)
            c == Carry(v.xer)
            value == SignExtended(y, ByteBits)
            f == ShiftRightSigned(HostShl(y, WordBits - ByteBits), WordBits - ByteBits)
<1>1. IsNative(k, R) /\ View(k, a) = v /\ Source(k, i) = y
  BY FetchedSource
<1>2. x \in Words /\ y \in Words /\ c \in {0, 1} /\ CarryIn(n) = c
  BY OperandWords
<1>3. EmittedExtendSign("extsb", n, i) = EmitResult(k, i, f)
  BY <1>1, <1>2, Zenon DEF EmittedExtendSign
<1>4. extsb(v, i) = Plain(v, i, value)
  BY Zenon DEF extsb
<1>. HIDE DEF v, k, x, y, c
<1>5. value \in Words /\ f = value
  <2>. DEFINE k0 == ByteBits
              up == WordBits - k0
              low == y % TwoTo[k0]
              w == low + (IF low >= TwoTo[k0 - 1] THEN Modulus - TwoTo[k0] ELSE 0)
  <2>1. k0 \in Nat /\ 0 < k0 /\ k0 <= WordBits /\ up \in Nat
    BY WordSizes
  <2>2. f = ShiftRightSigned(Unsigned(y * TwoTo[up]), up)
    BY Zenon DEF HostShl
  <2>3. value = w
    BY Zenon DEF SignExtended
  <2>4. y * TwoTo[up] \in Int
    <3>1. TwoTo[up] \in Nat /\ y \in Int
      BY <1>2, <2>1, PowerStep, WordFacts
    <3>. HIDE DEF up
    <3>. QED BY <3>1
  <2>5. Unsigned(y * TwoTo[up]) \in Words
    BY <2>4, UnsignedOf
  <2>6. ShiftRightSigned(Unsigned(y * TwoTo[up]), up) \in Words
    BY <2>1, <2>5, SignedShift
  <2>. HIDE DEF k0
  <2>7. ShiftRightSigned(Unsigned(y * TwoTo[up]), up) = w
    BY <1>2, <2>1, ExtendByShifts
  <2>. HIDE DEF up, low, w, f, value
  <2>. QED BY <2>2, <2>3, <2>6, <2>7, Zenon
<1>. HIDE DEF value, f
<1>6. Stands(EmitResult(k, i, value), Plain(v, i, value), R, a)
  BY <1>1, <1>5, EmitsPlain
<1>. QED BY <1>3, <1>4, <1>5, <1>6, Zenon DEF v

LEMMA ExtendHalfwordAgrees ==
  ASSUME NEW R, NEW n, IsNative(n, R), NEW i, IsInsn(i, R), NEW a \in Words
  PROVE  Stands(EmittedExtendSign("extsh", n, i), extsh(View(n, a), i), R, a)
<1>. DEFINE v == View(n, a)
            k == read_guest_gpr(n, {i.source})
            x == A(v, i)
            y == B(v, i)
            c == Carry(v.xer)
            value == SignExtended(y, HalfBits)
            f == ShiftRightSigned(HostShl(y, WordBits - HalfBits), WordBits - HalfBits)
<1>1. IsNative(k, R) /\ View(k, a) = v /\ Source(k, i) = y
  BY FetchedSource
<1>2. x \in Words /\ y \in Words /\ c \in {0, 1} /\ CarryIn(n) = c
  BY OperandWords
<1>3. EmittedExtendSign("extsh", n, i) = EmitResult(k, i, f)
  BY <1>1, <1>2, Zenon DEF EmittedExtendSign
<1>4. extsh(v, i) = Plain(v, i, value)
  BY Zenon DEF extsh
<1>. HIDE DEF v, k, x, y, c
<1>5. value \in Words /\ f = value
  <2>. DEFINE k0 == HalfBits
              up == WordBits - k0
              low == y % TwoTo[k0]
              w == low + (IF low >= TwoTo[k0 - 1] THEN Modulus - TwoTo[k0] ELSE 0)
  <2>1. k0 \in Nat /\ 0 < k0 /\ k0 <= WordBits /\ up \in Nat
    BY WordSizes
  <2>2. f = ShiftRightSigned(Unsigned(y * TwoTo[up]), up)
    BY Zenon DEF HostShl
  <2>3. value = w
    BY Zenon DEF SignExtended
  <2>4. y * TwoTo[up] \in Int
    <3>1. TwoTo[up] \in Nat /\ y \in Int
      BY <1>2, <2>1, PowerStep, WordFacts
    <3>. HIDE DEF up
    <3>. QED BY <3>1
  <2>5. Unsigned(y * TwoTo[up]) \in Words
    BY <2>4, UnsignedOf
  <2>6. ShiftRightSigned(Unsigned(y * TwoTo[up]), up) \in Words
    BY <2>1, <2>5, SignedShift
  <2>. HIDE DEF k0
  <2>7. ShiftRightSigned(Unsigned(y * TwoTo[up]), up) = w
    BY <1>2, <2>1, ExtendByShifts
  <2>. HIDE DEF up, low, w, f, value
  <2>. QED BY <2>2, <2>3, <2>6, <2>7, Zenon
<1>. HIDE DEF value, f
<1>6. Stands(EmitResult(k, i, value), Plain(v, i, value), R, a)
  BY <1>1, <1>5, EmitsPlain
<1>. QED BY <1>3, <1>4, <1>5, <1>6, Zenon DEF v

LEMMA CountZerosAgrees ==
  ASSUME NEW R, NEW n, IsNative(n, R), NEW i, IsInsn(i, R), NEW a \in Words
  PROVE  Stands(EmittedCountZeros(n, i), cntlzw(View(n, a), i), R, a)
<1>. DEFINE v == View(n, a)
            k == read_guest_gpr(n, {i.source})
            x == A(v, i)
            y == B(v, i)
            c == Carry(v.xer)
            value == IF y = 0 THEN WordBits
                     ELSE CHOOSE z \in BitIndex : /\ PpcBit(z) \in Bits[y]
                                                  /\ \A q \in 0..(z - 1) : PpcBit(q) \notin Bits[y]
            f == IF y = 0 THEN WordBits ELSE SignBit - (CHOOSE b \in BitIndex : TwoTo[b] <= y /\ y < TwoTo[b + 1])
<1>1. IsNative(k, R) /\ View(k, a) = v /\ Source(k, i) = y
  BY FetchedSource
<1>2. x \in Words /\ y \in Words /\ c \in {0, 1} /\ CarryIn(n) = c
  BY OperandWords
<1>3. EmittedCountZeros(n, i) = EmitResult(k, i, f)
  <2>. DEFINE b == Source(k, i)
              g == IF b = 0 THEN WordBits ELSE SignBit - Highest(b)
  <2>1. EmittedCountZeros(n, i) = EmitResult(k, i, g)
    BY Zenon DEF EmittedCountZeros, Highest
  <2>2. g = IF y = 0 THEN WordBits ELSE SignBit - Highest(y)
    BY <1>1, Zenon
  <2>3. f = IF y = 0 THEN WordBits ELSE SignBit - Highest(y)
    BY Zenon DEF Highest
  <2>. HIDE DEF f, g
  <2>. QED BY <2>1, <2>2, <2>3, Zenon
<1>4. cntlzw(v, i) = Plain(v, i, value)
  BY Zenon DEF cntlzw
<1>. HIDE DEF v, k, x, y, c
<1>5. value \in Words /\ f = value
  <2>. DEFINE counted == CHOOSE z \in BitIndex : /\ PpcBit(z) \in Bits[y]
                                                 /\ \A q \in 0..(z - 1) : PpcBit(q) \notin Bits[y]
              bsr == CHOOSE b \in BitIndex : TwoTo[b] <= y /\ y < TwoTo[b + 1]
  <2>1. y # 0 => SignBit - bsr = counted /\ counted \in BitIndex
    BY <1>2, LeadingZeros
  <2>2. WordBits \in Words /\ \A q \in BitIndex : q \in Words
    BY WordRange
  <2>3. value = (IF y = 0 THEN WordBits ELSE counted) /\ f = IF y = 0 THEN WordBits ELSE SignBit - bsr
    BY Zenon
  <2>. HIDE DEF counted, bsr, value, f
  <2>. QED BY <2>1, <2>2, <2>3, Zenon
<1>. HIDE DEF value, f
<1>6. Stands(EmitResult(k, i, value), Plain(v, i, value), R, a)
  BY <1>1, <1>5, EmitsPlain
<1>. QED BY <1>3, <1>4, <1>5, <1>6, Zenon DEF v

LEMMA OrAgrees ==
  ASSUME NEW R, NEW n, IsNative(n, R), NEW i, IsInsn(i, R), NEW a \in Words
  PROVE  Stands(EmittedBitwise("or", n, i), bitwise("or", View(n, a), i), R, a)
<1>. DEFINE v == View(n, a)
            k == Fetch(n, i)
            x == A(v, i)
            y == B(v, i)
            c == Carry(v.xer)
            value == Or(y, x)
            f == Or(x, y)
<1>1. IsNative(k, R) /\ View(k, a) = v /\ Base(k, i) = x /\ Source(k, i) = y
  BY FetchedPair
<1>2. x \in Words /\ y \in Words /\ c \in {0, 1} /\ CarryIn(n) = c
  BY OperandWords
<1>3. EmittedBitwise("or", n, i) = EmitResult(k, i, f)
  BY <1>1, <1>2, Zenon DEF EmittedBitwise
<1>4. bitwise("or", v, i) = Plain(v, i, value)
  BY Zenon DEF bitwise
<1>. HIDE DEF v, k, x, y, c
<1>5. value \in Words /\ f = value
  BY <1>2, BitwiseWords
<1>. HIDE DEF value, f
<1>6. Stands(EmitResult(k, i, value), Plain(v, i, value), R, a)
  BY <1>1, <1>5, EmitsPlain
<1>. QED BY <1>3, <1>4, <1>5, <1>6, Zenon DEF v

LEMMA AndAgrees ==
  ASSUME NEW R, NEW n, IsNative(n, R), NEW i, IsInsn(i, R), NEW a \in Words
  PROVE  Stands(EmittedBitwise("and", n, i), bitwise("and", View(n, a), i), R, a)
<1>. DEFINE v == View(n, a)
            k == Fetch(n, i)
            x == A(v, i)
            y == B(v, i)
            c == Carry(v.xer)
            value == And(y, x)
            f == And(x, y)
<1>1. IsNative(k, R) /\ View(k, a) = v /\ Base(k, i) = x /\ Source(k, i) = y
  BY FetchedPair
<1>2. x \in Words /\ y \in Words /\ c \in {0, 1} /\ CarryIn(n) = c
  BY OperandWords
<1>3. EmittedBitwise("and", n, i) = EmitResult(k, i, f)
  BY <1>1, <1>2, Zenon DEF EmittedBitwise
<1>4. bitwise("and", v, i) = Plain(v, i, value)
  BY Zenon DEF bitwise
<1>. HIDE DEF v, k, x, y, c
<1>5. value \in Words /\ f = value
  BY <1>2, BitwiseWords
<1>. HIDE DEF value, f
<1>6. Stands(EmitResult(k, i, value), Plain(v, i, value), R, a)
  BY <1>1, <1>5, EmitsPlain
<1>. QED BY <1>3, <1>4, <1>5, <1>6, Zenon DEF v

LEMMA XorAgrees ==
  ASSUME NEW R, NEW n, IsNative(n, R), NEW i, IsInsn(i, R), NEW a \in Words
  PROVE  Stands(EmittedBitwise("xor", n, i), bitwise("xor", View(n, a), i), R, a)
<1>. DEFINE v == View(n, a)
            k == Fetch(n, i)
            x == A(v, i)
            y == B(v, i)
            c == Carry(v.xer)
            value == Xor(y, x)
            f == Xor(x, y)
<1>1. IsNative(k, R) /\ View(k, a) = v /\ Base(k, i) = x /\ Source(k, i) = y
  BY FetchedPair
<1>2. x \in Words /\ y \in Words /\ c \in {0, 1} /\ CarryIn(n) = c
  BY OperandWords
<1>3. EmittedBitwise("xor", n, i) = EmitResult(k, i, f)
  BY <1>1, <1>2, Zenon DEF EmittedBitwise
<1>4. bitwise("xor", v, i) = Plain(v, i, value)
  BY Zenon DEF bitwise
<1>. HIDE DEF v, k, x, y, c
<1>5. value \in Words /\ f = value
  BY <1>2, BitwiseWords
<1>. HIDE DEF value, f
<1>6. Stands(EmitResult(k, i, value), Plain(v, i, value), R, a)
  BY <1>1, <1>5, EmitsPlain
<1>. QED BY <1>3, <1>4, <1>5, <1>6, Zenon DEF v

LEMMA NorAgrees ==
  ASSUME NEW R, NEW n, IsNative(n, R), NEW i, IsInsn(i, R), NEW a \in Words
  PROVE  Stands(EmittedBitwise("nor", n, i), bitwise("nor", View(n, a), i), R, a)
<1>. DEFINE v == View(n, a)
            k == Fetch(n, i)
            x == A(v, i)
            y == B(v, i)
            c == Carry(v.xer)
            value == Not(Or(y, x))
            f == Not(Or(x, y))
<1>1. IsNative(k, R) /\ View(k, a) = v /\ Base(k, i) = x /\ Source(k, i) = y
  BY FetchedPair
<1>2. x \in Words /\ y \in Words /\ c \in {0, 1} /\ CarryIn(n) = c
  BY OperandWords
<1>3. EmittedBitwise("nor", n, i) = EmitResult(k, i, f)
  BY <1>1, <1>2, Zenon DEF EmittedBitwise
<1>4. bitwise("nor", v, i) = Plain(v, i, value)
  BY Zenon DEF bitwise
<1>. HIDE DEF v, k, x, y, c
<1>5. value \in Words /\ f = value
  <2>1. Or(y, x) \in Words /\ Or(x, y) = Or(y, x)
    BY <1>2, BitwiseWords
  <2>. QED BY <2>1, BitwiseWords
<1>. HIDE DEF value, f
<1>6. Stands(EmitResult(k, i, value), Plain(v, i, value), R, a)
  BY <1>1, <1>5, EmitsPlain
<1>. QED BY <1>3, <1>4, <1>5, <1>6, Zenon DEF v

LEMMA NandAgrees ==
  ASSUME NEW R, NEW n, IsNative(n, R), NEW i, IsInsn(i, R), NEW a \in Words
  PROVE  Stands(EmittedBitwise("nand", n, i), bitwise("nand", View(n, a), i), R, a)
<1>. DEFINE v == View(n, a)
            k == Fetch(n, i)
            x == A(v, i)
            y == B(v, i)
            c == Carry(v.xer)
            value == Not(And(y, x))
            f == Not(And(x, y))
<1>1. IsNative(k, R) /\ View(k, a) = v /\ Base(k, i) = x /\ Source(k, i) = y
  BY FetchedPair
<1>2. x \in Words /\ y \in Words /\ c \in {0, 1} /\ CarryIn(n) = c
  BY OperandWords
<1>3. EmittedBitwise("nand", n, i) = EmitResult(k, i, f)
  BY <1>1, <1>2, Zenon DEF EmittedBitwise
<1>4. bitwise("nand", v, i) = Plain(v, i, value)
  BY Zenon DEF bitwise
<1>. HIDE DEF v, k, x, y, c
<1>5. value \in Words /\ f = value
  <2>1. And(y, x) \in Words /\ And(x, y) = And(y, x)
    BY <1>2, BitwiseWords
  <2>. QED BY <2>1, BitwiseWords
<1>. HIDE DEF value, f
<1>6. Stands(EmitResult(k, i, value), Plain(v, i, value), R, a)
  BY <1>1, <1>5, EmitsPlain
<1>. QED BY <1>3, <1>4, <1>5, <1>6, Zenon DEF v

LEMMA EquivalentAgrees ==
  ASSUME NEW R, NEW n, IsNative(n, R), NEW i, IsInsn(i, R), NEW a \in Words
  PROVE  Stands(EmittedBitwise("eqv", n, i), bitwise("eqv", View(n, a), i), R, a)
<1>. DEFINE v == View(n, a)
            k == Fetch(n, i)
            x == A(v, i)
            y == B(v, i)
            c == Carry(v.xer)
            value == Not(Xor(y, x))
            f == Not(Xor(x, y))
<1>1. IsNative(k, R) /\ View(k, a) = v /\ Base(k, i) = x /\ Source(k, i) = y
  BY FetchedPair
<1>2. x \in Words /\ y \in Words /\ c \in {0, 1} /\ CarryIn(n) = c
  BY OperandWords
<1>3. EmittedBitwise("eqv", n, i) = EmitResult(k, i, f)
  BY <1>1, <1>2, Zenon DEF EmittedBitwise
<1>4. bitwise("eqv", v, i) = Plain(v, i, value)
  BY Zenon DEF bitwise
<1>. HIDE DEF v, k, x, y, c
<1>5. value \in Words /\ f = value
  <2>1. Xor(y, x) \in Words /\ Xor(x, y) = Xor(y, x)
    BY <1>2, BitwiseWords
  <2>. QED BY <2>1, BitwiseWords
<1>. HIDE DEF value, f
<1>6. Stands(EmitResult(k, i, value), Plain(v, i, value), R, a)
  BY <1>1, <1>5, EmitsPlain
<1>. QED BY <1>3, <1>4, <1>5, <1>6, Zenon DEF v

LEMMA AndComplementAgrees ==
  ASSUME NEW R, NEW n, IsNative(n, R), NEW i, IsInsn(i, R), NEW a \in Words
  PROVE  Stands(EmittedBitwise("andc", n, i), bitwise("andc", View(n, a), i), R, a)
<1>. DEFINE v == View(n, a)
            k == Fetch(n, i)
            x == A(v, i)
            y == B(v, i)
            c == Carry(v.xer)
            value == And(y, Not(x))
            f == And(y, Not(x))
<1>1. IsNative(k, R) /\ View(k, a) = v /\ Base(k, i) = x /\ Source(k, i) = y
  BY FetchedPair
<1>2. x \in Words /\ y \in Words /\ c \in {0, 1} /\ CarryIn(n) = c
  BY OperandWords
<1>3. EmittedBitwise("andc", n, i) = EmitResult(k, i, f)
  BY <1>1, <1>2, Zenon DEF EmittedBitwise
<1>4. bitwise("andc", v, i) = Plain(v, i, value)
  BY Zenon DEF bitwise
<1>. HIDE DEF v, k, x, y, c
<1>5. value \in Words /\ f = value
  <2>1. Not(x) \in Words
    BY <1>2, BitwiseWords
  <2>. QED BY <1>2, <2>1, BitwiseWords
<1>. HIDE DEF value, f
<1>6. Stands(EmitResult(k, i, value), Plain(v, i, value), R, a)
  BY <1>1, <1>5, EmitsPlain
<1>. QED BY <1>3, <1>4, <1>5, <1>6, Zenon DEF v

LEMMA OrComplementAgrees ==
  ASSUME NEW R, NEW n, IsNative(n, R), NEW i, IsInsn(i, R), NEW a \in Words
  PROVE  Stands(EmittedBitwise("orc", n, i), bitwise("orc", View(n, a), i), R, a)
<1>. DEFINE v == View(n, a)
            k == Fetch(n, i)
            x == A(v, i)
            y == B(v, i)
            c == Carry(v.xer)
            value == Or(y, Not(x))
            f == Or(y, Not(x))
<1>1. IsNative(k, R) /\ View(k, a) = v /\ Base(k, i) = x /\ Source(k, i) = y
  BY FetchedPair
<1>2. x \in Words /\ y \in Words /\ c \in {0, 1} /\ CarryIn(n) = c
  BY OperandWords
<1>3. EmittedBitwise("orc", n, i) = EmitResult(k, i, f)
  BY <1>1, <1>2, Zenon DEF EmittedBitwise
<1>4. bitwise("orc", v, i) = Plain(v, i, value)
  BY Zenon DEF bitwise
<1>. HIDE DEF v, k, x, y, c
<1>5. value \in Words /\ f = value
  <2>1. Not(x) \in Words
    BY <1>2, BitwiseWords
  <2>. QED BY <1>2, <2>1, BitwiseWords
<1>. HIDE DEF value, f
<1>6. Stands(EmitResult(k, i, value), Plain(v, i, value), R, a)
  BY <1>1, <1>5, EmitsPlain
<1>. QED BY <1>3, <1>4, <1>5, <1>6, Zenon DEF v

----------------------------------------------------------------------------
(* Rotations.                                                               *)

LEMMA RotateAgrees ==
  ASSUME NEW R, NEW n, IsNative(n, R), NEW i, IsInsn(i, R), NEW a \in Words
  PROVE  Stands(EmittedRotate("rlwinm", n, i), rlwinm(View(n, a), i, i.shift), R, a)
<1>. DEFINE v == View(n, a)
            F == {i.source} \cup {} \cup {}
            k == read_guest_gpr(n, F)
            x == A(v, i)
            y == B(v, i)
            s == i.shift
            mask == rotate_mask(i.mask_begin, i.mask_end)
            value == And(RotateLeft(y, s), mask)
<1>1. IsNative(k, R) /\ View(k, a) = v /\ Source(k, i) = y
  <2>1. F \in SUBSET R /\ i.source \in F
    BY DEF IsInsn
  <2>. HIDE DEF F
  <2>. QED BY <2>1, Fetched
<1>2. v.gpr[i.destination] \in Words
  BY OperandWords
<1>3. read_guest_gpr(n, {i.source} \cup (IF "rlwinm" = "rlwnm" THEN {i.base} ELSE {})
                            \cup (IF "rlwinm" = "rlwimi" THEN {i.destination} ELSE {})) = k
  BY Zenon
<1>4. EmittedRotate("rlwinm", n, i) = EmitResult(k, i, value)
  <2>. HIDE DEF k, v, y, mask, x, F
  <2>. QED BY <1>1, <1>3, Zenon DEF EmittedRotate, mask
<1>5. rlwinm(v, i, i.shift) = Plain(v, i, value)
  BY Zenon DEF rlwinm
<1>. HIDE DEF v, k, x, y, s
<1>6. value \in Words
  <2>1. mask \in Words
    BY MaskWord
  <2>. HIDE DEF mask
  <2>2. And(RotateLeft(y, s), mask) \in Words
    BY <2>1, MaskedWord
  <2>. QED BY <2>2
<1>. HIDE DEF value
<1>7. Stands(EmitResult(k, i, value), Plain(v, i, value), R, a)
  BY <1>1, <1>6, EmitsPlain
<1>. QED BY <1>4, <1>5, <1>7, Zenon DEF v, s, x

LEMMA RotateByRegisterAgrees ==
  ASSUME NEW R, NEW n, IsNative(n, R), NEW i, IsInsn(i, R), NEW a \in Words
  PROVE  Stands(EmittedRotate("rlwnm", n, i), rlwinm(View(n, a), i, A(View(n, a), i) % WordBits), R, a)
<1>. DEFINE v == View(n, a)
            F == {i.source} \cup {i.base} \cup {}
            k == read_guest_gpr(n, F)
            x == A(v, i)
            y == B(v, i)
            s == x % WordBits
            mask == rotate_mask(i.mask_begin, i.mask_end)
            value == And(RotateLeft(y, s), mask)
<1>1. IsNative(k, R) /\ View(k, a) = v /\ Source(k, i) = y /\ Base(k, i) = x
  <2>1. F \in SUBSET R /\ i.source \in F /\ i.base \in F
    BY DEF IsInsn
  <2>. HIDE DEF F
  <2>. QED BY <2>1, Fetched
<1>2. v.gpr[i.destination] \in Words
  BY OperandWords
<1>3. read_guest_gpr(n, {i.source} \cup (IF "rlwnm" = "rlwnm" THEN {i.base} ELSE {})
                            \cup (IF "rlwnm" = "rlwimi" THEN {i.destination} ELSE {})) = k
  BY Zenon
<1>4. EmittedRotate("rlwnm", n, i) = EmitResult(k, i, value)
  <2>. HIDE DEF k, v, y, mask, x, F
  <2>. QED BY <1>1, <1>3, Zenon DEF EmittedRotate, mask
<1>5. rlwinm(v, i, A(v, i) % WordBits) = Plain(v, i, value)
  BY Zenon DEF rlwinm
<1>. HIDE DEF v, k, x, y, s
<1>6. value \in Words
  <2>1. mask \in Words
    BY MaskWord
  <2>. HIDE DEF mask
  <2>2. And(RotateLeft(y, s), mask) \in Words
    BY <2>1, MaskedWord
  <2>. QED BY <2>2
<1>. HIDE DEF value
<1>7. Stands(EmitResult(k, i, value), Plain(v, i, value), R, a)
  BY <1>1, <1>6, EmitsPlain
<1>. QED BY <1>4, <1>5, <1>7, Zenon DEF v, s, x

LEMMA RotateInsertAgrees ==
  ASSUME NEW R, NEW n, IsNative(n, R), NEW i, IsInsn(i, R), NEW a \in Words
  PROVE  Stands(EmittedRotate("rlwimi", n, i), rlwimi(View(n, a), i), R, a)
<1>. DEFINE v == View(n, a)
            F == {i.source} \cup {} \cup {i.destination}
            k == read_guest_gpr(n, F)
            x == A(v, i)
            y == B(v, i)
            s == i.shift
            mask == rotate_mask(i.mask_begin, i.mask_end)
            value == Or(And(RotateLeft(y, s), mask), And(v.gpr[i.destination], Not(mask)))
<1>1. IsNative(k, R) /\ View(k, a) = v /\ Source(k, i) = y /\ k.host[i.destination] = v.gpr[i.destination]
  <2>1. F \in SUBSET R /\ i.source \in F /\ i.destination \in F
    BY DEF IsInsn
  <2>. HIDE DEF F
  <2>. QED BY <2>1, Fetched
<1>2. v.gpr[i.destination] \in Words
  BY OperandWords
<1>3. read_guest_gpr(n, {i.source} \cup (IF "rlwimi" = "rlwnm" THEN {i.base} ELSE {})
                            \cup (IF "rlwimi" = "rlwimi" THEN {i.destination} ELSE {})) = k
  BY Zenon
<1>4. EmittedRotate("rlwimi", n, i) = EmitResult(k, i, value)
  <2>. HIDE DEF k, v, y, mask, x, F
  <2>. QED BY <1>1, <1>3, Zenon DEF EmittedRotate, mask
<1>5. rlwimi(v, i) = Plain(v, i, value)
  BY Zenon DEF rlwimi
<1>. HIDE DEF v, k, x, y, s
<1>6. value \in Words
  <2>1. mask \in Words
    BY MaskWord
  <2>. HIDE DEF mask
  <2>2. And(RotateLeft(y, s), mask) \in Words
    BY <2>1, MaskedWord
  <2>3. And(v.gpr[i.destination], Not(mask)) \in Words
    <3>1. Not(mask) \in Words
      BY <2>1, BitwiseWords
    <3>. QED BY <1>2, <3>1, BitwiseWords
  <2>. QED BY <2>2, <2>3, BitwiseWords
<1>. HIDE DEF value
<1>7. Stands(EmitResult(k, i, value), Plain(v, i, value), R, a)
  BY <1>1, <1>6, EmitsPlain
<1>. QED BY <1>4, <1>5, <1>7, Zenon DEF v, s, x

----------------------------------------------------------------------------
(* Divisions, which the helpers do on CpuState itself.                      *)

\* The order the record bit notes, as the machine's field.
Ordered(value) == CASE Negative(value) -> LT(0) [] value = 0 -> EQ(0) [] OTHER -> GT(0)
RecordedCr(s, i, value) == IF i.record THEN FieldSet(s.cr, s.xer, 0, Ordered(value)) ELSE s.cr

LEMMA OrderedIs ==
  ASSUME NEW value \in Words
  PROVE  Ordered(value) = (IF Signed(value) < 0 THEN LT(0) ELSE IF Signed(value) > 0 THEN GT(0) ELSE EQ(0))
<1>1. Signed(value) \in Int /\ (Signed(value) < 0 <=> Negative(value)) /\ (Signed(value) = 0 <=> value = 0)
  BY SignedWord
<1>. DEFINE under == Negative(value)
            zero == value = 0
            less == Signed(value) < 0
            greater == Signed(value) > 0
<1>2. (under <=> less) /\ (zero <=> ~less /\ ~greater) /\ ~(under /\ zero)
  BY <1>1
<1>3. Ordered(value) = IF under THEN LT(0) ELSE IF zero THEN EQ(0) ELSE GT(0)
  BY <1>2 DEF Ordered
<1>. HIDE DEF under, zero, less, greater
<1>4. CASE under
  <2>1. Ordered(value) = LT(0) /\ less
    BY <1>2, <1>3, <1>4, Zenon
  <2>. QED BY <2>1, Zenon DEF less
<1>5. CASE ~under /\ zero
  <2>1. Ordered(value) = EQ(0) /\ ~less /\ ~greater
    BY <1>2, <1>3, <1>5, Zenon
  <2>. QED BY <2>1, Zenon DEF less, greater
<1>6. CASE ~under /\ ~zero
  <2>1. Ordered(value) = GT(0) /\ ~less /\ greater
    BY <1>2, <1>3, <1>6, Zenon
  <2>. QED BY <2>1, Zenon DEF less, greater
<1>. QED BY <1>4, <1>5, <1>6

LEMMA RecordedIs ==
  ASSUME NEW R, NEW s \in Machines(R), NEW i, i.record \in BOOLEAN, NEW value \in Words
  PROVE  /\ Recorded(s, i, value) = SetCr(s, RecordedCr(s, i, value))
         /\ RecordedCr(s, i, value) \in SUBSET BitIndex
<1>1. CASE i.record
  <2>. DEFINE less == Signed(value) < 0
              greater == Signed(value) > 0
              order == IF less THEN LT(0) ELSE IF greater THEN GT(0) ELSE EQ(0)
  <2>1. Recorded(s, i, value) = CompareField(s, 0, less, greater)
    BY <1>1, Zenon DEF Recorded, set_record_result, set_compare_result
  <2>2. less \in BOOLEAN /\ greater \in BOOLEAN /\ 0 \in ConditionFields
    BY FieldsAreBits
  <2>3. Ordered(value) = order
    BY OrderedIs
  <2>. HIDE DEF less, greater
  <2>4. CompareField(s, 0, less, greater) = SetCr(s, FieldSet(s.cr, s.xer, 0, order))
          /\ FieldSet(s.cr, s.xer, 0, order) \in SUBSET BitIndex
    BY <2>2, CompareFieldIs
  <2>. HIDE DEF order
  <2>5. RecordedCr(s, i, value) = FieldSet(s.cr, s.xer, 0, order)
    BY <1>1, <2>3, Zenon DEF RecordedCr
  <2>. QED BY <2>1, <2>4, <2>5, Zenon
<1>2. CASE ~i.record
  <2>. DEFINE c == s.cr
              t == [s EXCEPT !.cr = c]
  <2>1. Recorded(s, i, value) = s /\ RecordedCr(s, i, value) = c
    BY <1>2, Zenon DEF Recorded, RecordedCr
  <2>2. c \in SUBSET BitIndex
    BY MachineFields
  <2>. HIDE DEF c
  <2>3. t \in Machines(R) /\ t.gpr = s.gpr /\ t.cr = c /\ t.xer = s.xer /\ t.lr = s.lr
          /\ t.ctr = s.ctr /\ t.gqr = s.gqr /\ t.cia = s.cia
    BY <2>2, CrIs
  <2>. HIDE DEF t
  <2>4. t = s
    BY <2>3, MachineEqual DEF c
  <2>. QED BY <2>1, <2>2, <2>4, Zenon DEF t, SetCr
<1>. QED BY <1>1, <1>2

\* What a helper leaves in CpuState.
LEMMA QuotientIs ==
  ASSUME NEW R, NEW s \in Machines(R), NEW i, i.destination \in R, i.record \in BOOLEAN,
         NEW value \in Words, NEW x \in SUBSET BitIndex
  PROVE  Quotient(s, i, value, x) = Recorded(SetXer(Put(s, i, value), x), i, value)
<1>. DEFINE p == Put(s, i, value)
            y == [p EXCEPT !.xer = x]
            c == RecordedCr(y, i, value)
            t == [y EXCEPT !.cr = c]
            g == [s.gpr EXCEPT ![i.destination] = value]
            q == Quotient(s, i, value, x)
            e == IF i.record THEN (s.cr \ FieldBits(0)) \cup {Ordered(value)} \cup SummaryBit(x, 0) ELSE s.cr
<1>1. p \in Machines(R) /\ p.gpr = g /\ p.cr = s.cr /\ p.lr = s.lr /\ p.ctr = s.ctr
        /\ p.gqr = s.gqr /\ p.cia = s.cia
  BY PutIs
<1>0. g \in [R -> Words]
  BY <1>1, MachineFields
<1>2. q = [s EXCEPT !.gpr = g, !.xer = x, !.cr = e]
  BY MachineFields DEF Quotient, Ordered
<1>. HIDE DEF p, g, q
<1>3. y \in Machines(R) /\ y.gpr = g /\ y.cr = s.cr /\ y.xer = x /\ y.lr = s.lr
        /\ y.ctr = s.ctr /\ y.gqr = s.gqr /\ y.cia = s.cia
  <2>1. y \in Machines(R) /\ y.gpr = p.gpr /\ y.cr = p.cr /\ y.xer = x /\ y.lr = p.lr
          /\ y.ctr = p.ctr /\ y.gqr = p.gqr /\ y.cia = p.cia
    BY <1>1, XerIs
  <2>. HIDE DEF y
  <2>. QED BY <1>1, <2>1
<1>. HIDE DEF y
<1>4. Recorded(y, i, value) = SetCr(y, c) /\ c \in SUBSET BitIndex
  BY <1>3, RecordedIs
<1>5. c = e
  BY <1>3, Zenon DEF RecordedCr, FieldSet, SummaryBit
<1>. HIDE DEF c
<1>6. t \in Machines(R) /\ t.gpr = y.gpr /\ t.cr = c /\ t.xer = y.xer /\ t.lr = y.lr
        /\ t.ctr = y.ctr /\ t.gqr = y.gqr /\ t.cia = y.cia
  BY <1>3, <1>4, CrIs
<1>. HIDE DEF t, e
<1>7. q \in Machines(R) /\ q.gpr = g /\ q.cr = e /\ q.xer = x /\ q.lr = s.lr /\ q.ctr = s.ctr
        /\ q.gqr = s.gqr /\ q.cia = s.cia
  BY <1>0, <1>2, <1>4, <1>5 DEF Machines
<1>8. q = t
  BY <1>3, <1>5, <1>6, <1>7, MachineEqual
<1>. QED BY <1>4, <1>8, Zenon DEF q, t, y, p, SetCr, SetXer

\* A helper's result is the guest's when its registers are in CpuState.
LEMMA EmitsQuotient ==
  ASSUME NEW R, NEW n, IsNative(n, R), NEW i, IsInsn(i, R), NEW a \in Words,
         NEW value \in Words, NEW x \in SUBSET BitIndex, i.destination \notin DOMAIN n.host
  PROVE  Stands([n EXCEPT !.state = Quotient(n.state, i, value, x)],
                Recorded(SetXer(Put(View(n, a), i, value), x), i, value), R, a)
<1>. DEFINE s == n.state
            d == i.destination
            v == View(n, a)
            p == Put(v, i, value)
            y == [p EXCEPT !.xer = x]
            c == RecordedCr(y, i, value)
            t == [y EXCEPT !.cr = c]
            q == Quotient(s, i, value, x)
            sp == Put(s, i, value)
            sy == [sp EXCEPT !.xer = x]
            sc == RecordedCr(sy, i, value)
            st == [sy EXCEPT !.cr = sc]
            m == [n EXCEPT !.state = q]
<1>1. d \in R /\ i.record \in BOOLEAN /\ s \in Machines(R)
  BY DEF IsInsn, IsNative
<1>2. v \in Machines(R) /\ (\A r \in R : v.gpr[r] = Guest(n, r)) /\ v.cr = s.cr /\ v.xer = s.xer
        /\ v.lr = s.lr /\ v.ctr = s.ctr /\ v.gqr = s.gqr /\ v.cia = a
  BY ViewFields
<1>3. q = Recorded(SetXer(sp, x), i, value)
  BY <1>1, QuotientIs
<1>. HIDE DEF s, v, d
<1>4. p \in Machines(R) /\ p.gpr = [v.gpr EXCEPT ![d] = value] /\ p.cr = v.cr /\ p.lr = v.lr
        /\ p.ctr = v.ctr /\ p.gqr = v.gqr /\ p.cia = v.cia
  BY <1>1, <1>2, PutIs DEF d
<1>5. sp \in Machines(R) /\ sp.gpr = [s.gpr EXCEPT ![d] = value] /\ sp.cr = s.cr /\ sp.lr = s.lr
        /\ sp.ctr = s.ctr /\ sp.gqr = s.gqr
  BY <1>1, PutIs DEF d
<1>. HIDE DEF p, sp
<1>6. y \in Machines(R) /\ y.gpr = p.gpr /\ y.cr = p.cr /\ y.xer = x /\ y.lr = p.lr
        /\ y.ctr = p.ctr /\ y.gqr = p.gqr /\ y.cia = p.cia
  BY <1>4, XerIs
<1>7. sy \in Machines(R) /\ sy.gpr = sp.gpr /\ sy.cr = sp.cr /\ sy.xer = x /\ sy.lr = sp.lr
        /\ sy.ctr = sp.ctr /\ sy.gqr = sp.gqr
  BY <1>5, XerIs
<1>8. SetXer(sp, x) = sy /\ SetXer(p, x) = y
  BY Zenon DEF SetXer
<1>. HIDE DEF y, sy
<1>9. Recorded(y, i, value) = SetCr(y, c) /\ c \in SUBSET BitIndex
        /\ Recorded(sy, i, value) = SetCr(sy, sc) /\ sc \in SUBSET BitIndex
  BY <1>1, <1>6, <1>7, RecordedIs
<1>10. c = sc
  BY <1>2, <1>4, <1>5, <1>6, <1>7, Zenon DEF RecordedCr
<1>. HIDE DEF c, sc
<1>11. t \in Machines(R) /\ t.gpr = y.gpr /\ t.cr = c /\ t.xer = y.xer /\ t.lr = y.lr
         /\ t.ctr = y.ctr /\ t.gqr = y.gqr /\ t.cia = y.cia
  BY <1>6, <1>9, CrIs
<1>12. st \in Machines(R) /\ st.gpr = sy.gpr /\ st.cr = sc /\ st.xer = sy.xer /\ st.lr = sy.lr
         /\ st.ctr = sy.ctr /\ st.gqr = sy.gqr
  BY <1>7, <1>9, CrIs
<1>13. q = st
  BY <1>3, <1>8, <1>9, Zenon DEF SetCr
<1>14. Recorded(SetXer(p, x), i, value) = t
  BY <1>8, <1>9, Zenon DEF SetCr
<1>. HIDE DEF t, st, q
<1>15. m = [state |-> q, host |-> n.host, dirty |-> n.dirty]
  BY DEF IsNative
<1>. HIDE DEF m
<1>16. m.state = q /\ m.host = n.host /\ m.dirty = n.dirty
  BY <1>15
<1>17. q \in Machines(R) /\ q.gpr = [s.gpr EXCEPT ![d] = value]
  BY <1>5, <1>7, <1>12, <1>13
<1>18. s.gpr \in [R -> Words] /\ v.gpr \in [R -> Words]
  BY <1>1, <1>2, MachineFields
<1>19. IsNative(m, R)
  <2>1. \A r \in DOMAIN n.host \ n.dirty : n.host[r] = q.gpr[r]
    BY <1>1, <1>17, <1>18 DEF IsNative, s, d
  <2>. QED BY <1>15, <1>16, <1>17, <2>1 DEF IsNative
<1>20. \A r \in R : t.gpr[r] = Guest(m, r)
  <2>1. t.gpr = [v.gpr EXCEPT ![d] = value]
    BY <1>4, <1>6, <1>11
  <2>2. \A r \in R : t.gpr[r] = IF r = d THEN value ELSE Guest(n, r)
    BY <1>2, <1>18, <2>1
  <2>3. \A r \in R : Guest(m, r) = IF r = d THEN value ELSE Guest(n, r)
    BY <1>16, <1>17, <1>18 DEF Guest, s, d
  <2>. QED BY <2>2, <2>3
<1>21. t.cr = q.cr /\ t.xer = q.xer /\ t.lr = q.lr /\ t.ctr = q.ctr /\ t.gqr = q.gqr /\ t.cia = a
  BY <1>2, <1>4, <1>5, <1>6, <1>7, <1>10, <1>11, <1>12, <1>13
<1>22. View(m, a) = t
  BY <1>11, <1>16, <1>19, <1>20, <1>21, ViewIs
<1>. QED BY <1>14, <1>19, <1>22, Zenon DEF Stands, m, p, v, q, s

LEMMA EmitsDivision ==
  ASSUME NEW R, NEW n, IsNative(n, R), NEW i, IsInsn(i, R), NEW a \in Words,
         NEW value \in Words, NEW o \in BOOLEAN, i.destination \notin DOMAIN n.host
  PROVE  /\ Stands([n EXCEPT !.state = Quotient(n.state, i, value, n.state.xer)],
                   Plain(View(n, a), i, value), R, a)
         /\ Stands([n EXCEPT !.state = Quotient(n.state, i, value, OverflowXer(n.state.xer, o))],
                   WithOverflow(View(n, a), i, value, o), R, a)
<1>. DEFINE v == View(n, a)
            p == Put(v, i, value)
            x == n.state.xer
            z == OverflowSet(x, o)
            y == [p EXCEPT !.xer = x]
<1>1. v \in Machines(R) /\ v.xer = x /\ i.destination \in R
  BY ViewFields DEF IsInsn
<1>2. x \in SUBSET BitIndex
  <2>. HIDE DEF x, v
  <2>. QED BY <1>1, MachineFields
<1>3. p \in Machines(R) /\ p.xer = x
  <2>. HIDE DEF x, v
  <2>. QED BY <1>1, PutKeeps
<1>4. y = p
  <2>. HIDE DEF p
  <2>1. y \in Machines(R) /\ y.gpr = p.gpr /\ y.cr = p.cr /\ y.xer = x /\ y.lr = p.lr
          /\ y.ctr = p.ctr /\ y.gqr = p.gqr /\ y.cia = p.cia
    <3>. HIDE DEF x
    <3>. QED BY <1>2, <1>3, XerIs
  <2>. HIDE DEF y
  <2>. QED BY <1>3, <2>1, MachineEqual
<1>5. z \in SUBSET BitIndex /\ OverflowXer(x, o) = z
  <2>. HIDE DEF x
  <2>. QED BY <1>2, XerSets DEF OverflowXer
<1>6. set_overflow(p, o) = SetXer(p, z)
  <2>. HIDE DEF p, x
  <2>. QED BY <1>3, SetXerIs
<1>7. Stands([n EXCEPT !.state = Quotient(n.state, i, value, x)],
             Recorded(SetXer(p, x), i, value), R, a)
  <2>. HIDE DEF x
  <2>. QED BY <1>2, EmitsQuotient
<1>8. Stands([n EXCEPT !.state = Quotient(n.state, i, value, z)],
             Recorded(SetXer(p, z), i, value), R, a)
  <2>. HIDE DEF z
  <2>. QED BY <1>5, EmitsQuotient
<1>9. Plain(v, i, value) = Recorded(SetXer(p, x), i, value)
  <2>. HIDE DEF x
  <2>1. SetXer(p, x) = p
    BY <1>4, Zenon DEF SetXer
  <2>. QED BY <2>1, Zenon DEF Plain
<1>10. WithOverflow(v, i, value, o) = Recorded(SetXer(p, z), i, value)
  BY <1>6, Zenon DEF WithOverflow
<1>. HIDE DEF z
<1>. QED BY <1>5, <1>7, <1>8, <1>9, <1>10, Zenon

\* The quotients of words, as the interpreter and as the helpers compute them.
LEMMA Quotients ==
  ASSUME NEW x \in Words, NEW y \in Words
  PROVE  /\ UnsignedQuotient(x, y) \in Words
         /\ SignedQuotient(x, y) \in Words /\ SignedResult(x, y) = SignedQuotient(x, y)
<1>1. x \in Int /\ y \in Nat /\ Signed(x) \in Int /\ Signed(y) \in Int /\ 0 \in Words
        /\ AllOnes \in Words /\ AllOnes # 0 /\ (Signed(y) = 0 <=> y = 0)
        /\ (Signed(x) < 0 <=> Negative(x)) /\ (Signed(y) < 0 <=> Negative(y))
  BY WordFacts, SignedWord, WordRange
<1>2. UnsignedQuotient(x, y) \in Words
  <2>1. y # 0 => x \div y \in Words
    BY <1>1, QuotientWord
  <2>. QED BY <1>1, <2>1 DEF UnsignedQuotient
<1>. DEFINE sx == Signed(x)
            sy == Signed(y)
            mag == Magnitude(sx) \div Magnitude(sy)
            signs == Negative(x) # Negative(y)
            z == IF signs THEN -mag ELSE mag
<1>3. SignedQuotient(x, y) = IF y = 0 THEN (IF Negative(x) THEN AllOnes ELSE 0)
                             ELSE IF x = Smallest /\ y = AllOnes THEN AllOnes
                             ELSE Unsigned(z)
  <2>1. ~(y = 0 /\ y = AllOnes)
    BY <1>1
  <2>. DEFINE u == Unsigned(z)
              w == IF Negative(x) THEN AllOnes ELSE 0
              e == x = Smallest /\ y = AllOnes
              e2 == y = AllOnes /\ x = Smallest
  <2>2. SignedQuotient(x, y) = CASE y = 0 -> w [] e2 -> AllOnes [] OTHER -> u
    BY Zenon DEF SignedQuotient
  <2>3. e <=> e2
    BY Zenon
  <2>4. ~(y = 0 /\ e2)
    BY <2>1, Zenon
  <2>. HIDE DEF u, w, e, e2
  <2>5. SignedQuotient(x, y) = IF y = 0 THEN w ELSE IF e THEN AllOnes ELSE u
    BY <2>2, <2>3, <2>4
  <2>. QED BY <2>5, Zenon DEF u, w, e
<1>4. SignedResult(x, y) = IF y = 0 THEN (IF Negative(x) THEN AllOnes ELSE 0)
                           ELSE IF x = Smallest /\ y = AllOnes THEN AllOnes
                           ELSE Unsigned(Truncated(sx, sy))
  BY Zenon DEF SignedResult
<1>5. Truncated(sx, sy) = z
  <2>1. (sx < 0) # (sy < 0) <=> signs
    <3>. HIDE DEF sx, sy
    <3>1. (sx < 0 <=> Negative(x)) /\ (sy < 0 <=> Negative(y))
      BY <1>1 DEF sx, sy
    <3>2. (Negative(x) \in BOOLEAN) /\ (Negative(y) \in BOOLEAN)
            /\ ((sx < 0) \in BOOLEAN) /\ ((sy < 0) \in BOOLEAN)
      BY DEF Negative
    <3>3. (sx < 0) = Negative(x)
      BY <3>1, <3>2, SameTruth
    <3>4. (sy < 0) = Negative(y)
      BY <3>1, <3>2, SameTruth
    <3>. QED BY <3>3, <3>4, Zenon
  <2>2. Truncated(sx, sy) = IF (sx < 0) # (sy < 0) THEN -mag ELSE mag
    <3>. HIDE DEF sx, sy
    <3>. QED BY Zenon DEF Truncated, Magnitude
  <2>. HIDE DEF mag, sx, sy
  <2>3. CASE signs
    <3>1. z = -mag
      BY <2>3, Zenon
    <3>2. (sx < 0) # (sy < 0)
      BY <2>1, <2>3, Zenon
    <3>. QED BY <2>2, <3>1, <3>2, Zenon
  <2>4. CASE ~signs
    <3>1. z = mag
      BY <2>4, Zenon
    <3>2. ~((sx < 0) # (sy < 0))
      BY <2>1, <2>4, Zenon
    <3>. QED BY <2>2, <3>1, <3>2, Zenon
  <2>. QED BY <2>3, <2>4
<1>6. y # 0 => Unsigned(z) \in Words
  <2>1. Magnitude(sx) \in Int /\ (y # 0 => Magnitude(sy) \in Nat /\ Magnitude(sy) > 0)
    BY <1>1 DEF Magnitude
  <2>. HIDE DEF sx, sy
  <2>2. y # 0 => mag \in Int
    BY <2>1, DivMod
  <2>. HIDE DEF mag
  <2>3. y # 0 => z \in Int
    BY <2>2
  <2>. HIDE DEF z
  <2>. QED BY <2>3, UnsignedOf
<1>. HIDE DEF z, sx, sy
<1>7. SignedResult(x, y) = SignedQuotient(x, y)
  BY <1>3, <1>4, <1>5
<1>8. SignedQuotient(x, y) \in Words
  BY <1>1, <1>3, <1>6, Zenon
<1>. QED BY <1>2, <1>7, <1>8

LEMMA DivisionAgrees ==
  ASSUME NEW R, NEW n, IsNative(n, R), NEW i, IsInsn(i, R), NEW a \in Words, NEW op \in Divisions,
         {i.base, i.source} \cap n.dirty = {}, i.destination \notin DOMAIN n.host
  PROVE  Stands(EmittedDivision(op, n, i), ExecuteDivision(op, View(n, a), i), R, a)
<1>. DEFINE v == View(n, a)
            x == A(v, i)
            y == B(v, i)
            s == n.state
            u == UnsignedQuotient(x, y)
            w == SignedQuotient(x, y)
            zero == y = 0
            over == DivisionOverflows(x, y)
<1>1. s.gpr[i.base] = x /\ s.gpr[i.source] = y
  <2>1. \A r \in R : v.gpr[r] = Guest(n, r)
    BY ViewFields
  <2>2. i.base \in R /\ i.source \in R /\ i.base \notin n.dirty /\ i.source \notin n.dirty
    BY DEF IsInsn
  <2>3. Guest(n, i.base) = s.gpr[i.base] /\ Guest(n, i.source) = s.gpr[i.source]
    BY <2>2 DEF Guest, IsNative
  <2>. QED BY <2>1, <2>2, <2>3 DEF A, B
<1>2. x \in Words /\ y \in Words
  BY OperandWords
<1>3. zero \in BOOLEAN /\ over \in BOOLEAN
  BY DEF DivisionOverflows
<1>. HIDE DEF v, x, y, s
<1>4. u \in Words /\ w \in Words /\ SignedResult(x, y) = w
  BY <1>2, Quotients
<1>5. /\ native_divwu(s, i) = Quotient(s, i, u, s.xer)
      /\ native_divwuo(s, i) = Quotient(s, i, u, OverflowXer(s.xer, zero))
      /\ native_divw(s, i) = Quotient(s, i, w, s.xer)
      /\ native_divwo(s, i) = Quotient(s, i, w, OverflowXer(s.xer, over))
  <2>1. native_divwu(s, i) = Quotient(s, i, u, s.xer)
    BY <1>1, Zenon DEF native_divwu, UnsignedQuotient
  <2>2. native_divwuo(s, i) = Quotient(s, i, u, OverflowXer(s.xer, zero))
    BY <1>1, Zenon DEF native_divwuo, UnsignedQuotient
  <2>3. native_divw(s, i) = Quotient(s, i, w, s.xer)
    BY <1>1, <1>4, Zenon DEF native_divw
  <2>4. native_divwo(s, i) = Quotient(s, i, w, OverflowXer(s.xer, over))
    BY <1>1, <1>4, Zenon DEF native_divwo, DivisionOverflows
  <2>. QED BY <2>1, <2>2, <2>3, <2>4
<1>6. /\ divwu(v, i) = Plain(v, i, u) /\ divwuo(v, i) = WithOverflow(v, i, u, zero)
      /\ divw(v, i) = Plain(v, i, w) /\ divwo(v, i) = WithOverflow(v, i, w, over)
  BY Zenon DEF divwu, divwuo, divw, divwo, x, y
<1>. HIDE DEF u, w, zero, over
<1>7. /\ Stands([n EXCEPT !.state = Quotient(s, i, u, s.xer)], Plain(v, i, u), R, a)
      /\ Stands([n EXCEPT !.state = Quotient(s, i, u, OverflowXer(s.xer, zero))],
                WithOverflow(v, i, u, zero), R, a)
  BY <1>3, <1>4, EmitsDivision DEF s, v
<1>8. /\ Stands([n EXCEPT !.state = Quotient(s, i, w, s.xer)], Plain(v, i, w), R, a)
      /\ Stands([n EXCEPT !.state = Quotient(s, i, w, OverflowXer(s.xer, over))],
                WithOverflow(v, i, w, over), R, a)
  BY <1>3, <1>4, EmitsDivision DEF s, v
<1>9. CASE op = "divwu"
  <2>1. EmittedDivision(op, n, i) = [n EXCEPT !.state = native_divwu(s, i)]
    BY <1>9, Zenon DEF EmittedDivision, s
  <2>2. ExecuteDivision(op, v, i) = divwu(v, i)
    BY <1>9, Zenon DEF ExecuteDivision
  <2>. QED BY <1>5, <1>6, <1>7, <2>1, <2>2, Zenon DEF v
<1>10. CASE op = "divwuo"
  <2>1. EmittedDivision(op, n, i) = [n EXCEPT !.state = native_divwuo(s, i)]
    BY <1>10, Zenon DEF EmittedDivision, s
  <2>2. ExecuteDivision(op, v, i) = divwuo(v, i)
    BY <1>10, Zenon DEF ExecuteDivision
  <2>. QED BY <1>5, <1>6, <1>7, <2>1, <2>2, Zenon DEF v
<1>11. CASE op = "divw"
  <2>1. EmittedDivision(op, n, i) = [n EXCEPT !.state = native_divw(s, i)]
    BY <1>11, Zenon DEF EmittedDivision, s
  <2>2. ExecuteDivision(op, v, i) = divw(v, i)
    BY <1>11, Zenon DEF ExecuteDivision
  <2>. QED BY <1>5, <1>6, <1>8, <2>1, <2>2, Zenon DEF v
<1>12. CASE op = "divwo"
  <2>1. EmittedDivision(op, n, i) = [n EXCEPT !.state = native_divwo(s, i)]
    BY <1>12, Zenon DEF EmittedDivision, s
  <2>2. ExecuteDivision(op, v, i) = divwo(v, i)
    BY <1>12, Zenon DEF ExecuteDivision
  <2>. QED BY <1>5, <1>6, <1>8, <2>1, <2>2, Zenon DEF v
<1>. QED BY <1>9, <1>10, <1>11, <1>12 DEF Divisions

----------------------------------------------------------------------------
(* The condition register.                                                  *)

\* A field shifted down, cut and shifted up is the field moved.
LEMMA FieldsMoved ==
  ASSUME NEW bits, NEW g \in ConditionFields, NEW f \in ConditionFields
  PROVE  /\ AtField(FieldValue(bits, g), f) = Moved(bits, g, f)
         /\ Moved(bits, g, f) \subseteq BitIndex
<1>. DEFINE up(h) == 4 * (WordBits \div 4 - 1 - h)
            L == {b + up(f) : b \in {b \in 0..3 : b + up(g) \in bits}}
            M == {PpcBit(4 * f + n) : n \in {k \in 0..3 : PpcBit(4 * g + k) \in bits}}
<1>1. AtField(FieldValue(bits, g), f) = L /\ Moved(bits, g, f) = M
  BY Zenon DEF AtField, FieldValue, Moved
<1>2. WordBits \in Nat /\ WordBits = 4 * ByteBits /\ WordBits \div 4 = ByteBits /\ ByteBits \in Nat
  BY WordSizes DEF ByteBits
<1>3. f \in 0..(ByteBits - 1) /\ g \in 0..(ByteBits - 1)
  BY <1>2 DEF ConditionFields
<1>4. \A b \in 0..3 : /\ 3 - b \in 0..3 /\ 3 - (3 - b) = b
                      /\ b + up(f) = PpcBit(4 * f + (3 - b)) /\ b + up(g) = PpcBit(4 * g + (3 - b))
                      /\ (3 - b) + up(f) = PpcBit(4 * f + b) /\ (3 - b) + up(g) = PpcBit(4 * g + b)
                      /\ PpcBit(4 * f + b) \in BitIndex
  BY <1>2, <1>3 DEF PpcBit, SignBit, BitIndex
<1>. HIDE DEF up
<1>5. L \subseteq M
  <2>. SUFFICES ASSUME NEW b \in 0..3, b + up(g) \in bits PROVE b + up(f) \in M
    OBVIOUS
  <2>. DEFINE k == 3 - b
  <2>1. k \in 0..3 /\ b + up(f) = PpcBit(4 * f + k) /\ PpcBit(4 * g + k) \in bits
    BY <1>4
  <2>. HIDE DEF k
  <2>. QED BY <2>1
<1>6. M \subseteq L
  <2>. SUFFICES ASSUME NEW k \in 0..3, PpcBit(4 * g + k) \in bits PROVE PpcBit(4 * f + k) \in L
    OBVIOUS
  <2>. DEFINE b == 3 - k
  <2>1. b \in 0..3 /\ PpcBit(4 * f + k) = b + up(f) /\ b + up(g) \in bits
    BY <1>4
  <2>. HIDE DEF b
  <2>. QED BY <2>1
<1>7. M \subseteq BitIndex
  BY <1>4
<1>. HIDE DEF L, M
<1>. QED BY <1>1, <1>5, <1>6, <1>7

LEMMA MoveFieldAgrees ==
  ASSUME NEW R, NEW n, IsNative(n, R), NEW i, IsInsn(i, R), NEW a \in Words
  PROVE  Stands(EmittedMcrf(n, i), mcrf(View(n, a), i), R, a)
<1>. DEFINE v == View(n, a)
            f == i.cr_field
            g == i.cr_field_source
            c == (v.cr \ FieldBits(f)) \cup Moved(v.cr, g, f)
<1>1. v \in Machines(R) /\ v.cr = n.state.cr /\ f \in ConditionFields /\ g \in ConditionFields
  BY ViewFields DEF IsInsn
<1>2. mcrf(v, i) = SetCr(v, c)
  BY MachineFields, <1>1 DEF mcrf, SetCr
<1>3. EmittedMcrf(n, i)
        = [n EXCEPT !.state.cr = (n.state.cr \ FieldBits(f)) \cup AtField(FieldValue(n.state.cr, g), f)]
  BY DEF EmittedMcrf, IsNative
<1>. HIDE DEF v, f, g
<1>4. v.cr \in SUBSET BitIndex
  BY <1>1, MachineFields
<1>5. AtField(FieldValue(v.cr, g), f) = Moved(v.cr, g, f) /\ Moved(v.cr, g, f) \subseteq BitIndex
  BY <1>1, FieldsMoved
<1>6. c \in SUBSET BitIndex
  BY <1>4, <1>5
<1>7. EmittedMcrf(n, i) = NewCr(n, c)
  BY <1>1, <1>3, <1>5, Zenon DEF NewCr
<1>. HIDE DEF c
<1>8. IsNative(NewCr(n, c), R) /\ View(NewCr(n, c), a) = SetCr(v, c)
  BY <1>6, NativeCr DEF v
<1>. QED BY <1>2, <1>7, <1>8, Zenon DEF Stands, v

LEMMA MoveXerAgrees ==
  ASSUME NEW R, NEW n, IsNative(n, R), NEW i, IsInsn(i, R), NEW a \in Words
  PROVE  Stands(EmittedMcrxr(n, i), mcrxr(View(n, a), i), R, a)
<1>. DEFINE v == View(n, a)
            f == i.cr_field
            c == (v.cr \ FieldBits(f)) \cup Moved(v.xer, 0, f)
            x == v.xer \ FieldBits(0)
            k == NewCr(n, c)
            w == View(k, a)
<1>1. v \in Machines(R) /\ v.cr = n.state.cr /\ v.xer = n.state.xer /\ f \in ConditionFields
        /\ 0 \in ConditionFields
  BY ViewFields, FieldsAreBits DEF IsInsn
<1>2. mcrxr(v, i) = SetXer(SetCr(v, c), x)
  BY MachineFields, <1>1 DEF mcrxr, SetCr, SetXer
<1>3. EmittedMcrxr(n, i)
        = [n EXCEPT !.state.cr = (n.state.cr \ FieldBits(f)) \cup AtField(FieldValue(n.state.xer, 0), f),
                    !.state.xer = n.state.xer \ FieldBits(0)]
  BY DEF EmittedMcrxr, IsNative, Machines
<1>. HIDE DEF v, f
<1>4. v.cr \in SUBSET BitIndex /\ v.xer \in SUBSET BitIndex
  BY <1>1, MachineFields
<1>5. AtField(FieldValue(v.xer, 0), f) = Moved(v.xer, 0, f) /\ Moved(v.xer, 0, f) \subseteq BitIndex
  BY <1>1, FieldsMoved
<1>6. c \in SUBSET BitIndex /\ x \in SUBSET BitIndex
  BY <1>4, <1>5
<1>7. EmittedMcrxr(n, i) = [n EXCEPT !.state.cr = c, !.state.xer = x]
  BY <1>1, <1>3, <1>5, Zenon
<1>. HIDE DEF c, x
<1>8. [n EXCEPT !.state.cr = c, !.state.xer = x] = NewXer(k, x)
  BY DEF NewXer, NewCr, IsNative, Machines
<1>9. IsNative(k, R) /\ w = SetCr(v, c)
  BY <1>6, NativeCr DEF v
<1>. HIDE DEF k
<1>10. IsNative(NewXer(k, x), R) /\ View(NewXer(k, x), a) = SetXer(w, x)
  BY <1>6, <1>9, NativeXer
<1>. QED BY <1>2, <1>7, <1>8, <1>9, <1>10, Zenon DEF Stands, v

\* The bit an operation on condition bits computes.
BitResult(op, a, b) == CASE op = "crand"  -> a /\ b
                         [] op = "crandc" -> a /\ ~b
                         [] op = "cror"   -> a \/ b
                         [] op = "crorc"  -> a \/ ~b
                         [] op = "crnor"  -> ~(a \/ b)
                         [] op = "crxor"  -> a # b
                         [] op = "crnand" -> ~(a /\ b)
                         [] op = "creqv"  -> a = b
EmittedBitResult(op, a, b) ==
  LET rhs == IF op \in {"crandc", "crorc"} THEN ~b ELSE b
      lhs == IF op \in {"crand", "crandc", "crnand"} THEN a /\ rhs
             ELSE IF op \in {"cror", "crorc", "crnor"} THEN a \/ rhs
             ELSE a # rhs
  IN  IF op \in {"crnand", "crnor", "creqv"} THEN ~lhs ELSE lhs

LEMMA BitResults ==
  ASSUME NEW op \in BitOps, NEW a \in BOOLEAN, NEW b \in BOOLEAN
  PROVE  /\ BitResult(op, a, b) \in BOOLEAN
         /\ EmittedBitResult(op, a, b) = BitResult(op, a, b)
<1>1. CASE op = "crand"
  <2>1. BitResult(op, a, b) = (a /\ b)
    BY <1>1, Zenon DEF BitResult
  <2>2. EmittedBitResult(op, a, b) = (a /\ b)
    BY <1>1, Zenon DEF EmittedBitResult
  <2>. DEFINE p == a /\ b
              q == a /\ b
  <2>3. (p \in BOOLEAN) /\ (q \in BOOLEAN) /\ (p <=> q)
    BY Zenon
  <2>. HIDE DEF p, q
  <2>4. p = q
    BY <2>3, SameTruth
  <2>. QED BY <2>1, <2>2, <2>3, <2>4, Zenon DEF p, q
<1>2. CASE op = "crandc"
  <2>1. BitResult(op, a, b) = (a /\ ~b)
    BY <1>2, Zenon DEF BitResult
  <2>2. EmittedBitResult(op, a, b) = (a /\ ~b)
    BY <1>2, Zenon DEF EmittedBitResult
  <2>. DEFINE p == a /\ ~b
              q == a /\ ~b
  <2>3. (p \in BOOLEAN) /\ (q \in BOOLEAN) /\ (p <=> q)
    BY Zenon
  <2>. HIDE DEF p, q
  <2>4. p = q
    BY <2>3, SameTruth
  <2>. QED BY <2>1, <2>2, <2>3, <2>4, Zenon DEF p, q
<1>3. CASE op = "cror"
  <2>1. BitResult(op, a, b) = (a \/ b)
    BY <1>3, Zenon DEF BitResult
  <2>2. EmittedBitResult(op, a, b) = (a \/ b)
    BY <1>3, Zenon DEF EmittedBitResult
  <2>. DEFINE p == a \/ b
              q == a \/ b
  <2>3. (p \in BOOLEAN) /\ (q \in BOOLEAN) /\ (p <=> q)
    BY Zenon
  <2>. HIDE DEF p, q
  <2>4. p = q
    BY <2>3, SameTruth
  <2>. QED BY <2>1, <2>2, <2>3, <2>4, Zenon DEF p, q
<1>4. CASE op = "crorc"
  <2>1. BitResult(op, a, b) = (a \/ ~b)
    BY <1>4, Zenon DEF BitResult
  <2>2. EmittedBitResult(op, a, b) = (a \/ ~b)
    BY <1>4, Zenon DEF EmittedBitResult
  <2>. DEFINE p == a \/ ~b
              q == a \/ ~b
  <2>3. (p \in BOOLEAN) /\ (q \in BOOLEAN) /\ (p <=> q)
    BY Zenon
  <2>. HIDE DEF p, q
  <2>4. p = q
    BY <2>3, SameTruth
  <2>. QED BY <2>1, <2>2, <2>3, <2>4, Zenon DEF p, q
<1>5. CASE op = "crnor"
  <2>1. BitResult(op, a, b) = (~(a \/ b))
    BY <1>5, Zenon DEF BitResult
  <2>2. EmittedBitResult(op, a, b) = (~(a \/ b))
    BY <1>5, Zenon DEF EmittedBitResult
  <2>. DEFINE p == ~(a \/ b)
              q == ~(a \/ b)
  <2>3. (p \in BOOLEAN) /\ (q \in BOOLEAN) /\ (p <=> q)
    BY Zenon
  <2>. HIDE DEF p, q
  <2>4. p = q
    BY <2>3, SameTruth
  <2>. QED BY <2>1, <2>2, <2>3, <2>4, Zenon DEF p, q
<1>6. CASE op = "crxor"
  <2>1. BitResult(op, a, b) = (a # b)
    BY <1>6, Zenon DEF BitResult
  <2>2. EmittedBitResult(op, a, b) = (a # b)
    BY <1>6, Zenon DEF EmittedBitResult
  <2>. DEFINE p == a # b
              q == a # b
  <2>3. (p \in BOOLEAN) /\ (q \in BOOLEAN) /\ (p <=> q)
    BY Zenon
  <2>. HIDE DEF p, q
  <2>4. p = q
    BY <2>3, SameTruth
  <2>. QED BY <2>1, <2>2, <2>3, <2>4, Zenon DEF p, q
<1>7. CASE op = "crnand"
  <2>1. BitResult(op, a, b) = (~(a /\ b))
    BY <1>7, Zenon DEF BitResult
  <2>2. EmittedBitResult(op, a, b) = (~(a /\ b))
    BY <1>7, Zenon DEF EmittedBitResult
  <2>. DEFINE p == ~(a /\ b)
              q == ~(a /\ b)
  <2>3. (p \in BOOLEAN) /\ (q \in BOOLEAN) /\ (p <=> q)
    BY Zenon
  <2>. HIDE DEF p, q
  <2>4. p = q
    BY <2>3, SameTruth
  <2>. QED BY <2>1, <2>2, <2>3, <2>4, Zenon DEF p, q
<1>8. CASE op = "creqv"
  <2>1. BitResult(op, a, b) = (a = b)
    BY <1>8, Zenon DEF BitResult
  <2>2. EmittedBitResult(op, a, b) = (~(a # b))
    BY <1>8, Zenon DEF EmittedBitResult
  <2>. DEFINE p == a = b
              q == ~(a # b)
  <2>3. (p \in BOOLEAN) /\ (q \in BOOLEAN) /\ (p <=> q)
    BY Zenon
  <2>. HIDE DEF p, q
  <2>4. p = q
    BY <2>3, SameTruth
  <2>. QED BY <2>1, <2>2, <2>3, <2>4, Zenon DEF p, q
<1>. QED BY <1>1, <1>2, <1>3, <1>4, <1>5, <1>6, <1>7, <1>8 DEF BitOps

LEMMA ConditionBitAgrees ==
  ASSUME NEW R, NEW n, IsNative(n, R), NEW i, IsInsn(i, R), NEW a \in Words, NEW op \in BitOps
  PROVE  Stands(EmittedConditionBit(op, n, i), condition_bit(op, View(n, a), i), R, a)
<1>. DEFINE v == View(n, a)
            p == PpcBit(i.cr_source_a_bit) \in v.cr
            q == PpcBit(i.cr_source_b_bit) \in v.cr
            bit == PpcBit(i.cr_destination_bit)
            r == BitResult(op, p, q)
            e == EmittedBitResult(op, p, q)
            c == IF r THEN v.cr \cup {bit} ELSE v.cr \ {bit}
            d == (v.cr \ {bit}) \cup (IF e THEN {bit} ELSE {})
<1>1. v \in Machines(R) /\ v.cr = n.state.cr /\ bit \in BitIndex
  BY ViewFields DEF IsInsn
<1>2. p \in BOOLEAN /\ q \in BOOLEAN
  OBVIOUS
<1>3. condition_bit(op, v, i) = SetCr(v, c)
  <2>1. condition_bit(op, v, i) = [v EXCEPT !.cr = IF r THEN @ \cup {bit} ELSE @ \ {bit}]
    BY Zenon DEF condition_bit, BitResult, read_cr_bit
  <2>2. [v EXCEPT !.cr = IF r THEN @ \cup {bit} ELSE @ \ {bit}] = [v EXCEPT !.cr = c]
    <3>. HIDE DEF r, bit, v
    <3>. QED BY <1>1, MachineFields
  <2>. QED BY <2>1, <2>2, Zenon DEF SetCr
<1>4. EmittedConditionBit(op, n, i) = NewCr(n, d)
  <2>. DEFINE z == n.state.cr
              zp == PpcBit(i.cr_source_a_bit) \in z
              zq == PpcBit(i.cr_source_b_bit) \in z
              ze == EmittedBitResult(op, zp, zq)
  <2>1. EmittedConditionBit(op, n, i) = [n EXCEPT !.state.cr = (@ \ {bit}) \cup (IF ze THEN {bit} ELSE {})]
    BY Zenon DEF EmittedConditionBit, EmittedBitResult
  <2>2. ze = e
    BY <1>1, Zenon
  <2>3. [n EXCEPT !.state.cr = (@ \ {bit}) \cup (IF ze THEN {bit} ELSE {})]
          = [n EXCEPT !.state.cr = (z \ {bit}) \cup (IF ze THEN {bit} ELSE {})]
    <3>. HIDE DEF ze, bit
    <3>. QED BY DEF IsNative
  <2>4. (z \ {bit}) \cup (IF ze THEN {bit} ELSE {}) = d
    <3>. HIDE DEF ze, bit, e, v
    <3>. QED BY <1>1, <2>2, Zenon
  <2>. HIDE DEF d, ze
  <2>. QED BY <2>1, <2>3, <2>4, Zenon DEF NewCr
<1>. HIDE DEF v, p, q, bit
<1>5. e = r /\ r \in BOOLEAN
  BY <1>2, BitResults
<1>6. v.cr \in SUBSET BitIndex
  BY <1>1, MachineFields
<1>. HIDE DEF e, r
<1>7. c = d /\ c \in SUBSET BitIndex
  BY <1>1, <1>5, <1>6
<1>. HIDE DEF c, d
<1>8. IsNative(NewCr(n, c), R) /\ View(NewCr(n, c), a) = SetCr(v, c)
  BY <1>7, NativeCr DEF v
<1>. QED BY <1>3, <1>4, <1>7, <1>8, Zenon DEF Stands, v

----------------------------------------------------------------------------
(* Special registers and the time base.                                     *)

SetLr(s, c) == [s EXCEPT !.lr = c]
SetCtr(s, c) == [s EXCEPT !.ctr = c]
SetGqr(s, c) == [s EXCEPT !.gqr = c]
SetCia(s, c) == [s EXCEPT !.cia = c]
NewLr(n, c) == [n EXCEPT !.state.lr = c]
NewCtr(n, c) == [n EXCEPT !.state.ctr = c]
NewGqr(n, c) == [n EXCEPT !.state.gqr = c]
NewCia(n, c) == [n EXCEPT !.state.cia = c]

LEMMA LrIs ==
  ASSUME NEW R, NEW s \in Machines(R), NEW c \in Words
  PROVE  /\ [s EXCEPT !.lr = c] \in Machines(R) /\ [s EXCEPT !.lr = c].lr = c
         /\ [s EXCEPT !.lr = c].gpr = s.gpr
         /\ [s EXCEPT !.lr = c].cr = s.cr
         /\ [s EXCEPT !.lr = c].xer = s.xer
         /\ [s EXCEPT !.lr = c].ctr = s.ctr
         /\ [s EXCEPT !.lr = c].gqr = s.gqr
         /\ [s EXCEPT !.lr = c].cia = s.cia
BY DEF Machines

LEMMA CtrIs ==
  ASSUME NEW R, NEW s \in Machines(R), NEW c \in Words
  PROVE  /\ [s EXCEPT !.ctr = c] \in Machines(R) /\ [s EXCEPT !.ctr = c].ctr = c
         /\ [s EXCEPT !.ctr = c].gpr = s.gpr
         /\ [s EXCEPT !.ctr = c].cr = s.cr
         /\ [s EXCEPT !.ctr = c].xer = s.xer
         /\ [s EXCEPT !.ctr = c].lr = s.lr
         /\ [s EXCEPT !.ctr = c].gqr = s.gqr
         /\ [s EXCEPT !.ctr = c].cia = s.cia
BY DEF Machines

LEMMA GqrIs ==
  ASSUME NEW R, NEW s \in Machines(R), NEW c \in Words
  PROVE  /\ [s EXCEPT !.gqr = c] \in Machines(R) /\ [s EXCEPT !.gqr = c].gqr = c
         /\ [s EXCEPT !.gqr = c].gpr = s.gpr
         /\ [s EXCEPT !.gqr = c].cr = s.cr
         /\ [s EXCEPT !.gqr = c].xer = s.xer
         /\ [s EXCEPT !.gqr = c].lr = s.lr
         /\ [s EXCEPT !.gqr = c].ctr = s.ctr
         /\ [s EXCEPT !.gqr = c].cia = s.cia
BY DEF Machines

LEMMA CiaIs ==
  ASSUME NEW R, NEW s \in Machines(R), NEW c \in Words
  PROVE  /\ [s EXCEPT !.cia = c] \in Machines(R) /\ [s EXCEPT !.cia = c].cia = c
         /\ [s EXCEPT !.cia = c].gpr = s.gpr
         /\ [s EXCEPT !.cia = c].cr = s.cr
         /\ [s EXCEPT !.cia = c].xer = s.xer
         /\ [s EXCEPT !.cia = c].lr = s.lr
         /\ [s EXCEPT !.cia = c].ctr = s.ctr
         /\ [s EXCEPT !.cia = c].gqr = s.gqr
BY DEF Machines

LEMMA NativeLr ==
  ASSUME NEW R, NEW n, IsNative(n, R), NEW c \in Words, NEW a \in Words
  PROVE  /\ IsNative(NewLr(n, c), R) /\ NewLr(n, c).host = n.host
         /\ View(NewLr(n, c), a) = SetLr(View(n, a), c)
<1>. DEFINE s == [n.state EXCEPT !.lr = c]
            m == [n EXCEPT !.state = s]
            v == View(n, a)
            t == [v EXCEPT !.lr = c]
<1>1. n.state \in Machines(R)
  BY DEF IsNative
<1>2. s \in Machines(R) /\ s.gpr = n.state.gpr /\ s.lr = c
        /\ s.cr = n.state.cr /\ s.xer = n.state.xer /\ s.ctr = n.state.ctr /\ s.gqr = n.state.gqr
  BY <1>1, LrIs
<1>3. NewLr(n, c) = m
  BY DEF IsNative, NewLr
<1>4. v \in Machines(R) /\ (\A r \in R : v.gpr[r] = Guest(n, r)) /\ v.cia = a
        /\ v.cr = n.state.cr /\ v.xer = n.state.xer /\ v.ctr = n.state.ctr /\ v.gqr = n.state.gqr
  BY ViewFields
<1>. HIDE DEF s, v
<1>5. t \in Machines(R) /\ t.gpr = v.gpr /\ t.lr = c /\ t.cia = v.cia
        /\ t.cr = v.cr /\ t.xer = v.xer /\ t.ctr = v.ctr /\ t.gqr = v.gqr
  BY <1>4, LrIs
<1>6. IsNative(m, R) /\ m.state = s /\ m.host = n.host /\ \A r \in R : Guest(m, r) = Guest(n, r)
  BY <1>2, NativeState
<1>. HIDE DEF m, t
<1>7. \A r \in R : t.gpr[r] = Guest(m, r)
  BY <1>4, <1>5, <1>6
<1>8. View(m, a) = t
  BY <1>2, <1>4, <1>5, <1>6, <1>7, ViewIs
<1>. QED BY <1>3, <1>6, <1>8, Zenon DEF t, v, SetLr

LEMMA NativeCtr ==
  ASSUME NEW R, NEW n, IsNative(n, R), NEW c \in Words, NEW a \in Words
  PROVE  /\ IsNative(NewCtr(n, c), R) /\ NewCtr(n, c).host = n.host
         /\ View(NewCtr(n, c), a) = SetCtr(View(n, a), c)
<1>. DEFINE s == [n.state EXCEPT !.ctr = c]
            m == [n EXCEPT !.state = s]
            v == View(n, a)
            t == [v EXCEPT !.ctr = c]
<1>1. n.state \in Machines(R)
  BY DEF IsNative
<1>2. s \in Machines(R) /\ s.gpr = n.state.gpr /\ s.ctr = c
        /\ s.cr = n.state.cr /\ s.xer = n.state.xer /\ s.lr = n.state.lr /\ s.gqr = n.state.gqr
  BY <1>1, CtrIs
<1>3. NewCtr(n, c) = m
  BY DEF IsNative, NewCtr
<1>4. v \in Machines(R) /\ (\A r \in R : v.gpr[r] = Guest(n, r)) /\ v.cia = a
        /\ v.cr = n.state.cr /\ v.xer = n.state.xer /\ v.lr = n.state.lr /\ v.gqr = n.state.gqr
  BY ViewFields
<1>. HIDE DEF s, v
<1>5. t \in Machines(R) /\ t.gpr = v.gpr /\ t.ctr = c /\ t.cia = v.cia
        /\ t.cr = v.cr /\ t.xer = v.xer /\ t.lr = v.lr /\ t.gqr = v.gqr
  BY <1>4, CtrIs
<1>6. IsNative(m, R) /\ m.state = s /\ m.host = n.host /\ \A r \in R : Guest(m, r) = Guest(n, r)
  BY <1>2, NativeState
<1>. HIDE DEF m, t
<1>7. \A r \in R : t.gpr[r] = Guest(m, r)
  BY <1>4, <1>5, <1>6
<1>8. View(m, a) = t
  BY <1>2, <1>4, <1>5, <1>6, <1>7, ViewIs
<1>. QED BY <1>3, <1>6, <1>8, Zenon DEF t, v, SetCtr

LEMMA NativeGqr ==
  ASSUME NEW R, NEW n, IsNative(n, R), NEW c \in Words, NEW a \in Words
  PROVE  /\ IsNative(NewGqr(n, c), R) /\ NewGqr(n, c).host = n.host
         /\ View(NewGqr(n, c), a) = SetGqr(View(n, a), c)
<1>. DEFINE s == [n.state EXCEPT !.gqr = c]
            m == [n EXCEPT !.state = s]
            v == View(n, a)
            t == [v EXCEPT !.gqr = c]
<1>1. n.state \in Machines(R)
  BY DEF IsNative
<1>2. s \in Machines(R) /\ s.gpr = n.state.gpr /\ s.gqr = c
        /\ s.cr = n.state.cr /\ s.xer = n.state.xer /\ s.lr = n.state.lr /\ s.ctr = n.state.ctr
  BY <1>1, GqrIs
<1>3. NewGqr(n, c) = m
  BY DEF IsNative, NewGqr
<1>4. v \in Machines(R) /\ (\A r \in R : v.gpr[r] = Guest(n, r)) /\ v.cia = a
        /\ v.cr = n.state.cr /\ v.xer = n.state.xer /\ v.lr = n.state.lr /\ v.ctr = n.state.ctr
  BY ViewFields
<1>. HIDE DEF s, v
<1>5. t \in Machines(R) /\ t.gpr = v.gpr /\ t.gqr = c /\ t.cia = v.cia
        /\ t.cr = v.cr /\ t.xer = v.xer /\ t.lr = v.lr /\ t.ctr = v.ctr
  BY <1>4, GqrIs
<1>6. IsNative(m, R) /\ m.state = s /\ m.host = n.host /\ \A r \in R : Guest(m, r) = Guest(n, r)
  BY <1>2, NativeState
<1>. HIDE DEF m, t
<1>7. \A r \in R : t.gpr[r] = Guest(m, r)
  BY <1>4, <1>5, <1>6
<1>8. View(m, a) = t
  BY <1>2, <1>4, <1>5, <1>6, <1>7, ViewIs
<1>. QED BY <1>3, <1>6, <1>8, Zenon DEF t, v, SetGqr

\* The address CpuState holds is not part of the machine within a block.
LEMMA NativeCia ==
  ASSUME NEW R, NEW n, IsNative(n, R), NEW c \in Words, NEW a \in Words
  PROVE  /\ IsNative(NewCia(n, c), R) /\ NewCia(n, c).state.cia = c
         /\ View(NewCia(n, c), a) = View(n, a)
<1>. DEFINE s == [n.state EXCEPT !.cia = c]
            m == [n EXCEPT !.state = s]
            v == View(n, a)
<1>1. n.state \in Machines(R)
  BY DEF IsNative
<1>2. s \in Machines(R) /\ s.gpr = n.state.gpr /\ s.cia = c /\ s.cr = n.state.cr
        /\ s.xer = n.state.xer /\ s.lr = n.state.lr /\ s.ctr = n.state.ctr /\ s.gqr = n.state.gqr
  BY <1>1, CiaIs
<1>3. NewCia(n, c) = m
  BY DEF IsNative, NewCia
<1>4. v \in Machines(R) /\ (\A r \in R : v.gpr[r] = Guest(n, r)) /\ v.cr = n.state.cr
        /\ v.xer = n.state.xer /\ v.lr = n.state.lr /\ v.ctr = n.state.ctr /\ v.gqr = n.state.gqr
        /\ v.cia = a
  BY ViewFields
<1>. HIDE DEF s, v
<1>6. IsNative(m, R) /\ m.state = s /\ m.host = n.host /\ \A r \in R : Guest(m, r) = Guest(n, r)
  BY <1>2, NativeState
<1>. HIDE DEF m
<1>7. \A r \in R : v.gpr[r] = Guest(m, r)
  BY <1>4, <1>6
<1>8. View(m, a) = v
  BY <1>2, <1>4, <1>6, <1>7, ViewIs
<1>9. m.state.cia = c
  BY <1>2, <1>6
<1>. QED BY <1>3, <1>6, <1>8, <1>9, Zenon DEF v

LEMMA FromCrAgrees ==
  ASSUME NEW R, NEW n, IsNative(n, R), NEW i, IsInsn(i, R), NEW a \in Words
  PROVE  Stands(EmittedMfcr(n, i), mfcr(View(n, a), i), R, a)
<1>. DEFINE v == View(n, a)
            value == ToWord[v.cr]
<1>1. v \in Machines(R) /\ v.cr = n.state.cr /\ v.xer = n.state.xer /\ v.lr = n.state.lr
        /\ v.ctr = n.state.ctr /\ v.gqr = n.state.gqr
  BY ViewFields
<1>2. EmittedMfcr(n, i) = write_guest_gpr(n, i.destination, value)
  BY <1>1, Zenon DEF EmittedMfcr
<1>3. mfcr(v, i) = Put(v, i, value)
  BY Zenon DEF mfcr
<1>. HIDE DEF v
<1>4. value \in Words
  <2>1. v.cr \in SUBSET BitIndex
    BY <1>1, MachineFields
  <2>. QED BY <2>1, WordOfBits
<1>. HIDE DEF value
<1>5. Stands(write_guest_gpr(n, i.destination, value), Put(v, i, value), R, a)
  BY <1>4, EmitsWrite DEF v
<1>. QED BY <1>2, <1>3, <1>5, Zenon DEF v

LEMMA FromXerAgrees ==
  ASSUME NEW R, NEW n, IsNative(n, R), NEW i, IsInsn(i, R), NEW a \in Words
  PROVE  Stands(EmittedSpecialMove("mfxer", n, i), mfxer(View(n, a), i), R, a)
<1>. DEFINE v == View(n, a)
            value == ToWord[v.xer]
<1>1. v \in Machines(R) /\ v.cr = n.state.cr /\ v.xer = n.state.xer /\ v.lr = n.state.lr
        /\ v.ctr = n.state.ctr /\ v.gqr = n.state.gqr
  BY ViewFields
<1>2. EmittedSpecialMove("mfxer", n, i) = write_guest_gpr(n, i.destination, value)
  BY <1>1, Zenon DEF EmittedSpecialMove
<1>3. mfxer(v, i) = Put(v, i, value)
  BY Zenon DEF mfxer
<1>. HIDE DEF v
<1>4. value \in Words
  <2>1. v.xer \in SUBSET BitIndex
    BY <1>1, MachineFields
  <2>. QED BY <2>1, WordOfBits
<1>. HIDE DEF value
<1>5. Stands(write_guest_gpr(n, i.destination, value), Put(v, i, value), R, a)
  BY <1>4, EmitsWrite DEF v
<1>. QED BY <1>2, <1>3, <1>5, Zenon DEF v

LEMMA FromLrAgrees ==
  ASSUME NEW R, NEW n, IsNative(n, R), NEW i, IsInsn(i, R), NEW a \in Words
  PROVE  Stands(EmittedSpecialMove("mflr", n, i), mflr(View(n, a), i), R, a)
<1>. DEFINE v == View(n, a)
            value == v.lr
<1>1. v \in Machines(R) /\ v.cr = n.state.cr /\ v.xer = n.state.xer /\ v.lr = n.state.lr
        /\ v.ctr = n.state.ctr /\ v.gqr = n.state.gqr
  BY ViewFields
<1>2. EmittedSpecialMove("mflr", n, i) = write_guest_gpr(n, i.destination, value)
  BY <1>1, Zenon DEF EmittedSpecialMove
<1>3. mflr(v, i) = Put(v, i, value)
  BY Zenon DEF mflr
<1>. HIDE DEF v
<1>4. value \in Words
  BY <1>1, MachineFields
<1>. HIDE DEF value
<1>5. Stands(write_guest_gpr(n, i.destination, value), Put(v, i, value), R, a)
  BY <1>4, EmitsWrite DEF v
<1>. QED BY <1>2, <1>3, <1>5, Zenon DEF v

LEMMA FromCtrAgrees ==
  ASSUME NEW R, NEW n, IsNative(n, R), NEW i, IsInsn(i, R), NEW a \in Words
  PROVE  Stands(EmittedSpecialMove("mfctr", n, i), mfctr(View(n, a), i), R, a)
<1>. DEFINE v == View(n, a)
            value == v.ctr
<1>1. v \in Machines(R) /\ v.cr = n.state.cr /\ v.xer = n.state.xer /\ v.lr = n.state.lr
        /\ v.ctr = n.state.ctr /\ v.gqr = n.state.gqr
  BY ViewFields
<1>2. EmittedSpecialMove("mfctr", n, i) = write_guest_gpr(n, i.destination, value)
  BY <1>1, Zenon DEF EmittedSpecialMove
<1>3. mfctr(v, i) = Put(v, i, value)
  BY Zenon DEF mfctr
<1>. HIDE DEF v
<1>4. value \in Words
  BY <1>1, MachineFields
<1>. HIDE DEF value
<1>5. Stands(write_guest_gpr(n, i.destination, value), Put(v, i, value), R, a)
  BY <1>4, EmitsWrite DEF v
<1>. QED BY <1>2, <1>3, <1>5, Zenon DEF v

LEMMA FromGqrAgrees ==
  ASSUME NEW R, NEW n, IsNative(n, R), NEW i, IsInsn(i, R), NEW a \in Words
  PROVE  Stands(EmittedGqrMove("mfgqr", n, i), mfgqr(View(n, a), i), R, a)
<1>. DEFINE v == View(n, a)
            value == v.gqr
<1>1. v \in Machines(R) /\ v.cr = n.state.cr /\ v.xer = n.state.xer /\ v.lr = n.state.lr
        /\ v.ctr = n.state.ctr /\ v.gqr = n.state.gqr
  BY ViewFields
<1>2. EmittedGqrMove("mfgqr", n, i) = write_guest_gpr(n, i.destination, value)
  BY <1>1, Zenon DEF EmittedGqrMove
<1>3. mfgqr(v, i) = Put(v, i, value)
  BY Zenon DEF mfgqr
<1>. HIDE DEF v
<1>4. value \in Words
  BY <1>1, MachineFields
<1>. HIDE DEF value
<1>5. Stands(write_guest_gpr(n, i.destination, value), Put(v, i, value), R, a)
  BY <1>4, EmitsWrite DEF v
<1>. QED BY <1>2, <1>3, <1>5, Zenon DEF v

\* The upper half of a time of the model is zero or one.
LEMMA UpperTicks ==
  ASSUME NEW ticks \in Ticks
  PROVE  ticks \in Int /\ ticks \div Modulus \in Words
<1>. DEFINE m == Modulus
<1>1. m \in Nat /\ m > 2 /\ 0 \in Words /\ 1 \in Words
  BY WordSizes, WordRange
<1>2. 0 = m * 0 + 0 /\ m - 1 = m * 0 + (m - 1) /\ m + 1 = m * 1 + 1
        /\ 0 \in 0..(m - 1) /\ m - 1 \in 0..(m - 1) /\ 1 \in 0..(m - 1) /\ m > 0
  <2>. HIDE DEF m
  <2>. QED BY <1>1
<1>3. CASE ticks = 0
  <2>. HIDE DEF m
  <2>1. 0 \div m = 0
    BY <1>1, <1>2, DivModUnique
  <2>. QED BY <1>1, <1>3, <2>1 DEF m
<1>4. CASE ticks = m - 1
  <2>. DEFINE u == m - 1
  <2>0. u \in Int /\ u = m * 0 + u /\ u \in 0..(m - 1)
    <3>. HIDE DEF m
    <3>. QED BY <1>1, <1>2
  <2>. HIDE DEF m, u
  <2>1. u \div m = 0
    BY <1>1, <1>2, <2>0, DivModUnique
  <2>. QED BY <1>1, <1>4, <2>0, <2>1 DEF m, u
<1>5. CASE ticks = m + 1
  <2>. DEFINE u == m + 1
  <2>0. u \in Int /\ u = m * 1 + 1
    <3>. HIDE DEF m
    <3>. QED BY <1>1, <1>2
  <2>. HIDE DEF m, u
  <2>1. u \div m = 1
    BY <1>1, <1>2, <2>0, DivModUnique
  <2>. QED BY <1>1, <1>5, <2>0, <2>1 DEF m, u
<1>. QED BY <1>3, <1>4, <1>5 DEF Ticks

LEMMA TimeBaseAgrees ==
  ASSUME NEW R, NEW n, IsNative(n, R), NEW i, IsInsn(i, R), NEW a \in Words, NEW ticks \in Ticks
  PROVE  Stands(EmittedTimeBase("mftb", n, i, ticks), mftb(View(n, a), i, ticks, FALSE), R, a)
<1>. DEFINE v == View(n, a)
            value == Unsigned(ticks)
<1>1. v \in Machines(R) /\ v.cr = n.state.cr /\ v.xer = n.state.xer /\ v.lr = n.state.lr
        /\ v.ctr = n.state.ctr /\ v.gqr = n.state.gqr
  BY ViewFields
<1>2. EmittedTimeBase("mftb", n, i, ticks) = write_guest_gpr(n, i.destination, value)
  BY <1>1, Zenon DEF EmittedTimeBase
<1>3. mftb(v, i, ticks, FALSE) = Put(v, i, value)
  BY Zenon DEF mftb
<1>. HIDE DEF v
<1>4. value \in Words
  BY UpperTicks, UnsignedOf
<1>. HIDE DEF value
<1>5. Stands(write_guest_gpr(n, i.destination, value), Put(v, i, value), R, a)
  BY <1>4, EmitsWrite DEF v
<1>. QED BY <1>2, <1>3, <1>5, Zenon DEF v

LEMMA TimeBaseUpperAgrees ==
  ASSUME NEW R, NEW n, IsNative(n, R), NEW i, IsInsn(i, R), NEW a \in Words, NEW ticks \in Ticks
  PROVE  Stands(EmittedTimeBase("mftbu", n, i, ticks), mftb(View(n, a), i, ticks, TRUE), R, a)
<1>. DEFINE v == View(n, a)
            value == ticks \div Modulus
<1>1. v \in Machines(R) /\ v.cr = n.state.cr /\ v.xer = n.state.xer /\ v.lr = n.state.lr
        /\ v.ctr = n.state.ctr /\ v.gqr = n.state.gqr
  BY ViewFields
<1>2. EmittedTimeBase("mftbu", n, i, ticks) = write_guest_gpr(n, i.destination, value)
  BY <1>1, Zenon DEF EmittedTimeBase
<1>3. mftb(v, i, ticks, TRUE) = Put(v, i, value)
  BY Zenon DEF mftb
<1>. HIDE DEF v
<1>4. value \in Words
  BY UpperTicks
<1>. HIDE DEF value
<1>5. Stands(write_guest_gpr(n, i.destination, value), Put(v, i, value), R, a)
  BY <1>4, EmitsWrite DEF v
<1>. QED BY <1>2, <1>3, <1>5, Zenon DEF v

LEMMA ToLrAgrees ==
  ASSUME NEW R, NEW n, IsNative(n, R), NEW i, IsInsn(i, R), NEW a \in Words
  PROVE  Stands(EmittedSpecialMove("mtlr", n, i), mtlr(View(n, a), i), R, a)
<1>. DEFINE v == View(n, a)
            F == {i.destination}
            k == read_guest_gpr(n, F)
            d == v.gpr[i.destination]
            value == d
<1>1. IsNative(k, R) /\ View(k, a) = v /\ k.host[i.destination] = d
  <2>1. F \in SUBSET R /\ i.destination \in F
    BY DEF IsInsn
  <2>. HIDE DEF F
  <2>. QED BY <2>1, Fetched
<1>2. d \in Words
  BY OperandWords
<1>3. EmittedSpecialMove("mtlr", n, i) = NewLr(k, value)
  <2>1. EmittedSpecialMove("mtlr", n, i) = [k EXCEPT !.state.lr = k.host[i.destination]]
    BY Zenon DEF EmittedSpecialMove
  <2>. HIDE DEF k, d
  <2>. QED BY <1>1, <2>1, Zenon DEF NewLr
<1>4. mtlr(v, i) = SetLr(v, value)
  BY Zenon DEF mtlr, SetLr
<1>. HIDE DEF v, k, d
<1>5. value \in Words
  BY <1>2
<1>. HIDE DEF value
<1>6. IsNative(NewLr(k, value), R) /\ View(NewLr(k, value), a) = SetLr(View(k, a), value)
  BY <1>1, <1>5, NativeLr
<1>. QED BY <1>1, <1>3, <1>4, <1>6, Zenon DEF Stands, v

LEMMA ToCtrAgrees ==
  ASSUME NEW R, NEW n, IsNative(n, R), NEW i, IsInsn(i, R), NEW a \in Words
  PROVE  Stands(EmittedSpecialMove("mtctr", n, i), mtctr(View(n, a), i), R, a)
<1>. DEFINE v == View(n, a)
            F == {i.destination}
            k == read_guest_gpr(n, F)
            d == v.gpr[i.destination]
            value == d
<1>1. IsNative(k, R) /\ View(k, a) = v /\ k.host[i.destination] = d
  <2>1. F \in SUBSET R /\ i.destination \in F
    BY DEF IsInsn
  <2>. HIDE DEF F
  <2>. QED BY <2>1, Fetched
<1>2. d \in Words
  BY OperandWords
<1>3. EmittedSpecialMove("mtctr", n, i) = NewCtr(k, value)
  <2>1. EmittedSpecialMove("mtctr", n, i) = [k EXCEPT !.state.ctr = k.host[i.destination]]
    BY Zenon DEF EmittedSpecialMove
  <2>. HIDE DEF k, d
  <2>. QED BY <1>1, <2>1, Zenon DEF NewCtr
<1>4. mtctr(v, i) = SetCtr(v, value)
  BY Zenon DEF mtctr, SetCtr
<1>. HIDE DEF v, k, d
<1>5. value \in Words
  BY <1>2
<1>. HIDE DEF value
<1>6. IsNative(NewCtr(k, value), R) /\ View(NewCtr(k, value), a) = SetCtr(View(k, a), value)
  BY <1>1, <1>5, NativeCtr
<1>. QED BY <1>1, <1>3, <1>4, <1>6, Zenon DEF Stands, v

LEMMA ToGqrAgrees ==
  ASSUME NEW R, NEW n, IsNative(n, R), NEW i, IsInsn(i, R), NEW a \in Words
  PROVE  Stands(EmittedGqrMove("mtgqr", n, i), mtgqr(View(n, a), i), R, a)
<1>. DEFINE v == View(n, a)
            F == {i.destination}
            k == read_guest_gpr(n, F)
            d == v.gpr[i.destination]
            value == d
<1>1. IsNative(k, R) /\ View(k, a) = v /\ k.host[i.destination] = d
  <2>1. F \in SUBSET R /\ i.destination \in F
    BY DEF IsInsn
  <2>. HIDE DEF F
  <2>. QED BY <2>1, Fetched
<1>2. d \in Words
  BY OperandWords
<1>3. EmittedGqrMove("mtgqr", n, i) = NewGqr(k, value)
  <2>1. EmittedGqrMove("mtgqr", n, i) = [k EXCEPT !.state.gqr = k.host[i.destination]]
    BY Zenon DEF EmittedGqrMove
  <2>. HIDE DEF k, d
  <2>. QED BY <1>1, <2>1, Zenon DEF NewGqr
<1>4. mtgqr(v, i) = SetGqr(v, value)
  BY Zenon DEF mtgqr, SetGqr
<1>. HIDE DEF v, k, d
<1>5. value \in Words
  BY <1>2
<1>. HIDE DEF value
<1>6. IsNative(NewGqr(k, value), R) /\ View(NewGqr(k, value), a) = SetGqr(View(k, a), value)
  BY <1>1, <1>5, NativeGqr
<1>. QED BY <1>1, <1>3, <1>4, <1>6, Zenon DEF Stands, v

LEMMA ToXerAgrees ==
  ASSUME NEW R, NEW n, IsNative(n, R), NEW i, IsInsn(i, R), NEW a \in Words
  PROVE  Stands(EmittedSpecialMove("mtxer", n, i), mtxer(View(n, a), i), R, a)
<1>. DEFINE v == View(n, a)
            F == {i.destination}
            k == read_guest_gpr(n, F)
            d == v.gpr[i.destination]
            value == Bits[d]
<1>1. IsNative(k, R) /\ View(k, a) = v /\ k.host[i.destination] = d
  <2>1. F \in SUBSET R /\ i.destination \in F
    BY DEF IsInsn
  <2>. HIDE DEF F
  <2>. QED BY <2>1, Fetched
<1>2. d \in Words
  BY OperandWords
<1>3. EmittedSpecialMove("mtxer", n, i) = NewXer(k, value)
  <2>1. EmittedSpecialMove("mtxer", n, i) = [k EXCEPT !.state.xer = Bits[k.host[i.destination]]]
    BY Zenon DEF EmittedSpecialMove
  <2>. HIDE DEF k, d
  <2>. QED BY <1>1, <2>1, Zenon DEF NewXer
<1>4. mtxer(v, i) = SetXer(v, value)
  BY Zenon DEF mtxer, SetXer
<1>. HIDE DEF v, k, d
<1>5. value \in SUBSET BitIndex
  BY <1>2, BitsAre
<1>. HIDE DEF value
<1>6. IsNative(NewXer(k, value), R) /\ View(NewXer(k, value), a) = SetXer(View(k, a), value)
  BY <1>1, <1>5, NativeXer
<1>. QED BY <1>1, <1>3, <1>4, <1>6, Zenon DEF Stands, v

LEMMA ToCrFieldsAgrees ==
  ASSUME NEW R, NEW n, IsNative(n, R), NEW i, IsInsn(i, R), NEW a \in Words
  PROVE  Stands(EmittedMtcrf(n, i), mtcrf(View(n, a), i), R, a)
<1>. DEFINE v == View(n, a)
            F == {i.destination}
            k == read_guest_gpr(n, F)
            d == v.gpr[i.destination]
            mask == UNION {FieldBits(f) : f \in i.cr_fields}
            c == (v.cr \ mask) \cup (Bits[d] \cap mask)
            e == Bits[And(d, ToWord[mask])]
<1>1. IsNative(k, R) /\ View(k, a) = v /\ k.host[i.destination] = d
  <2>1. F \in SUBSET R /\ i.destination \in F
    BY DEF IsInsn
  <2>. HIDE DEF F
  <2>. QED BY <2>1, Fetched
<1>2. d \in Words /\ v \in Machines(R) /\ v.cr = n.state.cr
  BY OperandWords, ViewFields
<1>3. mask \in SUBSET BitIndex
  <2>1. \A f \in i.cr_fields : FieldBits(f) \subseteq BitIndex
    BY FieldsAreBits DEF IsInsn
  <2>. QED BY <2>1
<1>4. mtcrf(v, i) = SetCr(v, c)
  <2>1. mtcrf(v, i) = [v EXCEPT !.cr = (@ \ mask) \cup (Bits[d] \cap mask)]
    BY Zenon DEF mtcrf
  <2>. HIDE DEF mask, v, d
  <2>2. [v EXCEPT !.cr = (@ \ mask) \cup (Bits[d] \cap mask)] = [v EXCEPT !.cr = c]
    BY <1>2 DEF Machines
  <2>. QED BY <2>1, <2>2, Zenon DEF SetCr
<1>5. EmittedMtcrf(n, i)
        = IF mask = {} THEN n
          ELSE [k EXCEPT !.state.cr = (@ \ mask) \cup Bits[And(k.host[i.destination], ToWord[mask])]]
  BY Zenon DEF EmittedMtcrf
<1>6. k.state.cr = v.cr
  BY <1>1, ViewFields
<1>. HIDE DEF v, k, d, mask
<1>7. v.cr \in SUBSET BitIndex
  BY <1>2, MachineFields
<1>8. Bits[d] \subseteq BitIndex /\ e = Bits[d] \cap mask
  <2>. DEFINE w == ToWord[mask]
  <2>1. w \in Words /\ Bits[w] = mask
    BY <1>3, WordOfBits
  <2>. HIDE DEF w
  <2>2. Bits[And(d, w)] = Bits[d] \cap Bits[w] /\ Bits[d] \subseteq BitIndex
    BY <1>2, <2>1, BitwiseWords, BitsAre
  <2>. QED BY <2>1, <2>2 DEF w
<1>9. c \in SUBSET BitIndex
  BY <1>7, <1>8
<1>10. CASE mask = {}
  <2>1. EmittedMtcrf(n, i) = n
    BY <1>5, <1>10, Zenon
  <2>2. c = v.cr
    BY <1>10
  <2>. DEFINE t == [v EXCEPT !.cr = c]
  <2>. HIDE DEF c
  <2>3. t \in Machines(R) /\ t.gpr = v.gpr /\ t.cr = c /\ t.xer = v.xer /\ t.lr = v.lr
          /\ t.ctr = v.ctr /\ t.gqr = v.gqr /\ t.cia = v.cia
    BY <1>2, <1>9, CrIs
  <2>. HIDE DEF t
  <2>4. t = v
    BY <1>2, <2>2, <2>3, MachineEqual
  <2>. QED BY <1>4, <2>1, <2>4, Zenon DEF Stands, SetCr, t, v
<1>11. CASE mask # {}
  <2>. DEFINE q == k.host[i.destination]
              z == (v.cr \ mask) \cup Bits[And(q, ToWord[mask])]
  <2>1. EmittedMtcrf(n, i) = [k EXCEPT !.state.cr = (@ \ mask) \cup Bits[And(q, ToWord[mask])]]
    BY <1>5, <1>11, Zenon
  <2>2. [k EXCEPT !.state.cr = (@ \ mask) \cup Bits[And(q, ToWord[mask])]]
          = [k EXCEPT !.state.cr = z]
    <3>. DEFINE b == Bits[And(q, ToWord[mask])]
    <3>. HIDE DEF b
    <3>. QED BY <1>1, <1>6 DEF IsNative
  <2>3. z = c
    BY <1>1, <1>8, Zenon
  <2>. HIDE DEF z, c, q
  <2>4. EmittedMtcrf(n, i) = NewCr(k, c)
    BY <2>1, <2>2, <2>3, Zenon DEF NewCr
  <2>5. IsNative(NewCr(k, c), R) /\ View(NewCr(k, c), a) = SetCr(View(k, a), c)
    BY <1>1, <1>9, NativeCr
  <2>. QED BY <1>1, <1>4, <2>4, <2>5, Zenon DEF Stands, v
<1>. QED BY <1>10, <1>11

----------------------------------------------------------------------------
(* Branches, and the end of a block.                                        *)

\* The native machine viewed from another address.
LEMMA ViewAt ==
  ASSUME NEW R, NEW n, IsNative(n, R), NEW a \in Words, NEW b \in Words
  PROVE  View(n, b) = SetCia(View(n, a), b) /\ SetCia(View(n, a), b).cia = b
<1>. DEFINE v == View(n, a)
            t == [v EXCEPT !.cia = b]
<1>1. v \in Machines(R) /\ (\A r \in R : v.gpr[r] = Guest(n, r)) /\ v.cr = n.state.cr
        /\ v.xer = n.state.xer /\ v.lr = n.state.lr /\ v.ctr = n.state.ctr /\ v.gqr = n.state.gqr
  BY ViewFields
<1>. HIDE DEF v
<1>2. t \in Machines(R) /\ t.gpr = v.gpr /\ t.cr = v.cr /\ t.xer = v.xer /\ t.lr = v.lr
        /\ t.ctr = v.ctr /\ t.gqr = v.gqr /\ t.cia = b
  BY <1>1, CiaIs
<1>. HIDE DEF t
<1>3. \A r \in R : t.gpr[r] = Guest(n, r)
  BY <1>1, <1>2
<1>4. View(n, b) = t
  BY <1>1, <1>2, <1>3, ViewIs
<1>. QED BY <1>2, <1>4, Zenon DEF t, v, SetCia

\* A branch from address a: the emitted code stands for the machine w where the branch leads;
\* CpuState has that address when the block ends with the branch, and it is the next one
\* when the block goes on.
Branched(m, w, R, a, ends) ==
  /\ w.cia \in Words
  /\ Stands(m, w, R, w.cia)
  /\ IF ends THEN m.state.cia = w.cia ELSE w.cia = Unsigned(a + 4)

LEMMA LinkAgrees ==
  ASSUME NEW R, NEW n, IsNative(n, R), NEW i, IsInsn(i, R), NEW a \in Words
  PROVE  LET k == IF i.link THEN NewLr(n, Unsigned(a + 4)) ELSE n IN
         /\ IsNative(k, R) /\ View(k, a) = Linked(View(n, a), i)
         /\ Unsigned(a + 4) \in Words /\ Fallthrough(Linked(View(n, a), i)) = Unsigned(a + 4)
<1>. DEFINE v == View(n, a)
            next == Unsigned(a + 4)
            t == [v EXCEPT !.lr = next]
<1>1. v \in Machines(R) /\ v.cia = a
  BY ViewFields
<1>2. next \in Words
  BY WordFacts, UnsignedOf
<1>3. Fallthrough(v) = next
  BY <1>1, Zenon DEF Fallthrough
<1>4. CASE i.link
  <2>1. Linked(v, i) = SetLr(v, next)
    BY <1>3, <1>4, Zenon DEF Linked, SetLr
  <2>. HIDE DEF next
  <2>2. IsNative(NewLr(n, next), R) /\ View(NewLr(n, next), a) = SetLr(v, next)
    BY <1>2, NativeLr
  <2>3. t.cia = a
    <3>. HIDE DEF v
    <3>1. t.cia = v.cia
      BY <1>1, <1>2, LrIs
    <3>. QED BY <1>1, <3>1
  <2>4. Fallthrough(SetLr(v, next)) = Unsigned(a + 4)
    <3>. HIDE DEF t
    <3>1. SetLr(v, next) = t
      BY Zenon DEF SetLr, t
    <3>. QED BY <2>3, <3>1, Zenon DEF Fallthrough
  <2>. QED BY <1>2, <1>4, <2>1, <2>2, <2>4, Zenon DEF next
<1>5. CASE ~i.link
  <2>1. Linked(v, i) = v
    BY <1>5, Zenon DEF Linked
  <2>. QED BY <1>2, <1>3, <1>5, <2>1, Zenon
<1>. QED BY <1>4, <1>5

LEMMA TargetWords ==
  ASSUME NEW R, NEW i, IsInsn(i, R), NEW a \in Words, NEW v \in Machines(R), v.cia = a
  PROVE  /\ Target(v, i) \in Words
         /\ Target(v, i) = IF i.absolute THEN i.immediate ELSE Unsigned(a + i.immediate)
<1>1. i.immediate \in Words
  BY DEF IsInsn
<1>2. a + i.immediate \in Int
  BY <1>1, WordFacts
<1>. QED BY <1>1, <1>2, UnsignedOf DEF Target

LEMMA BranchAgrees ==
  ASSUME NEW R, NEW n, IsNative(n, R), NEW i, IsInsn(i, R), NEW a \in Words, NEW ends \in BOOLEAN,
         Target(View(n, a), i) # Unsigned(a + 4) => ends
  PROVE  Branched(EmittedBranch(n, i, a, ends), branch(View(n, a), i), R, a, ends)
<1>. DEFINE v == View(n, a)
            k == IF i.link THEN NewLr(n, Unsigned(a + 4)) ELSE n
            l == Linked(v, i)
            target == Target(v, i)
            w == SetCia(l, target)
            m == EmittedBranch(n, i, a, ends)
<1>1. IsNative(k, R) /\ View(k, a) = l
  BY LinkAgrees
<1>2. v \in Machines(R) /\ v.cia = a
  BY ViewFields
<1>3. target \in Words /\ target = IF i.absolute THEN i.immediate ELSE Unsigned(a + i.immediate)
  BY <1>2, TargetWords
<1>4. branch(v, i) = w
  BY Zenon DEF branch, SetCia
<1>5. m = IF target # Unsigned(a + 4) \/ ends THEN NewCia(k, target) ELSE k
  <2>. HIDE DEF target
  <2>. QED BY <1>3, Zenon DEF EmittedBranch, NewLr, NewCia
<1>6. target # Unsigned(a + 4) => ends
  OBVIOUS
<1>. HIDE DEF v, k, l, target, m
<1>7. View(k, target) = w /\ w.cia = target
  BY <1>1, <1>3, ViewAt
<1>. HIDE DEF w
<1>8. CASE ends
  <2>1. m = NewCia(k, target)
    BY <1>5, <1>8, Zenon
  <2>2. IsNative(NewCia(k, target), R) /\ NewCia(k, target).state.cia = target
          /\ View(NewCia(k, target), target) = View(k, target)
    BY <1>1, <1>3, NativeCia
  <2>. QED BY <1>3, <1>4, <1>7, <1>8, <2>1, <2>2, Zenon DEF Branched, Stands, m, v
<1>9. CASE ~ends
  <2>1. m = k /\ target = Unsigned(a + 4)
    BY <1>5, <1>6, <1>9, Zenon
  <2>. QED BY <1>1, <1>3, <1>4, <1>7, <1>9, <2>1, Zenon DEF Branched, Stands, m, v
<1>. QED BY <1>8, <1>9

\* The test of a conditional branch, as emitted.
TakenBranch(k, i, a, target) ==
  LET c == IF i.ignore_count THEN k ELSE [k EXCEPT !.state.ctr = HostSub(@, 1, 0).value]
      taken == /\ i.ignore_count \/ (i.count_sense <=> c.state.ctr = 0)
               /\ i.ignore_condition
                    \/ ((PpcBit(i.condition_bit) \in c.state.cr) <=> i.condition_sense)
  IN  [c EXCEPT !.state.cia = IF taken THEN target ELSE Unsigned(a + 4)]

LEMMA TakenAgrees ==
  ASSUME NEW R, NEW k, IsNative(k, R), NEW i, IsInsn(i, R), NEW a \in Words,
         NEW v, View(k, a) = v, NEW target \in Words
  PROVE  LET w == conditional_branch_taken(v, i, target) IN
         /\ Branched(TakenBranch(k, i, a, target), w, R, a, TRUE)
         /\ w.cia \in {target, Unsigned(a + 4)}
<1>. DEFINE c == IF i.ignore_count THEN k ELSE [k EXCEPT !.state.ctr = HostSub(@, 1, 0).value]
            count == i.ignore_count \/ (i.count_sense <=> c.state.ctr = 0)
            condition == i.ignore_condition
                           \/ ((PpcBit(i.condition_bit) \in c.state.cr) <=> i.condition_sense)
            taken == count /\ condition
            next == Unsigned(a + 4)
            to == IF taken THEN target ELSE next
            m == [c EXCEPT !.state.cia = to]
            d == Unsigned(v.ctr - 1)
            counted == IF i.ignore_count THEN v ELSE SetCtr(v, d)
            holds == i.ignore_condition \/ read_cr_bit(v, i.condition_bit) = i.condition_sense
            counts == i.ignore_count \/ ((counted.ctr # 0) # i.count_sense)
            w == conditional_branch_taken(v, i, target)
<1>1. v \in Machines(R) /\ v.cia = a /\ v.ctr = k.state.ctr /\ v.cr = k.state.cr
  BY ViewFields
<1>2. v.ctr \in Words /\ next \in Words
  <2>1. v.ctr \in Words
    BY <1>1, MachineFields
  <2>2. a + 4 \in Int
    BY WordFacts
  <2>. QED BY <2>1, <2>2, UnsignedOf
<1>3. d \in Words /\ HostSub(v.ctr, 1, 0).value = d
  <2>. DEFINE x == v.ctr
  <2>1. x \in Words
    BY <1>2
  <2>2. 1 \in Words /\ 0 \in {0, 1}
    BY WordRange, WordSizes
  <2>. HIDE DEF x
  <2>3. HostSub(x, 1, 0).value = Unsigned(x - 1 - 0) /\ HostSub(x, 1, 0).value \in Words
    BY <2>1, <2>2, HostSubIs
  <2>4. x - 1 - 0 = x - 1
    BY <2>1, WordFacts
  <2>. QED BY <2>3, <2>4 DEF x
<1>. DEFINE e == SetCtr(v, d)
<1>4. e \in Machines(R) /\ e.ctr = d /\ e.cr = v.cr /\ e.cia = a
  <2>. DEFINE f == [v EXCEPT !.ctr = d]
  <2>. HIDE DEF d
  <2>1. f \in Machines(R) /\ f.ctr = d /\ f.cr = v.cr /\ f.cia = v.cia
    BY <1>1, <1>3, CtrIs
  <2>2. e = f
    BY Zenon DEF SetCtr
  <2>. HIDE DEF e, f
  <2>. QED BY <1>1, <2>1, <2>2
<1>5. IsNative(c, R) /\ View(c, a) = counted
  <2>1. CASE i.ignore_count
    <3>1. c = k /\ counted = v
      BY <2>1, Zenon
    <3>. QED BY <3>1, Zenon
  <2>2. CASE ~i.ignore_count
    <3>1. c = NewCtr(k, d)
      <4>1. [k EXCEPT !.state.ctr = HostSub(@, 1, 0).value]
              = [k EXCEPT !.state.ctr = HostSub(k.state.ctr, 1, 0).value]
        BY DEF IsNative, Machines
      <4>2. HostSub(k.state.ctr, 1, 0).value = d
        BY <1>1, <1>3, Zenon
      <4>. HIDE DEF d
      <4>. QED BY <2>2, <4>1, <4>2, Zenon DEF NewCtr
    <3>2. counted = e
      BY <2>2, Zenon
    <3>. HIDE DEF d
    <3>3. IsNative(NewCtr(k, d), R) /\ View(NewCtr(k, d), a) = SetCtr(v, d)
      BY <1>3, NativeCtr
    <3>. QED BY <3>1, <3>2, <3>3, Zenon
  <2>. QED BY <2>1, <2>2
<1>6. counted.cr = v.cr /\ counted.cia = a /\ counted \in Machines(R)
  <2>. HIDE DEF e
  <2>1. counted = IF i.ignore_count THEN v ELSE e
    BY Zenon DEF e
  <2>. HIDE DEF counted
  <2>. QED BY <1>1, <1>4, <2>1
<1>. HIDE DEF c, counted, d, e
<1>7. c.state.ctr = counted.ctr /\ c.state.cr = v.cr
  BY <1>5, <1>6, ViewFields
<1>8. counted.ctr \in Words
  BY <1>6, MachineFields
<1>9. i.count_sense \in BOOLEAN /\ i.condition_sense \in BOOLEAN
  BY DEF IsInsn
<1>10. count <=> counts
  <2>. DEFINE zero == counted.ctr = 0
              some == counted.ctr # 0
  <2>1. some \in BOOLEAN /\ (some <=> ~zero)
    OBVIOUS
  <2>2. (some # i.count_sense) <=> (i.count_sense <=> zero)
    <3>. HIDE DEF some, zero
    <3>1. CASE i.count_sense
      <4>1. i.count_sense = TRUE
        BY <1>9, <3>1, Zenon
      <4>. QED BY <2>1, <3>1, <4>1, Zenon
    <3>2. CASE ~i.count_sense
      <4>1. i.count_sense = FALSE
        BY <1>9, <3>2, Zenon
      <4>. QED BY <2>1, <3>2, <4>1, Zenon
    <3>. QED BY <3>1, <3>2
  <2>. QED BY <1>7, <2>2, Zenon
<1>11. condition <=> holds
  <2>. DEFINE bit == PpcBit(i.condition_bit) \in v.cr
  <2>1. bit \in BOOLEAN /\ read_cr_bit(v, i.condition_bit) = bit
    BY DEF read_cr_bit
  <2>2. (bit = i.condition_sense) <=> (bit <=> i.condition_sense)
    <3>. HIDE DEF bit
    <3>. QED BY <1>9, <2>1, SameTruth, Zenon
  <2>3. condition <=> i.ignore_condition \/ (bit <=> i.condition_sense)
    BY <1>7, Zenon
  <2>. HIDE DEF bit, condition
  <2>. QED BY <2>1, <2>2, <2>3, Zenon
<1>12. w = SetCia(counted, IF holds /\ counts THEN target ELSE Fallthrough(v))
  BY Zenon DEF conditional_branch_taken, counted, d, SetCtr, SetCia
<1>13. Fallthrough(v) = next
  BY <1>1, Zenon DEF Fallthrough
<1>. HIDE DEF count, condition, holds, counts, w, next
<1>14. w = SetCia(counted, to) /\ to \in Words /\ to \in {target, next}
  <2>1. (IF holds /\ counts THEN target ELSE Fallthrough(v)) = to
    BY <1>10, <1>11, <1>13, Zenon
  <2>2. to \in Words /\ to \in {target, next}
    BY <1>2
  <2>. HIDE DEF to
  <2>. QED BY <1>12, <2>1, <2>2, Zenon
<1>15. m = NewCia(c, to)
  BY Zenon DEF NewCia
<1>. HIDE DEF to, m
<1>16. IsNative(m, R) /\ m.state.cia = to /\ View(m, to) = View(c, to)
  BY <1>5, <1>14, <1>15, NativeCia
<1>17. View(c, to) = SetCia(counted, to) /\ SetCia(counted, to).cia = to
  BY <1>5, <1>14, ViewAt
<1>18. Branched(m, w, R, a, TRUE) /\ w.cia \in {target, next}
  BY <1>14, <1>16, <1>17, Zenon DEF Branched, Stands
<1>19. TakenBranch(k, i, a, target) = m
  BY Zenon DEF TakenBranch, m, to, taken, count, condition, c, next
<1>. QED BY <1>18, <1>19, Zenon DEF w, next

LEMMA LinkKeeps ==
  ASSUME NEW R, NEW n, IsNative(n, R), NEW i, NEW a \in Words
  PROVE  LET v == View(n, a) IN
         /\ v \in Machines(R) /\ v.cia = a /\ v.lr = n.state.lr /\ v.ctr = n.state.ctr
         /\ n.state.lr \in Words /\ n.state.ctr \in Words
<1>1. View(n, a) \in Machines(R)
  BY ViewFields
<1>. QED BY <1>1, ViewFields, MachineFields

LEMMA AlignedIs ==
  ASSUME NEW x \in Words
  PROVE  And(x, AllOnes - 3) = Aligned(x) /\ Aligned(x) \in Words
BY AlignedByMask DEF Aligned

\* A conditional branch to an address both engines compute.
LEMMA ConditionalAgrees ==
  ASSUME NEW R, NEW n, IsNative(n, R), NEW i, IsInsn(i, R), NEW a \in Words, NEW target \in Words,
         NEW op, target = IF op # "bc" THEN And(IF op = "bclr" THEN n.state.lr ELSE n.state.ctr, AllOnes - 3)
                          ELSE IF i.absolute THEN i.immediate ELSE Unsigned(a + i.immediate)
  PROVE  LET w == conditional_branch_taken(Linked(View(n, a), i), i, target) IN
         /\ Branched(EmittedConditionalBranch(op, n, i, a), w, R, a, TRUE)
         /\ w.cia \in {target, Unsigned(a + 4)}
<1>. DEFINE v == Linked(View(n, a), i)
            k == IF i.link THEN NewLr(n, Unsigned(a + 4)) ELSE n
            to == IF op # "bc" THEN And(IF op = "bclr" THEN n.state.lr ELSE n.state.ctr, AllOnes - 3)
                  ELSE IF i.absolute THEN i.immediate ELSE Unsigned(a + i.immediate)
            w == conditional_branch_taken(v, i, target)
<1>1. IsNative(k, R) /\ View(k, a) = v
  BY LinkAgrees
<1>2. EmittedConditionalBranch(op, n, i, a) = TakenBranch(k, i, a, to)
  BY Zenon DEF EmittedConditionalBranch, TakenBranch, NewLr
<1>3. to = target
  OBVIOUS
<1>. HIDE DEF v, k, to
<1>4. Branched(TakenBranch(k, i, a, target), w, R, a, TRUE) /\ w.cia \in {target, Unsigned(a + 4)}
  BY <1>1, TakenAgrees
<1>. QED BY <1>2, <1>3, <1>4, Zenon DEF v

LEMMA BranchesAgree ==
  ASSUME NEW R, NEW n, IsNative(n, R), NEW i, IsInsn(i, R), NEW a \in Words, NEW ends \in BOOLEAN,
         NEW op \in Branches, op \in {"bclr", "bcctr"} => ends,
         Target(View(n, a), i) # Unsigned(a + 4) => ends
  PROVE  Branched(EmitBranch(op, n, i, a, ends), ExecuteBranch(op, View(n, a), i), R, a, ends)
<1>. DEFINE v == View(n, a)
            m == EmitBranch(op, n, i, a, ends)
            w == ExecuteBranch(op, v, i)
<1>1. v \in Machines(R) /\ v.cia = a /\ v.lr = n.state.lr /\ v.ctr = n.state.ctr
         /\ n.state.lr \in Words /\ n.state.ctr \in Words
  BY LinkKeeps
<1>2. CASE op = "b"
  <2>1. m = EmittedBranch(n, i, a, ends) /\ w = branch(v, i)
    BY <1>2, Zenon DEF EmitBranch, ExecuteBranch
  <2>. QED BY <2>1, BranchAgrees
<1>3. CASE op = "bc"
  <2>. DEFINE target == Target(v, i)
              c == conditional_branch_taken(Linked(v, i), i, target)
              e == EmittedConditionalBranch(op, n, i, a)
  <2>1. m = e /\ w = c
    BY <1>3, Zenon DEF EmitBranch, ExecuteBranch, bc
  <2>2. target \in Words /\ target = IF i.absolute THEN i.immediate ELSE Unsigned(a + i.immediate)
    BY <1>1, TargetWords
  <2>3. target # Unsigned(a + 4) => ends
    OBVIOUS
  <2>. HIDE DEF target
  <2>4. Branched(e, c, R, a, TRUE) /\ c.cia \in {target, Unsigned(a + 4)}
    BY <1>3, <2>2, ConditionalAgrees
  <2>. HIDE DEF e, c
  <2>5. Branched(e, c, R, a, ends)
    BY <2>3, <2>4 DEF Branched
  <2>. QED BY <2>1, <2>5, Zenon
<1>4. CASE op \in {"bclr", "bcctr"}
  <2>. DEFINE x == IF op = "bclr" THEN n.state.lr ELSE n.state.ctr
              target == Aligned(x)
              c == conditional_branch_taken(Linked(v, i), i, target)
              e == EmittedConditionalBranch(op, n, i, a)
  <2>1. m = e /\ w = c
    <3>1. CASE op = "bclr"
      BY <1>1, <3>1, Zenon DEF EmitBranch, ExecuteBranch, bclr
    <3>2. CASE op = "bcctr"
      BY <1>1, <3>2, Zenon DEF EmitBranch, ExecuteBranch, bcctr
    <3>. QED BY <1>4, <3>1, <3>2
  <2>2. x \in Words
    BY <1>1
  <2>3. target \in Words /\ target = And(x, AllOnes - 3)
    BY <2>2, AlignedIs
  <2>4. op # "bc" /\ ends = TRUE
    BY <1>4
  <2>5. target = IF op # "bc" THEN And(IF op = "bclr" THEN n.state.lr ELSE n.state.ctr, AllOnes - 3)
                 ELSE IF i.absolute THEN i.immediate ELSE Unsigned(a + i.immediate)
    BY <2>3, <2>4, Zenon
  <2>. HIDE DEF target
  <2>6. Branched(e, c, R, a, TRUE)
    BY <2>3, <2>5, ConditionalAgrees
  <2>. QED BY <2>1, <2>4, <2>6, Zenon
<1>. QED BY <1>2, <1>3, <1>4 DEF Branches

----------------------------------------------------------------------------
(* The engines' switches, one family of instructions after the other.       *)

LEMMA SumsAgree ==
  ASSUME NEW R, NEW n, IsNative(n, R), NEW i, IsInsn(i, R), NEW a \in Words,
         NEW op \in Sums
  PROVE  Stands(EmitSum(op, n, i), ExecuteSum(op, View(n, a), i), R, a)
<1>. DEFINE v == View(n, a)
            m == EmitSum(op, n, i)
            w == ExecuteSum(op, v, i)
<1>1. CASE op = "add"
  <2>1. m = EmittedBitwise("add", n, i) /\ w = add(v, i)
    BY <1>1 DEF EmitSum, ExecuteSum
  <2>. QED BY <1>1, <2>1, AddAgrees, Zenon
<1>2. CASE op = "addo"
  <2>1. m = EmittedAddOverflow("addo", n, i) /\ w = addo(v, i)
    BY <1>2 DEF EmitSum, ExecuteSum
  <2>. QED BY <1>2, <2>1, AddOverflowAgrees, Zenon
<1>3. CASE op = "addc"
  <2>1. m = EmittedAddCarrying(n, i) /\ w = addc(v, i)
    BY <1>3 DEF EmitSum, ExecuteSum
  <2>. QED BY <1>3, <2>1, AddCarryingAgrees, Zenon
<1>4. CASE op = "addco"
  <2>1. m = EmittedAddCarryingOverflow(n, i) /\ w = addco(v, i)
    BY <1>4 DEF EmitSum, ExecuteSum
  <2>. QED BY <1>4, <2>1, AddCarryingOverflowAgrees, Zenon
<1>5. CASE op = "adde"
  <2>1. m = EmittedAddExtended(n, i) /\ w = adde(v, i)
    BY <1>5 DEF EmitSum, ExecuteSum
  <2>. QED BY <1>5, <2>1, AddExtendedAgrees, Zenon
<1>6. CASE op = "addeo"
  <2>1. m = EmittedAddExtendedOverflow(n, i) /\ w = addeo(v, i)
    BY <1>6 DEF EmitSum, ExecuteSum
  <2>. QED BY <1>6, <2>1, AddExtendedOverflowAgrees, Zenon
<1>7. CASE op = "addze"
  <2>1. m = EmittedAddToZero(n, i) /\ w = addze(v, i)
    BY <1>7 DEF EmitSum, ExecuteSum
  <2>. QED BY <1>7, <2>1, AddToZeroAgrees, Zenon
<1>8. CASE op = "addzeo"
  <2>1. m = EmittedAddToZeroOverflow(n, i) /\ w = addzeo(v, i)
    BY <1>8 DEF EmitSum, ExecuteSum
  <2>. QED BY <1>8, <2>1, AddToZeroOverflowAgrees, Zenon
<1>9. CASE op = "addme"
  <2>1. m = EmittedAddToMinusOne(n, i) /\ w = addme(v, i)
    BY <1>9 DEF EmitSum, ExecuteSum
  <2>. QED BY <1>9, <2>1, AddToMinusOneAgrees, Zenon
<1>10. CASE op = "addmeo"
  <2>1. m = EmittedAddToMinusOneOverflow(n, i) /\ w = addmeo(v, i)
    BY <1>10 DEF EmitSum, ExecuteSum
  <2>. QED BY <1>10, <2>1, AddToMinusOneOverflowAgrees, Zenon
<1>11. CASE op = "neg"
  <2>1. m = EmittedNegate(n, i) /\ w = neg(v, i)
    BY <1>11 DEF EmitSum, ExecuteSum
  <2>. QED BY <1>11, <2>1, NegateAgrees, Zenon
<1>12. CASE op = "nego"
  <2>1. m = EmittedNegateOverflow(n, i) /\ w = nego(v, i)
    BY <1>12 DEF EmitSum, ExecuteSum
  <2>. QED BY <1>12, <2>1, NegateOverflowAgrees, Zenon
<1>13. CASE op = "mullw"
  <2>1. m = EmittedMultiplyLow("mullw", n, i) /\ w = mullw(v, i)
    BY <1>13 DEF EmitSum, ExecuteSum
  <2>. QED BY <1>13, <2>1, MultiplyLowAgrees, Zenon
<1>14. CASE op = "mullwo"
  <2>1. m = EmittedMultiplyLow("mullwo", n, i) /\ w = mullwo(v, i)
    BY <1>14 DEF EmitSum, ExecuteSum
  <2>. QED BY <1>14, <2>1, MultiplyLowOverflowAgrees, Zenon
<1>15. CASE op = "mulhw"
  <2>1. m = EmittedMultiplyHigh("mulhw", n, i) /\ w = mulhw(v, i)
    BY <1>15 DEF EmitSum, ExecuteSum
  <2>. QED BY <1>15, <2>1, MultiplyHighAgrees, Zenon
<1>16. CASE op = "mulhwu"
  <2>1. m = EmittedMultiplyHigh("mulhwu", n, i) /\ w = mulhwu(v, i)
    BY <1>16 DEF EmitSum, ExecuteSum
  <2>. QED BY <1>16, <2>1, MultiplyHighUnsignedAgrees, Zenon
<1>. QED BY <1>1, <1>2, <1>3, <1>4, <1>5, <1>6, <1>7, <1>8, <1>9, <1>10, <1>11, <1>12, <1>13, <1>14, <1>15, <1>16 DEF Sums

LEMMA DifferencesAgree ==
  ASSUME NEW R, NEW n, IsNative(n, R), NEW i, IsInsn(i, R), NEW a \in Words,
         NEW op \in Differences
  PROVE  Stands(EmitDifference(op, n, i), ExecuteDifference(op, View(n, a), i), R, a)
<1>. DEFINE v == View(n, a)
            m == EmitDifference(op, n, i)
            w == ExecuteDifference(op, v, i)
<1>1. CASE op = "subf"
  <2>1. m = EmittedBitwise("subf", n, i) /\ w = subf(v, i)
    BY <1>1 DEF EmitDifference, ExecuteDifference
  <2>. QED BY <1>1, <2>1, SubtractAgrees, Zenon
<1>2. CASE op = "subfo"
  <2>1. m = EmittedAddOverflow("subfo", n, i) /\ w = subfo(v, i)
    BY <1>2 DEF EmitDifference, ExecuteDifference
  <2>. QED BY <1>2, <2>1, SubtractOverflowAgrees, Zenon
<1>3. CASE op = "subfc"
  <2>1. m = EmittedSubtractCarrying(n, i) /\ w = subfc(v, i)
    BY <1>3 DEF EmitDifference, ExecuteDifference
  <2>. QED BY <1>3, <2>1, SubtractCarryingAgrees, Zenon
<1>4. CASE op = "subfco"
  <2>1. m = EmittedSubtractCarryingOverflow(n, i) /\ w = subfco(v, i)
    BY <1>4 DEF EmitDifference, ExecuteDifference
  <2>. QED BY <1>4, <2>1, SubtractCarryingOverflowAgrees, Zenon
<1>5. CASE op = "subfe"
  <2>1. m = EmittedSubtractExtended(n, i) /\ w = subfe(v, i)
    BY <1>5 DEF EmitDifference, ExecuteDifference
  <2>. QED BY <1>5, <2>1, SubtractExtendedAgrees, Zenon
<1>6. CASE op = "subfeo"
  <2>1. m = EmittedSubtractExtendedOverflow(n, i) /\ w = subfeo(v, i)
    BY <1>6 DEF EmitDifference, ExecuteDifference
  <2>. QED BY <1>6, <2>1, SubtractExtendedOverflowAgrees, Zenon
<1>7. CASE op = "subfze"
  <2>1. m = EmittedSubtractFromZero(n, i) /\ w = subfze(v, i)
    BY <1>7 DEF EmitDifference, ExecuteDifference
  <2>. QED BY <1>7, <2>1, SubtractFromZeroAgrees, Zenon
<1>8. CASE op = "subfzeo"
  <2>1. m = EmittedSubtractFromZeroOverflow(n, i) /\ w = subfzeo(v, i)
    BY <1>8 DEF EmitDifference, ExecuteDifference
  <2>. QED BY <1>8, <2>1, SubtractFromZeroOverflowAgrees, Zenon
<1>9. CASE op = "subfme"
  <2>1. m = EmittedSubtractFromMinusOne(n, i) /\ w = subfme(v, i)
    BY <1>9 DEF EmitDifference, ExecuteDifference
  <2>. QED BY <1>9, <2>1, SubtractFromMinusOneAgrees, Zenon
<1>10. CASE op = "subfmeo"
  <2>1. m = EmittedSubtractFromMinusOneOverflow(n, i) /\ w = subfmeo(v, i)
    BY <1>10 DEF EmitDifference, ExecuteDifference
  <2>. QED BY <1>10, <2>1, SubtractFromMinusOneOverflowAgrees, Zenon
<1>. QED BY <1>1, <1>2, <1>3, <1>4, <1>5, <1>6, <1>7, <1>8, <1>9, <1>10 DEF Differences

LEMMA ImmediatesAgree ==
  ASSUME NEW R, NEW n, IsNative(n, R), NEW i, IsInsn(i, R), NEW a \in Words,
         NEW op \in SignedOps \cup {"cmplwi"}
  PROVE  Stands(EmitImmediate(op, n, i), ExecuteImmediate(op, View(n, a), i), R, a)
<1>. DEFINE v == View(n, a)
            m == EmitImmediate(op, n, i)
            w == ExecuteImmediate(op, v, i)
<1>1. CASE op = "addi"
  <2>1. m = EmittedAddi("addi", n, i) /\ w = addi(v, i)
    BY <1>1 DEF EmitImmediate, ExecuteImmediate
  <2>. QED BY <1>1, <2>1, AddImmediateAgrees, Zenon
<1>2. CASE op = "addis"
  <2>1. m = EmittedAddi("addis", n, i) /\ w = addis(v, i)
    BY <1>2 DEF EmitImmediate, ExecuteImmediate
  <2>. QED BY <1>2, <2>1, AddImmediateShiftedAgrees, Zenon
<1>3. CASE op = "addic"
  <2>1. m = EmittedAddic(n, i) /\ w = addic(v, i)
    BY <1>3 DEF EmitImmediate, ExecuteImmediate
  <2>. QED BY <1>3, <2>1, AddImmediateCarryingAgrees, Zenon
<1>4. CASE op = "subfic"
  <2>1. m = EmittedSubfic(n, i) /\ w = subfic(v, i)
    BY <1>4 DEF EmitImmediate, ExecuteImmediate
  <2>. QED BY <1>4, <2>1, SubtractFromImmediateAgrees, Zenon
<1>5. CASE op = "mulli"
  <2>1. m = EmittedMulli(n, i) /\ w = mulli(v, i)
    BY <1>5 DEF EmitImmediate, ExecuteImmediate
  <2>. QED BY <1>5, <2>1, MultiplyImmediateAgrees, Zenon
<1>6. CASE op = "cmpwi"
  <2>1. m = EmittedCompare("cmpwi", n, i) /\ w = cmpw(v, i, i.immediate)
    BY <1>6 DEF EmitImmediate, ExecuteImmediate
  <2>. QED BY <1>6, <2>1, CompareImmediateAgrees, Zenon
<1>7. CASE op = "cmplwi"
  <2>1. m = EmittedCompare("cmplwi", n, i) /\ w = cmplw(v, i, i.immediate)
    BY <1>7 DEF EmitImmediate, ExecuteImmediate
  <2>. QED BY <1>7, <2>1, CompareLogicalImmediateAgrees, Zenon
<1>. QED BY <1>1, <1>2, <1>3, <1>4, <1>5, <1>6, <1>7 DEF SignedOps

LEMMA ShiftsAgree ==
  ASSUME NEW R, NEW n, IsNative(n, R), NEW i, IsInsn(i, R), NEW a \in Words,
         NEW op \in Shifts
  PROVE  Stands(EmitShift(op, n, i), ExecuteShift(op, View(n, a), i), R, a)
<1>. DEFINE v == View(n, a)
            m == EmitShift(op, n, i)
            w == ExecuteShift(op, v, i)
<1>1. CASE op = "slw"
  <2>1. m = EmittedShift("slw", n, i) /\ w = slw(v, i)
    BY <1>1 DEF EmitShift, ExecuteShift
  <2>. QED BY <1>1, <2>1, ShiftLeftAgrees, Zenon
<1>2. CASE op = "srw"
  <2>1. m = EmittedShift("srw", n, i) /\ w = srw(v, i)
    BY <1>2 DEF EmitShift, ExecuteShift
  <2>. QED BY <1>2, <2>1, ShiftRightAgrees, Zenon
<1>3. CASE op = "sraw"
  <2>1. m = EmittedSraw(n, i) /\ w = sraw(v, i)
    BY <1>3 DEF EmitShift, ExecuteShift
  <2>. QED BY <1>3, <2>1, ShiftRightAlgebraicAgrees, Zenon
<1>4. CASE op = "extsb"
  <2>1. m = EmittedExtendSign("extsb", n, i) /\ w = extsb(v, i)
    BY <1>4 DEF EmitShift, ExecuteShift
  <2>. QED BY <1>4, <2>1, ExtendByteAgrees, Zenon
<1>5. CASE op = "extsh"
  <2>1. m = EmittedExtendSign("extsh", n, i) /\ w = extsh(v, i)
    BY <1>5 DEF EmitShift, ExecuteShift
  <2>. QED BY <1>5, <2>1, ExtendHalfwordAgrees, Zenon
<1>6. CASE op = "cntlzw"
  <2>1. m = EmittedCountZeros(n, i) /\ w = cntlzw(v, i)
    BY <1>6 DEF EmitShift, ExecuteShift
  <2>. QED BY <1>6, <2>1, CountZerosAgrees, Zenon
<1>7. CASE op = "cmpw"
  <2>1. m = EmittedCompare("cmpw", n, i) /\ w = cmpw(v, i, B(v, i))
    BY <1>7 DEF EmitShift, ExecuteShift
  <2>. QED BY <1>7, <2>1, CompareAgrees, Zenon
<1>8. CASE op = "cmplw"
  <2>1. m = EmittedCompare("cmplw", n, i) /\ w = cmplw(v, i, B(v, i))
    BY <1>8 DEF EmitShift, ExecuteShift
  <2>. QED BY <1>8, <2>1, CompareLogicalAgrees, Zenon
<1>9. CASE op = "or"
  <2>1. m = EmittedBitwise("or", n, i) /\ w = bitwise("or", v, i)
    BY <1>9 DEF EmitShift, ExecuteShift
  <2>. QED BY <1>9, <2>1, OrAgrees, Zenon
<1>10. CASE op = "and"
  <2>1. m = EmittedBitwise("and", n, i) /\ w = bitwise("and", v, i)
    BY <1>10 DEF EmitShift, ExecuteShift
  <2>. QED BY <1>10, <2>1, AndAgrees, Zenon
<1>11. CASE op = "xor"
  <2>1. m = EmittedBitwise("xor", n, i) /\ w = bitwise("xor", v, i)
    BY <1>11 DEF EmitShift, ExecuteShift
  <2>. QED BY <1>11, <2>1, XorAgrees, Zenon
<1>12. CASE op = "nor"
  <2>1. m = EmittedBitwise("nor", n, i) /\ w = bitwise("nor", v, i)
    BY <1>12 DEF EmitShift, ExecuteShift
  <2>. QED BY <1>12, <2>1, NorAgrees, Zenon
<1>13. CASE op = "nand"
  <2>1. m = EmittedBitwise("nand", n, i) /\ w = bitwise("nand", v, i)
    BY <1>13 DEF EmitShift, ExecuteShift
  <2>. QED BY <1>13, <2>1, NandAgrees, Zenon
<1>14. CASE op = "eqv"
  <2>1. m = EmittedBitwise("eqv", n, i) /\ w = bitwise("eqv", v, i)
    BY <1>14 DEF EmitShift, ExecuteShift
  <2>. QED BY <1>14, <2>1, EquivalentAgrees, Zenon
<1>15. CASE op = "andc"
  <2>1. m = EmittedBitwise("andc", n, i) /\ w = bitwise("andc", v, i)
    BY <1>15 DEF EmitShift, ExecuteShift
  <2>. QED BY <1>15, <2>1, AndComplementAgrees, Zenon
<1>16. CASE op = "orc"
  <2>1. m = EmittedBitwise("orc", n, i) /\ w = bitwise("orc", v, i)
    BY <1>16 DEF EmitShift, ExecuteShift
  <2>. QED BY <1>16, <2>1, OrComplementAgrees, Zenon
<1>. QED BY <1>1, <1>2, <1>3, <1>4, <1>5, <1>6, <1>7, <1>8, <1>9, <1>10, <1>11, <1>12, <1>13, <1>14, <1>15, <1>16 DEF Shifts

LEMMA RotatesAgree ==
  ASSUME NEW R, NEW n, IsNative(n, R), NEW i, IsInsn(i, R), NEW a \in Words,
         NEW op \in Rotates
  PROVE  Stands(EmitRotate(op, n, i), ExecuteRotate(op, View(n, a), i), R, a)
<1>. DEFINE v == View(n, a)
            m == EmitRotate(op, n, i)
            w == ExecuteRotate(op, v, i)
<1>1. CASE op = "srawi"
  <2>1. m = EmittedSrawi(n, i) /\ w = srawi(v, i)
    BY <1>1 DEF EmitRotate, ExecuteRotate
  <2>. QED BY <1>1, <2>1, ShiftRightAlgebraicImmediateAgrees, Zenon
<1>2. CASE op = "rlwimi"
  <2>1. m = EmittedRotate("rlwimi", n, i) /\ w = rlwimi(v, i)
    BY <1>2 DEF EmitRotate, ExecuteRotate
  <2>. QED BY <1>2, <2>1, RotateInsertAgrees, Zenon
<1>3. CASE op = "rlwinm"
  <2>1. m = EmittedRotate("rlwinm", n, i) /\ w = rlwinm(v, i, i.shift)
    BY <1>3 DEF EmitRotate, ExecuteRotate
  <2>. QED BY <1>3, <2>1, RotateAgrees, Zenon
<1>4. CASE op = "rlwnm"
  <2>1. m = EmittedRotate("rlwnm", n, i) /\ w = rlwinm(v, i, A(v, i) % WordBits)
    BY <1>4 DEF EmitRotate, ExecuteRotate
  <2>. QED BY <1>4, <2>1, RotateByRegisterAgrees, Zenon
<1>. QED BY <1>1, <1>2, <1>3, <1>4 DEF Rotates

LEMMA ConditionsAgree ==
  ASSUME NEW R, NEW n, IsNative(n, R), NEW i, IsInsn(i, R), NEW a \in Words,
         NEW op \in BitOps \cup {"mcrf", "mcrxr"}
  PROVE  Stands(EmitCondition(op, n, i), ExecuteCondition(op, View(n, a), i), R, a)
<1>. DEFINE v == View(n, a)
            m == EmitCondition(op, n, i)
            w == ExecuteCondition(op, v, i)
<1>1. CASE op = "mcrf"
  <2>1. m = EmittedMcrf(n, i) /\ w = mcrf(v, i)
    BY <1>1 DEF EmitCondition, ExecuteCondition
  <2>. QED BY <1>1, <2>1, MoveFieldAgrees, Zenon
<1>2. CASE op = "mcrxr"
  <2>1. m = EmittedMcrxr(n, i) /\ w = mcrxr(v, i)
    BY <1>2 DEF EmitCondition, ExecuteCondition
  <2>. QED BY <1>2, <2>1, MoveXerAgrees, Zenon
<1>3. CASE op \in BitOps
  <2>1. m = EmittedConditionBit(op, n, i) /\ w = condition_bit(op, v, i)
    BY <1>3 DEF BitOps, EmitCondition, ExecuteCondition
  <2>. QED BY <1>3, <2>1, ConditionBitAgrees, Zenon
<1>. QED BY <1>1, <1>2, <1>3

LEMMA MovesAgree ==
  ASSUME NEW R, NEW n, IsNative(n, R), NEW i, IsInsn(i, R), NEW a \in Words, NEW ticks \in Ticks,
         NEW op \in Moves
  PROVE  Stands(EmitMove(op, n, i, ticks), ExecuteMove(op, View(n, a), i, ticks), R, a)
<1>. DEFINE v == View(n, a)
            m == EmitMove(op, n, i, ticks)
            w == ExecuteMove(op, v, i, ticks)
<1>1. CASE op = "mfcr"
  <2>1. m = EmittedMfcr(n, i) /\ w = mfcr(v, i)
    BY <1>1 DEF EmitMove, ExecuteMove
  <2>. QED BY <1>1, <2>1, FromCrAgrees, Zenon
<1>2. CASE op = "mtcrf"
  <2>1. m = EmittedMtcrf(n, i) /\ w = mtcrf(v, i)
    BY <1>2 DEF EmitMove, ExecuteMove
  <2>. QED BY <1>2, <2>1, ToCrFieldsAgrees, Zenon
<1>3. CASE op = "mfgqr"
  <2>1. m = EmittedGqrMove("mfgqr", n, i) /\ w = mfgqr(v, i)
    BY <1>3 DEF EmitMove, ExecuteMove
  <2>. QED BY <1>3, <2>1, FromGqrAgrees, Zenon
<1>4. CASE op = "mtgqr"
  <2>1. m = EmittedGqrMove("mtgqr", n, i) /\ w = mtgqr(v, i)
    BY <1>4 DEF EmitMove, ExecuteMove
  <2>. QED BY <1>4, <2>1, ToGqrAgrees, Zenon
<1>5. CASE op = "mftb"
  <2>1. m = EmittedTimeBase("mftb", n, i, ticks) /\ w = mftb(v, i, ticks, FALSE)
    BY <1>5 DEF EmitMove, ExecuteMove
  <2>. QED BY <1>5, <2>1, TimeBaseAgrees, Zenon
<1>6. CASE op = "mftbu"
  <2>1. m = EmittedTimeBase("mftbu", n, i, ticks) /\ w = mftb(v, i, ticks, TRUE)
    BY <1>6 DEF EmitMove, ExecuteMove
  <2>. QED BY <1>6, <2>1, TimeBaseUpperAgrees, Zenon
<1>7. CASE op = "mflr"
  <2>1. m = EmittedSpecialMove("mflr", n, i) /\ w = mflr(v, i)
    BY <1>7 DEF EmitMove, ExecuteMove
  <2>. QED BY <1>7, <2>1, FromLrAgrees, Zenon
<1>8. CASE op = "mfctr"
  <2>1. m = EmittedSpecialMove("mfctr", n, i) /\ w = mfctr(v, i)
    BY <1>8 DEF EmitMove, ExecuteMove
  <2>. QED BY <1>8, <2>1, FromCtrAgrees, Zenon
<1>9. CASE op = "mfxer"
  <2>1. m = EmittedSpecialMove("mfxer", n, i) /\ w = mfxer(v, i)
    BY <1>9 DEF EmitMove, ExecuteMove
  <2>. QED BY <1>9, <2>1, FromXerAgrees, Zenon
<1>10. CASE op = "mtlr"
  <2>1. m = EmittedSpecialMove("mtlr", n, i) /\ w = mtlr(v, i)
    BY <1>10 DEF EmitMove, ExecuteMove
  <2>. QED BY <1>10, <2>1, ToLrAgrees, Zenon
<1>11. CASE op = "mtctr"
  <2>1. m = EmittedSpecialMove("mtctr", n, i) /\ w = mtctr(v, i)
    BY <1>11 DEF EmitMove, ExecuteMove
  <2>. QED BY <1>11, <2>1, ToCtrAgrees, Zenon
<1>12. CASE op = "mtxer"
  <2>1. m = EmittedSpecialMove("mtxer", n, i) /\ w = mtxer(v, i)
    BY <1>12 DEF EmitMove, ExecuteMove
  <2>. QED BY <1>12, <2>1, ToXerAgrees, Zenon
<1>. QED BY <1>1, <1>2, <1>3, <1>4, <1>5, <1>6, <1>7, <1>8, <1>9, <1>10, <1>11, <1>12 DEF Moves

----------------------------------------------------------------------------
(* The instructions the actions choose from are instructions of the machine. *)

Insns(R) ==
  [destination : R, base : R, source : R, record : BOOLEAN,
   immediate : Words, shift : BitIndex, mask_begin : Int, mask_end : Int,
   cr_field : ConditionFields, cr_field_source : ConditionFields,
   cr_fields : SUBSET ConditionFields, cr_source_a_bit : Int, cr_source_b_bit : Int,
   cr_destination_bit : {k \in Int : PpcBit(k) \in BitIndex},
   link : BOOLEAN, absolute : BOOLEAN, ignore_condition : BOOLEAN, condition_sense : BOOLEAN,
   condition_bit : Int, ignore_count : BOOLEAN, count_sense : BOOLEAN]

LEMMA InsnsFit ==
  ASSUME NEW R, NEW i \in Insns(R)
  PROVE  IsInsn(i, R)
BY DEF Insns, IsInsn

LEMMA SmallValues ==
  /\ 0 \in Words /\ 0 \in BitIndex /\ 0 \in ConditionFields /\ 0 \in Int
  /\ \A k \in {0, 2, 5} : k \in Int /\ PpcBit(k) \in BitIndex
  /\ BitIndex \subseteq Int /\ SignBit \in Int
<1>1. WordBits \in Nat /\ WordBits >= 8
  BY WordSizes, IntegerEnginesAssumption
<1>. QED BY <1>1, WordRange, FieldsAreBits DEF PpcBit, SignBit, BitIndex

LEMMA InsnIs ==
  ASSUME NEW R, NEW f, {f[1], f[2], f[3]} \subseteq R
  PROVE  Insn(f) \in Insns(R)
BY SmallValues DEF Insn, Insns

\* The registers of the machine the program started with.
Start == start.gpr
Chosen == /\ program \in DOMAIN Programs
          /\ start \in Programs[program].starts

LEMMA StartIs ==
  ASSUME Chosen
  PROVE  /\ start \in Machines(DOMAIN Start)
         /\ Programs[program].forms # {}
         /\ \A f \in Programs[program].forms : Insn(f) \in Insns(DOMAIN Start)
         /\ Programs[program].records \subseteq BOOLEAN /\ Programs[program].cuts \subseteq BOOLEAN
         /\ Programs[program].immediates \subseteq 0 .. (TwoTo[HalfBits] - 1)
         /\ \A r \in Programs[program].rotations : {r[1], r[2], r[3]} \subseteq BitIndex
         /\ Programs[program].displacements \subseteq Words
         /\ \A o \in Programs[program].options :
               o.link \in BOOLEAN /\ o.absolute \in BOOLEAN /\ o.bit \in BitIndex
<1>. DEFINE p == Programs[program]
<1>1. /\ p.forms # {}
      /\ \A s \in p.starts :
            /\ s \in Machines(DOMAIN s.gpr)
            /\ \A f \in p.forms : {f[1], f[2], f[3]} \subseteq DOMAIN s.gpr
      /\ p.records \subseteq BOOLEAN /\ p.cuts \subseteq BOOLEAN
      /\ p.immediates \subseteq 0 .. (TwoTo[HalfBits] - 1)
      /\ \A r \in p.rotations : {r[1], r[2], r[3]} \subseteq BitIndex
      /\ p.displacements \subseteq Words
      /\ \A o \in p.options : o.link \in BOOLEAN /\ o.absolute \in BOOLEAN /\ o.bit \in BitIndex
  BY IntegerEnginesAssumption, Zenon DEF Chosen
<1>. HIDE DEF p
<1>2. start \in p.starts
  BY DEF Chosen, p
<1>3. start \in Machines(DOMAIN Start) /\ \A f \in p.forms : {f[1], f[2], f[3]} \subseteq DOMAIN Start
  BY <1>1, <1>2, Zenon DEF Start
<1>4. \A f \in p.forms : Insn(f) \in Insns(DOMAIN Start)
  BY <1>3, InsnIs
<1>. QED BY <1>1, <1>3, <1>4, Zenon DEF p

LEMMA PlainForms ==
  ASSUME Chosen
  PROVE  /\ Plainly \subseteq Insns(DOMAIN Start)
         /\ FirstForm \in Insns(DOMAIN Start)
<1>1. Plainly \subseteq Insns(DOMAIN Start)
  BY StartIs, Zenon DEF Plainly
<1>2. (CHOOSE f \in Programs[program].forms : TRUE) \in Programs[program].forms
  BY StartIs, Zenon
<1>. QED BY <1>1, <1>2, StartIs, Zenon DEF FirstForm

LEMMA RecordForms ==
  ASSUME NEW R, NEW i \in Insns(R), NEW r \in BOOLEAN
  PROVE  [i EXCEPT !.record = r] \in Insns(R)
BY DEF Insns

LEMMA Recordings ==
  ASSUME Chosen, NEW I, I \subseteq Insns(DOMAIN Start)
  PROVE  Recording(I) \subseteq Insns(DOMAIN Start)
<1>1. \A i \in I, r \in Programs[program].records : [i EXCEPT !.record = r] \in Insns(DOMAIN Start)
  <2>. SUFFICES ASSUME NEW i \in I, NEW r \in Programs[program].records
                PROVE  [i EXCEPT !.record = r] \in Insns(DOMAIN Start)
    OBVIOUS
  <2>1. i \in Insns(DOMAIN Start) /\ r \in BOOLEAN
    BY StartIs
  <2>. QED BY <2>1, RecordForms
<1>. QED BY <1>1 DEF Recording

LEMMA ImmediateForms ==
  ASSUME NEW R, NEW i \in Insns(R), NEW m \in Words
  PROVE  [i EXCEPT !.immediate = m] \in Insns(R)
BY DEF Insns

LEMMA FieldedForms ==
  ASSUME NEW R, NEW i \in Insns(R), NEW f \in ConditionFields
  PROVE  [i EXCEPT !.cr_field = f] \in Insns(R)
BY DEF Insns

LEMMA RotatedForms ==
  ASSUME NEW R, NEW i \in Insns(R), NEW s \in BitIndex, NEW b \in Int, NEW e \in Int
  PROVE  [i EXCEPT !.shift = s, !.mask_begin = b, !.mask_end = e] \in Insns(R)
BY DEF Insns

LEMMA BitedForms ==
  ASSUME NEW R, NEW i \in Insns(R), NEW a \in Int, NEW b \in Int,
         NEW d \in {k \in Int : PpcBit(k) \in BitIndex}
  PROVE  [i EXCEPT !.cr_source_a_bit = a, !.cr_source_b_bit = b, !.cr_destination_bit = d] \in Insns(R)
BY DEF Insns

LEMMA MovedForms ==
  ASSUME NEW R, NEW i \in Insns(R), NEW F \in SUBSET ConditionFields, NEW f \in ConditionFields,
         NEW g \in ConditionFields
  PROVE  /\ [i EXCEPT !.cr_fields = F] \in Insns(R)
         /\ [i EXCEPT !.cr_field = f, !.cr_field_source = g] \in Insns(R)
BY DEF Insns

\* A branch form, field by field.
BranchForm(i, d, l, ab, ic, cs, b, in, ns) ==
  [i EXCEPT !.immediate = d, !.link = l, !.absolute = ab,
            !.ignore_condition = ic, !.condition_sense = cs, !.condition_bit = b,
            !.ignore_count = in, !.count_sense = ns]

LEMMA BranchedForms ==
  ASSUME NEW R, NEW i \in Insns(R), NEW d \in Words, NEW l \in BOOLEAN, NEW ab \in BOOLEAN,
         NEW ic \in BOOLEAN, NEW cs \in BOOLEAN, NEW b \in Int, NEW in \in BOOLEAN, NEW ns \in BOOLEAN
  PROVE  BranchForm(i, d, l, ab, ic, cs, b, in, ns) \in Insns(R)
BY DEF Insns, BranchForm

LEMMA Immediates ==
  ASSUME Chosen, NEW m \in Programs[program].immediates
  PROVE  /\ m \in Words /\ m \in 0..(TwoTo[HalfBits] - 1)
         /\ SignExtended(m, HalfBits) \in Words
<1>1. m \in 0..(TwoTo[HalfBits] - 1)
  BY StartIs
<1>. DEFINE h == TwoTo[HalfBits]
<1>2. h \in Nat /\ h > 0 /\ Modulus \in Nat /\ Modulus >= h /\ HalfBits - 1 \in Nat
  <2>1. HalfBits \in Nat /\ WordBits \in Nat /\ HalfBits <= WordBits /\ HalfBits - 1 \in Nat
          /\ Modulus \in Nat /\ h \in Nat /\ h > 0
    BY WordSizes
  <2>2. h <= TwoTo[WordBits]
    BY <2>1, PowerOrder
  <2>. QED BY <2>1, <2>2 DEF Modulus
<1>3. m \in Int /\ 0 <= m /\ m < h
  BY <1>1, <1>2
<1>. HIDE DEF h
<1>4. m % h = m
  BY <1>2, <1>3
<1>5. m \in Words
  BY <1>2, <1>3, WordRange
<1>6. SignExtended(m, HalfBits) = m + (IF m >= TwoTo[HalfBits - 1] THEN Modulus - h ELSE 0)
  BY <1>4, Zenon DEF SignExtended, h
<1>7. m + (Modulus - h) \in Words /\ m + 0 \in Words
  BY <1>2, <1>3, <1>5, WordRange
<1>8. SignExtended(m, HalfBits) \in Words
  <2>1. CASE m >= TwoTo[HalfBits - 1]
    BY <1>6, <1>7, <2>1, Zenon
  <2>2. CASE ~(m >= TwoTo[HalfBits - 1])
    BY <1>6, <1>7, <2>2, Zenon
  <2>. QED BY <2>1, <2>2
<1>. QED BY <1>1, <1>5, <1>8

LEMMA ActionForms ==
  ASSUME Chosen
  PROVE  LET I == Insns(DOMAIN Start) IN
         /\ Registers \subseteq I /\ SignedImmediates \subseteq I /\ UnsignedImmediates \subseteq I
         /\ \A i \in UnsignedImmediates : i.immediate \in 0..(TwoTo[HalfBits] - 1)
         /\ \A i \in I : InField(i) \subseteq I /\ Recording({i}) \subseteq I
         /\ Rotations \subseteq I /\ BitForms \subseteq I /\ FieldForms \subseteq I
         /\ MoveForms \subseteq I /\ BranchForms \subseteq I
<1>. DEFINE I == Insns(DOMAIN Start)
<1>1. Plainly \subseteq I /\ FirstForm \in I
  BY PlainForms
<1>. HIDE DEF I
<1>2. Registers \subseteq I
  BY <1>1, Recordings, Zenon DEF Registers, I
<1>3. \A m \in Words : WithImmediate(m) \subseteq I
  <2>1. \A m \in Words, i \in I : [i EXCEPT !.immediate = m] \in I
    BY ImmediateForms DEF I
  <2>. QED BY <1>1, <2>1 DEF WithImmediate
<1>4. SignedImmediates \subseteq I /\ UnsignedImmediates \subseteq I
  <2>1. \A m \in Programs[program].immediates : m \in Words /\ SignExtended(m, HalfBits) \in Words
    BY Immediates
  <2>. QED BY <1>3, <2>1 DEF SignedImmediates, UnsignedImmediates
<1>5. \A i \in UnsignedImmediates : i.immediate \in 0..(TwoTo[HalfBits] - 1)
  <2>. SUFFICES ASSUME NEW i \in UnsignedImmediates
                PROVE  i.immediate \in 0..(TwoTo[HalfBits] - 1)
    OBVIOUS
  <2>1. PICK m \in Programs[program].immediates : i \in WithImmediate(m)
    BY DEF UnsignedImmediates
  <2>2. PICK j \in Plainly : i = [j EXCEPT !.immediate = m]
    BY <2>1 DEF WithImmediate
  <2>3. i.immediate = m
    BY <1>1, <2>2 DEF I, Insns
  <2>. QED BY <2>3, Immediates
<1>6. \A i \in I : InField(i) \subseteq I /\ Recording({i}) \subseteq I
  <2>1. \A i \in I, f \in ConditionFields : [i EXCEPT !.cr_field = f] \in I
    BY FieldedForms DEF I
  <2>2. \A i \in I : {i} \subseteq I
    OBVIOUS
  <2>3. \A i \in I : Recording({i}) \subseteq I
    BY <2>2, Recordings, Zenon DEF I
  <2>. QED BY <2>1, <2>3 DEF InField
<1>7. Rotations \subseteq I
  <2>. DEFINE Form(i, r) == [i EXCEPT !.shift = r[1], !.mask_begin = r[2], !.mask_end = r[3]]
              J == {Form(i, r) : i \in Plainly, r \in Programs[program].rotations}
  <2>1. \A i \in I, r \in Programs[program].rotations : Form(i, r) \in I
    <3>. SUFFICES ASSUME NEW i \in I, NEW r \in Programs[program].rotations
                  PROVE  Form(i, r) \in I
      OBVIOUS
    <3>1. r[1] \in BitIndex /\ r[2] \in Int /\ r[3] \in Int
      BY StartIs, SmallValues
    <3>. QED BY <3>1, RotatedForms DEF I
  <2>2. Rotations = Recording(J)
    BY DEF Rotations
  <2>. HIDE DEF Form
  <2>3. J \subseteq I
    BY <1>1, <2>1
  <2>. HIDE DEF J
  <2>. QED BY <2>2, <2>3, Recordings, Zenon DEF I
<1>8. BitForms \subseteq I
  <2>1. \A a \in {0, 3}, b \in {2, SignBit}, d \in {0, 2, 5} :
          [FirstForm EXCEPT !.cr_source_a_bit = a, !.cr_source_b_bit = b, !.cr_destination_bit = d] \in I
    <3>. SUFFICES ASSUME NEW a \in {0, 3}, NEW b \in {2, SignBit}, NEW d \in {0, 2, 5}
                  PROVE  [FirstForm EXCEPT !.cr_source_a_bit = a, !.cr_source_b_bit = b,
                                           !.cr_destination_bit = d] \in I
      OBVIOUS
    <3>1. a \in Int /\ b \in Int /\ d \in {k \in Int : PpcBit(k) \in BitIndex}
      BY SmallValues
    <3>. QED BY <1>1, <3>1, BitedForms DEF I
  <2>. QED BY <2>1 DEF BitForms
<1>9. FieldForms \subseteq I
  <2>. DEFINE Form(f, g) == [FirstForm EXCEPT !.cr_field = f, !.cr_field_source = g]
  <2>1. \A f \in ConditionFields, g \in ConditionFields : Form(f, g) \in I
    <3>1. {} \in SUBSET ConditionFields
      OBVIOUS
    <3>. QED BY <1>1, <3>1, MovedForms DEF I
  <2>2. FieldForms = {Form(f, g) : f \in ConditionFields, g \in ConditionFields}
    BY DEF FieldForms
  <2>. HIDE DEF Form
  <2>. QED BY <2>1, <2>2
<1>10. MoveForms \subseteq I
  <2>1. \A i \in I, F \in SUBSET ConditionFields : [i EXCEPT !.cr_fields = F] \in I
    BY SmallValues, MovedForms DEF I
  <2>. QED BY <1>1, <2>1 DEF MoveForms
<1>11. BranchForms \subseteq I
  <2>. DEFINE Form(d, o) ==
                BranchForm(FirstForm, d, o.link, o.absolute, o.sense = {}, TRUE \in o.sense, o.bit,
                           o.count = {}, TRUE \in o.count)
  <2>1. \A d \in Programs[program].displacements, o \in Programs[program].options : Form(d, o) \in I
    <3>. SUFFICES ASSUME NEW d \in Programs[program].displacements, NEW o \in Programs[program].options
                  PROVE  Form(d, o) \in I
      OBVIOUS
    <3>. DEFINE ic == o.sense = {}
                cs == TRUE \in o.sense
                in == o.count = {}
                ns == TRUE \in o.count
    <3>1. ic \in BOOLEAN /\ cs \in BOOLEAN /\ in \in BOOLEAN /\ ns \in BOOLEAN
      OBVIOUS
    <3>2. d \in Words /\ o.link \in BOOLEAN /\ o.absolute \in BOOLEAN /\ o.bit \in Int
      BY StartIs, SmallValues
    <3>. HIDE DEF ic, cs, in, ns
    <3>3. BranchForm(FirstForm, d, o.link, o.absolute, ic, cs, o.bit, in, ns) \in I
      <4>. DEFINE l == o.link
                  ab == o.absolute
                  b == o.bit
      <4>1. d \in Words /\ l \in BOOLEAN /\ ab \in BOOLEAN /\ b \in Int
        BY <3>2
      <4>. HIDE DEF l, ab, b
      <4>2. BranchForm(FirstForm, d, l, ab, ic, cs, b, in, ns) \in Insns(DOMAIN Start)
        <5>. DEFINE R == DOMAIN Start
        <5>1. FirstForm \in Insns(R)
          BY <1>1 DEF I
        <5>. HIDE DEF R
        <5>2. BranchForm(FirstForm, d, l, ab, ic, cs, b, in, ns) \in Insns(R)
          BY <3>1, <4>1, <5>1, BranchedForms
        <5>. QED BY <5>2 DEF R
      <4>. QED BY <4>2, Zenon DEF l, ab, b, I
    <3>. QED BY <3>3, Zenon DEF ic, cs, in, ns
  <2>2. BranchForms = {Form(d, o) : d \in Programs[program].displacements, o \in Programs[program].options}
    BY DEF BranchForms, BranchForm
  <2>. HIDE DEF Form
  <2>. QED BY <2>1, <2>2
<1>. QED BY <1>2, <1>4, <1>5, <1>6, <1>7, <1>8, <1>9, <1>10, <1>11 DEF I

----------------------------------------------------------------------------
(* The end of an instruction: its block goes on, or is written back.        *)

LEMMA EnteredIs ==
  ASSUME NEW R, NEW s \in Machines(R)
  PROVE  IsNative(Entered(s), R) /\ View(Entered(s), s.cia) = s
<1>. DEFINE m == Entered(s)
<1>1. m = [state |-> s, host |-> NoHost, dirty |-> {}]
  BY DEF Entered
<1>2. DOMAIN NoHost = {} /\ NoHost \in [DOMAIN NoHost -> Words]
  BY DEF NoHost
<1>. HIDE DEF m
<1>3. m.state = s /\ m.host = NoHost /\ m.dirty = {}
  BY <1>1
<1>4. IsNative(m, R)
  BY <1>1, <1>2, <1>3 DEF IsNative
<1>5. \A r \in R : s.gpr[r] = Guest(m, r)
  BY <1>2, <1>3 DEF Guest
<1>6. s.cia \in Words
  BY MachineFields
<1>7. View(m, s.cia) = s
  BY <1>3, <1>4, <1>5, <1>6, ViewIs
<1>. QED BY <1>4, <1>7 DEF m

\* The write-back leaves in CpuState the machine the block stood for.
LEMMA FlushIs ==
  ASSUME NEW R, NEW n, IsNative(n, R)
  PROVE  /\ flush_guest_gprs(n).state \in Machines(R)
         /\ flush_guest_gprs(n).state = View(n, n.state.cia)
<1>. DEFINE s == n.state
            g == [r \in R |-> IF r \in n.dirty THEN n.host[r] ELSE s.gpr[r]]
            t == [s EXCEPT !.gpr = g]
            v == View(n, s.cia)
<1>1. s \in Machines(R) /\ DOMAIN n.host \subseteq R /\ n.dirty \subseteq DOMAIN n.host
        /\ (\A r \in DOMAIN n.host \ n.dirty : n.host[r] = s.gpr[r])
        /\ n.host \in [DOMAIN n.host -> Words]
        /\ n = [state |-> s, host |-> n.host, dirty |-> n.dirty]
  BY DEF IsNative
<1>2. s.gpr \in [R -> Words] /\ DOMAIN s.gpr = R /\ s.cia \in Words
  BY <1>1, MachineFields
<1>3. flush_guest_gprs(n).state = t
  <2>. DEFINE h == [r \in DOMAIN s.gpr |-> IF r \in n.dirty THEN n.host[r] ELSE s.gpr[r]]
              u == [s EXCEPT !.gpr = h]
  <2>1. h = g
    BY <1>2
  <2>2. flush_guest_gprs(n) = [n EXCEPT !.state = u]
    BY <1>1 DEF flush_guest_gprs, Machines
  <2>. HIDE DEF h, g, u, s
  <2>3. [n EXCEPT !.state = u].state = u
    BY <1>1
  <2>. QED BY <2>1, <2>2, <2>3, Zenon DEF u
<1>4. g \in [R -> Words]
  BY <1>1, <1>2
<1>5. \A r \in R : g[r] = Guest(n, r)
  BY <1>1 DEF Guest
<1>6. v \in Machines(R) /\ (\A r \in R : v.gpr[r] = Guest(n, r)) /\ v.cr = s.cr /\ v.xer = s.xer
        /\ v.lr = s.lr /\ v.ctr = s.ctr /\ v.gqr = s.gqr /\ v.cia = s.cia
  BY <1>2, ViewFields
<1>. HIDE DEF g, v, s
<1>7. t \in Machines(R) /\ t.gpr = g /\ t.cr = s.cr /\ t.xer = s.xer /\ t.lr = s.lr
        /\ t.ctr = s.ctr /\ t.gqr = s.gqr /\ t.cia = s.cia
  BY <1>1, <1>4 DEF Machines
<1>. HIDE DEF t
<1>8. \A r \in R : t.gpr[r] = Guest(n, r)
  BY <1>5, <1>7
<1>9. View(n, s.cia) = t
  BY <1>2, <1>7, <1>8, ViewIs DEF s
<1>. QED BY <1>3, <1>7, <1>9 DEF s

LEMMA HereIs ==
  ASSUME entry \in Words, index \in Nat
  PROVE  /\ Here \in Words /\ Next4(Here) \in Words
         /\ Next4(Here) = Unsigned(Here + 4)
         /\ Unsigned(entry + 4 * (index + 1)) = Next4(Here)
<1>. DEFINE x == entry + 4 * index
<1>1. x \in Int /\ entry + 4 * (index + 1) = x + 4
  BY WordRange
<1>. HIDE DEF x
<1>2. Unsigned(x) \in Words /\ Unsigned(Unsigned(x) + 4) = Unsigned(x + 4)
  <2>1. 4 \in Int
    OBVIOUS
  <2>2. Unsigned(x) \in Words
    BY <1>1, UnsignedOf
  <2>3. Unsigned(Unsigned(x) + 4) = Unsigned(x + 4)
    BY <1>1, <2>1, UnsignedSum, Zenon
  <2>. QED BY <2>2, <2>3
<1>3. Here = Unsigned(x)
  BY DEF Here, x
<1>4. Unsigned(x) + 4 \in Int
  BY <1>2, WordRange
<1>5. Unsigned(Unsigned(x) + 4) \in Words
  BY <1>4, UnsignedOf
<1>. QED BY <1>1, <1>2, <1>3, <1>5, Zenon DEF Next4

\* Where the next instruction finds the two engines.
Met(R, t) == /\ IsNative(native', R)
             /\ entry' \in Words /\ index' \in Nat
             /\ View(native', Here') = t

LEMMA BlockEnds ==
  ASSUME NEW R, NEW m, IsNative(m, R),
         native' = Entered(flush_guest_gprs(m).state), entry' = flush_guest_gprs(m).state.cia, index' = 0
  PROVE  Met(R, View(m, m.state.cia))
<1>. DEFINE s == flush_guest_gprs(m).state
<1>1. s \in Machines(R) /\ s = View(m, m.state.cia)
  BY FlushIs
<1>. HIDE DEF s
<1>2. s.cia \in Words
  BY <1>1, MachineFields
<1>3. IsNative(Entered(s), R) /\ View(Entered(s), s.cia) = s
  BY <1>1, EnteredIs
<1>4. Here' = s.cia
  <2>1. Here' = Unsigned(entry' + 4 * index')
    BY DEF Here
  <2>2. entry' = s.cia /\ index' = 0
    BY DEF s
  <2>3. s.cia + 4 * 0 = s.cia /\ s.cia \in Int /\ 0 <= s.cia /\ s.cia < Modulus
    BY <1>2, WordRange
  <2>4. Unsigned(s.cia) = s.cia
    BY <2>3, UnsignedNear
  <2>. QED BY <2>1, <2>2, <2>3, <2>4, Zenon
<1>5. native' = Entered(s) /\ entry' = s.cia /\ index' = 0
  BY DEF s
<1>. QED BY <1>1, <1>2, <1>3, <1>4, <1>5 DEF Met

LEMMA BlockContinues ==
  ASSUME NEW R, NEW m, IsNative(m, R), entry \in Words, index \in Nat,
         native' = m, index' = index + 1, entry' = entry
  PROVE  Met(R, View(m, Next4(Here)))
<1>1. Here' = Unsigned(entry' + 4 * index')
  BY DEF Here
<1>2. Here' = Next4(Here)
  <2>1. Unsigned(entry + 4 * (index + 1)) = Next4(Here)
    BY HereIs
  <2>. QED BY <1>1, <2>1, Zenon
<1>3. index' \in Nat
  OBVIOUS
<1>. QED BY <1>2, <1>3 DEF Met

\* After any instruction but a branch.
LEMMA FinishedBlock ==
  ASSUME NEW R, NEW m, NEW t, entry \in Words, index \in Nat, Stands(m, t, R, Here),
         NEW op, op \notin Branches, NEW ends \in BOOLEAN, Finishes(op, m, ends)
  PROVE  Met(R, FellThrough(t))
<1>. DEFINE next == Next4(Here)
            u == SetCia(t, next)
<1>1. Here \in Words /\ next \in Words /\ next = Unsigned(Here + 4)
  BY HereIs
<1>2. IsNative(m, R) /\ View(m, Here) = t
  BY DEF Stands
<1>3. t.cia = Here
  BY <1>1, <1>2, ViewFields
<1>4. FellThrough(t) = u
  BY <1>1, <1>3, Zenon DEF FellThrough, Fallthrough, SetCia
<1>. HIDE DEF next
<1>5. View(m, next) = u
  BY <1>1, <1>2, ViewAt
<1>. HIDE DEF u
<1>6. CASE ends = TRUE
  <2>. DEFINE k == NewCia(m, next)
  <2>1. EndBlock(m, op, next) = flush_guest_gprs(k)
    BY Zenon DEF EndBlock, Branches, NewCia
  <2>2. IsNative(k, R) /\ k.state.cia = next /\ View(k, next) = View(m, next)
    BY <1>1, <1>2, NativeCia
  <2>. HIDE DEF k
  <2>3. native' = Entered(flush_guest_gprs(k).state) /\ entry' = flush_guest_gprs(k).state.cia
          /\ index' = 0
    BY <1>6, <2>1, Zenon DEF Finishes, next
  <2>4. Met(R, View(k, k.state.cia))
    BY <2>2, <2>3, BlockEnds
  <2>. QED BY <1>4, <1>5, <2>2, <2>4, Zenon
<1>7. CASE ends = FALSE
  <2>1. native' = m /\ index' = index + 1 /\ entry' = entry
    BY <1>7, Zenon DEF Finishes
  <2>2. Met(R, View(m, next))
    BY <1>2, <2>1, BlockContinues DEF next
  <2>. QED BY <1>4, <1>5, <2>2, Zenon
<1>. QED BY <1>6, <1>7

\* After a branch.
LEMMA FinishedBranch ==
  ASSUME NEW R, NEW m, NEW w, NEW ends \in BOOLEAN, entry \in Words, index \in Nat,
         Branched(m, w, R, Here, ends), NEW op \in Branches, Finishes(op, m, ends)
  PROVE  Met(R, w)
<1>. DEFINE next == Next4(Here)
<1>1. Here \in Words /\ next \in Words /\ next = Unsigned(Here + 4)
  BY HereIs
<1>2. w.cia \in Words /\ IsNative(m, R) /\ View(m, w.cia) = w
        /\ (IF ends THEN m.state.cia = w.cia ELSE w.cia = Unsigned(Here + 4))
  BY DEF Branched, Stands
<1>3. EndBlock(m, op, next) = flush_guest_gprs(m)
  BY DEF EndBlock, Branches
<1>4. CASE ends = TRUE
  <2>1. native' = Entered(flush_guest_gprs(m).state) /\ entry' = flush_guest_gprs(m).state.cia
          /\ index' = 0
    BY <1>3, <1>4, Zenon DEF Finishes
  <2>2. Met(R, View(m, m.state.cia))
    BY <1>2, <2>1, BlockEnds
  <2>. QED BY <1>2, <1>4, <2>2, Zenon
<1>5. CASE ends = FALSE
  <2>1. native' = m /\ index' = index + 1 /\ entry' = entry
    BY <1>5, Zenon DEF Finishes
  <2>2. Met(R, View(m, next))
    BY <1>2, <2>1, BlockContinues
  <2>3. w.cia = next
    BY <1>1, <1>2, <1>5, Zenon
  <2>. QED BY <1>2, <2>2, <2>3, Zenon
<1>. QED BY <1>4, <1>5

----------------------------------------------------------------------------
(* The inductive invariant: the two machines are always the same.           *)

IInv == /\ Chosen
        /\ IsNative(native, DOMAIN Start)
        /\ entry \in Words /\ index \in Nat
        /\ View(native, Here) = interpreter

LEMMA Started == Init => IInv
<1>. SUFFICES ASSUME Init PROVE IInv
  OBVIOUS
<1>1. Chosen /\ native = Entered(start) /\ entry = start.cia /\ index = 0 /\ interpreter = start
  BY DEF Init, Chosen
<1>2. start \in Machines(DOMAIN Start)
  BY <1>1, StartIs
<1>3. start.cia \in Words
  BY <1>2, MachineFields
<1>4. IsNative(Entered(start), DOMAIN Start) /\ View(Entered(start), start.cia) = start
  BY <1>2, EnteredIs
<1>5. Here = start.cia
  <2>1. Here = Unsigned(start.cia + 4 * 0)
    BY <1>1, Zenon DEF Here
  <2>2. start.cia + 4 * 0 = start.cia /\ start.cia \in Int /\ 0 <= start.cia /\ start.cia < Modulus
    BY <1>3, WordRange
  <2>3. Unsigned(start.cia) = start.cia
    BY <2>2, UnsignedNear
  <2>. QED BY <2>1, <2>2, <2>3, Zenon
<1>6. index \in Nat
  BY <1>1
<1>. QED BY <1>1, <1>3, <1>4, <1>5, <1>6, Zenon DEF IInv

LEMMA Stepped ==
  ASSUME IInv, NEW op, NEW i, Executes(op, i), Met(DOMAIN Start, interpreter')
  PROVE  IInv'
<1>1. program' = program /\ start' = start
  BY DEF Executes
<1>2. Chosen'
  BY <1>1 DEF IInv, Chosen
<1>3. DOMAIN Start' = DOMAIN Start
  BY <1>1 DEF Start
<1>. QED BY <1>2, <1>3 DEF Met, IInv

LEMMA OrdinaryStep ==
  ASSUME IInv, NEW op, op \notin Branches, NEW i, Executes(op, i), NEW m, NEW t, NEW ends \in BOOLEAN,
         Stands(m, t, DOMAIN Start, Here), interpreter' = FellThrough(t), Finishes(op, m, ends)
  PROVE  IInv'
<1>1. entry \in Words /\ index \in Nat
  BY DEF IInv
<1>2. Met(DOMAIN Start, FellThrough(t))
  BY <1>1, FinishedBlock
<1>. QED BY <1>2, Stepped

\* Every step keeps it, when a division's helper finds its registers in CpuState.
LEMMA StepAgrees ==
  ASSUME IInv, Next, ~MidBlockDivide
  PROVE  IInv'
<1>1. /\ IsNative(native, DOMAIN Start) /\ View(native, Here) = interpreter
      /\ Here \in Words /\ entry \in Words /\ index \in Nat
      /\ Last \subseteq BOOLEAN
      /\ \A i \in Insns(DOMAIN Start) : /\ IsInsn(i, DOMAIN Start)
                                       /\ InField(i) \subseteq Insns(DOMAIN Start)
                                       /\ Recording({i}) \subseteq Insns(DOMAIN Start)
      /\ \A i \in Registers \cup SignedImmediates \cup UnsignedImmediates \cup Rotations
              \cup BitForms \cup FieldForms \cup MoveForms \cup BranchForms :
           i \in Insns(DOMAIN Start) /\ IsInsn(i, DOMAIN Start)
      /\ \A i \in UnsignedImmediates : i.immediate \in 0..(TwoTo[HalfBits] - 1)
  <2>1. Chosen /\ entry \in Words /\ index \in Nat /\ IsNative(native, DOMAIN Start)
          /\ View(native, Here) = interpreter
    BY DEF IInv
  <2>2. Here \in Words
    BY <2>1, HereIs
  <2>3. Last \subseteq BOOLEAN
    BY <2>1, StartIs DEF Last
  <2>4. \A i \in Insns(DOMAIN Start) : IsInsn(i, DOMAIN Start)
    BY InsnsFit
  <2>. QED BY <2>1, <2>2, <2>3, <2>4, ActionForms
<1>2. CASE Sum
  <2>1. PICK op \in Allowed(Sums), i \in Registers, last \in Last :
          /\ Executes(op, i)
          /\ interpreter' = FellThrough(ExecuteSum(op, interpreter, i))
          /\ Finishes(op, EmitSum(op, native, i), last)
    BY <1>2, Zenon DEF Sum
  <2>2. op \in Sums /\ op \notin Branches
    BY DEF Allowed, Sums, Branches
  <2>3. IsInsn(i, DOMAIN Start) /\ last \in BOOLEAN
    BY <1>1
  <2>4. Stands(EmitSum(op, native, i), ExecuteSum(op, interpreter, i), DOMAIN Start, Here)
    BY <1>1, <2>2, <2>3, SumsAgree
  <2>. QED BY <2>1, <2>2, <2>3, <2>4, OrdinaryStep
<1>3. CASE Difference
  <2>1. PICK op \in Allowed(Differences), i \in Registers, last \in Last :
          /\ Executes(op, i)
          /\ interpreter' = FellThrough(ExecuteDifference(op, interpreter, i))
          /\ Finishes(op, EmitDifference(op, native, i), last)
    BY <1>3, Zenon DEF Difference
  <2>2. op \in Differences /\ op \notin Branches
    BY DEF Allowed, Differences, Branches
  <2>3. IsInsn(i, DOMAIN Start) /\ last \in BOOLEAN
    BY <1>1
  <2>4. Stands(EmitDifference(op, native, i), ExecuteDifference(op, interpreter, i), DOMAIN Start, Here)
    BY <1>1, <2>2, <2>3, DifferencesAgree
  <2>. QED BY <2>1, <2>2, <2>3, <2>4, OrdinaryStep
<1>4. CASE Division
  <2>1. PICK op \in Allowed(Divisions), i \in Registers, last \in Last :
          /\ RegistersInState(i)
          /\ Executes(op, i)
          /\ interpreter' = FellThrough(ExecuteDivision(op, interpreter, i))
          /\ Finishes(op, EmittedDivision(op, native, i), last)
    BY <1>4, Zenon DEF Division
  <2>2. op \in Divisions /\ op \notin Branches
    BY DEF Allowed, Divisions, Branches
  <2>3. IsInsn(i, DOMAIN Start) /\ last \in BOOLEAN
    BY <1>1
  <2>4. Stands(EmittedDivision(op, native, i), ExecuteDivision(op, interpreter, i), DOMAIN Start, Here)
    BY <1>1, <2>1, <2>2, <2>3, DivisionAgrees DEF RegistersInState
  <2>. QED BY <2>1, <2>2, <2>3, <2>4, OrdinaryStep
<1>5. CASE Immediate
  <2>1. PICK op \in Allowed(SignedOps \cup {"cmplwi"}), i \in Insns(DOMAIN Start), last \in Last :
          /\ Executes(op, i)
          /\ interpreter' = FellThrough(ExecuteImmediate(op, interpreter, i))
          /\ Finishes(op, EmitImmediate(op, native, i), last)
    <3>1. CASE \E op \in Allowed(SignedOps), k \in SignedImmediates, last \in Last :
                 \E i \in IF op = "cmpwi" THEN InField(k)
                           ELSE IF op = "addic" THEN Recording({k}) ELSE {k} :
                   /\ Executes(op, i)
                   /\ interpreter' = FellThrough(ExecuteImmediate(op, interpreter, i))
                   /\ Finishes(op, EmitImmediate(op, native, i), last)
      <4>1. PICK op \in Allowed(SignedOps), k \in SignedImmediates, last \in Last :
                 \E i \in IF op = "cmpwi" THEN InField(k)
                           ELSE IF op = "addic" THEN Recording({k}) ELSE {k} :
                   /\ Executes(op, i)
                   /\ interpreter' = FellThrough(ExecuteImmediate(op, interpreter, i))
                   /\ Finishes(op, EmitImmediate(op, native, i), last)
        BY <3>1, Zenon
      <4>2. PICK i \in IF op = "cmpwi" THEN InField(k)
                       ELSE IF op = "addic" THEN Recording({k}) ELSE {k} :
                   /\ Executes(op, i)
                   /\ interpreter' = FellThrough(ExecuteImmediate(op, interpreter, i))
                   /\ Finishes(op, EmitImmediate(op, native, i), last)
        BY <4>1, Zenon
      <4>3. k \in Insns(DOMAIN Start)
        BY <1>1
      <4>4. i \in Insns(DOMAIN Start)
        BY <1>1, <4>3
      <4>5. op \in Allowed(SignedOps \cup {"cmplwi"})
        BY DEF Allowed
      <4>. QED BY <4>2, <4>4, <4>5, Zenon
    <3>2. CASE \E op \in Allowed({"cmplwi"}), k \in UnsignedImmediates, last \in Last :
                 \E i \in InField(k) :
                   /\ Executes(op, i)
                   /\ interpreter' = FellThrough(ExecuteImmediate(op, interpreter, i))
                   /\ Finishes(op, EmitImmediate(op, native, i), last)
      <4>1. PICK op \in Allowed({"cmplwi"}), k \in UnsignedImmediates, last \in Last :
                 \E i \in InField(k) :
                   /\ Executes(op, i)
                   /\ interpreter' = FellThrough(ExecuteImmediate(op, interpreter, i))
                   /\ Finishes(op, EmitImmediate(op, native, i), last)
        BY <3>2, Zenon
      <4>2. PICK i \in InField(k) :
                   /\ Executes(op, i)
                   /\ interpreter' = FellThrough(ExecuteImmediate(op, interpreter, i))
                   /\ Finishes(op, EmitImmediate(op, native, i), last)
        BY <4>1, Zenon
      <4>3. k \in Insns(DOMAIN Start)
        BY <1>1
      <4>4. i \in Insns(DOMAIN Start)
        BY <1>1, <4>3
      <4>5. op \in Allowed(SignedOps \cup {"cmplwi"})
        BY DEF Allowed
      <4>. QED BY <4>2, <4>4, <4>5, Zenon
    <3>. QED BY <1>5, <3>1, <3>2, Zenon DEF Immediate
  <2>2. op \in SignedOps \cup {"cmplwi"} /\ op \notin Branches
    BY DEF Allowed, SignedOps, Branches
  <2>3. IsInsn(i, DOMAIN Start) /\ last \in BOOLEAN
    BY <1>1
  <2>4. Stands(EmitImmediate(op, native, i), ExecuteImmediate(op, interpreter, i), DOMAIN Start, Here)
    BY <1>1, <2>2, <2>3, ImmediatesAgree
  <2>. QED BY <2>1, <2>2, <2>3, <2>4, OrdinaryStep
<1>6. CASE Logical
  <2>1. PICK op \in Allowed(LogicalOps), i \in UnsignedImmediates, last \in Last :
          /\ Executes(op, i)
          /\ interpreter' = FellThrough(ExecuteLogical(op, interpreter, i))
          /\ Finishes(op, EmittedLogicalImmediate(op, native, i), last)
    BY <1>6, Zenon DEF Logical
  <2>2. op \in LogicalOps /\ op \notin Branches
    BY DEF Allowed, LogicalOps, Branches
  <2>3. IsInsn(i, DOMAIN Start) /\ last \in BOOLEAN /\ i.immediate \in 0..(TwoTo[HalfBits] - 1)
    BY <1>1
  <2>4. Stands(EmittedLogicalImmediate(op, native, i), ExecuteLogical(op, interpreter, i), DOMAIN Start, Here)
    BY <1>1, <2>2, <2>3, LogicalAgrees
  <2>. QED BY <2>1, <2>2, <2>3, <2>4, OrdinaryStep
<1>7. CASE Shift
  <2>1. PICK op \in Allowed(Shifts), k \in Registers, last \in Last :
          \E i \in IF op \in {"cmpw", "cmplw"} THEN InField(k) ELSE {k} :
            /\ Executes(op, i)
            /\ interpreter' = FellThrough(ExecuteShift(op, interpreter, i))
            /\ Finishes(op, EmitShift(op, native, i), last)
    BY <1>7, Zenon DEF Shift
  <2>2. PICK i \in IF op \in {"cmpw", "cmplw"} THEN InField(k) ELSE {k} :
            /\ Executes(op, i)
            /\ interpreter' = FellThrough(ExecuteShift(op, interpreter, i))
            /\ Finishes(op, EmitShift(op, native, i), last)
    BY <2>1, Zenon
  <2>3. op \in Shifts /\ op \notin Branches
    BY DEF Allowed, Shifts, Branches
  <2>4. k \in Insns(DOMAIN Start)
    BY <1>1
  <2>5. i \in Insns(DOMAIN Start)
    BY <1>1, <2>4
  <2>6. IsInsn(i, DOMAIN Start) /\ last \in BOOLEAN
    BY <1>1, <2>5
  <2>7. Stands(EmitShift(op, native, i), ExecuteShift(op, interpreter, i), DOMAIN Start, Here)
    BY <1>1, <2>3, <2>6, ShiftsAgree
  <2>. QED BY <2>2, <2>3, <2>6, <2>7, OrdinaryStep
<1>8. CASE Rotate
  <2>1. PICK op \in Allowed(Rotates), i \in Rotations, last \in Last :
          /\ Executes(op, i)
          /\ interpreter' = FellThrough(ExecuteRotate(op, interpreter, i))
          /\ Finishes(op, EmitRotate(op, native, i), last)
    BY <1>8, Zenon DEF Rotate
  <2>2. op \in Rotates /\ op \notin Branches
    BY DEF Allowed, Rotates, Branches
  <2>3. IsInsn(i, DOMAIN Start) /\ last \in BOOLEAN
    BY <1>1
  <2>4. Stands(EmitRotate(op, native, i), ExecuteRotate(op, interpreter, i), DOMAIN Start, Here)
    BY <1>1, <2>2, <2>3, RotatesAgree
  <2>. QED BY <2>1, <2>2, <2>3, <2>4, OrdinaryStep
<1>9. CASE Condition
  <2>. DEFINE Done(op, i, last) ==
                /\ Executes(op, i)
                /\ interpreter' = FellThrough(ExecuteCondition(op, interpreter, i))
                /\ Finishes(op, EmitCondition(op, native, i), last)
  <2>a. PICK op \in Allowed(BitOps \cup {"mcrf", "mcrxr"}), last \in Last :
          \E i \in IF op \in BitOps THEN BitForms ELSE FieldForms : Done(op, i, last)
    BY <1>9, Zenon DEF Condition
  <2>1. PICK i \in IF op \in BitOps THEN BitForms ELSE FieldForms : Done(op, i, last)
    BY <2>a, Zenon
  <2>2. op \in BitOps \cup {"mcrf", "mcrxr"} /\ op \notin Branches
    BY DEF Allowed, BitOps, Branches
  <2>3. IsInsn(i, DOMAIN Start) /\ last \in BOOLEAN
    BY <1>1
  <2>4. Stands(EmitCondition(op, native, i), ExecuteCondition(op, interpreter, i), DOMAIN Start, Here)
    BY <1>1, <2>2, <2>3, ConditionsAgree
  <2>. QED BY <2>1, <2>2, <2>3, <2>4, OrdinaryStep
<1>10. CASE Move
  <2>. DEFINE Done(op, i, last, ticks) ==
                /\ Executes(op, i)
                /\ interpreter' = FellThrough(ExecuteMove(op, interpreter, i, ticks))
                /\ Finishes(op, EmitMove(op, native, i, ticks), last)
  <2>a. PICK op \in Allowed(Moves), i \in MoveForms, last \in Last :
          \E ticks \in IF op \in {"mftb", "mftbu"} THEN Ticks ELSE {0} : Done(op, i, last, ticks)
    BY <1>10, Zenon DEF Move
  <2>1. PICK ticks \in IF op \in {"mftb", "mftbu"} THEN Ticks ELSE {0} : Done(op, i, last, ticks)
    BY <2>a, Zenon
  <2>2. op \in Moves /\ op \notin Branches /\ ticks \in Ticks
    BY DEF Allowed, Moves, Branches, Ticks
  <2>3. IsInsn(i, DOMAIN Start) /\ last \in BOOLEAN
    BY <1>1
  <2>4. Stands(EmitMove(op, native, i, ticks), ExecuteMove(op, interpreter, i, ticks),
               DOMAIN Start, Here)
    BY <1>1, <2>2, <2>3, MovesAgree
  <2>. QED BY <2>1, <2>2, <2>3, <2>4, OrdinaryStep
<1>11. CASE Branch
  <2>1. PICK op \in Allowed(Branches), i \in BranchForms, last \in Last :
          LET target == IF i.absolute THEN i.immediate ELSE Unsigned(Here + i.immediate)
              ends == last \/ op \in {"bclr", "bcctr"} \/ target # Next4(Here)
          IN  /\ Executes(op, i)
              /\ interpreter' = ExecuteBranch(op, interpreter, i)
              /\ Finishes(op, EmitBranch(op, native, i, Here, ends), ends)
    BY <1>11, Zenon DEF Branch
  <2>. DEFINE target == IF i.absolute THEN i.immediate ELSE Unsigned(Here + i.immediate)
              far == last \/ op \in {"bclr", "bcctr"} \/ target # Next4(Here)
  <2>2. op \in Branches
    BY DEF Allowed
  <2>3. IsInsn(i, DOMAIN Start) /\ far \in BOOLEAN
    BY <1>1
  <2>4. Executes(op, i) /\ interpreter' = ExecuteBranch(op, interpreter, i)
          /\ Finishes(op, EmitBranch(op, native, i, Here, far), far)
    BY <2>1, Zenon
  <2>5. interpreter \in Machines(DOMAIN Start) /\ interpreter.cia = Here
    BY <1>1, ViewFields
  <2>6. Target(interpreter, i) = target
    BY <1>1, <2>3, <2>5, TargetWords
  <2>7. Next4(Here) = Unsigned(Here + 4)
    BY DEF Next4
  <2>8. (op \in {"bclr", "bcctr"} => far) /\ (target # Unsigned(Here + 4) => far)
    BY <2>7, Zenon
  <2>. HIDE DEF target, far
  <2>9. Branched(EmitBranch(op, native, i, Here, far), ExecuteBranch(op, interpreter, i),
                 DOMAIN Start, Here, far)
    BY <1>1, <2>2, <2>3, <2>6, <2>8, BranchesAgree
  <2>10. Met(DOMAIN Start, interpreter')
    BY <1>1, <2>2, <2>3, <2>4, <2>9, FinishedBranch
  <2>. QED BY <2>4, <2>10, Stepped
<1>. QED BY <1>2, <1>3, <1>4, <1>5, <1>6, <1>7, <1>8, <1>9, <1>10, <1>11 DEF Next

LEMMA Stutters == ASSUME IInv, UNCHANGED vars PROVE IInv'
<1>1. /\ program' = program /\ start' = start /\ interpreter' = interpreter
      /\ native' = native /\ entry' = entry /\ index' = index
  BY DEF vars
<1>. QED BY <1>1 DEF IInv, Chosen, Start, Here

LEMMA Inductive == ~MidBlockDivide /\ Spec => []IInv
<1>. SUFFICES ASSUME ~MidBlockDivide PROVE Spec => []IInv
  OBVIOUS
<1>1. Init => IInv
  BY Started
<1>2. IInv /\ [Next]_vars => IInv'
  BY StepAgrees, Stutters
<1>. QED BY <1>1, <1>2, PTL DEF Spec

\* EnginesAgree: whatever a block holds in host registers, the recompiler's machine is the
\* interpreter's after every instruction, for words of any width and every program, as long
\* as a division finds in CpuState the registers its helper uses.
THEOREM IntegerEnginesAgree == ~MidBlockDivide /\ Spec => []EnginesAgree
<1>. SUFFICES ASSUME ~MidBlockDivide PROVE Spec => []EnginesAgree
  OBVIOUS
<1>1. IInv => EnginesAgree
  <2>. SUFFICES ASSUME IInv PROVE EnginesAgree
    OBVIOUS
  <2>1. IsNative(native, DOMAIN Start) /\ View(native, Here) = interpreter /\ Here \in Words
    BY HereIs DEF IInv
  <2>2. Observed = View(native, Here)
    BY <2>1, ObservedIsView
  <2>. QED BY <2>1, <2>2, Zenon DEF EnginesAgree
<1>. QED BY <1>1, Inductive, PTL

\* CacheCoherent: a host register not marked for the write-back has the value of CpuState.
THEOREM HostRegistersCoherent == ~MidBlockDivide /\ Spec => []CacheCoherent
<1>. SUFFICES ASSUME ~MidBlockDivide PROVE Spec => []CacheCoherent
  OBVIOUS
<1>1. IInv => CacheCoherent
  BY DEF IInv, IsNative, CacheCoherent
<1>. QED BY <1>1, Inductive, PTL

----------------------------------------------------------------------------
(* Double words: two instructions and the carry between them.               *)

LEMMA RecordKeeps ==
  ASSUME NEW R, NEW s \in Machines(R), NEW i, i.record \in BOOLEAN, NEW value \in Words
  PROVE  /\ Recorded(s, i, value) \in Machines(R)
         /\ Recorded(s, i, value).gpr = s.gpr /\ Recorded(s, i, value).xer = s.xer
<1>. DEFINE c == RecordedCr(s, i, value)
            t == [s EXCEPT !.cr = c]
<1>1. Recorded(s, i, value) = t /\ c \in SUBSET BitIndex
  <2>1. /\ Recorded(s, i, value) = SetCr(s, RecordedCr(s, i, value))
        /\ RecordedCr(s, i, value) \in SUBSET BitIndex
    BY RecordedIs
  <2>. QED BY <2>1, Zenon DEF SetCr
<1>. HIDE DEF c
<1>2. t \in Machines(R) /\ t.gpr = s.gpr /\ t.xer = s.xer
  BY <1>1, CrIs
<1>. HIDE DEF t
<1>. QED BY <1>1, <1>2, Zenon

LEMMA FellKeeps ==
  ASSUME NEW R, NEW s \in Machines(R)
  PROVE  FellThrough(s).gpr = s.gpr /\ FellThrough(s).xer = s.xer
<1>. DEFINE c == Fallthrough(s)
            t == [s EXCEPT !.cia = c]
<1>1. s.cia \in Words
  BY MachineFields
<1>2. s.cia + 4 \in Int
  BY <1>1, WordRange
<1>3. c \in Words
  BY <1>2, UnsignedOf, Zenon DEF Fallthrough
<1>4. FellThrough(s) = t
  BY Zenon DEF FellThrough
<1>. HIDE DEF c
<1>5. t.gpr = s.gpr /\ t.xer = s.xer
  BY <1>3, CiaIs
<1>. HIDE DEF t
<1>. QED BY <1>4, <1>5, Zenon

\* The register and the bits of XER that an arithmetic instruction leaves.
LEMMA CarriedBits ==
  ASSUME NEW x \in SUBSET BitIndex, NEW c \in BOOLEAN, NEW o \in BOOLEAN
  PROVE  /\ CarrySet(x, c) \in SUBSET BitIndex /\ OverflowSet(x, o) \in SUBSET BitIndex
         /\ Carry(CarrySet(x, c)) = (IF c THEN 1 ELSE 0)
         /\ OV \in OverflowSet(x, o) <=> o
         /\ Carry(x) \in {0, 1}
<1>1. SO # OV /\ SO # CA /\ OV # CA
  BY WordSizes DEF SO, OV, CA, PpcBit
<1>. QED BY <1>1, XerSets DEF CarrySet, OverflowSet, Carry

LEMMA CarryingLeaves ==
  ASSUME NEW R, NEW s \in Machines(R), NEW i, IsInsn(i, R), NEW value \in Words, NEW carry \in BOOLEAN
  PROVE  LET t == FellThrough(WithCarry(s, i, value, carry))
             u == FellThrough(set_xer_carry(Put(s, i, value), carry))
         IN  /\ t.gpr = [s.gpr EXCEPT ![i.destination] = value]
             /\ Carry(t.xer) = (IF carry THEN 1 ELSE 0)
             /\ u.gpr = [s.gpr EXCEPT ![i.destination] = value]
             /\ Carry(u.xer) = (IF carry THEN 1 ELSE 0)
<1>. DEFINE p == Put(s, i, value)
            g == [s.gpr EXCEPT ![i.destination] = value]
            x == CarrySet(s.xer, carry)
            q == [p EXCEPT !.xer = x]
            r == Recorded(q, i, value)
<1>1. i.destination \in R /\ i.record \in BOOLEAN
  BY DEF IsInsn
<1>2. p \in Machines(R) /\ p.gpr = g /\ p.xer = s.xer
  BY <1>1, PutIs
<1>3. s.xer \in SUBSET BitIndex
  BY MachineFields
<1>4. x \in SUBSET BitIndex /\ Carry(x) = (IF carry THEN 1 ELSE 0)
  BY <1>3, CarriedBits
<1>5. set_xer_carry(p, carry) = q
  <2>. HIDE DEF p
  <2>1. set_xer_carry(p, carry) = SetXer(p, CarrySet(p.xer, carry))
    BY <1>2, SetXerIs
  <2>. QED BY <1>2, <2>1, Zenon DEF SetXer
<1>6. WithCarry(s, i, value, carry) = r
  BY <1>5, Zenon DEF WithCarry
<1>. HIDE DEF p, g, x
<1>7. q \in Machines(R) /\ q.gpr = p.gpr /\ q.xer = x
  BY <1>2, <1>4, XerIs
<1>. HIDE DEF q
<1>8. r \in Machines(R) /\ r.gpr = q.gpr /\ r.xer = q.xer
  BY <1>1, <1>7, RecordKeeps
<1>. HIDE DEF r
<1>9. FellThrough(r).gpr = r.gpr /\ FellThrough(r).xer = r.xer
        /\ FellThrough(q).gpr = q.gpr /\ FellThrough(q).xer = q.xer
  BY <1>7, <1>8, FellKeeps
<1>. QED BY <1>2, <1>4, <1>5, <1>6, <1>7, <1>8, <1>9, Zenon DEF p, g

LEMMA BothLeave ==
  ASSUME NEW R, NEW s \in Machines(R), NEW i, IsInsn(i, R), NEW value \in Words,
         NEW carry \in BOOLEAN, NEW overflow \in BOOLEAN
  PROVE  LET t == FellThrough(WithBoth(s, i, value, carry, overflow)) IN
         /\ t.gpr = [s.gpr EXCEPT ![i.destination] = value]
         /\ OV \in t.xer <=> overflow
<1>. DEFINE p == Put(s, i, value)
            g == [s.gpr EXCEPT ![i.destination] = value]
            x == CarrySet(s.xer, carry)
            q == [p EXCEPT !.xer = x]
            y == OverflowSet(x, overflow)
            w == [q EXCEPT !.xer = y]
            r == Recorded(w, i, value)
<1>1. i.destination \in R /\ i.record \in BOOLEAN
  BY DEF IsInsn
<1>2. p \in Machines(R) /\ p.gpr = g /\ p.xer = s.xer
  BY <1>1, PutIs
<1>3. s.xer \in SUBSET BitIndex
  BY MachineFields
<1>4. x \in SUBSET BitIndex
  BY <1>3, CarriedBits
<1>5. set_xer_carry(p, carry) = q
  <2>. HIDE DEF p
  <2>1. set_xer_carry(p, carry) = SetXer(p, CarrySet(p.xer, carry))
    BY <1>2, SetXerIs
  <2>. QED BY <1>2, <2>1, Zenon DEF SetXer
<1>a. WithBoth(s, i, value, carry, overflow) = Recorded(set_overflow(q, overflow), i, value)
  BY <1>5, Zenon DEF WithBoth
<1>. HIDE DEF p, g, x
<1>7. q \in Machines(R) /\ q.gpr = p.gpr /\ q.xer = x
  BY <1>2, <1>4, XerIs
<1>. HIDE DEF q
<1>b. y \in SUBSET BitIndex /\ (OV \in y <=> overflow)
  BY <1>4, CarriedBits
<1>6. set_overflow(q, overflow) = w
  <2>1. set_overflow(q, overflow) = SetXer(q, OverflowSet(q.xer, overflow))
    BY <1>7, SetXerIs
  <2>. QED BY <1>7, <2>1, Zenon DEF SetXer
<1>. HIDE DEF y
<1>c. w \in Machines(R) /\ w.gpr = q.gpr /\ w.xer = y
  BY <1>b, <1>7, XerIs
<1>. HIDE DEF w
<1>8. r \in Machines(R) /\ r.gpr = w.gpr /\ r.xer = w.xer
  BY <1>1, <1>c, RecordKeeps
<1>9. WithBoth(s, i, value, carry, overflow) = r
  BY <1>a, <1>6, Zenon
<1>. HIDE DEF r
<1>10. FellThrough(r).gpr = r.gpr /\ FellThrough(r).xer = r.xer
  BY <1>8, FellKeeps
<1>. QED BY <1>2, <1>b, <1>c, <1>7, <1>8, <1>9, <1>10, Zenon DEF g

\* A word is the same for sums that differ by whole moduli.
LEMMA Congruent ==
  ASSUME NEW z \in Int, NEW k \in Int
  PROVE  Unsigned(z + Modulus * k) = Unsigned(z)
<1>1. Modulus \in Nat /\ Modulus > 0
  BY WordSizes
<1>2. (z + Modulus * k) % Modulus = z % Modulus
  BY <1>1, DivShifted
<1>. QED BY <1>2, Zenon DEF Unsigned

\* A high word h, signed and maybe too large, over a low word.
LEMMA HighOverLow ==
  ASSUME NEW h \in Int, NEW l \in Words, NEW z \in Int, z = Modulus * h + l
  PROVE  /\ Unsigned(h) * Modulus + l = z % (Modulus * Modulus)
         /\ FitsSigned(h) <=> z \in -(Modulus * Smallest) .. (Modulus * Smallest - 1)
<1>. DEFINE M == Modulus
            u == Unsigned(h)
            S == Smallest
<1>1. M \in Nat /\ M > 0 /\ l \in Int /\ 0 <= l /\ l < M /\ S \in Nat
  BY WordRange, WordSizes
<1>2. u \in Words
  BY UnsignedOf
<1>3. PICK q \in Int : h = M * q + u
  BY UnsignedOf
<1>4. u \in Int /\ 0 <= u /\ u <= M - 1
  BY <1>2, WordRange
<1>5. FitsSigned(h) <=> -S <= h /\ h < S
  BY Zenon DEF FitsSigned
<1>. HIDE DEF M, u, S
<1>. DEFINE N == M * M
            r == u * M + l
            b == M * S
<1>6. N \in Nat /\ N > 0 /\ b \in Nat
  BY <1>1
<1>7. u * M <= (M - 1) * M
  BY <1>1, <1>4
<1>8. r \in 0..(N - 1)
  BY <1>1, <1>4, <1>7
<1>9. z = N * q + r
  <2>1. z = M * (M * q + u) + l
    BY <1>3 DEF M
  <2>2. M * (M * q + u) = (M * M) * q + u * M
    BY <1>1, <1>4
  <2>. QED BY <1>1, <1>4, <2>1, <2>2
<1>10. z % N = r
  <2>. HIDE DEF N, r
  <2>. QED BY <1>6, <1>8, <1>9, DivModUnique
<1>11. z = M * h + l
  BY DEF M
<1>12. -S <= h => z >= -b
  <2>. SUFFICES ASSUME -S <= h PROVE z >= -b
    OBVIOUS
  <2>1. M * (h + S) >= 0
    BY <1>1
  <2>2. M * (h + S) = M * h + b
    BY <1>1
  <2>3. M * h \in Int
    BY <1>1
  <2>. HIDE DEF b
  <2>. QED BY <1>1, <1>6, <1>11, <2>1, <2>2, <2>3
<1>13. h < -S => z < -b
  <2>. SUFFICES ASSUME h < -S PROVE z < -b
    OBVIOUS
  <2>1. M * (-S - 1 - h) >= 0
    BY <1>1
  <2>2. M * (-S - 1 - h) = -b - M - M * h
    BY <1>1
  <2>3. M * h \in Int
    BY <1>1
  <2>. HIDE DEF b
  <2>. QED BY <1>1, <1>6, <1>11, <2>1, <2>2, <2>3
<1>14. h < S => z <= b - 1
  <2>. SUFFICES ASSUME h < S PROVE z <= b - 1
    OBVIOUS
  <2>1. M * (S - 1 - h) >= 0
    BY <1>1
  <2>2. M * (S - 1 - h) = b - M - M * h
    BY <1>1
  <2>3. M * h \in Int
    BY <1>1
  <2>. HIDE DEF b
  <2>. QED BY <1>1, <1>6, <1>11, <2>1, <2>2, <2>3
<1>15. h >= S => z > b - 1
  <2>. SUFFICES ASSUME h >= S PROVE z > b - 1
    OBVIOUS
  <2>1. M * (h - S) >= 0
    BY <1>1
  <2>2. M * (h - S) = M * h - b
    BY <1>1
  <2>3. M * h \in Int
    BY <1>1
  <2>. HIDE DEF b
  <2>. QED BY <1>1, <1>6, <1>11, <2>1, <2>2, <2>3
<1>16. FitsSigned(h) <=> z \in -b .. (b - 1)
  <2>. HIDE DEF b
  <2>. QED BY <1>1, <1>5, <1>6, <1>12, <1>13, <1>14, <1>15
<1>. QED BY <1>10, <1>16 DEF M, S, u

\* What the first of a pair adds up, and the borrow of a subtraction.
Low(op, s, i) ==
  CASE op = "addc"   -> A(s, i) + B(s, i)
    [] op = "subfc"  -> B(s, i) - A(s, i)
    [] op = "addic"  -> A(s, i) + i.immediate
    [] op = "subfic" -> i.immediate - A(s, i)
Borrow(op) == IF op \in {"subfc", "subfic"} THEN 1 ELSE 0
\* What the second adds up, exactly and signed.
High(op, s, i) ==
  LET a == Signed(A(s, i))
      b == Signed(B(s, i))
      c == Carry(s.xer)
  IN  CASE op \in {"adde", "addeo"}     -> a + b + c
        [] op \in {"subfe", "subfeo"}   -> b - a - (1 - c)
        [] op \in {"addze", "addzeo"}   -> a + c
        [] op \in {"addme", "addmeo"}   -> a - 1 + c
        [] op \in {"subfze", "subfzeo"} -> -a - 1 + c
        [] op \in {"subfme", "subfmeo"} -> -a - 2 + c

LEMMA FirstFits ==
  ASSUME NEW x \in Words, NEW y \in Words
  PROVE  /\ x + y = Modulus * ((IF x + y >= Modulus THEN 1 ELSE 0) - 0) + Unsigned(x + y)
         /\ y - x = Modulus * ((IF y >= x THEN 1 ELSE 0) - 1) + Unsigned(y - x)
         /\ x + y \in Int /\ y - x \in Int
<1>1. /\ x \in Int /\ 0 <= x /\ x < Modulus /\ y \in Int /\ 0 <= y /\ y < Modulus
      /\ Modulus \in Nat /\ x + y \in Int /\ y - x \in Int
  BY WordFacts
<1>2. Unsigned(x + y) = IF x + y >= Modulus THEN x + y - Modulus ELSE x + y
  <2>1. x + y >= Modulus => Unsigned(x + y) = x + y - Modulus
    BY <1>1, UnsignedNear
  <2>2. x + y < Modulus => Unsigned(x + y) = x + y
    BY <1>1, UnsignedNear
  <2>. QED BY <1>1, <2>1, <2>2
<1>3. Unsigned(y - x) = IF y >= x THEN y - x ELSE y - x + Modulus
  <2>1. y >= x => Unsigned(y - x) = y - x
    BY <1>1, UnsignedNear
  <2>2. y < x => Unsigned(y - x) = y - x + Modulus
    BY <1>1, UnsignedNear
  <2>. QED BY <1>1, <2>1, <2>2
<1>. QED BY <1>1, <1>2, <1>3

LEMMA Operands ==
  ASSUME NEW R, NEW s \in Machines(R), NEW i, IsInsn(i, R)
  PROVE  /\ A(s, i) \in Words /\ B(s, i) \in Words /\ i.immediate \in Words
         /\ Carry(s.xer) \in {0, 1}
<1>1. s.gpr \in [R -> Words] /\ i.base \in R /\ i.source \in R /\ i.immediate \in Words
  BY MachineFields DEF IsInsn
<1>. QED BY <1>1 DEF A, B, Carry

\* The instructions of a pair, as the interpreter executes them.
Ran(op, i, s, t) ==
  /\ op \in Sums => t = FellThrough(ExecuteSum(op, s, i))
  /\ op \in Differences => t = FellThrough(ExecuteDifference(op, s, i))
  /\ op \in SignedOps => t = FellThrough(ExecuteImmediate(op, s, i))

Stored(s, i, value) == [s.gpr EXCEPT ![i.destination] = value]
\* low is what the carry and the word l say of it.
Splits(op, low, carry, l) == low = Modulus * (carry - Borrow(op)) + l

LEMMA FirstLeaves ==
  ASSUME NEW R, NEW s \in Machines(R), NEW i, IsInsn(i, R),
         NEW op \in {"addc", "subfc", "addic", "subfic"}, NEW t, Ran(op, i, s, t)
  PROVE  /\ t.gpr = Stored(s, i, Unsigned(Low(op, s, i)))
         /\ Unsigned(Low(op, s, i)) \in Words /\ Low(op, s, i) \in Int
         /\ Splits(op, Low(op, s, i), Carry(t.xer), Unsigned(Low(op, s, i)))
<1>. DEFINE x == A(s, i)
            y == B(s, i)
            m == i.immediate
<1>1. x \in Words /\ y \in Words /\ m \in Words
  BY Operands
<1>2. CASE op = "addc"
  <2>. DEFINE value == Unsigned(x + y)
              carry == x + y >= Modulus
  <2>1. t = FellThrough(WithCarry(s, i, value, carry))
    BY <1>2 DEF Ran, Sums, ExecuteSum, addc
  <2>2. Low(op, s, i) = x + y /\ Borrow(op) = 0
    BY <1>2 DEF Low, Borrow
  <2>3. x + y = Modulus * ((IF carry THEN 1 ELSE 0) - 0) + value /\ x + y \in Int
    BY <1>1, FirstFits
  <2>4. value \in Words /\ carry \in BOOLEAN
    BY <2>3, UnsignedOf
  <2>. HIDE DEF x, y, value, carry
  <2>5. t.gpr = [s.gpr EXCEPT ![i.destination] = value] /\ Carry(t.xer) = (IF carry THEN 1 ELSE 0)
    BY <2>1, <2>4, CarryingLeaves
  <2>. QED BY <2>2, <2>3, <2>4, <2>5, Zenon DEF value, Stored, Splits
<1>3. CASE op = "subfc"
  <2>. DEFINE value == Unsigned(y - x)
              carry == y >= x
  <2>1. t = FellThrough(WithCarry(s, i, value, carry))
    BY <1>3 DEF Ran, Differences, ExecuteDifference, subfc
  <2>2. Low(op, s, i) = y - x /\ Borrow(op) = 1
    BY <1>3 DEF Low, Borrow
  <2>3. y - x = Modulus * ((IF carry THEN 1 ELSE 0) - 1) + value /\ y - x \in Int
    BY <1>1, FirstFits
  <2>4. value \in Words /\ carry \in BOOLEAN
    BY <2>3, UnsignedOf
  <2>. HIDE DEF x, y, value, carry
  <2>5. t.gpr = [s.gpr EXCEPT ![i.destination] = value] /\ Carry(t.xer) = (IF carry THEN 1 ELSE 0)
    BY <2>1, <2>4, CarryingLeaves
  <2>. QED BY <2>2, <2>3, <2>4, <2>5, Zenon DEF value, Stored, Splits
<1>4. CASE op = "addic"
  <2>. DEFINE value == Unsigned(x + m)
              carry == x + m >= Modulus
  <2>1. t = FellThrough(WithCarry(s, i, value, carry))
    BY <1>4 DEF Ran, SignedOps, ExecuteImmediate, addic
  <2>2. Low(op, s, i) = x + m /\ Borrow(op) = 0
    BY <1>4 DEF Low, Borrow
  <2>3. x + m = Modulus * ((IF carry THEN 1 ELSE 0) - 0) + value /\ x + m \in Int
    BY <1>1, FirstFits
  <2>4. value \in Words /\ carry \in BOOLEAN
    BY <2>3, UnsignedOf
  <2>. HIDE DEF x, m, value, carry
  <2>5. t.gpr = [s.gpr EXCEPT ![i.destination] = value] /\ Carry(t.xer) = (IF carry THEN 1 ELSE 0)
    BY <2>1, <2>4, CarryingLeaves
  <2>. QED BY <2>2, <2>3, <2>4, <2>5, Zenon DEF value, Stored, Splits
<1>5. CASE op = "subfic"
  <2>. DEFINE value == Unsigned(m - x)
              carry == m >= x
  <2>1. t = FellThrough(set_xer_carry(Put(s, i, value), carry))
    BY <1>5 DEF Ran, SignedOps, ExecuteImmediate, subfic
  <2>2. Low(op, s, i) = m - x /\ Borrow(op) = 1
    BY <1>5 DEF Low, Borrow
  <2>3. m - x = Modulus * ((IF carry THEN 1 ELSE 0) - 1) + value /\ m - x \in Int
    BY <1>1, FirstFits
  <2>4. value \in Words /\ carry \in BOOLEAN
    BY <2>3, UnsignedOf
  <2>. HIDE DEF x, m, value, carry
  <2>5. t.gpr = [s.gpr EXCEPT ![i.destination] = value] /\ Carry(t.xer) = (IF carry THEN 1 ELSE 0)
    BY <2>1, <2>4, CarryingLeaves
  <2>. QED BY <2>2, <2>3, <2>4, <2>5, Zenon DEF value, Stored, Splits
<1>. QED BY <1>2, <1>3, <1>4, <1>5

Summed(s, i, sum) == WithCarry(s, i, Unsigned(sum), sum >= Modulus)

LEMMA ExtendedLeaves ==
  ASSUME NEW R, NEW s \in Machines(R), NEW i, IsInsn(i, R), NEW sum \in Int, NEW high \in Int,
         NEW k \in Int, sum = high + Modulus * k
  PROVE  LET t == FellThrough(Summed(s, i, sum))
             u == FellThrough(Extended(s, i, sum, high))
         IN  /\ t.gpr = [s.gpr EXCEPT ![i.destination] = Unsigned(high)]
             /\ u.gpr = [s.gpr EXCEPT ![i.destination] = Unsigned(high)]
             /\ OV \in u.xer <=> ~FitsSigned(high)
<1>. DEFINE value == Unsigned(sum)
            carry == sum >= Modulus
            overflow == ~FitsSigned(high)
<1>1. value = Unsigned(high) /\ value \in Words
  <2>1. Unsigned(high + Modulus * k) = Unsigned(high)
    BY Congruent
  <2>. QED BY <2>1, UnsignedOf
<1>2. Extended(s, i, sum, high) = WithBoth(s, i, value, carry, overflow)
  BY Zenon DEF Extended
<1>3. carry \in BOOLEAN /\ overflow \in BOOLEAN
  BY DEF FitsSigned
<1>. HIDE DEF value, carry, overflow
<1>. DEFINE t == FellThrough(WithCarry(s, i, value, carry))
            u == FellThrough(WithBoth(s, i, value, carry, overflow))
<1>4. t.gpr = [s.gpr EXCEPT ![i.destination] = value]
  BY <1>1, <1>3, CarryingLeaves
<1>5. u.gpr = [s.gpr EXCEPT ![i.destination] = value] /\ (OV \in u.xer <=> overflow)
  BY <1>1, <1>3, BothLeave
<1>6. Summed(s, i, sum) = WithCarry(s, i, value, carry)
  BY Zenon DEF Summed, value, carry
<1>. QED BY <1>1, <1>2, <1>4, <1>5, <1>6, Zenon DEF overflow

\* The unsigned sums of the extended instructions and the exact ones they stand for.
LEMMA SumsOfWords ==
  ASSUME NEW x \in Words, NEW y \in Words, NEW c \in {0, 1}
  PROVE  /\ \E k \in Int : x + y + c = (Signed(x) + Signed(y) + c) + Modulus * k
         /\ \E k \in Int : Not(x) + y + c = (Signed(y) - Signed(x) - (1 - c)) + Modulus * k
         /\ \E k \in Int : x + c = (Signed(x) + c) + Modulus * k
         /\ \E k \in Int : x + AllOnes + c = (Signed(x) - 1 + c) + Modulus * k
         /\ \E k \in Int : Not(x) + c = (-Signed(x) - 1 + c) + Modulus * k
         /\ \E k \in Int : Not(x) + AllOnes + c = (-Signed(x) - 2 + c) + Modulus * k
         /\ x + y + c \in Int /\ Not(x) + y + c \in Int /\ x + c \in Int /\ x + AllOnes + c \in Int
         /\ Not(x) + c \in Int /\ Not(x) + AllOnes + c \in Int
         /\ Signed(x) \in Int /\ Signed(y) \in Int
<1>. DEFINE a == Signed(x)
            b == Signed(y)
            M == Modulus
<1>1. /\ x \in Int /\ y \in Int /\ c \in Int /\ M \in Int /\ a \in Int /\ b \in Int
      /\ a = x \/ a = x - M
      /\ b = y \/ b = y - M
      /\ AllOnes = M - 1 /\ Not(x) = M - 1 - x
  BY WordFacts DEF Not
<1>. HIDE DEF a, b
<1>. DEFINE Off(z, h) == \E k \in Int : z = h + M * k
<1>2. \A z \in Int : \A h \in Int : z - h \in {-M, 0, M, 2 * M} => Off(z, h)
  <2>. SUFFICES ASSUME NEW z \in Int, NEW h \in Int, z - h \in {-M, 0, M, 2 * M}
                PROVE  \E k \in Int : z = h + M * k
    OBVIOUS
  <2>1. M * (-1) = -M /\ M * 0 = 0 /\ M * 1 = M /\ M * 2 = 2 * M /\ {-1, 0, 1, 2} \subseteq Int
    BY <1>1
  <2>2. \E k \in {-1, 0, 1, 2} : z = h + M * k
    BY <1>1, <2>1
  <2>. QED BY <2>1, <2>2
<1>. HIDE DEF M
<1>4. /\ x + y + c \in Int /\ M - 1 - x + y + c \in Int /\ x + c \in Int /\ x + (M - 1) + c \in Int
      /\ M - 1 - x + c \in Int /\ M - 1 - x + (M - 1) + c \in Int
  BY <1>1
<1>5. /\ Off(x + y + c, a + b + c)
      /\ Off(M - 1 - x + y + c, b - a - (1 - c))
      /\ Off(x + c, a + c)
      /\ Off(x + (M - 1) + c, a - 1 + c)
      /\ Off(M - 1 - x + c, -a - 1 + c)
      /\ Off(M - 1 - x + (M - 1) + c, -a - 2 + c)
  <2>1. Off(x + y + c, a + b + c)
    <3>. DEFINE z == x + y + c
                h == a + b + c
    <3>1. z \in Int /\ h \in Int /\ z - h \in {-M, 0, M, 2 * M}
      BY <1>1
    <3>. HIDE DEF z, h
    <3>2. Off(z, h)
      BY <1>2, <3>1
    <3>. QED BY <3>2, Zenon DEF z, h
  <2>2. Off(M - 1 - x + y + c, b - a - (1 - c))
    <3>. DEFINE z == M - 1 - x + y + c
                h == b - a - (1 - c)
    <3>1. z \in Int /\ h \in Int /\ z - h \in {-M, 0, M, 2 * M}
      BY <1>1
    <3>. HIDE DEF z, h
    <3>2. Off(z, h)
      BY <1>2, <3>1
    <3>. QED BY <3>2, Zenon DEF z, h
  <2>3. Off(x + c, a + c)
    <3>. DEFINE z == x + c
                h == a + c
    <3>1. z \in Int /\ h \in Int /\ z - h \in {-M, 0, M, 2 * M}
      BY <1>1
    <3>. HIDE DEF z, h
    <3>2. Off(z, h)
      BY <1>2, <3>1
    <3>. QED BY <3>2, Zenon DEF z, h
  <2>4. Off(x + (M - 1) + c, a - 1 + c)
    <3>. DEFINE z == x + (M - 1) + c
                h == a - 1 + c
    <3>1. z \in Int /\ h \in Int /\ z - h \in {-M, 0, M, 2 * M}
      BY <1>1
    <3>. HIDE DEF z, h
    <3>2. Off(z, h)
      BY <1>2, <3>1
    <3>. QED BY <3>2, Zenon DEF z, h
  <2>5. Off(M - 1 - x + c, -a - 1 + c)
    <3>. DEFINE z == M - 1 - x + c
                h == -a - 1 + c
    <3>1. z \in Int /\ h \in Int /\ z - h \in {-M, 0, M, 2 * M}
      BY <1>1
    <3>. HIDE DEF z, h
    <3>2. Off(z, h)
      BY <1>2, <3>1
    <3>. QED BY <3>2, Zenon DEF z, h
  <2>6. Off(M - 1 - x + (M - 1) + c, -a - 2 + c)
    <3>. DEFINE z == M - 1 - x + (M - 1) + c
                h == -a - 2 + c
    <3>1. z \in Int /\ h \in Int /\ z - h \in {-M, 0, M, 2 * M}
      BY <1>1
    <3>. HIDE DEF z, h
    <3>2. Off(z, h)
      BY <1>2, <3>1
    <3>. QED BY <3>2, Zenon DEF z, h
  <2>. QED BY <2>1, <2>2, <2>3, <2>4, <2>5, <2>6, Zenon
<1>6. AllOnes = M - 1 /\ Not(x) = M - 1 - x /\ a \in Int /\ b \in Int
  BY <1>1
<1>. QED BY <1>4, <1>5, <1>6, Zenon DEF a, b, M, Off

ExtendedOps  == {"adde", "subfe", "addze", "addme", "subfze", "subfme"}
OverflowOps  == {"addeo", "subfeo", "addzeo", "addmeo", "subfzeo", "subfmeo"}

LEMMA SecondLeaves ==
  ASSUME NEW R, NEW s \in Machines(R), NEW i, IsInsn(i, R),
         NEW op \in ExtendedOps \cup OverflowOps, NEW t, Ran(op, i, s, t)
  PROVE  /\ t.gpr = [s.gpr EXCEPT ![i.destination] = Unsigned(High(op, s, i))]
         /\ High(op, s, i) \in Int
         /\ op \in OverflowOps => (OV \in t.xer <=> ~FitsSigned(High(op, s, i)))
<1>. DEFINE x == A(s, i)
            y == B(s, i)
            c == Carry(s.xer)
<1>1. x \in Words /\ y \in Words /\ c \in {0, 1}
  BY Operands
<1>2. CASE op \in {"adde", "addeo"}
  <2>. DEFINE sum == x + y + c
              high == Signed(x) + Signed(y) + c
              plain == FellThrough(Summed(s, i, sum))
              over == FellThrough(Extended(s, i, sum, high))
  <2>1. sum \in Int /\ Signed(x) \in Int /\ Signed(y) \in Int /\ \E k \in Int : sum = high + Modulus * k
    BY <1>1, SumsOfWords
  <2>2. high \in Int
    BY <1>1, <2>1
  <2>3. High(op, s, i) = high
    BY <1>2 DEF High
  <2>4. CASE op = "adde"
    <3>1. t = plain /\ op \notin OverflowOps
      BY <2>4 DEF Ran, Sums, ExecuteSum, adde, OverflowOps, Summed
    <3>. HIDE DEF sum, high
    <3>2. plain.gpr = [s.gpr EXCEPT ![i.destination] = Unsigned(high)]
            /\ over.gpr = [s.gpr EXCEPT ![i.destination] = Unsigned(high)]
      BY <2>1, <2>2, ExtendedLeaves
    <3>. HIDE DEF plain
    <3>. QED BY <2>2, <2>3, <3>1, <3>2, Zenon
  <2>5. CASE op = "addeo"
    <3>1. t = over
      BY <2>5 DEF Ran, Sums, ExecuteSum, addeo
    <3>. HIDE DEF sum, high
    <3>2. over.gpr = [s.gpr EXCEPT ![i.destination] = Unsigned(high)] /\ (OV \in over.xer <=> ~FitsSigned(high))
      BY <2>1, <2>2, ExtendedLeaves
    <3>. HIDE DEF over
    <3>. QED BY <2>2, <2>3, <3>1, <3>2, Zenon
  <2>. QED BY <1>2, <2>4, <2>5
<1>3. CASE op \in {"subfe", "subfeo"}
  <2>. DEFINE sum == Not(x) + y + c
              high == Signed(y) - Signed(x) - (1 - c)
              plain == FellThrough(Summed(s, i, sum))
              over == FellThrough(Extended(s, i, sum, high))
  <2>1. sum \in Int /\ Signed(x) \in Int /\ Signed(y) \in Int /\ \E k \in Int : sum = high + Modulus * k
    BY <1>1, SumsOfWords
  <2>2. high \in Int
    BY <1>1, <2>1
  <2>3. High(op, s, i) = high
    BY <1>3 DEF High
  <2>4. CASE op = "subfe"
    <3>1. t = plain /\ op \notin OverflowOps
      BY <2>4 DEF Ran, Differences, ExecuteDifference, subfe, OverflowOps, Summed
    <3>. HIDE DEF sum, high
    <3>2. plain.gpr = [s.gpr EXCEPT ![i.destination] = Unsigned(high)]
            /\ over.gpr = [s.gpr EXCEPT ![i.destination] = Unsigned(high)]
      BY <2>1, <2>2, ExtendedLeaves
    <3>. HIDE DEF plain
    <3>. QED BY <2>2, <2>3, <3>1, <3>2, Zenon
  <2>5. CASE op = "subfeo"
    <3>1. t = over
      BY <2>5 DEF Ran, Differences, ExecuteDifference, subfeo
    <3>. HIDE DEF sum, high
    <3>2. over.gpr = [s.gpr EXCEPT ![i.destination] = Unsigned(high)] /\ (OV \in over.xer <=> ~FitsSigned(high))
      BY <2>1, <2>2, ExtendedLeaves
    <3>. HIDE DEF over
    <3>. QED BY <2>2, <2>3, <3>1, <3>2, Zenon
  <2>. QED BY <1>3, <2>4, <2>5
<1>4. CASE op \in {"addze", "addzeo"}
  <2>. DEFINE sum == x + c
              high == Signed(x) + c
              plain == FellThrough(Summed(s, i, sum))
              over == FellThrough(Extended(s, i, sum, high))
  <2>1. sum \in Int /\ Signed(x) \in Int /\ Signed(y) \in Int /\ \E k \in Int : sum = high + Modulus * k
    BY <1>1, SumsOfWords
  <2>2. high \in Int
    BY <1>1, <2>1
  <2>3. High(op, s, i) = high
    BY <1>4 DEF High
  <2>4. CASE op = "addze"
    <3>1. t = plain /\ op \notin OverflowOps
      BY <2>4 DEF Ran, Sums, ExecuteSum, addze, OverflowOps, Summed
    <3>. HIDE DEF sum, high
    <3>2. plain.gpr = [s.gpr EXCEPT ![i.destination] = Unsigned(high)]
            /\ over.gpr = [s.gpr EXCEPT ![i.destination] = Unsigned(high)]
      BY <2>1, <2>2, ExtendedLeaves
    <3>. HIDE DEF plain
    <3>. QED BY <2>2, <2>3, <3>1, <3>2, Zenon
  <2>5. CASE op = "addzeo"
    <3>1. t = over
      BY <2>5 DEF Ran, Sums, ExecuteSum, addzeo
    <3>. HIDE DEF sum, high
    <3>2. over.gpr = [s.gpr EXCEPT ![i.destination] = Unsigned(high)] /\ (OV \in over.xer <=> ~FitsSigned(high))
      BY <2>1, <2>2, ExtendedLeaves
    <3>. HIDE DEF over
    <3>. QED BY <2>2, <2>3, <3>1, <3>2, Zenon
  <2>. QED BY <1>4, <2>4, <2>5
<1>5. CASE op \in {"addme", "addmeo"}
  <2>. DEFINE sum == x + AllOnes + c
              high == Signed(x) - 1 + c
              plain == FellThrough(Summed(s, i, sum))
              over == FellThrough(Extended(s, i, sum, high))
  <2>1. sum \in Int /\ Signed(x) \in Int /\ Signed(y) \in Int /\ \E k \in Int : sum = high + Modulus * k
    BY <1>1, SumsOfWords
  <2>2. high \in Int
    BY <1>1, <2>1
  <2>3. High(op, s, i) = high
    BY <1>5 DEF High
  <2>4. CASE op = "addme"
    <3>1. t = plain /\ op \notin OverflowOps
      BY <2>4 DEF Ran, Sums, ExecuteSum, addme, OverflowOps, Summed
    <3>. HIDE DEF sum, high
    <3>2. plain.gpr = [s.gpr EXCEPT ![i.destination] = Unsigned(high)]
            /\ over.gpr = [s.gpr EXCEPT ![i.destination] = Unsigned(high)]
      BY <2>1, <2>2, ExtendedLeaves
    <3>. HIDE DEF plain
    <3>. QED BY <2>2, <2>3, <3>1, <3>2, Zenon
  <2>5. CASE op = "addmeo"
    <3>1. t = over
      BY <2>5 DEF Ran, Sums, ExecuteSum, addmeo
    <3>. HIDE DEF sum, high
    <3>2. over.gpr = [s.gpr EXCEPT ![i.destination] = Unsigned(high)] /\ (OV \in over.xer <=> ~FitsSigned(high))
      BY <2>1, <2>2, ExtendedLeaves
    <3>. HIDE DEF over
    <3>. QED BY <2>2, <2>3, <3>1, <3>2, Zenon
  <2>. QED BY <1>5, <2>4, <2>5
<1>6. CASE op \in {"subfze", "subfzeo"}
  <2>. DEFINE sum == Not(x) + c
              high == -Signed(x) - 1 + c
              plain == FellThrough(Summed(s, i, sum))
              over == FellThrough(Extended(s, i, sum, high))
  <2>1. sum \in Int /\ Signed(x) \in Int /\ Signed(y) \in Int /\ \E k \in Int : sum = high + Modulus * k
    BY <1>1, SumsOfWords
  <2>2. high \in Int
    BY <1>1, <2>1
  <2>3. High(op, s, i) = high
    BY <1>6 DEF High
  <2>4. CASE op = "subfze"
    <3>1. t = plain /\ op \notin OverflowOps
      BY <2>4 DEF Ran, Differences, ExecuteDifference, subfze, OverflowOps, Summed
    <3>. HIDE DEF sum, high
    <3>2. plain.gpr = [s.gpr EXCEPT ![i.destination] = Unsigned(high)]
            /\ over.gpr = [s.gpr EXCEPT ![i.destination] = Unsigned(high)]
      BY <2>1, <2>2, ExtendedLeaves
    <3>. HIDE DEF plain
    <3>. QED BY <2>2, <2>3, <3>1, <3>2, Zenon
  <2>5. CASE op = "subfzeo"
    <3>1. t = over
      BY <2>5 DEF Ran, Differences, ExecuteDifference, subfzeo
    <3>. HIDE DEF sum, high
    <3>2. over.gpr = [s.gpr EXCEPT ![i.destination] = Unsigned(high)] /\ (OV \in over.xer <=> ~FitsSigned(high))
      BY <2>1, <2>2, ExtendedLeaves
    <3>. HIDE DEF over
    <3>. QED BY <2>2, <2>3, <3>1, <3>2, Zenon
  <2>. QED BY <1>6, <2>4, <2>5
<1>7. CASE op \in {"subfme", "subfmeo"}
  <2>. DEFINE sum == Not(x) + AllOnes + c
              high == -Signed(x) - 2 + c
              plain == FellThrough(Summed(s, i, sum))
              over == FellThrough(Extended(s, i, sum, high))
  <2>1. sum \in Int /\ Signed(x) \in Int /\ Signed(y) \in Int /\ \E k \in Int : sum = high + Modulus * k
    BY <1>1, SumsOfWords
  <2>2. high \in Int
    BY <1>1, <2>1
  <2>3. High(op, s, i) = high
    BY <1>7 DEF High
  <2>4. CASE op = "subfme"
    <3>1. t = plain /\ op \notin OverflowOps
      BY <2>4 DEF Ran, Differences, ExecuteDifference, subfme, OverflowOps, Summed
    <3>. HIDE DEF sum, high
    <3>2. plain.gpr = [s.gpr EXCEPT ![i.destination] = Unsigned(high)]
            /\ over.gpr = [s.gpr EXCEPT ![i.destination] = Unsigned(high)]
      BY <2>1, <2>2, ExtendedLeaves
    <3>. HIDE DEF plain
    <3>. QED BY <2>2, <2>3, <3>1, <3>2, Zenon
  <2>5. CASE op = "subfmeo"
    <3>1. t = over
      BY <2>5 DEF Ran, Differences, ExecuteDifference, subfmeo
    <3>. HIDE DEF sum, high
    <3>2. over.gpr = [s.gpr EXCEPT ![i.destination] = Unsigned(high)] /\ (OV \in over.xer <=> ~FitsSigned(high))
      BY <2>1, <2>2, ExtendedLeaves
    <3>. HIDE DEF over
    <3>. QED BY <2>2, <2>3, <3>1, <3>2, Zenon
  <2>. QED BY <1>7, <2>4, <2>5
<1>. QED BY <1>2, <1>3, <1>4, <1>5, <1>6, <1>7 DEF ExtendedOps, OverflowOps

LEMMA PairIsWide ==
  ASSUME NEW R, start \in Machines(R), NEW s \in Machines(R), NEW op1, NEW op2, Pair(op1, op2),
         NEW i1, IsInsn(i1, R), i1.destination = 0, i1.base = 0, i1.source = 1,
         NEW i2, IsInsn(i2, R), i2.destination = 2, i2.base = 2, i2.source = 3,
         NEW t, Ran(op1, i1, start, s), Ran(op2, i2, s, t)
  PROVE  LET exact == Exact(op1, op2, i1.immediate) IN
         /\ t.gpr[2] * Modulus + t.gpr[0] = exact % (Modulus * Modulus)
         /\ op2 \in OverflowOps =>
              (OV \in t.xer <=> exact \notin -(Modulus * Smallest) .. (Modulus * Smallest - 1))
<1>. DEFINE g0 == start.gpr[0]
            g1 == start.gpr[1]
            g2 == start.gpr[2]
            g3 == start.gpr[3]
            m == i1.immediate
            low == Low(op1, start, i1)
            l == Unsigned(low)
            h == High(op2, s, i2)
            c == Carry(s.xer)
            z == Exact(op1, op2, m)
<1>1. /\ op1 \in {"addc", "subfc", "addic", "subfic"}
      /\ op2 \in ExtendedOps \cup OverflowOps
  BY DEF Pair, ExtendedOps, OverflowOps
<1>2. /\ s.gpr = [start.gpr EXCEPT ![0] = l] /\ l \in Words /\ low \in Int
      /\ low = Modulus * (c - Borrow(op1)) + l
  <2>1. op1 \in {"addc", "subfc", "addic", "subfic"}
    BY <1>1
  <2>2. /\ s.gpr = Stored(start, i1, Unsigned(Low(op1, start, i1)))
        /\ Unsigned(Low(op1, start, i1)) \in Words /\ Low(op1, start, i1) \in Int
        /\ Splits(op1, Low(op1, start, i1), Carry(s.xer), Unsigned(Low(op1, start, i1)))
    BY <2>1, FirstLeaves, Zenon
  <2>. QED BY <2>2, Zenon DEF Stored, Splits
<1>3. /\ t.gpr = [s.gpr EXCEPT ![2] = Unsigned(h)] /\ h \in Int
      /\ op2 \in OverflowOps => (OV \in t.xer <=> ~FitsSigned(h))
  BY <1>1, SecondLeaves
<1>4. /\ start.gpr \in [R -> Words] /\ s.gpr \in [R -> Words]
      /\ 0 \in R /\ 1 \in R /\ 2 \in R /\ 3 \in R
  BY MachineFields DEF IsInsn
<1>5. g0 \in Words /\ g1 \in Words /\ g2 \in Words /\ g3 \in Words /\ m \in Words /\ c \in {0, 1}
  BY <1>4, Operands
<1>6. A(start, i1) = g0 /\ B(start, i1) = g1 /\ A(s, i2) = g2 /\ B(s, i2) = g3
  <2>. HIDE DEF l
  <2>1. s.gpr[2] = start.gpr[2] /\ s.gpr[3] = start.gpr[3]
    BY <1>2, <1>4
  <2>. QED BY <2>1, Zenon DEF A, B
<1>7. t.gpr[0] = l /\ t.gpr[2] = Unsigned(h)
  <2>. DEFINE u == Unsigned(h)
  <2>. HIDE DEF l, u
  <2>1. s.gpr[0] = l
    BY <1>2, <1>4
  <2>2. t.gpr[0] = s.gpr[0] /\ t.gpr[2] = u
    BY <1>3, <1>4 DEF u
  <2>. QED BY <2>1, <2>2 DEF u
<1>8. z = Modulus * h + l /\ z \in Int
  <2>. DEFINE a == Signed(g2)
              b == Signed(g3)
              x == a * Modulus + g0
              y == b * Modulus + g1
  <2>1. /\ g0 \in Int /\ g1 \in Int /\ m \in Int /\ a \in Int /\ b \in Int /\ c \in Int
        /\ Modulus \in Int /\ l \in Int
    BY <1>2, <1>5, WordFacts
  <2>2. DoubleSigned(start.gpr[2], start.gpr[0]) = x /\ DoubleSigned(start.gpr[3], start.gpr[1]) = y
    BY DEF DoubleSigned
  <2>3. CASE op1 = "addc" /\ op2 \in {"adde", "addeo"}
    <3>1. low = g0 + g1 /\ Borrow(op1) = 0
      BY <1>6, <2>3 DEF Low, Borrow
    <3>2. h = a + b + c
      BY <1>6, <2>3 DEF High
    <3>3. z = x + y
      BY <2>2, <2>3 DEF Exact
    <3>. HIDE DEF g0, g1, g2, g3, m, low, l, h, c, z, a, b
    <3>. QED BY <1>2, <2>1, <3>1, <3>2, <3>3
  <2>4. CASE op1 = "subfc" /\ op2 \in {"subfe", "subfeo"}
    <3>1. low = g1 - g0 /\ Borrow(op1) = 1
      BY <1>6, <2>4 DEF Low, Borrow
    <3>2. h = b - a - (1 - c)
      BY <1>6, <2>4 DEF High
    <3>3. z = y - x
      BY <2>2, <2>4 DEF Exact
    <3>. HIDE DEF g0, g1, g2, g3, m, low, l, h, c, z, a, b
    <3>. QED BY <1>2, <2>1, <3>1, <3>2, <3>3
  <2>5. CASE op1 = "addic" /\ op2 \in {"addze", "addzeo"}
    <3>1. low = g0 + m /\ Borrow(op1) = 0
      BY <1>6, <2>5 DEF Low, Borrow
    <3>2. h = a + c
      BY <1>6, <2>5 DEF High
    <3>3. z = x + m - 0
      BY <2>2, <2>5 DEF Exact
    <3>. HIDE DEF g0, g1, g2, g3, m, low, l, h, c, z, a, b
    <3>. QED BY <1>2, <2>1, <3>1, <3>2, <3>3
  <2>6. CASE op1 = "addic" /\ op2 \in {"addme", "addmeo"}
    <3>1. low = g0 + m /\ Borrow(op1) = 0
      BY <1>6, <2>6 DEF Low, Borrow
    <3>2. h = a - 1 + c
      BY <1>6, <2>6 DEF High
    <3>3. z = x + m - Modulus
      BY <2>2, <2>6 DEF Exact
    <3>. HIDE DEF g0, g1, g2, g3, m, low, l, h, c, z, a, b
    <3>. QED BY <1>2, <2>1, <3>1, <3>2, <3>3
  <2>7. CASE op1 = "subfic" /\ op2 \in {"subfze", "subfzeo"}
    <3>1. low = m - g0 /\ Borrow(op1) = 1
      BY <1>6, <2>7 DEF Low, Borrow
    <3>2. h = -a - 1 + c
      BY <1>6, <2>7 DEF High
    <3>3. z = m - x - 0
      BY <2>2, <2>7 DEF Exact
    <3>. HIDE DEF g0, g1, g2, g3, m, low, l, h, c, z, a, b
    <3>. QED BY <1>2, <2>1, <3>1, <3>2, <3>3
  <2>8. CASE op1 = "subfic" /\ op2 \in {"subfme", "subfmeo"}
    <3>1. low = m - g0 /\ Borrow(op1) = 1
      BY <1>6, <2>8 DEF Low, Borrow
    <3>2. h = -a - 2 + c
      BY <1>6, <2>8 DEF High
    <3>3. z = m - x - Modulus
      BY <2>2, <2>8 DEF Exact
    <3>. HIDE DEF g0, g1, g2, g3, m, low, l, h, c, z, a, b
    <3>. QED BY <1>2, <2>1, <3>1, <3>2, <3>3
  <2>. QED BY <2>3, <2>4, <2>5, <2>6, <2>7, <2>8 DEF Pair
<1>. HIDE DEF low, l, h, z
<1>9. /\ Unsigned(h) * Modulus + l = z % (Modulus * Modulus)
      /\ FitsSigned(h) <=> z \in -(Modulus * Smallest) .. (Modulus * Smallest - 1)
  BY <1>2, <1>3, <1>8, HighOverLow
<1>. QED BY <1>3, <1>7, <1>9, Zenon DEF z

Operations ==
  Sums \cup Differences \cup Divisions \cup SignedOps \cup {"cmplwi"} \cup LogicalOps \cup Shifts
    \cup Rotates \cup BitOps \cup {"mcrf", "mcrxr"} \cup Moves \cup Branches
Does(op, i) == op \in Operations /\ i \in Insns(DOMAIN Start) /\ Executes(op, i)
                 /\ Ran(op, i, interpreter, interpreter')

\* Every step executes an instruction; of a pair's instructions it is known what they do.
LEMMA StepDoes ==
  ASSUME Chosen, Next
  PROVE  \E op, i : Does(op, i)
<1>1. \A i \in Registers \cup SignedImmediates \cup UnsignedImmediates \cup Rotations
             \cup BitForms \cup FieldForms \cup MoveForms \cup BranchForms :
        i \in Insns(DOMAIN Start)
  BY ActionForms
<1>2. \A i \in Insns(DOMAIN Start) : /\ InField(i) \subseteq Insns(DOMAIN Start)
                                     /\ Recording({i}) \subseteq Insns(DOMAIN Start)
  BY ActionForms
<1>3. CASE Sum
  <2>1. PICK op \in Allowed(Sums), i \in Registers :
          Executes(op, i) /\ interpreter' = FellThrough(ExecuteSum(op, interpreter, i))
    BY <1>3, Zenon DEF Sum
  <2>2. i \in Insns(DOMAIN Start)
    BY <1>1
  <2>3. op \in Operations /\ op \notin Differences /\ op \notin SignedOps
    BY DEF Allowed, Operations, Sums, Differences, SignedOps
  <2>. QED BY <2>1, <2>2, <2>3, Zenon DEF Does, Ran
<1>4. CASE Difference
  <2>1. PICK op \in Allowed(Differences), i \in Registers :
          Executes(op, i) /\ interpreter' = FellThrough(ExecuteDifference(op, interpreter, i))
    BY <1>4, Zenon DEF Difference
  <2>2. i \in Insns(DOMAIN Start)
    BY <1>1
  <2>3. op \in Operations /\ op \notin Sums /\ op \notin SignedOps
    BY DEF Allowed, Operations, Sums, Differences, SignedOps
  <2>. QED BY <2>1, <2>2, <2>3, Zenon DEF Does, Ran
<1>5. CASE Immediate
  <2>. DEFINE Done(op, i) == Executes(op, i)
                               /\ interpreter' = FellThrough(ExecuteImmediate(op, interpreter, i))
  <2>1. \E op \in Allowed(SignedOps \cup {"cmplwi"}), i \in Insns(DOMAIN Start) : Done(op, i)
    <3>1. CASE \E op \in Allowed(SignedOps), k \in SignedImmediates :
                 \E i \in IF op = "cmpwi" THEN InField(k)
                           ELSE IF op = "addic" THEN Recording({k}) ELSE {k} : Done(op, i)
      <4>1. PICK op \in Allowed(SignedOps), k \in SignedImmediates :
                 \E i \in IF op = "cmpwi" THEN InField(k)
                           ELSE IF op = "addic" THEN Recording({k}) ELSE {k} : Done(op, i)
        BY <3>1, Zenon
      <4>2. PICK i \in IF op = "cmpwi" THEN InField(k)
                       ELSE IF op = "addic" THEN Recording({k}) ELSE {k} : Done(op, i)
        BY <4>1, Zenon
      <4>. HIDE DEF Done
      <4>3. k \in Insns(DOMAIN Start)
        BY <1>1
      <4>4. i \in Insns(DOMAIN Start)
        BY <1>2, <4>3
      <4>5. op \in Allowed(SignedOps \cup {"cmplwi"})
        BY DEF Allowed
      <4>. QED BY <4>2, <4>4, <4>5, Zenon
    <3>2. CASE \E op \in Allowed({"cmplwi"}), k \in UnsignedImmediates :
                 \E i \in InField(k) : Done(op, i)
      <4>1. PICK op \in Allowed({"cmplwi"}), k \in UnsignedImmediates :
                 \E i \in InField(k) : Done(op, i)
        BY <3>2, Zenon
      <4>2. PICK i \in InField(k) : Done(op, i)
        BY <4>1, Zenon
      <4>. HIDE DEF Done
      <4>3. k \in Insns(DOMAIN Start)
        BY <1>1
      <4>4. i \in Insns(DOMAIN Start)
        BY <1>2, <4>3
      <4>5. op \in Allowed(SignedOps \cup {"cmplwi"})
        BY DEF Allowed
      <4>. QED BY <4>2, <4>4, <4>5, Zenon
    <3>. QED BY <1>5, <3>1, <3>2, Zenon DEF Immediate
  <2>2. PICK op \in Allowed(SignedOps \cup {"cmplwi"}), i \in Insns(DOMAIN Start) : Done(op, i)
    BY <2>1, Zenon
  <2>. HIDE DEF Done
  <2>3. op \in Operations /\ op \notin Sums /\ op \notin Differences
    BY DEF Allowed, Operations, Sums, Differences, SignedOps
  <2>. QED BY <2>2, <2>3, Zenon DEF Done, Does, Ran
<1>6. CASE Division
  <2>1. PICK op \in Allowed(Divisions), i \in Registers : Executes(op, i)
    BY <1>6, Zenon DEF Division
  <2>2. i \in Insns(DOMAIN Start)
    BY <1>1
  <2>3. op \in Operations /\ op \notin Sums /\ op \notin Differences /\ op \notin SignedOps
    BY DEF Allowed, Operations, Divisions, Sums, Differences, SignedOps
  <2>. QED BY <2>1, <2>2, <2>3, Zenon DEF Does, Ran
<1>7. CASE Logical
  <2>1. PICK op \in Allowed(LogicalOps), i \in UnsignedImmediates : Executes(op, i)
    BY <1>7, Zenon DEF Logical
  <2>2. i \in Insns(DOMAIN Start)
    BY <1>1
  <2>3. op \in Operations /\ op \notin Sums /\ op \notin Differences /\ op \notin SignedOps
    BY DEF Allowed, Operations, LogicalOps, Sums, Differences, SignedOps
  <2>. QED BY <2>1, <2>2, <2>3, Zenon DEF Does, Ran
<1>8. CASE Rotate
  <2>1. PICK op \in Allowed(Rotates), i \in Rotations : Executes(op, i)
    BY <1>8, Zenon DEF Rotate
  <2>2. i \in Insns(DOMAIN Start)
    BY <1>1
  <2>3. op \in Operations /\ op \notin Sums /\ op \notin Differences /\ op \notin SignedOps
    BY DEF Allowed, Operations, Rotates, Sums, Differences, SignedOps
  <2>. QED BY <2>1, <2>2, <2>3, Zenon DEF Does, Ran
<1>9. CASE Move
  <2>1. PICK op \in Allowed(Moves), i \in MoveForms : Executes(op, i)
    BY <1>9, Zenon DEF Move
  <2>2. i \in Insns(DOMAIN Start)
    BY <1>1
  <2>3. op \in Operations /\ op \notin Sums /\ op \notin Differences /\ op \notin SignedOps
    BY DEF Allowed, Operations, Moves, Sums, Differences, SignedOps
  <2>. QED BY <2>1, <2>2, <2>3, Zenon DEF Does, Ran
<1>10. CASE Branch
  <2>1. PICK op \in Allowed(Branches), i \in BranchForms : Executes(op, i)
    BY <1>10, Zenon DEF Branch
  <2>2. i \in Insns(DOMAIN Start)
    BY <1>1
  <2>3. op \in Operations /\ op \notin Sums /\ op \notin Differences /\ op \notin SignedOps
    BY DEF Allowed, Operations, Branches, Sums, Differences, SignedOps
  <2>. QED BY <2>1, <2>2, <2>3, Zenon DEF Does, Ran
<1>11. CASE Shift
  <2>1. PICK op \in Allowed(Shifts), k \in Registers :
          \E i \in IF op \in {"cmpw", "cmplw"} THEN InField(k) ELSE {k} : Executes(op, i)
    BY <1>11, Zenon DEF Shift
  <2>2. PICK i \in IF op \in {"cmpw", "cmplw"} THEN InField(k) ELSE {k} : Executes(op, i)
    BY <2>1, Zenon
  <2>3. k \in Insns(DOMAIN Start)
    BY <1>1
  <2>4. i \in Insns(DOMAIN Start)
    BY <1>2, <2>3
  <2>5. op \in Operations /\ op \notin Sums /\ op \notin Differences /\ op \notin SignedOps
    BY DEF Allowed, Operations, Shifts, Sums, Differences, SignedOps
  <2>. QED BY <2>2, <2>4, <2>5, Zenon DEF Does, Ran
<1>12. CASE Condition
  <2>1. PICK op \in Allowed(BitOps \cup {"mcrf", "mcrxr"}) :
          \E i \in IF op \in BitOps THEN BitForms ELSE FieldForms : Executes(op, i)
    BY <1>12, Zenon DEF Condition
  <2>2. PICK i \in IF op \in BitOps THEN BitForms ELSE FieldForms : Executes(op, i)
    BY <2>1, Zenon
  <2>3. i \in Insns(DOMAIN Start)
    BY <1>1
  <2>4. op \in Operations /\ op \notin Sums /\ op \notin Differences /\ op \notin SignedOps
    BY DEF Allowed, Operations, BitOps, Sums, Differences, SignedOps
  <2>. QED BY <2>2, <2>3, <2>4, Zenon DEF Does, Ran
<1>. QED BY <1>3, <1>4, <1>5, <1>6, <1>7, <1>8, <1>9, <1>10, <1>11, <1>12 DEF Next

\* What has been executed, and what its first two instructions made of the machine.
History ==
  /\ executed \in Seq(Operations \X Insns(DOMAIN Start))
  /\ Len(executed) = 0 => interpreter = start
  /\ Len(executed) = 1 => Ran(executed[1][1], executed[1][2], start, interpreter)
  /\ Len(executed) = 2 => \E s \in Machines(DOMAIN Start) :
                            /\ Ran(executed[1][1], executed[1][2], start, s)
                            /\ Ran(executed[2][1], executed[2][2], s, interpreter)

LEMMA TwoElements ==
  ASSUME NEW S, NEW e \in Seq(S), Len(e) = 2
  PROVE  e[1] \in S /\ e[2] \in S
OBVIOUS

LEMMA HistoryStarts == Init => History
<1>. SUFFICES ASSUME Init PROVE History
  OBVIOUS
<1>1. executed = << >> /\ interpreter = start
  BY DEF Init
<1>. QED BY <1>1 DEF History

LEMMA HistoryGrows ==
  ASSUME IInv, History, Next
  PROVE  History'
<1>. DEFINE S == Operations \X Insns(DOMAIN Start)
            e == executed
            f == executed'
<1>1. Chosen /\ interpreter \in Machines(DOMAIN Start)
  <2>1. Chosen /\ IsNative(native, DOMAIN Start) /\ View(native, Here) = interpreter /\ Here \in Words
    BY HereIs DEF IInv
  <2>. QED BY <2>1, ViewFields
<1>2. PICK op, i : Does(op, i)
  BY <1>1, StepDoes
<1>3. /\ op \in Operations /\ i \in Insns(DOMAIN Start) /\ f = Append(e, <<op, i>>)
      /\ start' = start /\ Ran(op, i, interpreter, interpreter')
  BY <1>2 DEF Does, Executes
<1>4. DOMAIN Start' = DOMAIN Start
  BY <1>3 DEF Start
<1>. DEFINE c == <<op, i>>
<1>5. c \in S /\ c[1] = op /\ c[2] = i /\ e \in Seq(S)
  BY <1>3 DEF History
<1>. HIDE DEF S, c
<1>6. /\ f \in Seq(S) /\ Len(f) = Len(e) + 1 /\ Len(e) \in Nat
      /\ f[Len(e) + 1] = c /\ \A n \in 1..Len(e) : f[n] = e[n]
  BY <1>3, <1>5 DEF c
<1>7. executed' \in Seq(Operations \X Insns(DOMAIN Start'))
  BY <1>4, <1>6 DEF S
<1>. HIDE DEF e, f
<1>8. Len(f) # 0
  BY <1>6
<1>9. ASSUME Len(f) = 1
      PROVE  Ran(f[1][1], f[1][2], start', interpreter')
  <2>0. Len(e) = 0
    <3>. DEFINE n == Len(e)
                k == Len(f)
    <3>1. n \in Nat /\ k = n + 1 /\ k = 1
      BY <1>6, <1>9
    <3>. HIDE DEF n, k
    <3>2. n = 0
      BY <3>1
    <3>. QED BY <3>2 DEF n
  <2>a. Len(e) + 1 = 1
    BY <2>0
  <2>1. Len(e) = 0 /\ f[1] = c
    BY <1>6, <2>0, <2>a, Zenon
  <2>2. interpreter = start
    BY <2>1 DEF History, e
  <2>. QED BY <1>3, <1>5, <2>1, <2>2, Zenon
<1>10. ASSUME Len(f) = 2
       PROVE  \E s \in Machines(DOMAIN Start') : /\ Ran(f[1][1], f[1][2], start', s)
                                                 /\ Ran(f[2][1], f[2][2], s, interpreter')
  <2>0. Len(e) = 1
    <3>. DEFINE n == Len(e)
                k == Len(f)
    <3>1. n \in Nat /\ k = n + 1 /\ k = 2
      BY <1>6, <1>10
    <3>. HIDE DEF n, k
    <3>2. n = 1
      BY <3>1
    <3>. QED BY <3>2 DEF n
  <2>a. Len(e) + 1 = 2 /\ 1 \in 1..Len(e)
    BY <2>0
  <2>1. Len(e) = 1 /\ f[2] = c /\ f[1] = e[1]
    BY <1>6, <2>0, <2>a, Zenon
  <2>2. Ran(e[1][1], e[1][2], start, interpreter)
    BY <2>1 DEF History, e
  <2>3. Ran(f[1][1], f[1][2], start', interpreter) /\ Ran(f[2][1], f[2][2], interpreter, interpreter')
    BY <1>3, <1>5, <2>1, <2>2, Zenon
  <2>. QED BY <1>1, <1>4, <2>3, Zenon
<1>. QED BY <1>7, <1>8, <1>9, <1>10, Zenon DEF History, f

LEMMA HistoryStutters == ASSUME History, UNCHANGED vars PROVE History'
<1>1. start' = start /\ interpreter' = interpreter /\ executed' = executed
  BY DEF vars
<1>. QED BY <1>1 DEF History, Start

LEMMA HistoryKept == ~MidBlockDivide /\ Spec => []History
<1>. SUFFICES ASSUME ~MidBlockDivide PROVE Spec => []History
  OBVIOUS
<1>1. Init => History
  BY HistoryStarts
<1>2. IInv /\ History /\ [Next]_vars => History'
  BY HistoryGrows, HistoryStutters
<1>. QED BY <1>1, <1>2, Inductive, PTL DEF Spec

\* WideArithmetic: an instruction that carries and the one that takes the carry up compute
\* together, on words of any width, the sum or difference of double words, and the overflow
\* forms say exactly whether it fits.
THEOREM DoubleWordsAreExact == ~MidBlockDivide /\ Spec => []WideArithmetic
<1>. SUFFICES ASSUME ~MidBlockDivide PROVE Spec => []WideArithmetic
  OBVIOUS
<1>1. IInv /\ History => WideArithmetic
  <2>. DEFINE R == DOMAIN Start
              op1 == executed[1][1]
              op2 == executed[2][1]
              i1 == executed[1][2]
              i2 == executed[2][2]
              exact == Exact(op1, op2, i1.immediate)
  <2>. SUFFICES ASSUME IInv, History, Len(executed) = 2, Pair(op1, op2),
                       <<i1.destination, i1.base, i1.source>> = <<0, 0, 1>>,
                       <<i2.destination, i2.base, i2.source>> = <<2, 2, 3>>
                PROVE  \A s \in {interpreter, Observed} :
                         /\ s.gpr[2] * Modulus + s.gpr[0] = exact % (Modulus * Modulus)
                         /\ op2 \in OverflowOps =>
                              (OV \in s.xer <=> exact \notin -(Modulus * Smallest) .. (Modulus * Smallest - 1))
    BY Zenon DEF WideArithmetic, OverflowOps
  <2>1. /\ IsNative(native, R) /\ View(native, Here) = interpreter /\ Here \in Words
        /\ start \in Machines(R)
    BY HereIs, StartIs DEF IInv
  <2>2. Observed = interpreter
    BY <2>1, ObservedIsView, Zenon
  <2>3. i1 \in Insns(R) /\ i2 \in Insns(R)
    <3>. DEFINE S == Operations \X Insns(R)
    <3>1. executed \in Seq(S)
      BY DEF History
    <3>2. executed[1] \in S /\ executed[2] \in S
      BY <3>1, TwoElements
    <3>. HIDE DEF R
    <3>. QED BY <3>2
  <2>4. IsInsn(i1, R) /\ IsInsn(i2, R)
    BY <2>3, InsnsFit
  <2>5. PICK s \in Machines(R) : Ran(op1, i1, start, s) /\ Ran(op2, i2, s, interpreter)
    BY Zenon DEF History
  <2>6. /\ i1.destination = 0 /\ i1.base = 0 /\ i1.source = 1
        /\ i2.destination = 2 /\ i2.base = 2 /\ i2.source = 3
    OBVIOUS
  <2>. HIDE DEF R, op1, op2, i1, i2
  <2>7. /\ interpreter.gpr[2] * Modulus + interpreter.gpr[0] = exact % (Modulus * Modulus)
        /\ op2 \in OverflowOps =>
             (OV \in interpreter.xer <=> exact \notin -(Modulus * Smallest) .. (Modulus * Smallest - 1))
    BY <2>1, <2>4, <2>5, <2>6, PairIsWide
  <2>. QED BY <2>2, <2>7, Zenon
<1>. QED BY <1>1, Inductive, HistoryKept, PTL
=============================================================================
