------------------------- MODULE SlottedPageProofs -------------------------
(***************************************************************************)
(* Proofs about SlottedPage, for a page, slots and records of any size.    *)
(*                                                                         *)
(* The bytes of the page are all there is: what makes the code right is    *)
(* that the slot array ends below upper, so that no record is taken for a  *)
(* slot, and that the records above it leave no gap, so that the bytes the *)
(* code counts when it deletes one are those that lie below it.            *)
(***************************************************************************)
EXTENDS SlottedPage, FiniteSetTheorems, TLAPS

\* A set of naturals has a least element.
LEMMA LeastElement ==
    ASSUME NEW T \in SUBSET Nat, T # {}
    PROVE  \E m \in T : \A t \in T : m <= t
<1>1. PICK R : R = {nm \in Nat \X Nat : nm[1] < nm[2]}
  OBVIOUS
<1>2. IsWellFoundedOn(R, Nat)
  BY <1>1, NatLessThanWellFounded DEF OpToRel
<1>3. PICK m \in T : \A t \in T : <<t, m>> \notin R
  BY <1>2, WFMin
<1>4. ASSUME NEW t \in T, t < m PROVE FALSE
  BY <1>1, <1>3, <1>4
<1> QED
  BY <1>4

\* The slots in use among the first n, as the bytes d have them.
Slots(d, n) == {t \in 1 .. n : IsUsed(d, t)}

\* One past the last byte of the record in slot t.
Top(d, t) == OffsetOf(d, t) + LengthOf(d, t)

\* The records of the first n slots fill d from u to the end, one after another.
Apart(d, n) ==
    \A s, t \in Slots(d, n) :
        s # t => Top(d, s) <= OffsetOf(d, t) \/ Top(d, t) <= OffsetOf(d, s)

Within(d, n, u) ==
    \A t \in Slots(d, n) : u <= OffsetOf(d, t) /\ Top(d, t) <= DataSize

Covered(d, n, u) ==
    \A i \in u .. (DataSize - 1) :
        \E t \in Slots(d, n) : OffsetOf(d, t) <= i /\ i < Top(d, t)

Stored(d, n) == \A t \in Slots(d, n) : RecordAt(d, t) \in Records

Packed(d, n, u) ==
    Apart(d, n) /\ Within(d, n, u) /\ Covered(d, n, u) /\ Stored(d, n)

-----------------------------------------------------------------------------
(***************************************************************************)
(* The places of the slots                                                 *)
(***************************************************************************)
\* The cells of slot t lie below the end of the array.
LEMMA SlotCells ==
    ASSUME NEW n \in Nat, NEW t \in 1 .. n, NEW u \in 0 .. DataSize, SlotSize * n <= u
    PROVE  /\ At(t) \in Nat
           /\ At(t) + 2 < u
           /\ At(t) \in Bytes /\ At(t) + 1 \in Bytes /\ At(t) + 2 \in Bytes
<1>1. SlotSize \in Nat /\ SlotSize >= 3 /\ DataSize \in Nat
  BY SlotSizeAssumption, DataSizeAssumption
<1>2. PICK k \in Nat : k = n - t
  OBVIOUS
<1>3. SlotSize * k \in Nat /\ (t - 1) * SlotSize \in Nat
  BY <1>1
<1>4. SlotSize * n = (t - 1) * SlotSize + SlotSize + SlotSize * k
  BY <1>1, <1>2
<1>5. (t - 1) * SlotSize + 3 <= u
  BY <1>1, <1>3, <1>4
<1> QED
  BY <1>1, <1>3, <1>5 DEF At, Bytes

\* Those of two slots do not overlap.
LEMMA SlotsApart ==
    ASSUME NEW s \in Nat \ {0}, NEW t \in Nat \ {0}, s < t
    PROVE  At(s) + 2 < At(t)
<1>1. SlotSize \in Nat /\ SlotSize >= 3
  BY SlotSizeAssumption
<1>2. PICK k \in Nat : t - 1 = s + k
  <2>1. t - 1 - s \in Nat
    OBVIOUS
  <2> QED
    BY <2>1
<1>3. k * SlotSize \in Nat /\ (s - 1) * SlotSize \in Nat
  BY <1>1
<1>4. (t - 1) * SlotSize = (s - 1) * SlotSize + SlotSize + k * SlotSize
  BY <1>1, <1>2
<1> QED
  BY <1>1, <1>3, <1>4 DEF At

LEMMA SlotsDiffer ==
    ASSUME NEW n \in Nat, NEW s \in 1 .. n, NEW t \in 1 .. n, s # t
    PROVE  /\ At(s) \in Int /\ At(t) \in Int
           /\ At(s) + 2 < At(t) \/ At(t) + 2 < At(s)
<1>1. At(s) \in Int /\ At(t) \in Int
  BY SlotSizeAssumption DEF At
<1>2. s \in Nat \ {0} /\ t \in Nat \ {0} /\ (s < t \/ t < s)
  OBVIOUS
<1> QED
  BY <1>1, <1>2, SlotsApart

\* How many slots the page has room for.
LEMMA SlotRoom ==
    /\ DataSize \div SlotSize \in Nat
    /\ Cardinality(SlotIds) = DataSize \div SlotSize
    /\ \A n \in Nat : SlotSize * n <= DataSize <=> n <= DataSize \div SlotSize
<1>1. SlotSize \in Nat \ {0} /\ DataSize \in Nat
  BY SlotSizeAssumption, DataSizeAssumption
<1>2. PICK q : q = DataSize \div SlotSize
  OBVIOUS
<1>3. q \in Nat /\ SlotSize * q <= DataSize /\ DataSize < SlotSize * q + SlotSize
  BY <1>1, <1>2
<1>4. ASSUME NEW n \in Nat
      PROVE  SlotSize * n <= DataSize <=> n <= q
  <2>1. CASE n <= q
    <3>1. PICK k \in Nat : q = n + k
      BY <1>3, <2>1
    <3>2. SlotSize * q = SlotSize * n + SlotSize * k /\ SlotSize * k \in Nat /\ SlotSize * n \in Nat
      BY <1>1, <3>1
    <3> QED
      BY <1>1, <1>3, <2>1, <3>2
  <2>2. CASE q < n
    <3>1. PICK k \in Nat : n = q + 1 + k
      <4>1. n - q - 1 \in Nat /\ n = q + 1 + (n - q - 1)
        BY <1>3, <2>2
      <4> QED
        BY <4>1
    <3>2. SlotSize * n = SlotSize * q + SlotSize + SlotSize * k
      BY <1>1, <1>3, <3>1
    <3>3. SlotSize * k \in Nat /\ SlotSize * q \in Nat
      BY <1>1, <1>3
    <3> QED
      BY <1>1, <1>3, <2>2, <3>2, <3>3
  <2> QED
    BY <1>3, <2>1, <2>2
<1>5. Cardinality(SlotIds) = q
  BY <1>2, <1>3, FS_Interval DEF SlotIds
<1> QED
  BY <1>2, <1>3, <1>4, <1>5

-----------------------------------------------------------------------------
(***************************************************************************)
(* What a packed page says                                                 *)
(***************************************************************************)
LEMMA FieldTypes ==
    ASSUME NEW d \in [Bytes -> Nat], NEW n \in Nat, NEW t \in 1 .. n, SlotSize * n <= DataSize
    PROVE  /\ d[At(t)] \in Nat
           /\ OffsetOf(d, t) \in Nat /\ LengthOf(d, t) \in Nat
           /\ Top(d, t) \in Nat
<1>1. DataSize \in 0 .. DataSize
  BY DataSizeAssumption
<1> QED
  BY <1>1, SlotCells DEF OffsetOf, LengthOf, Top

LEMMA NotEmpty ==
    ASSUME NEW d, NEW t, RecordAt(d, t) \in Records, LengthOf(d, t) \in Nat
    PROVE  LengthOf(d, t) >= 1 /\ Len(RecordAt(d, t)) = LengthOf(d, t)
<1>1. RecordAt(d, t) \in Seq(Nat \ {0}) /\ RecordAt(d, t) # <<>>
  BY RecordsAssumption
<1>2. DOMAIN RecordAt(d, t) = 1 .. LengthOf(d, t)
  BY DEF RecordAt
<1>3. Len(RecordAt(d, t)) = LengthOf(d, t)
  BY <1>1, <1>2
<1> QED
  BY <1>1, <1>3

LEMMA PackedRecord ==
    ASSUME NEW d \in [Bytes -> Nat], NEW n \in Nat, SlotSize * n <= DataSize,
           NEW u \in 0 .. DataSize, Packed(d, n, u), NEW t \in Slots(d, n)
    PROVE  /\ t \in 1 .. n /\ d[At(t)] # 0
           /\ OffsetOf(d, t) \in Nat /\ LengthOf(d, t) \in Nat \ {0}
           /\ Top(d, t) = OffsetOf(d, t) + LengthOf(d, t)
           /\ u <= OffsetOf(d, t) /\ Top(d, t) <= DataSize
           /\ RecordAt(d, t) \in Records
<1>1. t \in 1 .. n /\ d[At(t)] # 0
  BY DEF Slots, IsUsed
<1>2. OffsetOf(d, t) \in Nat /\ LengthOf(d, t) \in Nat
  BY <1>1, FieldTypes
<1>3. RecordAt(d, t) \in Records
  BY DEF Packed, Stored
<1>4. LengthOf(d, t) \in Nat \ {0}
  BY <1>2, <1>3, NotEmpty
<1> QED
  BY <1>1, <1>2, <1>3, <1>4 DEF Packed, Within, Top

-----------------------------------------------------------------------------
(***************************************************************************)
(* A record is put into a slot                                             *)
(***************************************************************************)
\* The cells of d after r was put at offset o and slot s given to it.
PutCells(d, m, s, o, r, e) ==
    /\ e \in [Bytes -> Nat]
    /\ e[At(s)] = 1 /\ e[At(s) + 1] = o /\ e[At(s) + 2] = Len(r)
    /\ \A t \in 1 .. m : t # s => /\ e[At(t)] = d[At(t)]
                                  /\ e[At(t) + 1] = d[At(t) + 1]
                                  /\ e[At(t) + 2] = d[At(t) + 2]
    /\ \A i \in Bytes : i >= o + Len(r) => e[i] = d[i]
    /\ \A i \in 1 .. Len(r) : e[o + i - 1] = r[i]

LEMMA RecordFacts ==
    ASSUME NEW r \in Records
    PROVE  /\ r \in Seq(Nat) /\ Len(r) \in Nat \ {0}
           /\ \A i \in 1 .. Len(r) : r[i] \in Nat
           /\ r = [i \in 1 .. Len(r) |-> r[i]]
<1>1. r \in Seq(Nat \ {0}) /\ r # <<>>
  BY RecordsAssumption
<1>2. Len(r) \in Nat /\ DOMAIN r = 1 .. Len(r)
  BY <1>1
<1>3. \A i \in 1 .. Len(r) : r[i] \in Nat \ {0}
  BY <1>1
<1>4. Len(r) # 0
  BY <1>1
<1>5. r = [i \in 1 .. Len(r) |-> r[i]]
  BY <1>1
<1>6. r \in Seq(Nat)
  BY <1>1, <1>3
<1> QED
  BY <1>2, <1>3, <1>4, <1>5, <1>6

\* w has slot s filled with x, y and z, and is d otherwise.
SlotFilled(d, m, u, s, x, y, z, w) ==
    /\ w \in [Bytes -> Nat]
    /\ w[At(s)] = x /\ w[At(s) + 1] = y /\ w[At(s) + 2] = z
    /\ \A t \in 1 .. m : t # s => /\ w[At(t)] = d[At(t)]
                                  /\ w[At(t) + 1] = d[At(t) + 1]
                                  /\ w[At(t) + 2] = d[At(t) + 2]
    /\ \A i \in Bytes : i >= u => w[i] = d[i]

LEMMA WithSlotCells ==
    ASSUME NEW d \in [Bytes -> Nat], NEW m \in Nat, NEW u \in 0 .. DataSize, SlotSize * m <= u,
           NEW s \in 1 .. m, NEW x \in Nat, NEW y \in Nat, NEW z \in Nat
    PROVE  SlotFilled(d, m, u, s, x, y, z, WithSlot(d, s, x, y, z))
<1>1. PICK a \in Nat : /\ a = At(s) /\ a + 2 < u
                       /\ a \in Bytes /\ a + 1 \in Bytes /\ a + 2 \in Bytes
  BY SlotCells
<1>2. PICK w : w = WithSlot(d, s, x, y, z)
  OBVIOUS
<1>3. w = [d EXCEPT ![a] = x, ![a + 1] = y, ![a + 2] = z]
  BY <1>1, <1>2 DEF WithSlot
<1>4. w \in [Bytes -> Nat] /\ w[a] = x /\ w[a + 1] = y /\ w[a + 2] = z
  BY <1>1, <1>3
<1>5. \A i \in Bytes : i \notin {a, a + 1, a + 2} => w[i] = d[i]
  BY <1>1, <1>3
<1>6. ASSUME NEW t \in 1 .. m, t # s
      PROVE  w[At(t)] = d[At(t)] /\ w[At(t) + 1] = d[At(t) + 1] /\ w[At(t) + 2] = d[At(t) + 2]
  <2>1. PICK b \in Nat : /\ b = At(t) /\ b + 2 < u
                         /\ b \in Bytes /\ b + 1 \in Bytes /\ b + 2 \in Bytes
    BY SlotCells
  <2>2. a + 2 < b \/ b + 2 < a
    BY <1>1, <1>6, <2>1, SlotsDiffer
  <2>3. b \notin {a, a + 1, a + 2} /\ b + 1 \notin {a, a + 1, a + 2}
        /\ b + 2 \notin {a, a + 1, a + 2}
    BY <1>1, <2>1, <2>2
  <2> QED
    BY <1>5, <2>1, <2>3
<1>7. \A i \in Bytes : i >= u => w[i] = d[i]
  <2>1. \A i \in Bytes : i >= u => i \notin {a, a + 1, a + 2}
    BY <1>1 DEF Bytes
  <2> QED
    BY <1>5, <2>1
<1> QED
  BY <1>1, <1>2, <1>4, <1>6, <1>7 DEF SlotFilled

LEMMA PutIsPut ==
    ASSUME NEW d \in [Bytes -> Nat], NEW m \in Nat, NEW u \in 0 .. DataSize,
           NEW s \in 1 .. m, NEW r \in Records, SlotSize * m + Len(r) <= u
    PROVE  PutCells(d, m, s, u - Len(r), r, WithRecord(d, s, u - Len(r), r))
<1>1. Len(r) \in Nat \ {0} /\ \A i \in 1 .. Len(r) : r[i] \in Nat
  BY RecordFacts
<1>2. PICK o : o = u - Len(r)
  OBVIOUS
<1>3. DataSize \in Nat /\ SlotSize * m \in Nat
  BY SlotSizeAssumption, DataSizeAssumption
<1>4. o \in 0 .. DataSize /\ SlotSize * m <= o /\ o \in Nat
  BY <1>1, <1>2, <1>3
<1>5. PICK w : w = WithSlot(d, s, 1, o, Len(r))
  OBVIOUS
<1>6. /\ w \in [Bytes -> Nat]
      /\ w[At(s)] = 1 /\ w[At(s) + 1] = o /\ w[At(s) + 2] = Len(r)
      /\ \A t \in 1 .. m : t # s => /\ w[At(t)] = d[At(t)]
                                    /\ w[At(t) + 1] = d[At(t) + 1]
                                    /\ w[At(t) + 2] = d[At(t) + 2]
      /\ \A i \in Bytes : i >= o => w[i] = d[i]
  <2>1. PICK one \in Nat : one = 1
    OBVIOUS
  <2>2. PICK l \in Nat : l = Len(r)
    BY <1>1
  <2>3. w = WithSlot(d, s, one, o, l) /\ o \in 0 .. DataSize /\ o \in Nat /\ SlotSize * m <= o
    BY <1>4, <1>5, <2>1, <2>2
  <2>4. SlotFilled(d, m, o, s, one, o, l, w)
    BY <2>3, WithSlotCells
  <2> QED
    BY <2>1, <2>2, <2>4 DEF SlotFilled
<1>7. PICK e : e = WithBytes(w, o, r)
  OBVIOUS
<1>8. e = [i \in Bytes |-> IF i \in o .. (o + Len(r) - 1) THEN r[i - o + 1] ELSE w[i]]
  BY <1>7 DEF WithBytes
<1>9. e \in [Bytes -> Nat]
  <2>1. \A i \in Bytes : i \in o .. (o + Len(r) - 1) => i - o + 1 \in 1 .. Len(r)
    BY <1>1, <1>4
  <2> QED
    BY <1>1, <1>6, <1>8, <2>1
<1>10. \A i \in Bytes : i < o => e[i] = w[i]
  BY <1>1, <1>4, <1>8 DEF Bytes
<1>11. \A i \in Bytes : i >= o + Len(r) => e[i] = d[i]
  BY <1>1, <1>4, <1>6, <1>8 DEF Bytes
<1>12. ASSUME NEW i \in 1 .. Len(r) PROVE e[o + i - 1] = r[i]
  <2>1. PICK l \in Nat : l = Len(r)
    BY <1>1
  <2>2. i \in 1 .. l /\ o + l <= DataSize
    BY <1>2, <1>3, <1>4, <2>1
  <2>3. PICK j \in Nat : j = o + i - 1
    BY <1>4, <2>2
  <2>4. j \in Bytes /\ j \in o .. (o + l - 1) /\ j - o + 1 = i
    BY <1>3, <1>4, <2>2, <2>3 DEF Bytes
  <2>5. e[j] = r[j - o + 1]
    BY <1>8, <2>1, <2>4
  <2> QED
    BY <2>3, <2>4, <2>5
<1>13. \A t \in 1 .. m : /\ At(t) \in Bytes /\ At(t) + 1 \in Bytes /\ At(t) + 2 \in Bytes
                         /\ At(t) < o /\ At(t) + 1 < o /\ At(t) + 2 < o
  BY <1>4, SlotCells
<1>14. \A t \in 1 .. m : e[At(t)] = w[At(t)] /\ e[At(t) + 1] = w[At(t) + 1]
                         /\ e[At(t) + 2] = w[At(t) + 2]
  BY <1>10, <1>13
<1>15. PutCells(d, m, s, o, r, e)
  BY <1>6, <1>9, <1>11, <1>12, <1>14 DEF PutCells
<1> QED
  BY <1>2, <1>5, <1>7, <1>15 DEF WithRecord

\* A record whose slot and bytes are the same is the same.
LEMMA SameRecord ==
    ASSUME NEW d, NEW e, NEW t, NEW u \in Nat,
           OffsetOf(e, t) = OffsetOf(d, t), LengthOf(e, t) = LengthOf(d, t),
           OffsetOf(d, t) \in Nat, LengthOf(d, t) \in Nat, u <= OffsetOf(d, t),
           OffsetOf(d, t) + LengthOf(d, t) <= DataSize,
           \A i \in Bytes : i >= u => e[i] = d[i]
    PROVE  RecordAt(e, t) = RecordAt(d, t)
<1>1. PICK f \in Nat : f = OffsetOf(d, t) /\ u <= f
  OBVIOUS
<1>2. PICK l \in Nat : l = LengthOf(d, t) /\ f + l <= DataSize
  BY <1>1
<1>3. ASSUME NEW i \in 1 .. l
      PROVE  f + i - 1 \in Bytes /\ f + i - 1 >= u
  <2>1. i \in Int /\ 1 <= i /\ i <= l /\ DataSize \in Int
    BY <1>3, DataSizeAssumption
  <2>2. 0 <= f + i - 1 /\ f + i - 1 <= DataSize - 1 /\ f + i - 1 >= u
    BY <1>1, <1>2, <2>1
  <2> QED
    BY <2>1, <2>2 DEF Bytes
<1>4. \A i \in 1 .. l : e[f + i - 1] = d[f + i - 1]
  BY <1>3
<1>5. RecordAt(e, t) = [i \in 1 .. l |-> e[f + i - 1]]
      /\ RecordAt(d, t) = [i \in 1 .. l |-> d[f + i - 1]]
  BY <1>1, <1>2 DEF RecordAt
<1> QED
  BY <1>4, <1>5

\* The other records are where they were; the new one joins them from below.
Joined(d, n, m, u, s, r, e) ==
    /\ Packed(e, m, u - Len(r))
    /\ Slots(e, m) = Slots(d, n) \cup {s}
    /\ RecordAt(e, s) = r
    /\ \A t \in Slots(d, n) : RecordAt(e, t) = RecordAt(d, t)

LEMMA PutPacked ==
    ASSUME NEW d \in [Bytes -> Nat], NEW n \in Nat, NEW m \in {n, n + 1},
           NEW u \in 0 .. DataSize, NEW s \in 1 .. m, NEW r \in Records, NEW e,
           SlotSize * m + Len(r) <= u, PutCells(d, m, s, u - Len(r), r, e),
           Packed(d, n, u), s \notin Slots(d, n), m = n + 1 => s = m
    PROVE  Joined(d, n, m, u, s, r, e)
<1>1. /\ Len(r) \in Nat \ {0} /\ \A i \in 1 .. Len(r) : r[i] \in Nat
      /\ r = [i \in 1 .. Len(r) |-> r[i]]
  BY RecordFacts
<1>2. PICK o : o = u - Len(r)
  OBVIOUS
<1>3. DataSize \in Nat /\ SlotSize * m \in Nat /\ SlotSize * n \in Nat
      /\ SlotSize * n <= SlotSize * m /\ m \in Nat
  <2>1. SlotSize * (n + 1) = SlotSize * n + SlotSize
    BY SlotSizeAssumption
  <2> QED
    BY <2>1, SlotSizeAssumption, DataSizeAssumption
<1>4. o \in 0 .. DataSize /\ SlotSize * m <= o /\ o \in Nat /\ o + Len(r) = u
      /\ SlotSize * n <= u /\ SlotSize * n <= DataSize
  BY <1>1, <1>2, <1>3
<1>5. /\ e \in [Bytes -> Nat]
      /\ e[At(s)] = 1 /\ e[At(s) + 1] = o /\ e[At(s) + 2] = Len(r)
      /\ \A t \in 1 .. m : t # s => /\ e[At(t)] = d[At(t)]
                                    /\ e[At(t) + 1] = d[At(t) + 1]
                                    /\ e[At(t) + 2] = d[At(t) + 2]
      /\ \A i \in Bytes : i >= u => e[i] = d[i]
      /\ \A i \in 1 .. Len(r) : e[o + i - 1] = r[i]
  BY <1>2, <1>4 DEF PutCells
<1>6. /\ \A t \in 1 .. n : t \in 1 .. m
      /\ \A t \in 1 .. m : t # s => t \in 1 .. n
  BY <1>3
<1>7. Slots(e, m) = Slots(d, n) \cup {s}
  <2>1. s \in Slots(e, m)
    BY <1>5 DEF Slots, IsUsed
  <2>2. \A t \in 1 .. m : t # s => (t \in Slots(e, m) <=> t \in Slots(d, n))
    BY <1>5, <1>6 DEF Slots, IsUsed
  <2>3. Slots(e, m) \subseteq 1 .. m /\ Slots(d, n) \subseteq 1 .. m
    BY <1>6 DEF Slots
  <2> QED
    BY <2>1, <2>2, <2>3
<1>8. \A t \in Slots(d, n) : /\ t \in 1 .. m /\ t # s
                             /\ OffsetOf(e, t) = OffsetOf(d, t)
                             /\ LengthOf(e, t) = LengthOf(d, t)
                             /\ Top(e, t) = Top(d, t)
  BY <1>5, <1>6 DEF Slots, OffsetOf, LengthOf, Top
<1>9. OffsetOf(e, s) = o /\ LengthOf(e, s) = Len(r) /\ Top(e, s) = u
  BY <1>4, <1>5 DEF OffsetOf, LengthOf, Top
<1>10. RecordAt(e, s) = r
  <2>1. \A i \in 1 .. Len(r) : e[OffsetOf(e, s) + i - 1] = r[i]
    BY <1>5, <1>9
  <2>2. RecordAt(e, s) = [i \in 1 .. Len(r) |-> e[OffsetOf(e, s) + i - 1]]
    BY <1>9 DEF RecordAt
  <2>3. [i \in 1 .. Len(r) |-> e[OffsetOf(e, s) + i - 1]] = [i \in 1 .. Len(r) |-> r[i]]
    BY <2>1
  <2> QED
    BY <1>1, <2>2, <2>3
<1>11. \A t \in Slots(d, n) : /\ OffsetOf(d, t) \in Nat /\ LengthOf(d, t) \in Nat \ {0}
                              /\ Top(d, t) = OffsetOf(d, t) + LengthOf(d, t)
                              /\ u <= OffsetOf(d, t) /\ Top(d, t) <= DataSize
                              /\ RecordAt(d, t) \in Records
  BY <1>4, PackedRecord
<1>12. ASSUME NEW t \in Slots(d, n)
       PROVE  RecordAt(e, t) = RecordAt(d, t)
  <2>1. PICK v \in Nat : v = u
    BY <1>4
  <2>2. /\ OffsetOf(d, t) \in Nat /\ LengthOf(d, t) \in Nat /\ v <= OffsetOf(d, t)
        /\ OffsetOf(d, t) + LengthOf(d, t) <= DataSize
    BY <1>11, <2>1
  <2>3. OffsetOf(e, t) = OffsetOf(d, t) /\ LengthOf(e, t) = LengthOf(d, t)
    BY <1>8
  <2>4. \A i \in Bytes : i >= v => e[i] = d[i]
    BY <1>5, <2>1
  <2> QED
    BY <2>2, <2>3, <2>4, SameRecord
<1>13. Apart(e, m)
  <2>1. \A t1, t2 \in Slots(d, n) : t1 # t2 => Top(e, t1) <= OffsetOf(e, t2)
                                               \/ Top(e, t2) <= OffsetOf(e, t1)
    BY <1>8 DEF Packed, Apart
  <2>2. \A t \in Slots(d, n) : Top(e, s) <= OffsetOf(e, t)
    BY <1>8, <1>9, <1>11
  <2> QED
    BY <1>7, <2>1, <2>2 DEF Apart
<1>14. Within(e, m, o)
  <2>1. \A t \in Slots(d, n) : o <= OffsetOf(e, t) /\ Top(e, t) <= DataSize
    BY <1>1, <1>4, <1>8, <1>11
  <2>2. o <= OffsetOf(e, s) /\ Top(e, s) <= DataSize
    BY <1>3, <1>4, <1>9
  <2> QED
    BY <1>7, <2>1, <2>2 DEF Within
<1>15. Covered(e, m, o)
  <2>1. ASSUME NEW i \in o .. (DataSize - 1)
        PROVE  \E t \in Slots(e, m) : OffsetOf(e, t) <= i /\ i < Top(e, t)
    <3>1. CASE i < u
      BY <1>4, <1>7, <1>9, <3>1
    <3>2. CASE i >= u
      <4>1. i \in u .. (DataSize - 1)
        BY <1>3, <1>4, <3>2
      <4>2. PICK t \in Slots(d, n) : OffsetOf(d, t) <= i /\ i < Top(d, t)
        BY <4>1 DEF Packed, Covered
      <4> QED
        BY <1>7, <1>8, <4>2
    <3> QED
      BY <1>4, <3>1, <3>2
  <2> QED
    BY <2>1 DEF Covered
<1>16. Stored(e, m)
  BY <1>7, <1>10, <1>11, <1>12 DEF Stored
<1> QED
  BY <1>2, <1>7, <1>10, <1>12, <1>13, <1>14, <1>15, <1>16 DEF Packed, Joined

-----------------------------------------------------------------------------
(***************************************************************************)
(* A record is taken out                                                   *)
(***************************************************************************)
\* What the deletion of slot s moves on account of slot n.
SizeMoved(s, n) == IF n \in Moved(s) THEN LengthOf(data, n) ELSE 0

IsSum(s, n, f) == f = [k \in 0 .. n |-> IF k = 0 THEN 0 ELSE f[k - 1] + SizeMoved(s, k)]

LEMMA SumExists ==
    ASSUME NEW s, NEW n \in Nat
    PROVE  \E f : IsSum(s, n, f)
<1> DEFINE Bad == {m \in Nat : ~\E f : IsSum(s, m, f)}
<1>1. SUFFICES ASSUME Bad # {} PROVE FALSE
  OBVIOUS
<1>2. PICK m \in Bad : \A k \in Bad : m <= k
  <2>1. Bad \in SUBSET Nat /\ Bad # {}
    BY <1>1
  <2> HIDE DEF Bad
  <2> QED
    BY <2>1, LeastElement
<1>3. m \in Nat /\ ~\E f : IsSum(s, m, f)
  OBVIOUS
<1>4. CASE m = 0
  <2>1. PICK f : f = [k \in 0 .. 0 |-> 0]
    OBVIOUS
  <2>2. f = [k \in 0 .. 0 |-> IF k = 0 THEN 0 ELSE f[k - 1] + SizeMoved(s, k)]
    BY <2>1
  <2> QED
    BY <1>3, <1>4, <2>2 DEF IsSum
<1>5. CASE m # 0
  <2>1. m - 1 \in Nat /\ m - 1 \notin Bad
    BY <1>2, <1>3, <1>5
  <2>2. PICK f : IsSum(s, m - 1, f)
    BY <2>1
  <2>3. PICK g : g = [k \in 0 .. m |-> IF k = 0 THEN 0 ELSE f[k - 1] + SizeMoved(s, k)]
    OBVIOUS
  <2>4. \A k \in 0 .. (m - 1) : g[k] = f[k]
    <3>1. \A k \in 0 .. (m - 1) : k \in 0 .. m
      BY <1>3
    <3>2. \A k \in 0 .. (m - 1) : f[k] = IF k = 0 THEN 0 ELSE f[k - 1] + SizeMoved(s, k)
      BY <2>2 DEF IsSum
    <3> QED
      BY <2>3, <3>1, <3>2
  <2>5. \A k \in 0 .. m : k # 0 => k - 1 \in 0 .. (m - 1)
    BY <1>3
  <2>6. \A k \in 0 .. m : k # 0 => g[k - 1] = f[k - 1]
    BY <2>4, <2>5
  <2>7. g = [k \in 0 .. m |-> IF k = 0 THEN 0 ELSE g[k - 1] + SizeMoved(s, k)]
    BY <2>3, <2>6
  <2> QED
    BY <1>3, <2>7 DEF IsSum
<1> QED
  BY <1>4, <1>5

LEMMA MoveBytesIsSum ==
    ASSUME NEW s, numSlots \in Nat
    PROVE  \E f : IsSum(s, numSlots, f) /\ MoveBytes(s) = f[numSlots]
<1>1. PICK f : f = CHOOSE g : IsSum(s, numSlots, g)
  OBVIOUS
<1>2. IsSum(s, numSlots, f)
  BY <1>1, SumExists
<1>3. MoveBytes(s) = (CHOOSE g : IsSum(s, numSlots, g))[numSlots]
  BY DEF MoveBytes, IsSum, SizeMoved
<1> QED
  BY <1>1, <1>2, <1>3

\* The page as it is between two calls, before anything went wrong.
PagePacked ==
    /\ data \in [Bytes -> Nat]
    /\ numSlots \in Nat /\ upper \in 0 .. DataSize /\ SlotSize * numSlots <= upper
    /\ Packed(data, numSlots, upper)

LEMMA UsedRecord ==
    ASSUME PagePacked, NEW t \in UsedSlots
    PROVE  /\ t \in 1 .. numSlots /\ data[At(t)] # 0
           /\ OffsetOf(data, t) \in Nat /\ LengthOf(data, t) \in Nat \ {0}
           /\ Top(data, t) = OffsetOf(data, t) + LengthOf(data, t)
           /\ upper <= OffsetOf(data, t) /\ Top(data, t) <= DataSize
           /\ RecordAt(data, t) \in Records
<1>1. SlotSize * numSlots <= DataSize
  BY SlotSizeAssumption, DataSizeAssumption DEF PagePacked
<1>2. t \in Slots(data, numSlots)
  BY DEF UsedSlots, Slots
<1> QED
  BY <1>1, <1>2, PackedRecord DEF PagePacked

\* The records below that of slot s fill the page up to it.
LEMMA MovedFill ==
    ASSUME PagePacked, NEW s \in UsedSlots
    PROVE  /\ \A t \in Moved(s) : t \in UsedSlots /\ t # s /\ Top(data, t) <= OffsetOf(data, s)
           /\ \A t \in UsedSlots : t # s /\ t \notin Moved(s) =>
                  Top(data, s) <= OffsetOf(data, t)
           /\ \A i \in upper .. (OffsetOf(data, s) - 1) :
                  \E t \in Moved(s) : OffsetOf(data, t) <= i /\ i < Top(data, t)
<1>1. Slots(data, numSlots) = UsedSlots
  BY DEF UsedSlots, Slots
<1>2. \A t \in UsedSlots : /\ OffsetOf(data, t) \in Nat /\ LengthOf(data, t) \in Nat \ {0}
                           /\ Top(data, t) = OffsetOf(data, t) + LengthOf(data, t)
                           /\ upper <= OffsetOf(data, t) /\ Top(data, t) <= DataSize
  BY UsedRecord
<1>3. \A t \in UsedSlots : t # s => \/ Top(data, t) <= OffsetOf(data, s)
                                    \/ Top(data, s) <= OffsetOf(data, t)
  BY <1>1 DEF PagePacked, Packed, Apart
<1>4. \A t \in Moved(s) : t \in UsedSlots /\ OffsetOf(data, t) < OffsetOf(data, s)
  BY DEF Moved
<1>5. ASSUME NEW t \in Moved(s)
      PROVE  t # s /\ Top(data, t) <= OffsetOf(data, s)
  <2>1. t \in UsedSlots /\ OffsetOf(data, t) < OffsetOf(data, s)
    BY <1>4, <1>5
  <2>2. t # s
    BY <1>2, <2>1
  <2>3. ~(Top(data, s) <= OffsetOf(data, t))
    BY <1>2, <2>1
  <2> QED
    BY <1>3, <2>1, <2>2, <2>3
<1>6. ASSUME NEW t \in UsedSlots, t # s, t \notin Moved(s)
      PROVE  Top(data, s) <= OffsetOf(data, t)
  <2>1. ~(OffsetOf(data, t) < OffsetOf(data, s))
    BY <1>6 DEF Moved
  <2>2. ~(Top(data, t) <= OffsetOf(data, s))
    BY <1>2, <1>6, <2>1
  <2> QED
    BY <1>3, <1>6, <2>2
<1>7. ASSUME NEW i \in upper .. (OffsetOf(data, s) - 1)
      PROVE  \E t \in Moved(s) : OffsetOf(data, t) <= i /\ i < Top(data, t)
  <2>1. upper \in Nat /\ DataSize \in Nat
    BY DataSizeAssumption DEF PagePacked
  <2>2. i \in upper .. (DataSize - 1) /\ i < OffsetOf(data, s)
    BY <1>2, <1>7, <2>1
  <2>3. PICK t \in UsedSlots : OffsetOf(data, t) <= i /\ i < Top(data, t)
    BY <1>1, <2>2 DEF PagePacked, Packed, Covered
  <2>4. OffsetOf(data, t) < OffsetOf(data, s)
    BY <1>2, <2>1, <2>2, <2>3
  <2> QED
    BY <2>3, <2>4 DEF Moved
<1> QED
  BY <1>4, <1>5, <1>6, <1>7

\* The bytes of the moved records among the first k slots.
MovedTo(s, k) == UNION {Extent(t) : t \in Moved(s) \cap (1 .. k)}

LEMMA MovedToAll ==
    ASSUME PagePacked, NEW s \in UsedSlots
    PROVE  MovedTo(s, numSlots) = upper .. (OffsetOf(data, s) - 1)
<1>1. \A t \in UsedSlots : /\ t \in 1 .. numSlots
                           /\ OffsetOf(data, t) \in Nat /\ LengthOf(data, t) \in Nat \ {0}
                           /\ Top(data, t) = OffsetOf(data, t) + LengthOf(data, t)
                           /\ upper <= OffsetOf(data, t)
  BY UsedRecord
<1>2. /\ \A t \in Moved(s) : t \in UsedSlots /\ Top(data, t) <= OffsetOf(data, s)
      /\ \A i \in upper .. (OffsetOf(data, s) - 1) :
             \E t \in Moved(s) : OffsetOf(data, t) <= i /\ i < Top(data, t)
  BY MovedFill
<1>3. upper \in Nat
  BY DEF PagePacked
<1>4. ASSUME NEW t \in Moved(s), NEW i \in Extent(t)
      PROVE  i \in upper .. (OffsetOf(data, s) - 1)
  <2>1. i \in Int /\ OffsetOf(data, t) <= i /\ i < Top(data, t)
    BY <1>1, <1>2 DEF Extent
  <2> QED
    BY <1>1, <1>2, <1>3, <2>1
<1>5. ASSUME NEW i \in upper .. (OffsetOf(data, s) - 1)
      PROVE  \E t \in Moved(s) \cap (1 .. numSlots) : i \in Extent(t)
  <2>1. PICK t \in Moved(s) : OffsetOf(data, t) <= i /\ i < Top(data, t)
    BY <1>2
  <2>2. i \in Int
    BY <1>1, <1>3
  <2>3. i \in Extent(t)
    BY <1>1, <1>2, <2>1, <2>2 DEF Extent
  <2> QED
    BY <1>1, <1>2, <2>1, <2>3
<1> QED
  BY <1>4, <1>5 DEF MovedTo

LEMMA SumIsSize ==
    ASSUME PagePacked, NEW s \in UsedSlots, NEW f, IsSum(s, numSlots, f)
    PROVE  f[numSlots] = Cardinality(MovedTo(s, numSlots))
<1> DEFINE Right(k) == IsFiniteSet(MovedTo(s, k)) /\ f[k] = Cardinality(MovedTo(s, k))
           Bad == {k \in 0 .. numSlots : ~Right(k)}
<1>1. numSlots \in Nat /\ numSlots \in 0 .. numSlots
  BY DEF PagePacked
<1>2. SUFFICES ASSUME Bad # {} PROVE FALSE
  BY <1>1
<1>3. PICK k \in Bad : \A j \in Bad : k <= j
  <2>1. Bad \in SUBSET Nat /\ Bad # {}
    BY <1>2
  <2> HIDE DEF Bad
  <2> QED
    BY <2>1, LeastElement
<1>4. k \in 0 .. numSlots /\ k \in Nat /\ ~Right(k)
  OBVIOUS
<1>5. f[k] = IF k = 0 THEN 0 ELSE f[k - 1] + SizeMoved(s, k)
  BY <1>4 DEF IsSum
<1>6. CASE k = 0
  <2>1. MovedTo(s, k) = {}
    BY <1>6 DEF MovedTo
  <2> QED
    BY <1>4, <1>5, <1>6, <2>1, FS_EmptySet
<1>7. CASE k # 0
  <2>1. k - 1 \in 0 .. numSlots /\ k - 1 \notin Bad
    BY <1>1, <1>3, <1>4, <1>7
  <2>2. IsFiniteSet(MovedTo(s, k - 1)) /\ f[k - 1] = Cardinality(MovedTo(s, k - 1))
    BY <2>1
  <2>3. 1 .. k = (1 .. (k - 1)) \cup {k}
    BY <1>4, <1>7
  <2>4. f[k - 1] \in Nat
    BY <2>2, FS_CardinalityType
  <2>5. CASE k \notin Moved(s)
    <3>1. MovedTo(s, k) = MovedTo(s, k - 1)
      BY <2>3, <2>5 DEF MovedTo
    <3>2. f[k] = f[k - 1]
      BY <1>5, <1>7, <2>4, <2>5 DEF SizeMoved
    <3> QED
      BY <1>4, <2>2, <3>1, <3>2
  <2>6. CASE k \in Moved(s)
    <3>1. MovedTo(s, k) = MovedTo(s, k - 1) \cup Extent(k)
      BY <2>3, <2>6 DEF MovedTo
    <3>2. k \in UsedSlots
      BY <2>6, MovedFill
    <3>3. OffsetOf(data, k) \in Nat /\ LengthOf(data, k) \in Nat \ {0}
      BY <3>2, UsedRecord
    <3>4. PICK a \in Nat : a = OffsetOf(data, k)
      BY <3>3
    <3>5. PICK l \in Nat \ {0} : l = LengthOf(data, k)
      BY <3>3
    <3>6. Extent(k) = a .. (a + l - 1)
      BY <3>4, <3>5 DEF Extent
    <3>7. IsFiniteSet(Extent(k)) /\ Cardinality(Extent(k)) = l
      <4>1. a + l - 1 \in Int /\ a <= a + l - 1 /\ a + l - 1 - a + 1 = l
        OBVIOUS
      <4> QED
        BY <3>6, <4>1, FS_Interval
    <3>8. ASSUME NEW t \in Moved(s) \cap (1 .. (k - 1)), NEW i \in Extent(t) PROVE i \notin Extent(k)
      <4>1. t \in UsedSlots /\ t # k
        BY <1>4, <3>8, MovedFill
      <4>2. PICK b \in Nat : b = OffsetOf(data, t)
        BY <4>1, UsedRecord
      <4>3. PICK n \in Nat : n = LengthOf(data, t)
        BY <4>1, UsedRecord
      <4>4. b + n <= a \/ a + l <= b
        <5>1. Slots(data, numSlots) = UsedSlots
          BY DEF UsedSlots, Slots
        <5>2. Top(data, t) <= OffsetOf(data, k) \/ Top(data, k) <= OffsetOf(data, t)
          BY <3>2, <4>1, <5>1 DEF PagePacked, Packed, Apart
        <5> QED
          BY <3>4, <3>5, <4>2, <4>3, <5>2 DEF Top
      <4>5. i \in b .. (b + n - 1)
        BY <3>8, <4>2, <4>3 DEF Extent
      <4> QED
        BY <3>6, <4>4, <4>5
    <3>9. MovedTo(s, k - 1) \cap Extent(k) = {}
      BY <3>8 DEF MovedTo
    <3>10. Cardinality({}) = 0
      BY FS_EmptySet
    <3>11. /\ IsFiniteSet(MovedTo(s, k))
           /\ Cardinality(MovedTo(s, k)) = Cardinality(MovedTo(s, k - 1)) + l - 0
      BY <2>2, <3>1, <3>7, <3>9, <3>10, FS_Union
    <3>12. f[k] = f[k - 1] + l
      BY <1>5, <1>7, <2>6, <3>5 DEF SizeMoved
    <3> QED
      BY <1>4, <2>2, <2>4, <3>11, <3>12
  <2> QED
    BY <2>5, <2>6
<1> QED
  BY <1>6, <1>7

\* So the block that is copied is what lies between upper and the record.
LEMMA MoveBytesValue ==
    ASSUME PagePacked, NEW s \in UsedSlots
    PROVE  MoveBytes(s) = OffsetOf(data, s) - upper
<1>1. PICK f : IsSum(s, numSlots, f) /\ MoveBytes(s) = f[numSlots]
  BY MoveBytesIsSum DEF PagePacked
<1>2. MoveBytes(s) = Cardinality(upper .. (OffsetOf(data, s) - 1))
  BY <1>1, SumIsSize, MovedToAll
<1>3. PICK a \in Nat : a = OffsetOf(data, s) /\ upper <= a
  BY UsedRecord
<1>4. upper \in Nat
  BY DEF PagePacked
<1>5. Cardinality(upper .. (a - 1)) = a - upper
  <2>1. a - 1 \in Int /\ upper \in Int
    BY <1>4
  <2>2. CASE upper > a - 1
    <3>1. Cardinality(upper .. (a - 1)) = 0
      BY <2>1, <2>2, FS_Interval
    <3>2. a - upper = 0
      BY <1>3, <1>4, <2>2
    <3> QED
      BY <3>1, <3>2
  <2>3. CASE upper <= a - 1
    <3>1. Cardinality(upper .. (a - 1)) = (a - 1) - upper + 1
      BY <2>1, <2>3, FS_Interval
    <3> QED
      BY <1>4, <3>1
  <2> QED
    BY <1>4, <2>2, <2>3
<1> QED
  BY <1>2, <1>3, <1>5

\* The cells of the page after the record of slot s was taken out.
TakenCells(s, e) ==
    LET length == LengthOf(data, s)
        first == OffsetOf(data, s)
    IN  /\ e \in [Bytes -> Nat]
        /\ e[At(s)] = 0
        /\ \A t \in 1 .. numSlots : t # s =>
               /\ e[At(t)] = data[At(t)]
               /\ e[At(t) + 1] = data[At(t) + 1] + (IF t \in Moved(s) THEN length ELSE 0)
               /\ e[At(t) + 2] = data[At(t) + 2]
        /\ \A i \in upper .. (first - 1) : e[i + length] = data[i]
        /\ \A i \in Bytes : i >= first + length => e[i] = data[i]

LEMMA TakenOut ==
    ASSUME PagePacked, NEW s \in UsedSlots
    PROVE  TakenCells(s, Without(s))
<1>1. PICK l \in Nat \ {0} : l = LengthOf(data, s)
  BY UsedRecord
<1>2. PICK a \in Nat : a = OffsetOf(data, s) /\ upper <= a /\ a + l <= DataSize
  BY <1>1, UsedRecord
<1>3. PICK u \in Nat : u = upper /\ u <= DataSize
  BY DEF PagePacked
<1>4. DataSize \in Nat
  BY DataSizeAssumption
<1>5. data \in [Bytes -> Nat]
  BY DEF PagePacked
<1> DEFINE zeroed == [i \in Bytes |-> IF i \in a .. (a + l - 1) THEN 0 ELSE data[i]]
           offset == CHOOSE o \in {OffsetOf(data, t) : t \in Moved(s)} :
                         \A t \in Moved(s) : o <= OffsetOf(data, t)
           block == IF MoveBytes(s) = 0 THEN {} ELSE (offset + l) .. (offset + l + MoveBytes(s) - 1)
           copied == [i \in Bytes |-> IF i \in block THEN zeroed[i - l] ELSE zeroed[i]]
           Shifted(i) == \E t \in Moved(s) : i = At(t) + 1
           shifted == [i \in Bytes |-> IF Shifted(i) THEN copied[i] + l ELSE copied[i]]
<1>6. Without(s) = WithSlot(shifted, s, 0, 0, 0)
  BY <1>1, <1>2 DEF Without
<1>7. block = (u + l) .. (a + l - 1)
  <2>1. MoveBytes(s) = a - u
    BY <1>2, <1>3, MoveBytesValue
  <2>2. CASE a = u
    <3>1. MoveBytes(s) = 0
      BY <2>1, <2>2, <1>3
    <3>2. (u + l) .. (a + l - 1) = {}
      BY <2>2, <1>3
    <3> QED
      BY <3>1, <3>2
  <2>3. CASE a # u
    <3>1. u < a /\ MoveBytes(s) # 0
      BY <1>2, <1>3, <2>1, <2>3
    <3>2. \A t \in Moved(s) : OffsetOf(data, t) \in Nat /\ u <= OffsetOf(data, t)
      BY <1>3, MovedFill, UsedRecord
    <3>3. PICK t \in Moved(s) : OffsetOf(data, t) = u
      <4>1. u \in upper .. (OffsetOf(data, s) - 1)
        BY <1>2, <1>3, <3>1
      <4>2. PICK t \in Moved(s) : OffsetOf(data, t) <= u
        BY <4>1, MovedFill
      <4> QED
        BY <3>2, <4>2
    <3>4. \E o \in {OffsetOf(data, q) : q \in Moved(s)} : \A q \in Moved(s) : o <= OffsetOf(data, q)
      BY <3>2, <3>3
    <3>5. /\ offset \in {OffsetOf(data, q) : q \in Moved(s)}
          /\ \A q \in Moved(s) : offset <= OffsetOf(data, q)
      BY <3>4
    <3>6. offset = u
      <4>1. PICK q \in Moved(s) : offset = OffsetOf(data, q)
        BY <3>5
      <4>2. offset <= u /\ offset \in Nat /\ u <= offset
        BY <3>2, <3>3, <3>5, <4>1
      <4> QED
        BY <4>2
    <3>7. u + l + (a - u) - 1 = a + l - 1
      BY <1>3
    <3> HIDE DEF offset
    <3> QED
      BY <2>1, <3>1, <3>6, <3>7
  <2> QED
    BY <2>2, <2>3
<1> HIDE DEF offset, block
<1>8. zeroed \in [Bytes -> Nat]
  BY <1>5
<1>9. copied = [i \in Bytes |-> IF i \in (u + l) .. (a + l - 1) THEN zeroed[i - l] ELSE zeroed[i]]
  BY <1>7
<1>10. copied \in [Bytes -> Nat]
  <2>1. ASSUME NEW i \in Bytes, i \in (u + l) .. (a + l - 1) PROVE i - l \in Bytes
    BY <1>2, <1>3, <1>4, <2>1 DEF Bytes
  <2> HIDE DEF zeroed
  <2> QED
    BY <1>8, <1>9, <2>1
<1>11. \A i \in Bytes : i < u => copied[i] = data[i]
  <2>1. \A i \in Bytes : i < u => i \notin (u + l) .. (a + l - 1) /\ i \notin a .. (a + l - 1)
    BY <1>2, <1>3 DEF Bytes
  <2> QED
    BY <1>9, <2>1
<1>12. \A i \in Bytes : i >= a + l => copied[i] = data[i]
  <2>1. \A i \in Bytes : i >= a + l => i \notin (u + l) .. (a + l - 1) /\ i \notin a .. (a + l - 1)
    BY <1>2, <1>3 DEF Bytes
  <2> QED
    BY <1>9, <2>1
<1>13. ASSUME NEW i \in u .. (a - 1)
       PROVE  i + l \in Bytes /\ i \in Nat /\ copied[i + l] = data[i]
  <2>1. i \in Int /\ u <= i /\ i <= a - 1
    BY <1>3, <1>13
  <2>2. PICK j \in Nat : j = i + l
    BY <1>3, <2>1
  <2>3. j \in Bytes /\ j \in (u + l) .. (a + l - 1) /\ j - l = i
    BY <1>2, <1>3, <1>4, <2>1, <2>2 DEF Bytes
  <2>4. i \in Bytes /\ i \notin a .. (a + l - 1)
    BY <1>2, <1>3, <1>4, <2>1 DEF Bytes
  <2>5. copied[j] = zeroed[i]
    <3> HIDE DEF zeroed
    <3> QED
      BY <1>9, <2>3
  <2> QED
    BY <1>3, <2>1, <2>2, <2>3, <2>4, <2>5
<1> HIDE DEF copied, zeroed
<1>14. shifted \in [Bytes -> Nat]
  BY <1>1, <1>10
<1>15. u \in 0 .. DataSize /\ SlotSize * numSlots <= u /\ numSlots \in Nat
  BY <1>3 DEF PagePacked
<1>16. \A t \in 1 .. numSlots :
           /\ At(t) \in Nat /\ At(t) + 2 < u
           /\ At(t) \in Bytes /\ At(t) + 1 \in Bytes /\ At(t) + 2 \in Bytes
  BY <1>15, SlotCells
<1>17. \A t \in Moved(s) : t \in 1 .. numSlots
  BY MovedFill, UsedRecord
<1>18. \A i \in Bytes : i >= u => shifted[i] = copied[i]
  <2>1. \A i \in Bytes : i >= u => ~Shifted(i)
    BY <1>3, <1>16, <1>17 DEF Bytes
  <2> QED
    BY <2>1
<1>19. ASSUME NEW t \in 1 .. numSlots
       PROVE  /\ shifted[At(t)] = data[At(t)]
              /\ shifted[At(t) + 1] = data[At(t) + 1] + (IF t \in Moved(s) THEN l ELSE 0)
              /\ shifted[At(t) + 2] = data[At(t) + 2]
  <2>1. PICK x \in Nat : /\ x = At(t) /\ x + 2 < u
                         /\ x \in Bytes /\ x + 1 \in Bytes /\ x + 2 \in Bytes
    BY <1>16
  <2>2. copied[x] = data[x] /\ copied[x + 1] = data[x + 1] /\ copied[x + 2] = data[x + 2]
    BY <1>3, <1>11, <2>1
  <2>3. ASSUME NEW q \in Moved(s), q # t
        PROVE  At(q) + 1 # x /\ At(q) + 1 # x + 1 /\ At(q) + 1 # x + 2
    <3>1. q \in 1 .. numSlots
      BY <1>17, <2>3
    <3>2. PICK y \in Nat : y = At(q)
      BY <1>16, <3>1
    <3>3. x + 2 < y \/ y + 2 < x
      BY <1>15, <2>1, <2>3, <3>1, <3>2, SlotsDiffer
    <3> QED
      BY <2>1, <3>2, <3>3
  <2>4. ~Shifted(x) /\ ~Shifted(x + 2)
    <3>1. At(t) + 1 # x /\ At(t) + 1 # x + 2
      BY <2>1
    <3> QED
      BY <2>3, <3>1
  <2>5. Shifted(x + 1) <=> t \in Moved(s)
    BY <2>1, <2>3
  <2>6. shifted[x] = data[x] /\ shifted[x + 2] = data[x + 2]
    BY <2>1, <2>2, <2>4
  <2>7. shifted[x + 1] = data[x + 1] + (IF t \in Moved(s) THEN l ELSE 0)
    <3>1. data[x + 1] \in Nat
      BY <1>5, <2>1
    <3> QED
      BY <2>1, <2>2, <2>5, <3>1
  <2> QED
    BY <2>1, <2>6, <2>7
<1> HIDE DEF shifted
<1>20. PICK e : e = Without(s)
  OBVIOUS
<1>21. SlotFilled(shifted, numSlots, u, s, 0, 0, 0, e)
  <2>1. s \in 1 .. numSlots
    BY UsedRecord
  <2>2. PICK z \in Nat : z = 0
    OBVIOUS
  <2>3. SlotFilled(shifted, numSlots, u, s, z, z, z, WithSlot(shifted, s, z, z, z))
    BY <1>14, <1>15, <2>1, WithSlotCells
  <2> QED
    BY <1>6, <1>20, <2>2, <2>3
<1>22. e \in [Bytes -> Nat] /\ e[At(s)] = 0
  BY <1>21 DEF SlotFilled
<1>23. \A t \in 1 .. numSlots : t # s =>
           /\ e[At(t)] = data[At(t)]
           /\ e[At(t) + 1] = data[At(t) + 1] + (IF t \in Moved(s) THEN l ELSE 0)
           /\ e[At(t) + 2] = data[At(t) + 2]
  BY <1>19, <1>21 DEF SlotFilled
<1>24. \A i \in Bytes : i >= u => e[i] = copied[i]
  BY <1>18, <1>21 DEF SlotFilled
<1>25. \A i \in u .. (a - 1) : e[i + l] = data[i]
  <2>1. \A i \in u .. (a - 1) : i + l \in Bytes /\ i + l >= u /\ copied[i + l] = data[i]
    BY <1>3, <1>13
  <2> QED
    BY <1>24, <2>1
<1>26. \A i \in Bytes : i >= a + l => e[i] = data[i]
  <2>1. \A i \in Bytes : i >= a + l => i >= u
    BY <1>2, <1>3 DEF Bytes
  <2> QED
    BY <1>12, <1>24, <2>1
<1> QED
  BY <1>1, <1>2, <1>3, <1>20, <1>22, <1>23, <1>25, <1>26 DEF TakenCells

\* The others have moved together; each slot still has its record.
LEMMA TakenPacked ==
    ASSUME PagePacked, NEW s \in UsedSlots, NEW e, TakenCells(s, e)
    PROVE  /\ Packed(e, numSlots, upper + LengthOf(data, s))
           /\ Slots(e, numSlots) = UsedSlots \ {s}
           /\ \A t \in UsedSlots \ {s} : RecordAt(e, t) = RecordAt(data, t)
<1>1. PICK l \in Nat \ {0} : l = LengthOf(data, s)
  BY UsedRecord
<1>2. PICK a \in Nat : a = OffsetOf(data, s) /\ upper <= a /\ a + l <= DataSize
  BY <1>1, UsedRecord
<1>3. PICK u \in Nat : u = upper /\ u <= DataSize
  BY DEF PagePacked
<1>4. DataSize \in Nat /\ numSlots \in Nat
  BY DataSizeAssumption DEF PagePacked
<1>5. /\ e \in [Bytes -> Nat]
      /\ e[At(s)] = 0
      /\ \A t \in 1 .. numSlots : t # s =>
             /\ e[At(t)] = data[At(t)]
             /\ e[At(t) + 1] = data[At(t) + 1] + (IF t \in Moved(s) THEN l ELSE 0)
             /\ e[At(t) + 2] = data[At(t) + 2]
      /\ \A i \in u .. (a - 1) : e[i + l] = data[i]
      /\ \A i \in Bytes : i >= a + l => e[i] = data[i]
  BY <1>1, <1>2, <1>3 DEF TakenCells
<1>6. Slots(e, numSlots) = UsedSlots \ {s}
  BY <1>5 DEF Slots, UsedSlots, IsUsed
<1>7. \A t \in UsedSlots : /\ t \in 1 .. numSlots
                           /\ OffsetOf(data, t) \in Nat /\ LengthOf(data, t) \in Nat \ {0}
                           /\ Top(data, t) = OffsetOf(data, t) + LengthOf(data, t)
                           /\ u <= OffsetOf(data, t) /\ Top(data, t) <= DataSize
                           /\ RecordAt(data, t) \in Records
  BY <1>3, UsedRecord
<1>8. Top(data, s) = a + l
  BY <1>1, <1>2 DEF Top
<1>9. \A t \in Moved(s) : t \in UsedSlots /\ t # s /\ Top(data, t) <= a
  BY <1>2, MovedFill
<1>10. \A t \in UsedSlots : t # s /\ t \notin Moved(s) => a + l <= OffsetOf(data, t)
  BY <1>8, MovedFill
<1>11. \A t \in UsedSlots \ {s} :
           /\ LengthOf(e, t) = LengthOf(data, t)
           /\ t \in Moved(s) => OffsetOf(e, t) = OffsetOf(data, t) + l
           /\ t \notin Moved(s) => OffsetOf(e, t) = OffsetOf(data, t)
  <2>1. \A t \in UsedSlots \ {s} : data[At(t) + 1] = OffsetOf(data, t) /\ OffsetOf(data, t) \in Nat
    BY <1>7 DEF OffsetOf
  <2>2. \A t \in UsedSlots \ {s} : /\ LengthOf(e, t) = LengthOf(data, t)
                                   /\ OffsetOf(e, t) = OffsetOf(data, t) + (IF t \in Moved(s) THEN l ELSE 0)
    BY <1>5, <1>7 DEF LengthOf, OffsetOf
  <2> QED
    BY <2>1, <2>2
<1>12. \A t \in UsedSlots \ {s} :
           /\ t \in Moved(s) => Top(e, t) = Top(data, t) + l
           /\ t \notin Moved(s) => Top(e, t) = Top(data, t)
  BY <1>7, <1>11 DEF Top
<1>13. ASSUME NEW t \in UsedSlots \ {s}
       PROVE  RecordAt(e, t) = RecordAt(data, t)
  <2>1. PICK f \in Nat : f = OffsetOf(data, t) /\ u <= f
    BY <1>7
  <2>2. PICK n \in Nat : n = LengthOf(data, t) /\ f + n <= DataSize
    BY <1>7, <2>1
  <2>3. RecordAt(data, t) = [i \in 1 .. n |-> data[f + i - 1]]
    BY <2>1, <2>2 DEF RecordAt
  <2>4. CASE t \in Moved(s)
    <3>1. f + n <= a
      BY <1>7, <1>9, <2>1, <2>2, <2>4
    <3>2. RecordAt(e, t) = [i \in 1 .. n |-> e[f + l + i - 1]]
      BY <1>11, <2>1, <2>2, <2>4 DEF RecordAt
    <3>3. ASSUME NEW i \in 1 .. n PROVE e[f + l + i - 1] = data[f + i - 1]
      <4>1. i \in Int /\ 1 <= i /\ i <= n
        BY <3>3
      <4>2. PICK j \in Nat : j = f + i - 1
        BY <4>1
      <4>3. j \in u .. (a - 1) /\ f + l + i - 1 = j + l
        BY <1>3, <2>1, <3>1, <4>1, <4>2
      <4> QED
        BY <1>5, <4>2, <4>3
    <3> QED
      BY <2>3, <3>2, <3>3
  <2>5. CASE t \notin Moved(s)
    <3>1. a + l <= f
      BY <1>10, <2>1, <2>5
    <3>2. RecordAt(e, t) = [i \in 1 .. n |-> e[f + i - 1]]
      BY <1>11, <2>1, <2>2, <2>5 DEF RecordAt
    <3>3. ASSUME NEW i \in 1 .. n PROVE e[f + i - 1] = data[f + i - 1]
      <4>1. i \in Int /\ 1 <= i /\ i <= n
        BY <3>3
      <4>2. f + i - 1 \in Bytes /\ f + i - 1 >= a + l
        BY <1>4, <2>1, <2>2, <3>1, <4>1 DEF Bytes
      <4> QED
        BY <1>5, <4>2
    <3> QED
      BY <2>3, <3>2, <3>3
  <2> QED
    BY <2>4, <2>5
<1>14. Apart(e, numSlots)
  <2>1. ASSUME NEW t \in UsedSlots \ {s}, NEW q \in UsedSlots \ {s}, t # q
        PROVE  Top(e, t) <= OffsetOf(e, q) \/ Top(e, q) <= OffsetOf(e, t)
    <3>1. Slots(data, numSlots) = UsedSlots
      BY DEF UsedSlots, Slots
    <3>2. Top(data, t) <= OffsetOf(data, q) \/ Top(data, q) <= OffsetOf(data, t)
      BY <2>1, <3>1 DEF PagePacked, Packed, Apart
    <3>3. CASE t \in Moved(s) /\ q \in Moved(s)
      BY <1>7, <1>11, <1>12, <3>2, <3>3
    <3>4. CASE t \notin Moved(s) /\ q \notin Moved(s)
      BY <1>7, <1>11, <1>12, <3>2, <3>4
    <3>5. CASE t \in Moved(s) /\ q \notin Moved(s)
      BY <1>7, <1>9, <1>10, <1>11, <1>12, <3>5
    <3>6. CASE t \notin Moved(s) /\ q \in Moved(s)
      BY <1>7, <1>9, <1>10, <1>11, <1>12, <3>6
    <3> QED
      BY <3>3, <3>4, <3>5, <3>6
  <2> QED
    BY <1>6, <2>1 DEF Apart
<1>15. Within(e, numSlots, u + l)
  <2>1. ASSUME NEW t \in UsedSlots \ {s}
        PROVE  u + l <= OffsetOf(e, t) /\ Top(e, t) <= DataSize
    <3>1. CASE t \in Moved(s)
      <4>1. Top(data, t) <= a /\ OffsetOf(e, t) = OffsetOf(data, t) + l
        BY <1>9, <1>11, <3>1
      <4>2. Top(e, t) = Top(data, t) + l
        BY <1>12, <3>1
      <4>3. u <= OffsetOf(data, t) /\ OffsetOf(data, t) \in Nat /\ Top(data, t) \in Nat
        BY <1>7
      <4> QED
        BY <1>2, <1>4, <4>1, <4>2, <4>3
    <3>2. CASE t \notin Moved(s)
      <4>1. a + l <= OffsetOf(data, t) /\ OffsetOf(e, t) = OffsetOf(data, t) /\ u <= a
        BY <1>2, <1>3, <1>10, <1>11, <3>2
      <4>2. Top(e, t) = Top(data, t)
        BY <1>12, <3>2
      <4> QED
        BY <1>7, <4>1, <4>2
    <3> QED
      BY <3>1, <3>2
  <2> QED
    BY <1>6, <2>1 DEF Within
<1>16. Covered(e, numSlots, u + l)
  <2>1. ASSUME NEW i \in (u + l) .. (DataSize - 1)
        PROVE  \E t \in UsedSlots \ {s} : OffsetOf(e, t) <= i /\ i < Top(e, t)
    <3>1. i \in Int /\ u + l <= i /\ i <= DataSize - 1
      BY <1>3, <1>4, <2>1
    <3>2. CASE i < a + l
      <4>1. PICK j \in Nat : j = i - l
        BY <1>3, <3>1
      <4>2. j \in upper .. (OffsetOf(data, s) - 1)
        BY <1>2, <1>3, <3>1, <3>2, <4>1
      <4>3. PICK t \in Moved(s) : OffsetOf(data, t) <= j /\ j < Top(data, t)
        BY <4>2, MovedFill
      <4>4. t \in UsedSlots \ {s}
        BY <1>9, <4>3
      <4> QED
        BY <1>7, <1>11, <1>12, <3>1, <4>1, <4>3, <4>4
    <3>3. CASE i >= a + l
      <4>1. i \in upper .. (DataSize - 1)
        BY <1>2, <1>3, <1>4, <3>1, <3>3
      <4>2. Slots(data, numSlots) = UsedSlots
        BY DEF UsedSlots, Slots
      <4>3. PICK t \in UsedSlots : OffsetOf(data, t) <= i /\ i < Top(data, t)
        BY <4>1, <4>2 DEF PagePacked, Packed, Covered
      <4>4. t # s
        BY <1>8, <3>1, <3>3, <4>3
      <4>5. t \notin Moved(s)
        BY <1>2, <1>7, <1>9, <3>1, <3>3, <4>3
      <4> QED
        BY <1>11, <1>12, <4>3, <4>4, <4>5
    <3> QED
      BY <1>2, <3>1, <3>2, <3>3
  <2> QED
    BY <1>6, <2>1 DEF Covered
<1>17. Stored(e, numSlots)
  BY <1>6, <1>7, <1>13 DEF Stored
<1> QED
  BY <1>1, <1>3, <1>6, <1>13, <1>14, <1>15, <1>16, <1>17 DEF Packed

-----------------------------------------------------------------------------
(***************************************************************************)
(* The header                                                              *)
(***************************************************************************)
\* A page whose header agrees with its bytes.
Layout(d, n, u, low, free) ==
    /\ d \in [Bytes -> Nat] /\ n \in Nat /\ u \in 0 .. DataSize
    /\ low = SlotSize * n /\ low <= u
    /\ Packed(d, n, u)
    /\ free = n - Cardinality(Slots(d, n))
    /\ n > 0 => n \in Slots(d, n)

PageInv ==
    /\ TypeOK
    /\ Intact => Layout(data, numSlots, upper, lower, numFree)

LEMMA SlotsFinite ==
    ASSUME NEW d, NEW n \in Nat
    PROVE  /\ IsFiniteSet(Slots(d, n)) /\ Cardinality(Slots(d, n)) \in 0 .. n
           /\ Slots(d, n) # 1 .. n => Cardinality(Slots(d, n)) # n
<1>1. IsFiniteSet(1 .. n) /\ Cardinality(1 .. n) = n
  BY FS_Interval
<1>2. Slots(d, n) \subseteq 1 .. n
  BY DEF Slots
<1>3. /\ IsFiniteSet(Slots(d, n)) /\ Cardinality(Slots(d, n)) <= n
      /\ Cardinality(Slots(d, n)) = n => Slots(d, n) = 1 .. n
  BY <1>1, <1>2, FS_Subset
<1> QED
  BY <1>3, FS_CardinalityType

LEMMA LayoutTyped ==
    ASSUME NEW d, NEW n, NEW u, NEW low, NEW free, Layout(d, n, u, low, free)
    PROVE  /\ low \in 0 .. DataSize /\ low <= u /\ n \in 0 .. Cardinality(SlotIds)
           /\ free \in 0 .. n
           /\ Slots(d, n) \subseteq SlotIds
<1>1. n \in Nat /\ u \in 0 .. DataSize /\ low = SlotSize * n /\ low <= u
      /\ free = n - Cardinality(Slots(d, n))
  BY DEF Layout
<1>2. SlotSize * n \in Nat /\ DataSize \in Nat
  BY <1>1, SlotSizeAssumption, DataSizeAssumption
<1>3. low \in 0 .. DataSize
  BY <1>1, <1>2
<1>4. n \in 0 .. Cardinality(SlotIds) /\ n <= DataSize \div SlotSize
  <2>1. SlotSize * n <= DataSize
    BY <1>1, <1>2
  <2> QED
    BY <1>1, <2>1, SlotRoom
<1>5. free \in 0 .. n
  <2>1. PICK k \in 0 .. n : k = Cardinality(Slots(d, n))
    BY <1>1, SlotsFinite
  <2> QED
    BY <1>1, <2>1
<1>6. Slots(d, n) \subseteq SlotIds
  <2>1. PICK q \in Nat : q = DataSize \div SlotSize
    BY SlotRoom
  <2> QED
    BY <1>1, <1>4, <2>1 DEF Slots, SlotIds
<1> QED
  BY <1>1, <1>3, <1>4, <1>5, <1>6

LEMMA IntactPacked ==
    ASSUME Layout(data, numSlots, upper, lower, numFree)
    PROVE  /\ PagePacked
           /\ lower = SlotSize * numSlots /\ numSlots \in Nat /\ upper \in 0 .. DataSize
           /\ lower \in Nat /\ lower <= upper
           /\ Slots(data, numSlots) = UsedSlots
           /\ numFree = numSlots - Cardinality(UsedSlots)
           /\ IsFiniteSet(UsedSlots) /\ Cardinality(UsedSlots) \in Nat
           /\ numSlots > 0 => numSlots \in UsedSlots
<1>1. Slots(data, numSlots) = UsedSlots
  BY DEF UsedSlots, Slots
<1>2. PagePacked
  BY DEF Layout, PagePacked
<1>3. numSlots \in Nat /\ lower = SlotSize * numSlots /\ lower \in Nat
  BY SlotSizeAssumption DEF Layout
<1>4. IsFiniteSet(UsedSlots) /\ Cardinality(UsedSlots) \in Nat
  BY <1>1, <1>3, SlotsFinite
<1> QED
  BY <1>1, <1>2, <1>3, <1>4 DEF Layout

\* A fresh page is in order.
LEMMA FreshLayout == Layout(Zeroes, 0, DataSize, 0, 0)
<1>1. DataSize \in Nat /\ SlotSize * 0 = 0
  BY DataSizeAssumption, SlotSizeAssumption
<1>2. Slots(Zeroes, 0) = {}
  BY DEF Slots
<1>3. Zeroes \in [Bytes -> Nat]
  BY DEF Zeroes
<1>4. Packed(Zeroes, 0, DataSize)
  <2>1. DataSize .. (DataSize - 1) = {}
    BY <1>1
  <2> QED
    BY <1>2, <2>1 DEF Packed, Apart, Within, Covered, Stored
<1>5. Cardinality({}) = 0
  BY FS_EmptySet
<1> QED
  BY <1>1, <1>2, <1>3, <1>4, <1>5 DEF Layout

\* Only the slots in use matter.
LEMMA FewerSlots ==
    ASSUME NEW e, NEW n, NEW k, NEW u, Packed(e, n, u), Slots(e, k) = Slots(e, n)
    PROVE  Packed(e, k, u)
BY DEF Packed, Apart, Within, Covered, Stored

-----------------------------------------------------------------------------
(***************************************************************************)
(* The calls                                                               *)
(***************************************************************************)
\* The page is in order, its slots in use are those of S, and each slot of
\* T has the record it had.
Keeps(S, T) ==
    /\ Layout(data', numSlots', upper', lower', numFree')
    /\ Slots(data', numSlots') = S
    /\ \A t \in T : RecordAt(data', t) = RecordAt(data, t)

Inserts(r) ==
    \E s \in 1 .. numSlots' :
        /\ s \notin UsedSlots
        /\ Keeps(UsedSlots \cup {s}, UsedSlots)
        /\ RecordAt(data', s) = r
        /\ UNCHANGED out /\ exc' = "none"

\* A slot is counted that is not empty.
Refuses ==
    /\ lower' \in 0 .. DataSize /\ lower' <= upper /\ numSlots' \in 0 .. Cardinality(SlotIds)
    /\ numFree' \in 0 .. numSlots'
    /\ exc' = "SlotInUse"
    /\ UNCHANGED <<upper, data, out>>

LEMMA AvailableFound ==
    ASSUME Layout(data, numSlots, upper, lower, numFree), numFree > 0
    PROVE  AvailableSlot \in 1 .. numSlots /\ AvailableSlot \notin UsedSlots
<1>1. numSlots \in Nat /\ Slots(data, numSlots) = UsedSlots
      /\ numFree = numSlots - Cardinality(UsedSlots)
  BY IntactPacked
<1> DEFINE T == {t \in 1 .. numSlots : ~IsUsed(data, t)}
<1>2. T # {}
  <2>1. SUFFICES ASSUME T = {} PROVE FALSE
    OBVIOUS
  <2>2. UsedSlots = 1 .. numSlots
    BY <2>1 DEF UsedSlots
  <2>3. Cardinality(UsedSlots) = numSlots
    BY <1>1, <2>2, FS_Interval
  <2> QED
    BY <1>1, <2>3
<1>3. T \in SUBSET Nat
  BY <1>1
<1>4. PICK m \in T : \A t \in T : m <= t
  <2> HIDE DEF T
  <2> QED
    BY <1>2, <1>3, LeastElement
<1>5. m \in 1 .. numSlots /\ ~IsUsed(data, m)
  OBVIOUS
<1>6. \A t \in 1 .. (m - 1) : IsUsed(data, t)
  <2>1. \A t \in 1 .. (m - 1) : t \in 1 .. numSlots /\ ~(m <= t)
    BY <1>1, <1>5
  <2> QED
    BY <1>4, <2>1
<1>7. \E s \in 1 .. numSlots : ~IsUsed(data, s) /\ \A t \in 1 .. (s - 1) : IsUsed(data, t)
  BY <1>5, <1>6
<1>8. AvailableSlot \in 1 .. numSlots /\ ~IsUsed(data, AvailableSlot)
  BY <1>7 DEF AvailableSlot
<1> QED
  BY <1>8 DEF UsedSlots

LEMMA InsertView ==
    ASSUME Layout(data, numSlots, upper, lower, numFree), NEW r \in Records, InsertRecord(r)
    PROVE  Throws("InsufficientSpace") \/ Refuses \/ Inserts(r)
<1>1. /\ PagePacked
      /\ lower = SlotSize * numSlots /\ numSlots \in Nat /\ upper \in 0 .. DataSize
      /\ lower \in Nat /\ lower <= upper
      /\ Slots(data, numSlots) = UsedSlots
      /\ numFree = numSlots - Cardinality(UsedSlots)
      /\ IsFiniteSet(UsedSlots) /\ Cardinality(UsedSlots) \in Nat
      /\ numSlots > 0 => numSlots \in UsedSlots
  BY IntactPacked
<1>2. PICK l \in Nat \ {0} : l = Len(r)
  BY RecordFacts
<1>3. SlotSize \in Nat /\ DataSize \in Nat
  BY SlotSizeAssumption, DataSizeAssumption
<1>4. PICK s : s = AvailableSlot
  OBVIOUS
<1>5. SUFFICES ASSUME HasSpaceForRecord(r) PROVE Refuses \/ Inserts(r)
  BY DEF InsertRecord
<1>6. /\ numSlots' = IF s > numSlots THEN s ELSE numSlots
      /\ lower' = IF s > numSlots THEN SlotSize * s ELSE lower
      /\ \/ /\ s > numSlots /\ IsUsed(data, s)
            /\ numFree' = numFree + 1 /\ exc' = "SlotInUse" /\ UNCHANGED <<upper, data, out>>
         \/ /\ ~(s > numSlots /\ IsUsed(data, s))
            /\ numFree' = IF s > numSlots THEN numFree ELSE numFree - 1
            /\ upper' = upper - Len(r)
            /\ data' = WithRecord(data, s, upper', r)
            /\ exc' = "none" /\ UNCHANGED out
  BY <1>4, <1>5 DEF InsertRecord
\* The slot, and how many there are then.
<1>7. PICK m \in Nat : m = IF s > numSlots THEN numSlots + 1 ELSE numSlots
  BY <1>1
<1>8. /\ m \in {numSlots, numSlots + 1} /\ s \in 1 .. m /\ numSlots' = m
      /\ lower' = SlotSize * m
      /\ SlotSize * m + l <= upper
      /\ m = numSlots + 1 => s = m /\ s > numSlots
      /\ m = numSlots => s \notin UsedSlots
  <2>1. numFree \in Nat
    <3>1. numFree \in 0 .. numSlots
      BY LayoutTyped
    <3> QED
      BY <1>1, <3>1
  <2>2. CASE numFree > 0
    <3>1. s \in 1 .. numSlots /\ s \notin UsedSlots
      BY <1>4, <2>2, AvailableFound
    <3>2. l <= upper - lower
      BY <1>1, <1>2, <1>5, <2>2 DEF HasSpaceForRecord, FreeSpace
    <3>3. m = numSlots
      BY <1>1, <1>7, <3>1
    <3> QED
      BY <1>1, <1>6, <3>1, <3>2, <3>3
  <2>3. CASE numFree = 0
    <3>1. s = numSlots + 1 /\ s > numSlots
      BY <1>1, <1>4, <2>3 DEF AvailableSlot
    <3>2. l + SlotSize <= upper - lower
      BY <1>2, <1>5, <2>3 DEF HasSpaceForRecord, FreeSpace
    <3>3. SlotSize * (numSlots + 1) = SlotSize * numSlots + SlotSize
      BY <1>1, <1>3
    <3>4. m = numSlots + 1
      BY <1>7, <3>1
    <3> QED
      BY <1>1, <1>3, <1>6, <3>1, <3>2, <3>3, <3>4
  <2> QED
    BY <2>1, <2>2, <2>3
<1>9. SlotSize * m \in Nat
  BY <1>3
<1>10. CASE s > numSlots /\ IsUsed(data, s)
  <2>1. m = numSlots + 1
    BY <1>7, <1>10
  <2>2. SlotSize * m <= upper /\ SlotSize * m <= DataSize
    BY <1>1, <1>2, <1>3, <1>8, <1>9
  <2>3. m \in 0 .. Cardinality(SlotIds)
    BY <2>2, SlotRoom
  <2>4. numFree' \in 0 .. numSlots'
    <3>1. numFree \in 0 .. numSlots
      BY LayoutTyped
    <3> QED
      BY <1>1, <1>6, <1>8, <1>10, <2>1, <3>1
  <2>5. lower' \in 0 .. DataSize /\ lower' <= upper
    BY <1>3, <1>8, <1>9, <2>2
  <2> QED
    BY <1>6, <1>8, <1>10, <2>3, <2>4, <2>5 DEF Refuses
<1>11. CASE ~(s > numSlots /\ IsUsed(data, s))
  <2>1. s \notin UsedSlots
    BY <1>1, <1>7, <1>8, <1>11 DEF UsedSlots
  <2>2. PICK e : e = data'
    OBVIOUS
  <2>3. PICK o : o = upper - Len(r)
    OBVIOUS
  <2>4. e = WithRecord(data, s, upper - Len(r), r) /\ upper' = o
    BY <1>6, <1>11, <2>2, <2>3
  <2>5. data \in [Bytes -> Nat] /\ Packed(data, numSlots, upper)
    BY <1>1 DEF PagePacked
  <2>6. SlotSize * m + Len(r) <= upper
    BY <1>2, <1>8
  <2>7. PutCells(data, m, s, upper - Len(r), r, e)
    BY <1>1, <1>8, <2>4, <2>5, <2>6, PutIsPut
  <2>8. s \notin Slots(data, numSlots) /\ (m = numSlots + 1 => s = m)
    BY <1>1, <1>8, <2>1
  <2>9. /\ Packed(e, m, upper - Len(r))
        /\ Slots(e, m) = Slots(data, numSlots) \cup {s}
        /\ RecordAt(e, s) = r
        /\ \A t \in Slots(data, numSlots) : RecordAt(e, t) = RecordAt(data, t)
    <3>1. PICK d : d = data
      OBVIOUS
    <3>2. PICK n \in Nat : n = numSlots
      BY <1>1
    <3>3. PICK u \in 0 .. DataSize : u = upper
      BY <1>1
    <3>4. /\ d \in [Bytes -> Nat] /\ Packed(d, n, u) /\ m \in {n, n + 1} /\ s \in 1 .. m
          /\ SlotSize * m + Len(r) <= u /\ PutCells(d, m, s, u - Len(r), r, e)
          /\ s \notin Slots(d, n) /\ (m = n + 1 => s = m)
      BY <1>8, <2>5, <2>6, <2>7, <2>8, <3>1, <3>2, <3>3
    <3>5. Joined(d, n, m, u, s, r, e)
      BY <3>4, PutPacked
    <3> QED
      BY <3>1, <3>2, <3>3, <3>5 DEF Joined
  <2>10. Slots(e, m) = UsedSlots \cup {s}
    BY <1>1, <2>9
  <2>11. o \in 0 .. DataSize /\ SlotSize * m <= o
    BY <1>1, <1>2, <1>3, <1>8, <1>9, <2>3
  <2>12. numFree' = m - Cardinality(Slots(e, m))
    <3>1. Cardinality(UsedSlots \cup {s}) = Cardinality(UsedSlots) + 1
      BY <1>1, <2>1, FS_AddElement
    <3>2. numFree' = IF s > numSlots THEN numFree ELSE numFree - 1
      BY <1>6, <1>11
    <3>3. PICK c \in Nat : c = Cardinality(UsedSlots)
      BY <1>1
    <3>4. PICK n \in Nat : n = numSlots
      BY <1>1
    <3>5. numFree = n - c /\ Cardinality(Slots(e, m)) = c + 1
      BY <1>1, <2>10, <3>1, <3>3, <3>4
    <3>6. CASE s > n
      BY <1>7, <3>2, <3>4, <3>5, <3>6
    <3>7. CASE ~(s > n)
      BY <1>7, <3>2, <3>4, <3>5, <3>7
    <3> QED
      BY <3>6, <3>7
  <2>13. m > 0 => m \in Slots(e, m)
    <3>1. m = s \/ m = numSlots
      BY <1>8
    <3> QED
      BY <1>1, <2>10, <3>1
  <2>14. e \in [Bytes -> Nat]
    BY <2>7 DEF PutCells
  <2>15. Layout(e, m, o, SlotSize * m, numFree')
    BY <2>3, <2>9, <2>11, <2>12, <2>13, <2>14 DEF Layout
  <2>16. Keeps(UsedSlots \cup {s}, UsedSlots)
    BY <1>1, <1>8, <2>2, <2>4, <2>9, <2>10, <2>15 DEF Keeps
  <2>17. s \in 1 .. numSlots' /\ RecordAt(data', s) = r /\ UNCHANGED out /\ exc' = "none"
    BY <1>6, <1>8, <1>11, <2>2, <2>9
  <2> QED
    BY <2>1, <2>16, <2>17 DEF Inserts
<1> QED
  BY <1>10, <1>11

LEMMA SlotsLeftFound ==
    ASSUME Layout(data, numSlots, upper, lower, numFree), NEW s \in UsedSlots
    PROVE  /\ SlotsLeft(s) \in 0 .. numSlots
           /\ \A t \in UsedSlots \ {s} : t <= SlotsLeft(s)
           /\ SlotsLeft(s) > 0 => SlotsLeft(s) \in UsedSlots \ {s}
<1>1. numSlots \in Nat /\ (numSlots > 0 => numSlots \in UsedSlots)
  BY IntactPacked
<1>2. s \in 1 .. numSlots /\ UsedSlots \subseteq 1 .. numSlots
  BY DEF UsedSlots
<1>3. CASE s # numSlots
  <2>1. SlotsLeft(s) = numSlots
    BY <1>3 DEF SlotsLeft
  <2>2. numSlots \in UsedSlots \ {s}
    BY <1>1, <1>2, <1>3
  <2>3. \A t \in UsedSlots \ {s} : t <= numSlots
    BY <1>1, <1>2
  <2> QED
    BY <1>1, <2>1, <2>2, <2>3
<1>4. CASE s = numSlots
  <2> DEFINE T == {j \in 0 .. (s - 1) : s - 1 - j = 0 \/ IsUsed(data, s - 1 - j)}
  <2>1. s - 1 \in T /\ T \in SUBSET Nat
    BY <1>2
  <2>2. PICK j \in T : \A i \in T : j <= i
    <3> HIDE DEF T
    <3> QED
      BY <2>1, LeastElement
  <2>3. PICK n \in 0 .. (s - 1) : n = s - 1 - j
    BY <1>2
  <2>4. n = 0 \/ IsUsed(data, n)
    BY <2>3
  <2>5. ASSUME NEW t \in (n + 1) .. (s - 1), IsUsed(data, t) PROVE FALSE
    <3>1. PICK i \in 0 .. (s - 1) : i = s - 1 - t /\ s - 1 - i = t /\ i < j
      <4>1. s - 1 - t \in 0 .. (s - 1) /\ s - 1 - (s - 1 - t) = t /\ s - 1 - t < j
        BY <1>2, <2>3, <2>5
      <4> QED
        BY <4>1
    <3>2. i \in T
      BY <2>5, <3>1
    <3>3. j <= i
      BY <2>2, <3>2
    <3> QED
      BY <3>1, <3>3
  <2>6. \E k \in 0 .. (s - 1) : /\ k = 0 \/ IsUsed(data, k)
                                /\ \A t \in (k + 1) .. (s - 1) : ~IsUsed(data, t)
    BY <2>4, <2>5
  <2>7. PICK k : k = SlotsLeft(s)
    OBVIOUS
  <2>8. /\ k \in 0 .. (s - 1)
        /\ k = 0 \/ IsUsed(data, k)
        /\ \A t \in (k + 1) .. (s - 1) : ~IsUsed(data, t)
    BY <1>4, <2>6, <2>7 DEF SlotsLeft
  <2>9. k \in 0 .. numSlots /\ (k > 0 => k \in 1 .. numSlots /\ k # s)
    BY <1>1, <1>2, <2>8
  <2>10. k > 0 => k \in UsedSlots \ {s}
    BY <2>8, <2>9 DEF UsedSlots
  <2>11. ASSUME NEW t \in UsedSlots \ {s} PROVE t <= k
    <3>1. t \in 1 .. (s - 1) /\ IsUsed(data, t)
      BY <1>2, <1>4, <2>11 DEF UsedSlots
    <3>2. t \notin (k + 1) .. (s - 1)
      BY <2>8, <3>1
    <3> QED
      BY <1>2, <2>8, <3>1, <3>2
  <2> QED
    BY <2>7, <2>9, <2>10, <2>11
<1> QED
  BY <1>3, <1>4

Deletes(s) ==
    /\ Keeps(UsedSlots \ {s}, UsedSlots \ {s})
    /\ UNCHANGED out /\ exc' = "none"

LEMMA DeleteView ==
    ASSUME Layout(data, numSlots, upper, lower, numFree), NEW s \in UsedSlots,
           data' = Without(s), upper' = upper + LengthOf(data, s),
           numSlots' = SlotsLeft(s),
           numFree' = numFree + 1 - (numSlots - SlotsLeft(s)),
           lower' = lower - SlotSize * (numSlots - SlotsLeft(s)),
           exc' = "none", UNCHANGED out
    PROVE  Deletes(s)
<1>1. /\ PagePacked
      /\ lower = SlotSize * numSlots /\ numSlots \in Nat /\ upper \in 0 .. DataSize
      /\ lower \in Nat /\ lower <= upper
      /\ numFree = numSlots - Cardinality(UsedSlots)
      /\ IsFiniteSet(UsedSlots) /\ Cardinality(UsedSlots) \in Nat
  BY IntactPacked
<1>2. SlotSize \in Nat /\ DataSize \in Nat
  BY SlotSizeAssumption, DataSizeAssumption
<1>3. PICK e : e = data'
  OBVIOUS
<1>4. TakenCells(s, e)
  BY <1>1, <1>3, TakenOut
<1>5. /\ Packed(e, numSlots, upper + LengthOf(data, s))
      /\ Slots(e, numSlots) = UsedSlots \ {s}
      /\ \A t \in UsedSlots \ {s} : RecordAt(e, t) = RecordAt(data, t)
  BY <1>1, <1>4, TakenPacked
<1>6. PICK k \in 0 .. numSlots : /\ k = SlotsLeft(s)
                                 /\ \A t \in UsedSlots \ {s} : t <= k
                                 /\ k > 0 => k \in UsedSlots \ {s}
  BY SlotsLeftFound
<1>7. Slots(e, k) = UsedSlots \ {s}
  <2>1. \A t \in 1 .. numSlots : t \in 1 .. k <=> t <= k
    BY <1>1, <1>6
  <2>2. \A t \in 1 .. k : t \in 1 .. numSlots
    BY <1>1, <1>6
  <2>3. Slots(e, k) \subseteq Slots(e, numSlots)
    BY <2>2 DEF Slots
  <2>4. ASSUME NEW t \in UsedSlots \ {s} PROVE t \in Slots(e, k)
    <3>1. t \in Slots(e, numSlots) /\ t <= k
      BY <1>5, <1>6, <2>4
    <3> QED
      BY <2>1, <3>1 DEF Slots
  <2> QED
    BY <1>5, <2>3, <2>4
<1>8. PICK l \in Nat : l = LengthOf(data, s) /\ upper + l <= DataSize
  <2>1. /\ OffsetOf(data, s) \in Nat /\ LengthOf(data, s) \in Nat \ {0}
        /\ Top(data, s) = OffsetOf(data, s) + LengthOf(data, s)
        /\ upper <= OffsetOf(data, s) /\ Top(data, s) <= DataSize
    BY <1>1, UsedRecord
  <2>2. upper + LengthOf(data, s) <= DataSize
    BY <1>1, <1>2, <2>1
  <2> QED
    BY <2>1, <2>2
<1>9. Packed(e, k, upper + l)
  BY <1>5, <1>7, <1>8, FewerSlots
<1>10. lower' = SlotSize * k /\ SlotSize * k <= lower
  <2>1. PICK j \in Nat : j = numSlots - k
    BY <1>1, <1>6
  <2>2. SlotSize * numSlots = SlotSize * k + SlotSize * j
    BY <1>1, <1>2, <1>6, <2>1
  <2>3. SlotSize * k \in Nat /\ SlotSize * j \in Nat
    BY <1>2, <1>6
  <2>4. lower' = lower - SlotSize * j
    BY <1>6, <2>1
  <2> QED
    BY <1>1, <2>2, <2>3, <2>4
<1>11. upper' = upper + l /\ upper' \in 0 .. DataSize /\ lower' <= upper'
  <2>1. SlotSize * k \in Nat
    BY <1>2, <1>6
  <2> QED
    BY <1>1, <1>2, <1>8, <1>10, <2>1
<1>12. numFree' = k - Cardinality(Slots(e, k))
  <2>1. Cardinality(UsedSlots \ {s}) = Cardinality(UsedSlots) - 1
    BY <1>1, FS_RemoveElement
  <2>2. PICK c \in Nat : c = Cardinality(UsedSlots)
    BY <1>1
  <2>3. numFree' = numSlots - c + 1 - (numSlots - k)
    BY <1>1, <1>6, <2>2
  <2> QED
    BY <1>1, <1>6, <1>7, <2>1, <2>2, <2>3
<1>13. e \in [Bytes -> Nat]
  BY <1>4 DEF TakenCells
<1>14. Layout(data', numSlots', upper', lower', numFree')
  BY <1>3, <1>6, <1>7, <1>9, <1>10, <1>11, <1>12, <1>13 DEF Layout
<1> QED
  BY <1>3, <1>5, <1>6, <1>7, <1>14 DEF Deletes, Keeps

Updates(s, r) ==
    /\ Keeps(UsedSlots, UsedSlots \ {s})
    /\ RecordAt(data', s) = r
    /\ UNCHANGED out /\ exc' = "none"

LEMMA UpdateView ==
    ASSUME Layout(data, numSlots, upper, lower, numFree), NEW s \in UsedSlots, NEW r \in Records,
           FitsAfterDelete(s, r), upper' = upper + LengthOf(data, s) - Len(r),
           data' = WithRecord(Without(s), s, upper', r),
           exc' = "none", UNCHANGED <<lower, numSlots, numFree, out>>
    PROVE  Updates(s, r)
<1>1. /\ PagePacked
      /\ lower = SlotSize * numSlots /\ numSlots \in Nat /\ upper \in 0 .. DataSize
      /\ lower \in Nat /\ lower <= upper
      /\ Slots(data, numSlots) = UsedSlots
      /\ numFree = numSlots - Cardinality(UsedSlots)
      /\ numSlots > 0 => numSlots \in UsedSlots
  BY IntactPacked
<1>2. SlotSize \in Nat /\ DataSize \in Nat
  BY SlotSizeAssumption, DataSizeAssumption
<1>3. PICK d : d = Without(s)
  OBVIOUS
<1>4. TakenCells(s, d)
  BY <1>1, <1>3, TakenOut
<1>5. PICK l \in Nat : l = LengthOf(data, s) /\ upper + l <= DataSize
  <2>1. /\ OffsetOf(data, s) \in Nat /\ LengthOf(data, s) \in Nat \ {0}
        /\ Top(data, s) = OffsetOf(data, s) + LengthOf(data, s)
        /\ upper <= OffsetOf(data, s) /\ Top(data, s) <= DataSize
    BY <1>1, UsedRecord
  <2>2. upper + LengthOf(data, s) <= DataSize
    BY <1>1, <1>2, <2>1
  <2> QED
    BY <2>1, <2>2
<1>6. PICK u \in 0 .. DataSize : u = upper + l
  BY <1>1, <1>2, <1>5
<1>7. /\ Packed(d, numSlots, u)
      /\ Slots(d, numSlots) = UsedSlots \ {s}
      /\ \A t \in UsedSlots \ {s} : RecordAt(d, t) = RecordAt(data, t)
  BY <1>1, <1>4, <1>5, <1>6, TakenPacked
<1>8. PICK m \in Nat : m = numSlots
  BY <1>1
<1>9. s \in 1 .. m
  BY <1>8 DEF UsedSlots
<1>10. PICK n \in Nat \ {0} : n = Len(r)
  BY RecordFacts
<1>11. SlotSize * m + Len(r) <= u
  <2>1. n <= upper - lower + l
    BY <1>5, <1>10 DEF FitsAfterDelete, FreeSpace
  <2>2. SlotSize * m = lower /\ lower \in Int /\ upper \in Int
    BY <1>1, <1>8
  <2>3. lower + n <= u
    <3>1. PICK a \in Int : a = lower
      BY <2>2
    <3>2. PICK b \in Int : b = upper
      BY <2>2
    <3>3. n <= b - a + l /\ u = b + l
      BY <1>6, <2>1, <3>1, <3>2
    <3>4. a + n <= u
      BY <3>3
    <3> QED
      BY <3>1, <3>4
  <2> QED
    BY <1>10, <2>2, <2>3
<1>12. d \in [Bytes -> Nat]
  BY <1>4 DEF TakenCells
<1>13. PICK e : e = data'
  OBVIOUS
<1>14. upper' = u - Len(r) /\ e = WithRecord(d, s, u - Len(r), r)
  <2>1. upper' = u - Len(r)
    <3>1. PICK b \in Int : b = upper
      BY <1>1
    <3>2. upper' = b + l - n /\ u = b + l
      BY <1>5, <1>6, <1>10, <3>1
    <3>3. upper' = u - n
      BY <3>2
    <3> QED
      BY <1>10, <3>3
  <2>2. e = WithRecord(d, s, upper', r)
    BY <1>3, <1>13
  <2> QED
    BY <2>1, <2>2
<1>15. PutCells(d, m, s, u - Len(r), r, e)
  BY <1>9, <1>11, <1>12, <1>14, PutIsPut
<1>16. Joined(d, m, m, u, s, r, e)
  <2>1. /\ m \in {m, m + 1} /\ s \notin Slots(d, m) /\ Packed(d, m, u)
        /\ (m = m + 1 => s = m)
    BY <1>7, <1>8
  <2> QED
    BY <1>9, <1>11, <1>12, <1>15, <2>1, PutPacked
<1>17. /\ Packed(e, m, u - Len(r))
       /\ Slots(e, m) = UsedSlots
       /\ RecordAt(e, s) = r
       /\ \A t \in UsedSlots \ {s} : RecordAt(e, t) = RecordAt(data, t)
  BY <1>7, <1>8, <1>16 DEF Joined
<1>18. u - Len(r) \in 0 .. DataSize /\ SlotSize * m <= u - Len(r)
  <2>1. SlotSize * m \in Nat
    BY <1>2
  <2> QED
    BY <1>2, <1>10, <1>11, <2>1
<1>19. e \in [Bytes -> Nat]
  BY <1>15 DEF PutCells
<1>20. Layout(data', numSlots', upper', lower', numFree')
  BY <1>1, <1>8, <1>13, <1>14, <1>17, <1>18, <1>19 DEF Layout
<1> QED
  BY <1>8, <1>13, <1>17, <1>20 DEF Updates, Keeps

-----------------------------------------------------------------------------
(***************************************************************************)
(* The invariant                                                           *)
(***************************************************************************)
LEMMA OutAndExc ==
    ASSUME out' \in Records \cup {NoRecord},
           exc' \in {"none", "InsufficientSpace", "SlotInUse", "InvalidRecord", "out_of_range"},
           Layout(data', numSlots', upper', lower', numFree')
    PROVE  PageInv'
<1>1. /\ lower' \in 0 .. DataSize /\ lower' <= upper' /\ numSlots' \in 0 .. Cardinality(SlotIds)
      /\ numFree' \in 0 .. numSlots'
  BY LayoutTyped
<1>2. data' \in [Bytes -> Nat] /\ upper' \in 0 .. DataSize
  BY DEF Layout
<1> QED
  BY <1>1, <1>2 DEF PageInv, TypeOK, Typed, Intact

\* A call that changes nothing but exc and out.
LEMMA PageUntouched ==
    ASSUME PageInv, UNCHANGED <<lower, upper, numSlots, numFree, data>>,
           out' \in Records \cup {NoRecord},
           exc' \in {"none", "InsufficientSpace", "InvalidRecord", "out_of_range"}, Intact
    PROVE  PageInv'
<1>1. Layout(data', numSlots', upper', lower', numFree')
  BY DEF PageInv
<1> QED
  BY <1>1, OutAndExc DEF PageInv

LEMMA InvInit ==
    ASSUME Init
    PROVE  PageInv
<1>1. Layout(data, numSlots, upper, lower, numFree)
  BY FreshLayout DEF Init
<1>2. /\ lower \in 0 .. DataSize /\ lower <= upper /\ numSlots \in 0 .. Cardinality(SlotIds)
      /\ numFree \in 0 .. numSlots
  BY <1>1, LayoutTyped
<1>3. data \in [Bytes -> Nat] /\ upper \in 0 .. DataSize
  BY <1>1 DEF Layout
<1> QED
  BY <1>1, <1>2, <1>3 DEF PageInv, TypeOK, Typed, Init

LEMMA InvStep ==
    ASSUME PageInv, [Next]_vars
    PROVE  PageInv'
<1>0. /\ Intact => out \in Records \cup {NoRecord}
      /\ exc' = "StaleId" => PageInv'
  BY DEF PageInv, TypeOK, Typed, Intact
<1>1. CASE UNCHANGED vars
  BY <1>1 DEF PageInv, TypeOK, Typed, Intact, vars
<1>2. ASSUME Intact, NEW s \in SlotIds, DeleteRecord(s)
      PROVE  PageInv'
  <2>1. CASE Throws("InvalidRecord")
    BY <1>0, <1>2, <2>1, PageUntouched DEF Throws
  <2>2. CASE DeleteStale(s)
    BY <1>0, <2>2 DEF DeleteStale
  <2>3. CASE s \in UsedSlots /\ ~Throws("InvalidRecord") /\ ~DeleteStale(s)
    <3>1. Deletes(s)
      BY <1>2, <2>3, DeleteView DEF DeleteRecord, PageInv
    <3> QED
      BY <1>0, <1>2, <3>1, OutAndExc DEF Deletes, Keeps
  <2> QED
    BY <1>2, <2>1, <2>2, <2>3 DEF DeleteRecord
<1>3. ASSUME Intact, NEW s \in SlotIds, GetRecord(s)
      PROVE  PageInv'
  <2>1. CASE Throws("InvalidRecord") \/ Throws("out_of_range")
    BY <1>0, <1>3, <2>1, PageUntouched DEF Throws
  <2>2. CASE exc' = "StaleId"
    BY <1>0, <2>2
  <2>3. CASE /\ s \in UsedSlots /\ exc' # "StaleId"
             /\ ~Throws("InvalidRecord") /\ ~Throws("out_of_range")
    <3>1. /\ out' = RecordAt(data, s) /\ exc' = "none"
          /\ UNCHANGED <<lower, upper, numSlots, numFree, data>>
      BY <1>3, <2>3 DEF GetRecord
    <3>2. RecordAt(data, s) \in Records
      BY <1>3, <2>3, IntactPacked, UsedRecord DEF PageInv
    <3> QED
      BY <1>3, <3>1, <3>2, PageUntouched
  <2> QED
    BY <1>3, <2>1, <2>2, <2>3 DEF GetRecord
<1>4. ASSUME Intact, NEW s \in SlotIds, NEW r \in Records, UpdateRecord(s, r)
      PROVE  PageInv'
  <2>1. CASE Throws("InvalidRecord") \/ Throws("InsufficientSpace")
    BY <1>0, <1>4, <2>1, PageUntouched DEF Throws
  <2>2. CASE DeleteStale(s)
    BY <1>0, <2>2 DEF DeleteStale
  <2>3. CASE /\ s \in UsedSlots /\ FitsAfterDelete(s, r)
             /\ upper' = upper + LengthOf(data, s) - Len(r)
             /\ data' = WithRecord(Without(s), s, upper', r)
             /\ exc' = "none"
             /\ UNCHANGED <<lower, numSlots, numFree, out>>
    <3>1. Updates(s, r)
      BY <1>4, <2>3, UpdateView DEF PageInv
    <3> QED
      BY <1>0, <1>4, <3>1, OutAndExc DEF Updates, Keeps
  <2> QED
    BY <1>4, <2>1, <2>2, <2>3 DEF UpdateRecord
<1>5. ASSUME Intact, NEW r \in Records, InsertRecord(r)
      PROVE  PageInv'
  <2>1. Throws("InsufficientSpace") \/ Refuses \/ Inserts(r)
    BY <1>5, InsertView DEF PageInv
  <2>2. CASE Throws("InsufficientSpace")
    BY <1>0, <1>5, <2>2, PageUntouched DEF Throws
  <2>3. CASE Refuses
    BY <1>5, <2>3 DEF Refuses, PageInv, TypeOK, Typed, Intact
  <2>4. CASE Inserts(r)
    BY <1>0, <1>5, <2>4, OutAndExc DEF Inserts, Keeps
  <2> QED
    BY <2>1, <2>2, <2>3, <2>4
<1>6. ASSUME Initialize
      PROVE  PageInv'
  <2>1. Layout(data', numSlots', upper', lower', numFree')
    BY <1>6, FreshLayout DEF Initialize
  <2> QED
    BY <1>6, <2>1, OutAndExc DEF Initialize
<1> QED
  BY <1>1, <1>2, <1>3, <1>4, <1>5, <1>6 DEF Next

LEMMA Invariant == Spec => []PageInv
<1>1. Init => PageInv
  BY InvInit
<1>2. PageInv /\ [Next]_vars => PageInv'
  BY InvStep
<1> QED
  BY <1>1, <1>2, PTL DEF Spec

\* Until bytes past the last slot are taken for one, and again once the page is
\* initialized, the bounds of the header are in order, the counters in range, and
\* getRecord returns nothing but records that were stored.
THEOREM PageTyped == Spec => []TypeOK
<1>1. PageInv => TypeOK
  BY DEF PageInv
<1> QED
  BY <1>1, Invariant, PTL

\* However records are deleted, moved, shrunk and grown, they fill the page
\* from upper to its end without sharing a byte.
THEOREM RecordsStayPacked == Spec => []RecordsPacked
<1>1. ASSUME PageInv PROVE RecordsPacked
  <2>1. SUFFICES ASSUME Intact PROVE RecordsPacked
    BY DEF RecordsPacked
  <2>2. /\ PagePacked /\ Slots(data, numSlots) = UsedSlots
        /\ upper \in 0 .. DataSize
    BY <1>1, <2>1, IntactPacked DEF PageInv
  <2>3. \A t \in UsedSlots : /\ OffsetOf(data, t) \in Nat /\ LengthOf(data, t) \in Nat
                             /\ Top(data, t) = OffsetOf(data, t) + LengthOf(data, t)
                             /\ upper <= OffsetOf(data, t) /\ Top(data, t) <= DataSize
    BY <2>2, UsedRecord
  <2>4. ASSUME NEW s \in UsedSlots, NEW t \in UsedSlots, s # t
        PROVE  Extent(s) \cap Extent(t) = {}
    <3>1. Top(data, s) <= OffsetOf(data, t) \/ Top(data, t) <= OffsetOf(data, s)
      BY <2>2, <2>4 DEF PagePacked, Packed, Apart
    <3> QED
      BY <2>3, <3>1 DEF Extent
  <2>5. ASSUME NEW t \in UsedSlots PROVE Extent(t) \subseteq upper .. (DataSize - 1)
    <3>1. DataSize \in Nat
      BY DataSizeAssumption
    <3> QED
      BY <2>2, <2>3, <3>1 DEF Extent
  <2>6. ASSUME NEW i \in upper .. (DataSize - 1) PROVE \E t \in UsedSlots : i \in Extent(t)
    <3>1. PICK t \in UsedSlots : OffsetOf(data, t) <= i /\ i < Top(data, t)
      BY <2>2, <2>6 DEF PagePacked, Packed, Covered
    <3>2. i \in Int
      BY <2>2, DataSizeAssumption
    <3> QED
      BY <2>3, <3>1, <3>2 DEF Extent
  <2> QED
    BY <2>4, <2>5, <2>6 DEF RecordsPacked
<1> QED
  BY <1>1, Invariant, PTL

\* The counters of the header agree with the slot array, and its last slot is
\* in use.
THEOREM SlotsStayExact == Spec => []SlotsExact
<1>1. ASSUME PageInv PROVE SlotsExact
  BY <1>1, IntactPacked DEF PageInv, SlotsExact
<1> QED
  BY <1>1, Invariant, PTL

-----------------------------------------------------------------------------
(***************************************************************************)
(* The page as a map                                                       *)
(***************************************************************************)
\* The record of each slot.
Shown(d, n) == [s \in SlotIds |-> IF s \in Slots(d, n) THEN RecordAt(d, s) ELSE NoRecord]

LEMMA ContentShown ==
    ASSUME NEW d, NEW n, NEW u, NEW low, NEW free, Layout(d, n, u, low, free)
    PROVE  [s \in SlotIds |->
               IF s \in {t \in 1 .. n : IsUsed(d, t)}
                  /\ OffsetOf(d, s) .. (OffsetOf(d, s) + LengthOf(d, s) - 1) \subseteq Bytes
               THEN RecordAt(d, s) ELSE NoRecord] = Shown(d, n)
<1>1. /\ d \in [Bytes -> Nat] /\ n \in Nat /\ u \in 0 .. DataSize
      /\ SlotSize * n <= u /\ Packed(d, n, u)
  BY DEF Layout
<1>2. SlotSize * n <= DataSize /\ DataSize \in Nat
  BY <1>1, SlotSizeAssumption, DataSizeAssumption
<1>3. ASSUME NEW s \in Slots(d, n)
      PROVE  OffsetOf(d, s) .. (OffsetOf(d, s) + LengthOf(d, s) - 1) \subseteq Bytes
  <2>1. /\ OffsetOf(d, s) \in Nat /\ LengthOf(d, s) \in Nat
        /\ OffsetOf(d, s) + LengthOf(d, s) <= DataSize
    BY <1>1, <1>2, <1>3, PackedRecord
  <2> QED
    BY <1>2, <2>1 DEF Bytes
<1> QED
  BY <1>3 DEF Shown, Slots

LEMMA ShownNow ==
    ASSUME Layout(data, numSlots, upper, lower, numFree)
    PROVE  content = Shown(data, numSlots)
BY ContentShown DEF content, UsedSlots, Extent

LEMMA ShownThen ==
    ASSUME Layout(data', numSlots', upper', lower', numFree')
    PROVE  content' = Shown(data', numSlots')
BY ContentShown DEF content, UsedSlots, Extent

\* A call that leaves the bytes and the slots alone leaves the map alone.
LEMMA ContentStays ==
    ASSUME UNCHANGED <<numSlots, data>>
    PROVE  content' = content
BY DEF content, UsedSlots, Extent

LEMMA MapInit ==
    ASSUME Init
    PROVE  Map!Init
<1>1. UsedSlots = {}
  BY DEF Init, UsedSlots
<1>2. content = [s \in SlotIds |-> NoRecord]
  BY <1>1 DEF content
<1> QED
  BY <1>2 DEF Init, Map!Init

LEMMA MapStep ==
    ASSUME PageInv, [Next]_vars
    PROVE  [Intact' => Map!Next]_<<content, out>>
<1>1. CASE UNCHANGED vars
  BY <1>1, ContentStays DEF vars
<1>2. ASSUME NEW what, Throws(what)
      PROVE  UNCHANGED <<content, out>>
  BY <1>2, ContentStays DEF Throws
<1>3. ASSUME Initialize
      PROVE  Map!Clear
  <2>1. UsedSlots' = {}
    BY <1>3 DEF Initialize, UsedSlots
  <2>2. content' = [s \in SlotIds |-> NoRecord]
    BY <2>1 DEF content
  <2> QED
    BY <1>3, <2>2 DEF Initialize, Map!Clear
<1>4. SUFFICES ASSUME Intact, Next, ~Initialize
               PROVE  [Intact' => Map!Next]_<<content, out>>
  BY <1>1, <1>3 DEF Map!Next, Next
<1>5. Layout(data, numSlots, upper, lower, numFree)
  BY <1>4 DEF PageInv
<1>6. content = Shown(data, numSlots) /\ Slots(data, numSlots) = UsedSlots
      /\ UsedSlots \subseteq SlotIds
  BY <1>5, ShownNow, IntactPacked, LayoutTyped
<1>7. \A s \in UsedSlots : RecordAt(data, s) \in Records /\ RecordAt(data, s) # NoRecord
  BY <1>5, IntactPacked, UsedRecord, RecordsAssumption
<1>8. ASSUME NEW s \in SlotIds, DeleteRecord(s)
      PROVE  [Intact' => Map!Next]_<<content, out>>
  <2>1. CASE Throws("InvalidRecord") \/ DeleteStale(s)
    BY <1>2, <2>1 DEF DeleteStale, Intact
  <2>2. CASE s \in UsedSlots /\ ~Throws("InvalidRecord") /\ ~DeleteStale(s)
    <3>1. Deletes(s)
      BY <1>5, <1>8, <2>2, DeleteView DEF DeleteRecord
    <3>2. content' = Shown(data', numSlots') /\ Slots(data', numSlots') = UsedSlots \ {s}
          /\ \A t \in UsedSlots \ {s} : RecordAt(data', t) = RecordAt(data, t)
      BY <3>1, ShownThen DEF Deletes, Keeps
    <3>3. content' = [content EXCEPT ![s] = NoRecord]
      BY <1>6, <1>8, <3>2 DEF Shown
    <3>4. content[s] # NoRecord
      BY <1>6, <1>7, <2>2 DEF Shown
    <3>5. Map!Delete(s)
      BY <3>1, <3>3, <3>4 DEF Map!Delete, Deletes
    <3> QED
      BY <3>5 DEF Map!Next
  <2> QED
    BY <1>8, <2>1, <2>2 DEF DeleteRecord
<1>9. ASSUME NEW s \in SlotIds, GetRecord(s)
      PROVE  [Intact' => Map!Next]_<<content, out>>
  <2>1. CASE Throws("InvalidRecord") \/ Throws("out_of_range") \/ exc' = "StaleId"
    BY <1>2, <2>1 DEF Intact
  <2>2. CASE /\ s \in UsedSlots /\ exc' # "StaleId"
             /\ ~Throws("InvalidRecord") /\ ~Throws("out_of_range")
    <3>1. out' = RecordAt(data, s) /\ UNCHANGED <<numSlots, data>>
      BY <1>9, <2>2 DEF GetRecord
    <3>2. content' = content
      BY <3>1, ContentStays
    <3>3. content[s] = RecordAt(data, s) /\ content[s] # NoRecord
      BY <1>6, <1>7, <2>2 DEF Shown
    <3>4. Map!Get(s)
      BY <3>1, <3>2, <3>3 DEF Map!Get
    <3> QED
      BY <3>4 DEF Map!Next
  <2> QED
    BY <1>9, <2>1, <2>2 DEF GetRecord
<1>10. ASSUME NEW s \in SlotIds, NEW r \in Records, UpdateRecord(s, r)
       PROVE  [Intact' => Map!Next]_<<content, out>>
  <2>1. CASE \/ Throws("InvalidRecord") \/ Throws("InsufficientSpace") \/ DeleteStale(s)
    BY <1>2, <2>1 DEF DeleteStale, Intact
  <2>2. CASE /\ s \in UsedSlots /\ FitsAfterDelete(s, r)
             /\ upper' = upper + LengthOf(data, s) - Len(r)
             /\ data' = WithRecord(Without(s), s, upper', r)
             /\ exc' = "none"
             /\ UNCHANGED <<lower, numSlots, numFree, out>>
    <3>1. Updates(s, r)
      BY <1>5, <2>2, UpdateView
    <3>2. /\ content' = Shown(data', numSlots') /\ Slots(data', numSlots') = UsedSlots
          /\ \A t \in UsedSlots \ {s} : RecordAt(data', t) = RecordAt(data, t)
          /\ RecordAt(data', s) = r
      BY <3>1, ShownThen DEF Updates, Keeps
    <3>3. content' = [content EXCEPT ![s] = r]
      BY <1>6, <2>2, <3>2 DEF Shown
    <3>4. content[s] # NoRecord
      BY <1>6, <1>7, <2>2 DEF Shown
    <3>5. Map!Update(s, r)
      BY <3>1, <3>3, <3>4 DEF Map!Update, Updates
    <3> QED
      BY <3>5 DEF Map!Next
  <2> QED
    BY <1>10, <2>1, <2>2 DEF UpdateRecord
<1>11. ASSUME NEW r \in Records, InsertRecord(r)
       PROVE  [Intact' => Map!Next]_<<content, out>>
  <2>1. Throws("InsufficientSpace") \/ Refuses \/ Inserts(r)
    BY <1>5, <1>11, InsertView
  <2>2. CASE Throws("InsufficientSpace")
    BY <1>2, <2>2
  <2>3. CASE Refuses
    BY <2>3 DEF Refuses, Intact
  <2>4. CASE Inserts(r)
    <3>1. PICK s \in 1 .. numSlots' : /\ s \notin UsedSlots
                                      /\ Keeps(UsedSlots \cup {s}, UsedSlots)
                                      /\ RecordAt(data', s) = r
                                      /\ UNCHANGED out
      BY <2>4 DEF Inserts
    <3>2. /\ content' = Shown(data', numSlots') /\ Slots(data', numSlots') = UsedSlots \cup {s}
          /\ \A t \in UsedSlots : RecordAt(data', t) = RecordAt(data, t)
      BY <3>1, ShownThen DEF Keeps
    <3>3. s \in SlotIds
      <4>1. Slots(data', numSlots') \subseteq SlotIds
        BY <3>1, LayoutTyped DEF Keeps
      <4> QED
        BY <3>2, <4>1
    <3>4. content' = [content EXCEPT ![s] = r]
      BY <1>6, <3>1, <3>2, <3>3 DEF Shown
    <3>5. content[s] = NoRecord
      BY <1>6, <3>1, <3>3 DEF Shown
    <3>6. Map!Insert(s, r)
      BY <3>1, <3>4, <3>5 DEF Map!Insert
    <3> QED
      BY <3>3, <3>6 DEF Map!Next
  <2> QED
    BY <2>1, <2>2, <2>3, <2>4
<1> QED
  BY <1>4, <1>8, <1>9, <1>10, <1>11 DEF Next

\* A page is a map from slots to records: wherever the code moves them, no call
\* on one slot changes what another one holds, but for the insertion that finds
\* its new slot in use and a call on a slot the page does not have.
THEOREM PageImplements == Spec => ImplementsRecordMap
<1>1. Init => Map!Init
  BY MapInit
<1>2. PageInv /\ [Next]_vars => [Intact' => Map!Next]_<<content, out>>
  BY MapStep
<1> QED
  BY <1>1, <1>2, Invariant, PTL DEF Spec, ImplementsRecordMap

=============================================================================
