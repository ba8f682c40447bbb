----------------------------- MODULE SlottedPage -----------------------------
(***************************************************************************)
(* One page of CSE132C_TreeIndex-master: page.cpp, page.h.  data_ holds    *)
(* the slot array from its lower end upwards and the records from its      *)
(* upper end downwards, and both are read and written as plain bytes: what *)
(* lies in the gap between them is whatever was left there.                *)
(*                                                                         *)
(* A cell of data is a byte; a field of a slot takes one cell (two bytes   *)
(* in the code, with one of padding after "used").                         *)
(***************************************************************************)
EXTENDS Integers, Sequences, FiniteSets

CONSTANTS
    DataSize,   \* DATA_SIZE
    SlotSize,   \* sizeof(PageSlot), in cells
    Records,    \* the records that are stored, sequences of bytes
    NoRecord,
    Damage      \* what a page may be left with when bytes that are no slot are
                \* deleted as one: records [data, upper], of any set

ASSUME SlotSizeAssumption == SlotSize \in Nat /\ SlotSize >= 3
ASSUME DataSizeAssumption == DataSize \in Nat /\ DataSize >= SlotSize
ASSUME RecordsAssumption ==
    Records \subseteq Seq(Nat \ {0}) \ {<<>>} /\ NoRecord \notin Records

VARIABLES
    lower,      \* free_space_lower_bound
    upper,      \* free_space_upper_bound
    numSlots,
    numFree,    \* num_free_slots
    data,       \* data_
    out,        \* what the last getRecord since initialize returned
    exc         \* exception the last call ended with, or "none"; "StaleId" when
                \* it took bytes past the last slot for a slot and went ahead

vars == <<lower, upper, numSlots, numFree, data, out, exc>>

Bytes == 0 .. (DataSize - 1)

\* The slot numbers whose cells lie in data, slots of the page or not.
SlotIds == 1 .. (DataSize \div SlotSize)

\* getSlot: the place of a slot, allocated or not.
At(s) == (s - 1) * SlotSize
IsUsed(d, s) == d[At(s)] # 0
OffsetOf(d, s) == d[At(s) + 1]
LengthOf(d, s) == d[At(s) + 2]

WithSlot(d, s, used, offset, length) ==
    [d EXCEPT ![At(s)] = used, ![At(s) + 1] = offset, ![At(s) + 2] = length]

\* The bytes of the record in slot s.
RecordAt(d, s) == [i \in 1 .. LengthOf(d, s) |-> d[OffsetOf(d, s) + i - 1]]

UsedSlots == {s \in 1 .. numSlots : IsUsed(data, s)}

Zeroes == [i \in Bytes |-> 0]

Init ==
    /\ lower = 0 /\ upper = DataSize
    /\ numSlots = 0 /\ numFree = 0
    /\ data = Zeroes
    /\ out = NoRecord
    /\ exc = "none"

FreeSpace == upper - lower

\* A call that throws before it has changed anything.
Throws(what) == exc' = what /\ UNCHANGED <<lower, upper, numSlots, numFree, data, out>>

-----------------------------------------------------------------------------
(***************************************************************************)
(* insertRecord: hasSpaceForRecord, getAvailableSlot, insertRecordInSlot   *)
(***************************************************************************)
\* Mutant: the room for a new slot is forgotten.
HasSpaceForBytes(r) == Len(r) <= FreeSpace

HasSpaceForRecord(r) == Len(r) + (IF numFree = 0 THEN SlotSize ELSE 0) <= FreeSpace

\* Mutant: the last slot is taken for the unused one.
LastSlot == IF numFree > 0 THEN numSlots ELSE numSlots + 1

\* The first unused slot of the array, else one more.
AvailableSlot ==
    IF numFree > 0
    THEN CHOOSE s \in 1 .. numSlots : ~IsUsed(data, s) /\ \A t \in 1 .. (s - 1) : IsUsed(data, t)
    ELSE numSlots + 1

\* The bytes of r, put at offset.
WithBytes(d, offset, r) ==
    [i \in Bytes |-> IF i \in offset .. (offset + Len(r) - 1) THEN r[i - offset + 1] ELSE d[i]]

WithRecord(d, s, offset, r) == WithBytes(WithSlot(d, s, 1, offset, Len(r)), offset, r)

\* A slot that is new is not cleared: when bytes of a record were left where it
\* comes to lie, it looks used, and insertRecordInSlot throws with the slot
\* counted.
InsertRecord(r) ==
    \/ ~HasSpaceForRecord(r) /\ Throws("InsufficientSpace")
    \/ LET s == AvailableSlot
           isNew == s > numSlots
       IN  /\ HasSpaceForRecord(r)
           /\ numSlots' = IF isNew THEN s ELSE numSlots
           /\ lower' = IF isNew THEN SlotSize * s ELSE lower
           /\ IF isNew /\ IsUsed(data, s)
              THEN /\ numFree' = numFree + 1
                   /\ exc' = "SlotInUse"
                   /\ UNCHANGED <<upper, data, out>>
              ELSE /\ numFree' = IF isNew THEN numFree ELSE numFree - 1
                   /\ upper' = upper - Len(r)
                   /\ data' = WithRecord(data, s, upper', r)
                   /\ exc' = "none"
                   /\ UNCHANGED out

-----------------------------------------------------------------------------
(***************************************************************************)
(* deleteRecord(record_id, allow_slot_compaction)                          *)
(***************************************************************************)
\* validateRecordId asks the cell where slot s would be, however many slots
\* there are: beyond them it reads what was left there, or a record.
Validates(s) == IsUsed(data, s)
StaleId(s) == s > numSlots /\ Validates(s)

\* Mutant: the hole is not closed.
NothingMoved(s) == {}

\* The slots whose records lie below that of slot s and are moved up.
Moved(s) == {t \in UsedSlots : OffsetOf(data, t) < OffsetOf(data, s)}

\* move_bytes: what the records that are moved take up, added slot by slot.
MoveBytes(s) ==
    LET upTo[n \in 0 .. numSlots] ==
            IF n = 0 THEN 0
            ELSE upTo[n - 1] + (IF n \in Moved(s) THEN LengthOf(data, n) ELSE 0)
    IN  upTo[numSlots]

\* data_ without the record of slot s: its bytes are zeroed, the records below
\* are copied up as one block, and the block's lower end keeps its old bytes.
Without(s) ==
    LET length == LengthOf(data, s)
        first == OffsetOf(data, s)
        zeroed == [i \in Bytes |-> IF i \in first .. (first + length - 1) THEN 0 ELSE data[i]]
        moveOffset == CHOOSE o \in {OffsetOf(data, t) : t \in Moved(s)} :
                          \A t \in Moved(s) : o <= OffsetOf(data, t)
        block == IF MoveBytes(s) = 0 THEN {}
                 ELSE (moveOffset + length) .. (moveOffset + length + MoveBytes(s) - 1)
        copied == [i \in Bytes |-> IF i \in block THEN zeroed[i - length] ELSE zeroed[i]]
        ShiftedSlot(i) == \E t \in Moved(s) : i = At(t) + 1
    IN  WithSlot([i \in Bytes |-> IF ShiftedSlot(i) THEN copied[i] + length ELSE copied[i]],
                 s, 0, 0, 0)

\* Mutant: one slot is dropped, the unused ones before it stay.
LastSlotOnly(s) == IF s = numSlots THEN s - 1 ELSE numSlots

\* How many slots stay when slot s is deleted: the unused ones at the end of
\* the array go with it.
SlotsLeft(s) ==
    IF s # numSlots THEN numSlots
    ELSE CHOOSE n \in 0 .. (s - 1) : /\ n = 0 \/ IsUsed(data, n)
                                     /\ \A t \in (n + 1) .. (s - 1) : ~IsUsed(data, t)

\* Bytes that are no slot are deleted as one: those their offset and length
\* select are zeroed and records are moved over others, which may change the
\* slots, and the offset and length themselves on the way.  The counter goes up.
DeleteStale(s) ==
    /\ StaleId(s)
    /\ \E d \in Damage : data' = d.data /\ upper' = d.upper
    /\ numFree' = numFree + 1
    /\ exc' = "StaleId"
    /\ UNCHANGED <<lower, numSlots, out>>

DeleteRecord(s) ==
    \/ ~Validates(s) /\ Throws("InvalidRecord")
    \/ DeleteStale(s)
    \/ /\ s \in UsedSlots
       /\ data' = Without(s)
       /\ upper' = upper + LengthOf(data, s)
       /\ numSlots' = SlotsLeft(s)
       /\ numFree' = numFree + 1 - (numSlots - SlotsLeft(s))
       /\ lower' = lower - SlotSize * (numSlots - SlotsLeft(s))
       /\ exc' = "none"
       /\ UNCHANGED out

-----------------------------------------------------------------------------
(***************************************************************************)
(* updateRecord, getRecord, and the page's deletion from its file          *)
(***************************************************************************)
FitsAfterDelete(s, r) == Len(r) <= FreeSpace + LengthOf(data, s)

\* The record is deleted without giving its slot up, then inserted again; in
\* a slot past the last, insertRecordInSlot throws when the damage is done.
UpdateRecord(s, r) ==
    \/ ~Validates(s) /\ Throws("InvalidRecord")
    \/ Validates(s) /\ ~FitsAfterDelete(s, r) /\ Throws("InsufficientSpace")
    \/ FitsAfterDelete(s, r) /\ DeleteStale(s)
    \/ /\ s \in UsedSlots /\ FitsAfterDelete(s, r)
       /\ upper' = upper + LengthOf(data, s) - Len(r)
       /\ data' = WithRecord(Without(s), s, upper', r)
       /\ exc' = "none"
       /\ UNCHANGED <<lower, numSlots, numFree, out>>

\* substr: the bytes the cells of s select, cut at the end of the page.
Selected(s) ==
    LET rest == DataSize - OffsetOf(data, s)
        length == IF LengthOf(data, s) <= rest THEN LengthOf(data, s) ELSE rest
    IN  [i \in 1 .. length |-> data[OffsetOf(data, s) + i - 1]]

\* Past the last slot, whatever the bytes there select is returned.
GetRecord(s) ==
    \/ ~Validates(s) /\ Throws("InvalidRecord")
    \/ StaleId(s) /\ OffsetOf(data, s) > DataSize /\ Throws("out_of_range")
    \/ /\ StaleId(s) /\ OffsetOf(data, s) <= DataSize
       /\ out' = Selected(s)
       /\ exc' = "StaleId"
       /\ UNCHANGED <<lower, upper, numSlots, numFree, data>>
    \/ /\ s \in UsedSlots
       /\ out' = RecordAt(data, s)
       /\ exc' = "none"
       /\ UNCHANGED <<lower, upper, numSlots, numFree, data>>

\* PageFile::deletePage initializes the page, whatever became of it.
Initialize ==
    /\ lower' = 0 /\ upper' = DataSize
    /\ numSlots' = 0 /\ numFree' = 0
    /\ data' = Zeroes
    /\ out' = NoRecord
    /\ exc' = "none"

\* What the page does once a new slot was taken for used, or bytes past the last
\* for a slot, is not followed until it is initialized again.  (getRecord of
\* such bytes changes nothing of the page: it goes on as without the call.)
Intact == exc \notin {"SlotInUse", "StaleId"}

Next ==
    \/ Intact /\ \E s \in SlotIds : \/ DeleteRecord(s) \/ GetRecord(s)
                                    \/ \E r \in Records : UpdateRecord(s, r)
    \/ Intact /\ \E r \in Records : InsertRecord(r)
    \/ Initialize

Spec == Init /\ [][Next]_vars

-----------------------------------------------------------------------------
(***************************************************************************)
(* Properties                                                              *)
(***************************************************************************)
Extent(s) == OffsetOf(data, s) .. (OffsetOf(data, s) + LengthOf(data, s) - 1)

\* The bounds are in order, the counters in range, and getRecord returned a
\* record that was stored, as long as no bytes were taken for a slot.
Typed ==
    /\ lower \in 0 .. DataSize /\ upper \in 0 .. DataSize /\ lower <= upper
    /\ numSlots \in 0 .. Cardinality(SlotIds) /\ numFree \in 0 .. numSlots
    /\ data \in [Bytes -> Nat]
    /\ out \in Records \cup {NoRecord}

TypeOK ==
    /\ exc \in {"none", "InsufficientSpace", "SlotInUse", "InvalidRecord",
                "StaleId", "out_of_range"}
    /\ exc # "StaleId" => Typed

\* The records fill the page from upper to its end: no two share a byte and
\* no byte between them is lost, after any sequence of deletions that move
\* records and updates that make them grow or shrink.
RecordsPacked ==
    Intact =>
        /\ \A s, t \in UsedSlots : s # t => Extent(s) \cap Extent(t) = {}
        /\ UNION {Extent(s) : s \in UsedSlots} = upper .. (DataSize - 1)

\* The counters agree with the slot array, and its last slot is in use: what
\* deletions freed is given back, so a page whose records are all deleted has
\* all of its space again.
SlotsExact ==
    Intact =>
        /\ lower = SlotSize * numSlots
        /\ numFree = numSlots - Cardinality(UsedSlots)
        /\ numSlots > 0 => numSlots \in UsedSlots

\* The page implements a map from slots to records: a call on one slot leaves
\* the records of the others as they are wherever it moves them to, and a
\* failed one changes nothing.  There are two exceptions: the insertion that
\* finds its new slot in use, and a call that is given the id of a slot the page
\* does not have, whose bytes validateRecordId takes for a slot: it returns or
\* changes anything.
content == [s \in SlotIds |-> IF s \in UsedSlots /\ Extent(s) \subseteq Bytes
                              THEN RecordAt(data, s) ELSE NoRecord]

Map == INSTANCE RecordMap WITH content <- content, out <- out

ImplementsRecordMap ==
    Map!Init /\ [][Intact' => Map!Next]_<<content, out>>

\* page.h on hasSpaceForRecord: "Returns true if the page has enough free space
\* to hold the given data."  A record it says there is room for is inserted, in a
\* page whose slots are its own.
InsertedWhenRoom ==
    [][\A r \in Records :
           Intact /\ InsertRecord(r) /\ HasSpaceForRecord(r) => exc' = "none"]_vars

=============================================================================
