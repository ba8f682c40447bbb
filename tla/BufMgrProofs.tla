---------------------------- MODULE BufMgrProofs ----------------------------
(***************************************************************************)
(* Proofs about BufMgr and ClockBufMgr, for every size of the pool and     *)
(* every set of files, pages and contents.  The inductive invariant is the *)
(* same: where an operation is shared, so is its lemma.                    *)
(***************************************************************************)
EXTENDS ClockBufMgr, FiniteSetTheorems, TLAPS

\* The four invariants hold only together: unPinPage changes the descriptor
\* the hash table names, so the shape of the descriptors needs the agreement
\* of table and frames, and an eviction keeps the bytes of a clean frame
\* only because they are those on disk.
IInv == /\ TypeOK
        /\ HashMatchesFrames
        /\ CachedPagesExist
        /\ CleanFramesMatchDisk

-----------------------------------------------------------------------------
\* A set of naturals has a least element.
LEMMA LeastElement ==
    ASSUME NEW T \in SUBSET Nat, T # {}
    PROVE  \E m \in T : \A t \in T : m <= t
<1>1. PICK R : R = {nm \in Nat \X Nat : nm[1] < nm[2]}
  OBVIOUS
<1>2. IsWellFoundedOn(R, Nat)
  BY <1>1, NatLessThanWellFounded DEF OpToRel
<1>3. PICK m \in T : \A t \in T : <<t, m>> \notin R
  BY <1>2, WFMin
<1>4. ASSUME NEW t \in T, t < m PROVE FALSE
  BY <1>1, <1>3, <1>4
<1> QED
  BY <1>4

\* The clock hand always points at a frame.
LEMMA HandAtType ==
    ASSUME clockHand \in Frames, NEW k \in Nat
    PROVE  HandAt(k) \in Frames
BY NumBufsAssumption DEF HandAt, Frames

\* A cleared descriptor is a descriptor.
LEMMA ClearType == Clear \in BufDesc
BY NullAssumption DEF Clear, BufDesc

\* So is one that Set has filled in.
LEMMA SetType ==
    ASSUME NEW f \in Files, NEW p \in Pages
    PROVE  Set(f, p) \in BufDesc
BY DEF Set, BufDesc

\* The frame the search stops at is unpinned, so nobody has changes in it.
LEMMA VictimFacts ==
    ASSUME TypeOK, NEW k \in ScanSteps, StopsAt(k)
    PROVE  /\ HandAt(k) \in Frames
           /\ bufDescTable[HandAt(k)].pinCnt = 0
           /\ HandAt(k) \notin unreported
<1>1. k \in Nat
  BY NumBufsAssumption DEF ScanSteps
<1>2. HandAt(k) \in Frames
  BY <1>1, HandAtType DEF TypeOK
<1>3. bufDescTable[HandAt(k)].pinCnt = 0
  BY <1>2 DEF TypeOK, StopsAt, UsableAt, Clear
<1> QED
  BY <1>2, <1>3 DEF TypeOK

\* A descriptor that loses its refbit keeps the rest.
LEMMA ClearedRefbit ==
    ASSUME NEW d \in BufDesc, NEW e, e = [d EXCEPT !.refbit = FALSE]
    PROVE  /\ e \in BufDesc
           /\ e.file = d.file /\ e.pageNo = d.pageNo /\ e.pinCnt = d.pinCnt
           /\ e.dirty = d.dirty /\ e.valid = d.valid
           /\ d = Clear => e = Clear
<1>1. e \in BufDesc
  BY DEF BufDesc
<1>2. /\ e.file = d.file /\ e.pageNo = d.pageNo /\ e.pinCnt = d.pinCnt
      /\ e.dirty = d.dirty /\ e.valid = d.valid
  BY DEF BufDesc
<1>3. d = Clear => e = Clear
  <2> SUFFICES ASSUME d = Clear PROVE e = Clear
    OBVIOUS
  <2>1. e.refbit = FALSE
    BY DEF BufDesc
  <2>2. e = [file |-> e.file, pageNo |-> e.pageNo, pinCnt |-> e.pinCnt,
             dirty |-> e.dirty, valid |-> e.valid, refbit |-> e.refbit]
    BY <1>1 DEF BufDesc
  <2> QED
    BY <1>2, <2>1, <2>2 DEF Clear
<1> QED
  BY <1>1, <1>2, <1>3

\* So does one whose pins are counted up or down, referenced or not.
LEMMA PinCountChanged ==
    ASSUME NEW d \in BufDesc, NEW n \in Nat, NEW e, e = [d EXCEPT !.pinCnt = n]
    PROVE  /\ e \in BufDesc
           /\ e.file = d.file /\ e.pageNo = d.pageNo /\ e.pinCnt = n
           /\ e.dirty = d.dirty /\ e.valid = d.valid
<1>1. e \in BufDesc
  BY DEF BufDesc
<1>2. /\ e.file = d.file /\ e.pageNo = d.pageNo /\ e.pinCnt = n
      /\ e.dirty = d.dirty /\ e.valid = d.valid
  BY DEF BufDesc
<1> QED
  BY <1>1, <1>2

\* What a hit of readPage does to a descriptor.
LEMMA ReferencedFacts ==
    ASSUME NEW d \in BufDesc, NEW e, e = Referenced(d)
    PROVE  /\ e \in BufDesc
           /\ e.file = d.file /\ e.pageNo = d.pageNo
           /\ e.dirty = d.dirty /\ e.valid = d.valid /\ e.pinCnt > 0
<1>1. PICK n \in Nat : n = d.pinCnt + 1 /\ n > 0
  BY DEF BufDesc
<1>2. e = [d EXCEPT !.refbit = TRUE, !.pinCnt = n]
  BY <1>1 DEF Referenced, BufDesc
<1>3. e \in BufDesc
  BY <1>2 DEF BufDesc
<1>4. /\ e.file = d.file /\ e.pageNo = d.pageNo /\ e.pinCnt = n
      /\ e.dirty = d.dirty /\ e.valid = d.valid
  BY <1>2 DEF BufDesc
<1> QED
  BY <1>1, <1>3, <1>4

\* What unPinPage does to a descriptor.
LEMMA UnpinnedFacts ==
    ASSUME NEW d \in BufDesc, NEW e, e = Unpinned(d)
    PROVE  /\ e \in BufDesc
           /\ e.file = d.file /\ e.pageNo = d.pageNo
           /\ e.dirty = d.dirty /\ e.valid = d.valid
           /\ d.pinCnt > 1 => e.pinCnt > 0
<1>1. d.pinCnt \in Nat
  BY DEF BufDesc
<1>2. CASE d.pinCnt = 0
  BY <1>2 DEF Unpinned
<1>3. CASE d.pinCnt # 0
  <2>1. PICK n \in Nat : n = d.pinCnt - 1
    BY <1>1, <1>3
  <2>2. e = [d EXCEPT !.pinCnt = n]
    BY <1>3, <2>1 DEF Unpinned
  <2>3. d.pinCnt > 1 => n > 0
    BY <1>1, <2>1
  <2> QED
    BY <2>2, <2>3, PinCountChanged
<1> QED
  BY <1>2, <1>3

\* What cleanUpPinnedPage does to a descriptor.
LEMMA CleanedUpFacts ==
    ASSUME NEW d \in BufDesc, NEW e, e = CleanedUp(d)
    PROVE  /\ e \in BufDesc
           /\ e.file = d.file /\ e.pageNo = d.pageNo /\ e.valid = d.valid
           /\ e.dirty
<1>1. e \in BufDesc
  BY DEF CleanedUp, BufDesc
<1>2. e.file = d.file /\ e.pageNo = d.pageNo
  BY DEF CleanedUp, BufDesc
<1>3. e.valid = d.valid
  BY DEF CleanedUp, BufDesc
<1>4. e.dirty
  BY DEF CleanedUp, BufDesc
<1> QED
  BY <1>1, <1>2, <1>3, <1>4

\* What the dirty argument of unPinPage does to a descriptor.
LEMMA MarkedFacts ==
    ASSUME NEW d \in BufDesc, NEW b \in BOOLEAN, NEW e, e = Marked(d, b)
    PROVE  /\ e \in BufDesc
           /\ e.file = d.file /\ e.pageNo = d.pageNo /\ e.pinCnt = d.pinCnt
           /\ e.valid = d.valid
           /\ b \/ d.dirty => e.dirty
<1>1. e \in BufDesc
  BY DEF Marked, BufDesc
<1>2. e.file = d.file /\ e.pageNo = d.pageNo /\ e.pinCnt = d.pinCnt
  BY DEF Marked, BufDesc
<1>3. e.valid = d.valid
  BY DEF Marked, BufDesc
<1>4. b \/ d.dirty => e.dirty
  BY DEF Marked, BufDesc
<1> QED
  BY <1>1, <1>2, <1>3, <1>4

\* Sweeping changes refbits only.
LEMMA SweptFacts ==
    ASSUME TypeOK, NEW k
    PROVE  /\ Swept(k) \in [Frames -> BufDesc]
           /\ \A i \in Frames :
                /\ Swept(k)[i].file = bufDescTable[i].file
                /\ Swept(k)[i].pageNo = bufDescTable[i].pageNo
                /\ Swept(k)[i].pinCnt = bufDescTable[i].pinCnt
                /\ Swept(k)[i].dirty = bufDescTable[i].dirty
                /\ Swept(k)[i].valid = bufDescTable[i].valid
                /\ bufDescTable[i] = Clear => Swept(k)[i] = Clear
<1>1. ASSUME NEW i \in Frames
      PROVE  /\ bufDescTable[i] \in BufDesc
             /\ \/ Swept(k)[i] = [bufDescTable[i] EXCEPT !.refbit = FALSE]
                \/ Swept(k)[i] = bufDescTable[i]
  BY <1>1 DEF Swept, TypeOK
<1>2. Swept(k) = [i \in Frames |-> Swept(k)[i]]
  BY DEF Swept
<1>3. \A i \in Frames : Swept(k)[i] \in BufDesc
  BY <1>1, ClearedRefbit
<1>4. Swept(k) \in [Frames -> BufDesc]
  BY <1>2, <1>3
<1> QED
  BY <1>1, <1>4, ClearedRefbit

\* What allocBuf does to the hash table and the disk when it takes frame i:
\* only i leaves the table, and only the page in i may change on disk, to the
\* bytes it has in the pool.
LEMMA EvictFacts ==
    ASSUME IInv, NEW i \in Frames, i \notin unreported
    PROVE  /\ HashWithout(i) \in [Keys -> Frames \cup {NoFrame}]
           /\ \A q \in Keys, j \in Frames :
                HashWithout(i)[q] = j <=> j # i /\ hashTable[q] = j
           /\ DiskAfterWriteBack(i) \in [Keys -> Contents \cup {Free}]
           /\ \A q \in Keys : /\ DiskAfterWriteBack(i)[q] = Free <=> disk[q] = Free
                              /\ hashTable[q] = i => DiskAfterWriteBack(i)[q] = bufPool[i]
                              /\ hashTable[q] # i => DiskAfterWriteBack(i)[q] = disk[q]
<1> USE DEF IInv
<1>1. NoFrame \notin Frames
  BY NumBufsAssumption DEF NoFrame, Frames
<1>2. /\ hashTable \in [Keys -> Frames \cup {NoFrame}]
      /\ disk \in [Keys -> Contents \cup {Free}]
      /\ bufPool[i] \in Contents
      /\ bufPool[i] # Free
  BY FreeAssumption DEF TypeOK
<1>3. \A q \in Keys, j \in Frames :
        hashTable[q] = j <=> bufDescTable[j].valid /\ KeyOf(j) = q
  BY DEF HashMatchesFrames
<1>4. CASE ~bufDescTable[i].valid
  <2>1. HashWithout(i) = hashTable
    BY <1>4 DEF HashWithout
  <2>2. DiskAfterWriteBack(i) = disk
    BY <1>4 DEF DiskAfterWriteBack, TypeOK, Clear
  <2> QED
    BY <1>2, <1>3, <1>4, <2>1, <2>2
<1>5. CASE bufDescTable[i].valid
  <2>1. KeyOf(i) \in Keys /\ hashTable[KeyOf(i)] = i /\ disk[KeyOf(i)] # Free
    BY <1>3, <1>5 DEF TypeOK, CachedPagesExist
  <2>2. HashWithout(i) = [hashTable EXCEPT ![KeyOf(i)] = NoFrame]
    BY <1>5 DEF HashWithout, KeyOf
  <2>3. \/ DiskAfterWriteBack(i) = [disk EXCEPT ![KeyOf(i)] = bufPool[i]]
        \/ DiskAfterWriteBack(i) = disk /\ disk[KeyOf(i)] = bufPool[i]
    BY <1>5 DEF DiskAfterWriteBack, KeyOf, CleanFramesMatchDisk
  <2>4. /\ HashWithout(i) \in [Keys -> Frames \cup {NoFrame}]
        /\ \A q \in Keys, j \in Frames :
                HashWithout(i)[q] = j <=> j # i /\ hashTable[q] = j
    BY <1>1, <1>2, <1>3, <1>5, <2>1, <2>2
  <2>5. \A q \in Keys : hashTable[q] = i <=> q = KeyOf(i)
    BY <1>3, <1>5
  <2>6. /\ DiskAfterWriteBack(i) \in [Keys -> Contents \cup {Free}]
        /\ DiskAfterWriteBack(i)[KeyOf(i)] = bufPool[i]
        /\ \A q \in Keys : q # KeyOf(i) => DiskAfterWriteBack(i)[q] = disk[q]
    BY <1>2, <2>1, <2>3
  <2> QED
    BY <1>2, <2>1, <2>4, <2>5, <2>6
<1> QED
  BY <1>4, <1>5

\* Once a cleared or reused frame is written into a swept pool, what IInv
\* says of the other frames still holds.
LEMMA FrameGiven ==
    ASSUME IInv, NEW k \in ScanSteps, StopsAt(k), NEW i, i = HandAt(k),
           NEW f \in Files, NEW p \in Pages, hashTable[<<f, p>>] = NoFrame,
           NEW c \in Contents, NEW newDisk \in [Keys -> Contents \cup {Free}],
           newDisk[<<f, p>>] = c,
           \A q \in Keys \ {<<f, p>>} : newDisk[q] = DiskAfterWriteBack(HandAt(k))[q],
           AllocBufFor(k, f, p, c, newDisk)
    PROVE  IInv'
<1>0. <<f, p>> \in Keys
  BY DEF Keys
<1>1. NoFrame \notin Frames /\ c # Free
  BY NumBufsAssumption, FreeAssumption DEF NoFrame, Frames
<1>2. i \in Frames /\ bufDescTable[i].pinCnt = 0 /\ i \notin unreported
  BY VictimFacts DEF IInv
<1>3. /\ bufDescTable' = [Swept(k) EXCEPT ![i] = Set(f, p)]
      /\ bufPool' = [bufPool EXCEPT ![i] = c]
      /\ hashTable' = [HashWithout(i) EXCEPT ![<<f, p>>] = i]
      /\ clockHand' = i /\ disk' = newDisk /\ exc' = "none"
      /\ unreported' = unreported
  BY DEF AllocBufFor
<1>4. /\ bufDescTable' \in [Frames -> BufDesc]
      /\ bufDescTable'[i] = Set(f, p)
      /\ \A j \in Frames \ {i} :
            /\ bufDescTable'[j].file = bufDescTable[j].file
            /\ bufDescTable'[j].pageNo = bufDescTable[j].pageNo
            /\ bufDescTable'[j].pinCnt = bufDescTable[j].pinCnt
            /\ bufDescTable'[j].dirty = bufDescTable[j].dirty
            /\ bufDescTable'[j].valid = bufDescTable[j].valid
            /\ bufDescTable[j] = Clear => bufDescTable'[j] = Clear
  BY <1>2, <1>3, SweptFacts, SetType DEF IInv
<1>5. /\ hashTable' \in [Keys -> Frames \cup {NoFrame}]
      /\ hashTable'[<<f, p>>] = i
      /\ \A q \in Keys \ {<<f, p>>}, j \in Frames :
            hashTable'[q] = j <=> j # i /\ hashTable[q] = j
  BY <1>0, <1>2, <1>3, EvictFacts
<1>6. \A q \in Keys \ {<<f, p>>} :
            /\ disk'[q] = Free <=> disk[q] = Free
            /\ hashTable[q] # i => disk'[q] = disk[q]
  BY <1>2, <1>3, EvictFacts
<1>7. bufDescTable'[i].valid /\ KeyOf(i)' = <<f, p>>
  BY <1>4 DEF Set, KeyOf
<1>8. \A j \in Frames \ {i} : KeyOf(j)' = KeyOf(j)
  BY <1>4 DEF KeyOf
<1>9. \A q \in Keys, j \in Frames :
        hashTable[q] = j <=> bufDescTable[j].valid /\ KeyOf(j) = q
  BY DEF IInv, HashMatchesFrames
<1>10. TypeOK'
  <2>1. bufPool' \in [Frames -> Contents] /\ clockHand' \in Frames
        /\ disk' \in [Keys -> Contents \cup {Free}] /\ exc' \in Exceptions
    BY <1>2, <1>3 DEF IInv, TypeOK, Exceptions
  <2>2. unreported' \subseteq {j \in Frames : bufDescTable'[j].pinCnt > 0}
    BY <1>2, <1>3, <1>4 DEF IInv, TypeOK
  <2>3. \A j \in Frames : IF bufDescTable'[j].valid
                          THEN KeyOf(j)' \in Keys ELSE bufDescTable'[j] = Clear
    BY <1>0, <1>4, <1>7, <1>8 DEF IInv, TypeOK, KeyOf
  <2> QED
    BY <1>4, <1>5, <2>1, <2>2, <2>3 DEF TypeOK, KeyOf
<1>11. HashMatchesFrames'
  BY <1>0, <1>1, <1>4, <1>5, <1>7, <1>8, <1>9 DEF HashMatchesFrames, KeyOf
<1>12. CachedPagesExist'
  <2>1. disk'[<<f, p>>] # Free
    BY <1>1, <1>3
  <2>2. ASSUME NEW j \in Frames \ {i}, bufDescTable[j].valid
        PROVE  disk'[KeyOf(j)] # Free
    BY <1>0, <1>1, <1>6, <2>1, <2>2 DEF IInv, TypeOK, CachedPagesExist
  <2> QED
    BY <1>4, <1>7, <1>8, <2>1, <2>2 DEF CachedPagesExist, KeyOf
<1>13. CleanFramesMatchDisk'
  <2>1. bufPool'[i] = disk'[KeyOf(i)']
    BY <1>2, <1>3, <1>7 DEF IInv, TypeOK
  <2>2. ASSUME NEW j \in Frames \ {i}, bufDescTable'[j].valid,
               ~bufDescTable'[j].dirty, j \notin unreported'
        PROVE  bufPool'[j] = disk'[KeyOf(j)']
    <3>1. bufDescTable[j].valid /\ ~bufDescTable[j].dirty /\ j \notin unreported
      BY <1>3, <1>4, <2>2
    <3>2. bufPool[j] = disk[KeyOf(j)] /\ KeyOf(j) \in Keys
      BY <3>1 DEF IInv, TypeOK, CleanFramesMatchDisk
    <3>3. hashTable[KeyOf(j)] = j
      BY <1>9, <3>1, <3>2
    <3>4. KeyOf(j) # <<f, p>>
      BY <1>1, <3>3
    <3>5. bufPool'[j] = bufPool[j]
      BY <1>3 DEF IInv, TypeOK
    <3> QED
      BY <1>6, <1>8, <3>2, <3>3, <3>4, <3>5
  <2> QED
    BY <2>1, <2>2 DEF CleanFramesMatchDisk, KeyOf
<1> QED
  BY <1>10, <1>11, <1>12, <1>13 DEF IInv

\* What a step that gives no frame to a page must keep for IInv to hold: the
\* frames of S are cleared and leave the hash table, the others stay with
\* their pages, and no page that stays buffered diverges from its file.
FramesStand(S) ==
    /\ bufDescTable' \in [Frames -> BufDesc]
    /\ bufPool' \in [Frames -> Contents]
    /\ hashTable' \in [Keys -> Frames \cup {NoFrame}]
    /\ clockHand' \in Frames
    /\ disk' \in [Keys -> Contents \cup {Free}]
    /\ unreported' \subseteq {j \in Frames : bufDescTable'[j].pinCnt > 0}
    /\ exc' \in Exceptions
    /\ \A j \in S : bufDescTable'[j] = Clear
    /\ \A j \in Frames \ S :
          /\ bufDescTable'[j].file = bufDescTable[j].file
          /\ bufDescTable'[j].pageNo = bufDescTable[j].pageNo
          /\ bufDescTable'[j].valid = bufDescTable[j].valid
          /\ ~bufDescTable[j].valid => bufDescTable'[j] = Clear
    /\ \A q \in Keys, j \in Frames : hashTable'[q] = j <=> j \notin S /\ hashTable[q] = j
    /\ \A j \in Frames \ S : bufDescTable[j].valid =>
          /\ disk'[KeyOf(j)] # Free
          /\ \/ bufDescTable'[j].dirty
             \/ j \in unreported'
             \/ bufPool'[j] = disk'[KeyOf(j)]

LEMMA FramesKept ==
    ASSUME IInv, NEW S \in SUBSET Frames, FramesStand(S)
    PROVE  IInv'
<1>1. \A j \in S : ~bufDescTable'[j].valid
  BY DEF Clear, FramesStand
<1>2. \A j \in Frames \ S : KeyOf(j)' = KeyOf(j)
  BY DEF KeyOf, FramesStand
<1>3. TypeOK'
  <2>1. ASSUME NEW j \in Frames
        PROVE  IF bufDescTable'[j].valid THEN KeyOf(j)' \in Keys ELSE bufDescTable'[j] = Clear
    BY <1>1, <1>2 DEF FramesStand, IInv, TypeOK, KeyOf
  <2> QED
    BY <2>1 DEF FramesStand, TypeOK, KeyOf
<1>4. HashMatchesFrames'
  BY <1>1, <1>2 DEF FramesStand, IInv, HashMatchesFrames, KeyOf
<1>5. CachedPagesExist'
  BY <1>1, <1>2 DEF FramesStand, CachedPagesExist, KeyOf
<1>6. CleanFramesMatchDisk'
  BY <1>1, <1>2 DEF FramesStand, CleanFramesMatchDisk, KeyOf
<1> QED
  BY <1>3, <1>4, <1>5, <1>6 DEF IInv

-----------------------------------------------------------------------------
\* A read that fails after allocBuf has cleared its frame keeps IInv.
LEMMA ReadInvalidStep ==
    ASSUME IInv, NEW f \in Files, NEW p \in Pages, ReadInvalid(f, p)
    PROVE  IInv'
<1>1. PICK k \in ScanSteps :
        /\ StopsAt(k)
        /\ bufDescTable' = [Swept(k) EXCEPT ![HandAt(k)] = Clear]
        /\ hashTable' = HashWithout(HandAt(k))
        /\ clockHand' = HandAt(k)
        /\ disk' = DiskAfterWriteBack(HandAt(k))
        /\ exc' = "InvalidPage"
        /\ bufPool' = bufPool /\ unreported' = unreported
  BY DEF ReadInvalid
<1>2. PICK i \in Frames : i = HandAt(k) /\ bufDescTable[i].pinCnt = 0 /\ i \notin unreported
  BY <1>1, VictimFacts DEF IInv
<1>3. /\ bufDescTable' \in [Frames -> BufDesc]
      /\ bufDescTable'[i] = Clear
      /\ \A j \in Frames \ {i} :
            /\ bufDescTable'[j].file = bufDescTable[j].file
            /\ bufDescTable'[j].pageNo = bufDescTable[j].pageNo
            /\ bufDescTable'[j].pinCnt = bufDescTable[j].pinCnt
            /\ bufDescTable'[j].dirty = bufDescTable[j].dirty
            /\ bufDescTable'[j].valid = bufDescTable[j].valid
            /\ ~bufDescTable[j].valid => bufDescTable'[j] = Clear
  BY <1>1, <1>2, SweptFacts, ClearType DEF IInv, TypeOK
<1>4. /\ hashTable' \in [Keys -> Frames \cup {NoFrame}]
      /\ \A q \in Keys, j \in Frames : hashTable'[q] = j <=> j # i /\ hashTable[q] = j
      /\ disk' \in [Keys -> Contents \cup {Free}]
      /\ \A q \in Keys : /\ disk'[q] = Free <=> disk[q] = Free
                         /\ hashTable[q] # i => disk'[q] = disk[q]
  BY <1>1, <1>2, EvictFacts
<1>5. /\ bufPool' \in [Frames -> Contents] /\ clockHand' \in Frames /\ exc' \in Exceptions
      /\ unreported' \subseteq {j \in Frames : bufDescTable'[j].pinCnt > 0}
  BY <1>1, <1>2, <1>3 DEF IInv, TypeOK, Exceptions
<1>6. ASSUME NEW j \in Frames \ {i}, bufDescTable[j].valid
      PROVE  /\ disk'[KeyOf(j)] # Free
             /\ bufDescTable'[j].dirty \/ j \in unreported' \/ bufPool'[j] = disk'[KeyOf(j)]
  <2>1. KeyOf(j) \in Keys /\ disk[KeyOf(j)] # Free /\ hashTable[KeyOf(j)] = j
    BY <1>6 DEF IInv, TypeOK, CachedPagesExist, HashMatchesFrames
  <2>2. bufDescTable[j].dirty \/ j \in unreported \/ bufPool[j] = disk[KeyOf(j)]
    BY <1>6 DEF IInv, CleanFramesMatchDisk
  <2> QED
    BY <1>1, <1>3, <1>4, <2>1, <2>2
<1>7. {i} \in SUBSET Frames
  OBVIOUS
<1>8. FramesStand({i})
  BY <1>3, <1>4, <1>5, <1>6, <1>7 DEF FramesStand
<1> QED
  BY <1>7, <1>8, FramesKept

\* What FramesKept asks of a frame that keeps its page, when the disk keeps
\* the page too.
LEMMA CachedFacts ==
    ASSUME IInv, NEW j \in Frames, bufDescTable[j].valid
    PROVE  /\ KeyOf(j) \in Keys /\ disk[KeyOf(j)] # Free /\ hashTable[KeyOf(j)] = j
           /\ bufDescTable[j].dirty \/ j \in unreported \/ bufPool[j] = disk[KeyOf(j)]
BY DEF IInv, TypeOK, HashMatchesFrames, CachedPagesExist, CleanFramesMatchDisk

\* A frame the hash table names is valid.
LEMMA HashedFrame ==
    ASSUME IInv, NEW q \in Keys, hashTable[q] # NoFrame
    PROVE  /\ hashTable[q] \in Frames
           /\ bufDescTable[hashTable[q]] \in BufDesc
           /\ bufDescTable[hashTable[q]].valid
           /\ KeyOf(hashTable[q]) = q
BY DEF IInv, TypeOK, HashMatchesFrames

\* readPage of a page that is not buffered keeps IInv.
LEMMA ReadMissStep ==
    ASSUME IInv, NEW f \in Files, NEW p \in Pages, ReadMiss(f, p)
    PROVE  IInv'
<1>1. PICK k \in ScanSteps :
        /\ StopsAt(k)
        /\ DiskAfterWriteBack(HandAt(k))[<<f, p>>] # Free
        /\ AllocBufFor(k, f, p, DiskAfterWriteBack(HandAt(k))[<<f, p>>], DiskAfterWriteBack(HandAt(k)))
  BY DEF ReadMiss
<1>2. PICK i \in Frames : i = HandAt(k) /\ i \notin unreported
  BY <1>1, VictimFacts DEF IInv
<1>3. DiskAfterWriteBack(i) \in [Keys -> Contents \cup {Free}]
  BY <1>2, EvictFacts
<1>4. PICK c \in Contents : c = DiskAfterWriteBack(i)[<<f, p>>]
  BY <1>1, <1>2, <1>3 DEF Keys
<1>5. hashTable[<<f, p>>] = NoFrame
  BY DEF ReadMiss
<1> QED
  BY <1>1, <1>2, <1>3, <1>4, <1>5, FrameGiven

\* allocPage keeps IInv.
LEMMA AllocPageStep ==
    ASSUME IInv, NEW f \in Files, NEW p \in Pages, NEW k \in ScanSteps,
           StopsAt(k), disk[<<f, p>>] = Free,
           AllocBufFor(k, f, p, Fresh,
                       [DiskAfterWriteBack(HandAt(k)) EXCEPT ![<<f, p>>] = Fresh])
    PROVE  IInv'
<1>1. PICK i \in Frames : i = HandAt(k) /\ i \notin unreported
  BY VictimFacts DEF IInv
<1>2. DiskAfterWriteBack(i) \in [Keys -> Contents \cup {Free}]
  BY <1>1, EvictFacts
<1>3. PICK newDisk \in [Keys -> Contents \cup {Free}] :
        newDisk = [DiskAfterWriteBack(i) EXCEPT ![<<f, p>>] = Fresh]
  BY <1>2, FreshAssumption
<1>4. <<f, p>> \in Keys
  BY DEF Keys
<1>5. hashTable[<<f, p>>] = NoFrame
  BY <1>4, HashedFrame DEF IInv, CachedPagesExist
<1>6. /\ newDisk[<<f, p>>] = Fresh
      /\ \A q \in Keys \ {<<f, p>>} : newDisk[q] = DiskAfterWriteBack(i)[q]
  BY <1>2, <1>3, <1>4
<1> QED
  BY <1>1, <1>3, <1>5, <1>6, FreshAssumption, FrameGiven

\* A search that finds every frame pinned keeps IInv.
LEMMA AllocBufFailsStep ==
    ASSUME IInv, AllocBufFails
    PROVE  IInv'
<1>1. /\ bufDescTable' = Swept(2 * NumBufs)
      /\ clockHand' = HandAt(2 * NumBufs) /\ exc' = "BufferExceeded"
      /\ bufPool' = bufPool /\ hashTable' = hashTable
      /\ disk' = disk /\ unreported' = unreported
  BY DEF AllocBufFails
<1>2. /\ bufDescTable' \in [Frames -> BufDesc]
      /\ \A j \in Frames :
            /\ bufDescTable'[j].file = bufDescTable[j].file
            /\ bufDescTable'[j].pageNo = bufDescTable[j].pageNo
            /\ bufDescTable'[j].pinCnt = bufDescTable[j].pinCnt
            /\ bufDescTable'[j].dirty = bufDescTable[j].dirty
            /\ bufDescTable'[j].valid = bufDescTable[j].valid
            /\ ~bufDescTable[j].valid => bufDescTable'[j] = Clear
  BY <1>1, SweptFacts DEF IInv, TypeOK
<1>3. clockHand' \in Frames /\ exc' \in Exceptions
  <2>1. 2 * NumBufs \in Nat
    BY NumBufsAssumption
  <2> QED
    BY <1>1, <2>1, HandAtType DEF IInv, TypeOK, Exceptions
<1>4. /\ bufPool' \in [Frames -> Contents]
      /\ hashTable' \in [Keys -> Frames \cup {NoFrame}]
      /\ disk' \in [Keys -> Contents \cup {Free}]
      /\ unreported' \subseteq {j \in Frames : bufDescTable'[j].pinCnt > 0}
  BY <1>1, <1>2 DEF IInv, TypeOK
<1>5. \A j \in Frames : bufDescTable[j].valid =>
            /\ disk'[KeyOf(j)] # Free
            /\ bufDescTable'[j].dirty \/ j \in unreported' \/ bufPool'[j] = disk'[KeyOf(j)]
  BY <1>1, <1>2, CachedFacts
<1>6. {} \in SUBSET Frames
  OBVIOUS
<1>7. FramesStand({})
  BY <1>1, <1>2, <1>3, <1>4, <1>5, <1>6 DEF FramesStand
<1> QED
  BY <1>6, <1>7, FramesKept

\* A step that changes the descriptor of one buffered page without touching
\* its place in the pool.
LEMMA DescriptorStep ==
    ASSUME IInv, NEW i \in Frames, bufDescTable[i].valid, NEW d \in BufDesc,
           d.file = bufDescTable[i].file, d.pageNo = bufDescTable[i].pageNo,
           d.valid = bufDescTable[i].valid,
           bufDescTable' = [bufDescTable EXCEPT ![i] = d],
           bufPool' = bufPool, hashTable' = hashTable, clockHand' = clockHand, disk' = disk,
           exc' \in Exceptions,
           unreported' \in SUBSET unreported, i \in unreported' => d.pinCnt > 0,
           bufDescTable[i].dirty \/ i \in unreported => d.dirty \/ i \in unreported',
           \A j \in unreported : j # i => j \in unreported'
    PROVE  IInv'
<1>1. /\ bufDescTable' \in [Frames -> BufDesc] /\ bufDescTable'[i] = d
      /\ \A j \in Frames \ {i} : bufDescTable'[j] = bufDescTable[j]
  BY DEF IInv, TypeOK
<1>2. /\ bufPool' \in [Frames -> Contents]
      /\ hashTable' \in [Keys -> Frames \cup {NoFrame}]
      /\ clockHand' \in Frames
      /\ disk' \in [Keys -> Contents \cup {Free}]
  BY DEF IInv, TypeOK
<1>3. unreported' \subseteq {j \in Frames : bufDescTable'[j].pinCnt > 0}
  BY <1>1 DEF IInv, TypeOK
<1>4. \A j \in Frames : bufDescTable[j].valid =>
            /\ disk'[KeyOf(j)] # Free
            /\ bufDescTable'[j].dirty \/ j \in unreported' \/ bufPool'[j] = disk'[KeyOf(j)]
  BY <1>1, CachedFacts
<1>5. \A j \in Frames :
                /\ bufDescTable'[j].file = bufDescTable[j].file
                /\ bufDescTable'[j].pageNo = bufDescTable[j].pageNo
                /\ bufDescTable'[j].valid = bufDescTable[j].valid
                /\ ~bufDescTable[j].valid => bufDescTable'[j] = Clear
  BY <1>1 DEF IInv, TypeOK
<1>6. PICK S : S = {}
  OBVIOUS
<1>7. S \in SUBSET Frames /\ Frames \ S = Frames /\ \A j : j \notin S
  BY <1>6
<1>8. \A q \in Keys, j \in Frames : hashTable'[q] = j <=> j \notin S /\ hashTable[q] = j
  BY <1>7
<1>9. exc' \in Exceptions
  OBVIOUS
<1>10. FramesStand(S)
  BY <1>1, <1>2, <1>3, <1>4, <1>5, <1>7, <1>8, <1>9 DEF FramesStand
<1> QED
  BY <1>7, <1>10, FramesKept

\* readPage of a buffered page keeps IInv.
LEMMA ReadHitStep ==
    ASSUME IInv, NEW f \in Files, NEW p \in Pages, ReadHit(f, p)
    PROVE  IInv'
<1>1. <<f, p>> \in Keys
  BY DEF Keys
<1>2. PICK i \in Frames : i = hashTable[<<f, p>>] /\ bufDescTable[i] \in BufDesc
                          /\ bufDescTable[i].valid
  BY <1>1, HashedFrame DEF ReadHit
<1>3. PICK d : d = Referenced(bufDescTable[i])
  OBVIOUS
<1>4. /\ d \in BufDesc /\ d.file = bufDescTable[i].file /\ d.pageNo = bufDescTable[i].pageNo
      /\ d.valid = bufDescTable[i].valid /\ d.dirty = bufDescTable[i].dirty /\ d.pinCnt > 0
  BY <1>2, <1>3, ReferencedFacts
<1>5. bufDescTable' = [bufDescTable EXCEPT ![i] = d]
  BY <1>2, <1>3 DEF ReadHit
<1>6. /\ bufPool' = bufPool /\ hashTable' = hashTable /\ clockHand' = clockHand
      /\ disk' = disk /\ unreported' = unreported /\ exc' \in Exceptions
  BY DEF ReadHit, Exceptions
<1> QED
  BY <1>2, <1>4, <1>5, <1>6, DescriptorStep

\* unPinPage keeps IInv, when it throws PageNotPinned too.
LEMMA UnPinStep ==
    ASSUME IInv, NEW f \in Files, NEW p \in Pages, NEW dirty \in BOOLEAN,
           UnPinBuffered(f, p, dirty)
    PROVE  IInv'
<1>1. <<f, p>> \in Keys
  BY DEF Keys
<1>2. PICK i \in Frames : i = hashTable[<<f, p>>] /\ bufDescTable[i] \in BufDesc
                          /\ bufDescTable[i].valid
  BY <1>1, HashedFrame DEF UnPinBuffered
<1>3. PICK m : m = Marked(bufDescTable[i], dirty)
  OBVIOUS
<1>4. /\ m \in BufDesc
      /\ m.file = bufDescTable[i].file /\ m.pageNo = bufDescTable[i].pageNo
      /\ m.pinCnt = bufDescTable[i].pinCnt /\ m.valid = bufDescTable[i].valid
      /\ dirty \/ bufDescTable[i].dirty => m.dirty
  <2>1. PICK c : c = bufDescTable[i]
    OBVIOUS
  <2>2. c \in BufDesc /\ m = Marked(c, dirty)
    BY <1>2, <1>3, <2>1
  <2>3. /\ m \in BufDesc /\ m.file = c.file /\ m.pageNo = c.pageNo
        /\ m.pinCnt = c.pinCnt /\ m.valid = c.valid
        /\ dirty \/ c.dirty => m.dirty
    BY <2>2, MarkedFacts
  <2> QED
    BY <2>1, <2>3
<1>5. PICK d : d = Unpinned(m)
  OBVIOUS
<1>6. /\ d \in BufDesc /\ d.file = m.file /\ d.pageNo = m.pageNo
      /\ d.valid = m.valid /\ d.dirty = m.dirty
      /\ m.pinCnt > 1 => d.pinCnt > 0
  BY <1>4, <1>5, UnpinnedFacts
<1>7. bufDescTable' = [bufDescTable EXCEPT ![i] = d]
  BY <1>2, <1>3, <1>5 DEF UnPinBuffered
<1>8. /\ bufPool' = bufPool /\ hashTable' = hashTable /\ clockHand' = clockHand
      /\ disk' = disk /\ exc' \in Exceptions
      /\ unreported' = IF dirty THEN unreported \ {i} ELSE unreported
      /\ bufDescTable[i].pinCnt = 1 /\ i \in unreported => dirty
  BY <1>2 DEF UnPinBuffered, Exceptions
<1>9. /\ unreported' \in SUBSET unreported
      /\ \A j \in unreported : j # i => j \in unreported'
  BY <1>8
<1>10. bufDescTable[i].pinCnt \in Nat /\ (i \in unreported => bufDescTable[i].pinCnt > 0)
  BY <1>2 DEF BufDesc, IInv, TypeOK
<1>11. i \in unreported' => d.pinCnt > 0
  BY <1>4, <1>6, <1>8, <1>10
<1>12. bufDescTable[i].dirty \/ i \in unreported => d.dirty \/ i \in unreported'
  BY <1>4, <1>6, <1>8
<1>13. d.file = bufDescTable[i].file /\ d.pageNo = bufDescTable[i].pageNo
       /\ d.valid = bufDescTable[i].valid
  BY <1>4, <1>6
<1> QED
  BY <1>2, <1>6, <1>7, <1>8, <1>9, <1>11, <1>12, <1>13, DescriptorStep

\* A holder who changes the bytes of a page keeps IInv.
LEMMA WritePageStep ==
    ASSUME IInv, NEW i \in Frames, NEW c \in Contents, WritePage(i, c)
    PROVE  IInv'
<1>1. /\ bufDescTable[i].pinCnt > 0
      /\ bufPool' = [bufPool EXCEPT ![i] = c] /\ unreported' = unreported \cup {i}
      /\ bufDescTable' = bufDescTable /\ hashTable' = hashTable
      /\ clockHand' = clockHand /\ disk' = disk /\ exc' = exc
  BY DEF WritePage
<1>2. /\ bufDescTable' \in [Frames -> BufDesc]
      /\ bufPool' \in [Frames -> Contents]
      /\ hashTable' \in [Keys -> Frames \cup {NoFrame}]
      /\ clockHand' \in Frames /\ disk' \in [Keys -> Contents \cup {Free}]
      /\ exc' \in Exceptions
      /\ \A j \in Frames :
            /\ bufDescTable'[j].file = bufDescTable[j].file
            /\ bufDescTable'[j].pageNo = bufDescTable[j].pageNo
            /\ bufDescTable'[j].valid = bufDescTable[j].valid
            /\ ~bufDescTable[j].valid => bufDescTable'[j] = Clear
      /\ \A q \in Keys, j \in Frames : hashTable'[q] = j <=> hashTable[q] = j
  BY <1>1 DEF IInv, TypeOK
<1>3. unreported' \subseteq {j \in Frames : bufDescTable'[j].pinCnt > 0}
  BY <1>1 DEF IInv, TypeOK
<1>4. \A j \in Frames : bufDescTable[j].valid =>
            /\ disk'[KeyOf(j)] # Free
            /\ bufDescTable'[j].dirty \/ j \in unreported' \/ bufPool'[j] = disk'[KeyOf(j)]
  <2>1. \A j \in Frames \ {i} : bufPool'[j] = bufPool[j]
    BY <1>1 DEF IInv, TypeOK
  <2> QED
    BY <1>1, <2>1, CachedFacts
<1>5. {} \in SUBSET Frames
  OBVIOUS
<1>6. FramesStand({})
  BY <1>2, <1>3, <1>4, <1>5 DEF FramesStand
<1> QED
  BY <1>5, <1>6, FramesKept

\* The pages of flushed frames go to disk as they are in the pool, and no
\* other page changes.
LEMMA FlushFacts ==
    ASSUME IInv, NEW S \in SUBSET Frames, \A i \in S : bufDescTable[i].valid
    PROVE  /\ DiskAfterFlush(S) \in [Keys -> Contents \cup {Free}]
           /\ \A q \in Keys :
                /\ DiskAfterFlush(S)[q] = Free <=> disk[q] = Free
                /\ hashTable[q] \notin S => DiskAfterFlush(S)[q] = disk[q]
                /\ hashTable[q] \in S =>
                      \/ DiskAfterFlush(S)[q] = bufPool[hashTable[q]]
                      \/ /\ hashTable[q] \in unreported
                         /\ DiskAfterFlush(S)[q] = disk[q]
<1> DEFINE Writers(q) == {i \in S : bufDescTable[i].dirty /\ KeyOf(i) = q}
<1>1. DiskAfterFlush(S) = [q \in Keys |-> IF Writers(q) = {} THEN disk[q]
                                          ELSE bufPool[CHOOSE i \in Writers(q) : TRUE]]
  BY DEF DiskAfterFlush
<1>2. ASSUME NEW q \in Keys
      PROVE  /\ DiskAfterFlush(S)[q] \in Contents \cup {Free}
             /\ DiskAfterFlush(S)[q] = Free <=> disk[q] = Free
             /\ hashTable[q] \notin S => DiskAfterFlush(S)[q] = disk[q]
             /\ hashTable[q] \in S =>
                   \/ DiskAfterFlush(S)[q] = bufPool[hashTable[q]]
                   \/ hashTable[q] \in unreported /\ DiskAfterFlush(S)[q] = disk[q]
  <2>1. CASE Writers(q) = {}
    <3>1. DiskAfterFlush(S)[q] = disk[q]
      BY <1>1, <2>1
    <3>2. ASSUME hashTable[q] \in S
          PROVE  disk[q] = bufPool[hashTable[q]] \/ hashTable[q] \in unreported
      <4>1. PICK i \in S : i = hashTable[q]
        BY <3>2
      <4>2. bufDescTable[i].valid /\ KeyOf(i) = q
        BY <4>1 DEF IInv, HashMatchesFrames
      <4>3. ~bufDescTable[i].dirty
        BY <2>1, <4>2
      <4> QED
        BY <4>1, <4>2, <4>3 DEF IInv, CleanFramesMatchDisk
    <3>3. disk[q] \in Contents \cup {Free}
      BY DEF IInv, TypeOK
    <3> QED
      BY <3>1, <3>2, <3>3
  <2>2. CASE Writers(q) # {}
    <3>1. PICK i \in Writers(q) : i = (CHOOSE j \in Writers(q) : TRUE)
      BY <2>2
    <3>2. i \in Frames /\ bufDescTable[i].valid /\ KeyOf(i) = q
      BY <3>1
    <3>3. hashTable[q] = i /\ disk[q] # Free
      BY <3>2, CachedFacts
    <3>4. DiskAfterFlush(S)[q] = bufPool[i]
      BY <1>1, <2>2, <3>1
    <3>5. bufPool[i] \in Contents /\ bufPool[i] # Free /\ i \in S
      BY <3>1, <3>2, FreeAssumption DEF IInv, TypeOK
    <3> QED
      BY <3>3, <3>4, <3>5
  <2> QED
    BY <2>1, <2>2
<1> HIDE DEF Writers
<1> QED
  BY <1>1, <1>2

\* flushFile keeps IInv, also when it stops at a pinned frame.
LEMMA FlushFileStep ==
    ASSUME IInv, NEW f \in Files, FlushFile(f)
    PROVE  IInv'
<1>1. PICK stop \in 0 .. NumBufs :
        LET visited == {i \in 0 .. (stop - 1) : Holds(i, f)} IN
        /\ \A i \in visited : bufDescTable[i].pinCnt = 0
        /\ exc' \in Exceptions
        /\ disk' = DiskAfterFlush(visited)
        /\ hashTable' = [k \in Keys |-> IF \E i \in visited : KeyOf(i) = k
                                        THEN NoFrame ELSE hashTable[k]]
        /\ bufDescTable' = [i \in Frames |-> IF i \in visited THEN Clear ELSE bufDescTable[i]]
        /\ UNCHANGED <<bufPool, clockHand, unreported>>
  BY DEF FlushFile, Exceptions
<1>2. \A i \in 0 .. (stop - 1) : i \in Frames
  BY NumBufsAssumption DEF Frames
<1>3. PICK S \in SUBSET Frames : S = {i \in 0 .. (stop - 1) : Holds(i, f)}
  BY <1>2
<1>4. /\ \A i \in S : bufDescTable[i].pinCnt = 0 /\ bufDescTable[i].valid
      /\ exc' \in Exceptions /\ disk' = DiskAfterFlush(S)
      /\ hashTable' = [k \in Keys |-> IF \E i \in S : KeyOf(i) = k
                                      THEN NoFrame ELSE hashTable[k]]
      /\ bufDescTable' = [i \in Frames |-> IF i \in S THEN Clear ELSE bufDescTable[i]]
      /\ bufPool' = bufPool /\ clockHand' = clockHand /\ unreported' = unreported
  BY <1>1, <1>3 DEF Holds
<1>5. /\ bufDescTable' \in [Frames -> BufDesc]
      /\ \A j \in S : bufDescTable'[j] = Clear
      /\ \A j \in Frames \ S : bufDescTable'[j] = bufDescTable[j]
  BY <1>4, ClearType DEF IInv, TypeOK
<1>6. \A j \in Frames \ S : ~bufDescTable[j].valid => bufDescTable'[j] = Clear
  BY <1>5 DEF IInv, TypeOK
<1>7. /\ bufPool' \in [Frames -> Contents] /\ clockHand' \in Frames
      /\ disk' \in [Keys -> Contents \cup {Free}]
      /\ \A q \in Keys : hashTable[q] \notin S => disk'[q] = disk[q]
  BY <1>4, FlushFacts DEF IInv, TypeOK
<1>8. unreported' \subseteq {j \in Frames : bufDescTable'[j].pinCnt > 0}
  BY <1>4, <1>5 DEF IInv, TypeOK
<1>9. /\ hashTable' \in [Keys -> Frames \cup {NoFrame}]
      /\ \A q \in Keys, j \in Frames : hashTable'[q] = j <=> j \notin S /\ hashTable[q] = j
  <2>1. NoFrame \notin Frames
    BY NumBufsAssumption DEF NoFrame, Frames
  <2>2. \A q \in Keys, j \in S : KeyOf(j) = q <=> hashTable[q] = j
    BY <1>4 DEF IInv, HashMatchesFrames
  <2> QED
    BY <1>4, <2>1, <2>2 DEF IInv, TypeOK
<1>10. ASSUME NEW j \in Frames \ S, bufDescTable[j].valid
       PROVE  /\ disk'[KeyOf(j)] # Free
              /\ bufDescTable'[j].dirty \/ j \in unreported' \/ bufPool'[j] = disk'[KeyOf(j)]
  BY <1>4, <1>5, <1>7, <1>10, CachedFacts
<1>11. FramesStand(S)
  BY <1>4, <1>5, <1>6, <1>7, <1>8, <1>9, <1>10 DEF FramesStand
<1> QED
  BY <1>3, <1>11, FramesKept

\* disposePage keeps IInv.
LEMMA DisposeStep ==
    ASSUME IInv, NEW f \in Files, NEW p \in Pages, DisposeBuffered(f, p)
    PROVE  IInv'
<1>1. <<f, p>> \in Keys
  BY DEF Keys
<1>2. PICK i \in Frames : i = hashTable[<<f, p>>] /\ KeyOf(i) = <<f, p>>
  BY <1>1, HashedFrame DEF DisposeBuffered
<1>3. /\ bufDescTable' = [bufDescTable EXCEPT ![i] = Clear]
      /\ hashTable' = [hashTable EXCEPT ![<<f, p>>] = NoFrame]
      /\ disk' = [disk EXCEPT ![<<f, p>>] = Free]
      /\ unreported' = unreported \ {i} /\ exc' \in Exceptions
      /\ bufPool' = bufPool /\ clockHand' = clockHand
  BY <1>2 DEF DisposeBuffered, Exceptions
<1>4. /\ bufDescTable' \in [Frames -> BufDesc]
      /\ bufDescTable'[i] = Clear
      /\ \A j \in Frames \ {i} : /\ bufDescTable'[j] = bufDescTable[j]
                                 /\ ~bufDescTable[j].valid => bufDescTable'[j] = Clear
  BY <1>3, ClearType DEF IInv, TypeOK
<1>5. /\ bufPool' \in [Frames -> Contents] /\ clockHand' \in Frames
      /\ disk' \in [Keys -> Contents \cup {Free}]
      /\ \A q \in Keys \ {<<f, p>>} : disk'[q] = disk[q]
      /\ exc' \in Exceptions
  BY <1>3 DEF IInv, TypeOK
<1>6. unreported' \subseteq {j \in Frames : bufDescTable'[j].pinCnt > 0}
  BY <1>3, <1>4 DEF IInv, TypeOK
<1>7. /\ hashTable' \in [Keys -> Frames \cup {NoFrame}]
      /\ \A q \in Keys, j \in Frames : hashTable'[q] = j <=> j # i /\ hashTable[q] = j
  <2>1. NoFrame \notin Frames
    BY NumBufsAssumption DEF NoFrame, Frames
  <2>2. \A q \in Keys : hashTable[q] = i <=> q = <<f, p>>
    BY <1>2 DEF IInv, HashMatchesFrames
  <2> QED
    BY <1>1, <1>3, <2>1, <2>2 DEF IInv, TypeOK
<1>8. ASSUME NEW j \in Frames \ {i}, bufDescTable[j].valid
      PROVE  /\ disk'[KeyOf(j)] # Free
             /\ bufDescTable'[j].dirty \/ j \in unreported' \/ bufPool'[j] = disk'[KeyOf(j)]
  BY <1>2, <1>3, <1>4, <1>5, <1>8, CachedFacts
<1>9. {i} \in SUBSET Frames
  OBVIOUS
<1>10. FramesStand({i})
  BY <1>4, <1>5, <1>6, <1>7, <1>8, <1>9 DEF FramesStand
<1> QED
  BY <1>9, <1>10, FramesKept

\* cleanUpPinnedPage keeps IInv.
LEMMA CleanUpStep ==
    ASSUME IInv, NEW f \in Files, CleanUpPinnedPage(f)
    PROVE  IInv'
<1>1. PICK P \in SUBSET Frames : P = {i \in Frames : Holds(i, f) /\ bufDescTable[i].pinCnt > 0}
  OBVIOUS
<1>2. /\ bufDescTable' = [i \in Frames |-> IF i \in P THEN CleanedUp(bufDescTable[i])
                                                     ELSE bufDescTable[i]]
      /\ unreported' = unreported \ P /\ exc' \in Exceptions
      /\ bufPool' = bufPool /\ hashTable' = hashTable
      /\ clockHand' = clockHand /\ disk' = disk
  BY <1>1 DEF CleanUpPinnedPage, Exceptions
<1>3. \A j \in P : /\ bufDescTable[j] \in BufDesc /\ bufDescTable[j].valid
                   /\ bufDescTable'[j] = CleanedUp(bufDescTable[j])
  BY <1>1, <1>2 DEF IInv, TypeOK, Holds
<1>4. \A j \in P : /\ bufDescTable'[j] \in BufDesc
                   /\ bufDescTable'[j].file = bufDescTable[j].file
                   /\ bufDescTable'[j].pageNo = bufDescTable[j].pageNo
                   /\ bufDescTable'[j].valid = bufDescTable[j].valid
                   /\ bufDescTable'[j].dirty
  BY <1>3, CleanedUpFacts
<1>5. \A j \in Frames \ P : bufDescTable'[j] = bufDescTable[j]
  BY <1>2
<1>6. bufDescTable' \in [Frames -> BufDesc]
  BY <1>2, <1>4, <1>5 DEF IInv, TypeOK
<1>7. \A j \in Frames :
            /\ bufDescTable'[j].file = bufDescTable[j].file
            /\ bufDescTable'[j].pageNo = bufDescTable[j].pageNo
            /\ bufDescTable'[j].valid = bufDescTable[j].valid
            /\ ~bufDescTable[j].valid => bufDescTable'[j] = Clear
  BY <1>3, <1>4, <1>5 DEF IInv, TypeOK
<1>8. /\ bufPool' \in [Frames -> Contents]
      /\ hashTable' \in [Keys -> Frames \cup {NoFrame}]
      /\ clockHand' \in Frames /\ disk' \in [Keys -> Contents \cup {Free}]
      /\ exc' \in Exceptions
      /\ \A q \in Keys, j \in Frames : hashTable'[q] = j <=> hashTable[q] = j
  BY <1>2 DEF IInv, TypeOK
<1>9. unreported' \subseteq {j \in Frames : bufDescTable'[j].pinCnt > 0}
  BY <1>2, <1>5 DEF IInv, TypeOK
<1>10. \A j \in Frames : bufDescTable[j].valid =>
            /\ disk'[KeyOf(j)] # Free
            /\ bufDescTable'[j].dirty \/ j \in unreported' \/ bufPool'[j] = disk'[KeyOf(j)]
  BY <1>2, <1>4, <1>5, CachedFacts
<1>11. {} \in SUBSET Frames
  OBVIOUS
<1>12. FramesStand({})
  BY <1>6, <1>7, <1>8, <1>9, <1>10, <1>11 DEF FramesStand
<1> QED
  BY <1>11, <1>12, FramesKept

\* The destructor and the next constructor establish IInv again.
LEMMA RestartStep ==
    ASSUME IInv, Restart
    PROVE  IInv'
<1>1. PICK S \in SUBSET Frames : S = {i \in Frames : bufDescTable[i].valid}
  OBVIOUS
<1>2. disk' = DiskAfterFlush(S)
  BY <1>1 DEF Restart
<1>3. disk' \in [Keys -> Contents \cup {Free}]
  BY <1>1, <1>2, FlushFacts
<1>4. /\ bufDescTable' \in [Frames -> BufDesc] /\ \A j \in Frames : bufDescTable'[j] = Clear
  BY ClearType DEF Restart
<1>5. /\ bufPool' \in [Frames -> Contents]
      /\ hashTable' \in [Keys -> Frames \cup {NoFrame}]
      /\ clockHand' \in Frames /\ exc' \in Exceptions /\ unreported' = {}
  BY NumBufsAssumption, FreshAssumption DEF Restart, Frames, Exceptions
<1>6. \A q \in Keys, j \in Frames : hashTable'[q] # j
  BY NumBufsAssumption DEF Restart, Frames, NoFrame
<1>7. Frames \in SUBSET Frames
  OBVIOUS
<1>8. FramesStand(Frames)
  BY <1>3, <1>4, <1>5, <1>6, <1>7 DEF FramesStand
<1> QED
  BY <1>7, <1>8, FramesKept

\* A stuttering step keeps IInv.
LEMMA UnchangedStep ==
    ASSUME IInv, UNCHANGED <<bufDescTable, bufPool, hashTable, clockHand, disk, unreported>>,
           exc' \in Exceptions
    PROVE  IInv'
<1>1. TypeOK'
  BY DEF IInv, TypeOK, KeyOf
<1>2. HashMatchesFrames'
  BY DEF IInv, HashMatchesFrames, KeyOf
<1>3. CachedPagesExist' /\ CleanFramesMatchDisk'
  BY DEF IInv, CachedPagesExist, CleanFramesMatchDisk, KeyOf
<1> QED
  BY <1>1, <1>2, <1>3 DEF IInv

\* The constructor establishes IInv.
LEMMA InitStep == Init => IInv
<1> SUFFICES ASSUME Init PROVE IInv
  OBVIOUS
<1>1. \A i \in Frames : bufDescTable[i] = Clear /\ ~bufDescTable[i].valid
  BY DEF Init, Clear
<1>2. NoFrame \notin Frames
  BY NumBufsAssumption DEF NoFrame, Frames
<1>3. TypeOK
  BY <1>1, ClearType, NumBufsAssumption, FreshAssumption DEF Init, TypeOK, Frames, Exceptions
<1>4. HashMatchesFrames
  BY <1>1, <1>2 DEF Init, HashMatchesFrames
<1>5. CachedPagesExist /\ CleanFramesMatchDisk
  BY <1>1 DEF CachedPagesExist, CleanFramesMatchDisk
<1> QED
  BY <1>3, <1>4, <1>5 DEF IInv

\* Every step keeps IInv: one case per operation.
LEMMA NextStep == IInv /\ [Next]_vars => IInv'
<1> SUFFICES ASSUME IInv, [Next]_vars PROVE IInv'
  OBVIOUS
<1>1. ASSUME NEW f \in Files, NEW p \in Pages, ReadPage(f, p) PROVE IInv'
  BY <1>1, ReadHitStep, ReadMissStep, ReadInvalidStep, AllocBufFailsStep DEF ReadPage
<1>2. ASSUME NEW f \in Files, NEW p \in Pages, LookupFails(f, p) PROVE IInv'
  BY <1>2, UnchangedStep DEF LookupFails, Exceptions
<1>3. ASSUME NEW f \in Files, NEW p \in Pages, NEW d \in BOOLEAN, UnPinPage(f, p, d) PROVE IInv'
  BY <1>2, <1>3, UnPinStep DEF UnPinPage
<1>4. ASSUME NEW f \in Files, NEW p \in Pages, DisposePage(f, p) PROVE IInv'
  BY <1>2, <1>4, DisposeStep DEF DisposePage
<1>5. ASSUME NEW f \in Files, AllocPage(f) PROVE IInv'
  BY <1>5, AllocPageStep, AllocBufFailsStep DEF AllocPage
<1>6. CASE UNCHANGED vars
  BY <1>6, UnchangedStep DEF vars, IInv, TypeOK
<1> QED
  BY <1>1, <1>3, <1>4, <1>5, <1>6, FlushFileStep, CleanUpStep, WritePageStep, RestartStep DEF Next

\* In every state a pool can reach, its variables have their types, the hash
\* table and the frames agree, every buffered page exists in its file, and
\* every clean frame that nobody is writing to has the bytes of its page on
\* disk: what the operations of buffer.cpp rely on without checking it.
THEOREM Invariance == Spec => [](TypeOK /\ HashMatchesFrames /\ CachedPagesExist /\ CleanFramesMatchDisk)
<1>1. IInv => TypeOK /\ HashMatchesFrames /\ CachedPagesExist /\ CleanFramesMatchDisk
  BY DEF IInv
<1> QED
  BY <1>1, InitStep, NextStep, PTL DEF Spec

\* What the variables of the pool hold: an invalid frame is a cleared one, and
\* a change nobody has reported yet is in a pinned frame.
THEOREM PoolTypeOK == Spec => []TypeOK
BY Invariance, PTL

\* readPage serves no deleted page from the pool, and no write-back meets a
\* page that does not exist, in pools of every size.
THEOREM BufferedPagesExist == Spec => []CachedPagesExist
BY Invariance, PTL

\* Evicting a frame without a write loses nothing, in pools of every size.
THEOREM CleanFramesAreSaved == Spec => []CleanFramesMatchDisk
BY Invariance, PTL

-----------------------------------------------------------------------------
\* The remainder of a number below three times the divisor.
LEMMA Remainder ==
    ASSUME NEW n \in Nat \ {0}, NEW m \in 0 .. (3 * n - 1)
    PROVE  m % n = IF m < n THEN m ELSE IF m < 2 * n THEN m - n ELSE m - 2 * n
<1>1. ASSUME NEW i \in 0 .. (n - 1)
      PROVE  i % n = i /\ (n + i) % n = i /\ (2 * n + i) % n = i
  <2>1. i % n = i
    BY Z3
  <2>2. (n + i) % n = i
    BY Z3
  <2>3. (2 * n + i) % n = i
    BY Z3
  <2> QED
    BY <2>1, <2>2, <2>3
<1>2. CASE m < n
  BY <1>1, <1>2
<1>3. CASE m >= n /\ m < 2 * n
  <2>1. PICK i \in 0 .. (n - 1) : m = n + i
    <3>1. m - n \in 0 .. (n - 1) /\ m = n + (m - n)
      BY <1>3
    <3> QED
      BY <3>1
  <2>2. m % n = i
    BY <1>1, <2>1
  <2> QED
    BY <1>3, <2>1, <2>2
<1>4. CASE m >= 2 * n
  <2>1. PICK i \in 0 .. (n - 1) : m = 2 * n + i
    <3>1. m - 2 * n \in 0 .. (n - 1) /\ m = 2 * n + (m - 2 * n)
      BY <1>4
    <3> QED
      BY <3>1
  <2>2. m % n = i
    BY <1>1, <2>1
  <2> QED
    BY <1>4, <2>1, <2>2
<1> QED
  BY <1>2, <1>3, <1>4

\* Where the hand is in the two turns.
LEMMA HandPosition ==
    ASSUME clockHand \in Frames, NEW k \in 0 .. (2 * NumBufs)
    PROVE  /\ clockHand \in 0 .. (NumBufs - 1)
           /\ HandAt(k) = IF clockHand + k < NumBufs THEN clockHand + k
                               ELSE IF clockHand + k < 2 * NumBufs
                                    THEN clockHand + k - NumBufs
                                    ELSE clockHand + k - 2 * NumBufs
<1>1. NumBufs \in Nat \ {0} /\ clockHand \in 0 .. (NumBufs - 1)
  BY NumBufsAssumption DEF Frames
<1>2. PICK m \in 0 .. (3 * NumBufs - 1) : m = clockHand + k
  BY <1>1
<1>3. m % NumBufs = IF m < NumBufs THEN m
                    ELSE IF m < 2 * NumBufs THEN m - NumBufs ELSE m - 2 * NumBufs
  BY <1>1, Remainder
<1>4. HandAt(k) = m % NumBufs
  BY <1>2 DEF HandAt
<1> QED
  BY <1>1, <1>2, <1>3, <1>4

\* One turn of the clock reaches every frame: for each frame there is a step
\* of the second turn at which the hand is on it.
LEMMA SecondTurn ==
    ASSUME clockHand \in Frames, NEW i \in Frames
    PROVE  \E k \in ScanSteps : k > NumBufs /\ HandAt(k) = i
<1>1. NumBufs \in Nat \ {0} /\ i \in 0 .. (NumBufs - 1) /\ clockHand \in 0 .. (NumBufs - 1)
  BY NumBufsAssumption DEF Frames
<1>2. PICK k \in ScanSteps :
        /\ k > NumBufs
        /\ clockHand + k = NumBufs + i \/ clockHand + k = 2 * NumBufs + i
  <2>1. CASE i > clockHand
    <3>1. NumBufs + i - clockHand \in ScanSteps /\ NumBufs + i - clockHand > NumBufs
      BY <1>1, <2>1 DEF ScanSteps
    <3> QED
      BY <1>1, <3>1
  <2>2. CASE i <= clockHand
    <3>1. 2 * NumBufs + i - clockHand \in ScanSteps /\ 2 * NumBufs + i - clockHand > NumBufs
      BY <1>1, <2>2 DEF ScanSteps
    <3> QED
      BY <1>1, <3>1
  <2> QED
    BY <1>1, <2>1, <2>2
<1>3. HandAt(k) = i
  BY <1>1, <1>2, HandPosition DEF ScanSteps
<1> QED
  BY <1>1, <1>2, <1>3 DEF ScanSteps

\* Two turns find every frame that is not pinned, and no other one.
LEMMA ExceededFacts ==
    ASSUME TypeOK
    PROVE  ExceededWhenAllPinned
<1>1. ASSUME BufferExceeded, NEW i \in Frames PROVE bufDescTable[i].pinCnt > 0
  <2>1. PICK k \in ScanSteps : k > NumBufs /\ HandAt(k) = i
    BY SecondTurn DEF TypeOK
  <2>2. bufDescTable[i].valid /\ bufDescTable[i].pinCnt # 0
    BY <1>1, <2>1 DEF BufferExceeded, UsableAt
  <2>3. bufDescTable[i].pinCnt \in Nat
    BY DEF TypeOK, BufDesc
  <2> QED
    BY <2>2, <2>3
<1>2. ASSUME \A i \in Frames : bufDescTable[i].pinCnt > 0, NEW k \in ScanSteps
      PROVE  ~UsableAt(k)
  <2>1. HandAt(k) \in Frames
    BY HandAtType, NumBufsAssumption DEF TypeOK, ScanSteps
  <2>2. bufDescTable[HandAt(k)].pinCnt > 0
    BY <1>2, <2>1
  <2>3. bufDescTable[HandAt(k)].valid
    BY <2>1, <2>2 DEF TypeOK, Clear
  <2> QED
    BY <2>2, <2>3 DEF UsableAt
<1> QED
  BY <1>1, <1>2 DEF ExceededWhenAllPinned, BufferExceeded

\* allocBuf throws BufferExceededException exactly when every frame of the
\* pool is pinned, whatever the size of the pool.
THEOREM ExceededMeansPinned == Spec => []ExceededWhenAllPinned
<1>1. TypeOK => ExceededWhenAllPinned
  BY ExceededFacts
<1> QED
  BY <1>1, Invariance, PTL

-----------------------------------------------------------------------------
(***************************************************************************)
(* The pool is invisible to its callers: pinned frames stay where they are *)
(* and BufMgr implements PageStore.                                        *)
(***************************************************************************)
\* A pinned frame is valid.
LEMMA PinnedIsValid ==
    ASSUME TypeOK, NEW i \in Frames, bufDescTable[i].pinCnt > 0
    PROVE  bufDescTable[i].valid
BY DEF TypeOK, Clear

\* What PinnedFramesStay says of one frame when nobody writes to it.
Stays(i) == /\ bufDescTable'[i].valid
            /\ KeyOf(i)' = KeyOf(i)
            /\ bufPool'[i] = bufPool[i]

\* A frame given to a new page was not pinned; the pinned ones stay.
LEMMA AllocBufForStays ==
    ASSUME IInv, NEW i \in Frames, bufDescTable[i].pinCnt > 0,
           NEW k \in ScanSteps, StopsAt(k), NEW f, NEW p, NEW c, NEW newDisk,
           AllocBufFor(k, f, p, c, newDisk)
    PROVE  Stays(i)
<1>1. HandAt(k) # i
  BY VictimFacts DEF IInv
<1>2. bufDescTable'[i] = Swept(k)[i] /\ bufPool'[i] = bufPool[i]
  BY <1>1, SweptFacts DEF AllocBufFor, IInv, TypeOK
<1> QED
  BY <1>2, PinnedIsValid, SweptFacts DEF Stays, KeyOf, IInv

\* readPage leaves pinned frames to their pages.
LEMMA ReadPageStays ==
    ASSUME IInv, NEW i \in Frames, bufDescTable[i].pinCnt > 0,
           NEW f \in Files, NEW p \in Pages, ReadPage(f, p)
    PROVE  Stays(i)
<1>0. bufDescTable[i].valid
  BY PinnedIsValid DEF IInv
<1>1. CASE ReadHit(f, p)
  <2>1. PICK h \in Frames : h = hashTable[<<f, p>>] /\ bufDescTable[h] \in BufDesc
    BY <1>1, HashedFrame DEF ReadHit, Keys
  <2>2. PICK d : d = Referenced(bufDescTable[h])
    OBVIOUS
  <2>3. d.file = bufDescTable[h].file /\ d.pageNo = bufDescTable[h].pageNo
        /\ d.valid = bufDescTable[h].valid
    BY <2>1, <2>2, ReferencedFacts
  <2>4. bufDescTable' = [bufDescTable EXCEPT ![h] = d] /\ bufPool' = bufPool
    BY <1>1, <2>1, <2>2 DEF ReadHit
  <2> QED
    BY <1>0, <2>3, <2>4 DEF Stays, KeyOf, IInv, TypeOK
<1>2. CASE ReadMiss(f, p)
  BY <1>2, AllocBufForStays DEF ReadMiss
<1>3. CASE ReadInvalid(f, p)
  <2>1. PICK k \in ScanSteps : /\ StopsAt(k)
                               /\ bufDescTable' = [Swept(k) EXCEPT ![HandAt(k)] = Clear]
                               /\ bufPool' = bufPool
    BY <1>3 DEF ReadInvalid
  <2>2. HandAt(k) # i
    BY <2>1, VictimFacts DEF IInv
  <2>3. bufDescTable'[i] = Swept(k)[i] /\ bufPool'[i] = bufPool[i]
    BY <2>1, <2>2, SweptFacts DEF IInv
  <2> QED
    BY <1>0, <2>3, SweptFacts DEF Stays, KeyOf, IInv
<1>4. CASE AllocBufFails
  BY <1>0, <1>4, SweptFacts DEF AllocBufFails, Stays, KeyOf, IInv
<1> QED
  BY <1>1, <1>2, <1>3, <1>4 DEF ReadPage

\* So do the calls on a whole file.
LEMMA FileCallsStay ==
    ASSUME IInv, NEW i \in Frames, bufDescTable[i].pinCnt > 0, NEW f \in Files
    PROVE  /\ AllocPage(f) => Stays(i)
           /\ FlushFile(f) => Stays(i)
           /\ CleanUpPinnedPage(f) => Stays(i)
<1>0. bufDescTable[i].valid
  BY PinnedIsValid DEF IInv
<1>1. AllocPage(f) => Stays(i)
  <2>1. AllocBufFails => Stays(i)
    BY <1>0, SweptFacts DEF AllocBufFails, Stays, KeyOf, IInv
  <2> QED
    BY <2>1, AllocBufForStays DEF AllocPage
<1>2. FlushFile(f) => Stays(i)
  BY <1>0 DEF FlushFile, Stays, KeyOf
<1>3. ASSUME CleanUpPinnedPage(f) PROVE Stays(i)
  <2>1. \/ bufDescTable'[i] = bufDescTable[i]
        \/ bufDescTable'[i] = CleanedUp(bufDescTable[i])
    BY <1>3 DEF CleanUpPinnedPage
  <2>2. /\ bufDescTable'[i].file = bufDescTable[i].file
        /\ bufDescTable'[i].pageNo = bufDescTable[i].pageNo
        /\ bufDescTable'[i].valid = bufDescTable[i].valid
    BY <2>1, CleanedUpFacts DEF IInv, TypeOK
  <2> QED
    BY <1>0, <1>3, <2>2 DEF CleanUpPinnedPage, Stays, KeyOf
<1> QED
  BY <1>1, <1>2, <1>3

\* So do unPinPage and disposePage, but for the page disposed of.
LEMMA PageCallsStay ==
    ASSUME IInv, NEW i \in Frames, bufDescTable[i].pinCnt > 0,
           NEW f \in Files, NEW p \in Pages
    PROVE  /\ \A dirty \in BOOLEAN : UnPinPage(f, p, dirty) => Stays(i)
           /\ DisposePage(f, p) => Stays(i) \/ DisposePage(bufDescTable[i].file, bufDescTable[i].pageNo)
<1>0. bufDescTable[i].valid
  BY PinnedIsValid DEF IInv
<1>1. ASSUME LookupFails(f, p) PROVE Stays(i)
  BY <1>0, <1>1 DEF LookupFails, Stays, KeyOf
<1>2. ASSUME NEW dirty \in BOOLEAN, UnPinPage(f, p, dirty) PROVE Stays(i)
  <2>1. CASE UnPinBuffered(f, p, dirty)
    <3>1. PICK h \in Frames : h = hashTable[<<f, p>>] /\ bufDescTable[h] \in BufDesc
      BY <2>1, HashedFrame DEF UnPinBuffered, Keys
    <3>2. PICK m : m = Marked(bufDescTable[h], dirty)
      OBVIOUS
    <3>3. PICK d : d = Unpinned(m)
      OBVIOUS
    <3>4. /\ m \in BufDesc /\ m.file = bufDescTable[h].file
          /\ m.pageNo = bufDescTable[h].pageNo /\ m.valid = bufDescTable[h].valid
      BY <3>1, <3>2, MarkedFacts
    <3>5. d.file = m.file /\ d.pageNo = m.pageNo /\ d.valid = m.valid
      BY <3>3, <3>4, UnpinnedFacts
    <3>6. bufDescTable' = [bufDescTable EXCEPT ![h] = d] /\ bufPool' = bufPool
      BY <2>1, <3>1, <3>2, <3>3 DEF UnPinBuffered
    <3> QED
      BY <1>0, <3>4, <3>5, <3>6 DEF Stays, KeyOf, IInv, TypeOK
  <2> QED
    BY <1>1, <1>2, <2>1 DEF UnPinPage
<1>3. ASSUME DisposeBuffered(f, p)
      PROVE  Stays(i) \/ DisposePage(bufDescTable[i].file, bufDescTable[i].pageNo)
  <2>1. PICK h \in Frames : h = hashTable[<<f, p>>] /\ KeyOf(h) = <<f, p>>
    BY <1>3, HashedFrame DEF DisposeBuffered, Keys
  <2>2. CASE h = i
    BY <1>3, <2>1, <2>2 DEF DisposePage, KeyOf
  <2>3. CASE h # i
    BY <1>0, <1>3, <2>1, <2>3 DEF DisposeBuffered, Stays, KeyOf, IInv, TypeOK
  <2> QED
    BY <2>2, <2>3
<1> QED
  BY <1>1, <1>2, <1>3 DEF DisposePage

\* A holder changes the bytes of one frame and moves none.
LEMMA WritePageStays ==
    ASSUME IInv, NEW i \in Frames, bufDescTable[i].pinCnt > 0,
           NEW h \in Frames, NEW c \in Contents, WritePage(h, c)
    PROVE  /\ bufDescTable'[i].valid
           /\ KeyOf(i)' = KeyOf(i)
           /\ bufPool'[i] = bufPool[i] \/ WritePage(i, c)
<1>1. bufDescTable'[i].valid /\ KeyOf(i)' = KeyOf(i)
  BY PinnedIsValid DEF WritePage, KeyOf, IInv
<1>2. h # i => bufPool'[i] = bufPool[i]
  BY DEF WritePage, IInv, TypeOK
<1> QED
  BY <1>1, <1>2

\* The pointer that readPage or allocPage returned stays good while the page
\* is pinned: no operation gives the frame away or changes its bytes, except
\* its holders, disposePage of that page, and the end of the pool.
THEOREM PinnedStay == Spec => PinnedFramesStay
<1> DEFINE Safe(i) == \/ Restart
                      \/ DisposePage(bufDescTable[i].file, bufDescTable[i].pageNo)
                      \/ /\ bufDescTable'[i].valid
                         /\ KeyOf(i)' = KeyOf(i)
                         /\ bufPool'[i] = bufPool[i] \/ \E c \in Contents : WritePage(i, c)
<1>1. ASSUME IInv, [Next]_vars, NEW i \in Frames, bufDescTable[i].pinCnt > 0
      PROVE  Safe(i)
  <2>1. Stays(i) => Safe(i)
    BY DEF Stays
  <2>2. ASSUME NEW f \in Files, NEW p \in Pages, ReadPage(f, p) PROVE Safe(i)
    BY <1>1, <2>1, <2>2, ReadPageStays
  <2>3. ASSUME NEW f \in Files, NEW p \in Pages, DisposePage(f, p) PROVE Safe(i)
    BY <1>1, <2>1, <2>3, PageCallsStay
  <2>4. ASSUME NEW f \in Files, NEW p \in Pages, NEW d \in BOOLEAN, UnPinPage(f, p, d)
        PROVE  Safe(i)
    BY <1>1, <2>1, <2>4, PageCallsStay
  <2>5. ASSUME NEW f \in Files, AllocPage(f) \/ FlushFile(f) \/ CleanUpPinnedPage(f)
        PROVE  Safe(i)
    BY <1>1, <2>1, <2>5, FileCallsStay
  <2>6. ASSUME NEW h \in Frames, NEW c \in Contents, WritePage(h, c) PROVE Safe(i)
    BY <1>1, <2>6, WritePageStays
  <2>7. CASE UNCHANGED vars
    <3>1. bufDescTable[i].valid
      BY <1>1, PinnedIsValid DEF IInv
    <3>2. Stays(i)
      BY <2>7, <3>1 DEF vars, Stays, KeyOf
    <3> QED
      BY <2>1, <3>2
  <2> QED
    BY <1>1, <2>2, <2>3, <2>4, <2>5, <2>6, <2>7 DEF Next
<1>2. IInv /\ [Next]_vars =>
        [\A i \in Frames : bufDescTable[i].pinCnt > 0 => Safe(i)]_vars
  BY <1>1
<1> QED
  BY <1>2, InitStep, NextStep, PTL DEF Spec, PinnedFramesStay

-----------------------------------------------------------------------------
(***************************************************************************)
(* BufMgr implements PageStore under the mapping store, pins of BufMgr.    *)
(***************************************************************************)

\* The mapping, page by page.
LEMMA Mapping ==
    /\ store = [q \in Keys |-> store[q]] /\ pins = [q \in Keys |-> pins[q]]
    /\ \A q \in Keys :
        /\ store[q] = IF hashTable[q] = NoFrame THEN disk[q] ELSE bufPool[hashTable[q]]
        /\ pins[q] = IF hashTable[q] = NoFrame THEN 0 ELSE bufDescTable[hashTable[q]].pinCnt
BY DEF store, pins, Logical

\* The mapping in the next state.
LEMMA MappingNext ==
    /\ store' = [q \in Keys |-> store'[q]] /\ pins' = [q \in Keys |-> pins'[q]]
    /\ \A q \in Keys :
        /\ store'[q] = IF hashTable'[q] = NoFrame THEN disk'[q] ELSE bufPool'[hashTable'[q]]
        /\ pins'[q] = IF hashTable'[q] = NoFrame THEN 0 ELSE bufDescTable'[hashTable'[q]].pinCnt
BY DEF store, pins, Logical

\* A buffered page exists for its readers; a page is pinned a natural number
\* of times.
LEMMA MappingFacts ==
    ASSUME IInv, NEW q \in Keys
    PROVE  /\ pins[q] \in Nat
           /\ store[q] \in Contents \cup {Free}
           /\ store[q] = Free <=> disk[q] = Free
           /\ hashTable[q] # NoFrame => store[q] # Free
<1>1. CASE hashTable[q] = NoFrame
  BY <1>1, Mapping DEF IInv, TypeOK
<1>2. CASE hashTable[q] # NoFrame
  <2>1. /\ hashTable[q] \in Frames /\ bufDescTable[hashTable[q]] \in BufDesc
        /\ bufDescTable[hashTable[q]].valid /\ KeyOf(hashTable[q]) = q
    BY <1>2, HashedFrame
  <2>2. store[q] \in Contents /\ store[q] # Free
    BY <1>2, <2>1, Mapping, FreeAssumption DEF IInv, TypeOK
  <2>3. disk[q] # Free
    BY <2>1 DEF IInv, CachedPagesExist
  <2>4. pins[q] \in Nat
    BY <1>2, <2>1, Mapping DEF BufDesc
  <2> QED
    BY <2>2, <2>3, <2>4
<1> QED
  BY <1>1, <1>2

\* Taking frame i from its page changes nothing for the readers of any page;
\* giving it to page p of f leaves the readers of the other pages alone.
LEMMA FrameGivenMaps ==
    ASSUME IInv, NEW k \in ScanSteps, StopsAt(k), NEW f \in Files, NEW p \in Pages,
           hashTable[<<f, p>>] = NoFrame, NEW c, NEW newDisk,
           \A q \in Keys \ {<<f, p>>} : newDisk[q] = DiskAfterWriteBack(HandAt(k))[q],
           AllocBufFor(k, f, p, c, newDisk)
    PROVE  /\ \A q \in Keys \ {<<f, p>>} : store'[q] = store[q] /\ pins'[q] = pins[q]
           /\ store'[<<f, p>>] = c /\ pins'[<<f, p>>] = 1
<1>1. PICK i \in Frames : i = HandAt(k) /\ bufDescTable[i].pinCnt = 0 /\ i \notin unreported
  BY VictimFacts DEF IInv
<1>2. NoFrame \notin Frames /\ <<f, p>> \in Keys
  BY NumBufsAssumption DEF NoFrame, Frames, Keys
<1>3. /\ bufDescTable' = [Swept(k) EXCEPT ![i] = Set(f, p)]
      /\ bufPool' = [bufPool EXCEPT ![i] = c]
      /\ hashTable' = [HashWithout(i) EXCEPT ![<<f, p>>] = i]
      /\ disk' = newDisk
  BY <1>1 DEF AllocBufFor
<1>4. /\ bufDescTable'[i].pinCnt = 1 /\ bufPool'[i] = c
      /\ \A j \in Frames \ {i} : /\ bufDescTable'[j].pinCnt = bufDescTable[j].pinCnt
                                 /\ bufPool'[j] = bufPool[j]
  BY <1>1, <1>3, SweptFacts DEF IInv, TypeOK, Set
<1>5. /\ HashWithout(i) \in [Keys -> Frames \cup {NoFrame}]
      /\ \A q \in Keys, j \in Frames : HashWithout(i)[q] = j <=> j # i /\ hashTable[q] = j
      /\ \A q \in Keys : /\ hashTable[q] = i => DiskAfterWriteBack(i)[q] = bufPool[i]
                         /\ hashTable[q] # i => DiskAfterWriteBack(i)[q] = disk[q]
  BY <1>1, EvictFacts
<1>6. hashTable'[<<f, p>>] = i /\ \A q \in Keys \ {<<f, p>>} : hashTable'[q] = HashWithout(i)[q]
  BY <1>2, <1>3, <1>5
<1>7. store'[<<f, p>>] = c /\ pins'[<<f, p>>] = 1
  BY <1>1, <1>2, <1>4, <1>6, MappingNext
<1>8. ASSUME NEW q \in Keys \ {<<f, p>>}
      PROVE  store'[q] = store[q] /\ pins'[q] = pins[q]
  <2>1. disk'[q] = DiskAfterWriteBack(i)[q]
    BY <1>1, <1>3
  <2>2. CASE hashTable[q] = i
    BY <1>1, <1>2, <1>5, <1>6, <2>1, <2>2, Mapping, MappingNext
  <2>3. CASE hashTable[q] = NoFrame
    BY <1>1, <1>2, <1>5, <1>6, <2>1, <2>3, Mapping, MappingNext
  <2>4. CASE hashTable[q] \in Frames \ {i}
    BY <1>2, <1>4, <1>5, <1>6, <2>4, Mapping, MappingNext
  <2> QED
    BY <2>2, <2>3, <2>4 DEF IInv, TypeOK
<1> QED
  BY <1>7, <1>8

\* Two functions on the pages that agree everywhere are the same mapping.
LEMMA SameMapping ==
    ASSUME \A q \in Keys : store'[q] = store[q] /\ pins'[q] = pins[q]
    PROVE  store' = store /\ pins' = pins
BY Mapping, MappingNext

\* Two functions on the pages that agree but for one page.
LEMMA OnePageMapping ==
    ASSUME NEW e \in Keys,
           \A q \in Keys \ {e} : store'[q] = store[q] /\ pins'[q] = pins[q]
    PROVE  /\ store' = [store EXCEPT ![e] = store'[e]]
           /\ pins' = [pins EXCEPT ![e] = pins'[e]]
BY Mapping, MappingNext

\* readPage of a page that is not buffered is a Pin.
LEMMA ReadMissMaps ==
    ASSUME IInv, NEW f \in Files, NEW p \in Pages, ReadMiss(f, p)
    PROVE  PS!Pin(<<f, p>>)
<1>1. PICK k \in ScanSteps :
        /\ StopsAt(k)
        /\ DiskAfterWriteBack(HandAt(k))[<<f, p>>] # Free
        /\ AllocBufFor(k, f, p, DiskAfterWriteBack(HandAt(k))[<<f, p>>], DiskAfterWriteBack(HandAt(k)))
  BY DEF ReadMiss
<1>2. PICK i \in Frames : i = HandAt(k) /\ i \notin unreported
  BY <1>1, VictimFacts DEF IInv
<1>3. hashTable[<<f, p>>] = NoFrame /\ <<f, p>> \in Keys /\ NoFrame \notin Frames
  BY NumBufsAssumption DEF ReadMiss, Keys, NoFrame, Frames
<1>4. DiskAfterWriteBack(i)[<<f, p>>] = store[<<f, p>>] /\ pins[<<f, p>>] = 0
  BY <1>2, <1>3, EvictFacts, Mapping
<1>5. /\ \A q \in Keys \ {<<f, p>>} : store'[q] = store[q] /\ pins'[q] = pins[q]
      /\ store'[<<f, p>>] = store[<<f, p>>] /\ pins'[<<f, p>>] = 1
  BY <1>1, <1>2, <1>3, <1>4, FrameGivenMaps
<1>6. store' = store
  BY <1>3, <1>5, Mapping, MappingNext
<1>7. pins' = [pins EXCEPT ![<<f, p>>] = pins'[<<f, p>>]]
  BY <1>3, <1>5, OnePageMapping
<1>8. pins'[<<f, p>>] = pins[<<f, p>>] + 1
  BY <1>4, <1>5
<1> QED
  BY <1>1, <1>2, <1>4, <1>6, <1>7, <1>8 DEF PS!Pin

\* allocPage is an Alloc.
LEMMA AllocPageMaps ==
    ASSUME IInv, NEW f \in Files, NEW p \in Pages, NEW k \in ScanSteps,
           StopsAt(k), disk[<<f, p>>] = Free,
           AllocBufFor(k, f, p, Fresh,
                       [DiskAfterWriteBack(HandAt(k)) EXCEPT ![<<f, p>>] = Fresh])
    PROVE  PS!Alloc(<<f, p>>)
<1>1. PICK i \in Frames : i = HandAt(k) /\ i \notin unreported
  BY VictimFacts DEF IInv
<1>2. <<f, p>> \in Keys
  BY DEF Keys
<1>3. hashTable[<<f, p>>] = NoFrame
  BY <1>2, HashedFrame DEF IInv, CachedPagesExist
<1>4. DiskAfterWriteBack(i) \in [Keys -> Contents \cup {Free}]
  BY <1>1, EvictFacts
<1>5. PICK newDisk : newDisk = [DiskAfterWriteBack(HandAt(k)) EXCEPT ![<<f, p>>] = Fresh]
  OBVIOUS
<1>6. /\ \A q \in Keys \ {<<f, p>>} : newDisk[q] = DiskAfterWriteBack(HandAt(k))[q]
      /\ AllocBufFor(k, f, p, Fresh, newDisk)
  BY <1>1, <1>4, <1>5
<1>7. /\ \A q \in Keys \ {<<f, p>>} : store'[q] = store[q] /\ pins'[q] = pins[q]
      /\ store'[<<f, p>>] = Fresh /\ pins'[<<f, p>>] = 1
  BY <1>3, <1>6, FrameGivenMaps
<1>8. /\ store' = [store EXCEPT ![<<f, p>>] = Fresh]
      /\ pins' = [pins EXCEPT ![<<f, p>>] = 1]
  BY <1>2, <1>7, Mapping, MappingNext
<1>9. store[<<f, p>>] = Free
  BY <1>2, <1>3, Mapping
<1> QED
  BY <1>8, <1>9 DEF PS!Alloc

\* A search that fails is invisible.
LEMMA AllocBufFailsMaps ==
    ASSUME IInv, AllocBufFails
    PROVE  store' = store /\ pins' = pins
<1>1. \A j \in Frames : bufDescTable'[j].pinCnt = bufDescTable[j].pinCnt
  BY SweptFacts DEF AllocBufFails, IInv
<1>2. bufPool' = bufPool /\ hashTable' = hashTable /\ disk' = disk
  BY DEF AllocBufFails
<1>3. \A q \in Keys : hashTable[q] = NoFrame \/ hashTable[q] \in Frames
  BY DEF IInv, TypeOK
<1>4. \A q \in Keys : store'[q] = store[q] /\ pins'[q] = pins[q]
  BY <1>1, <1>2, <1>3, Mapping, MappingNext
<1> QED
  BY <1>4, SameMapping

\* readPage of a page that does not exist is invisible, though it evicts one.
LEMMA ReadInvalidMaps ==
    ASSUME IInv, NEW f \in Files, NEW p \in Pages, ReadInvalid(f, p)
    PROVE  store' = store /\ pins' = pins
<1>1. PICK k \in ScanSteps :
        /\ StopsAt(k)
        /\ bufDescTable' = [Swept(k) EXCEPT ![HandAt(k)] = Clear]
        /\ hashTable' = HashWithout(HandAt(k))
        /\ disk' = DiskAfterWriteBack(HandAt(k))
        /\ bufPool' = bufPool
  BY DEF ReadInvalid
<1>2. PICK i \in Frames : i = HandAt(k) /\ bufDescTable[i].pinCnt = 0 /\ i \notin unreported
  BY <1>1, VictimFacts DEF IInv
<1>3. NoFrame \notin Frames
  BY NumBufsAssumption DEF NoFrame, Frames
<1>4. \A j \in Frames \ {i} : bufDescTable'[j].pinCnt = bufDescTable[j].pinCnt
  BY <1>1, <1>2, SweptFacts DEF IInv
<1>5. /\ HashWithout(i) \in [Keys -> Frames \cup {NoFrame}]
      /\ \A q \in Keys, j \in Frames : HashWithout(i)[q] = j <=> j # i /\ hashTable[q] = j
      /\ \A q \in Keys : /\ hashTable[q] = i => DiskAfterWriteBack(i)[q] = bufPool[i]
                         /\ hashTable[q] # i => DiskAfterWriteBack(i)[q] = disk[q]
  BY <1>2, EvictFacts
<1>6. ASSUME NEW q \in Keys
      PROVE  store'[q] = store[q] /\ pins'[q] = pins[q]
  <2>1. CASE hashTable[q] = i
    BY <1>1, <1>2, <1>3, <1>5, <2>1, Mapping, MappingNext
  <2>2. CASE hashTable[q] = NoFrame
    BY <1>1, <1>2, <1>3, <1>5, <2>2, Mapping, MappingNext
  <2>3. CASE hashTable[q] \in Frames \ {i}
    BY <1>1, <1>2, <1>3, <1>4, <1>5, <2>3, Mapping, MappingNext
  <2> QED
    BY <2>1, <2>2, <2>3 DEF IInv, TypeOK
<1> QED
  BY <1>6, SameMapping

\* readPage of a buffered page is a Pin.
LEMMA ReadHitMaps ==
    ASSUME IInv, NEW f \in Files, NEW p \in Pages, ReadHit(f, p)
    PROVE  PS!Pin(<<f, p>>)
<1>1. <<f, p>> \in Keys /\ hashTable[<<f, p>>] # NoFrame
  BY DEF Keys, ReadHit
<1>2. PICK i \in Frames : i = hashTable[<<f, p>>] /\ bufDescTable[i] \in BufDesc
                          /\ KeyOf(i) = <<f, p>>
  BY <1>1, HashedFrame
<1>3. PICK n \in Nat : n = bufDescTable[i].pinCnt
  BY <1>2 DEF BufDesc
<1>4. PICK d : d = Referenced(bufDescTable[i])
  OBVIOUS
<1>5. d.pinCnt = n + 1
  BY <1>2, <1>3, <1>4 DEF Referenced, BufDesc
<1>6. /\ bufDescTable' = [bufDescTable EXCEPT ![i] = d]
      /\ bufPool' = bufPool /\ hashTable' = hashTable /\ disk' = disk
  BY <1>2, <1>4 DEF ReadHit
<1>7. /\ bufDescTable'[i].pinCnt = n + 1
      /\ \A j \in Frames \ {i} : bufDescTable'[j] = bufDescTable[j]
  BY <1>5, <1>6 DEF IInv, TypeOK
<1>8. \A q \in Keys \ {<<f, p>>} : hashTable[q] = NoFrame \/ hashTable[q] \in Frames \ {i}
  BY <1>2 DEF IInv, TypeOK, HashMatchesFrames
<1>9. \A q \in Keys \ {<<f, p>>} : store'[q] = store[q] /\ pins'[q] = pins[q]
  BY <1>6, <1>7, <1>8, Mapping, MappingNext
<1>10. store'[<<f, p>>] = store[<<f, p>>] /\ pins[<<f, p>>] = n /\ pins'[<<f, p>>] = n + 1
  BY <1>1, <1>2, <1>3, <1>6, <1>7, Mapping, MappingNext
<1>11. store' = store /\ pins' = [pins EXCEPT ![<<f, p>>] = n + 1]
  BY <1>1, <1>9, <1>10, Mapping, MappingNext
<1>12. store[<<f, p>>] # Free
  BY <1>1, MappingFacts
<1> QED
  BY <1>10, <1>11, <1>12 DEF PS!Pin

\* unPinPage is an Unpin, or invisible when the page was not pinned.
LEMMA UnPinMaps ==
    ASSUME IInv, NEW f \in Files, NEW p \in Pages, NEW dirty \in BOOLEAN,
           UnPinBuffered(f, p, dirty)
    PROVE  PS!Unpin(<<f, p>>) \/ (store' = store /\ pins' = pins)
<1>1. <<f, p>> \in Keys /\ hashTable[<<f, p>>] # NoFrame
  BY DEF Keys, UnPinBuffered
<1>2. PICK i \in Frames : i = hashTable[<<f, p>>] /\ bufDescTable[i] \in BufDesc
                          /\ KeyOf(i) = <<f, p>>
  BY <1>1, HashedFrame
<1>3. PICK n \in Nat : n = bufDescTable[i].pinCnt
  BY <1>2 DEF BufDesc
<1>4. PICK m : m = Marked(bufDescTable[i], dirty)
  OBVIOUS
<1>5. m \in BufDesc /\ m.pinCnt = n
  BY <1>2, <1>3, <1>4, MarkedFacts
<1>6. PICK d : d = Unpinned(m)
  OBVIOUS
<1>7. d.pinCnt = IF n = 0 THEN 0 ELSE n - 1
  BY <1>5, <1>6 DEF Unpinned, BufDesc
<1>8. /\ bufDescTable' = [bufDescTable EXCEPT ![i] = d]
      /\ bufPool' = bufPool /\ hashTable' = hashTable /\ disk' = disk
  BY <1>2, <1>4, <1>6 DEF UnPinBuffered
<1>9. /\ bufDescTable'[i].pinCnt = IF n = 0 THEN 0 ELSE n - 1
      /\ \A j \in Frames \ {i} : bufDescTable'[j] = bufDescTable[j]
  BY <1>7, <1>8 DEF IInv, TypeOK
<1>10. \A q \in Keys \ {<<f, p>>} : hashTable[q] = NoFrame \/ hashTable[q] \in Frames \ {i}
  BY <1>2 DEF IInv, TypeOK, HashMatchesFrames
<1>11. \A q \in Keys \ {<<f, p>>} : store'[q] = store[q] /\ pins'[q] = pins[q]
  BY <1>8, <1>9, <1>10, Mapping, MappingNext
<1>12. /\ store'[<<f, p>>] = store[<<f, p>>] /\ pins[<<f, p>>] = n
       /\ pins'[<<f, p>>] = IF n = 0 THEN 0 ELSE n - 1
  BY <1>1, <1>2, <1>3, <1>8, <1>9, Mapping, MappingNext
<1>13. CASE n = 0
  BY <1>11, <1>12, <1>13, SameMapping
<1>14. CASE n > 0
  <2>1. store' = store /\ pins' = [pins EXCEPT ![<<f, p>>] = n - 1]
    BY <1>1, <1>11, <1>12, <1>14, Mapping, MappingNext
  <2> QED
    BY <1>12, <1>14, <2>1 DEF PS!Unpin
<1> QED
  BY <1>13, <1>14

\* disposePage of a buffered page is a Dispose.
LEMMA DisposeMaps ==
    ASSUME IInv, NEW f \in Files, NEW p \in Pages, DisposeBuffered(f, p)
    PROVE  PS!Dispose(<<f, p>>)
<1>1. <<f, p>> \in Keys /\ hashTable[<<f, p>>] # NoFrame
  BY DEF Keys, DisposeBuffered
<1>2. PICK i \in Frames : i = hashTable[<<f, p>>] /\ KeyOf(i) = <<f, p>>
  BY <1>1, HashedFrame
<1>3. /\ bufDescTable' = [bufDescTable EXCEPT ![i] = Clear]
      /\ hashTable' = [hashTable EXCEPT ![<<f, p>>] = NoFrame]
      /\ disk' = [disk EXCEPT ![<<f, p>>] = Free]
      /\ bufPool' = bufPool
  BY <1>2 DEF DisposeBuffered
<1>4. \A j \in Frames \ {i} : bufDescTable'[j] = bufDescTable[j]
  BY <1>3 DEF IInv, TypeOK
<1>5. \A q \in Keys \ {<<f, p>>} : /\ hashTable[q] = NoFrame \/ hashTable[q] \in Frames \ {i}
                                   /\ hashTable'[q] = hashTable[q] /\ disk'[q] = disk[q]
  BY <1>2, <1>3 DEF IInv, TypeOK, HashMatchesFrames
<1>6. hashTable'[<<f, p>>] = NoFrame /\ disk'[<<f, p>>] = Free
  BY <1>1, <1>3 DEF IInv, TypeOK
<1>7. \A q \in Keys \ {<<f, p>>} : store'[q] = store[q] /\ pins'[q] = pins[q]
  BY <1>3, <1>4, <1>5, Mapping, MappingNext
<1>8. store'[<<f, p>>] = Free /\ pins'[<<f, p>>] = 0
  BY <1>1, <1>6, MappingNext
<1>9. /\ store' = [store EXCEPT ![<<f, p>>] = Free]
      /\ pins' = [pins EXCEPT ![<<f, p>>] = 0]
  BY <1>1, <1>7, <1>8, Mapping, MappingNext
<1>10. store[<<f, p>>] # Free
  BY <1>1, MappingFacts
<1> QED
  BY <1>9, <1>10 DEF PS!Dispose

\* A change of the bytes of a pinned frame is a Write.
LEMMA WritePageMaps ==
    ASSUME IInv, NEW i \in Frames, NEW c \in Contents, WritePage(i, c)
    PROVE  \E k \in Keys : PS!Write(k, c)
<1>1. PICK k : k = KeyOf(i)
  OBVIOUS
<1>2. bufDescTable[i].valid
  BY PinnedIsValid DEF WritePage, IInv
<1>3. k \in Keys /\ hashTable[k] = i
  BY <1>1, <1>2, CachedFacts
<1>4. i # NoFrame
  BY NumBufsAssumption DEF NoFrame, Frames
<1>5. /\ bufPool' = [bufPool EXCEPT ![i] = c] /\ bufDescTable[i].pinCnt > 0
      /\ bufDescTable' = bufDescTable /\ hashTable' = hashTable /\ disk' = disk
  BY DEF WritePage
<1>6. bufPool'[i] = c /\ \A j \in Frames \ {i} : bufPool'[j] = bufPool[j]
  BY <1>5 DEF IInv, TypeOK
<1>7. \A q \in Keys \ {k} : hashTable[q] = NoFrame \/ hashTable[q] \in Frames \ {i}
  BY <1>1 DEF IInv, TypeOK, HashMatchesFrames
<1>8. \A q \in Keys \ {k} : store'[q] = store[q] /\ pins'[q] = pins[q]
  BY <1>5, <1>6, <1>7, Mapping, MappingNext
<1>9. store'[k] = c /\ pins'[k] = pins[k] /\ pins[k] > 0
  BY <1>3, <1>4, <1>5, <1>6, Mapping, MappingNext
<1>10. store' = [store EXCEPT ![k] = c] /\ pins' = pins
  BY <1>3, <1>8, <1>9, Mapping, MappingNext
<1> QED
  BY <1>3, <1>9, <1>10 DEF PS!Write

\* flushFile is invisible, wherever it stops.
LEMMA FlushFileMaps ==
    ASSUME IInv, NEW f \in Files, FlushFile(f)
    PROVE  store' = store /\ pins' = pins
<1>1. PICK stop \in 0 .. NumBufs :
        LET visited == {i \in 0 .. (stop - 1) : Holds(i, f)} IN
        /\ \A i \in visited : bufDescTable[i].pinCnt = 0
        /\ disk' = DiskAfterFlush(visited)
        /\ hashTable' = [k \in Keys |-> IF \E i \in visited : KeyOf(i) = k
                                        THEN NoFrame ELSE hashTable[k]]
        /\ bufDescTable' = [i \in Frames |-> IF i \in visited THEN Clear ELSE bufDescTable[i]]
        /\ bufPool' = bufPool
  BY DEF FlushFile
<1>2. \A i \in 0 .. (stop - 1) : i \in Frames
  BY NumBufsAssumption DEF Frames
<1>3. PICK S \in SUBSET Frames : S = {i \in 0 .. (stop - 1) : Holds(i, f)}
  BY <1>2
<1>4. /\ \A i \in S : bufDescTable[i].pinCnt = 0 /\ bufDescTable[i].valid
      /\ disk' = DiskAfterFlush(S)
      /\ hashTable' = [k \in Keys |-> IF \E i \in S : KeyOf(i) = k
                                      THEN NoFrame ELSE hashTable[k]]
      /\ bufDescTable' = [i \in Frames |-> IF i \in S THEN Clear ELSE bufDescTable[i]]
      /\ bufPool' = bufPool
  BY <1>1, <1>3 DEF Holds
<1>5. NoFrame \notin Frames
  BY NumBufsAssumption DEF NoFrame, Frames
<1>6. \A i \in S : i \notin unreported
  BY <1>4 DEF IInv, TypeOK
<1>7. \A q \in Keys, j \in S : KeyOf(j) = q <=> hashTable[q] = j
  BY <1>4 DEF IInv, HashMatchesFrames
<1>8. \A q \in Keys : /\ hashTable[q] \in S => disk'[q] = bufPool[hashTable[q]]
                      /\ hashTable[q] \notin S => disk'[q] = disk[q]
  BY <1>4, <1>6, FlushFacts
<1>9. \A q \in Keys : hashTable'[q] = IF hashTable[q] \in S THEN NoFrame ELSE hashTable[q]
  BY <1>4, <1>7
<1>10. \A j \in Frames \ S : bufDescTable'[j] = bufDescTable[j]
  BY <1>4
<1>11. ASSUME NEW q \in Keys
       PROVE  store'[q] = store[q] /\ pins'[q] = pins[q]
  <2>1. CASE hashTable[q] \in S
    BY <1>4, <1>5, <1>8, <1>9, <2>1, Mapping, MappingNext
  <2>2. CASE hashTable[q] = NoFrame
    BY <1>5, <1>8, <1>9, <2>2, Mapping, MappingNext
  <2>3. CASE hashTable[q] \in Frames \ S
    BY <1>4, <1>5, <1>9, <1>10, <2>3, Mapping, MappingNext
  <2> QED
    BY <2>1, <2>2, <2>3 DEF IInv, TypeOK
<1> QED
  BY <1>11, SameMapping

\* cleanUpPinnedPage is an UnpinFile.
LEMMA CleanUpMaps ==
    ASSUME IInv, NEW f \in Files, CleanUpPinnedPage(f)
    PROVE  PS!UnpinFile(f)
<1>1. PICK P \in SUBSET Frames : P = {i \in Frames : Holds(i, f) /\ bufDescTable[i].pinCnt > 0}
  OBVIOUS
<1>2. /\ bufDescTable' = [i \in Frames |-> IF i \in P THEN CleanedUp(bufDescTable[i])
                                                     ELSE bufDescTable[i]]
      /\ bufPool' = bufPool /\ hashTable' = hashTable /\ disk' = disk
  BY <1>1 DEF CleanUpPinnedPage
<1>3. \A j \in P : bufDescTable'[j].pinCnt = 0
  BY <1>2 DEF CleanedUp, IInv, TypeOK, BufDesc
<1>4. \A j \in Frames \ P : bufDescTable'[j] = bufDescTable[j]
  BY <1>2
<1>5. ASSUME NEW q \in Keys
      PROVE  store'[q] = store[q] /\ pins'[q] = IF q[1] = f THEN 0 ELSE pins[q]
  <2>1. CASE hashTable[q] = NoFrame
    BY <1>2, <2>1, Mapping, MappingNext
  <2>2. CASE hashTable[q] # NoFrame
    <3>1. PICK i \in Frames : /\ i = hashTable[q] /\ bufDescTable[i] \in BufDesc
                              /\ bufDescTable[i].valid /\ KeyOf(i) = q
      BY <2>2, HashedFrame
    <3>2. Holds(i, f) <=> q[1] = f
      BY <3>1 DEF Holds, KeyOf
    <3>3. bufDescTable[i].pinCnt \in Nat
      BY <3>1 DEF BufDesc
    <3>4. bufDescTable'[i].pinCnt = IF q[1] = f THEN 0 ELSE bufDescTable[i].pinCnt
      BY <1>1, <1>3, <1>4, <3>1, <3>2, <3>3
    <3> QED
      BY <1>2, <2>2, <3>1, <3>4, Mapping, MappingNext
  <2> QED
    BY <2>1, <2>2
<1>6. store' = store
  BY <1>5, Mapping, MappingNext
<1>7. pins' = [k \in Keys |-> IF k[1] = f THEN 0 ELSE pins[k]]
  BY <1>5, MappingNext
<1> QED
  BY <1>6, <1>7 DEF PS!UnpinFile, PS!Keys, Keys

\* Destroying the pool and building another is a Restart.
LEMMA RestartMaps ==
    ASSUME IInv, Restart
    PROVE  PS!Restart
<1>1. PICK S \in SUBSET Frames : S = {i \in Frames : bufDescTable[i].valid}
  OBVIOUS
<1>2. disk' = DiskAfterFlush(S) /\ \A q \in Keys : hashTable'[q] = NoFrame
  BY <1>1 DEF Restart
<1>3. /\ disk' \in [Keys -> Contents \cup {Free}]
      /\ \A q \in Keys :
            /\ disk'[q] = Free <=> disk[q] = Free
            /\ hashTable[q] \notin S => disk'[q] = disk[q]
            /\ hashTable[q] \in S => \/ disk'[q] = bufPool[hashTable[q]]
                                     \/ hashTable[q] \in unreported
  BY <1>1, <1>2, FlushFacts
<1>4. \A q \in Keys : store'[q] = disk'[q] /\ pins'[q] = 0
  BY <1>2, MappingNext
<1>5. store' \in [Keys -> Contents \cup {Free}] /\ pins' = [k \in Keys |-> 0]
  BY <1>3, <1>4, MappingNext
<1>6. \A q \in Keys : store'[q] = Free <=> store[q] = Free
  BY <1>3, <1>4, MappingFacts
<1>7. ASSUME NEW q \in Keys, pins[q] = 0 PROVE store'[q] = store[q]
  <2>1. CASE hashTable[q] = NoFrame
    <3>1. hashTable[q] \notin S
      BY <2>1, NumBufsAssumption DEF NoFrame, Frames
    <3> QED
      BY <1>3, <1>4, <2>1, <3>1, Mapping
  <2>2. CASE hashTable[q] # NoFrame
    <3>1. hashTable[q] \in S
      BY <1>1, <2>2, HashedFrame
    <3>2. bufDescTable[hashTable[q]].pinCnt = 0
      BY <1>7, <2>2, Mapping
    <3>3. hashTable[q] \notin unreported
      BY <3>2 DEF IInv, TypeOK
    <3> QED
      BY <1>3, <1>4, <2>2, <3>1, <3>3, Mapping
  <2> QED
    BY <2>1, <2>2
<1> QED
  BY <1>5, <1>6, <1>7 DEF PS!Restart, PS!Keys, Keys

\* Stuttering maps to stuttering.
LEMMA UnchangedMaps ==
    ASSUME UNCHANGED <<bufDescTable, bufPool, hashTable, clockHand, disk, unreported>>
    PROVE  store' = store /\ pins' = pins
BY DEF store, pins, Logical

\* Initial states map to initial states.
LEMMA InitMaps == Init => PS!Init
<1> SUFFICES ASSUME Init PROVE PS!Init
  OBVIOUS
<1>1. \A q \in Keys : hashTable[q] = NoFrame /\ disk[q] = Free
  BY DEF Init
<1>2. store = [q \in Keys |-> Free] /\ pins = [q \in Keys |-> 0]
  BY <1>1, Mapping
<1> QED
  BY <1>2 DEF PS!Init, PS!Keys, Keys

\* Every step maps to a step of PageStore or to a stutter.
LEMMA StepMaps == IInv /\ [Next]_vars => [PS!Next]_(PS!vars)
<1> DEFINE Stutters == store' = store /\ pins' = pins
<1> SUFFICES ASSUME IInv, [Next]_vars PROVE PS!Next \/ Stutters
  BY DEF PS!vars
<1>1. ASSUME NEW f \in Files, NEW p \in Pages
      PROVE  /\ <<f, p>> \in PS!Keys
             /\ PS!Pin(<<f, p>>) \/ PS!Unpin(<<f, p>>) \/ PS!Alloc(<<f, p>>)
                  \/ PS!Dispose(<<f, p>>) => PS!Next
  BY DEF PS!Keys, PS!Next
<1>2. ASSUME NEW f \in Files, NEW p \in Pages, ReadPage(f, p) PROVE PS!Next \/ Stutters
  BY <1>1, <1>2, ReadHitMaps, ReadMissMaps, ReadInvalidMaps, AllocBufFailsMaps DEF ReadPage
<1>3. ASSUME NEW f \in Files, NEW p \in Pages, LookupFails(f, p) PROVE Stutters
  BY <1>3, UnchangedMaps DEF LookupFails
<1>4. ASSUME NEW f \in Files, NEW p \in Pages, NEW d \in BOOLEAN, UnPinPage(f, p, d)
      PROVE  PS!Next \/ Stutters
  BY <1>1, <1>3, <1>4, UnPinMaps DEF UnPinPage
<1>5. ASSUME NEW f \in Files, NEW p \in Pages, DisposePage(f, p) PROVE PS!Next \/ Stutters
  BY <1>1, <1>3, <1>5, DisposeMaps DEF DisposePage
<1>6. ASSUME NEW f \in Files, AllocPage(f) PROVE PS!Next \/ Stutters
  BY <1>1, <1>6, AllocPageMaps, AllocBufFailsMaps DEF AllocPage
<1>7. ASSUME NEW f \in Files, FlushFile(f) PROVE Stutters
  BY <1>7, FlushFileMaps
<1>8. ASSUME NEW f \in Files, CleanUpPinnedPage(f) PROVE PS!Next
  BY <1>8, CleanUpMaps DEF PS!Next
<1>9. ASSUME NEW i \in Frames, NEW c \in Contents, WritePage(i, c) PROVE PS!Next
  BY <1>9, WritePageMaps DEF PS!Next, PS!Keys, Keys
<1>10. CASE Restart
  BY <1>10, RestartMaps DEF PS!Next
<1>11. CASE UNCHANGED vars
  BY <1>11, UnchangedMaps DEF vars
<1> QED
  BY <1>2, <1>4, <1>5, <1>6, <1>7, <1>8, <1>9, <1>10, <1>11 DEF Next

\* The buffer manager implements the store of pages, whatever the number of
\* frames: an eviction, a flush, a call that throws and the end of the pool
\* never change what the readers of a page find, but for a page somebody was
\* still writing to when the pool ended.
THEOREM Refinement == Spec => RefinesPageStore
<1> QED
  BY InitStep, NextStep, InitMaps, StepMaps, PTL DEF Spec, RefinesPageStore, PS!Spec

-----------------------------------------------------------------------------
(***************************************************************************)
(* What the callers of BufMgr are promised about eviction and flushing.    *)
(***************************************************************************)
\* The hand is on every frame once in its first turn.
LEMMA FirstTurn ==
    ASSUME clockHand \in Frames, NEW i \in Frames
    PROVE  \E k \in ScanSteps : k <= NumBufs /\ HandAt(k) = i
<1>1. NumBufs \in Nat \ {0} /\ i \in 0 .. (NumBufs - 1) /\ clockHand \in 0 .. (NumBufs - 1)
  BY NumBufsAssumption DEF Frames
<1>2. i % NumBufs = i
  BY <1>1, Z3
<1>3. (NumBufs + i) % NumBufs = i
  BY <1>1, Z3
<1>4. CASE i > clockHand
  <2>1. PICK k \in Int : k = i - clockHand
    BY <1>1
  <2>2. k \in ScanSteps /\ k <= NumBufs /\ clockHand + k = i
    BY <1>1, <1>4, <2>1 DEF ScanSteps
  <2> QED
    BY <1>2, <2>2 DEF HandAt
<1>5. CASE i <= clockHand
  <2>1. PICK k \in Int : k = NumBufs + i - clockHand
    BY <1>1
  <2>2. k \in ScanSteps /\ k <= NumBufs /\ clockHand + k = NumBufs + i
    BY <1>1, <1>5, <2>1 DEF ScanSteps
  <2> QED
    BY <1>3, <2>2 DEF HandAt
<1> QED
  BY <1>1, <1>4, <1>5

\* Whoever else has its page in the pool has it pinned or referenced.
AllInUse == \A j \in Frames : /\ bufDescTable[j].valid
                              /\ bufDescTable[j].pinCnt > 0 \/ bufDescTable[j].refbit

\* A search that ends at a referenced page has been all around the pool and
\* found no frame to use.
LEMMA ReferencedVictim ==
    ASSUME TypeOK, NEW k \in ScanSteps, StopsAt(k),
           bufDescTable[HandAt(k)].valid, bufDescTable[HandAt(k)].refbit
    PROVE  AllInUse
<1>1. k > NumBufs
  BY DEF StopsAt, UsableAt
<1>2. ASSUME NEW j \in Frames
      PROVE  bufDescTable[j].valid /\ (bufDescTable[j].pinCnt > 0 \/ bufDescTable[j].refbit)
  <2>1. PICK n \in ScanSteps : n <= NumBufs /\ HandAt(n) = j
    BY FirstTurn DEF TypeOK
  <2>2. n \in 1 .. (k - 1)
    BY <1>1, <2>1, NumBufsAssumption DEF ScanSteps
  <2>3. ~UsableAt(n)
    BY <2>2 DEF StopsAt
  <2>4. bufDescTable[j].pinCnt \in Nat
    BY DEF TypeOK, BufDesc
  <2> QED
    BY <2>1, <2>3, <2>4 DEF UsableAt
<1> QED
  BY <1>2 DEF AllInUse

\* The page that leaves the hash table when a frame is given to another page
\* is the one of that frame.
LEMMA AllocBufForSpares ==
    ASSUME IInv, NEW i \in Frames, bufDescTable[i].valid, bufDescTable[i].refbit,
           NEW f \in Files, NEW p \in Pages, hashTable[<<f, p>>] = NoFrame,
           NEW k \in ScanSteps, StopsAt(k), NEW c, NEW newDisk,
           AllocBufFor(k, f, p, c, newDisk), hashTable'[KeyOf(i)] # i
    PROVE  AllInUse
<1>1. /\ HandAt(k) \in Frames /\ HandAt(k) \notin unreported
      /\ KeyOf(i) \in Keys /\ hashTable[KeyOf(i)] = i
  BY VictimFacts, CachedFacts DEF IInv
<1>2. NoFrame \notin Frames
  BY NumBufsAssumption DEF NoFrame, Frames
<1>3. KeyOf(i) # <<f, p>>
  BY <1>1, <1>2
<1>4. /\ HashWithout(HandAt(k)) \in [Keys -> Frames \cup {NoFrame}]
      /\ HandAt(k) # i => HashWithout(HandAt(k))[KeyOf(i)] = i
  BY <1>1, EvictFacts
<1>5. hashTable' = [HashWithout(HandAt(k)) EXCEPT ![<<f, p>>] = HandAt(k)]
  BY DEF AllocBufFor
<1>6. HandAt(k) = i
  BY <1>1, <1>3, <1>4, <1>5
<1> QED
  BY <1>6, ReferencedVictim DEF IInv

\* readPage takes a referenced page's frame only when all are in use.
LEMMA ReadPageSpares ==
    ASSUME IInv, NEW i \in Frames, bufDescTable[i].valid, bufDescTable[i].refbit,
           hashTable'[KeyOf(i)] # i,
           NEW f \in Files, NEW p \in Pages, ReadPage(f, p)
    PROVE  AllInUse
<1>1. KeyOf(i) \in Keys /\ hashTable[KeyOf(i)] = i
  BY CachedFacts
<1>2. ~ReadHit(f, p)
  BY <1>1 DEF ReadHit
<1>3. ~AllocBufFails
  BY <1>1 DEF AllocBufFails
<1>4. CASE ReadMiss(f, p)
  BY <1>4, AllocBufForSpares DEF ReadMiss
<1>5. CASE ReadInvalid(f, p)
  <2>1. PICK k \in ScanSteps : StopsAt(k) /\ hashTable' = HashWithout(HandAt(k))
    BY <1>5 DEF ReadInvalid
  <2>2. HandAt(k) \in Frames /\ HandAt(k) \notin unreported
    BY <2>1, VictimFacts DEF IInv
  <2>3. HandAt(k) = i
    BY <1>1, <2>1, <2>2, EvictFacts
  <2> QED
    BY <2>1, <2>3, ReferencedVictim DEF IInv
<1> QED
  BY <1>2, <1>3, <1>4, <1>5 DEF ReadPage

\* So does allocPage.
LEMMA AllocPageSpares ==
    ASSUME IInv, NEW i \in Frames, bufDescTable[i].valid, bufDescTable[i].refbit,
           hashTable'[KeyOf(i)] # i,
           NEW f \in Files, AllocPage(f)
    PROVE  AllInUse
<1>1. KeyOf(i) \in Keys /\ hashTable[KeyOf(i)] = i
  BY CachedFacts
<1>2. ~AllocBufFails
  BY <1>1 DEF AllocBufFails
<1>3. PICK k \in ScanSteps, p \in Pages :
        /\ StopsAt(k)
        /\ disk[<<f, p>>] = Free
        /\ AllocBufFor(k, f, p, Fresh,
                       [DiskAfterWriteBack(HandAt(k)) EXCEPT ![<<f, p>>] = Fresh])
  BY <1>2 DEF AllocPage
<1>4. <<f, p>> \in Keys
  BY DEF Keys
<1>5. hashTable[<<f, p>>] = NoFrame
  BY <1>3, <1>4, HashedFrame DEF IInv, CachedPagesExist
<1> QED
  BY <1>3, <1>5, AllocBufForSpares

\* unPinPage moves no page; disposePage removes the page it names.
LEMMA PageCallsSpare ==
    ASSUME IInv, NEW i \in Frames, bufDescTable[i].valid, hashTable'[KeyOf(i)] # i,
           NEW f \in Files, NEW p \in Pages
    PROVE  /\ \A dirty \in BOOLEAN : ~UnPinPage(f, p, dirty)
           /\ DisposePage(f, p) => DisposePage(bufDescTable[i].file, bufDescTable[i].pageNo)
<1>1. KeyOf(i) \in Keys /\ hashTable[KeyOf(i)] = i
  BY CachedFacts
<1>2. ~LookupFails(f, p)
  BY <1>1 DEF LookupFails
<1>3. \A dirty \in BOOLEAN : ~UnPinPage(f, p, dirty)
  BY <1>1, <1>2 DEF UnPinPage, UnPinBuffered
<1>4. ASSUME DisposeBuffered(f, p)
      PROVE  DisposePage(bufDescTable[i].file, bufDescTable[i].pageNo)
  <2>1. hashTable' = [hashTable EXCEPT ![<<f, p>>] = NoFrame]
    BY <1>4 DEF DisposeBuffered
  <2>2. KeyOf(i) = <<f, p>>
    BY <1>1, <2>1 DEF IInv, TypeOK
  <2>3. bufDescTable[i].file = f /\ bufDescTable[i].pageNo = p
    BY <2>2 DEF KeyOf
  <2> QED
    BY <1>4, <2>3 DEF DisposePage
<1> QED
  BY <1>2, <1>3, <1>4 DEF DisposePage

\* The clock's second chance is real: another caller's readPage or allocPage
\* pushes a page out that was referenced since the hand last passed it only
\* when no frame is empty and every other page is pinned or referenced as
\* well, in a pool of any size.
THEOREM ReferencedPagesStay == Spec => SecondChance
<1> DEFINE Excused(i) == \/ Restart
                         \/ \E f \in Files : FlushFile(f)
                         \/ DisposePage(bufDescTable[i].file, bufDescTable[i].pageNo)
                         \/ AllInUse
           Lost(i) == /\ bufDescTable[i].valid /\ bufDescTable[i].refbit
                      /\ hashTable'[KeyOf(i)] # i
<1>1. ASSUME IInv, [Next]_vars, NEW i \in Frames, Lost(i)
      PROVE  Excused(i)
  <2>1. KeyOf(i) \in Keys /\ hashTable[KeyOf(i)] = i
    BY <1>1, CachedFacts
  <2>2. ASSUME NEW f \in Files, NEW p \in Pages, ReadPage(f, p) PROVE Excused(i)
    BY <1>1, <2>2, ReadPageSpares
  <2>3. ASSUME NEW f \in Files, NEW p \in Pages, NEW d \in BOOLEAN, UnPinPage(f, p, d)
        PROVE  Excused(i)
    BY <1>1, <2>3, PageCallsSpare
  <2>4. ASSUME NEW f \in Files, NEW p \in Pages, DisposePage(f, p) PROVE Excused(i)
    BY <1>1, <2>4, PageCallsSpare
  <2>5. ASSUME NEW f \in Files, AllocPage(f) PROVE Excused(i)
    BY <1>1, <2>5, AllocPageSpares
  <2>6. ASSUME NEW f \in Files, CleanUpPinnedPage(f) PROVE Excused(i)
    BY <1>1, <2>1, <2>6 DEF CleanUpPinnedPage
  <2>7. ASSUME NEW h \in Frames, NEW c \in Contents, WritePage(h, c) PROVE Excused(i)
    BY <1>1, <2>1, <2>7 DEF WritePage
  <2>8. CASE UNCHANGED vars
    BY <1>1, <2>1, <2>8 DEF vars
  <2> QED
    BY <1>1, <2>2, <2>3, <2>4, <2>5, <2>6, <2>7, <2>8 DEF Next
<1>2. IInv /\ [Next]_vars => [\A i \in Frames : Lost(i) => Excused(i)]_vars
  BY <1>1
<1> QED
  BY <1>2, InitStep, NextStep, PTL DEF Spec, SecondChance, AllInUse

-----------------------------------------------------------------------------
\* flushFile that returns: every page of the file is on disk as its readers
\* last saw it, changed in the pool or not, and no frame is left for it.
THEOREM FlushedIsDurable == Spec => FlushMakesDurable
<1> DEFINE Durable(f) == /\ \A i \in Frames : bufDescTable'[i].file # f
                         /\ \A p \in Pages : disk'[<<f, p>>] = Logical(<<f, p>>)
<1>1. ASSUME IInv, NEW f \in Files, FlushFile(f), exc' = "none"
      PROVE  Durable(f)
  <2>1. PICK S \in SUBSET Frames : S = {i \in Frames : Holds(i, f)}
    OBVIOUS
  <2>2. 0 .. (NumBufs - 1) = Frames
    BY DEF Frames
  <2>3. /\ \A i \in S : bufDescTable[i].pinCnt = 0 /\ bufDescTable[i].valid
        /\ disk' = DiskAfterFlush(S)
        /\ bufDescTable' = [i \in Frames |-> IF i \in S THEN Clear ELSE bufDescTable[i]]
    <3>1. PICK stop \in 0 .. NumBufs :
            LET visited == {i \in 0 .. (stop - 1) : Holds(i, f)} IN
            /\ \A i \in visited : bufDescTable[i].pinCnt = 0
            /\ stop = NumBufs
            /\ disk' = DiskAfterFlush(visited)
            /\ bufDescTable' = [i \in Frames |-> IF i \in visited THEN Clear ELSE bufDescTable[i]]
      BY <1>1 DEF FlushFile
    <3>2. S = {i \in 0 .. (stop - 1) : Holds(i, f)}
      BY <2>1, <2>2, <3>1
    <3> QED
      BY <2>1, <3>1, <3>2 DEF Holds
  <2>4. ASSUME NEW i \in Frames PROVE bufDescTable'[i].file # f
    <3>1. CASE i \in S
      BY <2>3, <3>1, NullAssumption DEF Clear
    <3>2. CASE i \notin S
      <4>1. bufDescTable'[i] = bufDescTable[i] /\ ~Holds(i, f)
        BY <2>1, <2>3, <3>2
      <4>2. ~bufDescTable[i].valid => bufDescTable[i].file = NoFile
        BY <1>1 DEF IInv, TypeOK, Clear
      <4> QED
        BY <4>1, <4>2, NullAssumption DEF Holds
    <3> QED
      BY <3>1, <3>2
  <2>5. ASSUME NEW p \in Pages PROVE disk'[<<f, p>>] = Logical(<<f, p>>)
    <3>1. <<f, p>> \in Keys
      BY DEF Keys
    <3>2. CASE hashTable[<<f, p>>] = NoFrame
      <4>1. NoFrame \notin Frames
        BY NumBufsAssumption DEF NoFrame, Frames
      <4>2. hashTable[<<f, p>>] \notin S
        BY <3>2, <4>1
      <4> QED
        BY <1>1, <2>3, <3>1, <3>2, <4>2, FlushFacts DEF Logical
    <3>3. CASE hashTable[<<f, p>>] # NoFrame
      <4>1. PICK h \in Frames : /\ h = hashTable[<<f, p>>] /\ bufDescTable[h].valid
                                /\ KeyOf(h) = <<f, p>>
        BY <1>1, <3>1, <3>3, HashedFrame
      <4>2. h \in S
        BY <2>1, <4>1 DEF Holds, KeyOf
      <4>3. h \notin unreported
        BY <1>1, <2>3, <4>2 DEF IInv, TypeOK
      <4>4. disk'[<<f, p>>] = bufPool[h]
        BY <1>1, <2>3, <3>1, <4>1, <4>2, <4>3, FlushFacts
      <4> QED
        BY <3>3, <4>1, <4>4 DEF Logical
    <3> QED
      BY <3>2, <3>3
  <2> QED
    BY <2>4, <2>5
<1>2. IInv /\ [Next]_vars => [\A f \in Files : FlushFile(f) /\ exc' = "none" => Durable(f)]_vars
  BY <1>1
<1> QED
  BY <1>2, InitStep, NextStep, PTL DEF Spec, FlushMakesDurable

-----------------------------------------------------------------------------
(***************************************************************************)
(* ClockBufMgr.                                                            *)
(***************************************************************************)
\* A search that finds a frame finds it within two turns, where BufMgr's would
\* have: a third turn meets only pinned frames.
LEMMA FoundInTwoTurns ==
    ASSUME TypeOK, NEW k \in Visits, EndsAt(k), ~GivesUpAt(k)
    PROVE  k \in ScanSteps /\ StopsAt(k)
<1>1. UsableAt(k) /\ \A j \in 1 .. (k - 1) : ~UsableAt(j)
  BY DEF EndsAt
<1>2. k \in Nat /\ (k \in ScanSteps \/ k = 2 * NumBufs + 1)
  BY NumBufsAssumption DEF Visits, ScanSteps
<1>3. CASE k = 2 * NumBufs + 1
  <2>1. BufferExceeded
    BY <1>1, <1>3, NumBufsAssumption DEF BufferExceeded, ScanSteps
  <2>2. HandAt(k) \in Frames
    BY <1>2, HandAtType DEF TypeOK
  <2>3. bufDescTable[HandAt(k)].pinCnt > 0
    BY <2>1, <2>2, ExceededFacts DEF ExceededWhenAllPinned
  <2>4. bufDescTable[HandAt(k)].valid
    BY <2>2, <2>3, PinnedIsValid
  <2> QED
    BY <1>1, <2>3, <2>4 DEF UsableAt
<1> QED
  BY <1>1, <1>2, <1>3 DEF StopsAt

\* What unPinPage does to the descriptor of a pinned page.
LEMMA ReturnedFacts ==
    ASSUME NEW d \in BufDesc, NEW b \in BOOLEAN, d.pinCnt > 0, NEW e, e = Returned(d, b)
    PROVE  /\ e \in BufDesc
           /\ e.file = d.file /\ e.pageNo = d.pageNo /\ e.valid = d.valid
           /\ b \/ d.dirty => e.dirty
           /\ d.pinCnt > 1 => e.pinCnt > 0
<1>1. PICK n \in Nat : n = d.pinCnt - 1 /\ (d.pinCnt > 1 => n > 0)
  BY DEF BufDesc
<1>2. PICK m : m = Marked(d, b)
  OBVIOUS
<1>3. /\ m \in BufDesc /\ m.file = d.file /\ m.pageNo = d.pageNo
      /\ m.valid = d.valid /\ (b \/ d.dirty => m.dirty)
  BY <1>2, MarkedFacts
<1>4. e = [m EXCEPT !.pinCnt = n]
  BY <1>1, <1>2 DEF Returned, Marked, BufDesc
<1> QED
  BY <1>1, <1>3, <1>4, PinCountChanged

-----------------------------------------------------------------------------
\* A frame given to page p of f keeps IInv, if nothing but that page was put
\* on disk besides the write-back.
LEMMA AllocBufGivesStep ==
    ASSUME IInv, NEW f \in Files, NEW p \in Pages, hashTable[<<f, p>>] = NoFrame,
           NEW c \in Contents, NEW created \in BOOLEAN,
           created \/ disk[<<f, p>>] = c,
           AllocBufGives(f, p, c, created)
    PROVE  IInv'
<1>1. PICK k \in Visits :
        /\ EndsAt(k) /\ ~GivesUpAt(k)
        /\ AllocBufFor(k, f, p, c,
               IF created THEN [DiskAfterWriteBack(HandAt(k)) EXCEPT ![<<f, p>>] = c]
                          ELSE DiskAfterWriteBack(HandAt(k)))
  BY DEF AllocBufGives
<1>2. k \in ScanSteps /\ StopsAt(k)
  BY <1>1, FoundInTwoTurns DEF IInv
<1>3. PICK i \in Frames : i = HandAt(k) /\ i \notin unreported
  BY <1>2, VictimFacts DEF IInv
<1>4. <<f, p>> \in Keys /\ NoFrame \notin Frames
  BY NumBufsAssumption DEF Keys, NoFrame, Frames
<1>5. /\ DiskAfterWriteBack(i) \in [Keys -> Contents \cup {Free}]
      /\ DiskAfterWriteBack(i)[<<f, p>>] = disk[<<f, p>>]
  BY <1>3, <1>4, EvictFacts
<1>6. PICK newDisk \in [Keys -> Contents \cup {Free}] :
        newDisk = IF created THEN [DiskAfterWriteBack(i) EXCEPT ![<<f, p>>] = c]
                             ELSE DiskAfterWriteBack(i)
  BY <1>5
<1>7. /\ newDisk[<<f, p>>] = c
      /\ \A q \in Keys \ {<<f, p>>} : newDisk[q] = DiskAfterWriteBack(i)[q]
  BY <1>4, <1>5, <1>6
<1>8. AllocBufFor(k, f, p, c, newDisk)
  BY <1>1, <1>3, <1>6
<1> QED
  BY <1>2, <1>3, <1>7, <1>8, FrameGiven

\* A search that gives up keeps IInv, if what was put on disk before it is no
\* page that is in the pool.
LEMMA AllocBufExceedsStep ==
    ASSUME IInv, NEW newDisk \in [Keys -> Contents \cup {Free}],
           \A q \in Keys : hashTable[q] # NoFrame => newDisk[q] = disk[q],
           AllocBufExceeds(newDisk)
    PROVE  IInv'
<1>1. PICK k \in Visits :
        /\ bufDescTable' = Swept(k - 1) /\ clockHand' = HandAt(k)
        /\ disk' = newDisk /\ exc' = "BufferExceeded"
        /\ bufPool' = bufPool /\ hashTable' = hashTable /\ unreported' = unreported
  BY DEF AllocBufExceeds
<1>2. /\ bufDescTable' \in [Frames -> BufDesc]
      /\ \A j \in Frames :
            /\ bufDescTable'[j].file = bufDescTable[j].file
            /\ bufDescTable'[j].pageNo = bufDescTable[j].pageNo
            /\ bufDescTable'[j].pinCnt = bufDescTable[j].pinCnt
            /\ bufDescTable'[j].dirty = bufDescTable[j].dirty
            /\ bufDescTable'[j].valid = bufDescTable[j].valid
            /\ ~bufDescTable[j].valid => bufDescTable'[j] = Clear
  BY <1>1, SweptFacts DEF IInv, TypeOK
<1>3. clockHand' \in Frames /\ exc' \in Exceptions
  <2>1. k \in Nat
    BY NumBufsAssumption DEF Visits
  <2> QED
    BY <1>1, <2>1, HandAtType DEF IInv, TypeOK, Exceptions
<1>4. /\ bufPool' \in [Frames -> Contents]
      /\ hashTable' \in [Keys -> Frames \cup {NoFrame}]
      /\ disk' \in [Keys -> Contents \cup {Free}]
      /\ unreported' \subseteq {j \in Frames : bufDescTable'[j].pinCnt > 0}
  BY <1>1, <1>2 DEF IInv, TypeOK
<1>5. ASSUME NEW j \in Frames, bufDescTable[j].valid
      PROVE  /\ disk'[KeyOf(j)] # Free
             /\ bufDescTable'[j].dirty \/ j \in unreported' \/ bufPool'[j] = disk'[KeyOf(j)]
  <2>1. NoFrame \notin Frames
    BY NumBufsAssumption DEF NoFrame, Frames
  <2>2. disk'[KeyOf(j)] = disk[KeyOf(j)]
    BY <1>1, <1>5, <2>1, CachedFacts
  <2> QED
    BY <1>1, <1>2, <1>5, <2>2, CachedFacts
<1>6. {} \in SUBSET Frames
  OBVIOUS
<1>7. FramesStand({})
  BY <1>1, <1>2, <1>3, <1>4, <1>5, <1>6 DEF FramesStand
<1> QED
  BY <1>6, <1>7, FramesKept

\* readPage keeps IInv.
LEMMA PoolReadPageStep ==
    ASSUME IInv, NEW f \in Files, NEW p \in Pages, PoolReadPage(f, p)
    PROVE  IInv'
<1>1. CASE ReadHit(f, p)
  BY <1>1, ReadHitStep
<1>2. CASE hashTable[<<f, p>>] = NoFrame /\ disk[<<f, p>>] = Free /\ ~ReadHit(f, p)
  BY <1>2, UnchangedStep DEF PoolReadPage, Exceptions
<1>3. CASE hashTable[<<f, p>>] = NoFrame /\ disk[<<f, p>>] # Free /\ ~ReadHit(f, p)
  <2>1. PICK c \in Contents : c = disk[<<f, p>>]
    BY <1>3 DEF IInv, TypeOK, Keys
  <2>2. AllocBufGives(f, p, c, FALSE) \/ AllocBufExceeds(disk)
    BY <1>3, <2>1 DEF PoolReadPage
  <2>3. AllocBufGives(f, p, c, FALSE) => IInv'
    BY <1>3, <2>1, AllocBufGivesStep
  <2>4. AllocBufExceeds(disk) => IInv'
    BY AllocBufExceedsStep DEF IInv, TypeOK
  <2> QED
    BY <2>2, <2>3, <2>4
<1> QED
  BY <1>1, <1>2, <1>3 DEF PoolReadPage

\* allocPage keeps IInv, when the pool is full too: the page is then in the
\* file alone.
LEMMA PoolAllocPageStep ==
    ASSUME IInv, NEW f \in Files, PoolAllocPage(f)
    PROVE  IInv'
<1>1. PICK p \in Pages :
        /\ disk[<<f, p>>] = Free
        /\ \/ AllocBufGives(f, p, Fresh, TRUE)
           \/ AllocBufExceeds([disk EXCEPT ![<<f, p>>] = Fresh])
  BY DEF PoolAllocPage
<1>2. <<f, p>> \in Keys
  BY DEF Keys
<1>3. hashTable[<<f, p>>] = NoFrame
  BY <1>1, <1>2, HashedFrame DEF IInv, CachedPagesExist
<1>4. CASE AllocBufGives(f, p, Fresh, TRUE)
  BY <1>3, <1>4, FreshAssumption, AllocBufGivesStep
<1>5. CASE AllocBufExceeds([disk EXCEPT ![<<f, p>>] = Fresh])
  <2>1. PICK newDisk \in [Keys -> Contents \cup {Free}] :
            newDisk = [disk EXCEPT ![<<f, p>>] = Fresh]
    BY FreshAssumption DEF IInv, TypeOK
  <2>2. \A q \in Keys : hashTable[q] # NoFrame => newDisk[q] = disk[q]
    BY <1>3, <2>1 DEF IInv, TypeOK
  <2> QED
    BY <1>5, <2>1, <2>2, AllocBufExceedsStep
<1> QED
  BY <1>1, <1>4, <1>5

\* unPinPage keeps IInv.
LEMMA PoolUnPinPageStep ==
    ASSUME IInv, NEW f \in Files, NEW p \in Pages, NEW dirty \in BOOLEAN,
           PoolUnPinPage(f, p, dirty)
    PROVE  IInv'
<1>1. CASE UNCHANGED <<bufDescTable, bufPool, hashTable, clockHand, disk, unreported>>
           /\ exc' \in Exceptions
  BY <1>1, UnchangedStep
<1>2. CASE /\ hashTable[<<f, p>>] # NoFrame /\ bufDescTable[hashTable[<<f, p>>]].pinCnt > 0
           /\ bufDescTable[hashTable[<<f, p>>]].pinCnt = 1 /\ hashTable[<<f, p>>] \in unreported
                => dirty
           /\ bufDescTable' = [bufDescTable EXCEPT ![hashTable[<<f, p>>]] = Returned(@, dirty)]
           /\ unreported' = IF dirty THEN unreported \ {hashTable[<<f, p>>]} ELSE unreported
           /\ exc' = "none"
           /\ UNCHANGED <<bufPool, hashTable, clockHand, disk>>
  <2>1. <<f, p>> \in Keys
    BY DEF Keys
  <2>2. PICK i \in Frames : i = hashTable[<<f, p>>] /\ bufDescTable[i] \in BufDesc
                            /\ bufDescTable[i].valid
    BY <1>2, <2>1, HashedFrame
  <2>3. PICK d : d = Returned(bufDescTable[i], dirty)
    OBVIOUS
  <2>4. /\ d \in BufDesc /\ d.file = bufDescTable[i].file /\ d.pageNo = bufDescTable[i].pageNo
        /\ d.valid = bufDescTable[i].valid
        /\ dirty \/ bufDescTable[i].dirty => d.dirty
        /\ bufDescTable[i].pinCnt > 1 => d.pinCnt > 0
    BY <1>2, <2>2, <2>3, ReturnedFacts
  <2>5. bufDescTable' = [bufDescTable EXCEPT ![i] = d]
    BY <1>2, <2>2, <2>3
  <2>6. /\ unreported' \in SUBSET unreported
        /\ \A j \in unreported : j # i => j \in unreported'
        /\ i \in unreported => dirty \/ i \in unreported'
    BY <1>2, <2>2
  <2>7. i \in unreported' => d.pinCnt > 0
    <3>1. bufDescTable[i].pinCnt \in Nat
      BY <2>2 DEF BufDesc
    <3> QED
      BY <1>2, <2>2, <2>4, <3>1
  <2>8. /\ bufPool' = bufPool /\ hashTable' = hashTable /\ clockHand' = clockHand
        /\ disk' = disk /\ exc' \in Exceptions
    BY <1>2 DEF Exceptions
  <2> QED
    BY <2>2, <2>4, <2>5, <2>6, <2>7, <2>8, DescriptorStep
<1> QED
  BY <1>1, <1>2 DEF PoolUnPinPage, Nothing, Exceptions

\* disposePage keeps IInv: a page that is not in the pool leaves the file alone.
LEMMA PoolDisposePageStep ==
    ASSUME IInv, NEW f \in Files, NEW p \in Pages, PoolDisposePage(f, p)
    PROVE  IInv'
<1>1. CASE DisposeBuffered(f, p)
  BY <1>1, DisposeStep
<1>2. CASE ~DisposeBuffered(f, p)
  <2>1. /\ hashTable[<<f, p>>] = NoFrame
        /\ disk' = [disk EXCEPT ![<<f, p>>] = Free]
        /\ exc' \in Exceptions
        /\ bufDescTable' = bufDescTable /\ bufPool' = bufPool /\ hashTable' = hashTable
        /\ clockHand' = clockHand /\ unreported' = unreported
    BY <1>2 DEF PoolDisposePage, Exceptions
  <2>2. /\ bufDescTable' \in [Frames -> BufDesc] /\ bufPool' \in [Frames -> Contents]
        /\ hashTable' \in [Keys -> Frames \cup {NoFrame}] /\ clockHand' \in Frames
        /\ disk' \in [Keys -> Contents \cup {Free}]
        /\ unreported' \subseteq {j \in Frames : bufDescTable'[j].pinCnt > 0}
        /\ \A j \in Frames : /\ bufDescTable'[j].file = bufDescTable[j].file
                             /\ bufDescTable'[j].pageNo = bufDescTable[j].pageNo
                             /\ bufDescTable'[j].valid = bufDescTable[j].valid
                             /\ ~bufDescTable[j].valid => bufDescTable'[j] = Clear
        /\ \A q \in Keys, j \in Frames : hashTable'[q] = j <=> hashTable[q] = j
        /\ exc' \in Exceptions
    BY <2>1 DEF IInv, TypeOK
  <2>3. ASSUME NEW j \in Frames, bufDescTable[j].valid
        PROVE  /\ disk'[KeyOf(j)] # Free
               /\ bufDescTable'[j].dirty \/ j \in unreported' \/ bufPool'[j] = disk'[KeyOf(j)]
    <3>1. NoFrame \notin Frames
      BY NumBufsAssumption DEF NoFrame, Frames
    <3>2. KeyOf(j) \in Keys /\ KeyOf(j) # <<f, p>>
      BY <2>1, <2>3, <3>1, CachedFacts
    <3>3. disk'[KeyOf(j)] = disk[KeyOf(j)]
      BY <2>1, <3>2 DEF IInv, TypeOK
    <3> QED
      BY <2>1, <2>3, <3>3, CachedFacts
  <2>4. {} \in SUBSET Frames
    OBVIOUS
  <2>5. FramesStand({})
    BY <2>2, <2>3, <2>4 DEF FramesStand
  <2> QED
    BY <2>4, <2>5, FramesKept
<1> QED
  BY <1>1, <1>2

\* flushFile keeps IInv, also when it ends the process at an empty frame.
LEMMA PoolFlushFileStep ==
    ASSUME IInv, NEW f \in Files, PoolFlushFile(f)
    PROVE  IInv'
<1>1. CASE exc' = "crash"
  <2>1. PICK stop \in 0 .. NumBufs :
            /\ disk' = DiskAfterFlush({i \in 0 .. (stop - 1) : Holds(i, f)})
            /\ PoolLost
    BY <1>1 DEF PoolFlushFile
  <2>2. PICK S \in SUBSET Frames : S = {i \in 0 .. (stop - 1) : Holds(i, f)}
    <3>1. \A i \in 0 .. (stop - 1) : i \in Frames
      BY NumBufsAssumption DEF Frames
    <3> QED
      BY <3>1
  <2>3. disk' \in [Keys -> Contents \cup {Free}]
    BY <2>1, <2>2, FlushFacts DEF Holds
  <2>4. /\ bufDescTable' \in [Frames -> BufDesc] /\ \A j \in Frames : bufDescTable'[j] = Clear
    BY <2>1, ClearType DEF PoolLost
  <2>5. /\ bufPool' \in [Frames -> Contents]
        /\ hashTable' \in [Keys -> Frames \cup {NoFrame}]
        /\ clockHand' \in Frames /\ exc' \in Exceptions /\ unreported' = {}
    BY <1>1, <2>1, NumBufsAssumption, FreshAssumption DEF PoolLost, Frames, Exceptions
  <2>6. \A q \in Keys, j \in Frames : hashTable'[q] # j
    BY <2>1, NumBufsAssumption DEF PoolLost, Frames, NoFrame
  <2>7. Frames \in SUBSET Frames
    OBVIOUS
  <2>8. FramesStand(Frames)
    BY <2>3, <2>4, <2>5, <2>6, <2>7 DEF FramesStand
  <2> QED
    BY <2>7, <2>8, FramesKept
<1>2. CASE exc' # "crash"
  <2>1. FlushFile(f)
    BY <1>2 DEF PoolFlushFile, FlushFile
  <2> QED
    BY <2>1, FlushFileStep
<1> QED
  BY <1>1, <1>2

\* Every step keeps IInv: one case per operation.
LEMMA PoolNextStep == IInv /\ [PoolNext]_vars => IInv'
<1> SUFFICES ASSUME IInv, [PoolNext]_vars PROVE IInv'
  OBVIOUS
<1>1. CASE UNCHANGED vars
  BY <1>1, UnchangedStep DEF vars, IInv, TypeOK
<1> QED
  BY <1>1, PoolReadPageStep, PoolUnPinPageStep, PoolDisposePageStep, PoolAllocPageStep,
     PoolFlushFileStep, WritePageStep, RestartStep DEF PoolNext

\* The pool of the course project keeps what its operations rely on without
\* checking it: hash table and frames agree, a buffered page exists in its
\* file, and a clean frame has the bytes on disk; its searches that give up
\* early and the end of the process inside flushFile do not break it.
THEOREM PoolInvariance ==
    PoolSpec => [](TypeOK /\ HashMatchesFrames /\ CachedPagesExist /\ CleanFramesMatchDisk)
<1>1. IInv => TypeOK /\ HashMatchesFrames /\ CachedPagesExist /\ CleanFramesMatchDisk
  BY DEF IInv
<1> QED
  BY <1>1, InitStep, PoolNextStep, PTL DEF PoolSpec

-----------------------------------------------------------------------------
\* A search, whether it finds a frame or gives up, leaves pinned frames alone.
LEMMA AllocBufStays ==
    ASSUME IInv, NEW i \in Frames, bufDescTable[i].pinCnt > 0
    PROVE  /\ \A f, p, c, created : AllocBufGives(f, p, c, created) => Stays(i)
           /\ \A newDisk : AllocBufExceeds(newDisk) => Stays(i)
<1>1. ASSUME NEW f, NEW p, NEW c, NEW created, AllocBufGives(f, p, c, created)
      PROVE  Stays(i)
  <2>1. PICK k \in Visits : /\ EndsAt(k) /\ ~GivesUpAt(k)
                            /\ \E newDisk : AllocBufFor(k, f, p, c, newDisk)
    BY <1>1 DEF AllocBufGives
  <2>2. k \in ScanSteps /\ StopsAt(k)
    BY <2>1, FoundInTwoTurns DEF IInv
  <2> QED
    BY <2>1, <2>2, AllocBufForStays
<1>2. ASSUME NEW newDisk, AllocBufExceeds(newDisk) PROVE Stays(i)
  <2>1. PICK k \in Visits : bufDescTable' = Swept(k - 1) /\ bufPool' = bufPool
    BY <1>2 DEF AllocBufExceeds
  <2> QED
    BY <2>1, PinnedIsValid, SweptFacts DEF Stays, KeyOf, IInv
<1> QED
  BY <1>1, <1>2

\* So does unPinPage.
LEMMA PoolUnPinStays ==
    ASSUME IInv, NEW i \in Frames, bufDescTable[i].pinCnt > 0,
           NEW f \in Files, NEW p \in Pages, NEW dirty \in BOOLEAN,
           PoolUnPinPage(f, p, dirty)
    PROVE  Stays(i)
<1>0. bufDescTable[i].valid
  BY PinnedIsValid DEF IInv
<1>1. CASE bufDescTable' = bufDescTable /\ bufPool' = bufPool
  BY <1>0, <1>1 DEF Stays, KeyOf
<1>2. CASE /\ hashTable[<<f, p>>] # NoFrame /\ bufDescTable[hashTable[<<f, p>>]].pinCnt > 0
           /\ bufDescTable' = [bufDescTable EXCEPT ![hashTable[<<f, p>>]] = Returned(@, dirty)]
           /\ bufPool' = bufPool
  <2>1. PICK h \in Frames : h = hashTable[<<f, p>>] /\ bufDescTable[h] \in BufDesc
    BY <1>2, HashedFrame DEF Keys
  <2>2. PICK d : d = Returned(bufDescTable[h], dirty)
    OBVIOUS
  <2>3. /\ d.file = bufDescTable[h].file /\ d.pageNo = bufDescTable[h].pageNo
        /\ d.valid = bufDescTable[h].valid
    BY <1>2, <2>1, <2>2, ReturnedFacts
  <2>4. bufDescTable' = [bufDescTable EXCEPT ![h] = d]
    BY <1>2, <2>1, <2>2
  <2> QED
    BY <1>0, <1>2, <2>3, <2>4 DEF Stays, KeyOf, IInv, TypeOK
<1> QED
  BY <1>1, <1>2 DEF PoolUnPinPage, Nothing

\* disposePage clears one frame, that of the page it names.
LEMMA PoolDisposeStays ==
    ASSUME IInv, NEW i \in Frames, bufDescTable[i].pinCnt > 0,
           NEW f \in Files, NEW p \in Pages, PoolDisposePage(f, p)
    PROVE  Stays(i) \/ PoolDisposePage(bufDescTable[i].file, bufDescTable[i].pageNo)
<1>0. bufDescTable[i].valid
  BY PinnedIsValid DEF IInv
<1>1. CASE DisposeBuffered(f, p)
  <2>1. PICK h \in Frames : h = hashTable[<<f, p>>] /\ KeyOf(h) = <<f, p>>
    BY <1>1, HashedFrame DEF DisposeBuffered, Keys
  <2>2. CASE h = i
    BY <1>1, <2>1, <2>2 DEF PoolDisposePage, KeyOf
  <2>3. CASE h # i
    BY <1>0, <1>1, <2>1, <2>3 DEF DisposeBuffered, Stays, KeyOf, IInv, TypeOK
  <2> QED
    BY <2>2, <2>3
<1>2. CASE ~DisposeBuffered(f, p)
  BY <1>0, <1>2 DEF PoolDisposePage, Stays, KeyOf
<1> QED
  BY <1>1, <1>2

\* flushFile stops at the first pinned frame of its file, and ends the process
\* at an empty one.
LEMMA PoolFlushStays ==
    ASSUME IInv, NEW i \in Frames, bufDescTable[i].pinCnt > 0,
           NEW f \in Files, PoolFlushFile(f)
    PROVE  exc' = "crash" \/ Stays(i)
<1>1. exc' # "crash" => FlushFile(f)
  BY DEF PoolFlushFile, FlushFile
<1> QED
  BY <1>1, FileCallsStay

\* The pointer that readPage or allocPage of the course project returned stays
\* good while the page is pinned, through the calls of everybody else and the
\* ones that fail, until the page is disposed of or the process ends.
THEOREM PoolPinnedStay == PoolSpec => PoolPinnedFramesStay
<1> DEFINE Safe(i) == \/ Restart \/ exc' = "crash"
                      \/ PoolDisposePage(bufDescTable[i].file, bufDescTable[i].pageNo)
                      \/ /\ KeyOf(i)' = KeyOf(i) /\ bufDescTable'[i].valid
                         /\ bufPool'[i] = bufPool[i] \/ \E c \in Contents : WritePage(i, c)
<1>1. ASSUME IInv, [PoolNext]_vars, NEW i \in Frames, bufDescTable[i].pinCnt > 0
      PROVE  Safe(i)
  <2>1. Stays(i) => Safe(i)
    BY DEF Stays
  <2>2. ASSUME NEW f \in Files, NEW p \in Pages, PoolReadPage(f, p) PROVE Safe(i)
    <3>1. ReadHit(f, p) => Stays(i)
      BY <1>1, ReadPageStays DEF ReadPage
    <3>2. UNCHANGED <<bufDescTable, bufPool>> => Stays(i)
      BY <1>1, PinnedIsValid DEF Stays, KeyOf, IInv
    <3> QED
      BY <1>1, <2>1, <2>2, <3>1, <3>2, AllocBufStays DEF PoolReadPage
  <2>3. ASSUME NEW f \in Files, NEW p \in Pages, NEW d \in BOOLEAN, PoolUnPinPage(f, p, d)
        PROVE  Safe(i)
    BY <1>1, <2>1, <2>3, PoolUnPinStays
  <2>4. ASSUME NEW f \in Files, NEW p \in Pages, PoolDisposePage(f, p) PROVE Safe(i)
    BY <1>1, <2>1, <2>4, PoolDisposeStays
  <2>5. ASSUME NEW f \in Files, PoolAllocPage(f) PROVE Safe(i)
    BY <1>1, <2>1, <2>5, AllocBufStays DEF PoolAllocPage
  <2>6. ASSUME NEW f \in Files, PoolFlushFile(f) PROVE Safe(i)
    BY <1>1, <2>1, <2>6, PoolFlushStays
  <2>7. ASSUME NEW h \in Frames, NEW c \in Contents, WritePage(h, c) PROVE Safe(i)
    BY <1>1, <2>7, WritePageStays
  <2>8. CASE UNCHANGED vars
    <3>1. Stays(i)
      BY <1>1, <2>8, PinnedIsValid DEF vars, Stays, KeyOf, IInv
    <3> QED
      BY <2>1, <3>1
  <2> QED
    BY <1>1, <2>2, <2>3, <2>4, <2>5, <2>6, <2>7, <2>8 DEF PoolNext
<1>2. IInv /\ [PoolNext]_vars => [\A i \in PinnedFrames : Safe(i)]_vars
  BY <1>1 DEF PinnedFrames
<1> QED
  BY <1>2, InitStep, PoolNextStep, PTL DEF PoolSpec, PoolPinnedFramesStay

-----------------------------------------------------------------------------
(***************************************************************************)
(* The search ends: the count of pinned frames grows by one at a time and  *)
(* reaches the size of the pool in the second turn if nothing is found.    *)
(***************************************************************************)
\* The visits counted before the k-th.
Counted(k) == {j \in 1 .. (k - 1) : Counts(j)}

\* Their number starts at 0 and grows by at most one a visit.
LEMMA CountGrows ==
    ASSUME NEW k \in Visits
    PROVE  /\ IsFiniteSet(Counted(k)) /\ NumPinned(k) \in Nat
           /\ NumPinned(k) = Cardinality(Counted(k))
           /\ k = 1 => NumPinned(k) = 0
           /\ NumPinned(k + 1) = NumPinned(k) \/ NumPinned(k + 1) = NumPinned(k) + 1
<1>1. k \in Nat \ {0}
  BY NumBufsAssumption DEF Visits
<1>2. IsFiniteSet(1 .. (k - 1))
  BY <1>1, FS_Interval
<1>3. Counted(k) \in SUBSET (1 .. (k - 1))
  BY DEF Counted
<1>4. IsFiniteSet(Counted(k))
  BY <1>2, <1>3, FS_Subset
<1>5. NumPinned(k) = Cardinality(Counted(k)) /\ NumPinned(k + 1) = Cardinality(Counted(k + 1))
  BY DEF NumPinned, Counted
<1>6. Cardinality(Counted(k)) \in Nat
  BY <1>4, FS_CardinalityType
<1>7. k = 1 => Counted(k) = {}
  BY <1>3
<1>8. Counted(k + 1) = Counted(k) \/ Counted(k + 1) = Counted(k) \cup {k}
  <2>1. 1 .. (k + 1 - 1) = (1 .. (k - 1)) \cup {k}
    BY <1>1
  <2> QED
    BY <2>1 DEF Counted
<1>9. k \notin Counted(k)
  BY <1>1, <1>3
<1>10. Cardinality(Counted(k) \cup {k}) = Cardinality(Counted(k)) + 1
  BY <1>4, <1>9, FS_AddElement
<1> QED
  BY <1>4, <1>5, <1>6, <1>7, <1>8, <1>10, FS_EmptySet

\* When nothing is found in two turns, the count has reached the size of the
\* pool at the end of them.
LEMMA CountReached ==
    ASSUME TypeOK, BufferExceeded
    PROVE  NumPinned(2 * NumBufs + 1) >= NumBufs
<1> DEFINE Second == (NumBufs + 1) .. (2 * NumBufs)
<1>1. NumBufs \in Nat \ {0} /\ 2 * NumBufs + 1 \in Visits
  BY NumBufsAssumption DEF Visits
<1>2. ASSUME NEW j \in Second PROVE j \in Counted(2 * NumBufs + 1)
  <2>1. j \in Nat /\ j > NumBufs /\ j \in 1 .. (2 * NumBufs + 1 - 1)
    BY <1>1
  <2>2. HandAt(j) \in Frames
    BY <2>1, HandAtType DEF TypeOK
  <2>3. bufDescTable[HandAt(j)].pinCnt > 0
    BY <2>2, ExceededFacts DEF ExceededWhenAllPinned
  <2>4. Counts(j)
    BY <2>1, <2>3 DEF Counts
  <2>5. \A k \in Visits : j \in 1 .. (k - 1) => j \in Counted(k)
    BY <2>4 DEF Counted
  <2> QED
    BY <1>1, <2>1, <2>5
<1>3. Second \in SUBSET Counted(2 * NumBufs + 1)
  BY <1>2
<1>4. Cardinality(Second) = NumBufs
  BY <1>1, FS_Interval
<1>5. Cardinality(Second) <= Cardinality(Counted(2 * NumBufs + 1))
  BY <1>1, <1>3, CountGrows, FS_Subset
<1>6. NumPinned(2 * NumBufs + 1) = Cardinality(Counted(2 * NumBufs + 1))
      /\ NumPinned(2 * NumBufs + 1) \in Nat
  BY <1>1, CountGrows
<1> HIDE DEF Second
<1> QED
  BY <1>4, <1>5, <1>6

\* A count that has reached the size of the pool was equal to it at some visit.
LEMMA CountMet ==
    ASSUME NumPinned(2 * NumBufs + 1) >= NumBufs
    PROVE  \E k \in Visits : GivesUpAt(k)
<1> DEFINE Reached == {k \in Visits : NumPinned(k) >= NumBufs}
<1>1. NumBufs \in Nat \ {0} /\ 2 * NumBufs + 1 \in Visits
  BY NumBufsAssumption DEF Visits
<1>2. Reached \in SUBSET Nat /\ Reached # {}
  BY <1>1 DEF Visits
<1>3. PICK m \in Reached : \A t \in Reached : m <= t
  <2> HIDE DEF Reached
  <2> QED
    BY <1>2, LeastElement
<1>4. m \in Visits /\ NumPinned(m) >= NumBufs /\ NumPinned(m) \in Nat /\ m # 1
  BY <1>1, <1>3, CountGrows
<1>5. PICK k \in Visits : m = k + 1 /\ k < m
  <2>1. m - 1 \in Visits /\ m = (m - 1) + 1 /\ m - 1 < m
    BY <1>1, <1>4 DEF Visits
  <2> QED
    BY <2>1
<1>6. k \notin Reached
  BY <1>3, <1>4, <1>5 DEF Visits
<1>7. NumPinned(k) \in Nat /\ NumPinned(k) < NumBufs
  BY <1>1, <1>6, CountGrows
<1>8. NumPinned(m) = NumPinned(k) \/ NumPinned(m) = NumPinned(k) + 1
  BY <1>5, CountGrows
<1>9. NumPinned(m) = NumBufs
  BY <1>1, <1>4, <1>7, <1>8
<1> QED
  BY <1>4, <1>9 DEF GivesUpAt

\* allocBuf ends in the state at hand.
LEMMA SearchEnds ==
    ASSUME TypeOK
    PROVE  AllocBufEnds
<1> DEFINE Last == {k \in Visits : GivesUpAt(k) \/ UsableAt(k)}
<1>1. Last # {}
  <2>1. CASE BufferExceeded
    BY <2>1, CountReached, CountMet
  <2>2. CASE ~BufferExceeded
    <3>1. PICK k \in ScanSteps : UsableAt(k)
      BY <2>2 DEF BufferExceeded
    <3>2. k \in Visits
      BY NumBufsAssumption DEF ScanSteps, Visits
    <3> QED
      BY <3>1, <3>2
  <2> QED
    BY <2>1, <2>2
<1>2. Last \in SUBSET Nat
  BY NumBufsAssumption DEF Visits
<1>3. PICK m \in Last : \A t \in Last : m <= t
  <2> HIDE DEF Last
  <2> QED
    BY <1>1, <1>2, LeastElement
<1>4. ASSUME NEW j \in 1 .. (m - 1) PROVE ~GivesUpAt(j) /\ ~UsableAt(j)
  <2>1. j \in Visits /\ j < m
    BY <1>3, NumBufsAssumption DEF Visits
  <2> QED
    BY <1>2, <1>3, <2>1
<1> QED
  BY <1>3, <1>4 DEF AllocBufEnds, EndsAt

\* The loop of allocBuf has no bound in the code; it ends all the same after
\* two turns and one step at most, whatever the size of the pool.
THEOREM SearchesEnd == PoolSpec => []AllocBufEnds
<1>1. TypeOK => AllocBufEnds
  BY SearchEnds
<1> QED
  BY <1>1, PoolInvariance, PTL

-----------------------------------------------------------------------------
\* The hand is on a frame once in each turn.
LEMMA OnceATurn ==
    ASSUME clockHand \in Frames, NEW j \in ScanSteps, NEW k \in ScanSteps,
           HandAt(j) = HandAt(k), j > NumBufs <=> k > NumBufs
    PROVE  j = k
<1>1. NumBufs \in Nat \ {0} /\ clockHand \in 0 .. (NumBufs - 1)
  BY NumBufsAssumption DEF Frames
<1>2. /\ j \in 0 .. (2 * NumBufs) /\ k \in 0 .. (2 * NumBufs) /\ j > 0 /\ k > 0
  BY <1>1 DEF ScanSteps
<1>3. PICK a \in Int : a = HandAt(j) /\ a = HandAt(k)
  BY <1>2, HandAtType, NumBufsAssumption DEF Frames
<1>4. a = IF clockHand + j < NumBufs THEN clockHand + j
          ELSE IF clockHand + j < 2 * NumBufs THEN clockHand + j - NumBufs
               ELSE clockHand + j - 2 * NumBufs
  BY <1>2, <1>3, HandPosition
<1>5. a = IF clockHand + k < NumBufs THEN clockHand + k
          ELSE IF clockHand + k < 2 * NumBufs THEN clockHand + k - NumBufs
               ELSE clockHand + k - 2 * NumBufs
  BY <1>2, <1>3, HandPosition
<1> QED
  BY <1>1, <1>2, <1>4, <1>5

\* No pinned frame is counted more than twice.
LEMMA CountedTwiceAtMost ==
    ASSUME TypeOK, NEW k \in Visits
    PROVE  NumPinned(k) <= 2 * Cardinality(PinnedFrames)
<1> DEFINE Turn(j) == IF j > NumBufs THEN 2 ELSE 1
           at == [j \in Counted(k) |-> <<HandAt(j), Turn(j)>>]
           Target == PinnedFrames \X {1, 2}
<1>1. NumBufs \in Nat \ {0} /\ clockHand \in Frames
  BY NumBufsAssumption DEF TypeOK
<1>2. ASSUME NEW j \in Counted(k)
      PROVE  j \in ScanSteps /\ HandAt(j) \in PinnedFrames
  <2>1. j \in ScanSteps /\ j \in Nat /\ Counts(j)
    BY <1>1 DEF Counted, Visits, ScanSteps
  <2> QED
    BY <1>1, <2>1, HandAtType DEF Counts, PinnedFrames
<1>3. at \in [Counted(k) -> Target]
  <2>1. \A j \in Counted(k) : <<HandAt(j), Turn(j)>> \in Target
    BY <1>2
  <2> HIDE DEF Target, Turn
  <2> QED
    BY <2>1
<1>4. \A i, j \in Counted(k) : at[i] = at[j] => i = j
  BY <1>1, <1>2, OnceATurn
<1>5. at \in Injection(Counted(k), Target)
  BY <1>3, <1>4 DEF Injection, IsInjective
<1>6. IsFiniteSet(PinnedFrames) /\ Cardinality(PinnedFrames) \in Nat
  <2>1. IsFiniteSet(Frames)
    BY <1>1, FS_Interval DEF Frames
  <2>2. PinnedFrames \in SUBSET Frames
    BY DEF PinnedFrames
  <2> QED
    BY <2>1, <2>2, FS_Subset, FS_CardinalityType
<1>7. IsFiniteSet({1, 2}) /\ Cardinality({1, 2}) = 2
  <2>1. IsFiniteSet({1}) /\ Cardinality({1}) = 1
    BY FS_Singleton, Zenon
  <2>2. 2 \notin {1} /\ {1, 2} = {1} \cup {2}
    OBVIOUS
  <2>3. IsFiniteSet({1} \cup {2}) /\ Cardinality({1} \cup {2}) = 1 + 1
    BY <2>1, <2>2, FS_AddElement
  <2> QED
    BY <2>2, <2>3
<1>8. IsFiniteSet(Target) /\ Cardinality(Target) = Cardinality(PinnedFrames) * 2
  BY <1>6, <1>7, FS_Product
<1> HIDE DEF at, Target, Turn
<1>9. Cardinality(Counted(k)) <= Cardinality(Target)
  BY <1>5, <1>8, FS_Injection
<1> QED
  BY <1>6, <1>8, <1>9, CountGrows

\* allocBuf throws when every frame is pinned, and gives up while a frame is
\* usable only in a pool at least half of which is pinned.
THEOREM GivesUpHalfPinned == PoolSpec => []ExceededNeedsHalfPinned
<1>1. ASSUME TypeOK, PinnedFrames = Frames PROVE WouldExceed
  <2>1. PICK k \in Visits : EndsAt(k)
    BY <1>1, SearchEnds DEF AllocBufEnds
  <2>2. HandAt(k) \in Frames
    BY <1>1, HandAtType, NumBufsAssumption DEF Visits, TypeOK
  <2>3. bufDescTable[HandAt(k)].pinCnt > 0
    BY <1>1, <2>2 DEF PinnedFrames
  <2>4. ~UsableAt(k)
    BY <1>1, <2>2, <2>3, PinnedIsValid DEF UsableAt
  <2> QED
    BY <2>1, <2>4 DEF WouldExceed, EndsAt
<1>2. ASSUME TypeOK, WouldExceed PROVE 2 * Cardinality(PinnedFrames) >= NumBufs
  <2>1. PICK k \in Visits : NumPinned(k) = NumBufs
    BY <1>2 DEF WouldExceed, GivesUpAt
  <2>2. NumBufs <= 2 * Cardinality(PinnedFrames)
    BY <1>2, <2>1, CountedTwiceAtMost
  <2>3. Cardinality(PinnedFrames) \in Nat
    <3>1. IsFiniteSet(Frames)
      BY NumBufsAssumption, FS_Interval DEF Frames
    <3>2. PinnedFrames \in SUBSET Frames
      BY DEF PinnedFrames
    <3> QED
      BY <3>1, <3>2, FS_Subset, FS_CardinalityType
  <2> QED
    BY <2>2, <2>3, NumBufsAssumption
<1>3. TypeOK => ExceededNeedsHalfPinned
  BY <1>1, <1>2 DEF ExceededNeedsHalfPinned
<1> QED
  BY <1>3, PoolInvariance, PTL

=============================================================================
