--------------------------- MODULE FileScanProofs ---------------------------
(***************************************************************************)
(* Proofs about FileScan, for every pool, every file and whatever the rest *)
(* of the program does to the pool and to the file between two calls of    *)
(* the scan.                                                               *)
(*                                                                         *)
(* The file is changed behind the pool's back, so a buffered page need not *)
(* exist and a clean frame need not have the bytes on disk: of IInv of     *)
(* BufMgrProofs only the types and the agreement of hash table and frames  *)
(* are left here.                                                          *)
(***************************************************************************)
EXTENDS FileScan, BufMgrProofs, FiniteSetTheorems, TLAPS

PoolInv ==
    /\ TypeOK
    /\ HashMatchesFrames
    /\ unreported = {}

\* Frame j keeps its page, its pins and its bytes.
FrameStays(j) ==
    /\ bufDescTable'[j].file = bufDescTable[j].file
    /\ bufDescTable'[j].pageNo = bufDescTable[j].pageNo
    /\ bufDescTable'[j].pinCnt = bufDescTable[j].pinCnt
    /\ bufDescTable'[j].valid = bufDescTable[j].valid
    /\ bufPool'[j] = bufPool[j]

\* On disk only bytes of buffered pages have replaced others.
OnlyWritesBack ==
    \A q \in Keys :
        \/ disk'[q] = disk[q]
        \/ \E i \in Frames : /\ bufDescTable[i].valid /\ KeyOf(i) = q
                             /\ disk'[q] = bufPool[i]

-----------------------------------------------------------------------------
(***************************************************************************)
(* The calls of the pool                                                   *)
(***************************************************************************)
\* What allocBuf does to the hash table and the disk when it takes frame i.
LEMMA EvictView ==
    ASSUME PoolInv, NEW i \in Frames
    PROVE  /\ HashWithout(i) \in [Keys -> Frames \cup {NoFrame}]
           /\ \A q \in Keys, j \in Frames :
                HashWithout(i)[q] = j <=> j # i /\ hashTable[q] = j
           /\ DiskAfterWriteBack(i) \in [Keys -> Contents \cup {Free}]
           /\ \A q \in Keys :
                \/ DiskAfterWriteBack(i)[q] = disk[q]
                \/ /\ bufDescTable[i].valid /\ KeyOf(i) = q
                   /\ DiskAfterWriteBack(i)[q] = bufPool[i]
<1>1. NoFrame \notin Frames
  BY NumBufsAssumption DEF NoFrame, Frames
<1>2. /\ hashTable \in [Keys -> Frames \cup {NoFrame}]
      /\ disk \in [Keys -> Contents \cup {Free}]
      /\ bufPool[i] \in Contents
  BY DEF PoolInv, TypeOK
<1>3. \A q \in Keys, j \in Frames :
        hashTable[q] = j <=> bufDescTable[j].valid /\ KeyOf(j) = q
  BY DEF PoolInv, HashMatchesFrames
<1>4. CASE ~bufDescTable[i].valid
  <2>1. HashWithout(i) = hashTable
    BY <1>4 DEF HashWithout
  <2>2. DiskAfterWriteBack(i) = disk
    BY <1>4 DEF DiskAfterWriteBack, PoolInv, TypeOK, Clear
  <2> QED
    BY <1>2, <1>3, <1>4, <2>1, <2>2
<1>5. CASE bufDescTable[i].valid
  <2>1. KeyOf(i) \in Keys /\ hashTable[KeyOf(i)] = i
    BY <1>3, <1>5 DEF PoolInv, TypeOK
  <2>2. HashWithout(i) = [hashTable EXCEPT ![KeyOf(i)] = NoFrame]
    BY <1>5 DEF HashWithout, KeyOf
  <2>3. \/ DiskAfterWriteBack(i) = [disk EXCEPT ![KeyOf(i)] = bufPool[i]]
        \/ DiskAfterWriteBack(i) = disk
    BY DEF DiskAfterWriteBack, KeyOf
  <2>4. /\ HashWithout(i) \in [Keys -> Frames \cup {NoFrame}]
        /\ \A q \in Keys, j \in Frames :
                HashWithout(i)[q] = j <=> j # i /\ hashTable[q] = j
    BY <1>1, <1>2, <1>3, <1>5, <2>1, <2>2
  <2>5. /\ DiskAfterWriteBack(i) \in [Keys -> Contents \cup {Free}]
        /\ \A q \in Keys : \/ DiskAfterWriteBack(i)[q] = disk[q]
                           \/ KeyOf(i) = q /\ DiskAfterWriteBack(i)[q] = bufPool[i]
    BY <1>2, <2>1, <2>3
  <2> QED
    BY <1>5, <2>4, <2>5
<1> QED
  BY <1>4, <1>5

\* What a step must keep for PoolInv to hold: the frames of S are cleared and
\* leave the hash table, the others keep their page.
LEMMA PoolKept ==
    ASSUME PoolInv, NEW S \in SUBSET Frames,
           bufDescTable' \in [Frames -> BufDesc],
           bufPool' \in [Frames -> Contents],
           hashTable' \in [Keys -> Frames \cup {NoFrame}],
           clockHand' \in Frames,
           disk' \in [Keys -> Contents \cup {Free}],
           unreported' = {}, exc' \in Exceptions,
           \A j \in S : bufDescTable'[j] = Clear,
           \A j \in Frames \ S :
                /\ bufDescTable'[j].file = bufDescTable[j].file
                /\ bufDescTable'[j].pageNo = bufDescTable[j].pageNo
                /\ bufDescTable'[j].valid = bufDescTable[j].valid
                /\ ~bufDescTable[j].valid => bufDescTable'[j] = Clear,
           \A q \in Keys, j \in Frames :
                hashTable'[q] = j <=> j \notin S /\ hashTable[q] = j
    PROVE  PoolInv'
<1>1. \A j \in S : ~bufDescTable'[j].valid
  BY DEF Clear
<1>2. \A j \in Frames \ S : KeyOf(j)' = KeyOf(j)
  BY DEF KeyOf
<1>3. ASSUME NEW j \in Frames
      PROVE  IF bufDescTable'[j].valid THEN KeyOf(j)' \in Keys ELSE bufDescTable'[j] = Clear
  BY <1>1, <1>2 DEF PoolInv, TypeOK, KeyOf
<1>4. TypeOK'
  BY <1>3 DEF TypeOK, KeyOf
<1>5. HashMatchesFrames'
  BY <1>1, <1>2 DEF PoolInv, HashMatchesFrames, KeyOf
<1> QED
  BY <1>4, <1>5 DEF PoolInv

\* readPage of a page in the pool pins its frame once more.
LEMMA HitEffect ==
    ASSUME PoolInv, NEW f \in Files, NEW p \in Pages, ReadHit(f, p)
    PROVE  /\ PoolInv' /\ disk' = disk /\ exc' = "none"
           /\ \E i \in Frames :
                /\ hashTable'[<<f, p>>] = i /\ hashTable[<<f, p>>] = i
                /\ bufDescTable[i].valid
                /\ bufDescTable[i].file = f /\ bufDescTable[i].pageNo = p
                /\ bufDescTable'[i].valid
                /\ bufDescTable'[i].file = f /\ bufDescTable'[i].pageNo = p
                /\ bufDescTable'[i].pinCnt = bufDescTable[i].pinCnt + 1
                /\ bufPool'[i] = bufPool[i]
                /\ \A j \in Frames \ {i} : FrameStays(j)
<1>1. <<f, p>> \in Keys
  BY DEF Keys
<1>2. PICK i \in Frames : /\ i = hashTable[<<f, p>>] /\ bufDescTable[i] \in BufDesc
                          /\ bufDescTable[i].valid
                          /\ bufDescTable[i].file = f /\ bufDescTable[i].pageNo = p
  BY <1>1 DEF ReadHit, PoolInv, TypeOK, HashMatchesFrames, KeyOf
<1>3. PICK d : d = Referenced(bufDescTable[i])
  OBVIOUS
<1>4. /\ d \in BufDesc /\ d.file = f /\ d.pageNo = p /\ d.valid
      /\ d.valid = bufDescTable[i].valid
  BY <1>2, <1>3, ReferencedFacts
<1>5. d.pinCnt = bufDescTable[i].pinCnt + 1
  <2>1. PICK e \in BufDesc : e = bufDescTable[i]
    BY <1>2
  <2>2. d = [e EXCEPT !.refbit = TRUE, !.pinCnt = e.pinCnt + 1]
    BY <1>3, <2>1 DEF Referenced
  <2> QED
    BY <2>1, <2>2 DEF BufDesc
<1>6. /\ bufDescTable' = [bufDescTable EXCEPT ![i] = d]
      /\ bufPool' = bufPool /\ hashTable' = hashTable /\ clockHand' = clockHand
      /\ disk' = disk /\ unreported' = unreported /\ exc' = "none"
  BY <1>2, <1>3 DEF ReadHit
<1>7. /\ bufDescTable' \in [Frames -> BufDesc] /\ bufDescTable'[i] = d
      /\ \A j \in Frames \ {i} : bufDescTable'[j] = bufDescTable[j]
  BY <1>4, <1>6 DEF PoolInv, TypeOK
<1>8. \A j \in Frames \ {i} : FrameStays(j)
  BY <1>6, <1>7 DEF FrameStays
<1>9. PoolInv'
  <2>1. \A j \in Frames : /\ bufDescTable'[j].file = bufDescTable[j].file
                          /\ bufDescTable'[j].pageNo = bufDescTable[j].pageNo
                          /\ bufDescTable'[j].valid = bufDescTable[j].valid
                          /\ ~bufDescTable[j].valid => bufDescTable'[j] = Clear
    <3>1. /\ bufDescTable'[i].file = bufDescTable[i].file
          /\ bufDescTable'[i].pageNo = bufDescTable[i].pageNo
          /\ bufDescTable'[i].valid = bufDescTable[i].valid
      BY <1>2, <1>4, <1>7
    <3> QED
      BY <1>2, <1>7, <3>1 DEF PoolInv, TypeOK
  <2>2. /\ bufPool' \in [Frames -> Contents] /\ hashTable' \in [Keys -> Frames \cup {NoFrame}]
        /\ clockHand' \in Frames /\ disk' \in [Keys -> Contents \cup {Free}]
        /\ unreported' = {} /\ exc' \in Exceptions
        /\ \A q \in Keys, j \in Frames : hashTable'[q] = j <=> j \notin {} /\ hashTable[q] = j
    BY <1>6 DEF PoolInv, TypeOK, Exceptions
  <2>3. {} \in SUBSET Frames
    OBVIOUS
  <2> QED
    BY <1>7, <2>1, <2>2, <2>3, PoolKept
<1> QED
  BY <1>2, <1>4, <1>5, <1>6, <1>7, <1>8, <1>9

\* The frames that are swept over and not taken.
LEMMA SweptStays ==
    ASSUME PoolInv, NEW k, NEW i, NEW d \in BufDesc, NEW c \in Contents,
           i \in Frames,
           bufDescTable' = [Swept(k) EXCEPT ![i] = d],
           bufPool' = [bufPool EXCEPT ![i] = c] \/ bufPool' = bufPool
    PROVE  /\ bufDescTable' \in [Frames -> BufDesc]
           /\ bufPool' \in [Frames -> Contents]
           /\ bufDescTable'[i] = d
           /\ \A j \in Frames \ {i} :
                /\ FrameStays(j)
                /\ bufDescTable[j] = Clear => bufDescTable'[j] = Clear
<1>1. /\ bufDescTable' \in [Frames -> BufDesc]
      /\ bufDescTable'[i] = d
      /\ \A j \in Frames \ {i} : bufDescTable'[j] = Swept(k)[j]
  BY SweptFacts DEF PoolInv
<1>2. \A j \in Frames \ {i} :
            /\ bufDescTable'[j].file = bufDescTable[j].file
            /\ bufDescTable'[j].pageNo = bufDescTable[j].pageNo
            /\ bufDescTable'[j].pinCnt = bufDescTable[j].pinCnt
            /\ bufDescTable'[j].valid = bufDescTable[j].valid
            /\ bufDescTable[j] = Clear => bufDescTable'[j] = Clear
  BY <1>1, SweptFacts DEF PoolInv
<1>3. bufPool' \in [Frames -> Contents] /\ \A j \in Frames \ {i} : bufPool'[j] = bufPool[j]
  BY DEF PoolInv, TypeOK
<1> QED
  BY <1>1, <1>2, <1>3 DEF FrameStays

\* readPage of a page that is not in the pool gives it an unpinned frame.
LEMMA MissEffect ==
    ASSUME PoolInv, NEW f \in Files, NEW p \in Pages, ReadMiss(f, p)
    PROVE  /\ PoolInv' /\ OnlyWritesBack /\ exc' = "none"
           /\ disk'[<<f, p>>] # Free
           /\ \E i \in Frames :
                /\ hashTable'[<<f, p>>] = i
                /\ bufDescTable[i].pinCnt = 0
                /\ bufDescTable'[i] = Set(f, p)
                /\ bufPool'[i] = disk'[<<f, p>>]
                /\ \A j \in Frames \ {i} : FrameStays(j)
<1>0. <<f, p>> \in Keys /\ hashTable[<<f, p>>] = NoFrame /\ NoFrame \notin Frames
  BY NumBufsAssumption DEF Keys, ReadMiss, NoFrame, Frames
<1>1. PICK k \in ScanSteps :
        /\ StopsAt(k)
        /\ DiskAfterWriteBack(HandAt(k))[<<f, p>>] # Free
        /\ AllocBufFor(k, f, p, DiskAfterWriteBack(HandAt(k))[<<f, p>>], DiskAfterWriteBack(HandAt(k)))
  BY DEF ReadMiss
<1>2. PICK i \in Frames : i = HandAt(k) /\ bufDescTable[i].pinCnt = 0
  BY <1>1, VictimFacts DEF PoolInv
<1>3. PICK found : found = DiskAfterWriteBack(i)
  OBVIOUS
<1>4. PICK c \in Contents : c = found[<<f, p>>] /\ c # Free
  BY <1>0, <1>1, <1>2, <1>3, EvictView, FreeAssumption
<1>5. /\ bufDescTable' = [Swept(k) EXCEPT ![i] = Set(f, p)]
      /\ bufPool' = [bufPool EXCEPT ![i] = c]
      /\ hashTable' = [HashWithout(i) EXCEPT ![<<f, p>>] = i]
      /\ clockHand' = i /\ disk' = found /\ exc' = "none" /\ unreported' = unreported
  BY <1>1, <1>2, <1>3, <1>4 DEF AllocBufFor
<1>6. PICK d \in BufDesc : d = Set(f, p)
  BY SetType
<1>7. /\ bufDescTable' \in [Frames -> BufDesc] /\ bufPool' \in [Frames -> Contents]
      /\ bufDescTable'[i] = Set(f, p)
      /\ \A j \in Frames \ {i} : /\ FrameStays(j)
                                 /\ bufDescTable[j] = Clear => bufDescTable'[j] = Clear
  BY <1>5, <1>6, SweptStays
<1>8. bufPool'[i] = c
  BY <1>5 DEF PoolInv, TypeOK
<1>9. /\ hashTable' \in [Keys -> Frames \cup {NoFrame}]
      /\ hashTable'[<<f, p>>] = i
      /\ \A q \in Keys \ {<<f, p>>}, j \in Frames :
            hashTable'[q] = j <=> j # i /\ hashTable[q] = j
  BY <1>0, <1>5, EvictView
<1>10. disk' \in [Keys -> Contents \cup {Free}] /\ OnlyWritesBack
  BY <1>3, <1>5, EvictView DEF OnlyWritesBack
<1>11. bufDescTable'[i].valid /\ KeyOf(i)' = <<f, p>> /\ bufDescTable'[i] # Clear
  BY <1>7 DEF Set, KeyOf, Clear
<1>12. \A j \in Frames \ {i} : /\ KeyOf(j)' = KeyOf(j)
                               /\ bufDescTable'[j].valid = bufDescTable[j].valid
  BY <1>7 DEF KeyOf, FrameStays
<1>13. TypeOK'
  <2>1. \A j \in Frames : IF bufDescTable'[j].valid
                          THEN KeyOf(j)' \in Keys ELSE bufDescTable'[j] = Clear
    BY <1>0, <1>7, <1>11, <1>12 DEF PoolInv, TypeOK
  <2>2. unreported' = {} /\ clockHand' \in Frames /\ exc' \in Exceptions
    BY <1>5 DEF PoolInv, Exceptions
  <2> QED
    BY <1>7, <1>9, <1>10, <2>1, <2>2 DEF TypeOK, KeyOf
<1>14. HashMatchesFrames'
  <2>1. \A q \in Keys, j \in Frames :
            hashTable[q] = j <=> bufDescTable[j].valid /\ KeyOf(j) = q
    BY DEF PoolInv, HashMatchesFrames
  <2>2. \A q \in Keys, j \in Frames :
            hashTable'[q] = j <=> bufDescTable'[j].valid /\ KeyOf(j)' = q
    BY <1>0, <1>9, <1>11, <1>12, <2>1
  <2> QED
    BY <2>2 DEF HashMatchesFrames, KeyOf
<1> QED
  BY <1>2, <1>4, <1>5, <1>7, <1>8, <1>9, <1>10, <1>13, <1>14 DEF PoolInv

\* readPage of a page that does not exist empties an unpinned frame.
LEMMA InvalidEffect ==
    ASSUME PoolInv, NEW f \in Files, NEW p \in Pages, ReadInvalid(f, p)
    PROVE  /\ PoolInv' /\ OnlyWritesBack /\ exc' = "InvalidPage"
           /\ disk'[<<f, p>>] = Free
           /\ \E i \in Frames :
                /\ bufDescTable[i].pinCnt = 0
                /\ bufDescTable'[i] = Clear
                /\ \A j \in Frames \ {i} : FrameStays(j)
<1>1. PICK k \in ScanSteps :
        /\ StopsAt(k)
        /\ DiskAfterWriteBack(HandAt(k))[<<f, p>>] = Free
        /\ bufDescTable' = [Swept(k) EXCEPT ![HandAt(k)] = Clear]
        /\ hashTable' = HashWithout(HandAt(k))
        /\ clockHand' = HandAt(k)
        /\ disk' = DiskAfterWriteBack(HandAt(k))
        /\ exc' = "InvalidPage"
        /\ bufPool' = bufPool /\ unreported' = unreported
  BY DEF ReadInvalid
<1>2. PICK i \in Frames : i = HandAt(k) /\ bufDescTable[i].pinCnt = 0
  BY <1>1, VictimFacts DEF PoolInv
<1>3. PICK d \in BufDesc : d = Clear
  BY ClearType
<1>4. /\ bufDescTable' \in [Frames -> BufDesc] /\ bufPool' \in [Frames -> Contents]
      /\ bufDescTable'[i] = Clear
      /\ \A j \in Frames \ {i} : /\ FrameStays(j)
                                 /\ bufDescTable[j] = Clear => bufDescTable'[j] = Clear
  BY <1>1, <1>2, <1>3, FreshAssumption, SweptStays
<1>5. /\ hashTable' \in [Keys -> Frames \cup {NoFrame}]
      /\ \A q \in Keys, j \in Frames : hashTable'[q] = j <=> j \notin {i} /\ hashTable[q] = j
      /\ disk' \in [Keys -> Contents \cup {Free}]
      /\ OnlyWritesBack
  BY <1>1, <1>2, EvictView DEF OnlyWritesBack
<1>6. PoolInv'
  <2>1. \A j \in Frames \ {i} : /\ bufDescTable'[j].file = bufDescTable[j].file
                                /\ bufDescTable'[j].pageNo = bufDescTable[j].pageNo
                                /\ bufDescTable'[j].valid = bufDescTable[j].valid
                                /\ ~bufDescTable[j].valid => bufDescTable'[j] = Clear
    BY <1>4 DEF FrameStays, PoolInv, TypeOK
  <2>2. clockHand' \in Frames /\ exc' \in Exceptions /\ unreported' = {} /\ {i} \in SUBSET Frames
    BY <1>1, <1>2 DEF PoolInv, Exceptions
  <2>3. \A j \in {i} : bufDescTable'[j] = Clear
    BY <1>4
  <2> QED
    BY <1>4, <1>5, <2>1, <2>2, <2>3, PoolKept
<1> QED
  BY <1>1, <1>2, <1>4, <1>5, <1>6

\* readPage that finds every frame pinned changes refbits only.
LEMMA FailEffect ==
    ASSUME PoolInv, AllocBufFails
    PROVE  /\ PoolInv' /\ disk' = disk /\ exc' = "BufferExceeded"
           /\ \A j \in Frames : FrameStays(j)
<1>1. /\ bufDescTable' = Swept(2 * NumBufs)
      /\ clockHand' = HandAt(2 * NumBufs) /\ exc' = "BufferExceeded"
      /\ bufPool' = bufPool /\ hashTable' = hashTable
      /\ disk' = disk /\ unreported' = unreported
  BY DEF AllocBufFails
<1>2. /\ bufDescTable' \in [Frames -> BufDesc]
      /\ \A j \in Frames :
            /\ FrameStays(j)
            /\ bufDescTable[j] = Clear => bufDescTable'[j] = Clear
  BY <1>1, SweptFacts DEF PoolInv, FrameStays
<1>3. clockHand' \in Frames
  <2>1. 2 * NumBufs \in Nat
    BY NumBufsAssumption
  <2> QED
    BY <1>1, <2>1, HandAtType DEF PoolInv, TypeOK
<1>4. \A j \in Frames : /\ bufDescTable'[j].file = bufDescTable[j].file
                        /\ bufDescTable'[j].pageNo = bufDescTable[j].pageNo
                        /\ bufDescTable'[j].valid = bufDescTable[j].valid
                        /\ ~bufDescTable[j].valid => bufDescTable'[j] = Clear
  BY <1>2 DEF FrameStays, PoolInv, TypeOK
<1>5. /\ bufPool' \in [Frames -> Contents] /\ hashTable' \in [Keys -> Frames \cup {NoFrame}]
      /\ disk' \in [Keys -> Contents \cup {Free}] /\ exc' \in Exceptions /\ unreported' = {}
      /\ \A q \in Keys, j \in Frames : hashTable'[q] = j <=> j \notin {} /\ hashTable[q] = j
  BY <1>1 DEF PoolInv, TypeOK, Exceptions
<1>6. {} \in SUBSET Frames
  OBVIOUS
<1>7. PoolInv'
  BY <1>2, <1>3, <1>4, <1>5, <1>6, PoolKept
<1> QED
  BY <1>1, <1>2, <1>7

\* A pin is taken from frame i, of page p of f, if it has one.
TakesPin(i, f, p) ==
    /\ hashTable[<<f, p>>] = i
    /\ bufDescTable[i].valid
    /\ bufDescTable[i].file = f /\ bufDescTable[i].pageNo = p
    /\ bufDescTable'[i].valid
    /\ bufDescTable'[i].file = f /\ bufDescTable'[i].pageNo = p
    /\ bufDescTable[i].pinCnt \in Nat
    /\ bufDescTable[i].pinCnt = 0 => bufDescTable'[i].pinCnt = 0
    /\ bufDescTable[i].pinCnt # 0 =>
            bufDescTable'[i].pinCnt = bufDescTable[i].pinCnt - 1
    /\ bufPool'[i] = bufPool[i]
    /\ \A j \in Frames \ {i} : FrameStays(j)

\* unPinPage takes a pin from the frame of its page, if it has one.
LEMMA UnPinEffect ==
    ASSUME PoolInv, NEW f \in Files, NEW p \in Pages, NEW b \in BOOLEAN,
           UnPinBuffered(f, p, b)
    PROVE  /\ PoolInv' /\ disk' = disk
           /\ \E i \in Frames : TakesPin(i, f, p)
<1>1. <<f, p>> \in Keys
  BY DEF Keys
<1>2. PICK i \in Frames : /\ i = hashTable[<<f, p>>] /\ bufDescTable[i] \in BufDesc
                          /\ bufDescTable[i].valid
                          /\ bufDescTable[i].file = f /\ bufDescTable[i].pageNo = p
  BY <1>1 DEF UnPinBuffered, PoolInv, TypeOK, HashMatchesFrames, KeyOf
<1>3. PICK m : m = Marked(bufDescTable[i], b)
  OBVIOUS
<1>4. /\ m \in BufDesc
      /\ m.file = f /\ m.pageNo = p
      /\ m.pinCnt = bufDescTable[i].pinCnt /\ m.valid = bufDescTable[i].valid
  <2>1. /\ m \in BufDesc
        /\ m.file = bufDescTable[i].file /\ m.pageNo = bufDescTable[i].pageNo
        /\ m.pinCnt = bufDescTable[i].pinCnt /\ m.valid = bufDescTable[i].valid
    <3>1. bufDescTable[i] \in BufDesc
      BY <1>2
    <3> QED
      BY <1>3, <3>1, MarkedFacts
  <2> QED
    BY <1>2, <2>1
<1>5. PICK d : d = Unpinned(m)
  OBVIOUS
<1>6. d \in BufDesc /\ d.file = f /\ d.pageNo = p /\ d.valid = m.valid
  BY <1>4, <1>5, UnpinnedFacts
<1>7. d.pinCnt = IF m.pinCnt = 0 THEN 0 ELSE m.pinCnt - 1
  BY <1>4, <1>5 DEF Unpinned, BufDesc
<1>8. /\ bufDescTable' = [bufDescTable EXCEPT ![i] = d]
      /\ bufPool' = bufPool /\ hashTable' = hashTable /\ clockHand' = clockHand
      /\ disk' = disk /\ exc' \in Exceptions
      /\ unreported' = IF b THEN unreported \ {i} ELSE unreported
  BY <1>2, <1>3, <1>5 DEF UnPinBuffered, Exceptions
<1>9. /\ bufDescTable' \in [Frames -> BufDesc] /\ bufDescTable'[i] = d
      /\ \A j \in Frames \ {i} : bufDescTable'[j] = bufDescTable[j]
  BY <1>6, <1>8 DEF PoolInv, TypeOK
<1>10. \A j \in Frames \ {i} : FrameStays(j)
  BY <1>8, <1>9 DEF FrameStays
<1>11. PoolInv'
  <2>1. bufDescTable'[i].valid = bufDescTable[i].valid
    BY <1>4, <1>6, <1>9
  <2>2. \A j \in Frames : /\ bufDescTable'[j].file = bufDescTable[j].file
                          /\ bufDescTable'[j].pageNo = bufDescTable[j].pageNo
                          /\ bufDescTable'[j].valid = bufDescTable[j].valid
                          /\ ~bufDescTable[j].valid => bufDescTable'[j] = Clear
    BY <1>2, <1>6, <1>9, <2>1 DEF PoolInv, TypeOK
  <2>3. /\ bufPool' \in [Frames -> Contents] /\ hashTable' \in [Keys -> Frames \cup {NoFrame}]
        /\ clockHand' \in Frames /\ disk' \in [Keys -> Contents \cup {Free}]
        /\ unreported' = {} /\ exc' \in Exceptions
        /\ \A q \in Keys, j \in Frames : hashTable'[q] = j <=> j \notin {} /\ hashTable[q] = j
    BY <1>8 DEF PoolInv, TypeOK
  <2>4. {} \in SUBSET Frames
    OBVIOUS
  <2> QED
    BY <1>9, <2>2, <2>3, <2>4, PoolKept
<1>12. bufDescTable'[i].valid
  BY <1>2, <1>4, <1>6, <1>9
<1>13. bufDescTable[i].pinCnt \in Nat
  BY <1>2 DEF BufDesc
<1>14. bufPool'[i] = bufPool[i] /\ disk' = disk
  BY <1>8
<1> QED
  BY <1>2, <1>4, <1>6, <1>7, <1>9, <1>10, <1>11, <1>12, <1>13, <1>14 DEF TakesPin

\* flushFile of a file without pinned pages empties its frames and leaves the
\* others alone.
LEMMA FlushEffect ==
    ASSUME PoolInv, NEW f \in Files, FlushFile(f),
           \A i \in Frames : bufDescTable[i].file = f => bufDescTable[i].pinCnt = 0
    PROVE  /\ PoolInv' /\ exc' = "none"
           /\ \A j \in Frames : /\ bufDescTable'[j].file # f
                                /\ bufDescTable[j].file # f => FrameStays(j)
<1>1. PICK stop \in 0 .. NumBufs :
        LET visited == {i \in 0 .. (stop - 1) : Holds(i, f)} IN
        /\ \A i \in visited : bufDescTable[i].pinCnt = 0
        /\ \/ stop = NumBufs /\ exc' = "none"
           \/ /\ stop < NumBufs
              /\ Holds(stop, f) /\ bufDescTable[stop].pinCnt > 0
              /\ exc' = "PagePinned"
        /\ disk' = DiskAfterFlush(visited)
        /\ hashTable' = [k \in Keys |-> IF \E i \in visited : KeyOf(i) = k
                                        THEN NoFrame ELSE hashTable[k]]
        /\ bufDescTable' = [i \in Frames |-> IF i \in visited THEN Clear ELSE bufDescTable[i]]
        /\ UNCHANGED <<bufPool, clockHand, unreported>>
  BY DEF FlushFile
<1>2. stop = NumBufs
  BY <1>1, NumBufsAssumption DEF Holds, Frames
<1>3. PICK S \in SUBSET Frames : S = {i \in 0 .. (stop - 1) : Holds(i, f)}
  BY <1>2 DEF Frames
<1>4. \A i \in Frames : i \in S <=> Holds(i, f)
  BY <1>2, <1>3 DEF Frames
<1>5. /\ exc' = "none" /\ disk' = DiskAfterFlush(S)
      /\ hashTable' = [k \in Keys |-> IF \E i \in S : KeyOf(i) = k THEN NoFrame ELSE hashTable[k]]
      /\ bufDescTable' = [i \in Frames |-> IF i \in S THEN Clear ELSE bufDescTable[i]]
      /\ bufPool' = bufPool /\ clockHand' = clockHand /\ unreported' = unreported
  BY <1>1, <1>2, <1>3
<1>6. \A j \in S : bufDescTable'[j] = Clear
  BY <1>5
<1>7. \A j \in Frames \ S : bufDescTable'[j] = bufDescTable[j]
  BY <1>5
<1>8. \A j \in Frames \ S : bufDescTable[j].file # f
  BY <1>4, NullAssumption DEF Holds, PoolInv, TypeOK, Clear
<1>9. \A j \in S : bufDescTable[j].valid /\ bufDescTable[j].file = f
  BY <1>4 DEF Holds
<1>10. disk' \in [Keys -> Contents \cup {Free}]
  <2> DEFINE Writers(q) == {i \in S : bufDescTable[i].dirty /\ KeyOf(i) = q}
  <2>1. disk' = [q \in Keys |-> IF Writers(q) = {} THEN disk[q]
                                ELSE bufPool[CHOOSE i \in Writers(q) : TRUE]]
    BY <1>5 DEF DiskAfterFlush
  <2>2. ASSUME NEW q \in Keys PROVE disk'[q] \in Contents \cup {Free}
    <3>1. CASE Writers(q) = {}
      BY <2>1, <3>1 DEF PoolInv, TypeOK
    <3>2. CASE Writers(q) # {}
      <4>1. PICK i \in Writers(q) : i = CHOOSE j \in Writers(q) : TRUE
        BY <3>2
      <4> QED
        BY <2>1, <3>2, <4>1 DEF PoolInv, TypeOK
    <3> QED
      BY <3>1, <3>2
  <2> HIDE DEF Writers
  <2> QED
    BY <2>1, <2>2
<1>11. PoolInv'
  <2>1. NoFrame \notin Frames
    BY NumBufsAssumption DEF NoFrame, Frames
  <2>2. /\ hashTable' \in [Keys -> Frames \cup {NoFrame}]
        /\ \A q \in Keys, j \in Frames : hashTable'[q] = j <=> j \notin S /\ hashTable[q] = j
    BY <1>5, <1>9, <2>1 DEF PoolInv, TypeOK, HashMatchesFrames
  <2>3. bufDescTable' \in [Frames -> BufDesc]
    BY <1>5, ClearType DEF PoolInv, TypeOK
  <2>4. /\ bufPool' \in [Frames -> Contents] /\ clockHand' \in Frames
        /\ unreported' = {} /\ exc' \in Exceptions
    BY <1>5 DEF PoolInv, TypeOK, Exceptions
  <2>5. \A j \in Frames \ S : /\ bufDescTable'[j].file = bufDescTable[j].file
                              /\ bufDescTable'[j].pageNo = bufDescTable[j].pageNo
                              /\ bufDescTable'[j].valid = bufDescTable[j].valid
                              /\ ~bufDescTable[j].valid => bufDescTable'[j] = Clear
    BY <1>7 DEF PoolInv, TypeOK
  <2> QED
    BY <1>6, <1>10, <2>2, <2>3, <2>4, <2>5, PoolKept
<1>12. \A j \in Frames : bufDescTable'[j].file # f
  BY <1>6, <1>7, <1>8, NullAssumption DEF Clear
<1>13. \A j \in Frames : bufDescTable[j].file # f => FrameStays(j)
  BY <1>5, <1>7, <1>9 DEF FrameStays
<1> QED
  BY <1>5, <1>11, <1>12, <1>13

\* A call of readPage or unPinPage for one file leaves the frames of others:
\* those that are pinned stay, and none is added.
LEMMA ReadLeavesOthers ==
    ASSUME PoolInv, NEW f \in Files, NEW p \in Pages, ReadPage(f, p)
    PROVE  /\ PoolInv' /\ OnlyWritesBack
           /\ \A j \in Frames :
                /\ bufDescTable'[j].file \in Files \ {f} => FrameStays(j)
                /\ bufDescTable[j].pinCnt > 0 /\ bufDescTable[j].file # f => FrameStays(j)
<1>1. CASE ReadHit(f, p)
  <2>1. PoolInv' /\ disk' = disk
    BY <1>1, HitEffect
  <2>2. PICK i \in Frames : /\ bufDescTable[i].file = f /\ bufDescTable'[i].file = f
                            /\ \A j \in Frames \ {i} : FrameStays(j)
    BY <1>1, HitEffect
  <2> QED
    BY <2>1, <2>2 DEF OnlyWritesBack
<1>2. CASE ReadMiss(f, p)
  <2>1. PoolInv' /\ OnlyWritesBack
    BY <1>2, MissEffect
  <2>2. PICK i \in Frames : /\ bufDescTable[i].pinCnt = 0 /\ bufDescTable'[i] = Set(f, p)
                            /\ \A j \in Frames \ {i} : FrameStays(j)
    BY <1>2, MissEffect
  <2>3. bufDescTable'[i].file = f
    BY <2>2 DEF Set
  <2> QED
    BY <2>1, <2>2, <2>3
<1>3. CASE ReadInvalid(f, p)
  <2>1. PoolInv' /\ OnlyWritesBack
    BY <1>3, InvalidEffect
  <2>2. PICK i \in Frames : /\ bufDescTable[i].pinCnt = 0 /\ bufDescTable'[i] = Clear
                            /\ \A j \in Frames \ {i} : FrameStays(j)
    BY <1>3, InvalidEffect
  <2>3. bufDescTable'[i].file \notin Files
    BY <2>2, NullAssumption DEF Clear
  <2> QED
    BY <2>1, <2>2, <2>3
<1>4. CASE AllocBufFails
  BY <1>4, FailEffect DEF OnlyWritesBack
<1> QED
  BY <1>1, <1>2, <1>3, <1>4 DEF ReadPage

LEMMA UnPinLeavesOthers ==
    ASSUME PoolInv, NEW f \in Files, NEW p \in Pages, NEW b \in BOOLEAN, UnPinPage(f, p, b)
    PROVE  /\ PoolInv' /\ OnlyWritesBack
           /\ \A j \in Frames :
                /\ bufDescTable'[j].file # f => FrameStays(j)
                /\ bufDescTable[j].file # f => FrameStays(j)
<1>1. CASE UnPinBuffered(f, p, b)
  <2>1. PoolInv' /\ disk' = disk
    BY <1>1, UnPinEffect
  <2>2. PICK i \in Frames : TakesPin(i, f, p)
    BY <1>1, UnPinEffect
  <2> QED
    BY <2>1, <2>2 DEF OnlyWritesBack, TakesPin
<1>2. CASE LookupFails(f, p)
  <2>1. /\ bufDescTable' = bufDescTable /\ bufPool' = bufPool /\ hashTable' = hashTable
        /\ clockHand' = clockHand /\ disk' = disk /\ unreported' = unreported
        /\ exc' = "HashNotFound"
    BY <1>2 DEF LookupFails
  <2>2. TypeOK' /\ HashMatchesFrames'
    BY <2>1 DEF PoolInv, TypeOK, HashMatchesFrames, Exceptions, KeyOf
  <2> QED
    BY <2>1, <2>2 DEF PoolInv, OnlyWritesBack, FrameStays
<1> QED
  BY <1>1, <1>2 DEF UnPinPage

-----------------------------------------------------------------------------
(***************************************************************************)
(* The iterators                                                           *)
(***************************************************************************)
\* The iterator comes to the first page, or slot, above the one it is on, and
\* is INVALID when there is none.
LEMMA LeastAboveFacts ==
    ASSUME NEW n \in Nat, NEW S \in SUBSET (Nat \ {0})
    PROVE  /\ LeastAbove(n, S) \in Nat
           /\ \/ LeastAbove(n, S) = INVALID /\ \A y \in S : y <= n
              \/ /\ LeastAbove(n, S) \in S /\ LeastAbove(n, S) > n
                 /\ LeastAbove(n, S) # INVALID
                 /\ \A y \in S : y > n => LeastAbove(n, S) <= y
<1>1. CASE \E x \in S : x > n
  <2>1. PICK T \in SUBSET Nat : T = {x \in S : x > n}
    OBVIOUS
  <2>2. PICK m \in T : \A t \in T : m <= t
    BY <1>1, <2>1, LeastElement
  <2>3. m \in S /\ m > n /\ \A y \in S : y > n => m <= y
    BY <2>1, <2>2
  <2>4. LeastAbove(n, S) = CHOOSE x \in S : x > n /\ \A y \in S : y > n => x <= y
    BY <1>1 DEF LeastAbove
  <2>5. PICK l : l = LeastAbove(n, S)
    OBVIOUS
  <2>6. l \in S /\ l > n /\ \A y \in S : y > n => l <= y
    BY <2>3, <2>4, <2>5
  <2> QED
    BY <2>5, <2>6 DEF INVALID
<1>2. CASE ~ \E x \in S : x > n
  <2>1. LeastAbove(n, S) = INVALID
    BY <1>2 DEF LeastAbove
  <2> QED
    BY <1>2, <2>1 DEF INVALID
<1> QED
  BY <1>1, <1>2

\* The pages of the scanned file.
LEMMA NextPageFacts ==
    ASSUME NEW p \in Pages \cup {INVALID}
    PROVE  \/ NextUsedPage(p) = INVALID /\ \A q \in Pages : Used(q) => q <= p
           \/ /\ NextUsedPage(p) \in Pages /\ NextUsedPage(p) > p
              /\ NextUsedPage(p) # INVALID
              /\ Used(NextUsedPage(p))
              /\ \A q \in Pages : Used(q) /\ q > p => NextUsedPage(p) <= q
<1>1. p \in Nat
  BY PagesAssumption DEF INVALID
<1>2. PICK U \in SUBSET (Nat \ {0}) : U = {q \in Pages : Used(q)}
  BY PagesAssumption
<1>3. NextUsedPage(p) = LeastAbove(p, U)
  BY <1>2 DEF NextUsedPage
<1>4. \A q : q \in U <=> q \in Pages /\ Used(q)
  BY <1>2
<1> QED
  BY <1>1, <1>3, <1>4, LeastAboveFacts

\* The slots of a page.
LEMMA NextSlotFacts ==
    ASSUME NEW c \in Contents, NEW s \in Nat
    PROVE  /\ NextUsedSlot(c, s) \in Nat
           /\ \/ NextUsedSlot(c, s) = INVALID /\ \A t \in c : t <= s
              \/ /\ NextUsedSlot(c, s) \in c /\ NextUsedSlot(c, s) > s
                 /\ NextUsedSlot(c, s) # INVALID
                 /\ \A t \in c : t > s => NextUsedSlot(c, s) <= t
<1>1. c \in SUBSET (Nat \ {0})
  BY SlotsAssumption
<1> QED
  BY <1>1, LeastAboveFacts DEF NextUsedSlot

\* The records of the file, one by one.
LEMMA RidFacts ==
    ASSUME PoolInv
    PROVE  /\ \A r \in AllRids : /\ r[1] \in Pages /\ Used(r[1])
                                 /\ r[1] \in Nat \ {0} /\ r[2] \in Nat \ {0}
                                 /\ r = <<r[1], r[2]>>
                                 /\ r[2] \in disk[<<file, r[1]>>]
           /\ \A p \in Pages : Used(p) => \A s \in disk[<<file, p>>] : <<p, s>> \in AllRids
<1>1. \A p \in Pages : Used(p) => disk[<<file, p>>] \in Contents
  BY FilesAssumption DEF PoolInv, TypeOK, Used, Keys
<1>2. ASSUME NEW r \in AllRids
      PROVE  /\ r[1] \in Pages /\ Used(r[1])
             /\ r[1] \in Nat \ {0} /\ r[2] \in Nat \ {0}
             /\ r = <<r[1], r[2]>>
             /\ r[2] \in disk[<<file, r[1]>>]
  <2>1. PICK p \in Pages : Used(p) /\ r \in {p} \X disk[<<file, p>>]
    BY DEF AllRids
  <2>2. PICK s \in disk[<<file, p>>] : r = <<p, s>>
    BY <2>1
  <2>3. s \in Nat \ {0} /\ p \in Nat \ {0}
    BY <1>1, <2>1, <2>2, SlotsAssumption, PagesAssumption
  <2> QED
    BY <2>1, <2>2, <2>3
<1>3. ASSUME NEW p \in Pages, Used(p), NEW s \in disk[<<file, p>>]
      PROVE  <<p, s>> \in AllRids
  BY <1>3 DEF AllRids
<1> QED
  BY <1>2, <1>3

-----------------------------------------------------------------------------
(***************************************************************************)
(* The inductive invariant                                                 *)
(***************************************************************************)
\* Where the scan stands: it has a current page after readPage and until
\* LeavePage, and the iterator is on that page.
ScanPlace ==
    /\ pc \in {"closed", "idle", "read", "leave", "flush", "terminated"}
    /\ filePageIter \in Pages \cup {INVALID} /\ slot \in Nat /\ curDirtyFlag \in BOOLEAN
    /\ curPage \in Frames \cup {NULL}
    /\ curPage # NULL => filePageIter \in Pages /\ bufDescTable[curPage].valid
    /\ pc = "read" => curPage = NULL /\ filePageIter \in Pages
    /\ pc = "leave" => curPage # NULL
    /\ pc \in {"flush", "closed"} => curPage = NULL

\* The pool has the pages of the file as they are on disk.
Faithful ==
    \A i \in Frames : bufDescTable[i].valid /\ bufDescTable[i].file = file
                      => bufPool[i] = disk[KeyOf(i)]

\* The records the scan has yet to return.
Left == {r \in AllRids : Precedes(outRid, r)}

\* In an undisturbed scan they are those from where it stands.
ScanOrder ==
    undisturbed =>
        /\ Faithful
        /\ pc = "idle" /\ curPage = NULL /\ filePageIter = INVALID => Left = {}
        /\ pc = "idle" /\ curPage = NULL /\ filePageIter # INVALID => outRid = NoRid
        /\ pc = "idle" /\ curPage # NULL => outRid = <<filePageIter, slot>>
        /\ pc = "read" => /\ Used(filePageIter)
                          /\ Left = {r \in AllRids : r[1] >= filePageIter}
        /\ pc = "leave" => Left = {r \in AllRids : r[1] > filePageIter}

ScanInv ==
    /\ PoolInv
    /\ ScanPlace
    /\ OnePagePinned
    /\ NoFrameOfClosedFile
    /\ ScanOrder

\* What InOrder says of a step of scanNext.
StepInOrder ==
    undisturbed /\ pc' = "idle" =>
        \/ /\ result' = "rid"
           /\ outRid' \in Left /\ \A r \in Left : r = outRid' \/ Precedes(outRid', r)
        \/ result' = "EndOfFile" /\ Left = {}
        \/ result' = "BufferExceeded"

\* While the pool is faithful, write-backs do not change the file.
LEMMA FileStays ==
    ASSUME PoolInv, Faithful, OnlyWritesBack
    PROVE  \A p \in Pages : disk'[<<file, p>>] = disk[<<file, p>>]
<1> SUFFICES ASSUME NEW p \in Pages, disk'[<<file, p>>] # disk[<<file, p>>] PROVE FALSE
  OBVIOUS
<1>1. <<file, p>> \in Keys
  BY FilesAssumption DEF Keys
<1>2. PICK i \in Frames : /\ bufDescTable[i].valid /\ KeyOf(i) = <<file, p>>
                          /\ disk'[<<file, p>>] = bufPool[i]
  BY <1>1 DEF OnlyWritesBack
<1>3. bufDescTable[i].file = file
  BY <1>2 DEF KeyOf
<1> QED
  BY <1>2, <1>3 DEF Faithful

\* Then it has the same pages and records.
LEMMA RecordsStay ==
    ASSUME \A p \in Pages : disk'[<<file, p>>] = disk[<<file, p>>]
    PROVE  AllRids' = AllRids /\ \A p \in Pages : Used(p)' <=> Used(p)
<1>1. \A p \in Pages : Used(p)' <=> Used(p)
  BY DEF Used
<1>2. {q \in Pages : Used(q)}' = {q \in Pages : Used(q)}
  BY <1>1
<1>3. \A r : r \in AllRids' <=> r \in AllRids
  BY <1>2 DEF AllRids
<1> QED
  BY <1>1, <1>3

\* Records in order, by page and slot.
LEMMA PrecedesFacts ==
    ASSUME PoolInv, NEW p \in Nat, NEW s \in Nat, NEW r \in AllRids
    PROVE  Precedes(<<p, s>>, r) <=> r[1] > p \/ (r[1] = p /\ r[2] > s)
BY RidFacts DEF Precedes

\* The rest of a page, from a slot on.
LEMMA LeftAt ==
    ASSUME PoolInv, NEW p \in Nat, NEW s \in Nat, outRid = <<p, s>>
    PROVE  Left = {r \in AllRids : r[1] > p \/ (r[1] = p /\ r[2] > s)}
BY PrecedesFacts DEF Left

\* The scan goes to slot t of page p, the next above s: that record is the
\* first of those left.
LEMMA NextRid ==
    ASSUME PoolInv, NEW p \in Pages, NEW s \in Nat, NEW c, Used(p),
           c = disk[<<file, p>>],
           NEW t, t = NextUsedSlot(c, s),
           NEW S, \A r : r \in S <=> r \in AllRids /\ (r[1] > p \/ (r[1] = p /\ r[2] > s))
    PROVE  /\ t = INVALID => S = {r \in AllRids : r[1] > p}
           /\ t # INVALID => /\ <<p, t>> \in S /\ t \in c /\ t \in Nat
                             /\ \A r \in S : r = <<p, t>> \/ Precedes(<<p, t>>, r)
<1>1. p \in Nat /\ c \in Contents
  BY PagesAssumption, FilesAssumption DEF PoolInv, TypeOK, Used, Keys
<1>2. t \in Nat
  BY <1>1, NextSlotFacts
<1>3. ASSUME t = INVALID PROVE S = {r \in AllRids : r[1] > p}
  <2>1. \A u \in c : u <= s
    BY <1>1, <1>2, <1>3, NextSlotFacts
  <2>2. \A r \in AllRids : r[1] = p => r[2] <= s
    BY <2>1, RidFacts
  <2> QED
    BY <1>1, <2>2, RidFacts
<1>4. ASSUME t # INVALID
      PROVE  /\ <<p, t>> \in S /\ t \in c
             /\ \A r \in S : r = <<p, t>> \/ Precedes(<<p, t>>, r)
  <2>1. t \in c /\ t > s /\ \A u \in c : u > s => t <= u
    BY <1>1, <1>4, NextSlotFacts
  <2>2. <<p, t>> \in AllRids
    BY <2>1, RidFacts
  <2>3. <<p, t>>[1] = p /\ <<p, t>>[2] = t
    OBVIOUS
  <2>4. <<p, t>> \in S
    BY <2>1, <2>2, <2>3
  <2>5. ASSUME NEW r \in S, r # <<p, t>> PROVE Precedes(<<p, t>>, r)
    <3>1. r \in AllRids /\ r[1] \in Nat /\ r[2] \in Nat /\ r = <<r[1], r[2]>>
      BY RidFacts
    <3>2. CASE r[1] > p
      BY <1>1, <1>2, <3>1, <3>2, PrecedesFacts
    <3>3. CASE r[1] = p /\ r[2] > s
      <4>1. r[2] \in c
        BY <3>1, <3>3, RidFacts
      <4>2. t <= r[2] /\ t # r[2]
        BY <2>1, <2>5, <3>1, <3>3, <4>1
      <4> QED
        BY <1>1, <1>2, <3>1, <3>3, <4>2, PrecedesFacts
    <3> QED
      BY <3>1, <3>2, <3>3
  <2> QED
    BY <2>1, <2>4, <2>5
<1> QED
  BY <1>2, <1>3, <1>4

-----------------------------------------------------------------------------
(***************************************************************************)
(* The steps                                                               *)
(***************************************************************************)
\* A step that leaves the pool and the file alone.
LEMMA PoolUnchanged ==
    ASSUME PoolInv, UNCHANGED vars
    PROVE  /\ PoolInv' /\ (Faithful => Faithful')
           /\ AllRids' = AllRids /\ \A p \in Pages : Used(p)' <=> Used(p)
           /\ bufDescTable' = bufDescTable /\ bufPool' = bufPool /\ disk' = disk
<1>1. /\ bufDescTable' = bufDescTable /\ bufPool' = bufPool /\ hashTable' = hashTable
      /\ clockHand' = clockHand /\ disk' = disk /\ unreported' = unreported /\ exc' = exc
  BY DEF vars
<1>2. PoolInv' /\ (Faithful => Faithful')
  BY <1>1 DEF PoolInv, TypeOK, HashMatchesFrames, KeyOf, Faithful
<1> QED
  BY <1>1, <1>2, RecordsStay

\* The current page of the scan.
LEMMA CurrentPage ==
    ASSUME PoolInv, ScanPlace, OnePagePinned, curPage # NULL
    PROVE  /\ curPage \in Frames /\ filePageIter \in Pages /\ filePageIter # INVALID
           /\ bufDescTable[curPage].valid
           /\ bufDescTable[curPage].file = file
           /\ bufDescTable[curPage].pageNo = filePageIter
           /\ bufDescTable[curPage].pinCnt = 1
           /\ KeyOf(curPage) = <<file, filePageIter>>
           /\ hashTable[<<file, filePageIter>>] = curPage
           /\ bufPool[curPage] \in Contents
           /\ Faithful => Used(filePageIter) /\ bufPool[curPage] = disk[<<file, filePageIter>>]
<1>1. /\ curPage \in Frames /\ filePageIter \in Pages /\ filePageIter # INVALID
      /\ bufDescTable[curPage].valid
  BY PagesAssumption DEF ScanPlace, INVALID
<1>2. /\ bufDescTable[curPage].file = file
      /\ bufDescTable[curPage].pageNo = filePageIter
      /\ bufDescTable[curPage].pinCnt = 1
  BY <1>1 DEF OnePagePinned
<1>3. KeyOf(curPage) = <<file, filePageIter>> /\ <<file, filePageIter>> \in Keys
  BY <1>1, <1>2, FilesAssumption DEF KeyOf, Keys
<1>4. hashTable[<<file, filePageIter>>] = curPage
  BY <1>1, <1>3 DEF PoolInv, HashMatchesFrames
<1>5. bufPool[curPage] \in Contents /\ bufPool[curPage] # Free
  BY <1>1, FreeAssumption DEF PoolInv, TypeOK
<1>6. Faithful => Used(filePageIter) /\ bufPool[curPage] = disk[<<file, filePageIter>>]
  BY <1>1, <1>2, <1>3, <1>5 DEF Faithful, Used
<1> QED
  BY <1>1, <1>2, <1>3, <1>4, <1>5, <1>6

\* A call that asks for the next record and finds the iterator at the end, or
\* no page at all.
LEMMA ScanAtEnd ==
    ASSUME ScanInv, ScanNext, filePageIter = INVALID
    PROVE  ScanInv' /\ StepInOrder
<1>1. curPage = NULL
  BY CurrentPage DEF ScanInv
<1>2. /\ pc = "idle" /\ pc' = "idle" /\ result' = "EndOfFile"
      /\ outRid' = outRid /\ undisturbed' = undisturbed
      /\ filePageIter' = filePageIter /\ slot' = slot
      /\ curPage' = curPage /\ curDirtyFlag' = curDirtyFlag /\ UNCHANGED vars
  BY DEF ScanNext, EndOfFile
<1>3. /\ PoolInv' /\ (Faithful => Faithful') /\ AllRids' = AllRids
      /\ bufDescTable' = bufDescTable /\ bufPool' = bufPool
  BY <1>2, PoolUnchanged DEF ScanInv
<1>4. ScanPlace' /\ OnePagePinned' /\ NoFrameOfClosedFile'
  BY <1>1, <1>2, <1>3 DEF ScanInv, ScanPlace, OnePagePinned, NoFrameOfClosedFile
<1>5. undisturbed => Left = {}
  BY <1>1, <1>2 DEF ScanInv, ScanOrder
<1>6. Left' = Left
  BY <1>2, <1>3 DEF Left, Precedes
<1>7. ScanOrder'
  BY <1>1, <1>2, <1>3, <1>5, <1>6 DEF ScanInv, ScanOrder
<1> QED
  BY <1>2, <1>3, <1>4, <1>5, <1>7 DEF ScanInv, StepInOrder

LEMMA ScanStarts ==
    ASSUME ScanInv, ScanNext, filePageIter # INVALID, curPage = NULL
    PROVE  ScanInv' /\ StepInOrder
<1>1. /\ pc = "idle" /\ filePageIter' = NextUsedPage(INVALID)
      /\ slot' = slot /\ curPage' = curPage /\ curDirtyFlag' = curDirtyFlag
      /\ UNCHANGED vars
      /\ IF filePageIter' = INVALID
         THEN pc' = "idle" /\ result' = "EndOfFile"
         ELSE pc' = "read" /\ result' = result
      /\ outRid' = outRid /\ undisturbed' = undisturbed
  BY DEF ScanNext, EndOfFile, Continues
<1>2. /\ PoolInv' /\ (Faithful => Faithful') /\ AllRids' = AllRids
      /\ bufDescTable' = bufDescTable /\ bufPool' = bufPool
      /\ \A p \in Pages : Used(p)' <=> Used(p)
  BY <1>1, PoolUnchanged DEF ScanInv
<1>3. \/ filePageIter' = INVALID /\ \A q \in Pages : Used(q) => q <= INVALID
      \/ /\ filePageIter' \in Pages /\ filePageIter' > INVALID /\ filePageIter' # INVALID
         /\ Used(filePageIter')
         /\ \A q \in Pages : Used(q) /\ q > INVALID => filePageIter' <= q
  BY <1>1, NextPageFacts
<1>4. ScanPlace' /\ OnePagePinned' /\ NoFrameOfClosedFile'
  BY <1>1, <1>2, <1>3 DEF ScanInv, ScanPlace, OnePagePinned, NoFrameOfClosedFile
<1>5. Left' = Left
  BY <1>1, <1>2 DEF Left, Precedes
<1>6. ASSUME filePageIter' = INVALID PROVE AllRids = {} /\ Left = {}
  <2>1. \A r \in AllRids : r[1] <= INVALID
    BY <1>3, <1>6, RidFacts DEF ScanInv
  <2>2. \A r \in AllRids : r[1] \in Nat \ {0}
    BY RidFacts DEF ScanInv
  <2>3. AllRids = {}
    BY <2>1, <2>2 DEF INVALID
  <2> QED
    BY <2>3 DEF Left
<1>7. ASSUME undisturbed, filePageIter' # INVALID
      PROVE  Left = {r \in AllRids : r[1] >= filePageIter'}
  <2>1. outRid = NoRid
    BY <1>1, <1>7 DEF ScanInv, ScanOrder
  <2>2. \A r \in AllRids : r[1] >= filePageIter' /\ r[1] > INVALID
    <3>1. \A r \in AllRids : r[1] \in Pages /\ Used(r[1]) /\ r[1] \in Nat \ {0}
      BY RidFacts DEF ScanInv
    <3>2. filePageIter' \in Nat
      BY <1>3, <1>7, PagesAssumption
    <3>3. \A r \in AllRids : r[1] > INVALID
      BY <3>1 DEF INVALID
    <3>4. \A r \in AllRids : filePageIter' <= r[1]
      BY <1>3, <1>7, <3>1, <3>3
    <3> QED
      BY <3>1, <3>2, <3>3, <3>4
  <2>3. \A r \in AllRids : Precedes(outRid, r)
    BY <2>1, <2>2 DEF Precedes, NoRid
  <2> QED
    BY <2>2, <2>3 DEF Left
<1>8. undisturbed => Faithful'
  BY <1>2 DEF ScanInv, ScanOrder
<1>9. ScanOrder'
  BY <1>1, <1>2, <1>3, <1>5, <1>6, <1>7, <1>8 DEF ScanOrder
<1>10. StepInOrder
  BY <1>1, <1>6 DEF StepInOrder
<1> QED
  BY <1>2, <1>4, <1>9, <1>10 DEF ScanInv

LEMMA ScanGoesOn ==
    ASSUME ScanInv, ScanNext, curPage # NULL
    PROVE  ScanInv' /\ StepInOrder
<1>1. /\ curPage \in Frames /\ filePageIter \in Pages /\ filePageIter # INVALID
      /\ bufDescTable[curPage].valid
      /\ bufDescTable[curPage].pageNo = filePageIter
      /\ bufPool[curPage] \in Contents
      /\ Faithful => Used(filePageIter) /\ bufPool[curPage] = disk[<<file, filePageIter>>]
  BY CurrentPage DEF ScanInv
<1>2. /\ pc = "idle" /\ slot' = NextUsedSlot(bufPool[curPage], slot)
      /\ IF slot' = INVALID
         THEN pc' = "leave" /\ outRid' = outRid /\ result' = result
         ELSE pc' = "idle" /\ outRid' = <<filePageIter, slot'>> /\ result' = "rid"
      /\ undisturbed' = undisturbed
      /\ filePageIter' = filePageIter /\ curPage' = curPage /\ curDirtyFlag' = curDirtyFlag
      /\ UNCHANGED vars
  BY <1>1 DEF ScanNext, Returns, Continues
<1>3. /\ PoolInv' /\ (Faithful => Faithful') /\ AllRids' = AllRids
      /\ bufDescTable' = bufDescTable /\ bufPool' = bufPool
  BY <1>2, PoolUnchanged DEF ScanInv
<1>4. slot \in Nat
  BY DEF ScanInv, ScanPlace
<1>5. slot' \in Nat /\ (slot' # INVALID => slot' \in bufPool[curPage])
  BY <1>1, <1>2, <1>4, NextSlotFacts
<1>6. ScanPlace'
  BY <1>1, <1>2, <1>3, <1>5 DEF ScanInv, ScanPlace
<1>7. OnePagePinned'
  <2>1. pc' = "idle" /\ result' = "rid" =>
            outRid'[1] = filePageIter' /\ outRid'[2] \in bufPool'[curPage']
    BY <1>2, <1>3, <1>5
  <2> QED
    BY <1>2, <1>3, <2>1 DEF ScanInv, OnePagePinned
<1>8. NoFrameOfClosedFile'
  BY <1>2 DEF NoFrameOfClosedFile
<1>9. ASSUME undisturbed
      PROVE  /\ Faithful /\ slot' = INVALID => Left = {r \in AllRids : r[1] > filePageIter}
             /\ slot' # INVALID => /\ outRid' \in Left
                                   /\ \A r \in Left : r = outRid' \/ Precedes(outRid', r)
  <2>1. outRid = <<filePageIter, slot>> /\ Faithful
    BY <1>2, <1>9 DEF ScanInv, ScanOrder
  <2>2. filePageIter \in Nat
    BY <1>1, PagesAssumption
  <2>3. \A r : r \in Left <=> r \in AllRids /\ (r[1] > filePageIter \/ (r[1] = filePageIter /\ r[2] > slot))
    BY <1>4, <2>1, <2>2, LeftAt DEF ScanInv
  <2>4. Used(filePageIter) /\ bufPool[curPage] = disk[<<file, filePageIter>>]
    BY <1>1, <2>1
  <2>5. PICK t : t = slot'
    OBVIOUS
  <2>6. /\ t = INVALID => Left = {r \in AllRids : r[1] > filePageIter}
        /\ t # INVALID => /\ <<filePageIter, t>> \in Left
                          /\ \A r \in Left : r = <<filePageIter, t>> \/ Precedes(<<filePageIter, t>>, r)
    BY <1>1, <1>2, <1>4, <2>3, <2>4, <2>5, NextRid DEF ScanInv
  <2> QED
    BY <1>2, <2>1, <2>5, <2>6
<1>10. ScanOrder'
  <2>1. undisturbed' => Faithful'
    BY <1>2, <1>3 DEF ScanInv, ScanOrder
  <2>2. slot' = INVALID => Left' = Left
    BY <1>2, <1>3 DEF Left, Precedes
  <2>3. undisturbed' /\ pc' = "leave" => Left' = {r \in AllRids' : r[1] > filePageIter'}
    BY <1>2, <1>3, <1>9, <2>1, <2>2 DEF ScanInv, ScanOrder
  <2>4. pc' = "idle" => outRid' = <<filePageIter', slot'>>
    BY <1>2
  <2> QED
    BY <1>2, <2>1, <2>3, <2>4 DEF ScanOrder
<1>11. StepInOrder
  BY <1>2, <1>9 DEF StepInOrder
<1> QED
  BY <1>3, <1>6, <1>7, <1>8, <1>10, <1>11 DEF ScanInv

\* readPage of the page the iterator is on pins it, and its first record is
\* the next one.
LEMMA ReadCurrentReturns ==
    ASSUME ScanInv, ReadCurrent, exc' = "none"
    PROVE  ScanInv' /\ StepInOrder
<1>1. /\ pc = "read" /\ ReadPage(file, filePageIter)
      /\ curPage' = hashTable'[<<file, filePageIter>>]
      /\ slot' = NextUsedSlot(bufPool'[curPage'], INVALID)
      /\ IF slot' = INVALID
         THEN pc' = "leave" /\ outRid' = outRid /\ result' = result
         ELSE pc' = "idle" /\ outRid' = <<filePageIter, slot'>> /\ result' = "rid"
      /\ undisturbed' = undisturbed
      /\ filePageIter' = filePageIter /\ curDirtyFlag' = FALSE
  BY DEF ReadCurrent, Returns, Continues
<1>2. /\ curPage = NULL /\ filePageIter \in Pages /\ file \in Files
      /\ NULL \notin Frames /\ curDirtyFlag \in BOOLEAN
  BY <1>1, FilesAssumption, NumBufsAssumption DEF ScanInv, ScanPlace, Frames, NULL
<1>3. PoolInv' /\ OnlyWritesBack
  BY <1>1, <1>2, ReadLeavesOthers DEF ScanInv
<1>4. PICK i \in Frames :
        /\ curPage' = i
        /\ bufDescTable'[i].valid
        /\ bufDescTable'[i].file = file /\ bufDescTable'[i].pageNo = filePageIter
        /\ bufDescTable'[i].pinCnt = 1
        /\ undisturbed => /\ bufPool'[i] = disk'[<<file, filePageIter>>]
                          /\ disk'[<<file, filePageIter>>] # Free
        /\ \A j \in Frames \ {i} : FrameStays(j)
  <2>1. CASE ReadHit(file, filePageIter)
    <3>1. disk' = disk
      BY <1>2, <2>1, HitEffect DEF ScanInv
    <3>2. PICK i \in Frames :
                /\ hashTable'[<<file, filePageIter>>] = i
                /\ bufDescTable[i].valid
                /\ bufDescTable[i].file = file /\ bufDescTable[i].pageNo = filePageIter
                /\ bufDescTable'[i].valid
                /\ bufDescTable'[i].file = file /\ bufDescTable'[i].pageNo = filePageIter
                /\ bufDescTable'[i].pinCnt = bufDescTable[i].pinCnt + 1
                /\ bufPool'[i] = bufPool[i]
                /\ \A j \in Frames \ {i} : FrameStays(j)
      BY <1>2, <2>1, HitEffect DEF ScanInv
    <3>3. bufDescTable[i].pinCnt = 0
      BY <1>2, <3>2 DEF ScanInv, OnePagePinned
    <3>4. bufPool[i] # Free
      BY FreeAssumption DEF ScanInv, PoolInv, TypeOK
    <3>5. undisturbed => bufPool[i] = disk[<<file, filePageIter>>]
      BY <3>2 DEF ScanInv, ScanOrder, Faithful, KeyOf
    <3> QED
      BY <1>1, <3>1, <3>2, <3>3, <3>4, <3>5
  <2>2. CASE ReadMiss(file, filePageIter)
    <3>1. PICK i \in Frames :
                /\ hashTable'[<<file, filePageIter>>] = i
                /\ bufDescTable'[i] = Set(file, filePageIter)
                /\ bufPool'[i] = disk'[<<file, filePageIter>>]
                /\ \A j \in Frames \ {i} : FrameStays(j)
      BY <1>2, <2>2, MissEffect DEF ScanInv
    <3>2. /\ bufDescTable'[i].valid
          /\ bufDescTable'[i].file = file /\ bufDescTable'[i].pageNo = filePageIter
          /\ bufDescTable'[i].pinCnt = 1
      BY <3>1 DEF Set
    <3>3. disk'[<<file, filePageIter>>] # Free
      BY <1>2, <2>2, MissEffect DEF ScanInv
    <3> QED
      BY <1>1, <3>1, <3>2, <3>3
  <2>3. CASE ReadInvalid(file, filePageIter)
    BY <2>3 DEF ReadInvalid
  <2>4. CASE AllocBufFails
    BY <2>4 DEF AllocBufFails
  <2> QED
    BY <1>1, <2>1, <2>2, <2>3, <2>4 DEF ReadPage
<1>5. slot' \in Nat /\ (slot' # INVALID => slot' \in bufPool'[i])
  <2>1. bufPool'[i] \in Contents
    BY <1>3 DEF PoolInv, TypeOK
  <2> QED
    BY <1>1, <1>4, <2>1, NextSlotFacts DEF INVALID
<1>6. ScanPlace'
  BY <1>1, <1>2, <1>4, <1>5 DEF ScanInv, ScanPlace
<1>7. OnePagePinned'
  <2>1. \A j \in Frames \ {i} : bufDescTable'[j].file = file => bufDescTable'[j].pinCnt = 0
    BY <1>2, <1>4 DEF FrameStays, ScanInv, OnePagePinned
  <2>2. pc' = "idle" /\ result' = "rid" =>
            outRid'[1] = filePageIter' /\ outRid'[2] \in bufPool'[curPage']
    BY <1>1, <1>4, <1>5
  <2> QED
    BY <1>1, <1>4, <2>1, <2>2 DEF OnePagePinned
<1>8. NoFrameOfClosedFile'
  BY <1>1 DEF NoFrameOfClosedFile
<1>9. ASSUME undisturbed
      PROVE  /\ Faithful' /\ AllRids' = AllRids
             /\ slot' = INVALID => Left = {r \in AllRids : r[1] > filePageIter}
             /\ slot' # INVALID => /\ outRid' \in Left
                                   /\ \A r \in Left : r = outRid' \/ Precedes(outRid', r)
  <2>1. Faithful /\ Used(filePageIter) /\ Left = {r \in AllRids : r[1] >= filePageIter}
    BY <1>1, <1>9 DEF ScanInv, ScanOrder
  <2>2. \A p \in Pages : disk'[<<file, p>>] = disk[<<file, p>>]
    BY <1>3, <2>1, FileStays DEF ScanInv
  <2>3. AllRids' = AllRids
    BY <2>2, RecordsStay
  <2>4. Faithful'
    <3>1. ASSUME NEW j \in Frames \ {i}, bufDescTable'[j].valid, bufDescTable'[j].file = file
          PROVE  bufPool'[j] = disk'[KeyOf(j)']
      <4>1. bufDescTable[j].valid /\ bufDescTable[j].file = file /\ bufPool'[j] = bufPool[j]
            /\ KeyOf(j)' = KeyOf(j)
        BY <1>4, <3>1 DEF FrameStays, KeyOf
      <4>2. bufPool[j] = disk[KeyOf(j)] /\ KeyOf(j) \in Keys
        BY <2>1, <4>1 DEF Faithful, ScanInv, PoolInv, TypeOK
      <4>3. bufDescTable[j].pageNo \in Pages /\ KeyOf(j) = <<file, bufDescTable[j].pageNo>>
        BY <4>1, <4>2 DEF KeyOf, Keys
      <4> QED
        BY <2>2, <4>1, <4>2, <4>3
    <3>2. bufPool'[i] = disk'[KeyOf(i)']
      BY <1>4, <1>9 DEF KeyOf
    <3> QED
      BY <3>1, <3>2 DEF Faithful, KeyOf
  <2>5. PICK t : t = slot'
    OBVIOUS
  <2>6. filePageIter \in Nat \ {0} /\ INVALID \in Nat
    BY <1>2, PagesAssumption DEF INVALID
  <2>7. \A r : r \in Left <=> r \in AllRids /\ (r[1] > filePageIter \/ (r[1] = filePageIter /\ r[2] > INVALID))
    <3>1. \A r \in AllRids : r[1] \in Nat /\ r[2] \in Nat \ {0}
      BY RidFacts DEF ScanInv
    <3>2. \A r \in AllRids : r[1] >= filePageIter
                <=> (r[1] > filePageIter \/ (r[1] = filePageIter /\ r[2] > INVALID))
      BY <2>6, <3>1 DEF INVALID
    <3> QED
      BY <2>1, <3>2
  <2>8. PICK c : c = disk[<<file, filePageIter>>] /\ t = NextUsedSlot(c, INVALID)
    BY <1>1, <1>2, <1>4, <1>9, <2>2, <2>5
  <2>9. /\ t = INVALID => Left = {r \in AllRids : r[1] > filePageIter}
        /\ t # INVALID => /\ <<filePageIter, t>> \in Left
                          /\ \A r \in Left : r = <<filePageIter, t>> \/ Precedes(<<filePageIter, t>>, r)
    BY <1>2, <2>1, <2>6, <2>7, <2>8, NextRid DEF ScanInv
  <2> QED
    BY <1>1, <2>3, <2>4, <2>5, <2>9
<1>10. ScanOrder'
  <2>1. slot' = INVALID /\ undisturbed' => Left' = Left
    BY <1>1, <1>9 DEF Left, Precedes
  <2>2. undisturbed' /\ pc' = "leave" => Left' = {r \in AllRids' : r[1] > filePageIter'}
    BY <1>1, <1>9, <2>1
  <2>3. pc' = "idle" => outRid' = <<filePageIter', slot'>> /\ curPage' # NULL
    BY <1>1, <1>2, <1>4
  <2> QED
    BY <1>1, <1>9, <2>2, <2>3 DEF ScanOrder
<1>11. StepInOrder
  BY <1>1, <1>9 DEF StepInOrder
<1> QED
  BY <1>3, <1>6, <1>7, <1>8, <1>10, <1>11 DEF ScanInv

\* readPage that throws ends the call with the scan where it was.
LEMMA ReadCurrentThrows ==
    ASSUME ScanInv, ReadCurrent, exc' # "none"
    PROVE  ScanInv' /\ StepInOrder
<1>1. /\ pc = "read" /\ ReadPage(file, filePageIter)
      /\ pc' = "idle" /\ result' = exc' /\ undisturbed' = FALSE /\ outRid' = outRid
      /\ filePageIter' = filePageIter /\ curDirtyFlag' = curDirtyFlag
      /\ curPage' = curPage /\ slot' = slot
  BY DEF ReadCurrent, Throws
<1>2. curPage = NULL /\ filePageIter \in Pages /\ file \in Files /\ NULL \notin Frames
  BY <1>1, FilesAssumption, NumBufsAssumption DEF ScanInv, ScanPlace, Frames, NULL
<1>3. PoolInv' /\ OnlyWritesBack
  BY <1>1, <1>2, ReadLeavesOthers DEF ScanInv
<1>4. /\ \A j \in Frames : bufDescTable'[j].file = file => FrameStays(j)
      /\ exc' = "BufferExceeded" \/ (exc' = "InvalidPage" /\ disk'[<<file, filePageIter>>] = Free)
  <2>1. CASE ReadHit(file, filePageIter) \/ ReadMiss(file, filePageIter)
    BY <1>2, <2>1, HitEffect, MissEffect DEF ScanInv
  <2>2. CASE ReadInvalid(file, filePageIter)
    <3>1. PICK i \in Frames : /\ bufDescTable'[i] = Clear
                              /\ \A j \in Frames \ {i} : FrameStays(j)
      BY <1>2, <2>2, InvalidEffect DEF ScanInv
    <3>2. bufDescTable'[i].file # file
      BY <1>2, <3>1, NullAssumption DEF Clear
    <3>3. exc' = "InvalidPage" /\ disk'[<<file, filePageIter>>] = Free
      BY <1>2, <2>2, InvalidEffect DEF ScanInv
    <3> QED
      BY <3>1, <3>2, <3>3
  <2>3. CASE AllocBufFails
    BY <2>3, FailEffect DEF ScanInv
  <2> QED
    BY <1>1, <2>1, <2>2, <2>3 DEF ReadPage
<1>5. undisturbed => exc' = "BufferExceeded"
  <2>1. undisturbed => Faithful /\ Used(filePageIter)
    BY <1>1 DEF ScanInv, ScanOrder
  <2>2. undisturbed => disk'[<<file, filePageIter>>] # Free
    BY <1>2, <1>3, <2>1, FileStays DEF ScanInv, Used
  <2> QED
    BY <1>4, <2>2
<1>6. ScanPlace'
  BY <1>1, <1>2 DEF ScanInv, ScanPlace
<1>7. OnePagePinned'
  BY <1>1, <1>2, <1>4 DEF FrameStays, ScanInv, OnePagePinned
<1>8. NoFrameOfClosedFile' /\ ScanOrder'
  BY <1>1 DEF NoFrameOfClosedFile, ScanOrder
<1> QED
  BY <1>1, <1>3, <1>5, <1>6, <1>7, <1>8 DEF ScanInv, StepInOrder

\* The current page is unpinned: no frame of the file is pinned after it.
LEMMA CurrentUnpinned ==
    ASSUME PoolInv, ScanPlace, OnePagePinned, curPage # NULL, UnPinCurrent(filePageIter)
    PROVE  /\ PoolInv' /\ disk' = disk /\ (Faithful => Faithful')
           /\ \A j \in Frames : bufDescTable'[j].file = file => bufDescTable'[j].pinCnt = 0
<1>1. /\ curPage \in Frames /\ filePageIter \in Pages /\ file \in Files
      /\ curDirtyFlag \in BOOLEAN
      /\ bufDescTable[curPage].pinCnt = 1
      /\ hashTable[<<file, filePageIter>>] = curPage
  BY CurrentPage, FilesAssumption DEF ScanPlace
<1>2. UnPinBuffered(file, filePageIter, curDirtyFlag)
  <2>1. ~LookupFails(file, filePageIter)
    BY <1>1, NumBufsAssumption DEF LookupFails, Frames, NoFrame
  <2> QED
    BY <2>1 DEF UnPinCurrent, UnPinPage
<1>3. PoolInv' /\ disk' = disk
  BY <1>1, <1>2, UnPinEffect
<1>4. PICK i \in Frames : TakesPin(i, file, filePageIter)
  BY <1>1, <1>2, UnPinEffect
<1>5. bufDescTable'[curPage].pinCnt = 0 /\ i = curPage
  BY <1>1, <1>4 DEF TakesPin
<1>6. \A j \in Frames \ {i} : FrameStays(j)
  BY <1>4 DEF TakesPin
<1>7. \A j \in Frames : bufDescTable'[j].file = file => bufDescTable'[j].pinCnt = 0
  BY <1>5, <1>6 DEF FrameStays, OnePagePinned
<1>8. /\ bufDescTable[i].valid /\ bufDescTable[i].file = file
      /\ bufDescTable[i].pageNo = filePageIter
      /\ bufDescTable'[i].file = file /\ bufDescTable'[i].pageNo = filePageIter
      /\ bufPool'[i] = bufPool[i]
  BY <1>4 DEF TakesPin
<1>9. Faithful => Faithful'
  BY <1>3, <1>6, <1>8 DEF Faithful, KeyOf, FrameStays
<1> QED
  BY <1>3, <1>7, <1>9

\* A page that was read to its end is unpinned, and the iterator goes on.
LEMMA LeavePageStep ==
    ASSUME ScanInv, LeavePage
    PROVE  ScanInv' /\ StepInOrder
<1>1. pc = "leave" /\ curPage # NULL /\ slot' = slot
  BY DEF LeavePage, ScanInv, ScanPlace
<1>2. /\ filePageIter \in Pages /\ (Faithful => Used(filePageIter))
  BY <1>1, CurrentPage DEF ScanInv
<1>3. CASE Used(filePageIter)
  <2>1. /\ UnPinCurrent(filePageIter)
        /\ curPage' = NULL /\ curDirtyFlag' = FALSE
        /\ filePageIter' = NextUsedPage(filePageIter)
        /\ IF filePageIter' = INVALID
           THEN pc' = "idle" /\ result' = "EndOfFile"
           ELSE pc' = "read" /\ result' = result
        /\ outRid' = outRid /\ undisturbed' = undisturbed
    BY <1>3 DEF LeavePage, AdvancedPage, EndOfFile, Continues
  <2>2. /\ PoolInv' /\ disk' = disk /\ (Faithful => Faithful')
        /\ \A j \in Frames : bufDescTable'[j].file = file => bufDescTable'[j].pinCnt = 0
    BY <1>1, <2>1, CurrentUnpinned DEF ScanInv
  <2>3. \/ filePageIter' = INVALID /\ \A q \in Pages : Used(q) => q <= filePageIter
        \/ /\ filePageIter' \in Pages /\ filePageIter' > filePageIter
           /\ filePageIter' # INVALID
           /\ Used(filePageIter')
           /\ \A q \in Pages : Used(q) /\ q > filePageIter => filePageIter' <= q
    BY <1>2, <2>1, NextPageFacts
  <2>4. ScanPlace' /\ OnePagePinned' /\ NoFrameOfClosedFile'
    <3>1. NULL \notin Frames
      BY NumBufsAssumption DEF NULL, Frames
    <3> QED
      BY <1>1, <2>1, <2>2, <2>3, <3>1 DEF ScanInv, ScanPlace, OnePagePinned, NoFrameOfClosedFile
  <2>5. AllRids' = AllRids /\ \A p \in Pages : Used(p)' <=> Used(p)
    BY <2>2, RecordsStay
  <2>6. Left' = Left
    BY <2>1, <2>5 DEF Left, Precedes
  <2>7. undisturbed => Left = {r \in AllRids : r[1] > filePageIter} /\ Faithful
    BY <1>1 DEF ScanInv, ScanOrder
  <2>8. \A r \in AllRids : r[1] \in Pages /\ Used(r[1]) /\ r[1] \in Nat
    BY RidFacts DEF ScanInv
  <2>9. filePageIter \in Nat
    BY <1>2, PagesAssumption
  <2>10. undisturbed /\ filePageIter' = INVALID => Left = {}
    <3>1. filePageIter' = INVALID => \A r \in AllRids : r[1] <= filePageIter
      BY <2>3, <2>8
    <3> QED
      BY <2>7, <2>8, <2>9, <3>1
  <2>11. undisturbed /\ filePageIter' # INVALID =>
                Left = {r \in AllRids : r[1] >= filePageIter'}
    <3>1. filePageIter' # INVALID => filePageIter' \in Nat
      BY <2>3, PagesAssumption
    <3>2. filePageIter' # INVALID =>
                \A r \in AllRids : r[1] > filePageIter <=> r[1] >= filePageIter'
      BY <2>3, <2>8, <2>9, <3>1
    <3> QED
      BY <2>7, <3>2
  <2>12. ScanOrder'
    BY <2>1, <2>2, <2>3, <2>5, <2>6, <2>7, <2>10, <2>11 DEF ScanOrder
  <2>13. StepInOrder
    BY <2>1, <2>10 DEF StepInOrder
  <2> QED
    BY <2>2, <2>4, <2>12, <2>13 DEF ScanInv
<1>4. CASE ~Used(filePageIter)
  <2>1. /\ pc' = "idle" /\ result' = "InvalidPage" /\ undisturbed' = FALSE
        /\ UNCHANGED vars /\ curPage' = curPage /\ curDirtyFlag' = curDirtyFlag
        /\ filePageIter' = filePageIter
    BY <1>4 DEF LeavePage, Throws
  <2>2. PoolInv' /\ bufDescTable' = bufDescTable /\ bufPool' = bufPool
    BY <2>1, PoolUnchanged DEF ScanInv
  <2>3. ~undisturbed
    BY <1>2, <1>4 DEF ScanInv, ScanOrder
  <2>4. ScanPlace' /\ OnePagePinned'
    BY <1>1, <2>1, <2>2 DEF ScanInv, ScanPlace, OnePagePinned
  <2>5. NoFrameOfClosedFile' /\ ScanOrder' /\ StepInOrder
    BY <2>1, <2>3 DEF NoFrameOfClosedFile, ScanOrder, StepInOrder
  <2> QED
    BY <2>2, <2>4, <2>5 DEF ScanInv
<1> QED
  BY <1>3, <1>4

\* markDirty.
LEMMA MarkDirtyStep ==
    ASSUME ScanInv, MarkDirty
    PROVE  ScanInv'
<1>1. /\ UNCHANGED vars /\ pc' = pc /\ filePageIter' = filePageIter /\ curPage' = curPage
      /\ slot' = slot /\ outRid' = outRid /\ result' = result
      /\ undisturbed' = undisturbed /\ curDirtyFlag' = TRUE
  BY DEF MarkDirty
<1>2. /\ PoolInv' /\ (Faithful => Faithful') /\ AllRids' = AllRids
      /\ bufDescTable' = bufDescTable /\ bufPool' = bufPool
      /\ \A p \in Pages : Used(p)' <=> Used(p)
  BY <1>1, PoolUnchanged DEF ScanInv
<1>3. ScanPlace' /\ OnePagePinned' /\ NoFrameOfClosedFile'
  BY <1>1, <1>2 DEF ScanInv, ScanPlace, OnePagePinned, NoFrameOfClosedFile
<1>4. Left' = Left
  BY <1>1, <1>2 DEF Left, Precedes
<1>5. pc # "read"
  BY DEF MarkDirty
<1>6. ScanOrder'
  BY <1>1, <1>2, <1>4, <1>5 DEF ScanInv, ScanOrder
<1> QED
  BY <1>2, <1>3, <1>6 DEF ScanInv

\* The constructor: the pool has no frame of the file, so it is faithful.
LEMMA OpenStep ==
    ASSUME ScanInv, Open
    PROVE  ScanInv'
<1>1. /\ pc = "closed" /\ pc' = "idle" /\ filePageIter' = NextUsedPage(INVALID)
      /\ curPage' = NULL /\ slot' = INVALID /\ curDirtyFlag' = FALSE
      /\ outRid' = NoRid /\ result' = "none" /\ UNCHANGED vars
  BY DEF Open
<1>2. /\ PoolInv' /\ (Faithful => Faithful') /\ AllRids' = AllRids
      /\ bufDescTable' = bufDescTable
  BY <1>1, PoolUnchanged DEF ScanInv
<1>3. \A i \in Frames : bufDescTable[i].file # file
  BY <1>1 DEF ScanInv, NoFrameOfClosedFile
<1>4. Faithful'
  BY <1>2, <1>3 DEF Faithful
<1>5. \/ filePageIter' = INVALID /\ \A q \in Pages : Used(q) => q <= INVALID
      \/ filePageIter' \in Pages
  BY <1>1, NextPageFacts
<1>6. ScanPlace'
  BY <1>1, <1>5 DEF ScanPlace, INVALID
<1>7. OnePagePinned' /\ NoFrameOfClosedFile'
  BY <1>1, <1>2, <1>3 DEF OnePagePinned, NoFrameOfClosedFile
<1>8. filePageIter' = INVALID => Left' = {}
  <2>1. \A r \in AllRids : r[1] \in Pages /\ Used(r[1]) /\ r[1] \in Nat \ {0}
    BY RidFacts DEF ScanInv
  <2>2. filePageIter' = INVALID => AllRids = {}
    BY <1>5, <2>1, PagesAssumption DEF INVALID
  <2> QED
    BY <1>2, <2>2 DEF Left
<1>9. ScanOrder'
  BY <1>1, <1>4, <1>8 DEF ScanOrder
<1> QED
  BY <1>2, <1>6, <1>7, <1>9 DEF ScanInv

\* The destructor, up to its flushFile.
LEMMA CloseStep ==
    ASSUME ScanInv, Close
    PROVE  ScanInv'
<1>1. pc = "idle" /\ slot' = slot
  BY DEF Close
<1>2. CASE /\ curPage = NULL /\ Continues("flush")
           /\ UNCHANGED <<vars, filePageIter, curPage, curDirtyFlag>>
  <2>1. /\ PoolInv' /\ (Faithful => Faithful') /\ bufDescTable' = bufDescTable
    BY <1>2, PoolUnchanged DEF ScanInv
  <2>2. ScanPlace' /\ OnePagePinned' /\ NoFrameOfClosedFile' /\ ScanOrder'
    BY <1>1, <1>2, <2>1 DEF Continues, ScanInv, ScanPlace, OnePagePinned,
                            NoFrameOfClosedFile, ScanOrder
  <2> QED
    BY <2>1, <2>2 DEF ScanInv
<1>3. CASE /\ curPage # NULL /\ Used(filePageIter) /\ UnPinCurrent(filePageIter)
           /\ curPage' = NULL /\ curDirtyFlag' = FALSE
           /\ filePageIter' = NextUsedPage(INVALID)
           /\ Continues("flush")
  <2>1. /\ PoolInv' /\ (Faithful => Faithful')
        /\ \A j \in Frames : bufDescTable'[j].file = file => bufDescTable'[j].pinCnt = 0
    BY <1>3, CurrentUnpinned DEF ScanInv
  <2>2. filePageIter' \in Pages \cup {INVALID}
    BY <1>3, NextPageFacts
  <2>3. NULL \notin Frames
    BY NumBufsAssumption DEF NULL, Frames
  <2>4. ScanPlace' /\ OnePagePinned' /\ NoFrameOfClosedFile' /\ ScanOrder'
    BY <1>1, <1>3, <2>1, <2>2, <2>3 DEF Continues, ScanInv, ScanPlace, OnePagePinned,
                                        NoFrameOfClosedFile, ScanOrder
  <2> QED
    BY <2>1, <2>4 DEF ScanInv
<1>4. CASE /\ curPage # NULL /\ ~Used(filePageIter)
           /\ pc' = "terminated" /\ result' = "InvalidPage"
           /\ UNCHANGED <<vars, filePageIter, curPage, curDirtyFlag, outRid, undisturbed>>
  <2>1. /\ PoolInv' /\ (Faithful => Faithful') /\ bufDescTable' = bufDescTable
    BY <1>4, PoolUnchanged DEF ScanInv
  <2>2. ScanPlace' /\ OnePagePinned' /\ NoFrameOfClosedFile' /\ ScanOrder'
    BY <1>1, <1>4, <2>1 DEF ScanInv, ScanPlace, OnePagePinned,
                            NoFrameOfClosedFile, ScanOrder
  <2> QED
    BY <2>1, <2>2 DEF ScanInv
<1> QED
  BY <1>2, <1>3, <1>4 DEF Close

\* flushFile in the destructor: no page of the file is pinned, so it succeeds.
LEMMA CloseFileStep ==
    ASSUME ScanInv, CloseFile
    PROVE  ScanInv'
<1>1. /\ pc = "flush" /\ FlushFile(file)
      /\ pc' = IF exc' = "none" THEN "closed" ELSE "terminated"
      /\ filePageIter' = filePageIter /\ curPage' = curPage /\ slot' = slot
      /\ curDirtyFlag' = curDirtyFlag
  BY DEF CloseFile, FlushScanned
<1>2. curPage = NULL /\ NULL \notin Frames /\ file \in Files
  BY <1>1, NumBufsAssumption, FilesAssumption DEF ScanInv, ScanPlace, NULL, Frames
<1>3. \A i \in Frames : bufDescTable[i].file = file => bufDescTable[i].pinCnt = 0
  BY <1>2 DEF ScanInv, OnePagePinned
<1>4. PoolInv' /\ exc' = "none" /\ \A j \in Frames : bufDescTable'[j].file # file
  BY <1>1, <1>2, <1>3, FlushEffect DEF ScanInv
<1>5. ScanPlace' /\ OnePagePinned' /\ NoFrameOfClosedFile'
  BY <1>1, <1>2, <1>4 DEF ScanInv, ScanPlace, OnePagePinned, NoFrameOfClosedFile
<1>6. ScanOrder'
  BY <1>1, <1>4 DEF ScanOrder, Faithful
<1> QED
  BY <1>4, <1>5, <1>6 DEF ScanInv

\* The rest of the program reads and unpins pages of another file: the scan's
\* page stays, and an eviction writes what the file already has.
LEMMA UsePoolStep ==
    ASSUME ScanInv, UsePool
    PROVE  ScanInv'
<1>1. /\ pc \in {"idle", "closed"} /\ pc' = pc /\ filePageIter' = filePageIter
      /\ curPage' = curPage /\ slot' = slot /\ curDirtyFlag' = curDirtyFlag
      /\ outRid' = outRid /\ result' = result /\ undisturbed' = undisturbed
  BY DEF UsePool, scanVars
<1>2. file \in Files /\ Other \in Files /\ file # Other
  BY FilesAssumption
<1>3. /\ PoolInv' /\ OnlyWritesBack
      /\ \A j \in Frames :
            /\ bufDescTable'[j].file = file => FrameStays(j)
            /\ bufDescTable[j].pinCnt > 0 /\ bufDescTable[j].file = file => FrameStays(j)
  <2>1. PICK p \in OtherPages, b \in BOOLEAN : ReadPage(Other, p) \/ UnPinPage(Other, p, b)
    BY DEF UsePool
  <2>2. p \in Pages
    BY PagesAssumption
  <2>3. CASE ReadPage(Other, p)
    BY <1>2, <2>2, <2>3, ReadLeavesOthers DEF ScanInv
  <2>4. CASE UnPinPage(Other, p, b)
    BY <1>2, <2>2, <2>4, UnPinLeavesOthers DEF ScanInv
  <2> QED
    BY <2>1, <2>3, <2>4
<1>4. curPage # NULL => curPage \in Frames /\ FrameStays(curPage)
                        /\ bufDescTable[curPage].file = file
  BY <1>3, CurrentPage DEF ScanInv
<1>5. ScanPlace'
  BY <1>1, <1>4 DEF ScanInv, ScanPlace, FrameStays
<1>6. OnePagePinned'
  <2>1. \A i \in Frames : bufDescTable'[i].file = file =>
            bufDescTable'[i].pinCnt = (IF i = curPage' THEN 1 ELSE 0)
    BY <1>1, <1>3 DEF FrameStays, ScanInv, OnePagePinned
  <2>2. curPage' # NULL =>
            /\ bufDescTable'[curPage'].file = file
            /\ bufDescTable'[curPage'].pageNo = filePageIter'
            /\ bufPool'[curPage'] = bufPool[curPage]
    BY <1>1, <1>4 DEF FrameStays, ScanInv, OnePagePinned
  <2> QED
    BY <1>1, <2>1, <2>2 DEF ScanInv, OnePagePinned
<1>7. NoFrameOfClosedFile'
  BY <1>1, <1>3 DEF FrameStays, ScanInv, NoFrameOfClosedFile
<1>8. ASSUME undisturbed
      PROVE  Faithful' /\ AllRids' = AllRids /\ Left' = Left
  <2>1. Faithful
    BY <1>8 DEF ScanInv, ScanOrder
  <2>2. \A p \in Pages : disk'[<<file, p>>] = disk[<<file, p>>]
    BY <1>3, <2>1, FileStays DEF ScanInv
  <2>3. ASSUME NEW j \in Frames, bufDescTable'[j].valid, bufDescTable'[j].file = file
        PROVE  bufPool'[j] = disk'[KeyOf(j)']
    <3>1. bufDescTable[j].valid /\ bufDescTable[j].file = file /\ bufPool'[j] = bufPool[j]
          /\ KeyOf(j)' = KeyOf(j)
      BY <1>3, <2>3 DEF FrameStays, KeyOf
    <3>2. bufPool[j] = disk[KeyOf(j)] /\ KeyOf(j) \in Keys
      BY <2>1, <3>1 DEF Faithful, ScanInv, PoolInv, TypeOK
    <3>3. bufDescTable[j].pageNo \in Pages /\ KeyOf(j) = <<file, bufDescTable[j].pageNo>>
      BY <3>1, <3>2 DEF KeyOf, Keys
    <3> QED
      BY <2>2, <3>1, <3>2, <3>3
  <2>4. AllRids' = AllRids
    BY <2>2, RecordsStay
  <2> QED
    BY <1>1, <2>3, <2>4 DEF Faithful, KeyOf, Left, Precedes
<1>9. ScanOrder'
  BY <1>1, <1>8 DEF ScanInv, ScanOrder
<1> QED
  BY <1>3, <1>5, <1>6, <1>7, <1>9 DEF ScanInv

\* The file is changed behind the pool: frames and scan stay as they are.
LEMMA ChangeFileStep ==
    ASSUME ScanInv, ChangeFile
    PROVE  ScanInv'
<1>1. PICK p \in Pages, c \in Contents \cup {Free} :
        disk' = [disk EXCEPT ![<<file, p>>] = c]
  BY DEF ChangeFile
<1>2. /\ undisturbed' = FALSE
      /\ bufDescTable' = bufDescTable /\ bufPool' = bufPool /\ hashTable' = hashTable
      /\ clockHand' = clockHand /\ unreported' = unreported /\ exc' = exc
      /\ pc' = pc /\ filePageIter' = filePageIter /\ curPage' = curPage /\ slot' = slot
      /\ curDirtyFlag' = curDirtyFlag /\ outRid' = outRid /\ result' = result
  BY DEF ChangeFile
<1>3. disk' \in [Keys -> Contents \cup {Free}]
  BY <1>1 DEF ScanInv, PoolInv, TypeOK
<1>4. PoolInv'
  BY <1>2, <1>3 DEF ScanInv, PoolInv, TypeOK, HashMatchesFrames, KeyOf
<1>5. ScanPlace' /\ OnePagePinned' /\ NoFrameOfClosedFile' /\ ScanOrder'
  BY <1>2 DEF ScanInv, ScanPlace, OnePagePinned, NoFrameOfClosedFile, ScanOrder
<1> QED
  BY <1>4, <1>5 DEF ScanInv

\* A stuttering step.
LEMMA ScanStutter ==
    ASSUME ScanInv, UNCHANGED allVars
    PROVE  ScanInv'
<1>1. /\ UNCHANGED vars /\ pc' = pc /\ filePageIter' = filePageIter /\ curPage' = curPage
      /\ slot' = slot /\ curDirtyFlag' = curDirtyFlag /\ outRid' = outRid
      /\ result' = result /\ undisturbed' = undisturbed
  BY DEF allVars, scanVars
<1>2. /\ PoolInv' /\ (Faithful => Faithful') /\ AllRids' = AllRids
      /\ bufDescTable' = bufDescTable /\ bufPool' = bufPool
      /\ \A p \in Pages : Used(p)' <=> Used(p)
  BY <1>1, PoolUnchanged DEF ScanInv
<1>3. ScanPlace' /\ OnePagePinned' /\ NoFrameOfClosedFile'
  BY <1>1, <1>2 DEF ScanInv, ScanPlace, OnePagePinned, NoFrameOfClosedFile
<1>4. Left' = Left
  BY <1>1, <1>2 DEF Left, Precedes
<1>5. ScanOrder'
  BY <1>1, <1>2, <1>4 DEF ScanInv, ScanOrder, ScanPlace
<1> QED
  BY <1>2, <1>3, <1>5 DEF ScanInv

\* Before the first scan the pool is empty.
LEMMA ScanInitInv == ScanInit => ScanInv
<1> SUFFICES ASSUME ScanInit PROVE ScanInv
  OBVIOUS
<1>1. \A i \in Frames : bufDescTable[i] = Clear /\ ~bufDescTable[i].valid
                        /\ bufDescTable[i].file # file
  BY FilesAssumption, NullAssumption DEF ScanInit, Clear
<1>2. NoFrame \notin Frames
  BY NumBufsAssumption DEF NoFrame, Frames
<1>3. TypeOK
  BY <1>1, ClearType, NumBufsAssumption, FreshAssumption DEF ScanInit, TypeOK, Frames, Exceptions
<1>4. HashMatchesFrames /\ unreported = {}
  BY <1>1, <1>2 DEF ScanInit, HashMatchesFrames
<1>5. ScanPlace /\ OnePagePinned /\ NoFrameOfClosedFile /\ ScanOrder
  BY <1>1 DEF ScanInit, ScanPlace, OnePagePinned, NoFrameOfClosedFile, ScanOrder,
              Faithful, INVALID
<1> QED
  BY <1>3, <1>4, <1>5 DEF ScanInv, PoolInv

\* The steps of scanNext keep the invariant, and the order of the records.
LEMMA ScanNextSteps ==
    ASSUME ScanInv, ScanNext \/ ReadCurrent \/ LeavePage
    PROVE  ScanInv' /\ StepInOrder
BY ScanAtEnd, ScanStarts, ScanGoesOn, ReadCurrentReturns, ReadCurrentThrows, LeavePageStep

LEMMA ScanNextInv == ScanInv /\ [ScanNextState]_allVars => ScanInv'
BY ScanNextSteps, MarkDirtyStep, OpenStep, CloseStep, CloseFileStep, UsePoolStep,
   ChangeFileStep, ScanStutter DEF ScanNextState, ScanStep, InCall, Terminated

LEMMA ScanInvariant == ScanSpec => []ScanInv
BY ScanInitInv, ScanNextInv, PTL DEF ScanSpec

\* Whatever calls failed before and whatever the rest of the program did to
\* the file and the pool, the scan holds one pin while it has a current page
\* and none otherwise, and the record it returned last is in its frame.
THEOREM ScanPinsOnePage == ScanSpec => []OnePagePinned
<1>1. ScanInv => OnePagePinned
  BY DEF ScanInv
<1> QED
  BY <1>1, ScanInvariant, PTL

\* A closed scan leaves no frame that refers to its File object.
THEOREM ClosedFileLeft == ScanSpec => []NoFrameOfClosedFile
<1>1. ScanInv => NoFrameOfClosedFile
  BY DEF ScanInv
<1> QED
  BY <1>1, ScanInvariant, PTL

\* Every record once and in order, from files of any size through pools of any
\* size, as long as no call fails and nobody changes the file.
THEOREM RecordsInOrder == ScanSpec => InOrder
<1>1. ScanInv /\ [ScanNextState]_allVars =>
        [undisturbed /\ pc' = "idle" /\ (ScanNext \/ ReadCurrent \/ LeavePage) =>
            LET left == {r \in AllRids : Precedes(outRid, r)} IN
            \/ /\ result' = "rid"
               /\ outRid' \in left /\ \A r \in left : r = outRid' \/ Precedes(outRid', r)
            \/ result' = "EndOfFile" /\ left = {}
            \/ result' = "BufferExceeded"]_allVars
  BY ScanNextSteps DEF StepInOrder, Left
<1> QED
  BY <1>1, ScanInvariant, PTL DEF ScanSpec, InOrder

=============================================================================
