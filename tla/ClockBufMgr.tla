----------------------------- MODULE ClockBufMgr -----------------------------
(***************************************************************************)
(* The buffer manager of CSE132C_BufferMgr-master (buffer.cpp there).  Its *)
(* descriptors, hash table and clock are those of BufMgr; its operations   *)
(* differ: allocBuf counts the pinned frames it meets, the file is asked   *)
(* before a frame is, an absent page is no error for unPinPage and         *)
(* disposePage, and flushFile looks into every descriptor.                 *)
(***************************************************************************)
EXTENDS BufMgr, FiniteSets

-----------------------------------------------------------------------------
(***************************************************************************)
(* allocBuf: it gives up when it has counted as many pinned frames as the  *)
(* pool has.  A frame that keeps its refbit is not counted at its first    *)
(* visit; one without is counted at every visit.                           *)
(***************************************************************************)
Visits == 1 .. (2 * NumBufs + 1)

\* Mutants: every frame that is passed is counted; only the first turn counts.
CountsPassed(k) == TRUE
CountsFirstTurn(k) ==
    LET d == bufDescTable[HandAt(k)] IN d.pinCnt > 0 /\ ~d.refbit /\ k <= NumBufs

Counts(k) ==
    LET d == bufDescTable[HandAt(k)] IN d.pinCnt > 0 /\ (~d.refbit \/ k > NumBufs)

NumPinned(k) == Cardinality({j \in 1 .. (k - 1) : Counts(j)})

\* The count is looked at before the frame that was reached.
GivesUpAt(k) == NumPinned(k) = NumBufs

EndsAt(k) ==
    /\ GivesUpAt(k) \/ UsableAt(k)
    /\ \A j \in 1 .. (k - 1) : ~GivesUpAt(j) /\ ~UsableAt(j)

AllocBufExceeds(newDisk) ==
    \E k \in Visits :
        /\ EndsAt(k) /\ GivesUpAt(k)
        /\ bufDescTable' = Swept(k - 1)
        /\ clockHand' = HandAt(k)
        /\ disk' = newDisk
        /\ exc' = "BufferExceeded"
        /\ UNCHANGED <<bufPool, hashTable, unreported>>

\* A frame is found for page p of f, whose bytes c were read from the file or,
\* if it is created, put there before.
AllocBufGives(f, p, c, created) ==
    \E k \in Visits :
        LET flushed == DiskAfterWriteBack(HandAt(k))
        IN  /\ EndsAt(k) /\ ~GivesUpAt(k)
            /\ AllocBufFor(k, f, p, c,
                   IF created THEN [flushed EXCEPT ![<<f, p>>] = c] ELSE flushed)

PoolReadPage(f, p) ==
    \/ ReadHit(f, p)
    \/ /\ hashTable[<<f, p>>] = NoFrame
       /\ IF disk[<<f, p>>] = Free
          THEN /\ exc' = "InvalidPage"
               /\ UNCHANGED <<bufDescTable, bufPool, hashTable, clockHand, disk, unreported>>
          ELSE \/ AllocBufGives(f, p, disk[<<f, p>>], FALSE)
               \/ AllocBufExceeds(disk)

\* The page is in the file before a frame is sought, and stays there if none
\* is found.
PoolAllocPage(f) ==
    \E p \in Pages :
        /\ disk[<<f, p>>] = Free
        /\ \/ AllocBufGives(f, p, Fresh, TRUE)
           \/ AllocBufExceeds([disk EXCEPT ![<<f, p>>] = Fresh])

Nothing ==
    /\ exc' = "none"
    /\ UNCHANGED <<bufDescTable, bufPool, hashTable, clockHand, disk, unreported>>

\* Mutant: a change reported with the last pin is forgotten.
MarkedIfPinnedTwice(d, dirty) == [d EXCEPT !.dirty = (dirty /\ d.pinCnt > 1) \/ d.dirty,
                                           !.pinCnt = @ - 1]

Returned(d, dirty) == [d EXCEPT !.dirty = dirty \/ d.dirty, !.pinCnt = @ - 1]

PoolUnPinPage(f, p, dirty) ==
    LET i == hashTable[<<f, p>>] IN
    \/ i = NoFrame /\ Nothing
    \/ /\ i # NoFrame /\ bufDescTable[i].pinCnt = 0
       /\ exc' = "PageNotPinned"
       /\ UNCHANGED <<bufDescTable, bufPool, hashTable, clockHand, disk, unreported>>
    \/ /\ i # NoFrame /\ bufDescTable[i].pinCnt > 0
       /\ bufDescTable[i].pinCnt = 1 /\ i \in unreported => dirty
       /\ bufDescTable' = [bufDescTable EXCEPT ![i] = Returned(@, dirty)]
       /\ unreported' = IF dirty THEN unreported \ {i} ELSE unreported
       /\ exc' = "none"
       /\ UNCHANGED <<bufPool, hashTable, clockHand, disk>>

\* The process ends, its pool with it; the next one starts with an empty pool.
PoolLost ==
    /\ bufDescTable' = [i \in Frames |-> Clear]
    /\ bufPool' = [i \in Frames |-> Fresh]
    /\ hashTable' = [k \in Keys |-> NoFrame]
    /\ clockHand' = NumBufs - 1
    /\ unreported' = {}

\* flushFile compares the name of every frame's file with that of f.  In an
\* empty frame there is no file: the null pointer is followed, and the process
\* ends with the frames before it flushed and the others lost.
PoolFlushFile(f) ==
    \E stop \in 0 .. NumBufs :
        LET visited == {i \in 0 .. (stop - 1) : Holds(i, f)} IN
        /\ \A i \in 0 .. (stop - 1) : bufDescTable[i].file # NoFile
        /\ \A i \in visited : bufDescTable[i].pinCnt = 0
        /\ disk' = DiskAfterFlush(visited)
        /\ \/ /\ stop < NumBufs /\ bufDescTable[stop].file = NoFile
              /\ exc' = "crash" /\ PoolLost
           \/ /\ \/ stop = NumBufs /\ exc' = "none"
                 \/ /\ stop < NumBufs
                    /\ Holds(stop, f) /\ bufDescTable[stop].pinCnt > 0
                    /\ exc' = "PagePinned"
              /\ hashTable' = [k \in Keys |-> IF \E i \in visited : KeyOf(i) = k
                                              THEN NoFrame ELSE hashTable[k]]
              /\ bufDescTable' = [i \in Frames |->
                                    IF i \in visited THEN Clear ELSE bufDescTable[i]]
              /\ UNCHANGED <<bufPool, clockHand, unreported>>

\* Mutant: a buffered page stays in the pool.
DisposeUnbuffered(f, p) ==
    /\ disk' = [disk EXCEPT ![<<f, p>>] = Free]
    /\ exc' = IF disk[<<f, p>>] = Free THEN "InvalidPage" ELSE "none"
    /\ UNCHANGED <<bufDescTable, bufPool, hashTable, clockHand, unreported>>

PoolDisposePage(f, p) ==
    \/ DisposeBuffered(f, p)
    \/ /\ hashTable[<<f, p>>] = NoFrame
       /\ disk' = [disk EXCEPT ![<<f, p>>] = Free]
       /\ exc' = IF disk[<<f, p>>] = Free THEN "InvalidPage" ELSE "none"
       /\ UNCHANGED <<bufDescTable, bufPool, hashTable, clockHand, unreported>>

PoolNext ==
    \/ \E f \in Files, p \in Pages :
        \/ PoolReadPage(f, p)
        \/ \E dirty \in BOOLEAN : PoolUnPinPage(f, p, dirty)
        \/ PoolDisposePage(f, p)
    \/ \E f \in Files : PoolAllocPage(f) \/ PoolFlushFile(f)
    \/ \E i \in Frames, c \in Contents : WritePage(i, c)
    \/ Restart

PoolSpec == Init /\ [][PoolNext]_vars

-----------------------------------------------------------------------------
(***************************************************************************)
(* Properties, besides HashMatchesFrames, CachedPagesExist and             *)
(* CleanFramesMatchDisk of BufMgr.                                         *)
(***************************************************************************)
PinnedFrames == {i \in Frames : bufDescTable[i].pinCnt > 0}

WouldExceed == \E k \in Visits : EndsAt(k) /\ GivesUpAt(k)

\* Every search ends, after two turns and a step at most: allocBuf returns a
\* frame or throws, though its loop has no bound.
AllocBufEnds == \E k \in Visits : EndsAt(k)

\* allocBuf throws when every frame is pinned, and gives up on a pool that has
\* a usable frame only if at least half of it is pinned: no pinned frame is
\* counted more than twice.
ExceededNeedsHalfPinned ==
    /\ PinnedFrames = Frames => WouldExceed
    /\ WouldExceed => 2 * Cardinality(PinnedFrames) >= NumBufs

\* A page somebody has pinned keeps its frame and its bytes through the calls
\* of everybody else, failed ones included, until the page is disposed of (which
\* the code does to pinned pages too) or the process ends.
PoolPinnedFramesStay ==
    [][\A i \in PinnedFrames :
        \/ Restart \/ exc' = "crash"
        \/ PoolDisposePage(bufDescTable[i].file, bufDescTable[i].pageNo)
        \/ /\ KeyOf(i)' = KeyOf(i) /\ bufDescTable'[i].valid
           /\ bufPool'[i] = bufPool[i] \/ \E c \in Contents : WritePage(i, c)]_vars

=============================================================================
