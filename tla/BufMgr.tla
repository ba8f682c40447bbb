------------------------------- MODULE BufMgr -------------------------------
(***************************************************************************)
(* The buffer manager of CSE132C_TreeIndex-master: buffer.cpp, buffer.h    *)
(* and the hash table of bufHashTbl.cpp, over the page files it reads and  *)
(* writes.  One action per public operation; each covers the whole call,   *)
(* its exceptions included, and leaves in exc the exception it ended with. *)
(*                                                                         *)
(* The callers are modelled by what they may do with the pointer they got: *)
(* WritePage changes the bytes of a pinned frame at any time, and the last *)
(* caller to unpin a frame says that it is dirty when its bytes were       *)
(* changed and nobody has said so.                                         *)
(***************************************************************************)
EXTENDS Integers

CONSTANTS
    NumBufs,    \* frames of the pool
    Files,      \* File objects, of distinct page files
    Pages,      \* page numbers
    Contents,   \* what the bytes of a page may be (its list pointer excluded:
                \* PageFile::writePage keeps the one on disk)
    Fresh,      \* the bytes of a newly allocated page
    Free,       \* the page does not exist on disk: never allocated or deleted
    NoFile,     \* the null File pointer
    NoPage,     \* Page::INVALID_NUMBER
    MaxPin      \* bound: pins a frame may collect

ASSUME NumBufsAssumption == NumBufs \in Nat \ {0}
ASSUME MaxPinAssumption == MaxPin \in Nat \ {0}
ASSUME FreshAssumption == Fresh \in Contents
ASSUME FreeAssumption == Free \notin Contents
ASSUME NullAssumption == NoFile \notin Files /\ NoPage \notin Pages

VARIABLES
    bufDescTable,  \* frame -> descriptor
    bufPool,       \* frame -> bytes
    hashTable,     \* <<file, page>> -> frame, or NoFrame when not buffered
    clockHand,
    disk,          \* <<file, page>> -> bytes on disk, or Free
    unreported,    \* frames changed by a holder and not yet reported dirty
    exc            \* exception the last call ended with, or "none"

vars == <<bufDescTable, bufPool, hashTable, clockHand, disk, unreported, exc>>

Frames == 0 .. (NumBufs - 1)
NoFrame == -1
Keys == Files \X Pages

BufDesc == [file : Files \cup {NoFile}, pageNo : Pages \cup {NoPage},
            pinCnt : Nat, dirty : BOOLEAN, valid : BOOLEAN, refbit : BOOLEAN]

\* "crash", the end of the process, is what ClockBufMgr adds.
Exceptions == {"none", "BufferExceeded", "InvalidPage", "HashNotFound",
               "PageNotPinned", "PagePinned", "crash"}

\* BufDesc::Clear
Clear == [file |-> NoFile, pageNo |-> NoPage, pinCnt |-> 0,
          dirty |-> FALSE, valid |-> FALSE, refbit |-> FALSE]

\* BufDesc::Set
Set(f, p) == [file |-> f, pageNo |-> p, pinCnt |-> 1,
              dirty |-> FALSE, valid |-> TRUE, refbit |-> TRUE]

Init ==
    /\ bufDescTable = [i \in Frames |-> Clear]
    /\ bufPool = [i \in Frames |-> Fresh]
    /\ hashTable = [k \in Keys |-> NoFrame]
    /\ clockHand = NumBufs - 1
    /\ disk = [k \in Keys |-> Free]
    /\ unreported = {}
    /\ exc = "none"

-----------------------------------------------------------------------------
(***************************************************************************)
(* allocBuf: the clock moves at most twice around the pool.  A frame that  *)
(* is passed loses its refbit, so at its second visit only a pin protects  *)
(* it.                                                                     *)
(***************************************************************************)
\* Mutant: one turn of the clock only.
OneTurn == 1 .. NumBufs

ScanSteps == 1 .. (2 * NumBufs)

\* Where the clock hand is after k calls of advanceClock.
HandAt(k) == (clockHand + k) % NumBufs

\* Mutants: the pin count, and the refbit, not looked at.
UsableIgnoringPins(k) ==
    LET d == bufDescTable[HandAt(k)] IN ~d.valid \/ ~d.refbit \/ k > NumBufs
UsableIgnoringRefbit(k) ==
    LET d == bufDescTable[HandAt(k)] IN ~d.valid \/ d.pinCnt = 0

\* The k-th frame that is visited ends the search.
UsableAt(k) ==
    LET d == bufDescTable[HandAt(k)]
    IN  ~d.valid \/ (d.pinCnt = 0 /\ (~d.refbit \/ k > NumBufs))

StopsAt(k) == UsableAt(k) /\ \A j \in 1 .. (k - 1) : ~UsableAt(j)

BufferExceeded == \A k \in ScanSteps : ~UsableAt(k)

\* The descriptors after k frames were visited, before the last one is reused.
Swept(k) ==
    [i \in Frames |->
        IF \E j \in 1 .. k : HandAt(j) = i
        THEN [bufDescTable[i] EXCEPT !.refbit = FALSE]
        ELSE bufDescTable[i]]

\* Mutants: the evicted page keeps its hash entry; its bytes are dropped.
HashKeepsEntry(i) == hashTable
DiskWithoutWriteBack(i) == disk

\* A frame leaves the hash table and its bytes go to disk if they are dirty.
HashWithout(i) ==
    IF bufDescTable[i].valid
    THEN [hashTable EXCEPT ![<<bufDescTable[i].file, bufDescTable[i].pageNo>>] = NoFrame]
    ELSE hashTable

DiskAfterWriteBack(i) ==
    IF bufDescTable[i].dirty
    THEN [disk EXCEPT ![<<bufDescTable[i].file, bufDescTable[i].pageNo>>] = bufPool[i]]
    ELSE disk

\* allocBuf found every frame pinned: it throws, and the refbits stay cleared.
AllocBufFails ==
    /\ BufferExceeded
    /\ bufDescTable' = Swept(2 * NumBufs)
    /\ clockHand' = HandAt(2 * NumBufs)
    /\ exc' = "BufferExceeded"
    /\ UNCHANGED <<bufPool, hashTable, disk, unreported>>

\* allocBuf gives frame HandAt(k) to page p of f, whose bytes are c once the
\* file holds newDisk.
AllocBufFor(k, f, p, c, newDisk) ==
    LET i == HandAt(k) IN
    /\ bufDescTable' = [Swept(k) EXCEPT ![i] = Set(f, p)]
    /\ bufPool' = [bufPool EXCEPT ![i] = c]
    /\ hashTable' = [HashWithout(i) EXCEPT ![<<f, p>>] = i]
    /\ clockHand' = i
    /\ disk' = newDisk
    /\ exc' = "none"
    /\ UNCHANGED unreported

-----------------------------------------------------------------------------
(***************************************************************************)
(* readPage                                                                *)
(***************************************************************************)
Referenced(d) == [d EXCEPT !.refbit = TRUE, !.pinCnt = @ + 1]

ReadHit(f, p) ==
    LET i == hashTable[<<f, p>>] IN
    /\ i # NoFrame
    /\ bufDescTable[i].pinCnt < MaxPin
    /\ bufDescTable' = [bufDescTable EXCEPT ![i] = Referenced(@)]
    /\ exc' = "none"
    /\ UNCHANGED <<bufPool, hashTable, clockHand, disk, unreported>>

ReadMiss(f, p) ==
    /\ hashTable[<<f, p>>] = NoFrame
    /\ \E k \in ScanSteps :
        /\ StopsAt(k)
        /\ LET found == DiskAfterWriteBack(HandAt(k)) IN
            /\ found[<<f, p>>] # Free
            /\ AllocBufFor(k, f, p, found[<<f, p>>], found)

\* The file has no such page: its InvalidPageException leaves readPage after
\* allocBuf has evicted and cleared a frame.
ReadInvalid(f, p) ==
    /\ hashTable[<<f, p>>] = NoFrame
    /\ \E k \in ScanSteps :
        LET i == HandAt(k) IN
        /\ StopsAt(k)
        /\ DiskAfterWriteBack(i)[<<f, p>>] = Free
        /\ bufDescTable' = [Swept(k) EXCEPT ![i] = Clear]
        /\ hashTable' = HashWithout(i)
        /\ clockHand' = i
        /\ disk' = DiskAfterWriteBack(i)
        /\ exc' = "InvalidPage"
        /\ UNCHANGED <<bufPool, unreported>>

ReadPage(f, p) ==
    \/ ReadHit(f, p)
    \/ ReadMiss(f, p)
    \/ ReadInvalid(f, p)
    \/ hashTable[<<f, p>>] = NoFrame /\ AllocBufFails

\* allocPage: the file picks a page number that is not in use.
AllocPage(f) ==
    \/ \E k \in ScanSteps, p \in Pages :
        /\ StopsAt(k)
        /\ disk[<<f, p>>] = Free
        /\ AllocBufFor(k, f, p, Fresh,
                       [DiskAfterWriteBack(HandAt(k)) EXCEPT ![<<f, p>>] = Fresh])
    \/ AllocBufFails

-----------------------------------------------------------------------------
(***************************************************************************)
(* unPinPage.  The dirty flag is stored before the pin count is looked at. *)
(***************************************************************************)

\* Mutants: the last flag wins; the pin count is not looked at.
LastFlagWins(d, dirty) == [d EXCEPT !.dirty = dirty]
AlwaysDecrement(d) == [d EXCEPT !.pinCnt = @ - 1]

Marked(d, dirty) == [d EXCEPT !.dirty = dirty \/ d.dirty]

Unpinned(d) == IF d.pinCnt = 0 THEN d ELSE [d EXCEPT !.pinCnt = @ - 1]

\* The lookup throws when the page is not buffered.
LookupFails(f, p) ==
    /\ hashTable[<<f, p>>] = NoFrame
    /\ exc' = "HashNotFound"
    /\ UNCHANGED <<bufDescTable, bufPool, hashTable, clockHand, disk, unreported>>

UnPinBuffered(f, p, dirty) ==
    LET i == hashTable[<<f, p>>]
        d == bufDescTable[i]
    IN  /\ i # NoFrame
        /\ d.pinCnt = 1 /\ i \in unreported => dirty
        /\ bufDescTable' = [bufDescTable EXCEPT ![i] = Unpinned(Marked(d, dirty))]
        /\ exc' = IF d.pinCnt = 0 THEN "PageNotPinned" ELSE "none"
        /\ unreported' = IF dirty THEN unreported \ {i} ELSE unreported
        /\ UNCHANGED <<bufPool, hashTable, clockHand, disk>>

UnPinPage(f, p, dirty) == UnPinBuffered(f, p, dirty) \/ LookupFails(f, p)

\* A holder changes the bytes of the page through the pointer it was given.
WritePage(i, c) ==
    /\ bufDescTable[i].pinCnt > 0
    /\ bufPool' = [bufPool EXCEPT ![i] = c]
    /\ unreported' = unreported \cup {i}
    /\ UNCHANGED <<bufDescTable, hashTable, clockHand, disk, exc>>

-----------------------------------------------------------------------------
(***************************************************************************)
(* flushFile: the frames are visited in order; the first pinned one throws *)
(* and the ones before it have already left the pool.                      *)
(***************************************************************************)
Holds(i, f) == bufDescTable[i].valid /\ bufDescTable[i].file = f

KeyOf(i) == <<bufDescTable[i].file, bufDescTable[i].pageNo>>

\* Mutant: the frames are dropped without being written.
DiskWithoutFlush(S) == disk

\* Writing back the dirty frames of S.
DiskAfterFlush(S) ==
    LET Writers(k) == {i \in S : bufDescTable[i].dirty /\ KeyOf(i) = k}
    IN  [k \in Keys |-> IF Writers(k) = {} THEN disk[k]
                        ELSE bufPool[CHOOSE i \in Writers(k) : TRUE]]

FlushFile(f) ==
    \E stop \in 0 .. NumBufs :
        LET visited == {i \in 0 .. (stop - 1) : Holds(i, f)} IN
        /\ \A i \in visited : bufDescTable[i].pinCnt = 0
        /\ \/ stop = NumBufs /\ exc' = "none"
           \/ /\ stop < NumBufs
              /\ Holds(stop, f) /\ bufDescTable[stop].pinCnt > 0
              /\ exc' = "PagePinned"
        /\ disk' = DiskAfterFlush(visited)
        /\ hashTable' = [k \in Keys |-> IF \E i \in visited : KeyOf(i) = k
                                        THEN NoFrame ELSE hashTable[k]]
        /\ bufDescTable' = [i \in Frames |-> IF i \in visited THEN Clear ELSE bufDescTable[i]]
        /\ UNCHANGED <<bufPool, clockHand, unreported>>

\* Mutant: the file page goes, the frame stays.
DisposeInFileOnly(f, p) ==
    /\ hashTable[<<f, p>>] # NoFrame
    /\ disk' = [disk EXCEPT ![<<f, p>>] = Free]
    /\ exc' = "none"
    /\ UNCHANGED <<bufDescTable, bufPool, hashTable, clockHand, unreported>>

\* disposePage of a buffered page; nobody asks whether the page is pinned.
DisposeBuffered(f, p) ==
    LET i == hashTable[<<f, p>>] IN
    /\ i # NoFrame
    /\ bufDescTable' = [bufDescTable EXCEPT ![i] = Clear]
    /\ hashTable' = [hashTable EXCEPT ![<<f, p>>] = NoFrame]
    /\ disk' = [disk EXCEPT ![<<f, p>>] = Free]
    /\ unreported' = unreported \ {i}
    /\ exc' = "none"
    /\ UNCHANGED <<bufPool, clockHand>>

DisposePage(f, p) == DisposeBuffered(f, p) \/ LookupFails(f, p)

\* cleanUpPinnedPage: whatever pins are left on f are dropped at once, and
\* the frames are declared dirty.
CleanedUp(d) == [d EXCEPT !.pinCnt = 0, !.dirty = TRUE]

CleanUpPinnedPage(f) ==
    LET pinned == {i \in Frames : Holds(i, f) /\ bufDescTable[i].pinCnt > 0} IN
    /\ bufDescTable' = [i \in Frames |->
            IF i \in pinned THEN CleanedUp(bufDescTable[i]) ELSE bufDescTable[i]]
    /\ unreported' = unreported \ pinned
    /\ exc' = "none"
    /\ UNCHANGED <<bufPool, hashTable, clockHand, disk>>

\* ~BufMgr writes the dirty frames, pinned or not; a new pool starts empty.
Restart ==
    /\ disk' = DiskAfterFlush({i \in Frames : bufDescTable[i].valid})
    /\ bufDescTable' = [i \in Frames |-> Clear]
    /\ bufPool' = [i \in Frames |-> Fresh]
    /\ hashTable' = [k \in Keys |-> NoFrame]
    /\ clockHand' = NumBufs - 1
    /\ unreported' = {}
    /\ exc' = "none"

Next ==
    \/ \E f \in Files, p \in Pages :
        \/ ReadPage(f, p)
        \/ \E dirty \in BOOLEAN : UnPinPage(f, p, dirty)
        \/ DisposePage(f, p)
    \/ \E f \in Files : AllocPage(f) \/ FlushFile(f) \/ CleanUpPinnedPage(f)
    \/ \E i \in Frames, c \in Contents : WritePage(i, c)
    \/ Restart

Spec == Init /\ [][Next]_vars

-----------------------------------------------------------------------------
(***************************************************************************)
(* Properties                                                              *)
(***************************************************************************)

\* The types of the variables; an invalid frame is a cleared one, and a
\* change somebody has yet to report is in a pinned frame.
TypeOK ==
    /\ bufDescTable \in [Frames -> BufDesc]
    /\ bufPool \in [Frames -> Contents]
    /\ hashTable \in [Keys -> Frames \cup {NoFrame}]
    /\ clockHand \in Frames
    /\ disk \in [Keys -> Contents \cup {Free}]
    /\ unreported \subseteq {i \in Frames : bufDescTable[i].pinCnt > 0}
    /\ exc \in Exceptions
    /\ \A i \in Frames : IF bufDescTable[i].valid
                         THEN KeyOf(i) \in Keys
                         ELSE bufDescTable[i] = Clear

\* The hash table and the frames agree in both directions: a page is found in
\* the one frame that holds it, so no page is ever buffered twice and no frame
\* is lost to lookup (the pairs of hashTable->insert / Set and
\* hashTable->remove / Clear in every operation of buffer.cpp).
HashMatchesFrames ==
    \A i \in Frames, k \in Keys :
        hashTable[k] = i <=> bufDescTable[i].valid /\ KeyOf(i) = k

\* A buffered page exists in its file: readPage never serves a deleted page
\* from the pool, and the writePage calls of allocBuf and flushFile never meet
\* the InvalidPageException of PageFile::writePage.
CachedPagesExist ==
    \A i \in Frames : bufDescTable[i].valid => disk[KeyOf(i)] # Free

\* The bytes of a frame that is not marked dirty are those on disk, unless a
\* holder is still working on them: evicting it without a write loses nothing.
CleanFramesMatchDisk ==
    \A i \in Frames :
        \/ ~bufDescTable[i].valid
        \/ bufDescTable[i].dirty
        \/ i \in unreported
        \/ bufPool[i] = disk[KeyOf(i)]

\* While a page is pinned its pointer stays good: no call of anybody else
\* gives the frame to another page or changes its bytes, until the page is
\* disposed of or the pool destroyed.
PinnedFramesStay ==
    [][\A i \in Frames :
        bufDescTable[i].pinCnt > 0 =>
            \/ Restart
            \/ DisposePage(bufDescTable[i].file, bufDescTable[i].pageNo)
            \/ /\ bufDescTable'[i].valid
               /\ KeyOf(i)' = KeyOf(i)
               /\ bufPool'[i] = bufPool[i] \/ \E c \in Contents : WritePage(i, c)]_vars

\* BufferExceededException means what its name says: allocBuf throws it when
\* every frame is pinned, and only then.  Two turns of the clock find any other
\* frame, wherever the hand starts and whichever refbits are set.
ExceededWhenAllPinned ==
    BufferExceeded <=> \A i \in Frames : bufDescTable[i].pinCnt > 0

\* A page referenced since the hand last passed leaves the pool in another
\* caller's readPage or allocPage only when no frame is empty and every other
\* page is pinned or was referenced too.
SecondChance ==
    [][\A i \in Frames :
        /\ bufDescTable[i].valid /\ bufDescTable[i].refbit
        /\ hashTable'[KeyOf(i)] # i
        => \/ Restart
           \/ \E f \in Files : FlushFile(f)
           \/ DisposePage(bufDescTable[i].file, bufDescTable[i].pageNo)
           \/ \A j \in Frames : /\ bufDescTable[j].valid
                                /\ bufDescTable[j].pinCnt > 0 \/ bufDescTable[j].refbit]_vars

\* What a reader of a page finds, whether or not it is buffered.
Logical(k) == IF hashTable[k] = NoFrame THEN disk[k] ELSE bufPool[hashTable[k]]

\* flushFile that returns leaves nothing of the file in the pool and every
\* page on disk as it was last written.
FlushMakesDurable ==
    [][\A f \in Files :
        FlushFile(f) /\ exc' = "none" =>
            /\ \A i \in Frames : bufDescTable'[i].file # f
            /\ \A p \in Pages : disk'[<<f, p>>] = Logical(<<f, p>>)]_vars

\* The pool is invisible: it implements a store of pages.
store == [k \in Keys |-> Logical(k)]
pins == [k \in Keys |-> IF hashTable[k] = NoFrame
                        THEN 0 ELSE bufDescTable[hashTable[k]].pinCnt]

PS == INSTANCE PageStore

\* Every behaviour of the pool is one of PageStore: no eviction, flush,
\* failed call or restart changes what a reader of an unpinned page finds.
RefinesPageStore == PS!Spec

=============================================================================
