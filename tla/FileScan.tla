------------------------------ MODULE FileScan ------------------------------
(***************************************************************************)
(* A scan of a page file through the buffer manager: filescan.cpp, with    *)
(* the iterators of file_iterator.h and page_iterator.h, composed with     *)
(* BufMgr.  scanNext makes several calls of the pool and of the file and   *)
(* may fail at each, so it is one action per call it makes; nothing else   *)
(* runs before it returns.                                                 *)
(*                                                                         *)
(* The bytes of a page are the slots it has in use.  Between two calls of  *)
(* the scan, the rest of the program pins pages of another file, and may   *)
(* change the scanned file through a File object of its own: directly, as  *)
(* main.cpp does, so the pool does not hear of it.                         *)
(***************************************************************************)
EXTENDS BufMgr, FiniteSets

CONSTANTS
    file,       \* the FileScan's own File object
    Other,      \* a File object of the rest of the program, on another file
    OtherPages  \* the pages of that file

ASSUME FilesAssumption == {file, Other} \subseteq Files /\ file # Other
ASSUME PagesAssumption == Pages \subseteq Nat \ {0} /\ OtherPages \subseteq Pages
ASSUME SlotsAssumption == \A c \in Contents : IsFiniteSet(c) /\ c \subseteq Nat \ {0}

VARIABLES
    pc,           \* what the scan is in the middle of
    filePageIter, \* current_page_number_ of the iterator
    curPage,      \* the frame curPage points into, or NULL
    slot,         \* slot number of pageRecordIter, INVALID at the page's end
    curDirtyFlag,
    outRid,       \* the record id returned last: page and slot
    result,       \* how the last call ended
    undisturbed   \* since the scan was opened no call failed and the file is
                  \* as it was

scanVars == <<pc, filePageIter, curPage, slot, curDirtyFlag, outRid, result, undisturbed>>
allVars == <<vars, scanVars>>

INVALID == 0    \* INVALID_NUMBER and INVALID_SLOT
NULL == -1
NoRid == <<INVALID, INVALID>>

\* The scanned file holds any pages.
ScanInit ==
    /\ bufDescTable = [i \in Frames |-> Clear]
    /\ bufPool = [i \in Frames |-> Fresh]
    /\ hashTable = [k \in Keys |-> NoFrame]
    /\ clockHand = NumBufs - 1
    /\ disk \in [Keys -> Contents \cup {Free}]
    /\ \A k \in Keys : k[1] # file => disk[k] = IF k \in {Other} \X OtherPages THEN Fresh ELSE Free
    /\ unreported = {} /\ exc = "none"
    /\ pc = "closed" /\ filePageIter = INVALID /\ curPage = NULL /\ slot = INVALID
    /\ curDirtyFlag = FALSE /\ outRid = NoRid /\ result = "none" /\ undisturbed = TRUE

-----------------------------------------------------------------------------
(***************************************************************************)
(* The iterators                                                           *)
(***************************************************************************)
LeastAbove(n, S) ==
    IF \E x \in S : x > n
    THEN CHOOSE x \in S : x > n /\ \A y \in S : y > n => x <= y
    ELSE INVALID

Used(p) == disk[<<file, p>>] # Free

\* The used list is in page order: begin(), and next_page_number of a page.
NextUsedPage(p) == LeastAbove(p, {q \in Pages : Used(q)})

\* Mutants: the page after next; the iterator does not move.
SkipsAPage(p) == NextUsedPage(IF NextUsedPage(p) = INVALID THEN p ELSE NextUsedPage(p))
StaysOnPage(p) == p

\* filePageIter++
AdvancedPage(p) == NextUsedPage(p)

\* getNextUsedSlot in a page with slots c.
NextUsedSlot(c, s) == LeastAbove(s, c)

-----------------------------------------------------------------------------
(***************************************************************************)
(* scanNext                                                                *)
(***************************************************************************)
Returns(rid) == pc' = "idle" /\ outRid' = rid /\ result' = "rid" /\ UNCHANGED undisturbed
EndOfFile == pc' = "idle" /\ result' = "EndOfFile" /\ UNCHANGED <<outRid, undisturbed>>
Throws(e) == pc' = "idle" /\ result' = e /\ undisturbed' = FALSE /\ UNCHANGED outRid
Continues(at) == pc' = at /\ UNCHANGED <<outRid, result, undisturbed>>

\* The iterator stands at the end; or no page is pinned and the scan starts
\* (again) at the first page; or the next record is looked for in the page.
ScanNext ==
    /\ pc = "idle"
    /\ \/ /\ filePageIter = INVALID
          /\ EndOfFile
          /\ UNCHANGED <<filePageIter, slot>>
       \/ /\ filePageIter # INVALID /\ curPage = NULL
          /\ filePageIter' = NextUsedPage(INVALID)
          /\ IF filePageIter' = INVALID THEN EndOfFile ELSE Continues("read")
          /\ UNCHANGED slot
       \/ /\ filePageIter # INVALID /\ curPage # NULL
          /\ slot' = NextUsedSlot(bufPool[curPage], slot)
          /\ IF slot' = INVALID THEN Continues("leave")
                                ELSE Returns(<<bufDescTable[curPage].pageNo, slot'>>)
          /\ UNCHANGED filePageIter
    /\ UNCHANGED <<vars, curPage, curDirtyFlag>>

\* readPage of the page the iterator is on.  A page without records is left.
ReadCurrent ==
    /\ pc = "read"
    /\ ReadPage(file, filePageIter)
    /\ IF exc' = "none"
       THEN /\ curPage' = hashTable'[<<file, filePageIter>>]
            /\ curDirtyFlag' = FALSE
            /\ slot' = NextUsedSlot(bufPool'[curPage'], INVALID)
            /\ IF slot' = INVALID THEN Continues("leave")
                                  ELSE Returns(<<filePageIter, slot'>>)
       ELSE Throws(exc') /\ UNCHANGED <<curPage, slot, curDirtyFlag>>
    /\ UNCHANGED filePageIter

\* Mutant: the page that is left stays pinned.
StaysPinned(p) == exc' = "none" /\ UNCHANGED vars

UnPinCurrent(p) == UnPinPage(file, p, curDirtyFlag)

\* operator* reads the page from the file to learn its number, and throws if
\* somebody has deleted it.
LeavePage ==
    /\ pc = "leave"
    /\ IF Used(filePageIter)
       THEN /\ UnPinCurrent(filePageIter)
            /\ curPage' = NULL /\ curDirtyFlag' = FALSE
            /\ filePageIter' = AdvancedPage(filePageIter)
            /\ IF filePageIter' = INVALID THEN EndOfFile ELSE Continues("read")
       ELSE /\ Throws("InvalidPage")
            /\ UNCHANGED <<vars, curPage, curDirtyFlag, filePageIter>>
    /\ UNCHANGED slot

MarkDirty ==
    /\ pc = "idle"
    /\ curDirtyFlag' = TRUE
    /\ UNCHANGED <<vars, pc, filePageIter, curPage, slot, outRid, result, undisturbed>>

-----------------------------------------------------------------------------
(***************************************************************************)
(* Constructor and destructor                                              *)
(***************************************************************************)
Open ==
    /\ pc = "closed"
    /\ pc' = "idle" /\ filePageIter' = NextUsedPage(INVALID)
    /\ curPage' = NULL /\ slot' = INVALID /\ curDirtyFlag' = FALSE
    /\ outRid' = NoRid /\ result' = "none" /\ undisturbed' = TRUE
    /\ UNCHANGED vars

\* Unpin the current page.  If it was deleted, an exception leaves the
\* destructor, which ends the process.
Close ==
    /\ pc = "idle"
    /\ \/ /\ curPage = NULL
          /\ Continues("flush")
          /\ UNCHANGED <<vars, filePageIter, curPage, curDirtyFlag>>
       \/ /\ curPage # NULL /\ Used(filePageIter)
          /\ UnPinCurrent(filePageIter)
          /\ curPage' = NULL /\ curDirtyFlag' = FALSE
          /\ filePageIter' = NextUsedPage(INVALID)
          /\ Continues("flush")
       \/ /\ curPage # NULL /\ ~Used(filePageIter)
          /\ pc' = "terminated" /\ result' = "InvalidPage"
          /\ UNCHANGED <<vars, filePageIter, curPage, curDirtyFlag, outRid, undisturbed>>
    /\ UNCHANGED slot

\* Mutant: the frames are left to the pool.
KeepsFrames == exc' = "none" /\ UNCHANGED vars

FlushScanned == FlushFile(file)

CloseFile ==
    /\ pc = "flush"
    /\ FlushScanned
    /\ pc' = IF exc' = "none" THEN "closed" ELSE "terminated"
    /\ UNCHANGED <<filePageIter, curPage, slot, curDirtyFlag, outRid, result, undisturbed>>

-----------------------------------------------------------------------------
(***************************************************************************)
(* The rest of the program, between the scan's calls                       *)
(***************************************************************************)
\* It pins and unpins pages of the other file.
UsePool ==
    /\ pc \in {"idle", "closed"}
    /\ \E p \in OtherPages : \/ ReadPage(Other, p)
                             \/ \E i \in Frames : /\ hashTable[<<Other, p>>] = i
                                                  /\ bufDescTable[i].pinCnt > 0
                                                  /\ UnPinPage(Other, p, FALSE)
    /\ UNCHANGED scanVars

\* It allocates, writes or deletes a page of the scanned file through its own
\* File object.  It does not delete a page whose frame is dirty: the write-back
\* of that frame would fail, and the pool is not followed beyond it.
ChangeFile ==
    /\ pc \in {"idle", "closed"}
    /\ \E p \in Pages, c \in Contents \cup {Free} :
        /\ c # disk[<<file, p>>]
        /\ disk[<<file, p>>] = Free => c = Fresh
        /\ c = Free => \A i \in Frames : bufDescTable[i].dirty => KeyOf(i) # <<file, p>>
        /\ disk' = [disk EXCEPT ![<<file, p>>] = c]
    /\ undisturbed' = FALSE
    /\ UNCHANGED <<bufDescTable, bufPool, hashTable, clockHand, unreported, exc>>
    /\ UNCHANGED <<pc, filePageIter, curPage, slot, curDirtyFlag, outRid, result>>

Terminated == pc = "terminated" /\ UNCHANGED allVars

InCall == ReadCurrent \/ LeavePage \/ CloseFile

ScanStep == ScanNext \/ InCall \/ MarkDirty \/ Open \/ Close

ScanNextState == ScanStep \/ UsePool \/ ChangeFile \/ Terminated

\* A call that was made runs on, and the caller asks for the next record until
\* it is told that there is none (the loop of the BTreeIndex constructor).
ScanSpec ==
    /\ ScanInit /\ [][ScanNextState]_allVars
    /\ WF_allVars(InCall)
    /\ WF_allVars(ScanNext)

-----------------------------------------------------------------------------
(***************************************************************************)
(* Properties                                                              *)
(***************************************************************************)

\* The scan holds exactly one pin when it has a current page, on the frame that
\* holds it, and none otherwise, whatever failed before; and the record it
\* returned last is still there for getRecord, which reads it through a pointer
\* into the pool.
OnePagePinned ==
    /\ \A i \in Frames : bufDescTable[i].file = file =>
            bufDescTable[i].pinCnt = (IF i = curPage THEN 1 ELSE 0)
    /\ curPage # NULL =>
            /\ bufDescTable[curPage].file = file
            /\ bufDescTable[curPage].pageNo = filePageIter
            /\ pc = "idle" /\ result = "rid" =>
                    outRid[1] = filePageIter /\ outRid[2] \in bufPool[curPage]

\* filescan.h: "return RecordId of next record".  While no call fails and the
\* file does not change, scanNext returns the records of the file in order,
\* each once: nothing lies between one and the next, nothing before the first,
\* and nothing after the last when it says EndOfFile, however the other users
\* of the pool evict the pages of the scan and whatever an earlier scan through
\* the same pool has left in it.
Precedes(r, q) == r[1] < q[1] \/ (r[1] = q[1] /\ r[2] < q[2])

AllRids == UNION {{p} \X disk[<<file, p>>] : p \in {q \in Pages : Used(q)}}

InOrder ==
    [][undisturbed /\ pc' = "idle" /\ (ScanNext \/ ReadCurrent \/ LeavePage) =>
        LET left == {r \in AllRids : Precedes(outRid, r)} IN
        \/ /\ result' = "rid"
           /\ outRid' \in left /\ \A r \in left : r = outRid' \/ Precedes(outRid', r)
        \/ result' = "EndOfFile" /\ left = {}
        \/ result' = "BufferExceeded"]_allVars

\* When the scan's File object is deleted no frame refers to it any more: a
\* later eviction would write through a dangling pointer, and a new File object
\* at the same address would be given the old frames.
NoFrameOfClosedFile ==
    pc = "closed" => \A i \in Frames : bufDescTable[i].file # file

\* The loop over scanNext ends: with EndOfFile unless a call fails, the file is
\* changed or the scan destroyed; and each call returns, also when every page
\* it comes to is empty.
ScanEnds ==
    /\ pc = "idle" ~> \/ result = "EndOfFile" \/ ~undisturbed
                      \/ pc \in {"flush", "closed", "terminated"}
    /\ pc \in {"read", "leave", "flush"} ~> pc \in {"idle", "closed", "terminated"}

=============================================================================
