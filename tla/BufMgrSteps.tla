---------------------------- MODULE BufMgrSteps ----------------------------
(***************************************************************************)
(* readPage of a page that is not buffered, and allocPage, step by step as *)
(* buffer.cpp runs them: one turn of allocBuf's loop, its tail, then the   *)
(* call of the file and the entry of the page.  BufMgr says at once, by    *)
(* positions of the clock, what these steps arrive at; the calls without a *)
(* loop are the actions of BufMgr.                                         *)
(***************************************************************************)
EXTENDS BufMgr

VARIABLES
    pc,          \* "idle", or where in a call the pool is
    call,        \* the page asked for, and whether it is to be allocated
    numScanned,
    found,
    before       \* history: descriptors, hash table, hand and disk when the
                 \* call was made (NoCall outside of one)

local == <<pc, call, numScanned, found, before>>
stepVars == <<vars, local>>

Snapshot == [bufDescTable |-> bufDescTable, hashTable |-> hashTable,
             clockHand |-> clockHand, disk |-> disk]

NoCall == [alloc |-> FALSE, file |-> NoFile, pageNo |-> NoPage]

StepInit ==
    /\ Init
    /\ pc = "idle" /\ call = NoCall
    /\ numScanned = 0 /\ found = FALSE
    /\ before = NoCall

-----------------------------------------------------------------------------
Enter(c) ==
    /\ pc = "idle"
    /\ pc' = "loop" /\ call' = c
    /\ numScanned' = 0 /\ found' = FALSE
    /\ before' = Snapshot
    /\ UNCHANGED vars

\* The call ends, and its local variables with it.
Return ==
    /\ pc' = "idle" /\ call' = NoCall
    /\ numScanned' = 0 /\ found' = FALSE
    /\ before' = NoCall

\* readPage: the lookup threw HashNotFound, and the handler calls allocBuf.
CallReadPage(f, p) ==
    /\ hashTable[<<f, p>>] = NoFrame
    /\ Enter([alloc |-> FALSE, file |-> f, pageNo |-> p])

\* The bound on page numbers: the file has one left.
CallAllocPage(f) ==
    /\ \E p \in Pages : disk[<<f, p>>] = Free
    /\ Enter([alloc |-> TRUE, file |-> f, pageNo |-> NoPage])

-----------------------------------------------------------------------------
(***************************************************************************)
(* allocBuf                                                                *)
(***************************************************************************)
\* Mutants: the counter stays; the second turn is one frame short.
CountedNever(n) == n
StopsEarly(n) == n < 2 * NumBufs - 1

Counted(n) == n + 1
Scanning(n) == n < 2 * NumBufs

\* The frame the hand moves to is empty: it is used.
VisitInvalid ==
    /\ ~bufDescTable[clockHand'].valid
    /\ pc' = "tail"
    /\ UNCHANGED <<bufDescTable, hashTable, found>>

\* It was referenced: it loses its refbit.
VisitReferenced ==
    /\ bufDescTable[clockHand'].valid /\ bufDescTable[clockHand'].refbit
    /\ bufDescTable' = [bufDescTable EXCEPT ![clockHand'].refbit = FALSE]
    /\ UNCHANGED <<pc, hashTable, found>>

VisitPinned ==
    /\ bufDescTable[clockHand'].valid /\ ~bufDescTable[clockHand'].refbit
    /\ bufDescTable[clockHand'].pinCnt > 0
    /\ UNCHANGED <<pc, bufDescTable, hashTable, found>>

\* It can be reused: its page leaves the hash table.
VisitVictim ==
    /\ bufDescTable[clockHand'].valid /\ ~bufDescTable[clockHand'].refbit
    /\ bufDescTable[clockHand'].pinCnt = 0
    /\ hashTable' = HashWithout(clockHand')
    /\ found' = TRUE
    /\ pc' = "tail"
    /\ UNCHANGED bufDescTable

AdvanceClock == clockHand' = (clockHand + 1) % NumBufs

Visit ==
    /\ pc = "loop" /\ Scanning(numScanned)
    /\ AdvanceClock
    /\ numScanned' = Counted(numScanned)
    /\ VisitInvalid \/ VisitReferenced \/ VisitPinned \/ VisitVictim
    /\ UNCHANGED <<bufPool, disk, unreported, exc, call, before>>

\* The loop was left, by break or by its condition.
AfterLoop == pc = "tail" \/ (pc = "loop" /\ ~Scanning(numScanned))

\* Nothing found in two turns.
Exceeded ==
    /\ AfterLoop
    /\ ~found /\ numScanned >= 2 * NumBufs
    /\ exc' = "BufferExceeded"
    /\ Return
    /\ UNCHANGED <<bufDescTable, bufPool, hashTable, clockHand, disk, unreported>>

\* The frame is written back if it is dirty, and cleared.
WriteBack ==
    /\ AfterLoop
    /\ found \/ numScanned < 2 * NumBufs
    /\ disk' = DiskAfterWriteBack(clockHand)
    /\ bufDescTable' = [bufDescTable EXCEPT ![clockHand] = Clear]
    /\ pc' = "file"
    /\ UNCHANGED <<bufPool, hashTable, clockHand, unreported, exc,
                   call, numScanned, found, before>>

-----------------------------------------------------------------------------
(***************************************************************************)
(* The rest of readPage and allocPage                                      *)
(***************************************************************************)
EnterPage(f, p) ==
    /\ bufPool' = [bufPool EXCEPT ![clockHand] = disk'[<<f, p>>]]
    /\ bufDescTable' = [bufDescTable EXCEPT ![clockHand] = Set(f, p)]
    /\ hashTable' = [hashTable EXCEPT ![<<f, p>>] = clockHand]
    /\ exc' = "none"
    /\ UNCHANGED <<clockHand, unreported>>

FileRead ==
    /\ ~call.alloc
    /\ UNCHANGED disk
    /\ IF disk[<<call.file, call.pageNo>>] # Free
       THEN EnterPage(call.file, call.pageNo)
       ELSE /\ exc' = "InvalidPage"
            /\ UNCHANGED <<bufDescTable, bufPool, hashTable, clockHand, unreported>>

FileAllocate ==
    /\ call.alloc
    /\ \E p \in Pages :
        /\ disk[<<call.file, p>>] = Free
        /\ disk' = [disk EXCEPT ![<<call.file, p>>] = Fresh]
        /\ EnterPage(call.file, p)

Finish ==
    /\ pc = "file"
    /\ FileRead \/ FileAllocate
    /\ Return

\* The calls without allocBuf.
OtherCall ==
    /\ pc = "idle"
    /\ \/ \E f \in Files, p \in Pages :
            \/ ReadHit(f, p)
            \/ \E dirty \in BOOLEAN : UnPinPage(f, p, dirty)
            \/ DisposePage(f, p)
       \/ \E f \in Files : FlushFile(f) \/ CleanUpPinnedPage(f)
       \/ \E i \in Frames, c \in Contents : WritePage(i, c)
       \/ Restart
    /\ UNCHANGED local

InCall == Visit \/ Exceeded \/ WriteBack \/ Finish

StepNext ==
    \/ \E f \in Files, p \in Pages : CallReadPage(f, p)
    \/ \E f \in Files : CallAllocPage(f)
    \/ InCall
    \/ OtherCall

\* The program runs on inside a call; nothing makes it call.
StepSpec == StepInit /\ [][StepNext]_stepVars /\ WF_stepVars(InCall)

-----------------------------------------------------------------------------
(***************************************************************************)
(* Properties                                                              *)
(***************************************************************************)

\* Until a call returns its caller sees the pool as it was before it.
seenTable == IF pc = "idle" THEN bufDescTable ELSE before.bufDescTable
seenHash == IF pc = "idle" THEN hashTable ELSE before.hashTable
seenHand == IF pc = "idle" THEN clockHand ELSE before.clockHand
seenDisk == IF pc = "idle" THEN disk ELSE before.disk

Atomic == INSTANCE BufMgr WITH
    bufDescTable <- seenTable, hashTable <- seenHash,
    clockHand <- seenHand, disk <- seenDisk

\* The loop and what follows it do what BufMgr says of a whole call: the frame
\* they end at is the first one that is usable when the hand comes to it, the
\* second turn included, and a call that fails half-way leaves what BufMgr
\* says it leaves.
ImplementsBufMgr == Atomic!Spec

\* readPage and allocPage return, also when every frame is pinned: the counter
\* ends a loop whose only other exit is a usable frame.
CallsReturn == pc # "idle" ~> pc = "idle"

=============================================================================
