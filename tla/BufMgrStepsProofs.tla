------------------------- MODULE BufMgrStepsProofs -------------------------
(***************************************************************************)
(* allocBuf's loop and what follows it do what BufMgr says of a whole      *)
(* call, for every size of the pool: BufMgrSteps implements BufMgr.        *)
(***************************************************************************)
EXTENDS BufMgrSteps, TLAPS

\* What is proved of BufMgr, said of the pool the caller sees.
Seen == INSTANCE BufMgrProofs WITH
    bufDescTable <- seenTable, hashTable <- seenHash,
    clockHand <- seenHand, disk <- seenDisk

\* Before the victim is found: every frame the hand was on is unusable and
\* has lost its refbit, and nothing else has changed.
LoopInv ==
    /\ ~found
    /\ bufDescTable = Seen!Swept(numScanned)
    /\ hashTable = seenHash /\ disk = seenDisk
    /\ \A j \in 1 .. numScanned : ~Seen!UsableAt(j)

\* From then on: the hand is where BufMgr's search stops.
VictimFound ==
    /\ numScanned \in Seen!ScanSteps /\ Seen!StopsAt(numScanned)
    /\ hashTable = Seen!HashWithout(clockHand)

TailInv ==
    /\ VictimFound
    /\ found <=> seenTable[clockHand].valid
    /\ bufDescTable = Seen!Swept(numScanned - 1)
    /\ disk = seenDisk

FileInv ==
    /\ VictimFound
    /\ bufDescTable = [Seen!Swept(numScanned - 1) EXCEPT ![clockHand] = Clear]
    /\ disk = Seen!DiskAfterWriteBack(clockHand)

\* A page is asked for only when it is not buffered.
Asked ==
    /\ call.file \in Files
    /\ call.alloc \/ /\ call.pageNo \in Pages
                     /\ seenHash[<<call.file, call.pageNo>>] = NoFrame

CallInv ==
    /\ numScanned \in 0 .. (2 * NumBufs)
    /\ clockHand = Seen!HandAt(numScanned)
    /\ Asked
    /\ \/ pc = "loop" /\ LoopInv
       \/ pc = "tail" /\ TailInv
       \/ pc = "file" /\ FileInv

StepInv == Seen!IInv /\ (pc # "idle" => CallInv)

-----------------------------------------------------------------------------
(***************************************************************************)
(* The clock                                                               *)
(***************************************************************************)
\* Where the hand is in the two turns.
LEMMA HandPosition ==
    ASSUME Seen!TypeOK, NEW k \in 0 .. (2 * NumBufs)
    PROVE  /\ seenHand \in 0 .. (NumBufs - 1)
           /\ Seen!HandAt(k) = IF seenHand + k < NumBufs THEN seenHand + k
                               ELSE IF seenHand + k < 2 * NumBufs
                                    THEN seenHand + k - NumBufs
                                    ELSE seenHand + k - 2 * NumBufs
BY NumBufsAssumption, MaxPinAssumption, FreshAssumption, FreeAssumption, NullAssumption,
   Seen!HandPosition DEF Seen!TypeOK, Seen!Frames

\* One call of advanceClock moves the hand to its next place.
LEMMA Advanced ==
    ASSUME Seen!TypeOK, NEW n \in 0 .. (2 * NumBufs - 1)
    PROVE  (Seen!HandAt(n) + 1) % NumBufs = Seen!HandAt(n + 1)
<1>1. n \in 0 .. (2 * NumBufs) /\ n + 1 \in 0 .. (2 * NumBufs)
  BY NumBufsAssumption
<1>2. Seen!HandAt(n) \in 0 .. (NumBufs - 1)
  BY <1>1, HandPosition, NumBufsAssumption
<1>3. (Seen!HandAt(n) + 1) % NumBufs = IF Seen!HandAt(n) + 1 < NumBufs
                                       THEN Seen!HandAt(n) + 1 ELSE 0
  <2>1. Seen!HandAt(n) + 1 \in 0 .. (3 * NumBufs - 1) /\ NumBufs \in Nat \ {0}
    BY <1>2, NumBufsAssumption
  <2>2. PICK m \in 0 .. (3 * NumBufs - 1) : m = Seen!HandAt(n) + 1
    BY <2>1
  <2>3. m % NumBufs = IF m < NumBufs THEN m
                      ELSE IF m < 2 * NumBufs THEN m - NumBufs ELSE m - 2 * NumBufs
    BY <2>1, NumBufsAssumption, MaxPinAssumption, FreshAssumption, FreeAssumption,
       NullAssumption, Seen!Remainder
  <2> QED
    BY <1>2, <2>1, <2>2, <2>3
<1> QED
  BY <1>1, <1>3, HandPosition, NumBufsAssumption

\* The hand comes to a frame again exactly in the second turn.
LEMMA VisitedAgain ==
    ASSUME Seen!TypeOK, NEW k \in Seen!ScanSteps
    PROVE  k > NumBufs <=> \E j \in 1 .. (k - 1) : Seen!HandAt(j) = Seen!HandAt(k)
<1>0. k \in 1 .. (2 * NumBufs) /\ NumBufs \in Nat \ {0}
  BY NumBufsAssumption DEF Seen!ScanSteps
<1>1. ASSUME k > NumBufs PROVE \E j \in 1 .. (k - 1) : Seen!HandAt(j) = Seen!HandAt(k)
  <2>1. k - NumBufs \in 1 .. (k - 1) /\ k - NumBufs \in 0 .. (2 * NumBufs)
        /\ k \in 0 .. (2 * NumBufs)
    BY <1>0, <1>1
  <2>2. Seen!HandAt(k - NumBufs) = Seen!HandAt(k)
    BY <1>0, <1>1, <2>1, HandPosition
  <2> QED
    BY <2>1, <2>2
<1>2. ASSUME NEW j \in 1 .. (k - 1), Seen!HandAt(j) = Seen!HandAt(k) PROVE k > NumBufs
  <2>1. j \in 0 .. (2 * NumBufs) /\ k \in 0 .. (2 * NumBufs)
    BY <1>0
  <2> QED
    BY <1>0, <1>2, <2>1, HandPosition
<1> QED
  BY <1>1, <1>2

-----------------------------------------------------------------------------
(***************************************************************************)
(* What a visit sees and leaves                                            *)
(***************************************************************************)
\* BufMgr's definitions name the same things for the pool its caller sees.
LEMMA SameConstants ==
    /\ Seen!Frames = Frames /\ Seen!Keys = Keys /\ Seen!NoFrame = NoFrame
    /\ Seen!Clear = Clear /\ Seen!BufDesc = BufDesc
    /\ \A f, p : Seen!Set(f, p) = Set(f, p)
BY DEF Seen!Frames, Frames, Seen!Keys, Keys, Seen!NoFrame, NoFrame, Seen!Clear, Clear,
       Seen!BufDesc, BufDesc, Seen!Set, Set

\* Clearing a refbit twice, or one that is clear, changes nothing.
LEMMA RefbitCleared ==
    ASSUME NEW d \in BufDesc, NEW c, c = [d EXCEPT !.refbit = FALSE],
           NEW e, e = d \/ e = c
    PROVE  /\ e \in BufDesc /\ e.valid = d.valid /\ e.pinCnt = d.pinCnt
           /\ e.file = d.file /\ e.pageNo = d.pageNo /\ e.dirty = d.dirty
           /\ [e EXCEPT !.refbit = FALSE] = c
           /\ ~e.refbit => c = e
           /\ ~c.refbit
BY DEF BufDesc

\* The frame of the n+1st visit, as the n before it have left it.
LEMMA AtHand ==
    ASSUME Seen!TypeOK, NEW n \in 0 .. (2 * NumBufs - 1),
           NEW h, h = Seen!HandAt(n + 1), NEW d, d = Seen!Swept(n)[h]
    PROVE  /\ h \in Frames /\ n + 1 \in Seen!ScanSteps
           /\ d \in BufDesc
           /\ d.valid = seenTable[h].valid /\ d.pinCnt = seenTable[h].pinCnt
           /\ d.file = seenTable[h].file /\ d.pageNo = seenTable[h].pageNo
           /\ d.dirty = seenTable[h].dirty
           /\ Seen!UsableAt(n + 1) <=> ~d.valid \/ (d.pinCnt = 0 /\ ~d.refbit)
<1>1. n + 1 \in Seen!ScanSteps /\ n + 1 \in 0 .. (2 * NumBufs) /\ (n + 1) - 1 = n
  BY NumBufsAssumption DEF Seen!ScanSteps
<1>2. h \in Frames
  BY <1>1, HandPosition, NumBufsAssumption DEF Frames
<1>3. seenTable[h] \in BufDesc
  BY <1>2, SameConstants DEF Seen!TypeOK
<1>c. PICK c : c = [seenTable[h] EXCEPT !.refbit = FALSE]
  OBVIOUS
<1>4. d = IF \E j \in 1 .. n : Seen!HandAt(j) = h THEN c ELSE seenTable[h]
  BY <1>2, <1>c, SameConstants DEF Seen!Swept
<1>5. n + 1 > NumBufs <=> \E j \in 1 .. n : Seen!HandAt(j) = h
  BY <1>1, VisitedAgain
<1>6. d.refbit <=> seenTable[h].refbit /\ ~(n + 1 > NumBufs)
  <2>1. CASE n + 1 > NumBufs
    BY <1>3, <1>c, <1>4, <1>5, <2>1, RefbitCleared
  <2>2. CASE ~(n + 1 > NumBufs)
    BY <1>4, <1>5, <2>2
  <2> QED
    BY <2>1, <2>2
<1>7. /\ d \in BufDesc /\ d.valid = seenTable[h].valid /\ d.pinCnt = seenTable[h].pinCnt
      /\ d.file = seenTable[h].file /\ d.pageNo = seenTable[h].pageNo
      /\ d.dirty = seenTable[h].dirty
  BY <1>3, <1>c, <1>4, RefbitCleared
<1>8. Seen!UsableAt(n + 1) <=> ~seenTable[h].valid
            \/ (seenTable[h].pinCnt = 0 /\ (~seenTable[h].refbit \/ n + 1 > NumBufs))
  BY DEF Seen!UsableAt
<1> QED
  BY <1>1, <1>2, <1>6, <1>7, <1>8

\* One more visit takes one more refbit, if it is still there.
LEMMA SweptOn ==
    ASSUME Seen!TypeOK, NEW n \in 0 .. (2 * NumBufs - 1), NEW h, h = Seen!HandAt(n + 1)
    PROVE  /\ Seen!Swept(n + 1) = [Seen!Swept(n) EXCEPT ![h].refbit = FALSE]
           /\ ~Seen!Swept(n)[h].refbit => Seen!Swept(n + 1) = Seen!Swept(n)
           /\ \A i \in Frames \ {h} : Seen!Swept(n + 1)[i] = Seen!Swept(n)[i]
<1>1. h \in Frames
  BY AtHand
<1>2. \A i \in Frames : seenTable[i] \in BufDesc
  BY SameConstants DEF Seen!TypeOK
<1>3. 1 .. (n + 1) = (1 .. n) \cup {n + 1}
  BY NumBufsAssumption
<1>4. \A i \in Frames \ {h} : Seen!Swept(n + 1)[i] = Seen!Swept(n)[i]
  BY <1>3, SameConstants DEF Seen!Swept
<1>5. PICK c : c = [seenTable[h] EXCEPT !.refbit = FALSE]
  OBVIOUS
<1>6. /\ Seen!Swept(n + 1)[h] = c
      /\ Seen!Swept(n)[h] = seenTable[h] \/ Seen!Swept(n)[h] = c
  BY <1>1, <1>3, <1>5, SameConstants DEF Seen!Swept
<1>7. /\ Seen!Swept(n + 1)[h] = [Seen!Swept(n)[h] EXCEPT !.refbit = FALSE]
      /\ ~Seen!Swept(n)[h].refbit => Seen!Swept(n + 1)[h] = Seen!Swept(n)[h]
  <2>1. PICK e : e = Seen!Swept(n)[h]
    OBVIOUS
  <2>2. e = seenTable[h] \/ e = c
    BY <1>6, <2>1
  <2>3. [e EXCEPT !.refbit = FALSE] = c /\ (~e.refbit => c = e)
    BY <1>1, <1>2, <1>5, <2>2, RefbitCleared
  <2> QED
    BY <1>6, <2>1, <2>3
<1>8. /\ Seen!Swept(n + 1) = [i \in Frames |-> Seen!Swept(n + 1)[i]]
      /\ Seen!Swept(n) = [i \in Frames |-> Seen!Swept(n)[i]]
  BY SameConstants DEF Seen!Swept
<1>9. \A g, k : /\ g = [i \in Frames |-> g[i]] /\ k = [i \in Frames |-> k[i]]
                /\ \A i \in Frames : g[i] = k[i]
                => g = k
  OBVIOUS
<1>10. Seen!Swept(n + 1) = [Seen!Swept(n) EXCEPT ![h] = [Seen!Swept(n)[h] EXCEPT !.refbit = FALSE]]
  BY <1>1, <1>4, <1>7, <1>8
<1>11. ~Seen!Swept(n)[h].refbit => Seen!Swept(n + 1) = Seen!Swept(n)
  BY <1>4, <1>7, <1>8
<1> QED
  BY <1>4, <1>10, <1>11

-----------------------------------------------------------------------------
(***************************************************************************)
(* What CallInv says of the next state, while the caller sees no change    *)
(***************************************************************************)
SameView ==
    /\ seenTable' = seenTable /\ seenHash' = seenHash
    /\ seenHand' = seenHand /\ seenDisk' = seenDisk /\ bufPool' = bufPool

\* Inside a call its caller sees what the pool was.
LEMMA InsideCall ==
    ASSUME pc # "idle", pc' # "idle", before' = before, bufPool' = bufPool
    PROVE  SameView
BY DEF SameView, seenTable, seenHash, seenHand, seenDisk

\* The loop goes on after n visits.
LEMMA LoopInvNext ==
    ASSUME SameView, NEW n, numScanned' = n, ~found',
           bufDescTable' = Seen!Swept(n), hashTable' = seenHash, disk' = seenDisk,
           \A j \in 1 .. n : ~Seen!UsableAt(j)
    PROVE  LoopInv'
BY DEF SameView, LoopInv, Seen!Swept, Seen!HandAt, Seen!UsableAt, Seen!Frames

\* The search has stopped at visit n, on frame h.
LEMMA VictimFoundNext ==
    ASSUME SameView, NEW n \in Seen!ScanSteps, numScanned' = n, Seen!StopsAt(n),
           NEW h, clockHand' = h, hashTable' = Seen!HashWithout(h)
    PROVE  VictimFound'
BY DEF SameView, VictimFound, Seen!StopsAt, Seen!UsableAt, Seen!HandAt, Seen!ScanSteps,
       Seen!HashWithout, Seen!NoFrame

\* The loop has been left at frame h.
LEMMA TailInvNext ==
    ASSUME SameView, VictimFound', NEW n, numScanned' = n, NEW h, clockHand' = h,
           found' <=> seenTable[h].valid,
           bufDescTable' = Seen!Swept(n - 1), disk' = seenDisk
    PROVE  TailInv'
BY DEF SameView, TailInv, Seen!Swept, Seen!HandAt, Seen!Frames

\* Frame h has been written back and cleared.
LEMMA FileInvNext ==
    ASSUME SameView, VictimFound', NEW n, numScanned' = n, NEW h, clockHand' = h,
           bufDescTable' = [Seen!Swept(n - 1) EXCEPT ![h] = Clear],
           disk' = Seen!DiskAfterWriteBack(h)
    PROVE  FileInv'
BY DEF SameView, FileInv, Seen!Swept, Seen!HandAt, Seen!Frames, Seen!DiskAfterWriteBack

\* The call goes on.
LEMMA CallInvNext ==
    ASSUME SameView, \/ Asked'
                     \/ Asked /\ call' = call,
           NEW n \in 0 .. (2 * NumBufs), numScanned' = n, clockHand' = Seen!HandAt(n),
           \/ pc' = "loop" /\ LoopInv'
           \/ pc' = "tail" /\ TailInv'
           \/ pc' = "file" /\ FileInv'
    PROVE  CallInv'
<1>1. Asked'
  BY DEF SameView, Asked
<1> QED
  BY <1>1 DEF SameView, CallInv, Seen!HandAt

-----------------------------------------------------------------------------
(***************************************************************************)
(* The steps inside a call                                                 *)
(***************************************************************************)
\* A turn of the loop: it goes on while BufMgr's search does.
LEMMA VisitStep ==
    ASSUME StepInv, Visit
    PROVE  SameView /\ CallInv'
<1>1. PICK n \in 0 .. (2 * NumBufs - 1) : n = numScanned
  BY NumBufsAssumption DEF Visit, Scanning, StepInv, CallInv
<1>2. /\ pc = "loop" /\ Seen!IInv /\ Seen!TypeOK /\ Asked /\ LoopInv
      /\ clockHand = Seen!HandAt(n)
  BY <1>1 DEF Visit, StepInv, CallInv, Seen!IInv
<1>3. PICK h : h = Seen!HandAt(n + 1)
  OBVIOUS
<1>4. numScanned' = n + 1 /\ clockHand' = h /\ n + 1 \in 0 .. (2 * NumBufs)
  BY <1>1, <1>2, <1>3, Advanced, NumBufsAssumption DEF Visit, AdvanceClock, Counted
<1>5. SameView /\ call' = call /\ disk' = disk
  BY <1>2, InsideCall DEF Visit, VisitInvalid, VisitReferenced, VisitPinned, VisitVictim
<1>6. PICK d : d = Seen!Swept(n)[h]
  OBVIOUS
<1>7. /\ h \in Frames /\ n + 1 \in Seen!ScanSteps /\ d \in BufDesc
      /\ d.valid = seenTable[h].valid
      /\ d.file = seenTable[h].file /\ d.pageNo = seenTable[h].pageNo
      /\ Seen!UsableAt(n + 1) <=> ~d.valid \/ (d.pinCnt = 0 /\ ~d.refbit)
  BY <1>2, <1>3, <1>6, AtHand
<1>8. /\ bufDescTable = Seen!Swept(n) /\ bufDescTable[h] = d
      /\ hashTable = seenHash /\ disk = seenDisk /\ ~found
      /\ \A j \in 1 .. n : ~Seen!UsableAt(j)
  BY <1>1, <1>2, <1>6 DEF LoopInv
<1>9. ASSUME ~Seen!UsableAt(n + 1), pc' = "loop", bufDescTable' = Seen!Swept(n + 1),
             hashTable' = hashTable, found' = found
      PROVE  CallInv'
  <2>1. \A j \in 1 .. (n + 1) : ~Seen!UsableAt(j)
    BY <1>8, <1>9
  <2>2. LoopInv'
    BY <1>4, <1>5, <1>8, <1>9, <2>1, LoopInvNext
  <2> QED
    BY <1>2, <1>3, <1>4, <1>5, <1>9, <2>2, CallInvNext
<1>10. ASSUME Seen!UsableAt(n + 1), pc' = "tail", bufDescTable' = bufDescTable,
              hashTable' = Seen!HashWithout(h), found' <=> d.valid
       PROVE  CallInv'
  <2>1. (n + 1) - 1 = n
    OBVIOUS
  <2>2. Seen!StopsAt(n + 1)
    BY <1>8, <1>10, <2>1 DEF Seen!StopsAt
  <2>3. VictimFound'
    BY <1>4, <1>5, <1>7, <1>10, <2>2, VictimFoundNext
  <2>4. TailInv'
    BY <1>4, <1>5, <1>7, <1>8, <1>10, <2>1, <2>3, TailInvNext
  <2> QED
    BY <1>2, <1>3, <1>4, <1>5, <1>10, <2>4, CallInvNext
<1>11. CASE VisitInvalid
  <2>1. Seen!HashWithout(h) = seenHash
    BY <1>4, <1>7, <1>8, <1>11 DEF VisitInvalid, Seen!HashWithout
  <2> QED
    BY <1>4, <1>5, <1>7, <1>8, <1>10, <1>11, <2>1 DEF VisitInvalid
<1>12. CASE VisitReferenced
  <2>1. ~Seen!UsableAt(n + 1)
    BY <1>4, <1>7, <1>8, <1>12 DEF VisitReferenced
  <2>2. bufDescTable' = Seen!Swept(n + 1)
    BY <1>2, <1>3, <1>4, <1>8, <1>12, SweptOn DEF VisitReferenced
  <2> QED
    BY <1>2, <1>5, <1>9, <1>12, <2>1, <2>2 DEF VisitReferenced
<1>13. CASE VisitPinned
  <2>1. ~Seen!UsableAt(n + 1)
    BY <1>4, <1>7, <1>8, <1>13 DEF VisitPinned
  <2>2. bufDescTable' = Seen!Swept(n + 1)
    BY <1>2, <1>3, <1>4, <1>6, <1>8, <1>13, SweptOn DEF VisitPinned
  <2> QED
    BY <1>2, <1>5, <1>9, <1>13, <2>1, <2>2 DEF VisitPinned
<1>14. CASE VisitVictim
  <2>1. Seen!HashWithout(h) = HashWithout(h)
    BY <1>7, <1>8 DEF Seen!HashWithout, HashWithout, Seen!NoFrame, NoFrame
  <2> QED
    BY <1>4, <1>5, <1>7, <1>8, <1>10, <1>14, <2>1 DEF VisitVictim
<1> QED
  BY <1>5, <1>11, <1>12, <1>13, <1>14 DEF Visit

\* The tail writes back the frame BufMgr's search stops at.
LEMMA WriteBackStep ==
    ASSUME StepInv, WriteBack
    PROVE  SameView /\ CallInv'
<1>1. /\ pc = "tail" /\ Seen!TypeOK /\ CallInv /\ Asked /\ TailInv
  BY NumBufsAssumption DEF WriteBack, AfterLoop, Scanning, StepInv, CallInv, LoopInv, Seen!IInv
<1>2. PICK n \in Seen!ScanSteps : n = numScanned /\ Seen!StopsAt(n)
  BY <1>1 DEF TailInv, VictimFound
<1>3. PICK m \in 0 .. (2 * NumBufs - 1) : n = m + 1
  <2>1. n - 1 \in 0 .. (2 * NumBufs - 1) /\ n = (n - 1) + 1
    BY NumBufsAssumption DEF Seen!ScanSteps
  <2> QED
    BY <2>1
<1>4. PICK h : h = clockHand /\ h = Seen!HandAt(n)
  BY <1>1, <1>2 DEF CallInv
<1>5. SameView
  BY <1>1, InsideCall DEF WriteBack
<1>6. /\ numScanned' = n /\ clockHand' = h /\ call' = call /\ pc' = "file"
      /\ hashTable' = Seen!HashWithout(h)
      /\ bufDescTable = Seen!Swept(n - 1) /\ disk = seenDisk
      /\ bufDescTable' = [Seen!Swept(n - 1) EXCEPT ![h] = Clear]
      /\ disk' = DiskAfterWriteBack(h)
  BY <1>1, <1>2, <1>4 DEF WriteBack, TailInv, VictimFound
<1>7. n - 1 = m
  BY <1>3
<1>8. PICK d : d = Seen!Swept(m)[h]
  OBVIOUS
<1>9. d.file = seenTable[h].file /\ d.pageNo = seenTable[h].pageNo /\ d.dirty = seenTable[h].dirty
  BY <1>1, <1>3, <1>4, <1>8, AtHand
<1>10. disk' = Seen!DiskAfterWriteBack(h)
  BY <1>6, <1>7, <1>8, <1>9 DEF DiskAfterWriteBack, Seen!DiskAfterWriteBack
<1>11. VictimFound'
  BY <1>2, <1>5, <1>6, VictimFoundNext
<1>12. FileInv'
  BY <1>5, <1>6, <1>10, <1>11, FileInvNext
<1>13. n \in 0 .. (2 * NumBufs)
  BY NumBufsAssumption DEF Seen!ScanSteps
<1> QED
  BY <1>1, <1>4, <1>5, <1>6, <1>12, <1>13, CallInvNext

\* Two turns without a usable frame: BufMgr's search fails as well.  A frame
\* that is not in use would have been found in the first turn.
LEMMA ExceededStep ==
    ASSUME StepInv, Exceeded
    PROVE  Seen!Next
<1>1. /\ Seen!IInv /\ Seen!TypeOK /\ CallInv /\ Asked
      /\ pc # "idle" /\ pc' = "idle" /\ numScanned = 2 * NumBufs
      /\ (pc = "loop" /\ LoopInv) \/ (pc = "tail" /\ TailInv)
  BY NumBufsAssumption DEF Exceeded, AfterLoop, Return, StepInv, CallInv, Seen!IInv
<1>2. pc = "loop" /\ LoopInv
  <2> SUFFICES ASSUME TailInv PROVE FALSE
    BY <1>1
  <2>1. /\ ~seenTable[clockHand].valid /\ clockHand = Seen!HandAt(2 * NumBufs)
        /\ \A j \in 1 .. (2 * NumBufs - 1) : ~Seen!UsableAt(j)
    BY <1>1 DEF Exceeded, TailInv, VictimFound, Seen!StopsAt, CallInv
  <2>2. clockHand \in Frames
    <3>1. 2 * NumBufs \in 0 .. (2 * NumBufs)
      BY NumBufsAssumption
    <3> QED
      BY <1>1, <2>1, <3>1, HandPosition, NumBufsAssumption DEF Frames
  <2>3. PICK i \in Frames : i = clockHand
    BY <2>2
  <2>4. PICK k \in Seen!ScanSteps : k <= NumBufs /\ Seen!HandAt(k) = i
    BY <1>1, <2>3, SameConstants, NumBufsAssumption, MaxPinAssumption, FreshAssumption,
       FreeAssumption, NullAssumption, Seen!FirstTurn DEF Seen!TypeOK
  <2>5. k \in 1 .. (2 * NumBufs - 1)
    BY <2>4, NumBufsAssumption DEF Seen!ScanSteps
  <2>6. Seen!UsableAt(k)
    BY <2>1, <2>3, <2>4 DEF Seen!UsableAt
  <2> QED
    BY <2>1, <2>5, <2>6
<1>3. Seen!BufferExceeded
  BY <1>1, <1>2 DEF LoopInv, Seen!BufferExceeded, Seen!ScanSteps
<1>4. /\ seenTable' = bufDescTable' /\ seenHash' = hashTable'
      /\ seenHand' = clockHand' /\ seenDisk' = disk'
  BY <1>1 DEF seenTable, seenHash, seenHand, seenDisk
<1>5. Seen!AllocBufFails
  BY <1>1, <1>2, <1>3, <1>4 DEF Exceeded, LoopInv, CallInv, Seen!AllocBufFails
<1> QED
  BY <1>1, <1>5, SameConstants DEF Asked, Seen!Next, Seen!ReadPage, Seen!AllocPage

\* The call of the file ends readPage or allocPage as BufMgr says.
LEMMA FinishStep ==
    ASSUME StepInv, Finish
    PROVE  Seen!Next
<1>1. /\ Seen!IInv /\ Seen!TypeOK /\ CallInv /\ Asked /\ FileInv /\ VictimFound
      /\ pc # "idle" /\ pc' = "idle"
  BY DEF Finish, Return, StepInv, CallInv, FileInv, Seen!IInv
<1>2. PICK n \in Seen!ScanSteps : n = numScanned /\ Seen!StopsAt(n)
  BY <1>1 DEF VictimFound
<1>3. PICK m \in 0 .. (2 * NumBufs - 1) : n = m + 1
  <2>1. n - 1 \in 0 .. (2 * NumBufs - 1) /\ n = (n - 1) + 1
    BY NumBufsAssumption DEF Seen!ScanSteps
  <2> QED
    BY <2>1
<1>4. PICK h \in Frames : h = clockHand /\ h = Seen!HandAt(n)
  BY <1>1, <1>2, <1>3, AtHand DEF CallInv
<1>5. /\ seenTable' = bufDescTable' /\ seenHash' = hashTable'
      /\ seenHand' = clockHand' /\ seenDisk' = disk'
  BY <1>1 DEF seenTable, seenHash, seenHand, seenDisk
<1>6. n - 1 = m
  BY <1>3
<1>7. /\ hashTable = Seen!HashWithout(h) /\ disk = Seen!DiskAfterWriteBack(h)
      /\ bufDescTable = [Seen!Swept(m) EXCEPT ![h] = Clear]
  BY <1>1, <1>2, <1>4, <1>6 DEF VictimFound, FileInv
<1>8. \A x : [bufDescTable EXCEPT ![h] = x] = [Seen!Swept(n) EXCEPT ![h] = x]
  <2>1. \A i \in Frames \ {h} : Seen!Swept(n)[i] = Seen!Swept(m)[i]
    BY <1>1, <1>3, <1>4, SweptOn
  <2>2. /\ Seen!Swept(n) = [i \in Frames |-> Seen!Swept(n)[i]]
        /\ Seen!Swept(m) = [i \in Frames |-> Seen!Swept(m)[i]]
    BY SameConstants DEF Seen!Swept
  <2> QED
    BY <1>7, <2>1, <2>2
<1>9. bufDescTable = [Seen!Swept(n) EXCEPT ![h] = Clear]
  <2>1. bufDescTable = [bufDescTable EXCEPT ![h] = Clear]
    BY <1>4, <1>7, SameConstants DEF Seen!Swept
  <2> QED
    BY <1>8, <2>1
<1>10. PICK f \in Files : f = call.file
  BY <1>1 DEF Asked
<1>11. CASE FileRead
  <2>1. PICK p \in Pages : p = call.pageNo /\ seenHash[<<f, p>>] = NoFrame
    BY <1>1, <1>10, <1>11 DEF Asked, FileRead
  <2>2. CASE disk[<<f, p>>] # Free
    <3>1. EnterPage(f, p) /\ disk' = disk
      BY <1>10, <1>11, <2>1, <2>2 DEF FileRead
    <3>2. Seen!AllocBufFor(n, f, p, disk[<<f, p>>], disk)
      BY <1>4, <1>5, <1>7, <1>8, <3>1, SameConstants DEF EnterPage, Seen!AllocBufFor
    <3>3. Seen!ReadMiss(f, p)
      BY <1>2, <1>4, <1>7, <2>1, <2>2, <3>2, SameConstants DEF Seen!ReadMiss
    <3> QED
      BY <3>3 DEF Seen!Next, Seen!ReadPage
  <2>3. CASE disk[<<f, p>>] = Free
    <3>1. /\ disk' = disk /\ exc' = "InvalidPage"
          /\ UNCHANGED <<bufDescTable, bufPool, hashTable, clockHand, unreported>>
      BY <1>10, <1>11, <2>1, <2>3 DEF FileRead
    <3>2. Seen!ReadInvalid(f, p)
      BY <1>2, <1>4, <1>5, <1>7, <1>9, <2>1, <2>3, <3>1, SameConstants DEF Seen!ReadInvalid
    <3> QED
      BY <3>2 DEF Seen!Next, Seen!ReadPage
  <2> QED
    BY <2>2, <2>3
<1>12. CASE FileAllocate
  <2>1. PICK p \in Pages : /\ disk[<<f, p>>] = Free
                           /\ disk' = [disk EXCEPT ![<<f, p>>] = Fresh]
                           /\ EnterPage(f, p)
    BY <1>10, <1>12 DEF FileAllocate
  <2>2. <<f, p>> \in Seen!Keys
    BY DEF Seen!Keys
  <2>3. /\ disk \in [Seen!Keys -> Contents \cup {Free}]
        /\ seenDisk[<<f, p>>] = Free
    <3>1. h \notin unreported
      BY <1>1, <1>2, <1>4, NumBufsAssumption, MaxPinAssumption, FreshAssumption,
         FreeAssumption, NullAssumption, Seen!VictimFacts
    <3> QED
      BY <1>1, <1>4, <1>7, <2>1, <2>2, <3>1, SameConstants, NumBufsAssumption,
         MaxPinAssumption, FreshAssumption, FreeAssumption, NullAssumption, Seen!EvictFacts
  <2>4. disk'[<<f, p>>] = Fresh
    BY <2>1, <2>2, <2>3
  <2>5. Seen!AllocBufFor(n, f, p, Fresh, [Seen!DiskAfterWriteBack(h) EXCEPT ![<<f, p>>] = Fresh])
    BY <1>4, <1>5, <1>7, <1>8, <2>1, <2>4, SameConstants DEF EnterPage, Seen!AllocBufFor
  <2>6. Seen!AllocPage(f)
    BY <1>2, <1>4, <2>3, <2>5 DEF Seen!AllocPage
  <2> QED
    BY <2>6 DEF Seen!Next
<1> QED
  BY <1>11, <1>12 DEF Finish

-----------------------------------------------------------------------------
(***************************************************************************)
(* The steps between calls                                                 *)
(***************************************************************************)
\* A call begins: its caller sees no change.
LEMMA EnterStep ==
    ASSUME StepInv, NEW c, Enter(c), c.file \in Files,
           c.alloc \/ (c.pageNo \in Pages /\ hashTable[<<c.file, c.pageNo>>] = NoFrame)
    PROVE  SameView /\ CallInv'
<1>1. /\ pc = "idle" /\ pc' = "loop" /\ before' = Snapshot /\ call' = c
      /\ numScanned' = 0 /\ ~found'
      /\ UNCHANGED <<bufDescTable, bufPool, hashTable, clockHand, disk>>
  BY DEF Enter, vars
<1>2. /\ seenTable = bufDescTable /\ seenHash = hashTable
      /\ seenHand = clockHand /\ seenDisk = disk
  BY <1>1 DEF seenTable, seenHash, seenHand, seenDisk
<1>3. SameView
  BY <1>1, <1>2 DEF SameView, seenTable, seenHash, seenHand, seenDisk, Snapshot
<1>4. Asked'
  BY <1>1, <1>2, <1>3 DEF Asked, SameView
<1>5. Seen!TypeOK
  BY DEF StepInv, Seen!IInv
<1>6. Seen!Swept(0) = seenTable
  BY <1>5 DEF Seen!TypeOK, Seen!Swept
<1>7. 0 \in 0 .. (2 * NumBufs) /\ Seen!HandAt(0) = seenHand
  <2>1. 0 \in 0 .. (2 * NumBufs)
    BY NumBufsAssumption
  <2> QED
    BY <1>5, <2>1, HandPosition, NumBufsAssumption
<1>8. LoopInv'
  BY <1>1, <1>2, <1>3, <1>6, LoopInvNext
<1> QED
  BY <1>1, <1>2, <1>3, <1>4, <1>7, <1>8, CallInvNext

\* readPage is called of a page that is not buffered; allocPage of a file.
LEMMA CallStep ==
    ASSUME StepInv, NEW f \in Files
    PROVE  /\ \A p \in Pages : CallReadPage(f, p) => SameView /\ CallInv'
           /\ CallAllocPage(f) => SameView /\ CallInv'
<1>1. ASSUME NEW p \in Pages, CallReadPage(f, p) PROVE SameView /\ CallInv'
  <2>1. PICK c : c = [alloc |-> FALSE, file |-> f, pageNo |-> p]
    OBVIOUS
  <2>2. c.file = f /\ c.pageNo = p
    BY <2>1
  <2>3. Enter(c) /\ hashTable[<<c.file, c.pageNo>>] = NoFrame
    BY <1>1, <2>1, <2>2 DEF CallReadPage
  <2> QED
    BY <2>2, <2>3, EnterStep
<1>2. ASSUME CallAllocPage(f) PROVE SameView /\ CallInv'
  <2>1. PICK c : c = [alloc |-> TRUE, file |-> f, pageNo |-> NoPage]
    OBVIOUS
  <2>2. c.file = f /\ c.alloc
    BY <2>1
  <2>3. Enter(c)
    BY <1>2, <2>1 DEF CallAllocPage
  <2> QED
    BY <2>2, <2>3, EnterStep
<1> QED
  BY <1>1, <1>2

\* The other calls are those of BufMgr.
LEMMA OtherCallStep ==
    ASSUME OtherCall
    PROVE  Seen!Next /\ pc' = "idle"
<1>1. pc = "idle" /\ pc' = "idle"
  BY DEF OtherCall, local
<1>2. /\ seenTable = bufDescTable /\ seenTable' = bufDescTable'
      /\ seenHash = hashTable /\ seenHash' = hashTable'
      /\ seenHand = clockHand /\ seenHand' = clockHand'
      /\ seenDisk = disk /\ seenDisk' = disk'
  BY <1>1 DEF seenTable, seenHash, seenHand, seenDisk
<1>3. ASSUME NEW f \in Files, NEW p \in Pages
      PROVE  /\ ReadHit(f, p) => Seen!ReadHit(f, p)
             /\ \A dirty \in BOOLEAN : UnPinPage(f, p, dirty) => Seen!UnPinPage(f, p, dirty)
             /\ DisposePage(f, p) => Seen!DisposePage(f, p)
  <2>1. ReadHit(f, p) => Seen!ReadHit(f, p)
    BY <1>2 DEF ReadHit, Seen!ReadHit, Referenced, Seen!Referenced, NoFrame, Seen!NoFrame
  <2>2. LookupFails(f, p) => Seen!LookupFails(f, p)
    BY <1>2 DEF LookupFails, Seen!LookupFails, NoFrame, Seen!NoFrame
  <2>3. ASSUME NEW dirty \in BOOLEAN, UnPinBuffered(f, p, dirty)
        PROVE  Seen!UnPinBuffered(f, p, dirty)
    BY <1>2, <2>3 DEF UnPinBuffered, Seen!UnPinBuffered, Marked, Seen!Marked,
                      Unpinned, Seen!Unpinned, NoFrame, Seen!NoFrame
  <2>4. DisposeBuffered(f, p) => Seen!DisposeBuffered(f, p)
    BY <1>2 DEF DisposeBuffered, Seen!DisposeBuffered, Clear, Seen!Clear, NoFrame, Seen!NoFrame
  <2> QED
    BY <2>1, <2>2, <2>3, <2>4 DEF UnPinPage, Seen!UnPinPage, DisposePage, Seen!DisposePage
<1>4. ASSUME NEW f \in Files
      PROVE  /\ FlushFile(f) => Seen!FlushFile(f)
             /\ CleanUpPinnedPage(f) => Seen!CleanUpPinnedPage(f)
  <2>1. FlushFile(f) => Seen!FlushFile(f)
    BY <1>2, SameConstants DEF FlushFile, Seen!FlushFile, Holds, Seen!Holds, KeyOf, Seen!KeyOf,
                               DiskAfterFlush, Seen!DiskAfterFlush
  <2>2. CleanUpPinnedPage(f) => Seen!CleanUpPinnedPage(f)
    BY <1>2, SameConstants DEF CleanUpPinnedPage, Seen!CleanUpPinnedPage, Holds, Seen!Holds,
                               CleanedUp, Seen!CleanedUp
  <2> QED
    BY <2>1, <2>2
<1>5. ASSUME NEW i \in Frames, NEW c \in Contents, WritePage(i, c) PROVE Seen!WritePage(i, c)
  BY <1>2, <1>5 DEF WritePage, Seen!WritePage
<1>6. Restart => Seen!Restart
  BY <1>2, SameConstants DEF Restart, Seen!Restart, DiskAfterFlush, Seen!DiskAfterFlush,
                             KeyOf, Seen!KeyOf
<1> QED
  BY <1>1, <1>3, <1>4, <1>5, <1>6, SameConstants DEF OtherCall, Seen!Next, Seen!ReadPage

\* Nothing has been called at first.
LEMMA StepInitStep == StepInit => StepInv /\ Atomic!Init
<1> SUFFICES ASSUME StepInit PROVE StepInv /\ Atomic!Init
  OBVIOUS
<1>1. pc = "idle" /\ Init
  BY DEF StepInit
<1>2. /\ seenTable = bufDescTable /\ seenHash = hashTable
      /\ seenHand = clockHand /\ seenDisk = disk
  BY <1>1 DEF seenTable, seenHash, seenHand, seenDisk
<1>3. Seen!Init
  BY <1>1, <1>2, SameConstants DEF Init, Seen!Init
<1>4. Atomic!Init
  BY <1>1, <1>2 DEF Init, Atomic!Init, Atomic!Frames, Frames, Atomic!Clear, Clear,
                    Atomic!Keys, Keys, Atomic!NoFrame, NoFrame
<1>5. Seen!IInv
  BY <1>3, NumBufsAssumption, MaxPinAssumption, FreshAssumption, FreeAssumption,
     NullAssumption, Seen!InitStep
<1> QED
  BY <1>1, <1>4, <1>5 DEF StepInv

\* BufMgr's steps, under either name.
LEMMA SameSteps == [Seen!Next]_(Seen!vars) => [Atomic!Next]_(Atomic!vars)
<1>1. Seen!vars = Atomic!vars
  BY DEF Seen!vars, Atomic!vars
<1>2. Seen!Next => Atomic!Next
  BY DEF Seen!Next, Seen!ReadPage, Seen!ReadHit, Seen!ReadMiss, Seen!ReadInvalid,
         Seen!UnPinPage, Seen!UnPinBuffered, Seen!LookupFails, Seen!DisposePage,
         Seen!DisposeBuffered, Seen!AllocPage, Seen!AllocBufFails, Seen!AllocBufFor,
         Seen!FlushFile, Seen!CleanUpPinnedPage, Seen!WritePage, Seen!Restart,
         Seen!Referenced, Seen!Marked, Seen!Unpinned, Seen!CleanedUp,
         Seen!DiskAfterFlush, Seen!KeyOf, Seen!Holds, Seen!Swept, Seen!HandAt,
         Seen!UsableAt, Seen!StopsAt, Seen!BufferExceeded, Seen!HashWithout,
         Seen!DiskAfterWriteBack, Seen!Frames, Seen!Keys, Seen!Clear, Seen!Set,
         Seen!NoFrame, Seen!ScanSteps,
         Atomic!Next, Atomic!ReadPage, Atomic!ReadHit, Atomic!ReadMiss,
         Atomic!ReadInvalid, Atomic!UnPinPage, Atomic!UnPinBuffered, Atomic!LookupFails,
         Atomic!DisposePage, Atomic!DisposeBuffered, Atomic!AllocPage,
         Atomic!AllocBufFails, Atomic!AllocBufFor, Atomic!FlushFile,
         Atomic!CleanUpPinnedPage, Atomic!WritePage, Atomic!Restart, Atomic!Referenced,
         Atomic!Marked, Atomic!Unpinned, Atomic!CleanedUp, Atomic!DiskAfterFlush,
         Atomic!KeyOf, Atomic!Holds, Atomic!Swept, Atomic!HandAt, Atomic!UsableAt,
         Atomic!StopsAt, Atomic!BufferExceeded, Atomic!HashWithout,
         Atomic!DiskAfterWriteBack, Atomic!Frames, Atomic!Keys, Atomic!Clear, Atomic!Set,
         Atomic!NoFrame, Atomic!ScanSteps
<1>3. UNCHANGED Seen!vars => UNCHANGED Atomic!vars
  BY DEF Seen!vars, Atomic!vars
<1> QED
  BY <1>2, <1>3

\* Every step keeps StepInv and is a step of BufMgr, or none, for the caller.
LEMMA StepNextStep ==
    ASSUME StepInv, [StepNext]_stepVars
    PROVE  StepInv' /\ [Seen!Next]_(Seen!vars)
<1>1. ASSUME SameView, UNCHANGED <<unreported, exc>> PROVE UNCHANGED Seen!vars
  BY <1>1 DEF SameView, Seen!vars
<1>2. /\ [Seen!Next]_(Seen!vars)
      /\ pc' # "idle" => CallInv'
  <2>1. ASSUME NEW f \in Files, NEW p \in Pages, CallReadPage(f, p)
        PROVE  UNCHANGED Seen!vars /\ CallInv'
    BY <1>1, <2>1, CallStep DEF CallReadPage, Enter, vars
  <2>2. ASSUME NEW f \in Files, CallAllocPage(f)
        PROVE  UNCHANGED Seen!vars /\ CallInv'
    BY <1>1, <2>2, CallStep DEF CallAllocPage, Enter, vars
  <2>3. Visit => UNCHANGED Seen!vars /\ CallInv'
    BY <1>1, VisitStep DEF Visit
  <2>4. WriteBack => UNCHANGED Seen!vars /\ CallInv'
    BY <1>1, WriteBackStep DEF WriteBack
  <2>5. Exceeded => Seen!Next /\ pc' = "idle"
    BY ExceededStep DEF Exceeded, Return
  <2>6. Finish => Seen!Next /\ pc' = "idle"
    BY FinishStep DEF Finish, Return
  <2>7. UNCHANGED stepVars => UNCHANGED Seen!vars /\ (pc' # "idle" => CallInv')
    <3> SUFFICES ASSUME UNCHANGED stepVars
                 PROVE  UNCHANGED Seen!vars /\ (pc' # "idle" => CallInv')
      OBVIOUS
    <3>1. /\ UNCHANGED <<bufDescTable, bufPool, hashTable, clockHand, disk, unreported, exc>>
          /\ UNCHANGED <<pc, call, numScanned, found, before>>
      BY DEF stepVars, vars, local
    <3>2. SameView
      BY <3>1 DEF SameView, seenTable, seenHash, seenHand, seenDisk
    <3>3. UNCHANGED Seen!vars
      BY <1>1, <3>1, <3>2
    <3>4. ASSUME pc # "idle" PROVE CallInv'
      <4>1. PICK n \in 0 .. (2 * NumBufs) : n = numScanned /\ numScanned' = n
        BY <3>1, <3>4 DEF StepInv, CallInv
      <4>2. PICK h : h = clockHand /\ clockHand' = h /\ h = Seen!HandAt(n)
        BY <3>1, <3>4, <4>1 DEF StepInv, CallInv
      <4>3. LoopInv => LoopInv'
        BY <3>1, <3>2, <4>1, LoopInvNext DEF LoopInv
      <4>4. VictimFound => VictimFound'
        BY <3>1, <3>2, <4>1, <4>2, VictimFoundNext DEF VictimFound
      <4>5. TailInv => TailInv'
        BY <3>1, <3>2, <4>1, <4>2, <4>4, TailInvNext DEF TailInv
      <4>6. FileInv => FileInv'
        BY <3>1, <3>2, <4>1, <4>2, <4>4, FileInvNext DEF FileInv
      <4> QED
        BY <3>1, <3>2, <3>4, <4>1, <4>2, <4>3, <4>5, <4>6, CallInvNext DEF StepInv, CallInv
    <3> QED
      BY <3>1, <3>3, <3>4
  <2> QED
    BY <2>1, <2>2, <2>3, <2>4, <2>5, <2>6, <2>7, OtherCallStep DEF StepNext, InCall
<1>3. Seen!IInv'
  BY <1>2, NumBufsAssumption, MaxPinAssumption, FreshAssumption, FreeAssumption,
     NullAssumption, Seen!NextStep DEF StepInv
<1> QED
  BY <1>2, <1>3 DEF StepInv

\* readPage and allocPage run step by step are, for their callers, the single
\* actions of BufMgr: the loop of allocBuf stops at the frame BufMgr's search
\* names, in a pool of any size, and what its tail, the file and the hash
\* table do in turn adds up to what BufMgr does at once, failed calls included.
THEOREM StepsImplement == StepSpec => ImplementsBufMgr
<1>1. StepInv /\ [StepNext]_stepVars => StepInv' /\ [Atomic!Next]_(Atomic!vars)
  BY StepNextStep, SameSteps
<1> QED
  BY <1>1, StepInitStep, PTL DEF StepSpec, ImplementsBufMgr, Atomic!Spec

=============================================================================
