------------------------------- MODULE BTree -------------------------------
(***************************************************************************)
(* The B+ tree index of CSE132C_TreeIndex-master (btree.cpp, btree.h): the *)
(* insertions, the one scan an index may have open, closing and reopening. *)
(* The INTEGER, DOUBLE and STRING copies of every routine are one here.    *)
(*                                                                         *)
(* The pages of the index file are a sequence: a BlobFile numbers them     *)
(* from 1 in the order they are allocated and never frees one.  Nodes are  *)
(* read and written through the buffer pool; BufMgr says why the bytes of  *)
(* a pinned page stay, so here a call works on the pages themselves, and   *)
(* pins records what it leaves pinned.                                     *)
(*                                                                         *)
(* Arrays are 1-based: keys[i], kids[i] and entries[i] are keyArray[i-1],  *)
(* pageNoArray[i-1] and <<keyArray[i-1], ridArray[i-1]>>.                  *)
(***************************************************************************)
EXTENDS Integers, Sequences, FiniteSets, SequencesExt

CONSTANTS
    Records,    \* <<key, rid>> pairs of the relation; keys are integers
    Ranges,     \* scan ranges [low, lowOp, high, highOp] with valid operators
    LeafOcc,    \* leafOccupancy
    NodeOcc,    \* nodeOccupancy
    MaxReopen,  \* bound: an index with more pages is not reopened
    MaxLeft     \* bound: pins left on leaves when startScan is called

ASSUME LeafOccAssumption == LeafOcc \in Nat \ {0}
ASSUME NodeOccAssumption == NodeOcc \in Nat \ {0, 1} /\ LeafOcc <= NodeOcc
ASSUME RecordsAssumption == \A e \in Records : e[1] \in Int /\ e = <<e[1], e[2]>>
ASSUME RangesAssumption ==
    /\ Ranges # {}
    /\ \A r \in Ranges : /\ r.low \in Int /\ r.lowOp \in {"GT", "GTE"}
                         /\ r.high \in Int /\ r.highOp \in {"LT", "LTE"}

VARIABLES
    pages,          \* the index file
    rootPageNum,
    headerPageNum,
    inserted,       \* the records insertEntry was called with
    pins,           \* page -> pins left on it between calls
    scan,           \* scanExecuting, currentPageNum, nextEntry and the range
    quiet,          \* a scan was started and nothing inserted since
    returned,       \* while quiet: the rids scanNext returned
    ioFailed,       \* the file's stream has its failbit set
    exc             \* exception the last call ended with, or "none"

vars == <<pages, rootPageNum, headerPageNum, inserted, pins, scan, quiet,
          returned, ioFailed, exc>>

Leaf(entries, right) == [kind |-> "leaf", entries |-> entries, right |-> right]
NonLeaf(level, keys, kids) ==
    [kind |-> "nonleaf", level |-> level, keys |-> keys, kids |-> kids]
Meta(root) == [kind |-> "meta", rootPageNo |-> root]

\* A page of the file that nothing leads to any more.
Unused == [kind |-> "unused"]

KeySpace == {e[1] : e \in Records}
EmptyRoot == NonLeaf(1, <<>>, <<0>>)

NoScan == [executing |-> FALSE, page |-> 0, next |-> 1, range |-> CHOOSE r \in Ranges : TRUE]

Init ==
    /\ pages = <<EmptyRoot, Meta(1)>>
    /\ rootPageNum = 1
    /\ headerPageNum = 2
    /\ inserted = {}
    /\ pins = <<0, 0>>
    /\ scan = NoScan
    /\ returned = <<>>
    /\ quiet = FALSE
    /\ ioFailed = FALSE
    /\ exc = "none"

-----------------------------------------------------------------------------
(***************************************************************************)
(* Descending: findPageNoInNonLeaf at each node, until a node of level 1,  *)
(* whose child is taken for a leaf whatever it is.                         *)
(***************************************************************************)
Least(S) == CHOOSE i \in S : \A j \in S : i <= j

\* Mutant: a key equal to a separator is looked for on its left.
EqualGoesLeft(node, key) ==
    LET stops == {i \in DOMAIN node.keys : key <= node.keys[i]}
    IN  node.kids[IF stops = {} THEN Len(node.keys) + 1 ELSE Least(stops)]

\* findPageNoInNonLeaf.
FindPageNo(node, key) ==
    LET stops == {i \in DOMAIN node.keys : key <= node.keys[i]}
        i == Least(stops)
    IN  IF stops = {} THEN node.kids[Len(node.keys) + 1]
        ELSE IF key = node.keys[i] THEN node.kids[i + 1] ELSE node.kids[i]

\* The pages a descent from p for key reads; 0 is the page that is none.
PathFrom(file, p, key) ==
    LET walk[q \in {0} \cup {n \in DOMAIN file : file[n].kind = "nonleaf"}] ==
            IF q = 0 THEN <<0>>
            ELSE LET next == FindPageNo(file[q], key)
                 IN  <<q>> \o (IF file[q].level = 1 THEN <<next>> ELSE walk[next])
    IN  walk[p]

LeafFor(key) == Last(PathFrom(pages, rootPageNum, key))

-----------------------------------------------------------------------------
(***************************************************************************)
(* Inserting into one node                                                 *)
(***************************************************************************)
\* Where an array is opened for key: before the first greater one.
PlaceOf(keys, key) ==
    LET greater == {i \in DOMAIN keys : keys[i] > key}
    IN  IF greater = {} THEN Len(keys) + 1 ELSE Least(greater)

KeysOf(entries) == [i \in DOMAIN entries |-> entries[i][1]]

\* insertKeyToLeaf.
WithEntry(entries, e) == InsertAt(entries, PlaceOf(KeysOf(entries), e[1]), e)

\* insertKeyToNonLeaf.
WithKey(node, key, right) ==
    LET i == PlaceOf(node.keys, key)
    IN  NonLeaf(node.level, InsertAt(node.keys, i, key), InsertAt(node.kids, i + 1, right))

\* What a split hands to the parent: the file, the new page and its key.
Split(file, right, key) == [file |-> file, split |-> TRUE, right |-> right, key |-> key]
NoSplit(file) == [file |-> file, split |-> FALSE]

\* Mutants: a leaf takes one entry too many; the new leaf ends the chain.
HasRoomForOneMore(leaf) == Len(leaf.entries) <= LeafOcc
EndsChain(leaf) == 0

HasRoom(leaf) == Len(leaf.entries) < LeafOcc

\* The sibling of the new leaf.
RightOf(leaf) == leaf.right

\* splitLeafNode: the merged keys are cut in two and each key gets the rid an
\* unordered_map gives for it, that of the first entry inserted with the key.
SplitLeaf(file, p, e) ==
    LET leaf == file[p]
        all == Append(leaf.entries, e)
        FirstRid(key) == all[Least({i \in DOMAIN all : all[i][1] = key})][2]
        temp == KeysOf(WithEntry(leaf.entries, e))
        leftCnt == (LeafOcc + 1) \div 2
        Cells(from, to) == [i \in 1 .. (to - from + 1) |->
                                <<temp[from + i - 1], FirstRid(temp[from + i - 1])>>]
        new == Len(file) + 1
    IN  Split(Append([file EXCEPT ![p] = Leaf(Cells(1, leftCnt), new)],
                     Leaf(Cells(leftCnt + 1, LeafOcc + 1), RightOf(leaf))),
              new, temp[leftCnt + 1])

\* The part of insertRecursive for a leaf.
InsertIntoLeaf(file, p, e) ==
    IF HasRoom(file[p])
    THEN NoSplit([file EXCEPT ![p].entries = WithEntry(@, e)])
    ELSE SplitLeaf(file, p, e)

\* splitNonLeafNode.  The last merged key is stored, and read, at index
\* leafOccupancy instead of nodeOccupancy: when the two differ the cell
\* tempKey[nodeOccupancy] is used uninitialised, and g is what it holds.
TempKeys(keys, key, g) ==
    LET merged == InsertAt(keys, PlaceOf(keys, key), key)
        last == IF \E i \in DOMAIN keys : key < keys[i] THEN keys[LeafOcc] ELSE key
    IN  [merged EXCEPT ![NodeOcc + 1] = g, ![LeafOcc + 1] = last]

\* Each key keeps the child on its right, found by the key in an unordered_map
\* that answers 0 for a key it was not given.
SplitNonLeaf(file, p, key, right, g) ==
    LET node == file[p]
        keys == Append(node.keys, key)
        kids == Append(Tail(node.kids), right)
        PageOf(k) == LET at == {i \in DOMAIN keys : keys[i] = k}
                     IN  IF at = {} THEN 0 ELSE kids[Least(at)]
        temp == TempKeys(node.keys, key, g)
        leftCnt == NodeOcc \div 2
        Pages(from, to) == [i \in 1 .. (to - from + 1) |-> PageOf(temp[from + i - 1])]
        new == Len(file) + 1
    IN  Split(Append([file EXCEPT ![p] = NonLeaf(node.level, SubSeq(temp, 1, leftCnt),
                                                 <<node.kids[1]>> \o Pages(1, leftCnt))],
                     NonLeaf(node.level, SubSeq(temp, leftCnt + 2, NodeOcc + 1),
                             Pages(leftCnt + 1, NodeOcc + 1))),
              new, temp[leftCnt + 1])

\* The part of insertRecursive for a nonleaf whose child was split.
InsertIntoNonLeaf(file, p, key, right, g) ==
    IF Len(file[p].keys) < NodeOcc
    THEN NoSplit([file EXCEPT ![p] = WithKey(@, key, right)])
    ELSE SplitNonLeaf(file, p, key, right, g)

\* insertRecursive: down the path, then up again as far as nodes split.
InsertRecursive(file, root, e, g) ==
    LET path == PathFrom(file, root, e[1])
        up[i \in 1 .. Len(path)] ==
            IF i = Len(path) THEN InsertIntoLeaf(file, path[i], e)
            ELSE LET below == up[i + 1]
                 IN  IF below.split
                     THEN InsertIntoNonLeaf(below.file, path[i], below.key, below.right, g)
                     ELSE below
    IN  up[1]

-----------------------------------------------------------------------------
(***************************************************************************)
(* insertEntry.  The root it reads, a new root and the meta page stay      *)
(* pinned when it returns.                                                 *)
(***************************************************************************)
Garbage == IF LeafOcc = NodeOcc THEN {0} ELSE KeySpace

\* The first key splits an empty root: the right leaf is allocated first.
WithFirstLeaves(file, root, key) ==
    IF file[root].keys # <<>> THEN file
    ELSE LET n == Len(file)
         IN  [file EXCEPT ![root] = NonLeaf(@.level, <<key>>, <<n + 2, n + 1>>)]
                \o <<Leaf(<<>>, 0), Leaf(<<>>, n + 1)>>

\* Mutant: the new root is said to be just above the leaves.
NewRootAtLevel1(key, left, right) == NonLeaf(1, <<key>>, <<left, right>>)

NewRoot(key, left, right) == NonLeaf(0, <<key>>, <<left, right>>)

\* Pins are counted for every page of the file; one more for each page of S.
PinsWith(file, S) ==
    [p \in 1 .. Len(file) |->
        (IF p \in DOMAIN pins THEN pins[p] ELSE 0) + IF p \in S THEN 1 ELSE 0]

\* A descent that reaches page 0 reads outside the file: see StartScanEmpty.
InsertEntry(e) ==
    \E g \in Garbage :
        LET start == WithFirstLeaves(pages, rootPageNum, e[1])
            r == InsertRecursive(start, rootPageNum, e, g)
            new == Len(r.file) + 1
            grown == Append([r.file EXCEPT ![headerPageNum] = Meta(new)],
                            NewRoot(r.key, rootPageNum, r.right))
        IN  /\ ~ioFailed
            /\ 0 \notin Range(PathFrom(start, rootPageNum, e[1]))
            /\ IF r.split
               THEN /\ pages' = grown
                    /\ rootPageNum' = new
                    /\ pins' = PinsWith(grown, {rootPageNum, new, headerPageNum})
               ELSE /\ pages' = r.file
                    /\ pins' = PinsWith(r.file, {rootPageNum})
                    /\ UNCHANGED rootPageNum
            /\ inserted' = inserted \cup {e}
            /\ quiet' = FALSE
            /\ returned' = <<>>
            /\ exc' = "none"
            /\ UNCHANGED <<headerPageNum, scan, ioFailed>>

-----------------------------------------------------------------------------
(***************************************************************************)
(* startScan.  A scan that is already open keeps its page pinned.          *)
(***************************************************************************)
\* Mutant: GT taken for GTE.
AboveOrAt(key, r) == key >= r.low

Above(key, r) == IF r.lowOp = "GT" THEN key > r.low ELSE key >= r.low

Below(key, r) == IF r.highOp = "LT" THEN key < r.high ELSE key <= r.high

\* A call that throws before it has changed anything.
Throws(what) ==
    /\ exc' = what
    /\ UNCHANGED <<pages, rootPageNum, headerPageNum, inserted, pins, scan,
                   quiet, returned, ioFailed>>

\* BadOpcodesException, BadScanrangeException: an open scan goes on.
StartScanRejected ==
    \/ Throws("Rejected")
    \/ \E r \in Ranges : r.low > r.high /\ Throws("Rejected")

\* An empty root has page 0 for a child.  Its position lies far behind the end
\* of the file: the read yields an empty page and leaves the failbit set, and
\* the stream does nothing from then on.
StartScanEmpty(r) ==
    /\ r.low <= r.high
    /\ LeafFor(r.low) = 0
    /\ scan' = [NoScan EXCEPT !.range = r]
    /\ ioFailed' = TRUE
    /\ exc' = "NoSuchKeyFound"
    /\ returned' = <<>>
    /\ quiet' = TRUE
    /\ UNCHANGED <<pages, rootPageNum, headerPageNum, inserted, pins>>

LeafPins == FoldSet(LAMBDA p, n : n + pins[p], 0,
                    {p \in DOMAIN pages : pages[p].kind = "leaf"})

\* The scan starts at the first entry of the leaf above the low bound, else at
\* the first entry of its right sibling.
StartScan(r) ==
    LET leaf == LeafFor(r.low)
        above == {i \in DOMAIN pages[leaf].entries : Above(pages[leaf].entries[i][1], r)}
        Open(p, i) == [executing |-> TRUE, page |-> p, next |-> i, range |-> r]
        right == pages[leaf].right
    IN  /\ r.low <= r.high
        /\ leaf # 0
        /\ LeafPins <= MaxLeft
        /\ \/ /\ above # {}
              /\ scan' = Open(leaf, Least(above))
              /\ pins' = [pins EXCEPT ![leaf] = @ + 1]
              /\ exc' = "none"
           \/ /\ above = {} /\ right = 0
              /\ scan' = [NoScan EXCEPT !.range = r]
              /\ pins' = [pins EXCEPT ![leaf] = @ + 1]
              /\ exc' = "NoSuchKeyFound"
           \/ /\ above = {} /\ right # 0
              /\ scan' = Open(right, 1)
              /\ pins' = [pins EXCEPT ![right] = @ + 1]
              /\ exc' = "none"
        /\ returned' = <<>>
        /\ quiet' = TRUE
        /\ UNCHANGED <<pages, rootPageNum, headerPageNum, inserted, ioFailed>>

-----------------------------------------------------------------------------
(***************************************************************************)
(* scanNext, endScan                                                       *)
(***************************************************************************)
\* Mutant: unPinPage is given the page the scan has just moved to.
UnpinsNewPage(old, new) == pins

\* The right sibling is pinned and the leaf that was read to its end unpinned.
MovedPins(old, new) == [[pins EXCEPT ![new] = @ + 1] EXCEPT ![old] = @ - 1]

Returns ==
    /\ exc' = "none"
    /\ UNCHANGED <<pages, rootPageNum, headerPageNum, inserted, quiet, ioFailed>>

\* Only the end of the last leaf is recognised before a cell is read.
AtEnd == LET leaf == pages[scan.page]
         IN  scan.next = Len(leaf.entries) + 1 /\ leaf.right = 0

ScanNextEntry ==
    LET leaf == pages[scan.page]
        e == leaf.entries[scan.next]
    IN  /\ scan.next <= Len(leaf.entries)
        /\ IF Below(e[1], scan.range)
           THEN /\ Returns
                /\ returned' = IF quiet THEN Append(returned, e[2]) ELSE <<>>
                /\ IF scan.next = Len(leaf.entries) /\ leaf.right # 0
                   THEN /\ scan' = [scan EXCEPT !.page = leaf.right, !.next = 1]
                        /\ pins' = MovedPins(scan.page, leaf.right)
                   ELSE /\ scan' = [scan EXCEPT !.next = @ + 1]
                        /\ UNCHANGED pins
           ELSE Throws("IndexScanCompleted")

\* An insertion split the leaf under the scan: it reads a cell that holds no
\* entry any more, and on to the end of the array.
ScanNextPastEnd ==
    LET leaf == pages[scan.page]
    IN  /\ scan.next > Len(leaf.entries) /\ ~AtEnd
        /\ \/ /\ scan.next <= LeafOcc
              /\ Returns
              /\ scan' = [scan EXCEPT !.next = @ + 1]
              /\ UNCHANGED <<returned, pins>>
           \/ Throws("IndexScanCompleted")

ScanNext ==
    \/ ~scan.executing /\ Throws("Rejected")
    \/ scan.executing /\ AtEnd /\ Throws("IndexScanCompleted")
    \/ scan.executing /\ ScanNextEntry
    \/ scan.executing /\ ScanNextPastEnd

\* What is left of a scan that has ended is not read again.
EndScan ==
    \/ ~scan.executing /\ Throws("Rejected")
    \/ /\ scan.executing
       /\ scan' = NoScan
       /\ pins' = [pins EXCEPT ![scan.page] = @ - 1]
       /\ quiet' = FALSE
       /\ returned' = <<>>
       /\ exc' = "none"
       /\ UNCHANGED <<pages, rootPageNum, headerPageNum, inserted, ioFailed>>

\* ~BTreeIndex drops every pin and flushes the file; a new BTreeIndex finds
\* the file, yet gives it another root and meta page and fills them again: the
\* old pages keep their numbers, and nobody reads them.
Reopen ==
    /\ Len(pages) <= MaxReopen
    /\ ~ioFailed
    /\ LET n == Len(pages) IN
        /\ pages' = [p \in 1 .. n |-> Unused] \o <<EmptyRoot, Meta(n + 1)>>
        /\ rootPageNum' = n + 1
        /\ headerPageNum' = n + 2
        /\ pins' = [p \in 1 .. (n + 2) |-> 0]
    /\ inserted' = {}
    /\ scan' = NoScan
    /\ returned' = <<>>
    /\ quiet' = FALSE
    /\ exc' = "none"
    /\ UNCHANGED ioFailed

Next ==
    \/ \E e \in Records \ inserted : InsertEntry(e)
    \/ StartScanRejected
    \/ \E r \in Ranges : StartScanEmpty(r) \/ StartScan(r)
    \/ ScanNext
    \/ EndScan
    \/ Reopen

Spec == Init /\ [][Next]_vars

-----------------------------------------------------------------------------
(***************************************************************************)
(* Properties                                                              *)
(***************************************************************************)
PageIds == 1 .. Len(pages)

\* The pages under p, p included.
Children(p) == IF pages[p].kind = "nonleaf" THEN Range(pages[p].kids) ELSE {}

\* The types of the variables, and the sizes of the node arrays: no node holds
\* more than its page has room for (keyArrLength stays within the arrays of
\* LeafNode and NonLeafNode in every insertion and split).
TypeOK ==
    /\ rootPageNum \in PageIds /\ headerPageNum \in PageIds
    /\ \A p \in PageIds :
        \/ /\ pages[p].kind = "leaf"
           /\ Len(pages[p].entries) <= LeafOcc
           /\ pages[p].right \in {0} \cup PageIds
        \/ /\ pages[p].kind = "nonleaf"
           /\ pages[p].level \in {0, 1}
           /\ Len(pages[p].keys) <= NodeOcc
           /\ Len(pages[p].kids) = Len(pages[p].keys) + 1
        \/ pages[p].kind = "meta" /\ pages[p].rootPageNo \in PageIds
        \/ pages[p] = Unused
    /\ inserted \subseteq Records
    /\ pins \in [PageIds -> Nat]
    /\ scan.executing \in BOOLEAN /\ scan.page \in {0} \cup PageIds
    /\ scan.next \in 1 .. (LeafOcc + 1) /\ scan.range \in Ranges
    /\ quiet \in BOOLEAN /\ ioFailed \in BOOLEAN

\* Whatever was inserted is found again: the descent findPageNoInNonLeaf takes
\* for its key ends in the leaf that holds the key and its rid, after any
\* number of splits.
EntriesFound ==
    \A e \in inserted :
        LET p == LeafFor(e[1])
        IN  p # 0 /\ pages[p].kind = "leaf" /\ e \in Range(pages[p].entries)

\* A node of level 1 has leaves for children and any other node has nodes: a
\* descent, which goes by level alone, never casts a page to the wrong struct,
\* and the tree stays balanced when nodes and roots split.
LevelsRight ==
    LET Depth[p \in PageIds] ==
            IF pages[p].kind = "leaf" THEN {0}
            ELSE {d + 1 : d \in UNION {Depth[q] : q \in Children(p)}}
    IN  inserted # {} =>
            /\ Cardinality(Depth[rootPageNum]) = 1
            /\ \A p \in PageIds :
                pages[p].kind = "nonleaf" => (pages[p].level = 1 <=> Depth[p] = {1})

\* The records of S, whose keys differ, in key order.
InOrder(S) ==
    [i \in 1 .. Cardinality(S) |->
        CHOOSE e \in S : Cardinality({f \in S : f[1] < e[1]}) = i - 1]

\* The leaves are chained from left to right and hold every record once, in
\* key order: what a scan walks is what the descents find (rightSibPageNo in
\* insertEntry and splitLeafNode).
LeafChainExact ==
    LET leftmost[p \in PageIds] ==
            IF pages[p].kind = "nonleaf" THEN leftmost[pages[p].kids[1]] ELSE p
        Entries[p \in 0 .. Len(pages)] ==
            IF p = 0 \/ pages[p].kind # "leaf" THEN <<>>
            ELSE pages[p].entries \o Entries[pages[p].right]
    IN  inserted # {} => Entries[leftmost[rootPageNum]] = InOrder(inserted)

\* What a scan of range r is to return.
Expected(r) ==
    LET Low(k) == k > r.low \/ (k = r.low /\ r.lowOp = "GTE")
        High(k) == k < r.high \/ (k = r.high /\ r.highOp = "LTE")
        found == InOrder({e \in inserted : Low(e[1]) /\ High(e[1])})
    IN  [i \in DOMAIN found |-> found[i][2]]

\* startScan, scanNext, ...: as long as nothing is inserted, a scan returns the
\* rids of its range, all of them, once and in key order, wherever the bounds
\* fall in the leaves and however often the scan was restarted.
ScanExact ==
    quiet =>
        /\ IsPrefix(returned, Expected(scan.range))
        /\ exc = "IndexScanCompleted" => returned = Expected(scan.range)
        /\ exc = "NoSuchKeyFound" => Expected(scan.range) = <<>>

\* The leaf a scan stands on is pinned, so currentPageData is its bytes: no
\* insertion, restarted scan or move to a sibling unpins it.
ScanPagePinned == scan.executing => pins[scan.page] > 0

=============================================================================
