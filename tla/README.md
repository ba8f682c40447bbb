# A verification development of the UCSD CSE 132C / 232B projects

The repository holds course projects of one student: two buffer managers and a
B+ tree index over the BadgerDB storage layer (C++), and an XPath/XQuery
evaluator (Java). This directory holds TLA+ models of the storage system and of
the parts of the evaluators that are not plain recursion, the TLC runs that
check them on small instances, and TLAPS proofs about all of the storage
system: the buffer managers, the page file, the file scan, the slotted page and
the B+ tree. Paths below are relative to the repository; `TI/` stands for
`CSE132C_TreeIndex-master/src/`, `BM/` for `CSE132C_BufferMgr-master/src/` and
`XQ/` for `CSE232B_XQueryEvaluator-master/`.

## 1. Inventory

| Component | State | Operations | Uses |
|---|---|---|---|
| Page file (`TI/file.cpp`, `file_iterator.h`) | the UNIX file: header (page count, heads of the used and the free list), pages linked by `next_page_number`; static tables of open files | create, open, close, remove, `allocatePage`, `readPage`, `writePage`, `deletePage`, iteration | slotted page |
| Blob file (`TI/file.cpp:335`) | header and pages without lists | `allocatePage`, `readPage`, `writePage`; `deletePage` throws | |
| Slotted page (`TI/page.cpp`) | header, slot array, records | insert, get, update, delete record; iteration | |
| Buffer manager (`TI/buffer.cpp`, `bufHashTbl.cpp`) | descriptors, frames, hash table, clock hand | `readPage`, `unPinPage`, `allocPage`, `flushFile`, `disposePage`, `cleanUpPinnedPage`, destructor | files |
| Buffer manager of the first project (`BM/buffer.cpp`) | the same | the same but `cleanUpPinnedPage`, with a clock of its own | files |
| File scan (`TI/filescan.cpp`) | file iterator, pinned page, page iterator, dirty flag | `scanNext`, `getRecord`, `markDirty` | buffer manager, page file |
| B+ tree index (`TI/btree.cpp`) | nodes in a blob file, root and meta page numbers, one scan | constructor (bulk load), `insertEntry`, `startScan`, `scanNext`, `endScan`, destructor | buffer manager, blob file, file scan |
| XPath / XQuery evaluator (`CSE232B_XQueryEvaluator-master/*.java`) | current nodes, variable bindings | visitors of the syntax tree, the rewriting of for/where to joins | DOM |

Everything is single-threaded. What is hard is of another kind: callers hold
raw pointers into frames between calls, the same page exists on disk, in a
frame and as a copy, calls fail half-way, lists and trees are rebuilt by code
with many cases, and some of it is reached only when a pool or a node is full.
What makes each component correct:

* *Page file*: it is a set of numbered pages; used list and free list partition
  the allocated ones; the loops over the lists end.
* *Buffer managers*: a page is in at most one frame and the hash table knows it;
  a pinned frame is left alone; no write is lost; BufferExceeded is thrown only
  when no frame can be had.
* *B+ tree*: a search tree whose leaf chain agrees with it; an entry inserted is
  found; a scan returns its range, once, in order, from a page it has pinned.
* *File scan*: every record of every page in use once, in order; one page pinned
  whatever failed before; no frame of the file left when its File object goes.
* *Slotted page*: the records are packed, and each keeps its slot and its bytes
  however others move.
* *XQuery rewriting*: the join form gives the tuples of the nested loops.
* *XPath*: what one operand does to the current nodes does not reach another.

`PROJECT.json` lists the hazards with their lines.

## 2. Modules

| Module | Stands for |
|---|---|
| `PageStore` | what a buffer manager promises: pages that can be pinned, read and written; no frames |
| `BufMgr` | `TI/buffer.cpp` and its hash table, one action per public operation |
| `BufMgrSteps` (extends `BufMgr`) | `readPage` and `allocPage` of `TI/buffer.cpp`, one turn of `allocBuf`'s loop per step |
| `ClockBufMgr` (extends `BufMgr`) | `BM/buffer.cpp`: the operations that differ |
| `PageSet` | what a page file promises: a set of pages with contents |
| `PageFile` | `PageFile` of `TI/file.cpp` with its iterator, over one UNIX file |
| `FileScan` (extends `BufMgr`) | `TI/filescan.cpp` with both iterators, composed with the pool |
| `RecordMap` | what a page promises: a map from slots to records |
| `SlottedPage` | `TI/page.cpp`, over the bytes of one page |
| `BTree` | `TI/btree.cpp` over the pages of one blob file |
| `JoinRewrite` | the rewriting to joins in `XQ/XQueryEvaluator.java`, and the joins |
| `XPath` | `XQ/XPathEvaluator.java` |
| `BufMgrProofs`, `BufMgrStepsProofs`, `PageFileProofs`, `FileScanProofs`, `SlottedPageProofs`, `BTreeProofs`, `JoinRewriteProofs`, `XPathProofs` | theorems about the module they are named for; those about `ClockBufMgr` are in `BufMgrProofs` |
| `MC*` | instances for TLC |

`PageStore`, `PageSet` and `RecordMap` are the abstract specifications;
`BufMgr`, `PageFile` and `SlottedPage` implement them, and `BufMgrSteps`
implements `BufMgr`.

### BufMgr
`bufDescTable`, `bufPool`, `hashTable` and `clockHand` are the members of the
class; `hashTable` is the function the chained table implements (its buckets are
an abstraction: no property depends on the order in a bucket). `disk` maps
file and page to bytes, or to `Free`. `exc` is how the last call ended. Each
action is a whole call: `ReadMiss` evicts, writes back, reads and enters the
page; `ReadInvalid` does the same up to the exception of the file.

`allocBuf` is stated by positions of the clock: `StopsAt(k)` says that the k-th
frame visited is the first usable one (empty; or unpinned and with its refbit
clear, or cleared by the first turn), `Swept(k)` what k visits leave behind.

The callers are external. `WritePage` changes a pinned frame at any time.
`unreported` is a ghost: the frames whose change nobody has reported with
`unPinPage(..., true)`; the last unpin must report it. That is the protocol of
`buffer.h`, and without it no pool can know what to write.

The bytes in `Contents` exclude the list pointer of a page header, which
`PageFile::writePage` keeps as it is on disk. `allocPage` may pick any number
not in use, and allocating and deleting in the file succeed once reached: that
holds as long as the lists of the page file are intact (`PageFile` says when).

### ClockBufMgr
The descriptors, `Swept`, `UsableAt` and the eviction are those of `BufMgr`.
New are the count of pinned frames (`Counts`, `GivesUpAt`: looked at after the
hand has moved and before the frame is), asking the file before a frame, the
calls that ignore an absent page, and `flushFile` on empty frames, which follows
a null pointer: `exc = "crash"` and the pool is gone. What that dereference
does is undefined in C++; the crash is what the builds do.

### BufMgrSteps
`BufMgr` says where the clock stops; this module gets there as the code does.
`pc` is where in the call the program is, `numScanned` and `found` are the
variables of `allocBuf`, and each of `VisitInvalid`, `VisitReferenced`,
`VisitPinned` and `VisitVictim` is one turn of its loop. Then `WriteBack` (the
tail, with the write-back, the removal from the hash table and `Clear`) and
`Finish` (the call of the file and the entry of the page). `before` is a ghost:
the descriptors, table, hand and disk as the caller left them, which is what the
refinement mapping to `BufMgr` (`seenTable` ...) shows until the call returns.

### PageFile
`pages[p]` has `used` (`current_page_number # INVALID_NUMBER`), `next` and
`data`; `header` has the four fields of `FileHeader`; `handles` is the open
count. `held[p]` is the next pointer in the copy of page p some caller has read
and may write back later. The loops of `allocatePage` and `deletePage` are
resolved by the walk they make: `Finds` (the first page of a set), `ReachesEnd`,
`Throws` (the dereference throws), `Loops` (a page comes back: the call never
returns, the process is killed and its File objects closed).

### BTree
`pages` is the blob file as a sequence of leaves, inner nodes and meta pages.
The three copies of each routine (int, double, string) are one. A split is
written as the code does it: the merged key array `TempKeys`, then the rids or
children looked up by key in a map (`FirstRid`, `PageOf`), which is where equal
keys and the wrong index show. `InsertRecursive` goes down `PathFrom` and folds
the splits upward. A descent goes by `level` only, as the code casts by it.

`pins` counts what calls leave pinned: `insertEntry` the root it read, a root
split the new root and the meta page, `startScan` the leaf (twice if a scan is
open). The constructor's bulk load is `InsertEntry` repeated from `Init`;
`Reopen` is the destructor and a constructor that finds the file, after which
the old pages are unreachable (`Unused`).

Two places are undefined in the code and cut off in the model: `scanNext` past
`keyArrLength` after an insertion under the scan (it may return any cell of the
array, or complete), and anything that inserts after a scan of an empty index
(`ioFailed`). A garbage value of `tempKey` is taken from the keys, once for
each insertion.

### FileScan
`scanNext` calls the pool and the file several times, and each call may fail, so
it is one action for each: `ScanNext` up to the first call, `ReadCurrent`,
`LeavePage`. Nobody else runs in between, as the program has one thread.
Between calls `UsePool` pins pages of another file and `ChangeFile` allocates,
writes or deletes pages of the scanned one through a File object of its own, as
`TI/main.cpp` does. The contents of a page are its slots in use. The iterator
goes through the pages in the order of their numbers; that the used list has
that order is `ListsPreserved` of `PageFile`. A page whose frame is dirty is not
deleted from under the pool. `undisturbed` is a ghost: no call has failed and
the file has not changed since the scan was opened.

### SlottedPage
`data` is the byte array of the page, with one cell for each field of a slot.
Slots and records are read from it as the code reads them, without asking what
those bytes are: `UsedSlots`, `Moved` (the records below the hole) and
`AvailableSlot` are computed from the bytes. A new slot that lies over old bytes
may look used (`exc` is then `SlotInUse`), and `validateRecordId` accepts the id
of a slot the page does not have if the byte there is not zero (`exc` is
`StaleId` when such a call goes ahead). `GetRecord` returns the bytes such an id
selects (`Selected`) or throws `out_of_range`. `DeleteRecord`, and
`UpdateRecord` before it throws `InvalidSlotException`, take the bytes for a
slot, zero and move others, and raise the counters (`DeleteStale`). They may
overwrite the very bytes they take for a slot, so the page is left as any member
of the constant `Damage`; what is written beyond the page is not modelled. The
model does not follow a page that is not `Intact` until it is initialized again,
has ids of slots whose cells lie in the page only, and stores no empty records.

### JoinRewrite
`GroupOf` is the result of `groupForClause`. `GroupCondition` enters one
condition into the graph of groups, `RemoveRoot` starts the join at group 0, and
`JoinChild` is one turn of the loop of `generateJoinQuery`: it takes the least
child (the order of a `HashMap` with small integer keys), joins it and hands its
edges on. Instead of printing the query, each turn evaluates the join it
prints, with the concatenated keys of `visitJoinclause`.

### XPath
The evaluator's field `curNodes` refers to a list that its caller may hold too,
and `//` adds to that list. So lists live in a `heap`, and `Visit(e, s)` gives
for an expression and a state the list returned, the list left in `curNodes` and
the heap. `VisitedFrom` has one case for each visit method, given what visiting
the operands does; `Visit` is the function that this defines on all expressions.
`Meaning(e, N)` is what the expression denotes in the context `N`, defined the
same way without any state. `TraitsOf(e)` reads off the expression whether it is
isolated, that is, whether no operand changes what another one starts from; the
rules were found by checking which expressions go wrong without them.

## 3. What the runs check

| Run | Instance | Shows |
|---|---|---|
| `pool` | 2 frames, 1 file, 3 pages, 2 contents, at most 2 pins a frame | hash table, frames and disk agree; BufferExceeded exactly when all frames are pinned; pinned frames are left alone; the second chance; a flush is durable; `BufMgr` implements `PageStore` |
| `pool_steps` | the same with 1 content | the loop of `allocBuf` implements `BufMgr`, and every call returns |
| `page_file` | 3 pages, 2 File objects, 2 contents | free list exact always; every page in use reachable; used list preserved but for one case; `allocatePage` returns while it is; `PageFile` implements `PageSet` |
| `course_pool` | as `pool` | the invariants of `pool` for `BM/`; its search ends; BufferExceeded needs half of the frames pinned; pinned frames are left alone |
| `index` | 6 distinct keys in every order, 2 keys a node, 3 ranges | levels, descents, leaf chain, scans and the scan's pin |
| `index_sizes` | 2 entries a leaf, 3 keys an inner node | *violated*: a split inner node loses a child |
| `file_scan` | 2 frames, 3 pages to scan, 2 pages of another file, 1 pin | one page pinned; records in order, each once; no frame of a closed file; the scan ends |
| `slotted_page` | 16 cells, slots of 3, records of 1, 3 and 7 | while no bytes are taken for a slot: records packed, slots counted, and `SlottedPage` implements `RecordMap` |
| `slotted_page_insert` | the same | *violated*: a record there is room for is not inserted |
| `join` | 5 variables in 4 groups, lists of up to 4 of 11 conditions, 2 sets of rows | the joins have the tuples of the nested loops; the rewriting ends |
| `xpath` | a document of 9 nodes, conditions and paths around a middle node | an expression without interfering operands returns what it means |
| `xpath_any` | the same | *violated*: with interfering operands it does not |

The bounds. `MaxPin` 2 lets two holders of one page disagree about dirtiness;
2 frames and 3 pages make every page compete for a frame, with the clock hand
before, on and behind the victim (any number of frames: section 4). Three pages
allow a reused page before, between and after others and free lists of length 3.
Six keys into nodes of two give trees with two inner levels: a root over leaves
splits, and later an inner node below the root. They are too few for a root over
inner nodes to split; that case rests on the theorems, which hold for any
number of keys (`LevelsStayRight`, `InsertedIsFound`). `MaxLeft` lets one forgotten scan leave its pin; `MaxReopen` reopens an
index of up to four pages, so an empty one or one with its first leaves. The three ranges have their bounds on keys,
between and behind them, with each operator on either side, and one is empty.
In `file_scan` the other user can pin both frames, so that every call of the
pool fails somewhere; a page may have no record, so that a call passes several
pages. Sixteen cells hold three slots with short records or two with long ones:
a deleted slot can be the last, one in the middle or followed by deleted ones, and
a growing update can just fit. One byte of a record is greater than the page, so
that an accepted id can select an offset outside of it; `Damage` has two pages, as
no property speaks of them and only `Initialize` follows. Four groups are the fewest in which an absorbed
group meets a neighbour that is joined already, one that both have, and a new
one. Files and pages of the pool are symmetric in the runs without liveness: no
operation compares them.

The `index` run takes equal sizes for leaves and inner nodes because the
shipped ones (INTEGER 682 and 1022, DOUBLE 511 and 680, STRING 454 and 584)
have the error `index_sizes` shows as soon as an inner node splits; the tests
that reached such splits set both to 4 (`TI/main.cpp:195`).

Preconditions. `JoinExact` speaks of where-clauses whose conditions connect all
groups, compare variables of different groups or one with a literal, and of
values of one length; what the code does outside of that is among the findings.
`ListsPreserved` and `AllocateReturns` name the one case in which the used list
is spoilt. `IsolatedExact` claims nothing once a step has asked for the parent of
the document. The `xpath` runs stop when the expression is evaluated, so they do
not check for deadlock.

Fairness. Nothing in this code runs by itself, so a run assumes only that a call
that has been made goes on, since there is no thread to take the processor from
it: `WF(InCall)` in `pool_steps` and `file_scan`, `WF(Rewrite)` in `join`.
`file_scan` assumes also that the caller asks for the next record until it is
told that there is none, which is the loop of the `BTreeIndex` constructor
(`TI/btree.cpp:100`). Other loops are walks whose outcome one action states, and
that they end is stated as safety (`AllocBufEnds`, `AllocateReturns`).

Divergences. The violated runs show three; the others, found while modelling,
are in `PROJECT.json` with the lines they contradict. In the storage system: a
page reused while none is in use keeps its free-list link; creating an open file
does not throw and resets its header; the course pool throws BufferExceeded with
free frames, and its `flushFile` follows a null pointer in an empty frame;
entries of equal keys get the first one's record id; a second `startScan`
leaves the first one's leaf pinned; an empty range above existing keys is
reported late; a reopened index is built again beside the old one; `disposePage`
of an unbuffered page throws; a scan restarts after BufferExceeded; the
destructor of a scan throws if its page was deleted; empty records and record
ids past the slots confuse a page. In the evaluators: join keys without
separator, conditions within a group and between literals, `", "` for `and`,
variable names that start another one, and text compared instead of nodes.

## 4. What is proved

For every size of the pool, any sets of files, pages and contents and any bound
on pins, about `BufMgr`:

* `Invariance`: `TypeOK`, `HashMatchesFrames`, `CachedPagesExist` and
  `CleanFramesMatchDisk` are invariants (`PoolTypeOK`, `BufferedPagesExist` and
  `CleanFramesAreSaved` name three of them). None is inductive alone. Clean frames
  match the disk only if a write-back goes to the right page, hence the hash
  table is needed; the hash table is kept in step only if an empty frame is
  really cleared (in `TypeOK`); evicting writes to an existing page only if
  cached pages exist. Their conjunction, `IInv`, is inductive. The proof has one
  lemma for each operation, over facts about the shared pieces (`Swept`,
  `HashWithout`, `DiskAfterWriteBack`, `AllocBufFor`).
* `ExceededMeansPinned`: `allocBuf` throws exactly when all frames are pinned.
  This is arithmetic modulo the pool size: two turns visit each frame twice,
  and at the second visit only a pin protects it.
* `PinnedStay`: no step takes a pinned frame from its page or changes its bytes.
* `ReferencedPagesStay`: the second chance. A referenced page is evicted only
  in the second turn, so the first one found no frame; `HandPosition` turns
  positions of the clock into frames, each met once in a turn.
* `FlushedIsDurable`: after a `flushFile` that returned, the file's pages are on
  disk as they were last seen. It needs the hash table for pages without a
  frame and `CleanFramesMatchDisk` for those the code does not write.
* `Refinement`: with `store` and `pins` as refinement mapping every step of
  `BufMgr` is a step of `PageStore` or changes neither. Evicting a clean frame
  is a stuttering step because of `CleanFramesMatchDisk`.

About `BufMgrSteps`:

* `StepsImplement`: it implements `BufMgr`. The invariant `StepInv` says, in the
  loop, that the descriptors are `Swept(numScanned)` of those the caller left
  and that no frame visited so far was usable; after it, that the hand is where
  `StopsAt` puts it and that frame, hash table and disk are as far as the code
  has got. The visit of a frame in the loop agrees with `UsableAt` because in
  the second turn its refbit has been cleared by the first.

About `ClockBufMgr`:

* `PoolInvariance`, `PoolPinnedStay`: the same invariant `IInv` is kept by the
  operations of the other pool, so where an operation is shared its lemma is.
  A search that finds a frame finds it within two turns.
* `SearchesEnd`: the loop without a bound ends. If no frame is usable all are
  pinned, the count of pinned frames grows by one at a time, and reaches the
  size of the pool in the second turn; `LeastElement` gives the first visit at
  which one or the other happens.
* `GivesUpHalfPinned`: when it throws, the visits it counted are mapped one to
  one to pairs of a pinned frame and a turn, so at least half of the frames are
  pinned.

About `PageFile`, for any number of pages and File objects:

* `FileImplements`: it implements `PageSet`. The invariant `FileInv` has an
  enumeration of the free list as a witness: a sequence of the deleted pages,
  once each, along their links, whatever has become of the used list. Reusing a
  page takes the first of it, deleting one puts it in front, and every other
  write touches only pages in use: the searches find no other
  (`FoundIsUsed`).
* `FreeListIsExact`, `FileTypeOK`: the length of the enumeration is
  `num_free_pages`, as it is a bijection to the deleted pages, and following the
  links can go no other way (`ListIs`).
* `UsedPagesFound`: `ListInv` adds a witness for the used list, a sequence of
  the pages in use along their links from `first_used_page`. What the last of
  them is linked to is left open: it may be a deleted page or, as the run
  shows, one of the same list, and the invariant must survive that. An iterator
  meets the pages of the witness one by one (`IteratorMeets`), so a search finds
  the first page there that it looks for (`FoundOnChain`), and `allocatePage` and
  `deletePage` change the witness at one place (`ChainGrows`, `ChainShrinks`).
* `UsedListStays`, `AllocationReturns`: the used list is exact when nothing comes
  after the witness and its numbers increase (`ExactIsEnded`). Then a search ends
  (`EndedSearch`), and the place it finds for a reused page lies between a
  smaller and a greater number.

About `FileScan`, for every pool and file and whatever is done to both between
two calls of the scan:

* `ScanPinsOnePage`, `ClosedFileLeft`: the file changes behind the pool's back,
  so of `IInv` only the types and the agreement of frames and hash table are
  left. `ScanInv` adds to them where the scan may stand between its calls of the
  pool (`ScanPlace`: page pinned or not, iterator on a page or at the end). A
  call that fails halfway leaves the scan in one of these places.
* `RecordsInOrder`: while nothing fails and nobody changes the file, the pool
  has its pages as they are on disk (`Faithful`), the records still to come
  (`Left`) are those that follow the iterators, and `scanNext` returns the least
  of them, or says that there is none.

About `SlottedPage`, for pages, slots and records of any size:

* `PageTyped`, `RecordsStayPacked`, `SlotsStayExact`: these hold until bytes
  past the last slot are taken for one, and again once the page is initialized
  (`RecordsStayPacked` and `SlotsStayExact` also only until a new slot looks
  used). The invariant `PageInv`
  says of the bytes that the slot array ends below `upper`, that no two records
  share a byte, that every byte from `upper` on belongs to one, and that each is
  a record that was stored. The deletion copies as many bytes as the lengths of
  the records below add up to, from the least of their offsets; that this is
  all that lies between `upper` and the hole is `MoveBytesValue`, by counting
  the bytes of these records: they are disjoint and fill the interval. Then
  moving the block up moves each record with its slot (`TakenPacked`), and a new
  record joins from below (`PutPacked`).
* `PageImplements`: with `content` as refinement mapping every call is a step of
  `RecordMap` or changes neither, with two exceptions: the insertion whose new
  slot looks used, and a get, an update or a delete through an accepted id of a
  slot the page does not have, after which nothing is claimed, for any `Damage`.

About `BTree`, for any two sizes of leaves and inner nodes:

* `IndexTyped`, `ScanKeepsItsPin`: the invariant `IndexInv` gives each page a
  height, with the children of a node below it and no page above the root. That
  is enough for every descent to end and every split to find its place, and to
  keep the scan's page a pinned leaf whatever splits it.

and for equal sizes and records that differ in their keys:

* `InsertedIsFound`, `LevelsStayRight`: each page also has a set of keys, the
  root all of them, and a node of level h sends each key of its set to the one
  child whose set has it. A split cuts the set of a page at the separator it
  hands up; the sets of pages of one height are disjoint, so a page has one
  parent and what is done to a child is done to nobody else's. A record is in
  the leaf whose set has its key (`Stored`), which is where the descent goes.
  That all leaves are at one depth follows from the heights (`DepthIsHeight`).
  Both hypotheses are needed: without equal sizes a node loses a child
  (`index_sizes`), and of records with one key a split keeps only the first.
* `LeavesStayChained`: the set of keys of a leaf is an interval, its right
  sibling's set begins where its own ends, and the last leaf's set has no upper
  end (`Chained`); a split cuts an interval in two and chains the pieces in that
  order. So what a walk collects from a leaf on is the records from its least
  key on, in key order (`EntriesInOrder`), and the leaf under the first children
  has no lower end (`LeftmostIsLeft`): the walk from there has every record.
* `ScansReturnTheirRange`: a scan divides the records above its low bound into
  those it has returned, all in the range, and those from its current entry on
  (`Ahead`). `startScan` begins with nothing returned: the descent ends in the
  leaf whose interval has the low bound, so the first record above it is there
  or is the first of the sibling (`StartsAhead`). `scanNext` takes the least
  record ahead (`AheadMoves`) and stops only when it is above the range or
  nothing is ahead. A split under an open scan breaks this, which is why the
  property says nothing of a scan after an insertion.

About `JoinRewrite`, for any variables, groups, where-clauses and documents:

* `JoinsAreExact`: `JoinInv` says what the graph stands for. While
  `groupWhereClause` reads conditions, the list of pairs between two groups has
  exactly what the conditions read so far compare between them, and there is no
  list where there is no child. In the join, the first group has the edges of
  all groups it has absorbed, so the list for the next child has every
  condition between it and them: when a child's edges are handed on, the list of
  a common neighbour grows by the child's, and a neighbour the join did not have
  starts with the child's alone (`EdgesTogether`). Values of one length, written
  one after the other, are read back in one way (`FlattenSplits`), so two keys
  are equal exactly when the pairs of the list are (`KeysAgree`), and a tuple of
  the nested loops is parted in one way into one of the join and one of the child
  (`TupleParted`). Both hypotheses of `JoinExact` are needed; what the code does
  without them is among the divergences. When no child is left, a condition from
  an absorbed group to another one would be an edge, so a connected query is
  joined as a whole.

About `XPath`, for any document and any expressions of the grammar:

* `IsolationIsEnough`: `IsolatedExact`. Visiting never loses a list and changes
  none but the current one, and the list current after it is the one before or a
  new one (`Follows`); so a list that a caller holds is safe once another is
  current. A path that is not `.` and does not start by adding has a new current
  list and leaves the nodes of the old one (`PathStep`): a comparison that puts
  the old list back finds it as it was, and the list its first operand returned
  is not touched by the second. An isolated path returns what it means in the
  context (`Exactly`), a condition visited on one node returns something if and
  only if it holds of the node (`Truly`), and a condition that restores leaves
  context and nodes for its neighbour (`Steadily`). Each is proved of an
  expression from the same about its parts (`TreeInduction`), and `xpath_any`
  shows that the restriction is needed.

The descent and the fold of splits in `BTree`, the sum of lengths in
`SlottedPage`, and `FlattenSeq`, which writes the values of a key one after the
other, and `Visit`, `Meaning` and `TraitsOf` in `XPath`, are recursive
functions; that they exist (`TreeRecursion` for the last three) and what they
give is proved without an induction theorem, by taking the least height, number
or index at which it would fail (`LeastElement`, stated in each module that needs it).

Assumed are only the named `ASSUME`s of the modules: at least one frame, page
and File object; `Fresh` is a content; `Free`, `NoFile`, `NoPage`, `NotHeld` and
`NoRecord` lie outside the sets they mark; records of a page are sequences that
are not empty, those of an index pairs of an integer key and a record id; there
is a range to scan, its bounds are integers and its operators those `startScan`
accepts; a slot has at least its three fields and a page has room for one; there
are finitely many variables and at least one, and their groups are numbered
from 0; a condition compares two variables, a variable and a literal or two
literals; the tuples of a group give each of its variables a text. Of `XPath`:
nodes have their parents in the document, operands are of the kind the grammar
asks for, and an expression's parts are nested less deep than it is, with some
bound on the depth (`Height`, `MaxHeight`): parse trees are finite.

Only model-checked: liveness (`CallsReturn`, `ScanEnds`, `RewritingEnds`), which
needs `ENABLED`. The properties of the violated runs are refuted, so every other
property of a run has its theorem.

## 5. Not modelled

* The third, student version of the buffer manager (`BadgerDB/for students/`):
  its clock counts as in `ClockBufMgr`, the rest is as in the other two.
* Crashes of the process between the writes of one call: nothing in the code
  recovers from them and nothing is promised.
* `BTree` over a pool of few frames. BufferExceeded in the middle of a split
  leaves a half-built tree that no code repairs, and the key `splitLeafNode`
  returns points into a frame it has unpinned; the model has a pool that is
  large enough and takes the key by value.
* Two File objects of one file in one pool, and a page deleted in the file while
  its frame is dirty: the program under `TI/main.cpp` does neither.
* `XQueryEvaluator`'s other visit methods, which hand values on without shared
  state but for the stack of bindings; of `XPathEvaluator`, reading the document,
  and what a visit method does with the parent of the document, which is null.
* Statistics, printing, exception classes, tests, the parsers ANTLR generated
  and the documentation pages Doxygen generated, scripts included.

## 6. Order of the work, and what would come next

Built in this order: `PageStore`, `BufMgr` and its proofs; `PageSet`,
`PageFile`; `ClockBufMgr`; `BTree`; `BufMgrSteps`; `FileScan`; `RecordMap`,
`SlottedPage`; `JoinRewrite`, `XPath`; the proofs about `BufMgrSteps`,
`ClockBufMgr`, `PageFile`, `FileScan`, `BTree`, `SlottedPage`, `JoinRewrite` and
`XPath`.

Worth adding next: an ordered map with a cursor that `BTree` implements, and
`BTree` over `BufMgr` with few frames.
