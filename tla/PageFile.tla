------------------------------ MODULE PageFile ------------------------------
(***************************************************************************)
(* One page file of CSE132C_TreeIndex-master (file.cpp, file_iterator.h):  *)
(* the File objects open on it, its header, and its pages with the two     *)
(* lists that run through their next_page_number.  One action per call;    *)
(* every call that writes flushes the stream, so the disk is the state.    *)
(*                                                                         *)
(* A Page object a caller has read keeps the next_page_number it was read  *)
(* with; held is that number, for the copy that may come back in writePage.*)
(***************************************************************************)
EXTENDS Integers, FiniteSets

CONSTANTS
    MaxPages,    \* bound: page numbers are 1 .. MaxPages
    MaxHandles,  \* bound: File objects open at once
    Contents,    \* what a page may hold
    Fresh,       \* the bytes of an initialised page
    Free,        \* no page has this number (used by the properties)
    NotHeld      \* nobody has a copy of the page

ASSUME PagesAssumption == MaxPages \in Nat \ {0} /\ MaxHandles \in Nat \ {0}
ASSUME ContentsAssumption == Fresh \in Contents /\ Free \notin Contents
ASSUME NotHeldAssumption == NotHeld \notin Nat

VARIABLES
    exists,   \* the UNIX file exists
    handles,  \* open_counts_: File objects on the file
    header,   \* FileHeader
    pages,    \* the pages: in use (current_page_number # INVALID), next, bytes
    held,     \* next_page_number of the caller's copy of a page
    exc       \* how the last call ended: "none", an exception, or "loops"

vars == <<exists, handles, header, pages, held, exc>>

PageIds == 1 .. MaxPages
INVALID == 0
Links == PageIds \cup {INVALID}

\* Page::initialize, with a next page.
Initialized(next) == [used |-> FALSE, next |-> next, data |-> Fresh]

NewHeader == [num_pages |-> 1, first_used_page |-> INVALID,
              num_free_pages |-> 0, first_free_page |-> INVALID]

Init ==
    /\ exists = FALSE
    /\ handles = 0
    /\ header = NewHeader
    /\ pages = [p \in PageIds |-> Initialized(INVALID)]
    /\ held = [p \in PageIds |-> NotHeld]
    /\ exc = "none"

Fails(e) ==
    /\ exc' = e
    /\ UNCHANGED <<exists, handles, header, pages, held>>

-----------------------------------------------------------------------------
(***************************************************************************)
(* File objects                                                            *)
(***************************************************************************)
NothingHeld == held' = [p \in PageIds |-> NotHeld]

\* File::File with create_new.  Whether the file exists is asked only when no
\* File object is open on it; the header is written in either case.
Create ==
    \/ /\ handles = 0 /\ exists
       /\ Fails("FileExists")
    \/ /\ handles = 0 /\ ~exists
       /\ exists' = TRUE /\ handles' = 1 /\ header' = NewHeader
       /\ pages' = [p \in PageIds |-> Initialized(INVALID)]
       /\ exc' = "none"
       /\ UNCHANGED held
    \/ /\ handles \in 1 .. (MaxHandles - 1)
       /\ handles' = handles + 1 /\ header' = NewHeader
       /\ exc' = "none"
       /\ UNCHANGED <<exists, pages, held>>

Open ==
    \/ /\ handles = 0 /\ ~exists
       /\ Fails("FileNotFound")
    \/ /\ exists /\ handles < MaxHandles
       /\ handles' = handles + 1
       /\ exc' = "none"
       /\ UNCHANGED <<exists, header, pages, held>>

\* With the last File object go the copies that could be written through it.
Close ==
    /\ handles > 0
    /\ handles' = handles - 1
    /\ IF handles = 1 THEN NothingHeld ELSE UNCHANGED held
    /\ exc' = "none"
    /\ UNCHANGED <<exists, header, pages>>

\* File::remove
Remove ==
    \/ ~exists /\ Fails("FileNotFound")
    \/ exists /\ handles > 0 /\ Fails("FileOpen")
    \/ /\ exists /\ handles = 0
       /\ exists' = FALSE
       /\ exc' = "none"
       /\ UNCHANGED <<handles, header, pages, held>>

-----------------------------------------------------------------------------
(***************************************************************************)
(* Iterating from begin() to end().                                        *)
(***************************************************************************)
\* Following next_page_number: the n-th page from page first.
ListFrom(first) ==
    LET at[n \in 0 .. MaxPages] ==
            IF n = 0 THEN first
            ELSE IF at[n - 1] = INVALID THEN INVALID ELSE pages[at[n - 1]].next
    IN  at

\* The pages an iterator is on, after each increment.
Visited == ListFrom(header.first_used_page)

\* Mutant: the last page of the file is out of reach.
ReadableOffByOne(p) == p + 1 < header.num_pages /\ pages[p].used

\* readPage, which operator* calls, does not throw.
Readable(p) == p < header.num_pages /\ pages[p].used

\* A loop that looks for a page of S gets to its n-th iteration.
Reaches(n, S) ==
    \A m \in 0 .. (n - 1) : /\ Visited[m] # INVALID
                            /\ Readable(Visited[m]) /\ Visited[m] \notin S

Finds(p, S) ==
    /\ p \in S /\ Readable(p)
    /\ \E n \in 0 .. MaxPages : Reaches(n, S) /\ Visited[n] = p

ReachesEnd(S) == \E n \in 0 .. MaxPages : Reaches(n, S) /\ Visited[n] = INVALID

Throws(S) ==
    \E n \in 0 .. MaxPages :
        Reaches(n, S) /\ Visited[n] # INVALID /\ ~Readable(Visited[n])

\* More iterations than there are pages: some page came back.
Loops(S) == Reaches(MaxPages + 1, S)

\* The call throws what operator* threw, or does not return: the process is
\* killed and the next one opens the file anew.
WalkFails(S) ==
    \/ Throws(S) /\ Fails("InvalidPage")
    \/ /\ Loops(S)
       /\ handles' = 0 /\ NothingHeld
       /\ exc' = "loops"
       /\ UNCHANGED <<exists, header, pages>>

-----------------------------------------------------------------------------
(***************************************************************************)
(* allocatePage                                                            *)
(***************************************************************************)
\* The new page and the header are written, and so is page q, which comes
\* before it in the used list (INVALID: there is none).
Written(new, page, q, newHeader) ==
    /\ pages' = [p \in PageIds |->
                    IF p = new THEN page
                    ELSE IF p = q THEN [pages[q] EXCEPT !.next = new] ELSE pages[p]]
    /\ header' = newHeader
    /\ held' = [held EXCEPT ![new] = page.next]
    /\ exc' = "none"
    /\ UNCHANGED <<exists, handles>>

\* The header when the first free page leaves the free list.
FreeListPopped ==
    [header EXCEPT !.first_free_page = pages[header.first_free_page].next,
                   !.num_free_pages = @ - 1]

InUse(p, next) == [pages[p] EXCEPT !.used = TRUE, !.next = next]

\* The pages after which page new may be inserted into the used list.
\* Mutant: the end of the list is forgotten.
BeforeALaterPage(new) == {p \in PageIds : pages[p].next > new}
Predecessors(new) == {p \in PageIds : pages[p].next > new \/ pages[p].next = INVALID}

\* The next page of a reused page that becomes the first of the used list.
\* When the list is empty nobody sets it, and it is the next free page.
NextOfFirst(new) ==
    IF header.first_used_page > new THEN header.first_used_page ELSE pages[new].next

ReuseAtHead ==
    LET new == header.first_free_page IN
    /\ header.num_free_pages > 0
    /\ header.first_used_page = INVALID \/ header.first_used_page > new
    /\ Written(new, InUse(new, NextOfFirst(new)), INVALID,
               [FreeListPopped EXCEPT !.first_used_page = new])

ReuseInside ==
    LET new == header.first_free_page IN
    /\ header.num_free_pages > 0
    /\ header.first_used_page \in 1 .. new
    /\ \/ \E q \in PageIds :
            /\ Finds(q, Predecessors(new))
            /\ Written(new, InUse(new, pages[q].next), q, FreeListPopped)
       \/ /\ ReachesEnd(Predecessors(new))
          /\ Written(new, InUse(new, INVALID), INVALID, FreeListPopped)
       \/ WalkFails(Predecessors(new))

Extend ==
    LET new == header.num_pages
        LastPages == {p \in PageIds : pages[p].next = INVALID}
        NewPage == [Initialized(INVALID) EXCEPT !.used = TRUE]
        Longer == [header EXCEPT !.num_pages = @ + 1]
    IN  /\ header.num_free_pages = 0
        /\ new \in PageIds
        /\ \/ /\ header.first_used_page = INVALID
              /\ Written(new, NewPage, INVALID, [Longer EXCEPT !.first_used_page = new])
           \/ /\ header.first_used_page # INVALID
              /\ \/ \E q \in PageIds : Finds(q, LastPages) /\ Written(new, NewPage, q, Longer)
                 \/ WalkFails(LastPages)

AllocatePage == handles > 0 /\ (ReuseAtHead \/ ReuseInside \/ Extend)

-----------------------------------------------------------------------------
(***************************************************************************)
(* readPage, writePage, deletePage                                         *)
(***************************************************************************)
ReadPage(p) ==
    /\ handles > 0
    /\ \/ ~Readable(p) /\ Fails("InvalidPage")
       \/ /\ Readable(p)
          /\ held' = [held EXCEPT ![p] = pages[p].next]
          /\ exc' = "none"
          /\ UNCHANGED <<exists, handles, header, pages>>

\* Mutant: the next page of the copy is written too.
Overwritten(p, c) == [used |-> TRUE, next |-> held[p], data |-> c]

\* The header of the copy is written, but the page on disk keeps its place in
\* the list.
Rewritten(p, c) == [used |-> TRUE, next |-> pages[p].next, data |-> c]

\* Mutant: no page counts as deleted.
NeverDeleted(p) == FALSE

DeletedSinceRead(p) == ~pages[p].used

WritePage(p, c) ==
    /\ handles > 0
    /\ held[p] # NotHeld
    /\ \/ DeletedSinceRead(p) /\ Fails("InvalidPage")
       \/ /\ ~DeletedSinceRead(p)
          /\ pages' = [pages EXCEPT ![p] = Rewritten(p, c)]
          /\ exc' = "none"
          /\ UNCHANGED <<exists, handles, header, held>>

\* Mutant: the free list restarts at the deleted page.
ClearedAlone == Initialized(INVALID)

Cleared == Initialized(header.first_free_page)

\* Page p goes to the head of the free list and page q, the one before it in
\* the used list, is linked past it (INVALID: no page points to p).
FreedAfter(p, q, firstUsed) ==
    /\ pages' = [x \in PageIds |->
                    IF x = p THEN Cleared
                    ELSE IF x = q THEN [pages[q] EXCEPT !.next = pages[p].next] ELSE pages[x]]
    /\ header' = [header EXCEPT !.first_used_page = firstUsed,
                                !.first_free_page = p, !.num_free_pages = @ + 1]
    /\ exc' = "none"
    /\ UNCHANGED <<exists, handles, held>>

\* Mutant: a deleted page may be deleted again.
DeletableFree(p) == p < header.num_pages

Deletable(p) == Readable(p)

DeletePage(p) ==
    LET PointsToP == {q \in PageIds : pages[q].next = p} IN
    /\ handles > 0
    /\ \/ ~Deletable(p) /\ Fails("InvalidPage")
       \/ /\ Deletable(p)
          /\ \/ /\ p = header.first_used_page
                /\ FreedAfter(p, INVALID, pages[p].next)
             \/ /\ p # header.first_used_page
                /\ \/ \E q \in PageIds : /\ Finds(q, PointsToP)
                                         /\ FreedAfter(p, q, header.first_used_page)
                   \/ /\ ReachesEnd(PointsToP)
                      /\ FreedAfter(p, INVALID, header.first_used_page)
                   \/ WalkFails(PointsToP)

Next ==
    \/ Create \/ Open \/ Close \/ Remove
    \/ AllocatePage
    \/ \E p \in PageIds : \/ ReadPage(p) \/ DeletePage(p)
                          \/ \E c \in Contents : WritePage(p, c)

Spec == Init /\ [][Next]_vars

-----------------------------------------------------------------------------
(***************************************************************************)
(* Properties                                                              *)
(***************************************************************************)
Allocated == 1 .. (header.num_pages - 1)
UsedPages == {p \in Allocated : pages[p].used}
FreePages == Allocated \ UsedPages

\* The list that starts at first consists of the pages of S, once each.
ListsExactly(first, S) ==
    LET at == ListFrom(first) IN
    /\ at[Cardinality(S)] = INVALID
    /\ {at[n] : n \in 0 .. (Cardinality(S) - 1)} = S

TypeOK ==
    /\ exists \in BOOLEAN
    /\ handles \in 0 .. MaxHandles
    /\ header \in [num_pages : 1 .. (MaxPages + 1), first_used_page : Links,
                   num_free_pages : 0 .. MaxPages, first_free_page : Links]
    /\ pages \in [PageIds -> [used : BOOLEAN, next : Links, data : Contents]]
    /\ held \in [PageIds -> Links \cup {NotHeld}]
    /\ exc \in {"none", "FileExists", "FileNotFound", "FileOpen", "InvalidPage", "loops"}

\* The free list holds every deleted page once, and num_free_pages counts
\* them, whatever has become of the used list: no deleted page is lost or
\* handed out twice.  It is what the assertion of allocatePage relies on.
FreeListExact ==
    /\ header.num_free_pages = Cardinality(FreePages)
    /\ ListsExactly(header.first_free_page, FreePages)

\* page.h on next_page_number: "Number of the next used page in the file."
\* An iterator meets every page in use once, in the order of their numbers.
UsedListExact ==
    /\ ListsExactly(header.first_used_page, UsedPages)
    /\ \A p \in UsedPages : pages[p].next > p \/ pages[p].next = INVALID

\* Every call keeps the used list exact, whatever copies come back late through
\* writePage, but for one case: a page reused while no page is in use and
\* other pages are free.
ListsPreserved ==
    [][ /\ UsedListExact
        /\ ~(header.first_used_page = INVALID /\ header.num_free_pages > 1)
        => UsedListExact' ]_vars

\* Even when the used list runs into the free list or into itself, it meets
\* every page in use before that: no page is lost, and deletePage of a page in
\* use always finds the page before it.
UsedPagesReachable ==
    \A p \in UsedPages : header.first_used_page = p \/ \E n \in 1 .. MaxPages :
        Visited[n] = p /\ Reaches(n, {p})

\* While the used list is exact, allocatePage returns: no exception of the
\* iterator gets out of it, and its loops end.
AllocateReturns == [][UsedListExact /\ AllocatePage => exc' = "none"]_vars

\* The file implements a set of pages: a new page never takes a number in use,
\* deleting or adding one leaves the bytes of the others alone, and a late
\* writePage never brings a deleted page back.
content == [p \in PageIds |->
                IF exists /\ p \in UsedPages THEN pages[p].data ELSE Free]

PSet == INSTANCE PageSet
RefinesPageSet == PSet!Spec

=============================================================================
