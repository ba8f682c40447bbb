--------------------------- MODULE PageFileProofs ---------------------------
(***************************************************************************)
(* Proofs about PageFile, for every number of pages and of File objects.   *)
(***************************************************************************)
EXTENDS PageFile, FiniteSetTheorems, TLAPS

\* A set of naturals has a least element.
LEMMA LeastElement ==
    ASSUME NEW T \in SUBSET Nat, T # {}
    PROVE  \E m \in T : \A t \in T : m <= t
<1>1. PICK R : R = {nm \in Nat \X Nat : nm[1] < nm[2]}
  OBVIOUS
<1>2. IsWellFoundedOn(R, Nat)
  BY <1>1, NatLessThanWellFounded DEF OpToRel
<1>3. PICK m \in T : \A t \in T : <<t, m>> \notin R
  BY <1>2, WFMin
<1>4. ASSUME NEW t \in T, t < m PROVE FALSE
  BY <1>1, <1>3, <1>4
<1> QED
  BY <1>4

\* The i-th page of an enumeration L of the free list, INVALID after the last.
Link(L, i) == IF i \in DOMAIN L THEN L[i] ELSE INVALID

\* L enumerates the deleted pages, once each, in the order of the free list.
Enumerates(L) ==
    /\ L \in [1 .. header.num_free_pages -> PageIds]
    /\ \A i, j \in 1 .. header.num_free_pages : L[i] = L[j] => i = j
    /\ \A p \in PageIds : p \in FreePages <=> \E i \in 1 .. header.num_free_pages : L[i] = p
    /\ header.first_free_page = Link(L, 1)
    /\ \A i \in 1 .. header.num_free_pages : pages[L[i]].next = Link(L, i + 1)

\* TypeOK without the bound of num_free_pages, which follows from the free
\* list, and what is true of the file while a File object is open.
Shape ==
    /\ exists \in BOOLEAN
    /\ handles \in 0 .. MaxHandles
    /\ handles > 0 => exists
    /\ header \in [num_pages : 1 .. (MaxPages + 1), first_used_page : Links,
                   num_free_pages : Nat, first_free_page : Links]
    /\ pages \in [PageIds -> [used : BOOLEAN, next : Links, data : Contents]]
    /\ held \in [PageIds -> Links \cup {NotHeld}]
    /\ exc \in {"none", "FileExists", "FileNotFound", "FileOpen", "InvalidPage", "loops"}

\* A page that is reused keeps the bytes it was deleted with.
FreePagesFresh == \A p \in FreePages : pages[p].data = Fresh

FileInv == Shape /\ FreePagesFresh /\ \E L : Enumerates(L)

-----------------------------------------------------------------------------
\* The numbers of deleted pages and of pages in use.
LEMMA FreeFacts ==
    ASSUME Shape
    PROVE  /\ \A p : p \in FreePages <=> p \in PageIds /\ p < header.num_pages /\ ~pages[p].used
           /\ \A p : p \in UsedPages <=> p \in PageIds /\ p < header.num_pages /\ pages[p].used
<1>1. \A p : p \in Allocated <=> p \in PageIds /\ p < header.num_pages
  <2>1. header.num_pages \in 1 .. (MaxPages + 1) /\ MaxPages \in Nat
    BY PagesAssumption DEF Shape
  <2> QED
    BY <2>1 DEF Allocated, PageIds
<1> QED
  BY <1>1 DEF FreePages, UsedPages

\* The same in the next state.
LEMMA FreeFactsNext ==
    ASSUME Shape'
    PROVE  /\ \A p : p \in FreePages' <=> p \in PageIds /\ p < header'.num_pages /\ ~pages'[p].used
           /\ \A p : p \in UsedPages' <=> p \in PageIds /\ p < header'.num_pages /\ pages'[p].used
<1>1. \A p : p \in Allocated' <=> p \in PageIds /\ p < header'.num_pages
  <2>1. header'.num_pages \in 1 .. (MaxPages + 1) /\ MaxPages \in Nat
    BY PagesAssumption DEF Shape
  <2> QED
    BY <2>1 DEF Allocated, PageIds
<1> QED
  BY <1>1 DEF FreePages, UsedPages

\* The mapping to PageSet, page by page.
LEMMA Mapping ==
    /\ content = [p \in PageIds |-> content[p]]
    /\ \A p \in PageIds : content[p] = IF exists /\ p \in UsedPages THEN pages[p].data ELSE Free
BY DEF content

\* The same in the next state.
LEMMA MappingNext ==
    /\ content' = [p \in PageIds |-> content'[p]]
    /\ \A p \in PageIds :
        content'[p] = IF exists' /\ p \in UsedPages' THEN pages'[p].data ELSE Free
BY DEF content

\* A step that leaves the header and the pages leaves FileInv and the mapping.
LEMMA SameFile ==
    ASSUME FileInv, exists' = exists, header' = header, pages' = pages,
           handles' \in 0 .. MaxHandles, handles' > 0 => exists,
           held' \in [PageIds -> Links \cup {NotHeld}],
           exc' \in {"none", "FileExists", "FileNotFound", "FileOpen", "InvalidPage", "loops"}
    PROVE  FileInv' /\ content' = content
<1>1. Shape'
  BY DEF FileInv, Shape
<1>2. FreePagesFresh'
  BY DEF FileInv, FreePagesFresh, FreePages, UsedPages, Allocated
<1>3. \A L : Enumerates(L) => Enumerates(L)'
  BY DEF Enumerates, FreePages, UsedPages, Allocated
<1>4. content' = content
  BY DEF content, UsedPages, Allocated
<1> QED
  BY <1>1, <1>2, <1>3, <1>4 DEF FileInv

\* So does a call that throws.
LEMMA FailsKeeps ==
    ASSUME FileInv, NEW e \in {"FileExists", "FileNotFound", "FileOpen", "InvalidPage"}, Fails(e)
    PROVE  FileInv' /\ content' = content
BY SameFile DEF FileInv, Shape, Fails

\* A new header has no pages and no free list.
LEMMA EmptyFile ==
    ASSUME Shape', header' = NewHeader
    PROVE  FileInv' /\ content' = [p \in PageIds |-> Free]
<1>1. header'.num_pages = 1 /\ header'.num_free_pages = 0 /\ header'.first_free_page = INVALID
  BY DEF NewHeader
<1>2. Allocated' = {}
  BY <1>1 DEF Allocated
<1>3. FreePages' = {} /\ UsedPages' = {}
  BY <1>2 DEF FreePages, UsedPages
<1>4. FreePagesFresh'
  BY <1>3 DEF FreePagesFresh
<1>5. Enumerates([i \in 1 .. 0 |-> INVALID])'
  BY <1>1, <1>3 DEF Enumerates, Link
<1>6. content' = [p \in PageIds |-> Free]
  BY <1>3, MappingNext
<1> QED
  BY <1>4, <1>5, <1>6 DEF FileInv

\* The constructor of File, with and without create_new, and File::remove.
LEMMA CreateStep ==
    ASSUME FileInv, Create
    PROVE  FileInv' /\ [PSet!Next]_content
<1>1. CASE Fails("FileExists")
  BY <1>1, FailsKeeps
<1>2. NewHeader \in [num_pages : 1 .. (MaxPages + 1), first_used_page : Links,
                     num_free_pages : Nat, first_free_page : Links]
  BY PagesAssumption DEF NewHeader, Links
<1>3. [p \in PageIds |-> Initialized(INVALID)]
        \in [PageIds -> [used : BOOLEAN, next : Links, data : Contents]]
  BY ContentsAssumption DEF Initialized, Links
<1>4. CASE ~Fails("FileExists")
  <2>1. /\ header' = NewHeader /\ exc' = "none" /\ held' = held
        /\ pages' = [p \in PageIds |-> Initialized(INVALID)] \/ pages' = pages
    BY <1>4 DEF Create
  <2>2. exists' \in BOOLEAN /\ (handles' > 0 => exists')
    <3>1. CASE exists' = TRUE
      BY <3>1, Zenon
    <3>2. CASE handles \in 1 .. (MaxHandles - 1) /\ exists' = exists
      <4>1. handles > 0
        BY <3>2
      <4> QED
        BY <3>2, <4>1, Zenon DEF FileInv, Shape
    <3> QED
      BY <1>4, <3>1, <3>2, Zenon DEF Create
  <2>3. handles' \in 0 .. MaxHandles
    BY <1>4, PagesAssumption DEF Create
  <2>4. Shape'
    BY <1>2, <1>3, <2>1, <2>2, <2>3 DEF FileInv, Shape
  <2> QED
    BY <2>1, <2>4, EmptyFile DEF PSet!Next, PSet!Truncate
<1> QED
  BY <1>1, <1>4

\* Opening and closing a File object leaves the file as it is.
LEMMA OpenCloseStep ==
    ASSUME FileInv, Open \/ Close
    PROVE  FileInv' /\ content' = content
<1>1. [p \in PageIds |-> NotHeld] \in [PageIds -> Links \cup {NotHeld}]
  OBVIOUS
<1>2. CASE Fails("FileNotFound")
  BY <1>2, FailsKeeps
<1>3. CASE ~Fails("FileNotFound")
  BY <1>1, <1>3, SameFile, PagesAssumption DEF Open, Close, NothingHeld, FileInv, Shape
<1> QED
  BY <1>2, <1>3

\* File::remove
LEMMA RemoveStep ==
    ASSUME FileInv, Remove
    PROVE  FileInv' /\ [PSet!Next]_content
<1>1. CASE Fails("FileNotFound") \/ Fails("FileOpen")
  BY <1>1, FailsKeeps
<1>2. CASE ~Fails("FileNotFound") /\ ~Fails("FileOpen")
  <2>1. /\ exists' = FALSE /\ handles' = handles /\ handles = 0 /\ header' = header
        /\ pages' = pages /\ held' = held /\ exc' = "none"
    BY <1>2 DEF Remove
  <2>2. Shape'
    <3>1. exists' \in BOOLEAN
      BY <2>1, Zenon
    <3>2. handles' \in 0 .. MaxHandles /\ ~(handles' > 0)
      BY <2>1 DEF FileInv, Shape
    <3> QED
      BY <2>1, <3>1, <3>2 DEF FileInv, Shape
  <2>3. FreePagesFresh'
    BY <2>1 DEF FileInv, FreePagesFresh, FreePages, UsedPages, Allocated
  <2>4. \A L : Enumerates(L) => Enumerates(L)'
    BY <2>1 DEF Enumerates, FreePages, UsedPages, Allocated
  <2>5. content' = [p \in PageIds |-> Free]
    BY <2>1, MappingNext
  <2> QED
    BY <2>2, <2>3, <2>4, <2>5 DEF FileInv, PSet!Next, PSet!Truncate
<1> QED
  BY <1>1, <1>2

-----------------------------------------------------------------------------
\* The page a search finds is in use.
LEMMA FoundIsUsed ==
    ASSUME Shape, NEW q \in PageIds, NEW S, Finds(q, S)
    PROVE  q \in UsedPages
BY FreeFacts DEF Finds, Readable

\* A search that fails changes no page.
LEMMA WalkFailsKeeps ==
    ASSUME FileInv, NEW S, WalkFails(S)
    PROVE  FileInv' /\ content' = content
<1>1. [p \in PageIds |-> NotHeld] \in [PageIds -> Links \cup {NotHeld}]
  OBVIOUS
<1>2. CASE Fails("InvalidPage")
  BY <1>2, FailsKeeps
<1>3. CASE ~Fails("InvalidPage")
  BY <1>1, <1>3, SameFile, PagesAssumption DEF WalkFails, NothingHeld, FileInv, Shape
<1> QED
  BY <1>2, <1>3

\* The records of pages and of the header.
PageRecord == [used : BOOLEAN, next : Links, data : Contents]
HeaderRecord == [num_pages : 1 .. (MaxPages + 1), first_used_page : Links,
                 num_free_pages : Nat, first_free_page : Links]

\* A page that is linked to another keeps the rest.
LEMMA Relinked ==
    ASSUME NEW r \in PageRecord, NEW l \in Links, NEW e, e = [r EXCEPT !.next = l]
    PROVE  e \in PageRecord /\ e.used = r.used /\ e.data = r.data /\ e.next = l
BY DEF PageRecord

\* A page that is taken into use.
LEMMA TakenIntoUse ==
    ASSUME NEW r \in PageRecord, NEW l \in Links,
           NEW e, e = [r EXCEPT !.used = TRUE, !.next = l]
    PROVE  e \in PageRecord /\ e.used
BY DEF PageRecord

\* What Written does to the pages: page new is as given, another one may have
\* got a new link, if it was in use.
LEMMA WrittenFacts ==
    ASSUME Shape, NEW new \in PageIds, NEW page \in PageRecord, NEW h \in HeaderRecord,
           NEW q \in UsedPages \cup {INVALID}, Written(new, page, q, h), handles > 0
    PROVE  /\ Shape' /\ exists /\ exists'
           /\ pages'[new] = page
           /\ \A x \in PageIds \ {new} :
                /\ pages'[x].used = pages[x].used /\ pages'[x].data = pages[x].data
                /\ ~pages[x].used => pages'[x] = pages[x]
<1>1. /\ pages' = [p \in PageIds |-> IF p = new THEN page
                                      ELSE IF p = q THEN [pages[q] EXCEPT !.next = new]
                                           ELSE pages[p]]
      /\ header' = h /\ held' = [held EXCEPT ![new] = page.next]
      /\ exc' = "none" /\ exists' = exists /\ handles' = handles
  BY DEF Written
<1>2. new \in Links /\ pages \in [PageIds -> PageRecord]
  BY DEF Links, Shape, PageRecord
<1>3. ASSUME NEW x \in PageIds \ {new}
      PROVE  /\ pages'[x] \in PageRecord
             /\ pages'[x].used = pages[x].used /\ pages'[x].data = pages[x].data
             /\ ~pages[x].used => pages'[x] = pages[x]
  <2>1. CASE x # q
    BY <1>1, <1>2, <2>1
  <2>2. CASE x = q
    <3>1. pages'[x] = [pages[x] EXCEPT !.next = new]
      BY <1>1, <2>2
    <3>2. x \in UsedPages
      BY <2>2 DEF INVALID, PageIds
    <3>3. pages[x].used
      BY <3>2 DEF UsedPages
    <3>4. PICK r \in PageRecord : r = pages[x]
      BY <1>2
    <3>5. PICK l \in Links : l = new
      BY <1>2
    <3>6. PICK e : e = pages'[x] /\ e = [r EXCEPT !.next = l]
      BY <3>1, <3>4, <3>5
    <3>7. e \in PageRecord /\ e.used = r.used /\ e.data = r.data
      BY <3>6, Relinked
    <3> QED
      BY <3>3, <3>4, <3>6, <3>7, Zenon
  <2> QED
    BY <2>1, <2>2
<1>4. pages'[new] = page
  BY <1>1
<1>5. pages' \in [PageIds -> PageRecord]
  <2>1. \A x \in PageIds : pages'[x] \in PageRecord
    BY <1>3, <1>4
  <2>2. pages' = [x \in PageIds |-> pages'[x]]
    BY <1>1
  <2> QED
    BY <2>1, <2>2
<1>6. exists /\ exists'
  BY <1>1, Zenon DEF Shape
<1>7. held' \in [PageIds -> Links \cup {NotHeld}]
  BY <1>1 DEF PageRecord, Shape
<1>8. header' \in HeaderRecord /\ handles' \in 0 .. MaxHandles
  BY <1>1 DEF Shape
<1>9. exists' \in BOOLEAN
  BY <1>6
<1>10. Shape'
  BY <1>1, <1>5, <1>6, <1>7, <1>8, <1>9 DEF Shape, PageRecord, HeaderRecord
<1> QED
  BY <1>3, <1>4, <1>6, <1>10

\* The first page of the free list is a deleted page.
LEMMA FirstFree ==
    ASSUME FileInv, header.num_free_pages > 0, NEW L, Enumerates(L)
    PROVE  /\ header.first_free_page = L[1]
           /\ L[1] \in PageIds /\ L[1] \in FreePages
<1>1. header.num_free_pages \in Nat
  BY DEF FileInv, Shape
<1>2. 1 \in 1 .. header.num_free_pages
  BY <1>1
<1> QED
  BY <1>2 DEF Enumerates, Link

\* A page that is reused leaves the free list and the rest of the list stays.
LEMMA ReuseKeeps ==
    ASSUME FileInv, handles > 0, header.num_free_pages > 0,
           NEW new, new = header.first_free_page, NEW next \in Links,
           NEW q \in UsedPages \cup {INVALID}, NEW h \in HeaderRecord,
           h.num_pages = header.num_pages,
           h.num_free_pages = header.num_free_pages - 1,
           h.first_free_page = pages[new].next,
           Written(new, InUse(new, next), q, h)
    PROVE  FileInv' /\ new \in PageIds /\ PSet!Allocate(new)
<1>1. PICK L : Enumerates(L)
  BY DEF FileInv
<1>2. PICK n \in Nat : n = header.num_free_pages /\ n > 0
  BY DEF FileInv, Shape
<1>3. /\ new = L[1] /\ new \in PageIds
      /\ ~pages[new].used /\ new < header.num_pages /\ pages[new].data = Fresh
  BY <1>1, FirstFree, FreeFacts DEF FileInv, FreePagesFresh
<1>4. PICK page \in PageRecord : /\ page = InUse(new, next) /\ page.used
                                 /\ page.data = Fresh /\ page.next = next
  <2>1. PICK page : page = InUse(new, next)
    OBVIOUS
  <2>2. PICK r \in PageRecord : r = pages[new]
    BY <1>3 DEF FileInv, Shape, PageRecord
  <2>3. PICK l \in Links : l = next
    OBVIOUS
  <2>4. page = [r EXCEPT !.used = TRUE, !.next = l]
    BY <2>1, <2>2, <2>3 DEF InUse
  <2>5. page \in PageRecord /\ page.used
    BY <2>4, TakenIntoUse
  <2>6. page.data = r.data /\ page.next = l
    BY <2>4 DEF PageRecord
  <2>7. r.data = Fresh
    BY <1>3, <2>2
  <2> QED
    BY <2>1, <2>3, <2>5, <2>6, <2>7, Zenon
<1>5. /\ Shape' /\ exists /\ exists' /\ pages'[new] = page
      /\ \A x \in PageIds \ {new} :
            /\ pages'[x].used = pages[x].used /\ pages'[x].data = pages[x].data
            /\ ~pages[x].used => pages'[x] = pages[x]
  BY <1>3, <1>4, WrittenFacts DEF FileInv
<1>6. header' = h
  BY DEF Written
<1>7. /\ header'.num_pages = header.num_pages /\ header'.num_free_pages = n - 1
      /\ header'.first_free_page = pages[new].next
  BY <1>2, <1>6
<1>8. \A p : p \in FreePages' <=> p \in FreePages /\ p # new
  <2>1. \A p : p \in FreePages' <=> p \in PageIds /\ p < header.num_pages /\ ~pages'[p].used
    BY <1>5, <1>7, FreeFactsNext
  <2> QED
    BY <1>4, <1>5, <2>1, FreeFacts DEF FileInv
<1>9. \A p : p \in UsedPages' <=> p \in UsedPages \/ p = new
  <2>1. \A p : p \in UsedPages' <=> p \in PageIds /\ p < header.num_pages /\ pages'[p].used
    BY <1>5, <1>7, FreeFactsNext
  <2> QED
    BY <1>3, <1>4, <1>5, <2>1, FreeFacts DEF FileInv
<1>10. FreePagesFresh'
  BY <1>5, <1>8, FreeFacts DEF FileInv, FreePagesFresh
<1>11. Enumerates([i \in 1 .. (n - 1) |-> L[i + 1]])'
  <2> DEFINE M == [i \in 1 .. (n - 1) |-> L[i + 1]]
  <2>1. /\ \A i \in 1 .. (n - 1) : i + 1 \in 1 .. n /\ i + 1 # 1 /\ M[i] = L[i + 1]
        /\ \A j \in 1 .. n : j = 1 \/ (j - 1 \in 1 .. (n - 1) /\ (j - 1) + 1 = j)
    BY <1>2
  <2>2. /\ L \in [1 .. n -> PageIds] /\ 1 \in 1 .. n
        /\ \A i, j \in 1 .. n : L[i] = L[j] => i = j
        /\ \A p \in PageIds : p \in FreePages <=> \E i \in 1 .. n : L[i] = p
        /\ \A i \in 1 .. n : pages[L[i]].next = Link(L, i + 1)
    BY <1>1, <1>2 DEF Enumerates
  <2>3. M \in [1 .. (n - 1) -> PageIds]
    BY <2>1, <2>2
  <2>4. \A i, j \in 1 .. (n - 1) : M[i] = M[j] => i = j
    BY <2>1, <2>2
  <2>5. \A p \in PageIds : p \in FreePages' <=> \E i \in 1 .. (n - 1) : M[i] = p
    <3>1. ASSUME NEW i \in 1 .. (n - 1) PROVE M[i] \in FreePages'
      BY <1>3, <1>8, <2>1, <2>2
    <3>2. ASSUME NEW p \in FreePages' PROVE \E i \in 1 .. (n - 1) : M[i] = p
      <4>1. p \in FreePages /\ p # L[1] /\ p \in PageIds
        BY <1>3, <1>8, FreeFacts DEF FileInv
      <4>2. PICK j \in 1 .. n : L[j] = p
        BY <2>2, <4>1
      <4>3. j - 1 \in 1 .. (n - 1) /\ (j - 1) + 1 = j
        BY <2>1, <4>1, <4>2
      <4> QED
        BY <4>2, <4>3
    <3> QED
      BY <3>1, <3>2
  <2>6. \A i \in 1 .. n : Link(M, i) = Link(L, i + 1)
    <3>1. ASSUME NEW i \in 1 .. n PROVE Link(M, i) = Link(L, i + 1)
      <4>1. DOMAIN M = 1 .. (n - 1) /\ DOMAIN L = 1 .. n
        BY <2>2
      <4>2. i \in 1 .. (n - 1) <=> i + 1 \in 1 .. n
        BY <1>2
      <4> QED
        BY <2>1, <4>1, <4>2 DEF Link
    <3> QED
      BY <3>1
  <2>7. header'.first_free_page = Link(M, 1)
    BY <1>3, <1>7, <2>2, <2>6
  <2>8. \A i \in 1 .. (n - 1) : pages'[M[i]].next = Link(M, i + 1)
    <3>1. ASSUME NEW i \in 1 .. (n - 1) PROVE pages'[M[i]].next = Link(M, i + 1)
      <4>1. i + 1 \in 1 .. n /\ M[i] = L[i + 1] /\ L[i + 1] # new
        BY <1>3, <2>1, <2>2
      <4>2. M[i] \in PageIds \ {new} /\ ~pages[M[i]].used
        BY <2>2, <4>1, FreeFacts DEF FileInv
      <4>3. pages'[M[i]] = pages[L[i + 1]]
        BY <1>5, <4>1, <4>2
      <4>4. pages[L[i + 1]].next = Link(L, (i + 1) + 1)
        BY <2>2, <4>1
      <4> QED
        BY <2>6, <4>1, <4>3, <4>4
    <3> QED
      BY <3>1
  <2> HIDE DEF M
  <2>9. Enumerates(M)'
    BY <1>7, <2>3, <2>4, <2>5, <2>7, <2>8 DEF Enumerates, Link
  <2> QED
    BY <2>9 DEF M
<1>12. PSet!Allocate(new)
  <2>1. content[new] = Free /\ content'[new] = Fresh
    BY <1>3, <1>4, <1>5, <1>9, FreeFacts, Mapping, MappingNext DEF FileInv
  <2>2. \A x \in PageIds \ {new} : content'[x] = content[x]
    BY <1>5, <1>9, Mapping, MappingNext
  <2>3. content' = [content EXCEPT ![new] = Fresh]
    BY <2>1, <2>2, Mapping, MappingNext
  <2> QED
    BY <2>1, <2>3 DEF PSet!Allocate
<1> QED
  BY <1>3, <1>5, <1>10, <1>11, <1>12 DEF FileInv

\* A page at the end of the file leaves the free list empty.
LEMMA ExtendKeeps ==
    ASSUME FileInv, handles > 0, header.num_free_pages = 0,
           NEW new \in PageIds, new = header.num_pages,
           NEW page \in PageRecord, page.used, page.data = Fresh,
           NEW q \in UsedPages \cup {INVALID}, NEW h \in HeaderRecord,
           h.num_pages = header.num_pages + 1, h.num_free_pages = 0,
           h.first_free_page = header.first_free_page,
           Written(new, page, q, h)
    PROVE  FileInv' /\ PSet!Allocate(new)
<1>1. PICK L : Enumerates(L)
  BY DEF FileInv
<1>2. /\ L \in [1 .. 0 -> PageIds]
      /\ \A p \in PageIds : p \notin FreePages
      /\ header.first_free_page = Link(L, 1)
  BY <1>1 DEF Enumerates
<1>3. /\ Shape' /\ exists /\ exists' /\ pages'[new] = page
      /\ \A x \in PageIds \ {new} :
            /\ pages'[x].used = pages[x].used /\ pages'[x].data = pages[x].data
            /\ ~pages[x].used => pages'[x] = pages[x]
  BY WrittenFacts DEF FileInv
<1>4. header' = h
  BY DEF Written
<1>5. \A p : p \in PageIds /\ p < header'.num_pages <=> p \in PageIds /\ (p < header.num_pages \/ p = new)
  BY <1>4, PagesAssumption DEF PageIds
<1>6. \A p : p \notin FreePages'
  BY <1>2, <1>3, <1>5, FreeFacts, FreeFactsNext DEF FileInv
<1>7. \A p : p \in UsedPages' <=> p \in UsedPages \/ p = new
  <2>1. \A p : p \in UsedPages' <=> p \in PageIds /\ p < header'.num_pages /\ pages'[p].used
    BY <1>3, FreeFactsNext
  <2>2. pages'[new].used
    BY <1>3
  <2>3. ~(new < header.num_pages)
    BY DEF PageIds
  <2> QED
    BY <1>3, <1>5, <2>1, <2>2, <2>3, FreeFacts DEF FileInv
<1>8. FreePagesFresh'
  BY <1>6 DEF FreePagesFresh
<1>9. Enumerates(L)'
  BY <1>2, <1>4, <1>6 DEF Enumerates, Link
<1>10. PSet!Allocate(new)
  <2>1. new \notin UsedPages
    <3>1. ~(new < header.num_pages)
      BY DEF PageIds
    <3> QED
      BY <3>1, FreeFacts DEF FileInv
  <2>2. content[new] = Free /\ content'[new] = Fresh
    BY <1>3, <1>7, <2>1, Mapping, MappingNext
  <2>3. \A x \in PageIds \ {new} : content'[x] = content[x]
    BY <1>3, <1>7, Mapping, MappingNext
  <2>4. content' = [content EXCEPT ![new] = Fresh]
    BY <2>2, <2>3, Mapping, MappingNext
  <2> QED
    BY <2>2, <2>4 DEF PSet!Allocate
<1> QED
  BY <1>3, <1>8, <1>9, <1>10 DEF FileInv

\* The header when the first free page leaves the free list, as it is and with
\* that page the first in use.
LEMMA Popped ==
    ASSUME FileInv, header.num_free_pages > 0
    PROVE  \E h \in HeaderRecord :
            /\ h = FreeListPopped
            /\ h.num_pages = header.num_pages
            /\ h.num_free_pages = header.num_free_pages - 1
            /\ h.first_free_page = pages[header.first_free_page].next
<1>1. PICK L : Enumerates(L)
  BY DEF FileInv
<1>2. header.first_free_page \in PageIds
  BY <1>1, FirstFree
<1>3. pages[header.first_free_page].next \in Links
  BY <1>2 DEF FileInv, Shape
<1>4. PICK l \in Links : l = pages[header.first_free_page].next
  BY <1>3
<1>5. PICK g \in HeaderRecord : g = header
  BY DEF FileInv, Shape, HeaderRecord
<1>6. g.num_free_pages - 1 \in Nat
  BY <1>5 DEF HeaderRecord
<1>7. PICK h : h = [g EXCEPT !.first_free_page = l, !.num_free_pages = @ - 1]
  OBVIOUS
<1>8. /\ h \in HeaderRecord /\ h.num_pages = g.num_pages
      /\ h.num_free_pages = g.num_free_pages - 1 /\ h.first_free_page = l
  BY <1>6, <1>7 DEF HeaderRecord
<1>9. h = FreeListPopped
  BY <1>4, <1>5, <1>7 DEF FreeListPopped
<1> QED
  BY <1>4, <1>5, <1>8, <1>9

\* A reused page that becomes the first of the used list.
LEMMA ReuseAtHeadStep ==
    ASSUME FileInv, handles > 0, ReuseAtHead
    PROVE  FileInv' /\ \E p \in PageIds : PSet!Allocate(p)
<1>1. PICK new : new = header.first_free_page
  OBVIOUS
<1>2. header.num_free_pages > 0
  BY DEF ReuseAtHead
<1>3. PICK g \in HeaderRecord : /\ g = FreeListPopped /\ g.num_pages = header.num_pages
                                /\ g.num_free_pages = header.num_free_pages - 1
                                /\ g.first_free_page = pages[new].next
  BY <1>1, <1>2, Popped
<1>4. new \in PageIds
  BY <1>1, <1>2, FirstFree DEF FileInv
<1>5. PICK h : h = [g EXCEPT !.first_used_page = new]
  OBVIOUS
<1>6. /\ h \in HeaderRecord /\ h.num_pages = g.num_pages
      /\ h.num_free_pages = g.num_free_pages /\ h.first_free_page = g.first_free_page
  BY <1>4, <1>5 DEF HeaderRecord, Links
<1>7. NextOfFirst(new) \in Links
  BY <1>4 DEF NextOfFirst, FileInv, Shape
<1>8. PICK next \in Links : next = NextOfFirst(new)
  BY <1>7
<1>9. Written(new, InUse(new, next), INVALID, h)
  BY <1>1, <1>3, <1>5, <1>8 DEF ReuseAtHead
<1>10. INVALID \in UsedPages \cup {INVALID}
  OBVIOUS
<1>11. FileInv' /\ new \in PageIds /\ PSet!Allocate(new)
  BY <1>1, <1>2, <1>3, <1>6, <1>9, <1>10, ReuseKeeps
<1> QED
  BY <1>11

\* A reused page behind others, or a walk to its place that fails.
LEMMA ReuseInsideStep ==
    ASSUME FileInv, handles > 0, ReuseInside
    PROVE  FileInv' /\ (content' = content \/ \E p \in PageIds : PSet!Allocate(p))
<1>1. PICK new : new = header.first_free_page
  OBVIOUS
<1>2. header.num_free_pages > 0
  BY DEF ReuseInside
<1>3. PICK h \in HeaderRecord : /\ h = FreeListPopped /\ h.num_pages = header.num_pages
                                /\ h.num_free_pages = header.num_free_pages - 1
                                /\ h.first_free_page = pages[new].next
  BY <1>1, <1>2, Popped
<1>4. CASE \E q \in PageIds : /\ Finds(q, Predecessors(new))
                              /\ Written(new, InUse(new, pages[q].next), q, FreeListPopped)
  <2>1. PICK q \in PageIds : /\ Finds(q, Predecessors(new))
                             /\ Written(new, InUse(new, pages[q].next), q, h)
    BY <1>3, <1>4
  <2>2. q \in UsedPages \cup {INVALID}
    BY <2>1, FoundIsUsed DEF FileInv
  <2>3. pages[q].next \in Links
    BY DEF FileInv, Shape
  <2>4. PICK next \in Links : next = pages[q].next
    BY <2>3
  <2>5. Written(new, InUse(new, next), q, h)
    BY <2>1, <2>4
  <2>6. FileInv' /\ new \in PageIds /\ PSet!Allocate(new)
    BY <1>1, <1>2, <1>3, <2>2, <2>5, ReuseKeeps
  <2> QED
    BY <2>6
<1>5. CASE Written(new, InUse(new, INVALID), INVALID, FreeListPopped)
  <2>1. INVALID \in UsedPages \cup {INVALID} /\ INVALID \in Links
    BY DEF Links
  <2>2. FileInv' /\ new \in PageIds /\ PSet!Allocate(new)
    BY <1>1, <1>2, <1>3, <1>5, <2>1, ReuseKeeps
  <2> QED
    BY <2>2
<1>6. CASE WalkFails(Predecessors(new))
  BY <1>6, WalkFailsKeeps
<1> QED
  BY <1>1, <1>4, <1>5, <1>6 DEF ReuseInside

\* A page at the end of the file, or a walk to the last page that fails.
LEMMA ExtendStep ==
    ASSUME FileInv, handles > 0, Extend
    PROVE  FileInv' /\ (content' = content \/ \E p \in PageIds : PSet!Allocate(p))
<1> DEFINE LastPages == {p \in PageIds : pages[p].next = INVALID}
<1>1. header.num_free_pages = 0 /\ header.num_pages \in PageIds
  BY DEF Extend
<1>2. PICK new \in PageIds : new = header.num_pages
  BY <1>1
<1>3. PICK page : page = [Initialized(INVALID) EXCEPT !.used = TRUE]
  OBVIOUS
<1>4. page \in PageRecord /\ page.used
  BY <1>3, ContentsAssumption DEF Initialized, PageRecord, Links
<1>5. page.data = Fresh
  BY <1>3 DEF Initialized
<1>6. PICK g \in HeaderRecord : g = header
  BY DEF FileInv, Shape, HeaderRecord
<1>7. PICK h : h = [g EXCEPT !.num_pages = @ + 1]
  OBVIOUS
<1>8. g.num_pages + 1 \in 1 .. (MaxPages + 1)
  BY <1>2, <1>6, PagesAssumption DEF PageIds
<1>9. /\ h \in HeaderRecord /\ h.num_pages = header.num_pages + 1 /\ h.num_free_pages = 0
      /\ h.first_free_page = header.first_free_page
  BY <1>1, <1>6, <1>7, <1>8 DEF HeaderRecord
<1>10. CASE Written(new, page, INVALID, [h EXCEPT !.first_used_page = new])
  <2>1. PICK f : f = [h EXCEPT !.first_used_page = new]
    OBVIOUS
  <2>2. /\ f \in HeaderRecord /\ f.num_pages = h.num_pages
        /\ f.num_free_pages = h.num_free_pages /\ f.first_free_page = h.first_free_page
    BY <1>9, <2>1 DEF HeaderRecord, Links
  <2>3. INVALID \in UsedPages \cup {INVALID}
    OBVIOUS
  <2>4. FileInv' /\ PSet!Allocate(new)
    BY <1>1, <1>2, <1>4, <1>5, <1>9, <1>10, <2>1, <2>2, <2>3, ExtendKeeps
  <2> QED
    BY <2>4
<1>11. CASE \E q \in PageIds : Finds(q, LastPages) /\ Written(new, page, q, h)
  <2>1. PICK q \in PageIds : Finds(q, LastPages) /\ Written(new, page, q, h)
    BY <1>11
  <2>2. q \in UsedPages \cup {INVALID}
    BY <2>1, FoundIsUsed DEF FileInv
  <2>3. FileInv' /\ PSet!Allocate(new)
    BY <1>1, <1>2, <1>4, <1>5, <1>9, <2>1, <2>2, ExtendKeeps
  <2> QED
    BY <2>3
<1>12. CASE WalkFails(LastPages)
  BY <1>12, WalkFailsKeeps
<1> QED
  BY <1>2, <1>3, <1>6, <1>7, <1>10, <1>11, <1>12 DEF Extend

\* allocatePage
LEMMA AllocatePageStep ==
    ASSUME FileInv, AllocatePage
    PROVE  FileInv' /\ [PSet!Next]_content
<1>1. FileInv' /\ (content' = content \/ \E p \in PageIds : PSet!Allocate(p))
  BY ReuseAtHeadStep, ReuseInsideStep, ExtendStep DEF AllocatePage
<1> QED
  BY <1>1 DEF PSet!Next

-----------------------------------------------------------------------------
\* readPage
LEMMA ReadPageStep ==
    ASSUME FileInv, NEW p \in PageIds, ReadPage(p)
    PROVE  FileInv' /\ content' = content
<1>1. CASE Fails("InvalidPage")
  BY <1>1, FailsKeeps
<1>2. CASE ~Fails("InvalidPage")
  <2>1. pages[p].next \in Links
    BY DEF FileInv, Shape
  <2> QED
    BY <1>2, <2>1, SameFile DEF ReadPage, FileInv, Shape
<1> QED
  BY <1>1, <1>2

\* A copy that comes back late changes the bytes of a page in use only.
LEMMA WritePageStep ==
    ASSUME FileInv, NEW p \in PageIds, NEW c \in Contents, WritePage(p, c)
    PROVE  FileInv' /\ [PSet!Next]_content
<1>1. CASE Fails("InvalidPage")
  BY <1>1, FailsKeeps
<1>2. CASE ~Fails("InvalidPage")
  <2>1. /\ pages[p].used /\ pages' = [pages EXCEPT ![p] = Rewritten(p, c)]
        /\ exc' = "none" /\ exists' = exists /\ handles' = handles
        /\ header' = header /\ held' = held /\ handles > 0
    BY <1>2 DEF WritePage, DeletedSinceRead
  <2>2. PICK page : page = Rewritten(p, c)
    OBVIOUS
  <2>3. pages[p].next \in Links
    BY DEF FileInv, Shape
  <2>4. page \in PageRecord /\ page.used
    BY <2>2, <2>3 DEF Rewritten, PageRecord
  <2>5. page.data = c
    BY <2>2 DEF Rewritten
  <2>6. pages'[p] = page /\ \A x \in PageIds \ {p} : pages'[x] = pages[x]
    BY <2>1, <2>2 DEF FileInv, Shape
  <2>7. pages' \in [PageIds -> PageRecord]
    BY <2>1, <2>2, <2>4 DEF FileInv, Shape, PageRecord
  <2>8. exists /\ exists'
    BY <2>1, Zenon DEF FileInv, Shape
  <2>9. Shape'
    BY <2>1, <2>7, <2>8 DEF FileInv, Shape, PageRecord
  <2>10. /\ \A x : x \in FreePages' <=> x \in FreePages
         /\ \A x : x \in UsedPages' <=> x \in UsedPages
    BY <2>1, <2>4, <2>6, <2>9, FreeFacts, FreeFactsNext DEF FileInv
  <2>11. p \notin FreePages
    BY <2>1, FreeFacts DEF FileInv
  <2>12. FreePagesFresh'
    BY <2>6, <2>10, <2>11, FreeFacts DEF FileInv, FreePagesFresh
  <2>13. \A L : Enumerates(L) => Enumerates(L)'
    <3>1. ASSUME NEW L, Enumerates(L) PROVE Enumerates(L)'
      <4>1. \A i \in 1 .. header.num_free_pages : L[i] \in PageIds \ {p}
        BY <2>11, <3>1 DEF Enumerates
      <4>2. \A i \in 1 .. header.num_free_pages : pages'[L[i]] = pages[L[i]]
        BY <2>6, <4>1
      <4> QED
        BY <2>1, <2>10, <3>1, <4>2 DEF Enumerates, Link
    <3> QED
      BY <3>1
  <2>14. ASSUME p \in UsedPages PROVE [PSet!Next]_content
    <3>1. content[p] = pages[p].data /\ content'[p] = c
      BY <2>5, <2>6, <2>8, <2>10, <2>14, Mapping, MappingNext
    <3>2. content[p] # Free
      BY <3>1, ContentsAssumption DEF FileInv, Shape
    <3>3. \A x \in PageIds \ {p} : content'[x] = content[x]
      BY <2>6, <2>8, <2>10, Mapping, MappingNext
    <3>4. content' = [content EXCEPT ![p] = c]
      BY <3>1, <3>3, Mapping, MappingNext
    <3> QED
      BY <3>2, <3>4 DEF PSet!Next, PSet!Write
  <2>15. ASSUME p \notin UsedPages PROVE [PSet!Next]_content
    <3>1. \A x \in PageIds : content'[x] = content[x]
      BY <2>6, <2>8, <2>10, <2>15, Mapping, MappingNext
    <3>2. content' = content
      BY <3>1, Mapping, MappingNext
    <3> QED
      BY <3>2
  <2> QED
    BY <2>9, <2>12, <2>13, <2>14, <2>15 DEF FileInv
<1> QED
  BY <1>1, <1>2

\* A deleted page becomes the first of the free list.
LEMMA FreeKeeps ==
    ASSUME FileInv, handles > 0, NEW p \in UsedPages,
           NEW q \in UsedPages \cup {INVALID}, NEW firstUsed \in Links,
           FreedAfter(p, q, firstUsed)
    PROVE  FileInv' /\ p \in PageIds /\ PSet!Delete(p)
<1>1. PICK L : Enumerates(L)
  BY DEF FileInv
<1>2. PICK n \in Nat : n = header.num_free_pages
  BY DEF FileInv, Shape
<1>3. p \in PageIds /\ p < header.num_pages /\ pages[p].used
  BY FreeFacts DEF FileInv
<1>4. /\ pages' = [x \in PageIds |->
                      IF x = p THEN Cleared
                      ELSE IF x = q THEN [pages[q] EXCEPT !.next = pages[p].next] ELSE pages[x]]
      /\ header' = [header EXCEPT !.first_used_page = firstUsed,
                                  !.first_free_page = p, !.num_free_pages = @ + 1]
      /\ exc' = "none" /\ exists' = exists /\ handles' = handles /\ held' = held
  BY DEF FreedAfter
<1>5. PICK g \in HeaderRecord : g = header
  BY DEF FileInv, Shape, HeaderRecord
<1>6. /\ header' \in HeaderRecord /\ header'.num_pages = header.num_pages
      /\ header'.num_free_pages = n + 1 /\ header'.first_free_page = p
  <2>1. PICK h : h = [g EXCEPT !.first_used_page = firstUsed,
                               !.first_free_page = p, !.num_free_pages = @ + 1]
    OBVIOUS
  <2>2. p \in Links /\ g.num_free_pages + 1 \in Nat
    BY <1>3, <1>5 DEF HeaderRecord, Links
  <2>3. h \in HeaderRecord
    BY <2>1, <2>2 DEF HeaderRecord
  <2>4. /\ h.num_pages = g.num_pages
        /\ h.num_free_pages = g.num_free_pages + 1 /\ h.first_free_page = p
    BY <2>1 DEF HeaderRecord
  <2> QED
    BY <1>2, <1>4, <1>5, <2>1, <2>3, <2>4
<1>7. PICK page \in PageRecord : page = Cleared /\ ~page.used
  <2>1. header.first_free_page \in Links
    BY DEF FileInv, Shape
  <2>2. Cleared \in PageRecord /\ ~Cleared.used
    BY <2>1, ContentsAssumption DEF Cleared, Initialized, PageRecord
  <2> QED
    BY <2>2
<1>8. page.data = Fresh /\ page.next = header.first_free_page
  BY <1>7 DEF Cleared, Initialized
<1>9. pages'[p] = page
  BY <1>3, <1>4, <1>7
<1>10. pages \in [PageIds -> PageRecord] /\ pages[p].next \in Links
  BY <1>3 DEF FileInv, Shape, PageRecord
<1>11. ASSUME NEW x \in PageIds \ {p}
       PROVE  /\ pages'[x] \in PageRecord
              /\ pages'[x].used = pages[x].used /\ pages'[x].data = pages[x].data
              /\ ~pages[x].used => pages'[x] = pages[x]
  <2>1. CASE x # q
    BY <1>4, <1>10, <2>1
  <2>2. CASE x = q
    <3>1. pages'[x] = [pages[x] EXCEPT !.next = pages[p].next]
      BY <1>4, <2>2
    <3>2. x \in UsedPages
      BY <2>2 DEF INVALID, PageIds
    <3>3. pages[x].used
      BY <3>2 DEF UsedPages
    <3>4. PICK r \in PageRecord : r = pages[x]
      BY <1>10
    <3>5. PICK l \in Links : l = pages[p].next
      BY <1>10
    <3>6. PICK e : e = pages'[x] /\ e = [r EXCEPT !.next = l]
      BY <3>1, <3>4, <3>5
    <3>7. e \in PageRecord /\ e.used = r.used /\ e.data = r.data
      BY <3>6, Relinked
    <3> QED
      BY <3>3, <3>4, <3>6, <3>7, Zenon
  <2> QED
    BY <2>1, <2>2
<1>12. Shape'
  <2>1. \A x \in PageIds : pages'[x] \in PageRecord
    BY <1>9, <1>11
  <2>2. pages' = [x \in PageIds |-> pages'[x]]
    BY <1>4
  <2>3. pages' \in [PageIds -> PageRecord]
    BY <2>1, <2>2
  <2>4. exists /\ exists' /\ exists' \in BOOLEAN
    BY <1>4, Zenon DEF FileInv, Shape
  <2> QED
    BY <1>4, <1>6, <2>3, <2>4 DEF FileInv, Shape, PageRecord, HeaderRecord
<1>13. exists /\ exists'
  BY <1>4, Zenon DEF FileInv, Shape
<1>14. \A x : x \in FreePages' <=> x \in FreePages \/ x = p
  <2>1. \A x : x \in FreePages' <=> x \in PageIds /\ x < header.num_pages /\ ~pages'[x].used
    BY <1>6, <1>12, FreeFactsNext
  <2> QED
    BY <1>3, <1>7, <1>9, <1>11, <2>1, FreeFacts DEF FileInv
<1>15. \A x : x \in UsedPages' <=> x \in UsedPages /\ x # p
  <2>1. \A x : x \in UsedPages' <=> x \in PageIds /\ x < header.num_pages /\ pages'[x].used
    BY <1>6, <1>12, FreeFactsNext
  <2> QED
    BY <1>7, <1>9, <1>11, <2>1, FreeFacts DEF FileInv
<1>16. FreePagesFresh'
  BY <1>8, <1>9, <1>11, <1>14, FreeFacts DEF FileInv, FreePagesFresh
<1>17. Enumerates([i \in 1 .. (n + 1) |-> IF i = 1 THEN p ELSE L[i - 1]])'
  <2> DEFINE M == [i \in 1 .. (n + 1) |-> IF i = 1 THEN p ELSE L[i - 1]]
  <2>1. /\ 1 \in 1 .. (n + 1) /\ M[1] = p
        /\ \A i \in 1 .. n : i + 1 \in 1 .. (n + 1) /\ M[i + 1] = L[i]
        /\ \A i \in 1 .. (n + 1) : i = 1 \/ (i - 1 \in 1 .. n /\ (i - 1) + 1 = i)
        /\ \A i \in 1 .. (n + 1) : i # 1 => M[i] = L[i - 1]
    BY <1>2
  <2>2. /\ L \in [1 .. n -> PageIds]
        /\ \A i, j \in 1 .. n : L[i] = L[j] => i = j
        /\ \A x \in PageIds : x \in FreePages <=> \E i \in 1 .. n : L[i] = x
        /\ header.first_free_page = Link(L, 1)
        /\ \A i \in 1 .. n : pages[L[i]].next = Link(L, i + 1)
    BY <1>1, <1>2 DEF Enumerates
  <2>3. p \notin FreePages
    BY <1>3, FreeFacts DEF FileInv
  <2>4. \A i \in 1 .. n : L[i] \in PageIds \ {p} /\ L[i] \in FreePages
    BY <2>2, <2>3
  <2>5. M \in [1 .. (n + 1) -> PageIds]
    BY <1>3, <2>1, <2>2
  <2>6. ASSUME NEW i \in 1 .. (n + 1), NEW j \in 1 .. (n + 1), M[i] = M[j] PROVE i = j
    <3>1. CASE i = 1
      BY <2>1, <2>4, <2>6, <3>1
    <3>2. CASE j = 1
      BY <2>1, <2>4, <2>6, <3>2
    <3>3. CASE i # 1 /\ j # 1
      <4>1. L[i - 1] = L[j - 1] /\ i - 1 \in 1 .. n /\ j - 1 \in 1 .. n
        BY <2>1, <2>6, <3>3
      <4>2. i - 1 = j - 1
        BY <2>2, <4>1
      <4> QED
        BY <4>2
    <3> QED
      BY <3>1, <3>2, <3>3
  <2>7. \A x \in PageIds : x \in FreePages' <=> \E i \in 1 .. (n + 1) : M[i] = x
    <3>1. ASSUME NEW i \in 1 .. (n + 1) PROVE M[i] \in FreePages'
      BY <1>14, <2>1, <2>4
    <3>2. ASSUME NEW x \in FreePages', x \in PageIds PROVE \E i \in 1 .. (n + 1) : M[i] = x
      <4>1. CASE x = p
        BY <2>1, <4>1
      <4>2. CASE x # p
        <5>1. PICK j \in 1 .. n : L[j] = x
          BY <1>14, <2>2, <3>2, <4>2
        <5> QED
          BY <2>1, <5>1
      <4> QED
        BY <4>1, <4>2
    <3> QED
      BY <3>1, <3>2
  <2>8. \A i \in 1 .. (n + 1) : Link(L, i) = Link(M, i + 1)
    <3>1. ASSUME NEW i \in 1 .. (n + 1) PROVE Link(L, i) = Link(M, i + 1)
      <4>1. DOMAIN M = 1 .. (n + 1) /\ DOMAIN L = 1 .. n
        BY <2>2
      <4>2. i \in 1 .. n <=> i + 1 \in 1 .. (n + 1)
        BY <1>2
      <4> QED
        BY <2>1, <4>1, <4>2 DEF Link
    <3> QED
      BY <3>1
  <2>9. header'.first_free_page = Link(M, 1)
    BY <1>6, <2>1 DEF Link
  <2>10. ASSUME NEW i \in 1 .. (n + 1) PROVE pages'[M[i]].next = Link(M, i + 1)
    <3>1. CASE i = 1
      <4>1. pages'[M[i]].next = Link(L, 1)
        BY <1>8, <1>9, <2>1, <2>2, <3>1
      <4> QED
        BY <2>1, <2>8, <3>1, <4>1
    <3>2. CASE i # 1
      <4>1. i - 1 \in 1 .. n /\ (i - 1) + 1 = i /\ M[i] = L[i - 1]
        BY <2>1, <3>2
      <4>2. M[i] \in PageIds \ {p} /\ ~pages[M[i]].used
        BY <2>4, <4>1, FreeFacts DEF FileInv
      <4>3. pages'[M[i]] = pages[L[i - 1]]
        BY <1>11, <4>1, <4>2
      <4>4. pages[L[i - 1]].next = Link(L, i)
        BY <2>2, <4>1
      <4> QED
        BY <2>8, <4>3, <4>4
    <3> QED
      BY <3>1, <3>2
  <2> HIDE DEF M
  <2>11. Enumerates(M)'
    BY <1>6, <2>5, <2>6, <2>7, <2>9, <2>10 DEF Enumerates, Link
  <2> QED
    BY <2>11 DEF M
<1>18. PSet!Delete(p)
  <2>1. content[p] = pages[p].data /\ content'[p] = Free
    BY <1>3, <1>13, <1>15, Mapping, MappingNext
  <2>2. content[p] # Free
    BY <1>3, <2>1, ContentsAssumption DEF FileInv, Shape
  <2>3. \A x \in PageIds \ {p} : content'[x] = content[x]
    BY <1>11, <1>13, <1>15, Mapping, MappingNext
  <2>4. content' = [content EXCEPT ![p] = Free]
    BY <2>1, <2>3, Mapping, MappingNext
  <2> QED
    BY <2>2, <2>4 DEF PSet!Delete
<1> QED
  BY <1>3, <1>12, <1>16, <1>17, <1>18 DEF FileInv

\* deletePage
LEMMA DeletePageStep ==
    ASSUME FileInv, NEW p \in PageIds, DeletePage(p)
    PROVE  FileInv' /\ [PSet!Next]_content
<1> DEFINE PointsToP == {q \in PageIds : pages[q].next = p}
<1>1. CASE Fails("InvalidPage")
  BY <1>1, FailsKeeps
<1>2. CASE WalkFails(PointsToP)
  BY <1>2, WalkFailsKeeps
<1>3. CASE /\ handles > 0 /\ Deletable(p)
           /\ \/ FreedAfter(p, INVALID, pages[p].next)
              \/ FreedAfter(p, INVALID, header.first_used_page)
              \/ \E q \in PageIds : /\ Finds(q, PointsToP)
                                    /\ FreedAfter(p, q, header.first_used_page)
  <2>1. p \in UsedPages
    BY <1>3, FreeFacts DEF Deletable, Readable, FileInv
  <2>2. PICK l : l = pages[p].next
    OBVIOUS
  <2>3. PICK f : f = header.first_used_page
    OBVIOUS
  <2>4. l \in Links /\ f \in Links
    BY <2>2, <2>3 DEF FileInv, Shape
  <2>5. PICK q \in UsedPages \cup {INVALID}, k \in Links : FreedAfter(p, q, k)
    <3>1. CASE FreedAfter(p, INVALID, l) \/ FreedAfter(p, INVALID, f)
      BY <2>4, <3>1
    <3>2. CASE \E q \in PageIds : Finds(q, PointsToP) /\ FreedAfter(p, q, f)
      <4>1. PICK q \in PageIds : Finds(q, PointsToP) /\ FreedAfter(p, q, f)
        BY <3>2
      <4>2. q \in UsedPages \cup {INVALID}
        BY <4>1, FoundIsUsed DEF FileInv
      <4> QED
        BY <2>4, <4>1, <4>2
    <3> QED
      BY <1>3, <2>2, <2>3, <3>1, <3>2
  <2>6. FileInv' /\ p \in PageIds /\ PSet!Delete(p)
    BY <1>3, <2>1, <2>5, FreeKeeps
  <2> QED
    BY <2>6 DEF PSet!Next
<1> QED
  BY <1>1, <1>2, <1>3 DEF DeletePage

-----------------------------------------------------------------------------
\* No file yet: no pages and no free list.
LEMMA InitFile ==
    ASSUME Init
    PROVE  FileInv /\ PSet!Init
<1>1. header.num_pages = 1 /\ header.num_free_pages = 0 /\ header.first_free_page = INVALID
  BY DEF Init, NewHeader
<1>2. Shape
  <2>1. header \in [num_pages : 1 .. (MaxPages + 1), first_used_page : Links,
                    num_free_pages : Nat, first_free_page : Links]
    BY PagesAssumption DEF Init, NewHeader, Links
  <2>2. pages \in [PageIds -> [used : BOOLEAN, next : Links, data : Contents]]
    BY ContentsAssumption DEF Init, Initialized, Links
  <2>3. exists \in BOOLEAN
    BY Zenon DEF Init
  <2>4. handles \in 0 .. MaxHandles /\ ~(handles > 0)
    BY PagesAssumption DEF Init
  <2> QED
    BY <2>1, <2>2, <2>3, <2>4 DEF Init, Shape
<1>3. FreePages = {} /\ UsedPages = {}
  BY <1>1 DEF FreePages, UsedPages, Allocated
<1>4. Enumerates([i \in 1 .. 0 |-> INVALID])
  BY <1>1, <1>3 DEF Enumerates, Link
<1>5. content = [p \in PageIds |-> Free]
  BY <1>3, Mapping
<1> QED
  BY <1>2, <1>3, <1>4, <1>5 DEF FileInv, FreePagesFresh, PSet!Init

\* Every call keeps FileInv and is a step of PageSet or a stuttering one.
LEMMA NextStep ==
    ASSUME FileInv, [Next]_vars
    PROVE  FileInv' /\ [PSet!Next]_content
<1>1. CASE UNCHANGED vars
  BY <1>1, SameFile DEF vars, FileInv, Shape
<1>2. CASE Next
  BY <1>2, CreateStep, OpenCloseStep, RemoveStep, AllocatePageStep, ReadPageStep,
     WritePageStep, DeletePageStep DEF Next
<1> QED
  BY <1>1, <1>2

\* FileInv holds of every file.
LEMMA FileInvariance == Spec => []FileInv
<1>1. Init => FileInv
  BY InitFile
<1>2. FileInv /\ [Next]_vars => FileInv'
  BY NextStep
<1> QED
  BY <1>1, <1>2, PTL DEF Spec

\* Every file implements the set of pages that file.h promises: a new page
\* never takes the number of a page in use, a call changes no other page than
\* the one it is about, and a late writePage brings no deleted page back.
THEOREM FileImplements == Spec => RefinesPageSet
<1>1. Init => PSet!Init
  BY InitFile
<1>2. FileInv /\ [Next]_vars => [PSet!Next]_content
  BY NextStep
<1> QED
  BY <1>1, <1>2, FileInvariance, PTL DEF Spec, RefinesPageSet, PSet!Spec

-----------------------------------------------------------------------------
\* An enumeration of the free list is a bijection to the deleted pages.
LEMMA FreeListLength ==
    ASSUME FileInv, NEW L, Enumerates(L)
    PROVE  /\ header.num_free_pages = Cardinality(FreePages)
           /\ header.num_free_pages \in 0 .. MaxPages
<1>1. PICK n \in Nat : n = header.num_free_pages
  BY DEF FileInv, Shape
<1>2. /\ L \in [1 .. n -> PageIds]
      /\ \A i, j \in 1 .. n : L[i] = L[j] => i = j
      /\ \A p \in PageIds : p \in FreePages <=> \E i \in 1 .. n : L[i] = p
  BY <1>1 DEF Enumerates
<1>3. IsFiniteSet(1 .. n) /\ Cardinality(1 .. n) = n
  BY FS_Interval
<1>4. PICK S : S = FreePages
  OBVIOUS
<1>5. S \subseteq PageIds
  BY <1>4, FreeFacts DEF FileInv
<1>6. L \in Bijection(1 .. n, S)
  <2>1. L \in [1 .. n -> S]
    BY <1>2, <1>4
  <2>2. \A x \in S : \E i \in 1 .. n : L[i] = x
    BY <1>2, <1>4, <1>5
  <2> QED
    BY <1>2, <2>1, <2>2 DEF Bijection, Injection, Surjection, IsInjective
<1>7. Cardinality(S) = n
  BY <1>3, <1>6, FS_Bijection DEF ExistsBijection
<1>8. IsFiniteSet(PageIds) /\ Cardinality(PageIds) = MaxPages
  BY FS_Interval, PagesAssumption DEF PageIds
<1>9. Cardinality(S) <= MaxPages
  BY <1>5, <1>8, FS_Subset
<1> QED
  BY <1>1, <1>4, <1>7, <1>9, PagesAssumption

\* The type invariant of a page file.
THEOREM FileTypeOK == Spec => []TypeOK
<1>1. FileInv => TypeOK
  <2>1. SUFFICES ASSUME FileInv PROVE TypeOK
    OBVIOUS
  <2>2. header.num_free_pages \in 0 .. MaxPages
    BY <2>1, FreeListLength DEF FileInv
  <2>3. PICK g \in HeaderRecord : g = header
    BY <2>1 DEF FileInv, Shape, HeaderRecord
  <2>4. g \in [num_pages : 1 .. (MaxPages + 1), first_used_page : Links,
               num_free_pages : 0 .. MaxPages, first_free_page : Links]
    BY <2>2, <2>3 DEF HeaderRecord
  <2> QED
    BY <2>1, <2>3, <2>4 DEF FileInv, Shape, TypeOK
<1> QED
  BY <1>1, FileInvariance, PTL

\* Following next_page_number from page first can go one way only.
LEMMA ListIs ==
    ASSUME Shape, NEW first \in Links, NEW F \in [0 .. MaxPages -> Links], F[0] = first,
           \A n \in 1 .. MaxPages :
                F[n] = IF F[n - 1] = INVALID THEN INVALID ELSE pages[F[n - 1]].next
    PROVE  ListFrom(first) = F
<1> DEFINE Step(g) == [n \in 0 .. MaxPages |->
                         IF n = 0 THEN first
                         ELSE IF g[n - 1] = INVALID THEN INVALID ELSE pages[g[n - 1]].next]
<1>1. ListFrom(first) = CHOOSE g : g = Step(g)
  BY DEF ListFrom
<1>2. F = Step(F)
  <2>1. \A n \in 0 .. MaxPages : F[n] = Step(F)[n]
    <3>1. ASSUME NEW n \in 0 .. MaxPages PROVE F[n] = Step(F)[n]
      <4>1. CASE n = 0
        BY <4>1
      <4>2. CASE n # 0
        <5>1. n \in 1 .. MaxPages
          BY <4>2
        <5> QED
          BY <4>2, <5>1
      <4> QED
        BY <4>1, <4>2
    <3> QED
      BY <3>1
  <2> QED
    BY <2>1
<1>3. ASSUME NEW g, g = Step(g) PROVE g = F
  <2> DEFINE Differ == {n \in 0 .. MaxPages : g[n] # F[n]}
  <2>1. CASE Differ = {}
    <3>1. \A n \in 0 .. MaxPages : g[n] = F[n]
      BY <2>1
    <3>2. g = [n \in 0 .. MaxPages |-> g[n]]
      BY <1>3
    <3> QED
      BY <3>1, <3>2
  <2>2. ASSUME Differ # {} PROVE FALSE
    <3>1. Differ \subseteq Nat
      OBVIOUS
    <3>2. PICK m \in Differ : \A n \in Differ : m <= n
      BY <2>2, <3>1, LeastElement
    <3>3. m \in 0 .. MaxPages /\ g[m] # F[m]
      BY <3>2
    <3>4. m # 0
      BY <1>3, <3>3
    <3>5. m \in 1 .. MaxPages /\ m - 1 \in 0 .. MaxPages /\ ~(m <= m - 1)
      BY <3>3, <3>4, PagesAssumption
    <3>6. g[m - 1] = F[m - 1]
      BY <3>2, <3>5
    <3>7. g[m] = IF g[m - 1] = INVALID THEN INVALID ELSE pages[g[m - 1]].next
      BY <1>3, <3>3, <3>4
    <3> QED
      BY <3>3, <3>5, <3>6, <3>7
  <2> QED
    BY <2>1, <2>2
<1> HIDE DEF Step
<1> QED
  BY <1>1, <1>2, <1>3

\* The free list holds every deleted page once and num_free_pages counts them,
\* whatever has become of the used list: no deleted page is lost or handed out
\* twice.
THEOREM FreeListIsExact == Spec => []FreeListExact
<1>1. ASSUME FileInv PROVE FreeListExact
  <2>1. PICK L : Enumerates(L)
    BY <1>1 DEF FileInv
  <2>2. PICK n \in 0 .. MaxPages : n = header.num_free_pages /\ n = Cardinality(FreePages)
    BY <1>1, <2>1, FreeListLength
  <2>3. PICK first \in Links : first = header.first_free_page
    BY <1>1 DEF FileInv, Shape
  <2>4. /\ L \in [1 .. n -> PageIds]
        /\ \A p \in PageIds : p \in FreePages <=> \E i \in 1 .. n : L[i] = p
        /\ first = Link(L, 1)
        /\ \A i \in 1 .. n : pages[L[i]].next = Link(L, i + 1)
    BY <2>1, <2>2, <2>3 DEF Enumerates
  <2> DEFINE F == [m \in 0 .. MaxPages |-> Link(L, m + 1)]
  <2>5. \A i \in Nat : /\ i \in 1 .. n => Link(L, i) = L[i] /\ Link(L, i) \in PageIds
                       /\ i \notin 1 .. n => Link(L, i) = INVALID
    BY <2>4 DEF Link
  <2>6. F \in [0 .. MaxPages -> Links]
    <3>1. ASSUME NEW m \in 0 .. MaxPages PROVE Link(L, m + 1) \in Links
      BY <2>5 DEF Links
    <3> QED
      BY <3>1
  <2>7. F[0] = first
    BY <2>4, PagesAssumption
  <2>8. ASSUME NEW m \in 1 .. MaxPages
        PROVE  F[m] = IF F[m - 1] = INVALID THEN INVALID ELSE pages[F[m - 1]].next
    <3>1. F[m] = Link(L, m + 1) /\ F[m - 1] = Link(L, m)
      <4>1. m \in 0 .. MaxPages /\ m - 1 \in 0 .. MaxPages /\ (m - 1) + 1 = m
        BY <2>8, PagesAssumption
      <4> QED
        BY <4>1
    <3>2. CASE m \in 1 .. n
      <4>1. F[m - 1] = L[m] /\ F[m - 1] # INVALID
        BY <2>5, <3>1, <3>2 DEF PageIds, INVALID
      <4> QED
        BY <2>4, <3>1, <3>2, <4>1
    <3>3. CASE m \notin 1 .. n
      <4>1. m + 1 \notin 1 .. n /\ m \in Nat /\ m + 1 \in Nat
        BY <3>3
      <4> QED
        BY <2>5, <3>1, <3>3, <4>1
    <3> QED
      BY <3>2, <3>3
  <2> HIDE DEF F
  <2>9. ListFrom(first) = F
    BY <1>1, <2>6, <2>7, <2>8, ListIs DEF FileInv
  <2> USE DEF F
  <2>10. F[n] = INVALID
    <3>1. n + 1 \in Nat /\ n + 1 \notin 1 .. n
      BY <2>2
    <3> QED
      BY <2>5, <3>1
  <2>11. {F[m] : m \in 0 .. (n - 1)} = FreePages
    <3>1. ASSUME NEW m \in 0 .. (n - 1) PROVE F[m] \in FreePages
      <4>1. m \in 0 .. MaxPages /\ m + 1 \in 1 .. n /\ m + 1 \in Nat
        BY <2>2, PagesAssumption
      <4>2. F[m] = L[m + 1] /\ F[m] \in PageIds
        BY <2>5, <4>1
      <4> QED
        BY <2>4, <4>1, <4>2
    <3>2. ASSUME NEW p \in FreePages PROVE \E m \in 0 .. (n - 1) : F[m] = p
      <4>1. p \in PageIds
        BY <1>1, FreeFacts DEF FileInv
      <4>2. PICK i \in 1 .. n : L[i] = p
        BY <2>4, <4>1
      <4>3. /\ i - 1 \in 0 .. (n - 1) /\ i - 1 \in 0 .. MaxPages
            /\ (i - 1) + 1 = i /\ i \in Nat
        BY <2>2, PagesAssumption
      <4>4. F[i - 1] = L[i]
        BY <2>5, <4>3
      <4> QED
        BY <4>2, <4>3, <4>4
    <3> QED
      BY <3>1, <3>2
  <2> HIDE DEF F
  <2> QED
    BY <2>2, <2>3, <2>9, <2>10, <2>11 DEF FreeListExact, ListsExactly
<1>2. FileInv => FreeListExact
  BY <1>1
<1> QED
  BY <1>2, FileInvariance, PTL

-----------------------------------------------------------------------------
(***************************************************************************)
(* The used list.                                                          *)
(***************************************************************************)
\* Following next_page_number from page first for n pages gives the list at.
Follows(at, n, first) ==
    /\ at \in [0 .. n -> Links]
    /\ at[0] = first
    /\ \A m \in 1 .. n : at[m] = IF at[m - 1] = INVALID THEN INVALID ELSE pages[at[m - 1]].next

\* A list can be followed as far as one likes.
LEMMA SomeList ==
    ASSUME Shape, NEW first \in Links, NEW n \in Nat
    PROVE  \E at : Follows(at, n, first)
<1> DEFINE Stuck == {m \in Nat : ~\E at : Follows(at, m, first)}
<1>1. ASSUME n \in Stuck PROVE FALSE
  <2>1. Stuck \subseteq Nat /\ Stuck # {}
    BY <1>1
  <2> HIDE DEF Stuck
  <2>2. PICK m \in Stuck : \A t \in Stuck : m <= t
    BY <2>1, LeastElement
  <2>3. m \in Nat /\ ~\E at : Follows(at, m, first)
    BY <2>2 DEF Stuck
  <2>4. m # 0
    <3>1. Follows([i \in 0 .. 0 |-> first], 0, first)
      BY DEF Follows
    <3> QED
      BY <2>3, <3>1
  <2>5. m - 1 \in Nat /\ ~(m <= m - 1)
    BY <2>3, <2>4
  <2>6. m - 1 \notin Stuck
    BY <2>2, <2>5
  <2>7. PICK at : Follows(at, m - 1, first)
    BY <2>5, <2>6 DEF Stuck
  <2>8. PICK l : l = IF at[m - 1] = INVALID THEN INVALID ELSE pages[at[m - 1]].next
    OBVIOUS
  <2>9. l \in Links
    <3>1. at[m - 1] \in Links
      BY <2>5, <2>7 DEF Follows
    <3>2. CASE at[m - 1] = INVALID
      BY <2>8, <3>2 DEF Links
    <3>3. CASE at[m - 1] # INVALID
      BY <2>8, <3>1, <3>3 DEF Links, Shape
    <3> QED
      BY <3>2, <3>3
  <2>10. PICK new : new = [i \in 0 .. m |-> IF i = m THEN l ELSE at[i]]
    OBVIOUS
  <2>11. /\ \A i \in 0 .. m : i = m \/ i \in 0 .. (m - 1)
         /\ \A i \in 0 .. (m - 1) : i \in 0 .. m /\ i # m
         /\ 0 \in 0 .. (m - 1) /\ m - 1 \in 0 .. (m - 1) /\ m \in 0 .. m
    BY <2>3, <2>4
  <2>12. new[m] = l /\ \A i \in 0 .. (m - 1) : new[i] = at[i]
    BY <2>10, <2>11
  <2>13. new \in [0 .. m -> Links]
    <3>1. ASSUME NEW i \in 0 .. m PROVE new[i] \in Links
      BY <2>7, <2>9, <2>11, <2>12 DEF Follows
    <3> QED
      BY <2>10, <3>1
  <2>14. new[0] = first
    BY <2>7, <2>11, <2>12 DEF Follows
  <2>15. ASSUME NEW i \in 1 .. m
         PROVE  new[i] = IF new[i - 1] = INVALID THEN INVALID ELSE pages[new[i - 1]].next
    <3>1. CASE i = m
      BY <2>8, <2>11, <2>12, <3>1
    <3>2. CASE i # m
      <4>1. i \in 1 .. (m - 1) /\ i \in 0 .. (m - 1) /\ i - 1 \in 0 .. (m - 1)
        BY <2>3, <3>2
      <4>2. at[i] = IF at[i - 1] = INVALID THEN INVALID ELSE pages[at[i - 1]].next
        BY <2>7, <4>1 DEF Follows
      <4> QED
        BY <2>12, <4>1, <4>2
    <3> QED
      BY <3>1, <3>2
  <2>16. Follows(new, m, first)
    BY <2>13, <2>14, <2>15 DEF Follows
  <2> QED
    BY <2>3, <2>16
<1> QED
  BY <1>1

\* The list that ListFrom follows.
LEMMA ListFollows ==
    ASSUME Shape, NEW first \in Links
    PROVE  Follows(ListFrom(first), MaxPages, first)
<1>1. PICK at : Follows(at, MaxPages, first)
  BY SomeList, PagesAssumption
<1>2. ListFrom(first) = at
  BY <1>1, ListIs DEF Follows
<1> QED
  BY <1>1, <1>2

\* U holds the k pages of S once each, in the order in which a list that starts
\* at first meets them.  What comes after the last of them is left open: it may
\* be a deleted page, or one of U again.
Chained(U, k, S, first, next) ==
    /\ k \in Nat /\ U \in [1 .. k -> PageIds]
    /\ \A i, j \in 1 .. k : U[i] = U[j] => i = j
    /\ \A p : p \in S <=> \E i \in 1 .. k : U[i] = p
    /\ k > 0 => first = U[1]
    /\ \A i \in 1 .. (k - 1) : next[U[i]] = U[i + 1]

\* Nothing comes after the last one, and the numbers increase.
Ends(U, k, first, next) ==
    /\ (IF k = 0 THEN first ELSE next[U[k]]) = INVALID
    /\ \A i \in 1 .. (k - 1) : U[i] < U[i + 1]

NextPages == [p \in PageIds |-> pages[p].next]

\* The used list has met the pages of U in this state.
UsedChain(U, k) == Chained(U, k, UsedPages, header.first_used_page, NextPages)
UsedEnds(U, k) == Ends(U, k, header.first_used_page, NextPages)

ListInv == FileInv /\ \E U, k : UsedChain(U, k)

\* The parts of UsedChain, over the state.
LEMMA ChainFacts ==
    ASSUME NEW U, NEW k, UsedChain(U, k)
    PROVE  /\ k \in Nat /\ U \in [1 .. k -> PageIds]
           /\ \A i, j \in 1 .. k : U[i] = U[j] => i = j
           /\ \A p : p \in UsedPages <=> \E i \in 1 .. k : U[i] = p
           /\ k > 0 => header.first_used_page = U[1]
           /\ \A i \in 1 .. (k - 1) : pages[U[i]].next = U[i + 1]
<1>1. k \in Nat /\ U \in [1 .. k -> PageIds]
  BY DEF UsedChain, Chained
<1>2. ASSUME NEW i \in 1 .. (k - 1) PROVE pages[U[i]].next = U[i + 1]
  <2>1. i \in 1 .. k
    BY <1>1
  <2>2. U[i] \in PageIds
    BY <1>1, <2>1
  <2> QED
    BY <2>2 DEF UsedChain, Chained, NextPages
<1> QED
  BY <1>1, <1>2 DEF UsedChain, Chained

\* There are no more pages in use than pages.
LEMMA ChainLength ==
    ASSUME Shape, NEW U, NEW k, UsedChain(U, k)
    PROVE  k = Cardinality(UsedPages) /\ k \in 0 .. MaxPages
<1>1. /\ k \in Nat /\ U \in [1 .. k -> PageIds]
      /\ \A i, j \in 1 .. k : U[i] = U[j] => i = j
      /\ \A p : p \in UsedPages <=> \E i \in 1 .. k : U[i] = p
  BY DEF UsedChain, Chained
<1>2. IsFiniteSet(1 .. k) /\ Cardinality(1 .. k) = k
  BY <1>1, FS_Interval
<1>3. PICK S : S = UsedPages
  OBVIOUS
<1>4. S \subseteq PageIds
  BY <1>1, <1>3
<1>5. U \in Bijection(1 .. k, S)
  <2>1. U \in [1 .. k -> S]
    BY <1>1, <1>3
  <2>2. \A x \in S : \E i \in 1 .. k : U[i] = x
    BY <1>1, <1>3
  <2> QED
    BY <1>1, <2>1, <2>2 DEF Bijection, Injection, Surjection, IsInjective
<1>6. Cardinality(S) = k
  BY <1>2, <1>5, FS_Bijection DEF ExistsBijection
<1>7. IsFiniteSet(PageIds) /\ Cardinality(PageIds) = MaxPages
  BY FS_Interval, PagesAssumption DEF PageIds
<1>8. Cardinality(S) <= MaxPages
  BY <1>4, <1>7, FS_Subset
<1> QED
  BY <1>1, <1>3, <1>6, <1>8, PagesAssumption

\* An iterator meets the pages of the chain one by one, and then what comes
\* after the last.
LEMMA IteratorMeets ==
    ASSUME Shape, NEW U, NEW k, UsedChain(U, k)
    PROVE  /\ \A n \in 0 .. (k - 1) : Visited[n] = U[n + 1]
           /\ Visited[k] = IF k = 0 THEN header.first_used_page ELSE pages[U[k]].next
<1> DEFINE Astray == {n \in 0 .. (k - 1) : Visited[n] # U[n + 1]}
<1>1. k \in 0 .. MaxPages
  BY ChainLength
<1>2. PICK first \in Links : first = header.first_used_page
  BY DEF Shape
<1>3. PICK at : at = Visited
  OBVIOUS
<1>4. Follows(at, MaxPages, first)
  BY <1>2, <1>3, ListFollows DEF Visited
<1>5. /\ at[0] = first
      /\ \A m \in 1 .. MaxPages :
            at[m] = IF at[m - 1] = INVALID THEN INVALID ELSE pages[at[m - 1]].next
  BY <1>4 DEF Follows
<1>6. /\ U \in [1 .. k -> PageIds] /\ (k > 0 => first = U[1])
      /\ \A i \in 1 .. (k - 1) : pages[U[i]].next = U[i + 1]
  BY <1>2, ChainFacts
<1>7. ASSUME NEW i \in 1 .. k, at[i - 1] = U[i] PROVE at[i] = pages[U[i]].next
  <2>1. i \in 1 .. MaxPages
    BY <1>1, PagesAssumption
  <2>2. U[i] # INVALID
    BY <1>6 DEF PageIds, INVALID
  <2> QED
    BY <1>5, <1>7, <2>1, <2>2
<1>8. ASSUME Astray # {} PROVE FALSE
  <2>1. Astray \subseteq Nat
    BY <1>1
  <2> HIDE DEF Astray
  <2>2. PICK m \in Astray : \A t \in Astray : m <= t
    BY <1>8, <2>1, LeastElement
  <2>3. m \in 0 .. (k - 1) /\ at[m] # U[m + 1]
    BY <2>2, <1>3 DEF Astray
  <2>4. CASE m = 0
    BY <2>3, <2>4, <1>1, <1>5, <1>6
  <2>5. CASE m # 0
    <3>1. m - 1 \in 0 .. (k - 1) /\ ~(m <= m - 1) /\ (m - 1) + 1 = m /\ m \in 1 .. (k - 1) /\ m \in 1 .. k
      BY <2>3, <2>5, <1>1
    <3>2. at[m - 1] = U[m]
      BY <2>2, <3>1, <1>3 DEF Astray
    <3>3. at[m] = pages[U[m]].next
      BY <3>1, <3>2, <1>7
    <3>4. pages[U[m]].next = U[m + 1]
      BY <3>1, <1>6
    <3> QED
      BY <2>3, <3>3, <3>4
  <2> QED
    BY <2>4, <2>5
<1>9. \A n \in 0 .. (k - 1) : at[n] = U[n + 1]
  BY <1>8, <1>3
<1>10. at[k] = IF k = 0 THEN first ELSE pages[U[k]].next
  <2>1. CASE k = 0
    BY <2>1, <1>5
  <2>2. CASE k # 0
    <3>1. k \in 1 .. k /\ k - 1 \in 0 .. (k - 1) /\ (k - 1) + 1 = k
      BY <2>2, <1>1
    <3>2. at[k - 1] = U[k]
      BY <3>1, <1>9
    <3> QED
      BY <2>2, <3>1, <3>2, <1>7
  <2> QED
    BY <2>1, <2>2
<1> QED
  BY <1>2, <1>3, <1>9, <1>10

\* The pages of the chain are pages in use.
LEMMA ChainIsUsed ==
    ASSUME Shape, NEW U, NEW k, UsedChain(U, k), NEW i \in 1 .. k
    PROVE  U[i] \in PageIds /\ U[i] \in UsedPages /\ U[i] # INVALID /\ Readable(U[i])
<1>1. U[i] \in PageIds /\ U[i] \in UsedPages
  BY ChainFacts
<1> QED
  BY <1>1, FreeFacts DEF Readable, PageIds, INVALID

\* A search finds the first page of the chain it looks for.
LEMMA FoundOnChain ==
    ASSUME Shape, NEW U, NEW k, UsedChain(U, k), NEW S, NEW q \in PageIds, Finds(q, S)
    PROVE  \E i \in 1 .. k : U[i] = q /\ q \in S /\ \A j \in 1 .. (i - 1) : U[j] \notin S
<1>1. /\ k \in Nat /\ U \in [1 .. k -> PageIds]
      /\ \A i, j \in 1 .. k : U[i] = U[j] => i = j
      /\ \A p : p \in UsedPages <=> \E i \in 1 .. k : U[i] = p
  BY ChainFacts
<1>2. PICK i \in 1 .. k : U[i] = q
  BY <1>1, FoundIsUsed
<1>3. q \in S
  BY DEF Finds
<1>4. PICK n \in 0 .. MaxPages : Reaches(n, S) /\ Visited[n] = q
  BY DEF Finds
<1>5. \A m \in 0 .. (k - 1) : Visited[m] = U[m + 1]
  BY IteratorMeets
<1>6. ASSUME NEW j \in 1 .. k, j <= n PROVE U[j] \notin S
  <2>1. j - 1 \in 0 .. (n - 1) /\ j - 1 \in 0 .. (k - 1) /\ (j - 1) + 1 = j
    BY <1>1, <1>6
  <2>2. Visited[j - 1] \notin S
    BY <1>4, <2>1 DEF Reaches
  <2> QED
    BY <1>5, <2>1, <2>2
<1>7. n < i
  BY <1>2, <1>3, <1>6
<1>8. n \in 0 .. (k - 1) /\ n + 1 \in 1 .. k
  BY <1>1, <1>7
<1>9. U[n + 1] = U[i]
  BY <1>2, <1>4, <1>5, <1>8
<1>10. n + 1 = i
  BY <1>1, <1>8, <1>9
<1>11. \A j \in 1 .. (i - 1) : j \in 1 .. k /\ j <= n
  BY <1>1, <1>10
<1> QED
  BY <1>2, <1>3, <1>6, <1>11

\* A search that gets to the end of the list has passed the whole chain.
LEMMA EndBehindChain ==
    ASSUME Shape, NEW U, NEW k, UsedChain(U, k), NEW S, ReachesEnd(S)
    PROVE  \A j \in 1 .. k : U[j] \notin S
<1>1. PICK n \in 0 .. MaxPages : Reaches(n, S) /\ Visited[n] = INVALID
  BY DEF ReachesEnd
<1>2. k \in Nat /\ \A m \in 0 .. (k - 1) : Visited[m] = U[m + 1]
  BY ChainFacts, IteratorMeets
<1>3. ASSUME n \in 0 .. (k - 1) PROVE FALSE
  <2>1. n + 1 \in 1 .. k
    BY <1>2, <1>3
  <2> QED
    BY <1>1, <1>2, <1>3, <2>1, ChainIsUsed
<1>4. ASSUME NEW j \in 1 .. k PROVE U[j] \notin S
  <2>1. j - 1 \in 0 .. (n - 1) /\ j - 1 \in 0 .. (k - 1) /\ (j - 1) + 1 = j
    BY <1>2, <1>3
  <2>2. Visited[j - 1] \notin S
    BY <1>1, <2>1 DEF Reaches
  <2> QED
    BY <1>2, <2>1, <2>2
<1> QED
  BY <1>4

\* A search that gets to the end of the list has passed a page that is the last
\* one.
LEMMA EndIsLast ==
    ASSUME Shape, NEW S, header.first_used_page # INVALID, ReachesEnd(S)
    PROVE  \E q \in PageIds : pages[q].next = INVALID /\ q \notin S
<1>1. PICK n \in 0 .. MaxPages : Reaches(n, S) /\ Visited[n] = INVALID
  BY DEF ReachesEnd
<1>2. PICK first \in Links : first = header.first_used_page /\ first # INVALID
  BY DEF Shape
<1>3. PICK at : at = Visited
  OBVIOUS
<1>4. Follows(at, MaxPages, first)
  BY <1>2, <1>3, ListFollows DEF Visited
<1>5. n # 0
  BY <1>1, <1>2, <1>3, <1>4 DEF Follows
<1>6. n \in 1 .. MaxPages /\ n - 1 \in 0 .. (n - 1) /\ n - 1 \in 0 .. MaxPages
  BY <1>5, PagesAssumption
<1>7. at[n] = IF at[n - 1] = INVALID THEN INVALID ELSE pages[at[n - 1]].next
  BY <1>4, <1>6 DEF Follows
<1>8. at[n - 1] # INVALID /\ at[n - 1] \notin S
  BY <1>1, <1>3, <1>6 DEF Reaches
<1>9. at[n - 1] \in PageIds
  BY <1>4, <1>6, <1>8 DEF Follows, Links
<1> QED
  BY <1>1, <1>3, <1>7, <1>8, <1>9

\* If the list ends with the chain, a search neither throws nor runs for ever.
LEMMA EndedSearch ==
    ASSUME Shape, NEW U, NEW k, UsedChain(U, k), UsedEnds(U, k), NEW S
    PROVE  ~Throws(S) /\ ~Loops(S)
<1>1. /\ k \in 0 .. MaxPages
      /\ \A m \in 0 .. (k - 1) : Visited[m] = U[m + 1]
  BY ChainLength, IteratorMeets
<1>2. Visited[k] = INVALID
  <2>1. CASE k = 0
    BY <2>1, IteratorMeets DEF UsedEnds, Ends
  <2>2. CASE k # 0
    <3>1. k \in 1 .. k
      BY <1>1, <2>2
    <3>2. U[k] \in PageIds
      BY <3>1, ChainIsUsed
    <3>3. Visited[k] = pages[U[k]].next
      BY <2>2, IteratorMeets
    <3> QED
      BY <2>2, <3>2, <3>3 DEF UsedEnds, Ends, NextPages
  <2> QED
    BY <2>1, <2>2
<1>3. ASSUME Throws(S) PROVE FALSE
  <2>1. PICK n \in 0 .. MaxPages :
            Reaches(n, S) /\ Visited[n] # INVALID /\ ~Readable(Visited[n])
    BY <1>3 DEF Throws
  <2>2. CASE n \in 0 .. (k - 1)
    <3>1. n + 1 \in 1 .. k
      BY <1>1, <2>2
    <3> QED
      BY <1>1, <2>1, <2>2, <3>1, ChainIsUsed
  <2>3. CASE n = k
    BY <1>2, <2>1, <2>3
  <2>4. CASE k \in 0 .. (n - 1)
    BY <1>2, <2>1, <2>4 DEF Reaches
  <2> QED
    BY <1>1, <2>2, <2>3, <2>4
<1>4. ASSUME Loops(S) PROVE FALSE
  <2>1. k \in 0 .. ((MaxPages + 1) - 1)
    BY <1>1, PagesAssumption
  <2> QED
    BY <1>2, <1>4, <2>1 DEF Loops, Reaches
<1> QED
  BY <1>3, <1>4

\* An iterator gets to every page of the chain, and to none before it.
LEMMA ChainReachable ==
    ASSUME Shape, NEW U, NEW k, UsedChain(U, k)
    PROVE  UsedPagesReachable
<1>1. /\ k \in 0 .. MaxPages /\ U \in [1 .. k -> PageIds]
      /\ \A i, j \in 1 .. k : U[i] = U[j] => i = j
      /\ \A p : p \in UsedPages <=> \E i \in 1 .. k : U[i] = p
      /\ k > 0 => header.first_used_page = U[1]
  BY ChainLength, ChainFacts
<1>2. \A m \in 0 .. (k - 1) : Visited[m] = U[m + 1]
  BY IteratorMeets
<1>3. ASSUME NEW p \in UsedPages, header.first_used_page # p
      PROVE  \E n \in 1 .. MaxPages : Visited[n] = p /\ Reaches(n, {p})
  <2>1. PICK i \in 1 .. k : U[i] = p
    BY <1>1
  <2>2. i # 1
    BY <1>1, <1>3, <2>1
  <2>3. PICK n \in Nat : n + 1 = i /\ n = i - 1
    BY <1>1, <2>1
  <2>4. n \in 1 .. MaxPages /\ n \in 0 .. (k - 1)
    BY <1>1, <2>2, <2>3, PagesAssumption
  <2>5. Visited[n] = p
    BY <1>2, <2>1, <2>3, <2>4
  <2>6. ASSUME NEW m \in 0 .. (n - 1)
        PROVE  Visited[m] # INVALID /\ Readable(Visited[m]) /\ Visited[m] \notin {p}
    <3>1. m \in 0 .. (k - 1) /\ m + 1 \in 1 .. k /\ m + 1 # i
      BY <1>1, <2>3, <2>4
    <3>2. Visited[m] = U[m + 1] /\ U[m + 1] # p
      BY <1>1, <1>2, <2>1, <3>1
    <3> QED
      BY <3>1, <3>2, ChainIsUsed
  <2> QED
    BY <2>4, <2>5, <2>6 DEF Reaches
<1> QED
  BY <1>3 DEF UsedPagesReachable

\* UsedListExact says that the list ends with the chain, in order.
LEMMA ExactIsEnded ==
    ASSUME Shape, NEW U, NEW k, UsedChain(U, k)
    PROVE  UsedListExact <=> UsedEnds(U, k)
<1>1. /\ k \in 0 .. MaxPages /\ k = Cardinality(UsedPages) /\ U \in [1 .. k -> PageIds]
      /\ \A p : p \in UsedPages <=> \E i \in 1 .. k : U[i] = p
      /\ \A i \in 1 .. (k - 1) : pages[U[i]].next = U[i + 1]
  BY ChainLength, ChainFacts
<1>2. /\ \A m \in 0 .. (k - 1) : Visited[m] = U[m + 1]
      /\ Visited[k] = IF k = 0 THEN header.first_used_page ELSE pages[U[k]].next
  BY IteratorMeets
<1>3. UsedEnds(U, k) <=> /\ Visited[k] = INVALID
                         /\ \A i \in 1 .. (k - 1) : U[i] < U[i + 1]
  <2>1. CASE k = 0
    BY <1>2, <2>1 DEF UsedEnds, Ends
  <2>2. CASE k # 0
    <3>1. k \in 1 .. k
      BY <1>1, <2>2
    <3>2. U[k] \in PageIds
      BY <1>1, <3>1
    <3> QED
      BY <1>2, <2>2, <3>2 DEF UsedEnds, Ends, NextPages
  <2> QED
    BY <2>1, <2>2
<1>4. {Visited[m] : m \in 0 .. (k - 1)} = UsedPages
  <2>1. ASSUME NEW m \in 0 .. (k - 1) PROVE Visited[m] \in UsedPages
    <3>1. m + 1 \in 1 .. k
      BY <1>1
    <3> QED
      BY <1>1, <1>2, <3>1
  <2>2. ASSUME NEW p \in UsedPages PROVE \E m \in 0 .. (k - 1) : Visited[m] = p
    <3>1. PICK i \in 1 .. k : U[i] = p
      BY <1>1
    <3>2. i - 1 \in 0 .. (k - 1) /\ (i - 1) + 1 = i
      BY <1>1, <3>1
    <3> QED
      BY <1>2, <3>1, <3>2
  <2> QED
    BY <2>1, <2>2
<1>5. ListsExactly(header.first_used_page, UsedPages) <=> Visited[k] = INVALID
  BY <1>1, <1>4 DEF ListsExactly, Visited
<1>6. ASSUME Visited[k] = INVALID
      PROVE  (\A p \in UsedPages : pages[p].next > p \/ pages[p].next = INVALID)
                <=> \A i \in 1 .. (k - 1) : U[i] < U[i + 1]
  <2>1. ASSUME \A p \in UsedPages : pages[p].next > p \/ pages[p].next = INVALID,
               NEW i \in 1 .. (k - 1)
        PROVE  U[i] < U[i + 1]
    <3>1. i \in 1 .. k /\ i + 1 \in 1 .. k
      BY <1>1
    <3>2. U[i] \in UsedPages /\ U[i + 1] # INVALID /\ U[i] \in PageIds /\ U[i + 1] \in PageIds
      BY <3>1, ChainIsUsed
    <3> QED
      BY <1>1, <2>1, <3>2 DEF PageIds
  <2>2. ASSUME \A i \in 1 .. (k - 1) : U[i] < U[i + 1], NEW p \in UsedPages
        PROVE  pages[p].next > p \/ pages[p].next = INVALID
    <3>1. PICK i \in 1 .. k : U[i] = p
      BY <1>1
    <3>2. CASE i = k
      <4>1. k # 0
        BY <1>1, <3>1
      <4> QED
        BY <1>2, <1>6, <3>1, <3>2, <4>1
    <3>3. CASE i # k
      <4>1. i \in 1 .. (k - 1) /\ i \in 1 .. k /\ i + 1 \in 1 .. k
        BY <1>1, <3>1, <3>3
      <4>2. U[i] \in PageIds /\ U[i + 1] \in PageIds /\ U[i] < U[i + 1]
        BY <1>1, <2>2, <4>1
      <4> QED
        BY <1>1, <3>1, <4>1, <4>2 DEF PageIds
    <3> QED
      BY <3>2, <3>3
  <2> QED
    BY <2>1, <2>2
<1> QED
  BY <1>3, <1>5, <1>6 DEF UsedListExact

-----------------------------------------------------------------------------
\* The chain with page new after the i-th.
WithPage(U, k, i, new) ==
    [j \in 1 .. (k + 1) |-> IF j <= i THEN U[j] ELSE IF j = i + 1 THEN new ELSE U[j - 1]]

\* The same place by place.
IsWithPage(V, U, k, i, new) ==
    /\ V \in [1 .. (k + 1) -> PageIds]
    /\ \A j \in 1 .. i : V[j] = U[j]
    /\ V[i + 1] = new
    /\ \A j \in (i + 1) .. k : V[j + 1] = U[j]
    /\ \A j \in 1 .. (k + 1) : \/ j \in 1 .. i
                               \/ j = i + 1
                               \/ j - 1 \in (i + 1) .. k /\ (j - 1) + 1 = j

LEMMA WithPageFacts ==
    ASSUME NEW k \in Nat, NEW U \in [1 .. k -> PageIds], NEW i \in 0 .. k, NEW new \in PageIds,
           NEW V, V = WithPage(U, k, i, new)
    PROVE  IsWithPage(V, U, k, i, new)
<1>1. \A j \in 1 .. i : j \in 1 .. (k + 1) /\ j <= i
  OBVIOUS
<1>2. i + 1 \in 1 .. (k + 1) /\ ~(i + 1 <= i)
  OBVIOUS
<1>3. \A j \in (i + 1) .. k : /\ j + 1 \in 1 .. (k + 1) /\ ~(j + 1 <= i)
                              /\ j + 1 # i + 1 /\ (j + 1) - 1 = j
  OBVIOUS
<1>4. \A j \in 1 .. (k + 1) : \/ j \in 1 .. i \/ j = i + 1
                              \/ j - 1 \in (i + 1) .. k /\ (j - 1) + 1 = j
  OBVIOUS
<1>5. \A j \in 1 .. i : V[j] = U[j]
  BY <1>1 DEF WithPage
<1>6. V[i + 1] = new
  BY <1>2 DEF WithPage
<1>7. \A j \in (i + 1) .. k : V[j + 1] = U[j]
  BY <1>3 DEF WithPage
<1>8. V \in [1 .. (k + 1) -> PageIds]
  <2>1. ASSUME NEW j \in 1 .. (k + 1) PROVE V[j] \in PageIds
    <3>1. CASE j \in 1 .. i
      <4>1. j \in 1 .. k
        BY <3>1
      <4> QED
        BY <3>1, <4>1, <1>5
    <3>2. CASE j = i + 1
      BY <3>2, <1>6
    <3>3. CASE j - 1 \in (i + 1) .. k /\ (j - 1) + 1 = j
      <4>1. j - 1 \in 1 .. k
        BY <3>3
      <4> QED
        BY <3>3, <4>1, <1>7
    <3> QED
      BY <1>4, <2>1, <3>1, <3>2, <3>3
  <2> QED
    BY <2>1 DEF WithPage
<1> QED
  BY <1>4, <1>5, <1>6, <1>7, <1>8 DEF IsWithPage

\* A page that comes into the list between two others, before the first or
\* after the last.
LEMMA ChainGrows ==
    ASSUME NEW U, NEW k, NEW S, NEW f, NEW N, Chained(U, k, S, f, N),
           NEW i \in 0 .. k, NEW new \in PageIds, new \notin S,
           NEW T, \A p : p \in T <=> p \in S \/ p = new,
           NEW g, g = IF i = 0 THEN new ELSE f,
           NEW M, i < k => M[new] = U[i + 1], i > 0 => M[U[i]] = new,
           \A j \in 1 .. k : j # i => M[U[j]] = N[U[j]],
           NEW V, V = WithPage(U, k, i, new)
    PROVE  Chained(V, k + 1, T, g, M)
<1>1. /\ k \in Nat /\ U \in [1 .. k -> PageIds]
      /\ \A a, b \in 1 .. k : U[a] = U[b] => a = b
      /\ \A p : p \in S <=> \E j \in 1 .. k : U[j] = p
      /\ k > 0 => f = U[1]
      /\ \A j \in 1 .. (k - 1) : N[U[j]] = U[j + 1]
  BY DEF Chained
<1>2. /\ V \in [1 .. (k + 1) -> PageIds]
      /\ \A j \in 1 .. i : V[j] = U[j]
      /\ V[i + 1] = new
      /\ \A j \in (i + 1) .. k : V[j + 1] = U[j]
      /\ \A j \in 1 .. (k + 1) : \/ j \in 1 .. i \/ j = i + 1
                                 \/ j - 1 \in (i + 1) .. k /\ (j - 1) + 1 = j
  <2>1. IsWithPage(V, U, k, i, new)
    BY <1>1, WithPageFacts
  <2> QED
    BY <2>1 DEF IsWithPage
<1>3. \A j \in 1 .. k : U[j] # new
  BY <1>1
<1>4. ASSUME NEW a \in 1 .. (k + 1), NEW b \in 1 .. (k + 1), V[a] = V[b] PROVE a = b
  <2>1. ASSUME NEW c \in 1 .. (k + 1)
        PROVE  \/ c = i + 1 /\ V[c] = new
               \/ c # i + 1 /\ V[c] = U[IF c <= i THEN c ELSE c - 1]
                   /\ (IF c <= i THEN c ELSE c - 1) \in 1 .. k
    <3>1. CASE c \in 1 .. i
      <4>1. c <= i /\ c # i + 1 /\ c \in 1 .. k
        BY <3>1, <1>1
      <4> QED
        BY <3>1, <4>1, <1>2
    <3>2. CASE c = i + 1
      BY <3>2, <1>2
    <3>3. CASE c - 1 \in (i + 1) .. k /\ (c - 1) + 1 = c
      <4>1. ~(c <= i) /\ c # i + 1 /\ c - 1 \in 1 .. k
        BY <3>3
      <4> QED
        BY <3>3, <4>1, <1>2
    <3> QED
      BY <1>2, <2>1, <3>1, <3>2, <3>3
  <2>2. PICK x, y : x = (IF a <= i THEN a ELSE a - 1) /\ y = (IF b <= i THEN b ELSE b - 1)
    OBVIOUS
  <2>3. /\ (a = i + 1 /\ V[a] = new) \/ (a # i + 1 /\ V[a] = U[x] /\ x \in 1 .. k)
        /\ (b = i + 1 /\ V[b] = new) \/ (b # i + 1 /\ V[b] = U[y] /\ y \in 1 .. k)
    BY <1>4, <2>1, <2>2
  <2>4. CASE a = i + 1
    BY <2>3, <2>4, <1>3, <1>4
  <2>5. CASE a # i + 1
    <3>1. b # i + 1 /\ x = y
      BY <2>3, <2>5, <1>1, <1>3, <1>4
    <3> QED
      BY <2>2, <2>5, <3>1, <1>4
  <2> QED
    BY <2>4, <2>5
<1>5. ASSUME NEW p PROVE p \in T <=> \E j \in 1 .. (k + 1) : V[j] = p
  <2>1. ASSUME NEW j \in 1 .. (k + 1), V[j] = p PROVE p \in T
    <3>1. CASE j \in 1 .. i
      <4>1. j \in 1 .. k
        BY <3>1, <1>1
      <4> QED
        BY <3>1, <4>1, <1>1, <1>2, <2>1
    <3>2. CASE j = i + 1
      BY <3>2, <1>2, <2>1
    <3>3. CASE j - 1 \in (i + 1) .. k /\ (j - 1) + 1 = j
      <4>1. j - 1 \in 1 .. k
        BY <3>3, <1>1
      <4>2. V[j] = U[j - 1]
        BY <3>3, <1>2
      <4> QED
        BY <4>1, <4>2, <1>1, <2>1
    <3> QED
      BY <1>2, <2>1, <3>1, <3>2, <3>3
  <2>2. ASSUME p \in T PROVE \E j \in 1 .. (k + 1) : V[j] = p
    <3>1. CASE p = new
      <4>1. i + 1 \in 1 .. (k + 1)
        BY <1>1
      <4> QED
        BY <3>1, <4>1, <1>2
    <3>2. CASE p # new
      <4>1. PICK j \in 1 .. k : U[j] = p
        BY <1>1, <2>2, <3>2
      <4>2. j \in 1 .. (k + 1) /\ j + 1 \in 1 .. (k + 1) /\ (j \in 1 .. i \/ j \in (i + 1) .. k)
        BY <1>1, <4>1
      <4> QED
        BY <1>2, <4>1, <4>2
    <3> QED
      BY <3>1, <3>2
  <2> QED
    BY <2>1, <2>2
<1>6. g = V[1]
  <2>1. CASE i = 0
    BY <2>1, <1>2
  <2>2. CASE i # 0
    <3>1. 1 \in 1 .. i /\ k > 0
      BY <2>2, <1>1
    <3> QED
      BY <2>2, <3>1, <1>1, <1>2
  <2> QED
    BY <2>1, <2>2
<1>7. ASSUME NEW j \in 1 .. ((k + 1) - 1) PROVE M[V[j]] = V[j + 1]
  <2>1. j \in 1 .. k
    BY <1>1
  <2>2. CASE j < i
    <3>1. j \in 1 .. i /\ j + 1 \in 1 .. i /\ j \in 1 .. (k - 1) /\ j # i
      BY <2>1, <2>2, <1>1
    <3> QED
      BY <3>1, <2>1, <1>1, <1>2
  <2>3. CASE j = i
    <3>1. j \in 1 .. i /\ i > 0
      BY <2>1, <2>3
    <3> QED
      BY <2>3, <3>1, <1>2
  <2>4. CASE j = i + 1
    <3>1. i < k /\ j \in (i + 1) .. k
      BY <2>1, <2>4, <1>1
    <3> QED
      BY <2>4, <3>1, <1>2
  <2>5. CASE j > i + 1
    <3>1. PICK m \in Nat : m = j - 1 /\ m + 1 = j
      BY <2>1
    <3>2. m \in (i + 1) .. k /\ j \in (i + 1) .. k /\ m \in 1 .. (k - 1) /\ m \in 1 .. k /\ m # i
      BY <2>1, <2>5, <3>1, <1>1
    <3>3. V[j] = U[m] /\ V[j + 1] = U[j]
      BY <3>1, <3>2, <1>2
    <3> QED
      BY <3>1, <3>2, <3>3, <1>1
  <2> QED
    BY <2>1, <2>2, <2>3, <2>4, <2>5
<1> QED
  BY <1>1, <1>2, <1>4, <1>5, <1>6, <1>7 DEF Chained

\* If it comes in the order of the numbers, the list ends with the chain.
LEMMA GrownEnds ==
    ASSUME NEW U, NEW k, NEW S, NEW f, NEW N, Chained(U, k, S, f, N), Ends(U, k, f, N),
           NEW i \in 0 .. k, NEW new \in PageIds,
           NEW M, i = k => M[new] = INVALID,
           \A j \in 1 .. k : j # i => M[U[j]] = N[U[j]],
           i > 0 => U[i] < new, i < k => new < U[i + 1],
           NEW V, V = WithPage(U, k, i, new), NEW g
    PROVE  Ends(V, k + 1, g, M)
<1>1. /\ k \in Nat /\ U \in [1 .. k -> PageIds]
      /\ \A j \in 1 .. (k - 1) : U[j] < U[j + 1]
      /\ k # 0 => N[U[k]] = INVALID
  BY DEF Chained, Ends
<1>2. /\ \A j \in 1 .. i : V[j] = U[j]
      /\ V[i + 1] = new
      /\ \A j \in (i + 1) .. k : V[j + 1] = U[j]
  <2>1. IsWithPage(V, U, k, i, new)
    BY <1>1, WithPageFacts
  <2> QED
    BY <2>1 DEF IsWithPage
<1>3. M[V[k + 1]] = INVALID /\ k + 1 # 0
  <2>1. CASE i = k
    BY <1>1, <1>2, <2>1
  <2>2. CASE i # k
    <3>1. k \in (i + 1) .. k /\ k # 0 /\ k \in 1 .. k
      BY <1>1, <2>2
    <3> QED
      BY <1>1, <1>2, <2>2, <3>1
  <2> QED
    BY <2>1, <2>2
<1>4. ASSUME NEW j \in 1 .. ((k + 1) - 1) PROVE V[j] < V[j + 1]
  <2>1. j \in 1 .. k
    BY <1>1
  <2>2. CASE j < i
    <3>1. j \in 1 .. i /\ j + 1 \in 1 .. i /\ j \in 1 .. (k - 1)
      BY <2>1, <2>2, <1>1
    <3> QED
      BY <3>1, <1>1, <1>2
  <2>3. CASE j = i
    <3>1. j \in 1 .. i /\ i > 0
      BY <2>1, <2>3
    <3> QED
      BY <2>3, <3>1, <1>2
  <2>4. CASE j = i + 1
    <3>1. i < k /\ j \in (i + 1) .. k
      BY <2>1, <2>4, <1>1
    <3> QED
      BY <2>4, <3>1, <1>2
  <2>5. CASE j > i + 1
    <3>1. PICK m \in Nat : m = j - 1 /\ m + 1 = j
      BY <2>1
    <3>2. m \in (i + 1) .. k /\ j \in (i + 1) .. k /\ m \in 1 .. (k - 1)
      BY <2>1, <2>5, <3>1, <1>1
    <3>3. V[j] = U[m] /\ V[j + 1] = U[j]
      BY <3>1, <3>2, <1>2
    <3> QED
      BY <3>1, <3>2, <3>3, <1>1
  <2> QED
    BY <2>1, <2>2, <2>3, <2>4, <2>5
<1> QED
  BY <1>3, <1>4 DEF Ends

\* The chain without its i-th page.
WithoutPage(U, k, i) == [j \in 1 .. (k - 1) |-> IF j < i THEN U[j] ELSE U[j + 1]]

\* The same place by place.
IsWithoutPage(V, U, k, i) ==
    /\ V \in [1 .. (k - 1) -> PageIds]
    /\ \A j \in 1 .. (i - 1) : V[j] = U[j]
    /\ \A j \in i .. (k - 1) : V[j] = U[j + 1]

LEMMA WithoutPageFacts ==
    ASSUME NEW k \in Nat, NEW U \in [1 .. k -> PageIds], NEW i \in 1 .. k,
           NEW V, V = WithoutPage(U, k, i)
    PROVE  IsWithoutPage(V, U, k, i)
<1>1. \A j \in 1 .. (i - 1) : j \in 1 .. (k - 1) /\ j < i /\ j \in 1 .. k
  OBVIOUS
<1>2. \A j \in i .. (k - 1) : j \in 1 .. (k - 1) /\ ~(j < i) /\ j + 1 \in 1 .. k
  OBVIOUS
<1>3. \A j \in 1 .. (k - 1) : j \in 1 .. (i - 1) \/ j \in i .. (k - 1)
  OBVIOUS
<1>4. \A j \in 1 .. (i - 1) : V[j] = U[j]
  BY <1>1 DEF WithoutPage
<1>5. \A j \in i .. (k - 1) : V[j] = U[j + 1]
  BY <1>2 DEF WithoutPage
<1>6. V \in [1 .. (k - 1) -> PageIds]
  <2>1. \A j \in 1 .. (k - 1) : V[j] \in PageIds
    BY <1>1, <1>2, <1>3, <1>4, <1>5
  <2> QED
    BY <2>1 DEF WithoutPage
<1> QED
  BY <1>4, <1>5, <1>6 DEF IsWithoutPage

\* A page that leaves the list, when the one before it is linked past it.
LEMMA ChainShrinks ==
    ASSUME NEW U, NEW k, NEW S, NEW f, NEW N, Chained(U, k, S, f, N),
           NEW i \in 1 .. k, NEW T, \A p : p \in T <=> p \in S /\ p # U[i],
           NEW g, g = IF i = 1 THEN N[U[1]] ELSE f,
           NEW M, i > 1 => M[U[i - 1]] = N[U[i]],
           \A j \in 1 .. k : j # i /\ j # i - 1 => M[U[j]] = N[U[j]],
           NEW V, V = WithoutPage(U, k, i)
    PROVE  Chained(V, k - 1, T, g, M)
<1>1. /\ k \in Nat /\ U \in [1 .. k -> PageIds]
      /\ \A a, b \in 1 .. k : U[a] = U[b] => a = b
      /\ \A p : p \in S <=> \E j \in 1 .. k : U[j] = p
      /\ k > 0 => f = U[1]
      /\ \A j \in 1 .. (k - 1) : N[U[j]] = U[j + 1]
  BY DEF Chained
<1>2. /\ V \in [1 .. (k - 1) -> PageIds]
      /\ \A j \in 1 .. (i - 1) : V[j] = U[j]
      /\ \A j \in i .. (k - 1) : V[j] = U[j + 1]
  <2>1. IsWithoutPage(V, U, k, i)
    BY <1>1, WithoutPageFacts
  <2> QED
    BY <2>1 DEF IsWithoutPage
<1>3. ASSUME NEW c \in 1 .. (k - 1)
      PROVE  \E x \in 1 .. k : x = (IF c < i THEN c ELSE c + 1) /\ V[c] = U[x] /\ x # i
  <2>1. CASE c < i
    <3>1. c \in 1 .. (i - 1) /\ c \in 1 .. k /\ c # i
      BY <1>1, <2>1
    <3> QED
      BY <1>2, <2>1, <3>1
  <2>2. CASE ~(c < i)
    <3>1. c \in i .. (k - 1) /\ c + 1 \in 1 .. k /\ c + 1 # i
      BY <1>1, <2>2
    <3> QED
      BY <1>2, <2>2, <3>1
  <2> QED
    BY <2>1, <2>2
<1>4. ASSUME NEW a \in 1 .. (k - 1), NEW b \in 1 .. (k - 1), V[a] = V[b] PROVE a = b
  <2>1. PICK x \in 1 .. k : x = (IF a < i THEN a ELSE a + 1) /\ V[a] = U[x]
    BY <1>3
  <2>2. PICK y \in 1 .. k : y = (IF b < i THEN b ELSE b + 1) /\ V[b] = U[y]
    BY <1>3
  <2>3. x = y
    <3>1. U[x] = U[y]
      BY <1>4, <2>1, <2>2
    <3> QED
      BY <1>1, <3>1
  <2>4. (IF a < i THEN a ELSE a + 1) = (IF b < i THEN b ELSE b + 1)
    BY <2>1, <2>2, <2>3
  <2> QED
    BY <1>1, <2>4
<1>5. ASSUME NEW p PROVE p \in T <=> \E j \in 1 .. (k - 1) : V[j] = p
  <2>1. ASSUME NEW j \in 1 .. (k - 1), V[j] = p PROVE p \in T
    <3>1. PICK x \in 1 .. k : V[j] = U[x] /\ x # i
      BY <1>3
    <3> QED
      BY <1>1, <2>1, <3>1
  <2>2. ASSUME p \in T PROVE \E j \in 1 .. (k - 1) : V[j] = p
    <3>1. PICK x \in 1 .. k : U[x] = p
      BY <1>1, <2>2
    <3>2. x # i
      BY <2>2, <3>1
    <3>3. CASE x < i
      <4>1. x \in 1 .. (i - 1) /\ x \in 1 .. (k - 1)
        BY <1>1, <3>3
      <4> QED
        BY <1>2, <3>1, <4>1
    <3>4. CASE x > i
      <4>1. x - 1 \in i .. (k - 1) /\ x - 1 \in 1 .. (k - 1) /\ (x - 1) + 1 = x
        BY <1>1, <3>4
      <4> QED
        BY <1>2, <3>1, <4>1
    <3> QED
      BY <1>1, <3>2, <3>3, <3>4
  <2> QED
    BY <2>1, <2>2
<1>6. ASSUME k - 1 > 0 PROVE g = V[1]
  <2>1. 1 \in 1 .. (k - 1) /\ k > 0
    BY <1>1, <1>6
  <2>2. CASE i = 1
    <3>1. 1 \in i .. (k - 1)
      BY <2>1, <2>2
    <3> QED
      BY <1>1, <1>2, <2>1, <2>2, <3>1
  <2>3. CASE i # 1
    <3>1. 1 \in 1 .. (i - 1)
      BY <2>3, <1>1
    <3> QED
      BY <1>1, <1>2, <2>1, <2>3, <3>1
  <2> QED
    BY <2>2, <2>3
<1>7. ASSUME NEW j \in 1 .. ((k - 1) - 1) PROVE M[V[j]] = V[j + 1]
  <2>1. j \in 1 .. (k - 1) /\ j + 1 \in 1 .. (k - 1) /\ j \in 1 .. k
    BY <1>1
  <2>2. CASE j < i - 1
    <3>1. j \in 1 .. (i - 1) /\ j + 1 \in 1 .. (i - 1) /\ j # i /\ j # i - 1
      BY <2>1, <2>2, <1>1
    <3> QED
      BY <1>1, <1>2, <2>1, <3>1
  <2>3. CASE j = i - 1
    <3>1. j \in 1 .. (i - 1) /\ j + 1 = i /\ i > 1 /\ j + 1 \in i .. (k - 1) /\ i \in 1 .. (k - 1)
      BY <2>1, <2>3, <1>1
    <3>2. V[j] = U[i - 1] /\ V[j + 1] = U[i + 1]
      BY <1>2, <2>3, <3>1
    <3> QED
      BY <1>1, <3>1, <3>2
  <2>4. CASE j > i - 1
    <3>1. PICK m \in Nat : m = j + 1
      BY <2>1
    <3>2. j \in i .. (k - 1) /\ m \in i .. (k - 1) /\ m \in 1 .. (k - 1) /\ m \in 1 .. k /\ m # i /\ m # i - 1
      BY <2>1, <2>4, <3>1, <1>1
    <3>3. V[j] = U[m] /\ V[m] = U[m + 1]
      BY <1>2, <3>1, <3>2
    <3> QED
      BY <1>1, <3>1, <3>2, <3>3
  <2> QED
    BY <1>1, <2>1, <2>2, <2>3, <2>4
<1>8. k - 1 \in Nat
  BY <1>1
<1> QED
  BY <1>2, <1>4, <1>5, <1>6, <1>7, <1>8 DEF Chained

\* A list that ended with the chain still does.
LEMMA ShrunkEnds ==
    ASSUME NEW U, NEW k, NEW S, NEW f, NEW N, Chained(U, k, S, f, N), Ends(U, k, f, N),
           NEW i \in 1 .. k, NEW g, g = IF i = 1 THEN N[U[1]] ELSE f,
           NEW M, i > 1 => M[U[i - 1]] = N[U[i]],
           \A j \in 1 .. k : j # i /\ j # i - 1 => M[U[j]] = N[U[j]],
           NEW V, V = WithoutPage(U, k, i)
    PROVE  Ends(V, k - 1, g, M)
<1>1. /\ k \in Nat \ {0} /\ U \in [1 .. k -> PageIds]
      /\ N[U[k]] = INVALID
      /\ \A j \in 1 .. (k - 1) : U[j] < U[j + 1]
  <2>1. k \in Nat /\ U \in [1 .. k -> PageIds]
    BY DEF Chained
  <2>2. k # 0
    BY <2>1
  <2> QED
    BY <2>1, <2>2 DEF Ends
<1>2. /\ \A j \in 1 .. (i - 1) : V[j] = U[j]
      /\ \A j \in i .. (k - 1) : V[j] = U[j + 1]
  <2>1. IsWithoutPage(V, U, k, i)
    BY <1>1, WithoutPageFacts
  <2> QED
    BY <2>1 DEF IsWithoutPage
<1>3. (IF k - 1 = 0 THEN g ELSE M[V[k - 1]]) = INVALID
  <2>1. CASE k - 1 = 0
    <3>1. k = 1 /\ i = 1
      BY <1>1, <2>1
    <3> QED
      BY <1>1, <2>1, <3>1
  <2>2. CASE k - 1 # 0 /\ i = k
    <3>1. k - 1 \in 1 .. (i - 1) /\ i > 1
      BY <1>1, <2>2
    <3> QED
      BY <1>1, <1>2, <2>2, <3>1
  <2>3. CASE k - 1 # 0 /\ i # k
    <3>1. k - 1 \in i .. (k - 1) /\ (k - 1) + 1 = k /\ k \in 1 .. k /\ k # i - 1
      BY <1>1, <2>3
    <3> QED
      BY <1>1, <1>2, <2>3, <3>1
  <2> QED
    BY <2>1, <2>2, <2>3
<1>4. ASSUME NEW j \in 1 .. ((k - 1) - 1) PROVE V[j] < V[j + 1]
  <2>1. j \in 1 .. (k - 1) /\ j + 1 \in 1 .. (k - 1)
    BY <1>1
  <2>2. CASE j < i - 1
    <3>1. j \in 1 .. (i - 1) /\ j + 1 \in 1 .. (i - 1)
      BY <2>1, <2>2, <1>1
    <3> QED
      BY <1>1, <1>2, <2>1, <3>1
  <2>3. CASE j = i - 1
    <3>1. j \in 1 .. (i - 1) /\ j + 1 = i /\ j + 1 \in i .. (k - 1) /\ i \in 1 .. (k - 1)
      BY <2>1, <2>3, <1>1
    <3>2. V[j] = U[j] /\ V[j + 1] = U[i + 1] /\ U[j] < U[i] /\ U[i] < U[i + 1]
      BY <1>1, <1>2, <2>1, <3>1
    <3>3. U[j] \in Int /\ U[i] \in Int /\ U[i + 1] \in Int
      <4>1. j \in 1 .. k /\ i \in 1 .. k /\ i + 1 \in 1 .. k
        BY <1>1, <3>1
      <4> QED
        BY <1>1, <4>1 DEF PageIds
    <3> QED
      BY <3>2, <3>3
  <2>4. CASE j > i - 1
    <3>1. PICK m \in Nat : m = j + 1
      BY <2>1
    <3>2. j \in i .. (k - 1) /\ m \in i .. (k - 1) /\ m \in 1 .. (k - 1)
      BY <2>1, <2>4, <3>1, <1>1
    <3>3. V[j] = U[m] /\ V[m] = U[m + 1]
      BY <1>2, <3>1, <3>2
    <3> QED
      BY <1>1, <3>1, <3>2, <3>3
  <2> QED
    BY <1>1, <2>1, <2>2, <2>3, <2>4
<1> QED
  BY <1>3, <1>4 DEF Ends

-----------------------------------------------------------------------------
\* The case in which allocatePage leaves the used list running into the free
\* list: no page is in use and the free list goes on behind its first page.
SpoilsUsedList == header.first_used_page = INVALID /\ header.num_free_pages > 1

\* The step leads to a chain again, and to one that ends if this one does.
StaysChained(U, k) ==
    \E V, m : /\ UsedChain(V, m)'
              /\ UsedEnds(U, k) /\ ~SpoilsUsedList => UsedEnds(V, m)'

\* Most steps leave the list alone.
LEMMA SameLinks ==
    ASSUME NEW U, NEW k, UsedChain(U, k),
           header'.first_used_page = header.first_used_page,
           \A p : p \in UsedPages' <=> p \in UsedPages,
           \A p \in PageIds : pages'[p].next = pages[p].next
    PROVE  StaysChained(U, k)
<1>1. NextPages' = NextPages
  BY DEF NextPages
<1>2. UsedPages' = UsedPages
  OBVIOUS
<1>3. UsedChain(U, k)'
  BY <1>1, <1>2 DEF UsedChain
<1>4. UsedEnds(U, k) => UsedEnds(U, k)'
  BY <1>1 DEF UsedEnds
<1> QED
  BY <1>3, <1>4 DEF StaysChained

\* So does a step that leaves the header and the pages alone.
LEMMA SamePages ==
    ASSUME NEW U, NEW k, UsedChain(U, k), header' = header, pages' = pages
    PROVE  StaysChained(U, k)
<1>1. UsedPages' = UsedPages
  BY DEF UsedPages, Allocated
<1> QED
  BY <1>1, SameLinks

\* A file without pages has the empty list.
LEMMA EmptyChain ==
    ASSUME NEW U, NEW k, header' = NewHeader
    PROVE  StaysChained(U, k)
<1>1. header'.num_pages = 1 /\ header'.first_used_page = INVALID
  BY DEF NewHeader
<1>2. Allocated' = {}
  BY <1>1 DEF Allocated
<1>3. UsedPages' = {}
  BY <1>2 DEF UsedPages
<1>4. PICK V : V = [i \in 1 .. 0 |-> INVALID]
  OBVIOUS
<1>5. UsedChain(V, 0)'
  BY <1>3, <1>4 DEF UsedChain, Chained
<1>6. UsedEnds(V, 0)'
  BY <1>1 DEF UsedEnds, Ends
<1> QED
  BY <1>5, <1>6 DEF StaysChained

\* A page that is written behind the i-th page of the chain.
LEMMA WrittenChain ==
    ASSUME FileInv, Shape', NEW U, NEW k, UsedChain(U, k), NEW i \in 0 .. k,
           NEW new \in PageIds, new \notin UsedPages,
           NEW page, page.used, NEW q, q = IF i = 0 THEN INVALID ELSE U[i],
           NEW h, Written(new, page, q, h),
           \A p \in PageIds : p < h.num_pages <=> p < header.num_pages \/ p = new,
           h.first_used_page = IF i = 0 THEN new ELSE header.first_used_page,
           i < k => page.next = U[i + 1],
           UsedEnds(U, k) /\ ~SpoilsUsedList =>
                /\ i = k => page.next = INVALID
                /\ i > 0 => U[i] < new
                /\ i < k => new < U[i + 1]
    PROVE  StaysChained(U, k)
<1>1. /\ pages' = [p \in PageIds |-> IF p = new THEN page
                                      ELSE IF p = q THEN [pages[q] EXCEPT !.next = new]
                                           ELSE pages[p]]
      /\ header' = h
  BY DEF Written
<1>2. /\ k \in Nat /\ U \in [1 .. k -> PageIds]
      /\ \A a, b \in 1 .. k : U[a] = U[b] => a = b
      /\ \A p : p \in UsedPages <=> \E j \in 1 .. k : U[j] = p
  BY ChainFacts
<1>3. pages \in [PageIds -> PageRecord]
  BY DEF FileInv, Shape, PageRecord
<1>4. pages'[new] = page
  BY <1>1
<1>5. ASSUME NEW p \in PageIds, p # new, p # q PROVE pages'[p] = pages[p]
  BY <1>1, <1>5
<1>6. ASSUME NEW p \in PageIds, p # new, p = q
      PROVE  pages'[p].next = new /\ pages'[p].used = pages[p].used
  <2>1. pages'[p] = [pages[p] EXCEPT !.next = new]
    BY <1>1, <1>6
  <2>2. PICK r \in PageRecord : r = pages[p]
    BY <1>3
  <2>3. pages'[p] = [r EXCEPT !.next = new]
    BY <2>1, <2>2
  <2> QED
    BY <2>2, <2>3 DEF PageRecord
<1>7. \A p : p \in UsedPages' <=> p \in UsedPages \/ p = new
  <2>1. ASSUME NEW p \in PageIds, p # new PROVE pages'[p].used = pages[p].used
    BY <1>5, <1>6, <2>1
  <2>2. \A p : p \in UsedPages' <=> p \in PageIds /\ p < h.num_pages /\ pages'[p].used
    BY <1>1, FreeFactsNext
  <2>3. \A p : p \in UsedPages <=> p \in PageIds /\ p < header.num_pages /\ pages[p].used
    BY FreeFacts DEF FileInv
  <2> QED
    BY <1>4, <2>1, <2>2, <2>3
<1>8. PICK M, N : M = NextPages' /\ N = NextPages
  OBVIOUS
<1>9. M[new] = page.next
  BY <1>4, <1>8 DEF NextPages
<1>10. i > 0 => M[U[i]] = new
  <2>1. ASSUME i > 0 PROVE M[U[i]] = new
    <3>1. U[i] \in PageIds /\ U[i] # new /\ U[i] = q
      BY <1>2, <2>1
    <3> QED
      BY <1>6, <1>8, <3>1 DEF NextPages
  <2> QED
    BY <2>1
<1>11. \A j \in 1 .. k : j # i => M[U[j]] = N[U[j]]
  <2>1. ASSUME NEW j \in 1 .. k, j # i PROVE M[U[j]] = N[U[j]]
    <3>1. U[j] \in PageIds /\ U[j] # new
      BY <1>2
    <3>2. U[j] # q
      <4>1. CASE i = 0
        BY <3>1, <4>1 DEF PageIds, INVALID
      <4>2. CASE i # 0
        <5>1. i \in 1 .. k
          BY <1>2, <4>2
        <5> QED
          BY <1>2, <2>1, <4>2, <5>1
      <4> QED
        BY <4>1, <4>2
    <3>3. pages'[U[j]] = pages[U[j]]
      BY <1>5, <3>1, <3>2
    <3> QED
      BY <1>8, <3>1, <3>3 DEF NextPages
  <2> QED
    BY <2>1
<1>12. PICK f, g, S, T : /\ f = header.first_used_page /\ g = header'.first_used_page
                         /\ S = UsedPages /\ T = UsedPages'
  OBVIOUS
<1>13. Chained(U, k, S, f, N)
  BY <1>8, <1>12 DEF UsedChain
<1>14. PICK V : V = WithPage(U, k, i, new)
  OBVIOUS
<1>15. g = IF i = 0 THEN new ELSE f
  BY <1>1, <1>12
<1>16. i < k => M[new] = U[i + 1]
  BY <1>9
<1>17. Chained(V, k + 1, T, g, M)
  <2>1. new \notin S /\ \A p : p \in T <=> p \in S \/ p = new
    BY <1>7, <1>12
  <2> QED
    BY <2>1, <1>10, <1>11, <1>13, <1>14, <1>15, <1>16, ChainGrows
<1>18. UsedChain(V, k + 1)'
  BY <1>8, <1>12, <1>17 DEF UsedChain
<1>19. ASSUME UsedEnds(U, k), ~SpoilsUsedList PROVE UsedEnds(V, k + 1)'
  <2>1. Ends(U, k, f, N)
    BY <1>8, <1>12, <1>19 DEF UsedEnds
  <2>2. (i = k => M[new] = INVALID) /\ (i > 0 => U[i] < new) /\ (i < k => new < U[i + 1])
    BY <1>9, <1>19
  <2>3. Ends(V, k + 1, g, M)
    BY <2>1, <2>2, <1>11, <1>13, <1>14, GrownEnds
  <2> QED
    BY <2>3, <1>8, <1>12 DEF UsedEnds
<1> QED
  BY <1>18, <1>19 DEF StaysChained

\* A search that fails leaves the header and the pages alone.
LEMMA WalkFailsChain ==
    ASSUME NEW S, WalkFails(S), NEW U, NEW k, UsedChain(U, k)
    PROVE  StaysChained(U, k)
<1>1. header' = header /\ pages' = pages
  BY DEF WalkFails, Fails
<1> QED
  BY <1>1, SamePages

\* The page taken from the free list.
LEMMA ReusedPage ==
    ASSUME FileInv, header.num_free_pages > 0, NEW new, new = header.first_free_page,
           NEW next, NEW page, page = InUse(new, next)
    PROVE  /\ new \in PageIds /\ new \notin UsedPages /\ new < header.num_pages
           /\ page.used /\ page.next = next
<1>1. new \in PageIds /\ new \in FreePages
  BY FirstFree DEF FileInv
<1>2. new \notin UsedPages /\ new < header.num_pages
  BY <1>1, FreeFacts DEF FileInv
<1>3. PICK r \in PageRecord : r = pages[new]
  BY <1>1 DEF FileInv, Shape, PageRecord
<1>4. page = [r EXCEPT !.used = TRUE, !.next = next]
  BY <1>3 DEF InUse
<1>5. page.used /\ page.next = next
  BY <1>4 DEF PageRecord
<1> QED
  BY <1>1, <1>2, <1>5

\* A page that is alone in the free list has no next page.
LEMMA LastFree ==
    ASSUME FileInv, header.num_free_pages = 1
    PROVE  pages[header.first_free_page].next = INVALID
<1>1. PICK L : Enumerates(L)
  BY DEF FileInv
<1>2. /\ L \in [1 .. 1 -> PageIds]
      /\ header.first_free_page = Link(L, 1)
      /\ \A i \in 1 .. 1 : pages[L[i]].next = Link(L, i + 1)
  BY <1>1 DEF Enumerates
<1>3. DOMAIN L = 1 .. 1 /\ 1 \in 1 .. 1 /\ 1 + 1 \notin 1 .. 1
  BY <1>2
<1>4. Link(L, 1) = L[1] /\ Link(L, 1 + 1) = INVALID
  BY <1>3 DEF Link
<1> QED
  BY <1>2, <1>3, <1>4

LEMMA ReuseAtHeadChain ==
    ASSUME FileInv, handles > 0, ReuseAtHead, NEW U, NEW k, UsedChain(U, k)
    PROVE  StaysChained(U, k)
<1>1. Shape'
  BY ReuseAtHeadStep DEF FileInv
<1>2. PICK new : new = header.first_free_page
  OBVIOUS
<1>3. PICK first \in Links : first = header.first_used_page
  BY DEF FileInv, Shape
<1>4. /\ header.num_free_pages > 0
      /\ first = INVALID \/ first > new
  BY <1>2, <1>3 DEF ReuseAtHead
<1>5. PICK next : next = NextOfFirst(new)
  OBVIOUS
<1>6. PICK page : page = InUse(new, next)
  OBVIOUS
<1>7. /\ new \in PageIds /\ new \notin UsedPages /\ new < header.num_pages
      /\ page.used /\ page.next = next
  BY <1>2, <1>4, <1>6, ReusedPage
<1>8. PICK g \in HeaderRecord : g = FreeListPopped /\ g.num_pages = header.num_pages
  BY <1>4, Popped
<1>9. PICK h : h = [g EXCEPT !.first_used_page = new]
  OBVIOUS
<1>10. h.num_pages = header.num_pages /\ h.first_used_page = new
  BY <1>8, <1>9 DEF HeaderRecord
<1>11. Written(new, page, INVALID, h)
  BY <1>2, <1>5, <1>6, <1>8, <1>9 DEF ReuseAtHead
<1>12. k \in Nat /\ U \in [1 .. k -> PageIds] /\ (k > 0 => first = U[1])
  BY <1>3, ChainFacts
<1>13. ASSUME 0 < k PROVE next = U[1] /\ new < U[1]
  <2>1. 1 \in 1 .. k
    BY <1>12, <1>13
  <2>2. U[1] \in PageIds /\ first = U[1]
    BY <1>12, <1>13, <2>1
  <2>3. first > new
    BY <1>4, <2>2 DEF PageIds, INVALID
  <2>4. new < first
    BY <1>7, <2>2, <2>3 DEF PageIds
  <2> QED
    BY <1>3, <1>5, <2>2, <2>3, <2>4 DEF NextOfFirst
<1>14. ASSUME UsedEnds(U, k), ~SpoilsUsedList, 0 = k PROVE next = INVALID
  <2>1. first = INVALID
    BY <1>3, <1>14 DEF UsedEnds, Ends
  <2>2. header.num_free_pages = 1
    BY <1>3, <1>4, <1>14, <2>1 DEF SpoilsUsedList, FileInv, Shape
  <2>3. pages[new].next = INVALID
    BY <1>2, <2>2, LastFree
  <2>4. ~(first > new)
    BY <1>7, <2>1 DEF PageIds, INVALID
  <2> QED
    BY <1>3, <1>5, <2>3, <2>4 DEF NextOfFirst
<1>15. /\ 0 \in 0 .. k /\ ~(0 > 0)
       /\ \A p \in PageIds : p < h.num_pages <=> p < header.num_pages \/ p = new
  BY <1>7, <1>10, <1>12
<1>16. /\ 0 < k => page.next = U[0 + 1]
       /\ UsedEnds(U, k) /\ ~SpoilsUsedList =>
            /\ 0 = k => page.next = INVALID
            /\ 0 > 0 => U[0] < new
            /\ 0 < k => new < U[0 + 1]
  BY <1>7, <1>13, <1>14
<1>17. PICK i : i = 0
  OBVIOUS
<1>18. PICK q : q = IF i = 0 THEN INVALID ELSE U[i]
  OBVIOUS
<1> QED
  BY <1>1, <1>7, <1>10, <1>11, <1>15, <1>16, <1>17, <1>18, WrittenChain

LEMMA ReuseInsideChain ==
    ASSUME FileInv, handles > 0, ReuseInside, NEW U, NEW k, UsedChain(U, k)
    PROVE  StaysChained(U, k)
<1>1. Shape'
  BY ReuseInsideStep DEF FileInv
<1>2. PICK new : new = header.first_free_page
  OBVIOUS
<1>3. PICK first \in Links : first = header.first_used_page
  BY DEF FileInv, Shape
<1>4. header.num_free_pages > 0 /\ first \in 1 .. new
  BY <1>2, <1>3 DEF ReuseInside
<1>5. PICK h \in HeaderRecord : h = FreeListPopped
  BY <1>4, Popped
<1>6. h.num_pages = header.num_pages /\ h.first_used_page = first
  <2>1. PICK g \in HeaderRecord : g = header
    BY DEF FileInv, Shape, HeaderRecord
  <2>2. h = [g EXCEPT !.first_free_page = pages[g.first_free_page].next, !.num_free_pages = @ - 1]
    BY <1>5, <2>1 DEF FreeListPopped
  <2> QED
    BY <1>3, <2>1, <2>2 DEF HeaderRecord
<1>7. CASE \E q \in PageIds : /\ Finds(q, Predecessors(new))
                              /\ Written(new, InUse(new, pages[q].next), q, FreeListPopped)
  <2>1. PICK q \in PageIds : /\ Finds(q, Predecessors(new))
                             /\ Written(new, InUse(new, pages[q].next), q, h)
    BY <1>5, <1>7
  <2>2. PICK i \in 1 .. k : /\ U[i] = q /\ q \in Predecessors(new)
                            /\ \A j \in 1 .. (i - 1) : U[j] \notin Predecessors(new)
    BY <2>1, FoundOnChain DEF FileInv
  <2>3. PICK next : next = pages[q].next
    OBVIOUS
  <2>4. PICK page : page = InUse(new, next)
    OBVIOUS
  <2>5. /\ new \in PageIds /\ new \notin UsedPages /\ new < header.num_pages
        /\ page.used /\ page.next = next
    BY <1>2, <1>4, <2>4, ReusedPage
  <2>6. /\ k \in Nat /\ U \in [1 .. k -> PageIds] /\ (k > 0 => first = U[1])
        /\ \A j \in 1 .. (k - 1) : pages[U[j]].next = U[j + 1]
    BY <1>3, ChainFacts
  <2>7. next > new \/ next = INVALID
    BY <2>2, <2>3 DEF Predecessors
  <2>8. ASSUME i < k PROVE next = U[i + 1] /\ new < U[i + 1]
    <3>1. i \in 1 .. (k - 1) /\ i + 1 \in 1 .. k
      BY <2>6, <2>8
    <3>2. next = U[i + 1] /\ U[i + 1] \in PageIds
      BY <2>2, <2>3, <2>6, <3>1
    <3> QED
      BY <2>5, <2>7, <3>2 DEF PageIds, INVALID
  <2>9. U[i] < new
    <3>1. U[i] # new /\ U[i] \in PageIds
      BY <2>5, ChainIsUsed DEF FileInv
    <3>2. CASE i = 1
      <4>1. U[1] \in 1 .. new
        BY <1>4, <2>6, <3>2
      <4> QED
        BY <2>5, <3>1, <3>2, <4>1 DEF PageIds
    <3>3. CASE i # 1
      <4>1. i - 1 \in 1 .. (i - 1) /\ i - 1 \in 1 .. (k - 1) /\ i - 1 \in 1 .. k /\ (i - 1) + 1 = i
        BY <2>2, <2>6, <3>3
      <4>2. U[i - 1] \in PageIds /\ U[i - 1] \notin Predecessors(new)
        BY <2>2, <2>6, <4>1
      <4>3. pages[U[i - 1]].next = U[i]
        BY <2>6, <4>1
      <4>4. ~(U[i] > new)
        BY <4>2, <4>3 DEF Predecessors
      <4> QED
        BY <2>5, <3>1, <4>4 DEF PageIds
    <3> QED
      BY <3>2, <3>3
  <2>10. ASSUME UsedEnds(U, k), i = k PROVE next = INVALID
    <3>1. k # 0
      BY <2>2, <2>6
    <3> QED
      BY <2>2, <2>3, <2>10, <3>1 DEF UsedEnds, Ends, NextPages
  <2>11. /\ i \in 0 .. k /\ i # 0
         /\ \A p \in PageIds : p < h.num_pages <=> p < header.num_pages \/ p = new
    BY <1>6, <2>2, <2>5, <2>6
  <2>12. q = IF i = 0 THEN INVALID ELSE U[i]
    BY <2>2, <2>11
  <2>13. Written(new, page, q, h)
    BY <2>1, <2>3, <2>4
  <2>14. h.first_used_page = IF i = 0 THEN new ELSE header.first_used_page
    BY <1>3, <1>6, <2>11
  <2>15. i < k => page.next = U[i + 1]
    BY <2>5, <2>8
  <2>16. UsedEnds(U, k) /\ ~SpoilsUsedList =>
            /\ i = k => page.next = INVALID
            /\ i > 0 => U[i] < new
            /\ i < k => new < U[i + 1]
    BY <2>5, <2>8, <2>9, <2>10
  <2> QED
    BY <1>1, <2>5, <2>11, <2>12, <2>13, <2>14, <2>15, <2>16, WrittenChain
<1>8. CASE ReachesEnd(Predecessors(new))
  <2>1. first # INVALID
    BY <1>4 DEF INVALID
  <2>2. PICK q \in PageIds : pages[q].next = INVALID /\ q \notin Predecessors(new)
    BY <1>3, <1>8, <2>1, EndIsLast DEF FileInv
  <2> QED
    BY <2>2 DEF Predecessors
<1>9. CASE WalkFails(Predecessors(new))
  BY <1>9, WalkFailsChain
<1> QED
  BY <1>2, <1>7, <1>8, <1>9 DEF ReuseInside

LEMMA ExtendChain ==
    ASSUME FileInv, handles > 0, Extend, NEW U, NEW k, UsedChain(U, k)
    PROVE  StaysChained(U, k)
<1> DEFINE LastPages == {p \in PageIds : pages[p].next = INVALID}
<1>1. Shape'
  BY ExtendStep DEF FileInv
<1>2. PICK new : new = header.num_pages
  OBVIOUS
<1>3. new \in PageIds
  BY <1>2 DEF Extend
<1>4. PICK page : page = [Initialized(INVALID) EXCEPT !.used = TRUE]
  OBVIOUS
<1>5. page.used /\ page.next = INVALID
  BY <1>4 DEF Initialized
<1>6. PICK g \in HeaderRecord : g = header
  BY DEF FileInv, Shape, HeaderRecord
<1>7. PICK h : h = [g EXCEPT !.num_pages = @ + 1]
  OBVIOUS
<1>8. h.num_pages = new + 1 /\ h.first_used_page = header.first_used_page
  BY <1>2, <1>6, <1>7 DEF HeaderRecord
<1>9. new \notin UsedPages /\ \A p \in UsedPages : p < new
  BY <1>2, <1>3, FreeFacts DEF FileInv, PageIds
<1>10. \A p \in PageIds : p < new + 1 <=> p < header.num_pages \/ p = new
  BY <1>2, <1>3 DEF PageIds
<1>11. /\ k \in Nat /\ U \in [1 .. k -> PageIds]
       /\ (k > 0 => header.first_used_page = U[1])
       /\ \A j \in 1 .. (k - 1) : pages[U[j]].next = U[j + 1]
  BY ChainFacts
<1>12. CASE header.first_used_page = INVALID /\ Written(new, page, INVALID, [h EXCEPT !.first_used_page = new])
  <2>1. PICK f : f = [h EXCEPT !.first_used_page = new]
    OBVIOUS
  <2>2. f.num_pages = new + 1 /\ f.first_used_page = new
    BY <1>7, <1>8, <2>1 DEF HeaderRecord
  <2>3. k = 0
    <3>1. ASSUME k > 0 PROVE FALSE
      <4>1. 1 \in 1 .. k
        BY <1>11, <3>1
      <4>2. U[1] # INVALID
        BY <4>1, ChainIsUsed DEF FileInv
      <4> QED
        BY <1>11, <1>12, <3>1, <4>2
    <3> QED
      BY <1>11, <3>1
  <2>4. PICK i \in 0 .. k : i = 0 /\ i = k
    BY <2>3
  <2>5. PICK q : q = IF i = 0 THEN INVALID ELSE U[i]
    OBVIOUS
  <2>6. Written(new, page, q, f)
    BY <1>12, <2>1, <2>4, <2>5
  <2>7. \A p \in PageIds : p < f.num_pages <=> p < header.num_pages \/ p = new
    BY <1>10, <2>2
  <2>8. f.first_used_page = IF i = 0 THEN new ELSE header.first_used_page
    BY <2>2, <2>4
  <2>9. ~(i < k) /\ ~(i > 0)
    BY <2>3, <2>4
  <2> QED
    BY <1>1, <1>3, <1>5, <1>9, <2>5, <2>6, <2>7, <2>8, <2>9, WrittenChain
<1>13. CASE \E q \in PageIds : Finds(q, LastPages) /\ Written(new, page, q, h)
  <2>1. PICK q \in PageIds : Finds(q, LastPages) /\ Written(new, page, q, h)
    BY <1>13
  <2>2. PICK i \in 1 .. k : U[i] = q /\ q \in LastPages
    BY <2>1, FoundOnChain DEF FileInv
  <2>3. i = k
    <3>1. ASSUME i # k PROVE FALSE
      <4>1. i \in 1 .. (k - 1) /\ i + 1 \in 1 .. k
        <5>1. k \in Nat
          BY <1>11
        <5>2. i \in 1 .. k /\ i # k
          BY <2>2, <3>1
        <5> QED
          BY <5>1, <5>2
      <4>2. U[i + 1] # INVALID
        BY <4>1, ChainIsUsed DEF FileInv
      <4> QED
        BY <1>11, <2>2, <4>1, <4>2
    <3> QED
      BY <3>1
  <2>4. i \in 0 .. k /\ i # 0 /\ ~(i < k)
    BY <1>11, <2>2, <2>3
  <2>5. U[i] < new
    BY <1>9, ChainIsUsed DEF FileInv
  <2>6. q = IF i = 0 THEN INVALID ELSE U[i]
    BY <2>2, <2>4
  <2>7. h.first_used_page = IF i = 0 THEN new ELSE header.first_used_page
    BY <1>8, <2>4
  <2>8. \A p \in PageIds : p < h.num_pages <=> p < header.num_pages \/ p = new
    BY <1>8, <1>10
  <2> QED
    BY <1>1, <1>3, <1>5, <1>9, <2>1, <2>4, <2>5, <2>6, <2>7, <2>8, WrittenChain
<1>14. CASE WalkFails(LastPages)
  BY <1>14, WalkFailsChain
<1> QED
  BY <1>2, <1>4, <1>6, <1>7, <1>12, <1>13, <1>14 DEF Extend

\* A page of the chain that is freed, when the one before it is linked past it.
LEMMA FreedChain ==
    ASSUME FileInv, Shape', NEW U, NEW k, UsedChain(U, k), NEW i \in 1 .. k,
           NEW p, p = U[i], NEW q, q = IF i = 1 THEN INVALID ELSE U[i - 1],
           NEW firstUsed, firstUsed = IF i = 1 THEN pages[p].next ELSE header.first_used_page,
           FreedAfter(p, q, firstUsed)
    PROVE  StaysChained(U, k)
<1>1. /\ k \in Nat /\ U \in [1 .. k -> PageIds]
      /\ \A a, b \in 1 .. k : U[a] = U[b] => a = b
      /\ \A x : x \in UsedPages <=> \E j \in 1 .. k : U[j] = x
  BY ChainFacts
<1>2. p \in PageIds
  BY <1>1
<1>3. /\ pages' = [x \in PageIds |->
                      IF x = p THEN Cleared
                      ELSE IF x = q THEN [pages[q] EXCEPT !.next = pages[p].next] ELSE pages[x]]
      /\ header' = [header EXCEPT !.first_used_page = firstUsed,
                                  !.first_free_page = p, !.num_free_pages = @ + 1]
  BY DEF FreedAfter
<1>4. header'.num_pages = header.num_pages /\ header'.first_used_page = firstUsed
  <2>1. PICK g \in HeaderRecord : g = header
    BY DEF FileInv, Shape, HeaderRecord
  <2>2. header' = [g EXCEPT !.first_used_page = firstUsed,
                            !.first_free_page = p, !.num_free_pages = @ + 1]
    BY <1>3, <2>1
  <2> QED
    BY <2>1, <2>2 DEF HeaderRecord
<1>5. ~pages'[p].used
  <2>1. pages'[p] = Cleared
    BY <1>2, <1>3
  <2> QED
    BY <2>1 DEF Cleared, Initialized
<1>6. ASSUME NEW x \in PageIds, x # p, x # q PROVE pages'[x] = pages[x]
  BY <1>3, <1>6
<1>7. ASSUME NEW x \in PageIds, x # p, x = q
      PROVE  pages'[x].next = pages[p].next /\ pages'[x].used = pages[x].used
  <2>1. PICK r \in PageRecord : r = pages[x]
    BY DEF FileInv, Shape, PageRecord
  <2>2. pages'[x] = [r EXCEPT !.next = pages[p].next]
    BY <1>3, <1>7, <2>1
  <2> QED
    BY <2>1, <2>2 DEF PageRecord
<1>8. \A x : x \in UsedPages' <=> x \in UsedPages /\ x # p
  <2>1. ASSUME NEW x \in PageIds, x # p PROVE pages'[x].used = pages[x].used
    BY <1>6, <1>7, <2>1
  <2>2. \A x : x \in UsedPages' <=> x \in PageIds /\ x < header.num_pages /\ pages'[x].used
    BY <1>4, FreeFactsNext
  <2>3. \A x : x \in UsedPages <=> x \in PageIds /\ x < header.num_pages /\ pages[x].used
    BY FreeFacts DEF FileInv
  <2> QED
    BY <1>5, <2>1, <2>2, <2>3
<1>9. PICK M, N : M = NextPages' /\ N = NextPages
  OBVIOUS
<1>10. \A x \in PageIds : N[x] = pages[x].next /\ M[x] = pages'[x].next
  BY <1>9 DEF NextPages
<1>11. i > 1 => M[U[i - 1]] = N[U[i]]
  <2>1. ASSUME i > 1 PROVE M[U[i - 1]] = N[U[i]]
    <3>1. i - 1 \in 1 .. k /\ i - 1 # i /\ i # 1
      BY <1>1, <2>1
    <3>2. U[i - 1] \in PageIds /\ U[i - 1] # p /\ U[i - 1] = q
      BY <1>1, <3>1
    <3> QED
      BY <1>2, <1>7, <1>10, <3>2
  <2> QED
    BY <2>1
<1>12. \A j \in 1 .. k : j # i /\ j # i - 1 => M[U[j]] = N[U[j]]
  <2>1. ASSUME NEW j \in 1 .. k, j # i, j # i - 1 PROVE M[U[j]] = N[U[j]]
    <3>1. U[j] \in PageIds /\ U[j] # p
      BY <1>1, <2>1
    <3>2. U[j] # q
      <4>1. CASE i = 1
        BY <3>1, <4>1 DEF PageIds, INVALID
      <4>2. CASE i # 1
        <5>1. i - 1 \in 1 .. k
          BY <1>1, <4>2
        <5> QED
          BY <1>1, <2>1, <4>2, <5>1
      <4> QED
        BY <4>1, <4>2
    <3>3. pages'[U[j]] = pages[U[j]]
      BY <1>6, <3>1, <3>2
    <3> QED
      BY <1>10, <3>1, <3>3
  <2> QED
    BY <2>1
<1>13. PICK f, g, S, T : /\ f = header.first_used_page /\ g = header'.first_used_page
                         /\ S = UsedPages /\ T = UsedPages'
  OBVIOUS
<1>14. Chained(U, k, S, f, N)
  BY <1>9, <1>13 DEF UsedChain
<1>15. PICK V : V = WithoutPage(U, k, i)
  OBVIOUS
<1>16. g = IF i = 1 THEN N[U[1]] ELSE f
  BY <1>2, <1>4, <1>10, <1>13
<1>17. \A x : x \in T <=> x \in S /\ x # U[i]
  BY <1>8, <1>13
<1>18. Chained(V, k - 1, T, g, M)
  BY <1>11, <1>12, <1>14, <1>15, <1>16, <1>17, ChainShrinks
<1>19. UsedChain(V, k - 1)'
  BY <1>9, <1>13, <1>18 DEF UsedChain
<1>20. ASSUME UsedEnds(U, k) PROVE UsedEnds(V, k - 1)'
  <2>1. Ends(U, k, f, N)
    BY <1>9, <1>13, <1>20 DEF UsedEnds
  <2>2. Ends(V, k - 1, g, M)
    BY <2>1, <1>11, <1>12, <1>14, <1>15, <1>16, ShrunkEnds
  <2> QED
    BY <2>2, <1>9, <1>13 DEF UsedEnds
<1> QED
  BY <1>19, <1>20 DEF StaysChained

LEMMA DeletePageChain ==
    ASSUME FileInv, NEW p \in PageIds, DeletePage(p), NEW U, NEW k, UsedChain(U, k)
    PROVE  StaysChained(U, k)
<1> DEFINE PointsToP == {q \in PageIds : pages[q].next = p}
<1>1. Shape'
  BY DeletePageStep DEF FileInv
<1>2. CASE Fails("InvalidPage")
  BY <1>2, SamePages DEF Fails
<1>3. CASE WalkFails(PointsToP)
  BY <1>3, WalkFailsChain
<1>4. CASE /\ Deletable(p)
           /\ \/ p = header.first_used_page /\ FreedAfter(p, INVALID, pages[p].next)
              \/ /\ p # header.first_used_page
                 /\ \/ \E q \in PageIds : /\ Finds(q, PointsToP)
                                          /\ FreedAfter(p, q, header.first_used_page)
                    \/ ReachesEnd(PointsToP)
  <2>1. p \in UsedPages
    BY <1>4, FreeFacts DEF Deletable, Readable, FileInv
  <2>2. /\ k \in Nat /\ U \in [1 .. k -> PageIds]
        /\ \A a, b \in 1 .. k : U[a] = U[b] => a = b
        /\ \A x : x \in UsedPages <=> \E j \in 1 .. k : U[j] = x
        /\ k > 0 => header.first_used_page = U[1]
        /\ \A j \in 1 .. (k - 1) : pages[U[j]].next = U[j + 1]
    BY ChainFacts
  <2>3. PICK i \in 1 .. k : U[i] = p
    BY <2>1, <2>2
  <2>4. k > 0 /\ 1 \in 1 .. k
    BY <2>2
  <2>5. CASE p = header.first_used_page /\ FreedAfter(p, INVALID, pages[p].next)
    <3>1. i = 1
      BY <2>2, <2>3, <2>4, <2>5
    <3>2. PICK q, f : q = INVALID /\ f = pages[p].next
      OBVIOUS
    <3>3. /\ q = IF i = 1 THEN INVALID ELSE U[i - 1]
          /\ f = IF i = 1 THEN pages[p].next ELSE header.first_used_page
      BY <3>1, <3>2
    <3>4. FreedAfter(p, q, f)
      BY <2>5, <3>2
    <3> QED
      BY <1>1, <2>3, <3>3, <3>4, FreedChain
  <2>6. ASSUME p # header.first_used_page
        PROVE  i # 1 /\ i - 1 \in 1 .. k /\ U[i - 1] \in PointsToP
    <3>1. i # 1
      BY <2>2, <2>3, <2>4, <2>6
    <3>2. i - 1 \in 1 .. k /\ i - 1 \in 1 .. (k - 1) /\ (i - 1) + 1 = i
      BY <2>2, <3>1
    <3>3. pages[U[i - 1]].next = p
      BY <2>2, <2>3, <3>2
    <3>4. U[i - 1] \in PageIds
      BY <2>2, <3>2
    <3> QED
      BY <3>1, <3>2, <3>3, <3>4
  <2>7. CASE /\ p # header.first_used_page
             /\ \E q \in PageIds : /\ Finds(q, PointsToP)
                                   /\ FreedAfter(p, q, header.first_used_page)
    <3>1. PICK q \in PageIds : /\ Finds(q, PointsToP)
                               /\ FreedAfter(p, q, header.first_used_page)
      BY <2>7
    <3>2. PICK m \in 1 .. k : /\ U[m] = q /\ q \in PointsToP
                              /\ \A j \in 1 .. (m - 1) : U[j] \notin PointsToP
      BY <3>1, FoundOnChain DEF FileInv
    <3>3. i # 1 /\ i - 1 \in 1 .. k /\ U[i - 1] \in PointsToP
      BY <2>6, <2>7
    <3>4. i - 1 \notin 1 .. (m - 1)
      BY <3>2, <3>3
    <3>5. m \in 1 .. (k - 1) /\ m + 1 \in 1 .. k
      BY <2>2, <3>3, <3>4
    <3>6. U[m + 1] = U[i]
      BY <2>2, <2>3, <3>2, <3>5
    <3>7. m + 1 = i
      BY <2>2, <3>5, <3>6
    <3>8. i - 1 = m
      BY <3>7
    <3>9. q = IF i = 1 THEN INVALID ELSE U[i - 1]
      BY <3>2, <3>3, <3>8
    <3>10. PICK f : f = header.first_used_page
      OBVIOUS
    <3>11. f = IF i = 1 THEN pages[p].next ELSE header.first_used_page
      BY <3>3, <3>10
    <3>12. FreedAfter(p, q, f)
      BY <3>1, <3>10
    <3> QED
      BY <1>1, <2>3, <3>9, <3>11, <3>12, FreedChain
  <2>8. CASE p # header.first_used_page /\ ReachesEnd(PointsToP)
    <3>1. \A j \in 1 .. k : U[j] \notin PointsToP
      BY <2>8, EndBehindChain DEF FileInv
    <3> QED
      BY <2>6, <2>8, <3>1
  <2> QED
    BY <1>4, <2>5, <2>7, <2>8
<1> QED
  BY <1>2, <1>3, <1>4 DEF DeletePage

\* A copy that comes back late brings no link with it.
LEMMA WritePageChain ==
    ASSUME FileInv, NEW p \in PageIds, NEW c \in Contents, WritePage(p, c),
           NEW U, NEW k, UsedChain(U, k)
    PROVE  StaysChained(U, k)
<1>1. CASE Fails("InvalidPage")
  BY <1>1, SamePages DEF Fails
<1>2. CASE ~Fails("InvalidPage")
  <2>1. /\ pages[p].used /\ pages' = [pages EXCEPT ![p] = Rewritten(p, c)]
        /\ header' = header
    BY <1>2 DEF WritePage, DeletedSinceRead
  <2>2. /\ pages'[p] = Rewritten(p, c)
        /\ \A x \in PageIds \ {p} : pages'[x] = pages[x]
    BY <2>1 DEF FileInv, Shape
  <2>3. pages'[p].used /\ pages'[p].next = pages[p].next
    BY <2>2 DEF Rewritten
  <2>4. \A x \in PageIds : pages'[x].next = pages[x].next
    BY <2>2, <2>3
  <2>5. Shape'
    BY WritePageStep DEF FileInv
  <2>6. \A x : x \in UsedPages' <=> x \in UsedPages
    BY <2>1, <2>2, <2>3, <2>5, FreeFacts, FreeFactsNext DEF FileInv
  <2> QED
    BY <2>1, <2>4, <2>6, SameLinks
<1> QED
  BY <1>1, <1>2

\* Every call leads from a chain to a chain.
LEMMA NextChain ==
    ASSUME FileInv, [Next]_vars, NEW U, NEW k, UsedChain(U, k)
    PROVE  StaysChained(U, k)
<1>1. CASE UNCHANGED vars
  BY <1>1, SamePages DEF vars
<1>2. CASE Create
  BY <1>2, SamePages, EmptyChain DEF Create, Fails
<1>3. CASE Open \/ Close \/ Remove
  BY <1>3, SamePages DEF Open, Close, Remove, Fails
<1>4. CASE AllocatePage
  BY <1>4, ReuseAtHeadChain, ReuseInsideChain, ExtendChain DEF AllocatePage
<1>5. ASSUME NEW p \in PageIds, ReadPage(p) PROVE StaysChained(U, k)
  BY <1>5, SamePages DEF ReadPage, Fails
<1>6. ASSUME NEW p \in PageIds, DeletePage(p) PROVE StaysChained(U, k)
  BY <1>6, DeletePageChain
<1>7. ASSUME NEW p \in PageIds, NEW c \in Contents, WritePage(p, c) PROVE StaysChained(U, k)
  BY <1>7, WritePageChain
<1> QED
  BY <1>1, <1>2, <1>3, <1>4, <1>5, <1>6, <1>7 DEF Next

\* ListInv holds of every file.
LEMMA ListInvariance == Spec => []ListInv
<1>1. ASSUME Init PROVE ListInv
  <2>1. FileInv
    BY <1>1, InitFile
  <2>2. header.num_pages = 1
    BY <1>1 DEF Init, NewHeader
  <2>3. Allocated = {}
    BY <2>2 DEF Allocated
  <2>4. UsedPages = {}
    BY <2>3 DEF UsedPages
  <2>5. PICK V : V = [i \in 1 .. 0 |-> INVALID]
    OBVIOUS
  <2>6. UsedChain(V, 0)
    BY <2>4, <2>5 DEF UsedChain, Chained
  <2> QED
    BY <2>1, <2>6 DEF ListInv
<1>2. ASSUME ListInv, [Next]_vars PROVE ListInv'
  <2>1. PICK U, k : UsedChain(U, k)
    BY <1>2 DEF ListInv
  <2>2. StaysChained(U, k)
    BY <1>2, <2>1, NextChain DEF ListInv
  <2>3. FileInv'
    BY <1>2, NextStep DEF ListInv
  <2>4. PICK V, m : UsedChain(V, m)'
    BY <2>2 DEF StaysChained
  <2> QED
    BY <2>3, <2>4 DEF ListInv
<1> QED
  BY <1>1, <1>2, PTL DEF Spec

\* Even when the used list runs into the free list or into itself, it meets
\* every page in use before that: no page is lost, and deletePage of a page in
\* use always finds the page before it.
THEOREM UsedPagesFound == Spec => []UsedPagesReachable
<1>1. ASSUME ListInv PROVE UsedPagesReachable
  BY <1>1, ChainReachable DEF ListInv, FileInv
<1>2. ListInv => UsedPagesReachable
  BY <1>1
<1> QED
  BY <1>2, ListInvariance, PTL

\* What UsedListExact says of a chain, in this state and in the next.
EndsAreExact == \A U, k : UsedChain(U, k) => (UsedListExact <=> UsedEnds(U, k))

\* Every call keeps the used list exact, whatever copies come back late through
\* writePage, but for a page reused while no page is in use and other pages are
\* free.
THEOREM UsedListStays == Spec => ListsPreserved
<1>1. ASSUME ListInv PROVE EndsAreExact
  BY <1>1, ExactIsEnded DEF EndsAreExact, ListInv, FileInv
<1>2. ASSUME ListInv, EndsAreExact, EndsAreExact', [Next]_vars, UsedListExact,
             ~(header.first_used_page = INVALID /\ header.num_free_pages > 1)
      PROVE  UsedListExact'
  <2>1. PICK U, k : UsedChain(U, k)
    BY <1>2 DEF ListInv
  <2>2. UsedEnds(U, k)
    BY <1>2, <2>1 DEF EndsAreExact
  <2>3. StaysChained(U, k)
    BY <1>2, <2>1, NextChain DEF ListInv
  <2>4. PICK V, m : UsedChain(V, m)' /\ UsedEnds(V, m)'
    BY <1>2, <2>2, <2>3 DEF StaysChained, SpoilsUsedList
  <2> QED
    BY <1>2, <2>4 DEF EndsAreExact
<1>3. ListInv => EndsAreExact
  BY <1>1
<1>4. ListInv /\ EndsAreExact /\ EndsAreExact' /\ [Next]_vars
      => [/\ UsedListExact
          /\ ~(header.first_used_page = INVALID /\ header.num_free_pages > 1)
          => UsedListExact']_vars
  BY <1>2
<1> QED
  BY <1>3, <1>4, ListInvariance, PTL DEF Spec, ListsPreserved

\* While the used list is exact, allocatePage returns: the iterator throws
\* nothing and its loops end.
THEOREM AllocationReturns == Spec => AllocateReturns
<1>1. ASSUME ListInv, UsedListExact, AllocatePage PROVE exc' = "none"
  <2>1. PICK U, k : UsedChain(U, k)
    BY <1>1 DEF ListInv
  <2>2. UsedEnds(U, k)
    BY <1>1, <2>1, ExactIsEnded DEF ListInv, FileInv
  <2>3. \A S : ~WalkFails(S)
    BY <1>1, <2>1, <2>2, EndedSearch DEF ListInv, FileInv, WalkFails
  <2> QED
    BY <1>1, <2>3 DEF AllocatePage, ReuseAtHead, ReuseInside, Extend, Written
<1>2. ListInv => [UsedListExact /\ AllocatePage => exc' = "none"]_vars
  BY <1>1
<1> QED
  BY <1>2, ListInvariance, PTL DEF Spec, AllocateReturns

=============================================================================
