----------------------------- MODULE BTreeProofs -----------------------------
(***************************************************************************)
(* Proofs about BTree.                                                     *)
(***************************************************************************)
EXTENDS BTree, SequenceTheorems, FiniteSetTheorems, TLAPS

-----------------------------------------------------------------------------
(***************************************************************************)
(* Searching and opening arrays.                                           *)
(***************************************************************************)
\* A set of naturals has a least element.
LEMMA LeastElement ==
    ASSUME NEW T \in SUBSET Nat, T # {}
    PROVE  \E m \in T : \A t \in T : m <= t
<1>1. PICK R : R = {nm \in Nat \X Nat : nm[1] < nm[2]}
  OBVIOUS
<1>2. IsWellFoundedOn(R, Nat)
  BY <1>1, NatLessThanWellFounded DEF OpToRel
<1>3. PICK m \in T : \A t \in T : <<t, m>> \notin R
  BY <1>2, WFMin
<1>4. ASSUME NEW t \in T, t < m PROVE FALSE
  BY <1>1, <1>3, <1>4
<1> QED
  BY <1>4

\* The first index of a set is in it, and before all others.
LEMMA LeastIsFirst ==
    ASSUME NEW S \in SUBSET Nat, S # {}
    PROVE  Least(S) \in S /\ \A j \in S : Least(S) <= j
<1>1. \E i \in S : \A j \in S : i <= j
  BY LeastElement
<1> QED
  BY <1>1 DEF Least

\* t is s opened at place i for e.
Opening(S, s, i, e, t) ==
    /\ t \in Seq(S) /\ Len(t) = Len(s) + 1
    /\ \A j \in 1 .. (Len(s) + 1) :
        t[j] = IF j < i THEN s[j] ELSE IF j = i THEN e ELSE s[j - 1]

LEMMA Opened ==
    ASSUME NEW S, NEW s \in Seq(S), NEW i \in 1 .. (Len(s) + 1), NEW e \in S
    PROVE  Opening(S, s, i, e, InsertAt(s, i, e))
<1> DEFINE a == SubSeq(s, 1, i - 1)
           b == SubSeq(s, i, Len(s))
<1>1. \A j \in 1 .. Len(s) : s[j] \in S
  OBVIOUS
<1>2. Len(s) \in Nat /\ i \in Int /\ i - 1 \in Int
  OBVIOUS
<1>3. /\ a \in Seq(S) /\ Len(a) = i - 1
      /\ \A j \in 1 .. (i - 1) : a[j] = s[j]
  <2>1. \A j \in 1 .. (i - 1) : s[j] \in S
    BY <1>1, <1>2
  <2>2. /\ a \in Seq(S)
        /\ Len(a) = IF 1 <= i - 1 THEN i - 1 - 1 + 1 ELSE 0
        /\ \A j \in 1 .. (i - 1 - 1 + 1) : a[j] = s[1 + j - 1]
    BY <2>1, <1>2, SubSeqProperties
  <2> QED
    BY <2>2, <1>2
<1>4. /\ b \in Seq(S) /\ Len(b) = Len(s) - i + 1
      /\ \A j \in 1 .. (Len(s) - i + 1) : b[j] = s[i + j - 1]
  <2>1. \A j \in i .. Len(s) : s[j] \in S
    BY <1>1, <1>2
  <2>2. /\ b \in Seq(S)
        /\ Len(b) = IF i <= Len(s) THEN Len(s) - i + 1 ELSE 0
        /\ \A j \in 1 .. (Len(s) - i + 1) : b[j] = s[i + j - 1]
    BY <2>1, <1>2, SubSeqProperties
  <2> QED
    BY <2>2, <1>2
<1> HIDE DEF a, b
<1>5. /\ <<e>> \in Seq(S) /\ Len(<<e>>) = 1 /\ <<e>>[1] = e
  OBVIOUS
<1>6. /\ a \o <<e>> \in Seq(S) /\ Len(a \o <<e>>) = i
      /\ \A j \in 1 .. i : (a \o <<e>>)[j] = IF j <= i - 1 THEN a[j] ELSE <<e>>[j - (i - 1)]
  BY <1>2, <1>3, <1>5, ConcatProperties
<1> DEFINE c == a \o <<e>>
<1> HIDE DEF c
<1>7. /\ c \o b \in Seq(S) /\ Len(c \o b) = Len(s) + 1
      /\ \A j \in 1 .. (Len(s) + 1) : (c \o b)[j] = IF j <= i THEN c[j] ELSE b[j - i]
  <2>1. c \in Seq(S) /\ Len(c) = i /\ b \in Seq(S) /\ Len(b) = Len(s) - i + 1
    BY <1>4, <1>6 DEF c
  <2>2. /\ c \o b \in Seq(S) /\ Len(c \o b) = Len(c) + Len(b)
        /\ \A j \in 1 .. (Len(c) + Len(b)) : (c \o b)[j] = IF j <= Len(c) THEN c[j] ELSE b[j - Len(c)]
    BY <2>1, ConcatProperties
  <2>3. Len(c) + Len(b) = Len(s) + 1
    BY <2>1, <1>2
  <2> QED
    BY <2>1, <2>2, <2>3
<1> DEFINE d == c \o b
<1>8. InsertAt(s, i, e) = d
  BY DEF InsertAt, a, b, c
<1>9. /\ d \in Seq(S) /\ Len(d) = Len(s) + 1
      /\ \A j \in 1 .. (Len(s) + 1) : d[j] = IF j <= i THEN c[j] ELSE b[j - i]
  BY <1>7
<1> HIDE DEF d
<1>10. ASSUME NEW j \in 1 .. (Len(s) + 1)
       PROVE  d[j] = IF j < i THEN s[j] ELSE IF j = i THEN e ELSE s[j - 1]
  <2>1. CASE j < i
    <3>1. d[j] = c[j]
      BY <2>1, <1>9, <1>2
    <3>2. c[j] = a[j]
      BY <2>1, <1>6, <1>2 DEF c
    <3>3. a[j] = s[j]
      BY <2>1, <1>3, <1>2
    <3> QED
      BY <2>1, <3>1, <3>2, <3>3
  <2>2. CASE j = i
    <3>1. d[j] = c[i] /\ c[i] = <<e>>[1]
      BY <2>2, <1>9, <1>6, <1>2 DEF c
    <3> QED
      BY <3>1, <1>5, <2>2
  <2>3. CASE j > i
    <3>1. d[j] = b[j - i]
      BY <2>3, <1>9, <1>2
    <3>2. j - i \in 1 .. (Len(s) - i + 1) /\ i + (j - i) - 1 = j - 1
      BY <2>3, <1>2
    <3>3. b[j - i] = s[i + (j - i) - 1]
      BY <3>2, <1>4
    <3>4. ~(j < i) /\ j # i
      BY <2>3, <1>2
    <3>5. b[j - i] = s[j - 1]
      BY <3>2, <3>3
    <3> QED
      BY <3>1, <3>4, <3>5
  <2> QED
    BY <2>1, <2>2, <2>3, <1>2
<1> QED
  BY <1>9, <1>8, <1>10 DEF Opening

\* The place for key: nothing before it is greater, and what follows is.
LEMMA PlaceSplits ==
    ASSUME NEW keys \in Seq(Int), NEW key \in Int
    PROVE  /\ PlaceOf(keys, key) \in 1 .. (Len(keys) + 1)
           /\ \A j \in DOMAIN keys : j < PlaceOf(keys, key) => keys[j] <= key
           /\ PlaceOf(keys, key) <= Len(keys) => keys[PlaceOf(keys, key)] > key
<1> DEFINE greater == {i \in DOMAIN keys : keys[i] > key}
<1>1. greater \in SUBSET Nat /\ DOMAIN keys = 1 .. Len(keys) /\ Len(keys) \in Nat
  OBVIOUS
<1>2. CASE greater = {}
  <2>1. PlaceOf(keys, key) = Len(keys) + 1
    BY <1>2 DEF PlaceOf
  <2> QED
    BY <1>1, <1>2, <2>1
<1>3. CASE greater # {}
  <2>1. PlaceOf(keys, key) = Least(greater)
    BY <1>3 DEF PlaceOf
  <2>2. Least(greater) \in greater /\ \A j \in greater : Least(greater) <= j
    BY <1>1, <1>3, LeastIsFirst
  <2> HIDE DEF greater
  <2>3. PICK m : m = Least(greater)
    OBVIOUS
  <2>4. m \in DOMAIN keys /\ keys[m] > key
    BY <2>2, <2>3 DEF greater
  <2>5. \A j \in DOMAIN keys : j < m => ~(keys[j] > key)
    <3>1. \A j \in DOMAIN keys : keys[j] > key => m <= j
      BY <2>2, <2>3 DEF greater
    <3> QED
      BY <3>1, <2>4, <1>1
  <2>6. \A j \in DOMAIN keys : keys[j] \in Int
    OBVIOUS
  <2> QED
    BY <2>1, <2>3, <2>4, <2>5, <2>6, <1>1
<1> QED
  BY <1>2, <1>3

\* findPageNoInNonLeaf answers one of the node's children.
LEMMA FindsChild ==
    ASSUME NEW node, node.keys \in Seq(Int), node.kids \in Seq(Nat),
           Len(node.kids) = Len(node.keys) + 1, NEW key \in Int
    PROVE  \E i \in DOMAIN node.kids : FindPageNo(node, key) = node.kids[i]
<1> DEFINE stops == {i \in DOMAIN node.keys : key <= node.keys[i]}
<1>1. stops \in SUBSET Nat /\ DOMAIN node.keys = 1 .. Len(node.keys) /\ Len(node.keys) \in Nat
      /\ DOMAIN node.kids = 1 .. (Len(node.keys) + 1)
  OBVIOUS
<1>2. CASE stops = {}
  <2>1. FindPageNo(node, key) = node.kids[Len(node.keys) + 1]
    BY <1>2 DEF FindPageNo
  <2> QED
    BY <2>1, <1>1, SMTT(20)
<1>3. CASE stops # {}
  <2>1. Least(stops) \in stops
    BY <1>1, <1>3, LeastIsFirst
  <2>2. \/ FindPageNo(node, key) = node.kids[Least(stops) + 1]
        \/ FindPageNo(node, key) = node.kids[Least(stops)]
    BY <1>3 DEF FindPageNo
  <2>3. Least(stops) \in DOMAIN node.kids /\ Least(stops) + 1 \in DOMAIN node.kids
    BY <2>1, <1>1, SMTT(20)
  <2> QED
    BY <2>2, <2>3
<1> QED
  BY <1>2, <1>3
-----------------------------------------------------------------------------
(***************************************************************************)
(* The shape of a file: heights fall by one from a node to its children,   *)
(* and level tells the nodes just above the leaves.  A child 0 is no page. *)
(***************************************************************************)
LeafPages == [kind : {"leaf"}, entries : Seq(Records), right : Nat]
NonLeafPages == [kind : {"nonleaf"}, level : {0, 1}, keys : Seq(Int), kids : Seq(Nat)]
MetaPages == [kind : {"meta"}, rootPageNo : Nat]
Files == Seq(LeafPages \cup NonLeafPages \cup MetaPages \cup {Unused})

IsLeaf(file, p) == p \in DOMAIN file /\ file[p].kind = "leaf"
IsNonLeaf(file, p) == p \in DOMAIN file /\ file[p].kind = "nonleaf"
IsNode(file, p) == IsLeaf(file, p) \/ IsNonLeaf(file, p)

LeafShape(file, h, p) ==
    /\ h[p] = 0
    /\ Len(file[p].entries) <= LeafOcc
    /\ file[p].right = 0 \/ IsLeaf(file, file[p].right)

NonLeafShape(file, h, p) ==
    /\ h[p] >= 1
    /\ file[p].level = 1 <=> h[p] = 1
    /\ Len(file[p].keys) <= NodeOcc
    /\ Len(file[p].kids) = Len(file[p].keys) + 1
    /\ file[p].keys = <<>> => h[p] = 1
    /\ \A i \in DOMAIN file[p].kids :
        file[p].kids[i] # 0 =>
            IsNode(file, file[p].kids[i]) /\ h[file[p].kids[i]] + 1 = h[p]

PageShape(file, h, p) ==
    /\ IsLeaf(file, p) => LeafShape(file, h, p)
    /\ IsNonLeaf(file, p) => NonLeafShape(file, h, p)
    /\ file[p].kind = "meta" => file[p].rootPageNo \in DOMAIN file

Shape(file, h) ==
    /\ file \in Files
    /\ h \in [DOMAIN file -> Nat]
    /\ \A p \in DOMAIN file : PageShape(file, h, p)

LEMMA PageTypes ==
    ASSUME NEW file \in Files, NEW p \in DOMAIN file
    PROVE  /\ p \in Nat \ {0} /\ p \in 1 .. Len(file) /\ Len(file) \in Nat
           /\ file[p].kind = "leaf" => file[p] \in LeafPages
           /\ file[p].kind = "nonleaf" => file[p] \in NonLeafPages
           /\ file[p].kind = "meta" => file[p] \in MetaPages
<1>1. p \in 1 .. Len(file) /\ Len(file) \in Nat
  BY DEF Files
<1>2. file[p] \in LeafPages \cup NonLeafPages \cup MetaPages \cup {Unused}
  BY <1>1 DEF Files
<1>3. Unused.kind = "unused"
  BY DEF Unused
<1> QED
  BY <1>1, <1>2, <1>3 DEF LeafPages, NonLeafPages, MetaPages

\* The step of a descent from a nonleaf: to a node one lower, or to no page.
LEMMA StepsDown ==
    ASSUME NEW file, NEW h, Shape(file, h), NEW p, IsNonLeaf(file, p), NEW key \in Int
    PROVE  \E i \in DOMAIN file[p].kids :
            /\ FindPageNo(file[p], key) = file[p].kids[i]
            /\ FindPageNo(file[p], key) # 0 =>
                /\ IsNode(file, FindPageNo(file[p], key))
                /\ h[FindPageNo(file[p], key)] + 1 = h[p]
                /\ IF file[p].level = 1 THEN IsLeaf(file, FindPageNo(file[p], key))
                   ELSE IsNonLeaf(file, FindPageNo(file[p], key))
<1>1. p \in DOMAIN file /\ file \in Files /\ file[p].kind = "nonleaf"
  BY DEF IsNonLeaf, Shape, PageShape
<1>2. file[p] \in NonLeafPages /\ NonLeafShape(file, h, p)
  BY <1>1, PageTypes DEF Shape, PageShape, IsNonLeaf
<1>3. file[p].keys \in Seq(Int) /\ file[p].kids \in Seq(Nat)
      /\ Len(file[p].kids) = Len(file[p].keys) + 1
  BY <1>2 DEF NonLeafPages, NonLeafShape
<1>4. PICK i \in DOMAIN file[p].kids : FindPageNo(file[p], key) = file[p].kids[i]
  BY <1>3, FindsChild
<1>5. PICK q : q = FindPageNo(file[p], key)
  OBVIOUS
<1>6. ASSUME q # 0
      PROVE  /\ IsNode(file, q) /\ h[q] + 1 = h[p]
             /\ IF file[p].level = 1 THEN IsLeaf(file, q) ELSE IsNonLeaf(file, q)
  <2>1. IsNode(file, q) /\ h[q] + 1 = h[p]
    BY <1>2, <1>4, <1>5, <1>6 DEF NonLeafShape
  <2>2. q \in DOMAIN file
    BY <2>1 DEF IsNode, IsLeaf, IsNonLeaf
  <2>3. h[q] \in Nat /\ h[p] \in Nat
    BY <2>2, <1>1 DEF Shape, PageShape
  <2>4. IsLeaf(file, q) => h[q] = 0
    BY <2>2 DEF Shape, PageShape, LeafShape
  <2>5. IsNonLeaf(file, q) => h[q] >= 1
    BY <2>2 DEF Shape, PageShape, NonLeafShape
  <2>6. file[p].level = 1 <=> h[p] = 1
    BY <1>2 DEF NonLeafShape
  <2> QED
    BY <2>1, <2>3, <2>4, <2>5, <2>6 DEF IsNode
<1> QED
  BY <1>4, <1>5, <1>6
-----------------------------------------------------------------------------
(***************************************************************************)
(* Descents.                                                               *)
(***************************************************************************)
\* The numbers in an array are bounded.
LEMMA Bounded ==
    ASSUME NEW N \in Nat, NEW f \in [1 .. N -> Nat]
    PROVE  \E b \in Nat : \A i \in 1 .. N : f[i] <= b
<1> DEFINE T == {m \in 0 .. N : ~\E b \in Nat : \A i \in 1 .. m : f[i] <= b}
<1>1. SUFFICES ASSUME N \in T PROVE FALSE
  OBVIOUS
<1>2. PICK m \in T : \A t \in T : m <= t
  <2>1. T \subseteq 0 .. N /\ 0 .. N \subseteq Nat
    OBVIOUS
  <2> HIDE DEF T
  <2>2. T \in SUBSET Nat /\ T # {}
    BY <1>1, <2>1
  <2> QED
    BY <2>2, LeastElement
<1>3. m # 0
  <2>1. \A i \in 1 .. 0 : f[i] <= 0
    OBVIOUS
  <2> QED
    BY <2>1
<1>4. m - 1 \notin T /\ m - 1 \in 0 .. N /\ m \in 1 .. N
  <2>1. m \in 0 .. N
    BY DEF T
  <2> HIDE DEF T
  <2> QED
    BY <1>2, <1>3, <2>1
<1>5. PICK b \in Nat : \A i \in 1 .. (m - 1) : f[i] <= b
  BY <1>4
<1> DEFINE c == IF f[m] <= b THEN b ELSE f[m]
<1>6. f[m] \in Nat /\ c \in Nat
  BY <1>4
<1>7. \A i \in 1 .. m : f[i] <= c
  <2>1. TAKE i \in 1 .. m
  <2>2. i = m \/ i \in 1 .. (m - 1)
    BY <1>4
  <2>3. f[i] \in Nat
    BY <1>4
  <2> QED
    BY <1>5, <1>6, <2>2, <2>3
<1> QED
  BY <1>6, <1>7

NextPage(file, key, w, q) ==
    IF q = 0 THEN <<0>>
    ELSE LET next == FindPageNo(file[q], key)
         IN  <<q>> \o (IF file[q].level = 1 THEN <<next>> ELSE w[next])

WalkDomain(file) == {0} \cup {n \in DOMAIN file : file[n].kind = "nonleaf"}

IsWalk(file, key, w) == w = [q \in WalkDomain(file) |-> NextPage(file, key, w, q)]

LEMMA PathIsWalk ==
    ASSUME NEW file, NEW p, NEW key
    PROVE  PathFrom(file, p, key) = (CHOOSE w : IsWalk(file, key, w))[p]
BY DEF PathFrom, IsWalk, WalkDomain, NextPage

\* The pages of height n at most.
Low(file, h, n) == {q \in WalkDomain(file) : q = 0 \/ h[q] <= n}

WalksLow(file, h, key, n, w) ==
    w = [q \in Low(file, h, n) |-> NextPage(file, key, w, q)]

\* A walk of the pages of height n reads only walks of pages of height n - 1.
LEMMA WalkExtends ==
    ASSUME NEW file, NEW h, Shape(file, h), NEW key \in Int, NEW n \in Nat \ {0},
           NEW w, WalksLow(file, h, key, n - 1, w)
    PROVE  \E v : WalksLow(file, h, key, n, v)
<1> DEFINE v == [q \in Low(file, h, n) |-> NextPage(file, key, w, q)]
           u == [q \in Low(file, h, n) |-> NextPage(file, key, v, q)]
<1>1. \A q \in Low(file, h, n - 1) : q \in Low(file, h, n) /\ v[q] = w[q]
  <2>1. TAKE q \in Low(file, h, n - 1)
  <2>2. q \in WalkDomain(file) /\ (q = 0 \/ h[q] <= n - 1)
    BY DEF Low
  <2>3. q = 0 \/ h[q] \in Nat
    BY <2>2 DEF WalkDomain, Shape, PageShape
  <2>4. q \in Low(file, h, n)
    BY <2>2, <2>3 DEF Low
  <2>5. w[q] = NextPage(file, key, w, q)
    BY DEF WalksLow
  <2> QED
    BY <2>4, <2>5
<1>2. ASSUME NEW q \in Low(file, h, n)
      PROVE  v[q] = u[q]
  <2>1. CASE q = 0
    BY <2>1 DEF NextPage
  <2>2. CASE q # 0 /\ file[q].level = 1
    BY <2>2 DEF NextPage
  <2>3. CASE q # 0 /\ file[q].level # 1
    <3>1. IsNonLeaf(file, q) /\ h[q] <= n
      BY <2>3 DEF Low, WalkDomain, IsNonLeaf
    <3>2. PICK next : next = FindPageNo(file[q], key)
      OBVIOUS
    <3>3. next # 0 => IsNonLeaf(file, next) /\ h[next] + 1 = h[q]
      BY <3>1, <3>2, <2>3, StepsDown
    <3>4. next # 0 => h[next] \in Nat /\ h[q] \in Nat
      BY <3>1, <3>3 DEF Shape, PageShape, IsNonLeaf
    <3>5. next \in Low(file, h, n - 1)
      BY <3>1, <3>3, <3>4 DEF Low, WalkDomain, IsNonLeaf
    <3>6. v[next] = w[next]
      BY <3>5, <1>1
    <3> HIDE DEF v
    <3>7. NextPage(file, key, w, q) = NextPage(file, key, v, q)
      BY <3>2, <3>6 DEF NextPage
    <3> QED
      BY <3>7 DEF v
  <2> QED
    BY <2>1, <2>2, <2>3
<1>3. v = u
  BY <1>2
<1>4. WalksLow(file, h, key, n, v)
  BY <1>3 DEF WalksLow
<1> QED
  BY <1>4

LEMMA WalkExists ==
    ASSUME NEW file, NEW h, Shape(file, h), NEW key \in Int
    PROVE  \E w : IsWalk(file, key, w)
<1> DEFINE T == {n \in Nat : ~\E w : WalksLow(file, h, key, n, w)}
<1>1. \E w : WalksLow(file, h, key, 0, w)
  <2> DEFINE w == [q \in Low(file, h, 0) |-> <<0>>]
  <2>1. Low(file, h, 0) = {0}
    <3>1. \A q \in WalkDomain(file) : q # 0 => h[q] >= 1 /\ h[q] \in Nat
      BY DEF WalkDomain, Shape, PageShape, NonLeafShape, IsNonLeaf
    <3>2. \A q \in Low(file, h, 0) : q = 0
      BY <3>1 DEF Low
    <3>3. 0 \in Low(file, h, 0)
      BY DEF Low, WalkDomain
    <3> QED
      BY <3>2, <3>3
  <2>2. \A q \in Low(file, h, 0) : w[q] = NextPage(file, key, w, q)
    BY <2>1 DEF NextPage
  <2>3. w = [q \in Low(file, h, 0) |-> NextPage(file, key, w, q)]
    BY <2>2
  <2>4. WalksLow(file, h, key, 0, w)
    BY <2>3 DEF WalksLow
  <2> QED
    BY <2>4
<1>2. T = {}
  <2>1. SUFFICES ASSUME T # {} PROVE FALSE
    OBVIOUS
  <2>2. T \in SUBSET Nat
    OBVIOUS
  <2>3. 0 \notin T
    BY <1>1
  <2>4. \A n \in Nat \ {0} : n \in T => n - 1 \in T
    BY WalkExtends
  <2> HIDE DEF T
  <2>5. PICK m \in T : \A t \in T : m <= t
    BY <2>1, <2>2, LeastElement
  <2> QED
    BY <2>2, <2>3, <2>4, <2>5
<1>3. PICK b \in Nat : \A i \in DOMAIN file : h[i] <= b
  <2>1. DOMAIN file = 1 .. Len(file) /\ Len(file) \in Nat /\ h \in [DOMAIN file -> Nat]
    BY DEF Shape, PageShape, Files
  <2> QED
    BY <2>1, Bounded
<1>4. PICK w : WalksLow(file, h, key, b, w)
  BY <1>2
<1>5. Low(file, h, b) = WalkDomain(file)
  BY <1>3 DEF Low, WalkDomain
<1>6. IsWalk(file, key, w)
  BY <1>4, <1>5 DEF WalksLow, IsWalk
<1> QED
  BY <1>6

\* A descent for key: from each nonleaf to the child found for key, and at the
\* end a leaf or no page.
IsPath(file, h, s, p, key) ==
    /\ s \in Seq(Nat) /\ Len(s) >= 2 /\ s[1] = p
    /\ \A i \in 1 .. (Len(s) - 1) :
        /\ IsNonLeaf(file, s[i])
        /\ s[i + 1] = FindPageNo(file[s[i]], key)
    /\ s[Len(s)] = 0 \/ IsLeaf(file, s[Len(s)])

\* A nonleaf followed by a path, or by a leaf, or by no page.
LEMMA PathOfOne ==
    ASSUME NEW file, NEW h, Shape(file, h), NEW p, IsNonLeaf(file, p), NEW key \in Int,
           NEW q \in Nat, q = FindPageNo(file[p], key), q = 0 \/ IsLeaf(file, q)
    PROVE  IsPath(file, h, <<p>> \o <<q>>, p, key)
<1>1. p \in Nat
  BY PageTypes DEF IsNonLeaf, Shape, PageShape
<1>2. PICK s : s = <<p>> \o <<q>>
  OBVIOUS
<1>3. s \in Seq(Nat) /\ Len(s) = 2 /\ s[1] = p /\ s[2] = q
  BY <1>1, <1>2
<1>4. 1 .. (Len(s) - 1) = {1}
  BY <1>3
<1> QED
  BY <1>2, <1>3, <1>4 DEF IsPath

LEMMA PathOfMore ==
    ASSUME NEW file, NEW h, Shape(file, h), NEW p, IsNonLeaf(file, p), NEW key \in Int,
           NEW q, q = FindPageNo(file[p], key), NEW t, IsPath(file, h, t, q, key)
    PROVE  IsPath(file, h, <<p>> \o t, p, key)
<1>1. p \in Nat
  BY PageTypes DEF IsNonLeaf, Shape, PageShape
<1>2. t \in Seq(Nat) /\ Len(t) >= 2 /\ t[1] = q /\ Len(t) \in Nat
  BY DEF IsPath
<1>3. PICK s : s = <<p>> \o t
  OBVIOUS
<1>4. /\ s \in Seq(Nat) /\ Len(s) = Len(t) + 1 /\ s[1] = p
      /\ \A i \in 2 .. (Len(t) + 1) : s[i] = t[i - 1]
  BY <1>1, <1>2, <1>3
<1>5. \A i \in 1 .. (Len(s) - 1) : s[i + 1] = t[i]
  BY <1>2, <1>4
<1>6. ASSUME NEW i \in 1 .. (Len(s) - 1)
      PROVE  IsNonLeaf(file, s[i]) /\ s[i + 1] = FindPageNo(file[s[i]], key)
  <2>1. CASE i = 1
    <3>1. s[2] = t[1]
      BY <2>1, <1>5
    <3> QED
      BY <2>1, <3>1, <1>2, <1>4
  <2>2. CASE i # 1
    <3>1. PICK j : j = i - 1
      OBVIOUS
    <3>2. j \in 1 .. (Len(t) - 1) /\ i = j + 1 /\ i \in 1 .. Len(t)
      BY <2>2, <3>1, <1>2, <1>4
    <3>3. IsNonLeaf(file, t[j]) /\ t[j + 1] = FindPageNo(file[t[j]], key)
      BY <3>2 DEF IsPath
    <3>4. s[i] = t[j] /\ s[i + 1] = t[i]
      <4>1. s[j + 1] = t[j]
        BY <3>2, <1>5, <1>2, <1>4
      <4> QED
        BY <4>1, <3>2, <1>5
    <3> QED
      BY <3>2, <3>3, <3>4
  <2> QED
    BY <2>1, <2>2
<1>7. s[Len(s)] = t[Len(t)]
  BY <1>2, <1>4
<1> QED
  BY <1>2, <1>3, <1>4, <1>6, <1>7, SMTT(20) DEF IsPath

LEMMA PathFound ==
    ASSUME NEW file, NEW h, Shape(file, h), NEW p, IsNonLeaf(file, p), NEW key \in Int
    PROVE  IsPath(file, h, PathFrom(file, p, key), p, key)
<1>1. PICK w : w = CHOOSE v : IsWalk(file, key, v)
  OBVIOUS
<1>2. IsWalk(file, key, w)
  BY <1>1, WalkExists
<1>3. \A q : PathFrom(file, q, key) = w[q]
  BY <1>1, PathIsWalk
<1>4. \A q \in WalkDomain(file) : w[q] = NextPage(file, key, w, q)
  BY <1>2 DEF IsWalk
<1> DEFINE Bad == {q \in WalkDomain(file) \ {0} : ~IsPath(file, h, w[q], q, key)}
           T == {h[q] : q \in Bad}
<1>5. T \in SUBSET Nat
  BY DEF WalkDomain, Shape, PageShape
<1>6. Bad = {}
  <2>1. SUFFICES ASSUME Bad # {} PROVE FALSE
    OBVIOUS
  <2>2. T # {}
    BY <2>1
  <2>3. PICK q \in Bad : \A t \in T : h[q] <= t
    <3> HIDE DEF Bad
    <3>1. PICK m \in T : \A t \in T : m <= t
      <4> HIDE DEF T
      <4> QED
        BY <1>5, <2>2, LeastElement
    <3> QED
      BY <3>1
  <2>4. IsNonLeaf(file, q) /\ q # 0 /\ q \in WalkDomain(file) /\ q \in DOMAIN file
    BY DEF WalkDomain, IsNonLeaf
  <2>5. PICK next : next = FindPageNo(file[q], key)
    OBVIOUS
  <2>6. /\ next # 0 => /\ IsNode(file, next) /\ h[next] + 1 = h[q]
                       /\ IF file[q].level = 1 THEN IsLeaf(file, next)
                          ELSE IsNonLeaf(file, next)
    BY <2>4, <2>5, StepsDown
  <2>7. next \in Nat
    <3>1. next = 0 \/ next \in DOMAIN file
      BY <2>6 DEF IsNode, IsLeaf, IsNonLeaf
    <3> QED
      BY <3>1, PageTypes DEF Shape, PageShape
  <2>8. w[q] = <<q>> \o (IF file[q].level = 1 THEN <<next>> ELSE w[next])
    BY <2>4, <2>5, <1>4 DEF NextPage
  <2>9. CASE file[q].level = 1
    <3>1. IsPath(file, h, <<q>> \o <<next>>, q, key)
      BY <2>4, <2>5, <2>6, <2>7, <2>9, PathOfOne
    <3> QED
      BY <3>1, <2>8, <2>9
  <2>10. CASE file[q].level # 1 /\ next = 0
    <3>1. w[0] = <<0>>
      BY <1>4 DEF WalkDomain, NextPage
    <3>2. IsPath(file, h, <<q>> \o <<next>>, q, key)
      BY <2>4, <2>5, <2>7, <2>10, PathOfOne
    <3> QED
      BY <3>1, <3>2, <2>8, <2>10
  <2>11. CASE file[q].level # 1 /\ next # 0
    <3>1. next \in WalkDomain(file) \ {0} /\ h[next] + 1 = h[q]
      BY <2>6, <2>11 DEF WalkDomain, IsNonLeaf
    <3>2. h[next] \in Nat /\ h[q] \in Nat
      BY <2>4, <2>6, <2>11 DEF Shape, PageShape, IsNonLeaf
    <3>3. next \notin Bad
      <4>1. next \in Bad => h[next] \in T
        OBVIOUS
      <4> QED
        BY <4>1, <2>3, <3>1, <3>2
    <3>4. IsPath(file, h, w[next], next, key)
      BY <3>1, <3>3
    <3>5. IsPath(file, h, <<q>> \o w[next], q, key)
      BY <2>4, <2>5, <3>4, PathOfMore
    <3> QED
      BY <3>5, <2>8, <2>11
  <2> QED
    BY <2>9, <2>10, <2>11
<1>7. p \in WalkDomain(file) \ {0}
  <2>1. p \in Nat \ {0}
    BY PageTypes DEF IsNonLeaf, Shape, PageShape
  <2> QED
    BY <2>1 DEF WalkDomain, IsNonLeaf
<1> QED
  BY <1>3, <1>6, <1>7
-----------------------------------------------------------------------------
(***************************************************************************)
(* Changing pages and adding them.                                         *)
(***************************************************************************)
\* F has the pages of file and perhaps more; none changes its kind or height.
Extends(file, h, F, g) ==
    /\ DOMAIN file \subseteq DOMAIN F
    /\ \A q \in DOMAIN file : F[q].kind = file[q].kind /\ g[q] = h[q]

LEMMA KindsKept ==
    ASSUME NEW file, NEW h, NEW F, NEW g, Extends(file, h, F, g), NEW q
    PROVE  /\ IsLeaf(file, q) => IsLeaf(F, q)
           /\ IsNonLeaf(file, q) => IsNonLeaf(F, q)
           /\ IsNode(file, q) => IsNode(F, q)
BY DEF Extends, IsLeaf, IsNonLeaf, IsNode

\* A page that was not changed still fits.
LEMMA StillFits ==
    ASSUME NEW file, NEW h, NEW F, NEW g, Extends(file, h, F, g),
           NEW p \in DOMAIN file, PageShape(file, h, p), F[p] = file[p]
    PROVE  PageShape(F, g, p)
<1>1. /\ \A q : IsLeaf(file, q) => IsLeaf(F, q)
      /\ \A q : IsNode(file, q) => IsNode(F, q) /\ g[q] = h[q]
  BY KindsKept DEF Extends, IsNode, IsLeaf, IsNonLeaf
<1>2. IsLeaf(F, p) => LeafShape(F, g, p)
  <2>1. SUFFICES ASSUME IsLeaf(F, p) PROVE LeafShape(F, g, p)
    OBVIOUS
  <2>2. IsLeaf(file, p)
    BY <2>1 DEF IsLeaf
  <2> QED
    BY <1>1, <2>2 DEF PageShape, LeafShape, Extends
<1>3. IsNonLeaf(F, p) => NonLeafShape(F, g, p)
  <2>1. SUFFICES ASSUME IsNonLeaf(F, p) PROVE NonLeafShape(F, g, p)
    OBVIOUS
  <2>2. IsNonLeaf(file, p)
    BY <2>1 DEF IsNonLeaf
  <2>3. NonLeafShape(file, h, p) /\ g[p] = h[p]
    BY <2>2 DEF PageShape, Extends
  <2> QED
    BY <1>1, <2>3 DEF NonLeafShape
<1>4. F[p].kind = "meta" => F[p].rootPageNo \in DOMAIN F
  BY DEF PageShape, Extends
<1> QED
  BY <1>2, <1>3, <1>4 DEF PageShape

\* Only the pages that are new or changed have to be looked at.
LEMMA ShapeOfChanged ==
    ASSUME NEW file, NEW h, Shape(file, h), NEW F \in Files, NEW g \in [DOMAIN F -> Nat],
           Extends(file, h, F, g),
           \A p \in DOMAIN F : (p \in DOMAIN file /\ F[p] = file[p]) \/ PageShape(F, g, p)
    PROVE  Shape(F, g)
BY StillFits DEF Shape

\* The height of the pages added to a file.
Extended(h, n, v) == [q \in 1 .. n |-> IF q \in DOMAIN h THEN h[q] ELSE v]

LEMMA Appended ==
    ASSUME NEW file \in Files, NEW h \in [DOMAIN file -> Nat], NEW v \in Nat,
           NEW page \in LeafPages \cup NonLeafPages \cup MetaPages \cup {Unused}
    PROVE  /\ Append(file, page) \in Files
           /\ Len(Append(file, page)) = Len(file) + 1
           /\ DOMAIN Append(file, page) = DOMAIN file \cup {Len(file) + 1}
           /\ Len(file) + 1 \notin DOMAIN file /\ Len(file) + 1 \in Nat \ {0}
           /\ Append(file, page)[Len(file) + 1] = page
           /\ \A q \in DOMAIN file : Append(file, page)[q] = file[q]
           /\ Extended(h, Len(file) + 1, v) \in [DOMAIN Append(file, page) -> Nat]
           /\ Extended(h, Len(file) + 1, v)[Len(file) + 1] = v
           /\ Extends(file, h, Append(file, page), Extended(h, Len(file) + 1, v))
<1>1. PICK n \in Nat : n = Len(file) /\ DOMAIN file = 1 .. n
  BY DEF Files
<1>2. /\ Append(file, page) \in Files
      /\ Len(Append(file, page)) = n + 1
      /\ DOMAIN Append(file, page) = 1 .. (n + 1)
      /\ Append(file, page)[n + 1] = page
      /\ \A q \in 1 .. n : Append(file, page)[q] = file[q]
  BY <1>1 DEF Files
<1>3. 1 .. (n + 1) = 1 .. n \cup {n + 1} /\ n + 1 \notin 1 .. n
  OBVIOUS
<1>4. /\ Extended(h, n + 1, v) \in [1 .. (n + 1) -> Nat]
      /\ Extended(h, n + 1, v)[n + 1] = v
      /\ \A q \in 1 .. n : Extended(h, n + 1, v)[q] = h[q]
  <2>1. DOMAIN h = 1 .. n /\ \A q \in 1 .. n : h[q] \in Nat
    BY <1>1
  <2> QED
    BY <2>1, <1>3 DEF Extended
<1> QED
  BY <1>1, <1>2, <1>3, <1>4 DEF Extends

LEMMA AppendCells ==
    ASSUME NEW P, NEW s \in Seq(P), NEW e \in P, NEW i \in 1 .. Len(s)
    PROVE  Append(s, e)[i] = s[i] /\ Append(s, e)[Len(s) + 1] = e
OBVIOUS

LEMMA Replaced ==
    ASSUME NEW file \in Files, NEW p \in DOMAIN file,
           NEW page \in LeafPages \cup NonLeafPages \cup MetaPages \cup {Unused}
    PROVE  /\ [file EXCEPT ![p] = page] \in Files
           /\ Len([file EXCEPT ![p] = page]) = Len(file)
           /\ DOMAIN [file EXCEPT ![p] = page] = DOMAIN file
           /\ [file EXCEPT ![p] = page][p] = page
           /\ \A q \in DOMAIN file : q # p => [file EXCEPT ![p] = page][q] = file[q]
BY DEF Files
-----------------------------------------------------------------------------
(***************************************************************************)
(* Inserting into a leaf.                                                  *)
(***************************************************************************)
\* The entries with e among them, at a place that splits the keys.
EntryAt(entries, e, w, i) ==
    /\ i \in 1 .. (Len(entries) + 1)
    /\ w \in Seq(Records)
    /\ Len(w) = Len(entries) + 1
    /\ \A j \in 1 .. (Len(entries) + 1) :
        w[j] = IF j < i THEN entries[j] ELSE IF j = i THEN e ELSE entries[j - 1]
    /\ \A j \in 1 .. Len(entries) : j < i => entries[j][1] <= e[1]
    /\ i <= Len(entries) => entries[i][1] > e[1]

LEMMA EntryPlaced ==
    ASSUME NEW entries \in Seq(Records), NEW e \in Records
    PROVE  \E i : EntryAt(entries, e, WithEntry(entries, e), i)
<1>1. PICK keys : keys = KeysOf(entries)
  OBVIOUS
<1>2. /\ keys \in Seq(Int) /\ Len(keys) = Len(entries) /\ DOMAIN keys = 1 .. Len(entries)
      /\ \A j \in 1 .. Len(entries) : keys[j] = entries[j][1]
  <2>1. \A j \in 1 .. Len(entries) : entries[j][1] \in Int
    BY RecordsAssumption
  <2>2. Len(entries) \in Nat /\ DOMAIN entries = 1 .. Len(entries)
    OBVIOUS
  <2>3. keys = [j \in 1 .. Len(entries) |-> entries[j][1]]
    BY <1>1, <2>2 DEF KeysOf
  <2> QED
    BY <2>1, <2>2, <2>3
<1>3. e[1] \in Int
  BY RecordsAssumption
<1>4. PICK i : i = PlaceOf(keys, e[1])
  OBVIOUS
<1>5. /\ i \in 1 .. (Len(keys) + 1)
      /\ \A j \in DOMAIN keys : j < i => keys[j] <= e[1]
      /\ i <= Len(keys) => keys[i] > e[1]
  BY <1>2, <1>3, <1>4, PlaceSplits
<1>6. i \in 1 .. (Len(entries) + 1)
  BY <1>2, <1>5
<1>7. WithEntry(entries, e) = InsertAt(entries, i, e)
  BY <1>1, <1>4 DEF WithEntry
<1>8. /\ WithEntry(entries, e) \in Seq(Records)
      /\ Len(WithEntry(entries, e)) = Len(entries) + 1
      /\ \A j \in 1 .. (Len(entries) + 1) : WithEntry(entries, e)[j] =
          IF j < i THEN entries[j] ELSE IF j = i THEN e ELSE entries[j - 1]
  <2>1. Opening(Records, entries, i, e, WithEntry(entries, e))
    BY <1>6, <1>7, Opened
  <2> QED
    BY <2>1 DEF Opening
<1>9. \A j \in 1 .. Len(entries) : j < i => entries[j][1] <= e[1]
  BY <1>2, <1>5
<1>10. i <= Len(entries) => entries[i][1] > e[1]
  <2>1. i <= Len(entries) => i \in 1 .. Len(entries)
    BY <1>6
  <2> QED
    BY <2>1, <1>2, <1>5
<1> QED
  BY <1>6, <1>8, <1>9, <1>10 DEF EntryAt

\* The cells splitLeafNode writes: keys from the merged array, each with the
\* rid of the first entry that has the key.
FirstRidOf(all, key) == all[Least({i \in DOMAIN all : all[i][1] = key})][2]
CellsOf(temp, all, from, to) ==
    [i \in 1 .. (to - from + 1) |-> <<temp[from + i - 1], FirstRidOf(all, temp[from + i - 1])>>]

SplitAt(file, p, temp, all, l, n) ==
    Split(Append([file EXCEPT ![p] = Leaf(CellsOf(temp, all, 1, l), n)],
                 Leaf(CellsOf(temp, all, l + 1, LeafOcc + 1), RightOf(file[p]))),
          n, temp[l + 1])

LEMMA SplitLeafParts ==
    ASSUME NEW file, NEW p, NEW e
    PROVE  SplitLeaf(file, p, e) =
            SplitAt(file, p, KeysOf(WithEntry(file[p].entries, e)), Append(file[p].entries, e),
                    (LeafOcc + 1) \div 2, Len(file) + 1)
BY DEF SplitLeaf, SplitAt, CellsOf, FirstRidOf

\* A cell is the first entry with its key.
LEMMA CellIsEntry ==
    ASSUME NEW all \in Seq(Records), NEW k, NEW m \in DOMAIN all, all[m][1] = k
    PROVE  \E j \in DOMAIN all :
            /\ <<k, FirstRidOf(all, k)>> = all[j] /\ all[j][1] = k
            /\ \A i \in DOMAIN all : all[i][1] = k => j <= i
<1> DEFINE S == {i \in DOMAIN all : all[i][1] = k}
<1>1. S \in SUBSET Nat /\ S # {}
  OBVIOUS
<1>2. PICK j : j = Least(S)
  OBVIOUS
<1>3. j \in S /\ \A i \in S : j <= i
  BY <1>1, <1>2, LeastIsFirst
<1>4. FirstRidOf(all, k) = all[j][2]
  BY <1>2 DEF FirstRidOf
<1>5. all[j] \in Records /\ all[j][1] = k
  BY <1>3
<1>6. all[j] = <<all[j][1], all[j][2]>>
  BY <1>5, RecordsAssumption
<1> QED
  BY <1>3, <1>4, <1>5, <1>6

\* Every merged key is the key of an entry.
Merged(entries, e, temp, all) ==
    /\ temp \in Seq(Int) /\ Len(temp) = Len(entries) + 1
    /\ all \in Seq(Records) /\ Len(all) = Len(entries) + 1
    /\ \A j \in 1 .. Len(temp) : temp[j] = WithEntry(entries, e)[j][1]
    /\ \A j \in 1 .. Len(temp) : \E m \in DOMAIN all : all[m] = WithEntry(entries, e)[j]

LEMMA MergedKeys ==
    ASSUME NEW entries \in Seq(Records), NEW e \in Records
    PROVE  Merged(entries, e, KeysOf(WithEntry(entries, e)), Append(entries, e))
<1> DEFINE temp == KeysOf(WithEntry(entries, e))
           all == Append(entries, e)
<1>1. PICK i \in 1 .. (Len(entries) + 1) :
            /\ WithEntry(entries, e) \in Seq(Records)
            /\ Len(WithEntry(entries, e)) = Len(entries) + 1
            /\ \A j \in 1 .. (Len(entries) + 1) : WithEntry(entries, e)[j] =
                IF j < i THEN entries[j] ELSE IF j = i THEN e ELSE entries[j - 1]
  <2>1. PICK i : EntryAt(entries, e, WithEntry(entries, e), i)
    BY EntryPlaced
  <2> QED
    BY <2>1 DEF EntryAt
<1>2. PICK w \in Seq(Records) : w = WithEntry(entries, e)
  BY <1>1
<1>3. Len(w) = Len(entries) + 1 /\ Len(entries) \in Nat
  BY <1>1, <1>2
<1>4. temp = [j \in 1 .. Len(w) |-> w[j][1]]
  BY <1>2 DEF KeysOf
<1>5. \A j \in 1 .. Len(w) : w[j][1] \in Int
  BY RecordsAssumption
<1>6. temp \in Seq(Int) /\ Len(temp) = Len(w) /\ \A j \in 1 .. Len(w) : temp[j] = w[j][1]
  BY <1>3, <1>4, <1>5
<1>7. all \in Seq(Records) /\ Len(all) = Len(entries) + 1 /\ all[Len(entries) + 1] = e
      /\ \A j \in 1 .. Len(entries) : all[j] = entries[j]
  OBVIOUS
<1>8. ASSUME NEW j \in 1 .. Len(w)
      PROVE  \E m \in DOMAIN all : all[m] = w[j]
  <2>1. w[j] = IF j < i THEN entries[j] ELSE IF j = i THEN e ELSE entries[j - 1]
    BY <1>1, <1>2, <1>3
  <2>2. CASE j < i
    BY <2>1, <2>2, <1>3, <1>7
  <2>3. CASE j = i
    BY <2>1, <2>3, <1>3, <1>7
  <2>4. CASE j > i
    <3>1. w[j] = entries[j - 1] /\ j - 1 \in 1 .. Len(entries)
      BY <2>1, <2>4, <1>3
    <3>2. j - 1 \in DOMAIN all /\ all[j - 1] = w[j]
      BY <3>1, <1>7
    <3> QED
      BY <3>2
  <2> QED
    BY <2>2, <2>3, <2>4
<1> HIDE DEF temp, all
<1>9. Merged(entries, e, temp, all)
  BY <1>2, <1>3, <1>6, <1>7, <1>8 DEF Merged
<1> QED
  BY <1>9 DEF temp, all

LEMMA CellsAreRecords ==
    ASSUME NEW temp \in Seq(Int), NEW all \in Seq(Records),
           NEW from \in 1 .. (Len(temp) + 1), NEW to \in (from - 1) .. Len(temp),
           \A j \in 1 .. Len(temp) : \E m \in DOMAIN all : all[m][1] = temp[j]
    PROVE  /\ CellsOf(temp, all, from, to) \in Seq(Records)
           /\ Len(CellsOf(temp, all, from, to)) = to - from + 1
<1>1. from \in Nat /\ to \in Nat /\ to - from + 1 \in Nat /\ Len(temp) \in Nat
  OBVIOUS
<1>2. ASSUME NEW i \in 1 .. (to - from + 1)
      PROVE  <<temp[from + i - 1], FirstRidOf(all, temp[from + i - 1])>> \in Records
  <2>1. from + i - 1 \in 1 .. Len(temp)
    BY <1>1
  <2>2. PICK k : k = temp[from + i - 1]
    OBVIOUS
  <2>3. PICK m \in DOMAIN all : all[m][1] = k
    BY <2>1, <2>2
  <2>4. PICK j \in DOMAIN all : <<k, FirstRidOf(all, k)>> = all[j]
    BY <2>3, CellIsEntry, SMTT(20)
  <2>5. all[j] \in Records
    OBVIOUS
  <2>6. <<k, FirstRidOf(all, k)>> \in Records
    BY <2>4, <2>5
  <2> QED
    BY <2>2, <2>6
<1>3. PICK n \in Nat : n = to - from + 1
  BY <1>1
<1>4. CellsOf(temp, all, from, to) \in [1 .. n -> Records]
  BY <1>2, <1>3 DEF CellsOf
<1>5. PICK c \in [1 .. n -> Records] : c = CellsOf(temp, all, from, to)
  BY <1>4
<1>6. c \in Seq(Records) /\ Len(c) = n
  OBVIOUS
<1> QED
  BY <1>3, <1>5, <1>6
-----------------------------------------------------------------------------
(***************************************************************************)
(* What an insertion into page p leaves: at most p changed, and if it was  *)
(* split, a page of its height added.                                      *)
(***************************************************************************)
Grown(file, h, r, g, p) ==
    /\ Shape(r.file, g)
    /\ Extends(file, h, r.file, g)
    /\ \A q \in DOMAIN file : q # p => r.file[q] = file[q]
    /\ r.split \in BOOLEAN
    /\ ~r.split => DOMAIN r.file = DOMAIN file
    /\ r.split => /\ r.key \in Int
                  /\ r.right = Len(file) + 1
                  /\ DOMAIN r.file = DOMAIN file \cup {r.right}
                  /\ r.right \notin DOMAIN file
                  /\ r.right \in Nat \ {0}
                  /\ IsNode(r.file, r.right)
                  /\ g[r.right] = h[p]

\* Heights after an insertion into page p.
HeightsAfter(h, r, p) == IF r.split THEN Extended(h, r.right, h[p]) ELSE h

LEMMA LeafIsLeaf ==
    ASSUME NEW entries \in Seq(Records), NEW right \in Nat
    PROVE  /\ Leaf(entries, right) \in LeafPages
           /\ Leaf(entries, right).kind = "leaf"
           /\ Leaf(entries, right).entries = entries
           /\ Leaf(entries, right).right = right
BY DEF Leaf, LeafPages

\* A leaf rewritten within its size.
LEMMA LeafReplaced ==
    ASSUME NEW file, NEW h, Shape(file, h), NEW p, IsLeaf(file, p),
           NEW entries \in Seq(Records), Len(entries) <= LeafOcc,
           NEW right \in Nat, right = 0 \/ IsLeaf(file, right)
    PROVE  /\ Shape([file EXCEPT ![p] = Leaf(entries, right)], h)
           /\ Extends(file, h, [file EXCEPT ![p] = Leaf(entries, right)], h)
<1>1. PICK F : F = [file EXCEPT ![p] = Leaf(entries, right)]
  OBVIOUS
<1>2. p \in DOMAIN file /\ file[p].kind = "leaf" /\ file \in Files /\ h \in [DOMAIN file -> Nat]
  BY DEF IsLeaf, Shape
<1>3. /\ F \in Files /\ DOMAIN F = DOMAIN file /\ F[p] = Leaf(entries, right)
      /\ \A q \in DOMAIN file : q # p => F[q] = file[q]
  BY <1>1, <1>2, LeafIsLeaf, Replaced
<1>4. Extends(file, h, F, h)
  BY <1>2, <1>3, LeafIsLeaf DEF Extends
<1>5. PageShape(F, h, p)
  <2>1. F[p].kind = "leaf" /\ F[p].entries = entries /\ F[p].right = right
    BY <1>3, LeafIsLeaf
  <2>2. right = 0 \/ IsLeaf(F, right)
    BY <1>4, KindsKept
  <2>3. h[p] = 0
    BY <1>2 DEF Shape, PageShape, LeafShape
  <2> QED
    BY <2>1, <2>2, <2>3 DEF PageShape, LeafShape, IsNonLeaf
<1>6. Shape(F, h)
  BY <1>2, <1>3, <1>4, <1>5, ShapeOfChanged
<1> QED
  BY <1>1, <1>4, <1>6

LEMMA LeafAppended ==
    ASSUME NEW file, NEW h, Shape(file, h), NEW n, n = Len(file) + 1,
           NEW entries \in Seq(Records), Len(entries) <= LeafOcc,
           NEW right \in Nat, right = 0 \/ IsLeaf(file, right)
    PROVE  /\ Shape(Append(file, Leaf(entries, right)), Extended(h, n, 0))
           /\ Extends(file, h, Append(file, Leaf(entries, right)), Extended(h, n, 0))
           /\ IsLeaf(Append(file, Leaf(entries, right)), n)
           /\ DOMAIN Append(file, Leaf(entries, right)) = DOMAIN file \cup {n}
           /\ n \notin DOMAIN file
           /\ n \in Nat \ {0}
           /\ Extended(h, n, 0)[n] = 0
           /\ \A q \in DOMAIN file : Append(file, Leaf(entries, right))[q] = file[q]
<1>1. PICK F : F = Append(file, Leaf(entries, right))
  OBVIOUS
<1>2. PICK g : g = Extended(h, n, 0)
  OBVIOUS
<1>3. file \in Files /\ h \in [DOMAIN file -> Nat]
  BY DEF Shape
<1>4. Leaf(entries, right) \in LeafPages \cup NonLeafPages \cup MetaPages \cup {Unused}
  BY LeafIsLeaf
<1>5. /\ F \in Files /\ DOMAIN F = DOMAIN file \cup {n} /\ n \notin DOMAIN file
      /\ n \in Nat \ {0} /\ F[n] = Leaf(entries, right)
      /\ \A q \in DOMAIN file : F[q] = file[q]
      /\ g \in [DOMAIN F -> Nat] /\ g[n] = 0 /\ Extends(file, h, F, g)
  BY <1>1, <1>2, <1>3, <1>4, Appended
<1>6. PageShape(F, g, n)
  <2>1. F[n].kind = "leaf" /\ F[n].entries = entries /\ F[n].right = right
    BY <1>5, LeafIsLeaf
  <2>2. right = 0 \/ IsLeaf(F, right)
    BY <1>5, KindsKept
  <2> QED
    BY <2>1, <2>2, <1>5 DEF PageShape, LeafShape, IsNonLeaf
<1>7. Shape(F, g)
  BY <1>3, <1>5, <1>6, ShapeOfChanged
<1>8. IsLeaf(F, n)
  BY <1>5, LeafIsLeaf DEF IsLeaf
<1> QED
  BY <1>1, <1>2, <1>5, <1>7, <1>8

\* Replacing a page and adding one, in either order.
LEMMA AppendCommutes ==
    ASSUME NEW file \in Files, NEW p \in DOMAIN file,
           NEW x \in LeafPages \cup NonLeafPages \cup MetaPages \cup {Unused},
           NEW y \in LeafPages \cup NonLeafPages \cup MetaPages \cup {Unused}
    PROVE  Append([file EXCEPT ![p] = x], y) = [Append(file, y) EXCEPT ![p] = x]
<1>1. PICK n \in Nat : n = Len(file) /\ DOMAIN file = 1 .. n
  BY DEF Files
<1>2. PICK f : f = [file EXCEPT ![p] = x]
  OBVIOUS
<1>3. f \in Files /\ Len(f) = n
  BY <1>1, <1>2, Replaced
<1>4. PICK a, b : a = Append(f, y) /\ b = Append(file, y)
  OBVIOUS
<1>5. /\ DOMAIN a = 1 .. (n + 1) /\ a[n + 1] = y
      /\ \A q \in 1 .. n : a[q] = f[q]
      /\ a = [q \in DOMAIN a |-> a[q]]
  <2>1. DOMAIN a = 1 .. (n + 1) /\ a[n + 1] = y /\ \A q \in 1 .. n : a[q] = f[q]
    BY <1>3, <1>4 DEF Files
  <2>2. a \in Files
    BY <1>3, <1>4 DEF Files
  <2>3. PICK S : a \in Seq(S)
    BY <2>2 DEF Files
  <2>4. a \in [1 .. Len(a) -> S]
    BY <2>3
  <2> QED
    BY <2>1, <2>4
<1>6. /\ DOMAIN b = 1 .. (n + 1) /\ b[n + 1] = y
      /\ \A q \in 1 .. n : b[q] = file[q]
  BY <1>1, <1>4 DEF Files
<1>7. PICK c : c = [b EXCEPT ![p] = x]
  OBVIOUS
<1>8. DOMAIN c = 1 .. (n + 1) /\ c = [q \in DOMAIN c |-> c[q]]
      /\ \A q \in 1 .. (n + 1) : c[q] = IF q = p THEN x ELSE b[q]
  BY <1>6, <1>7
<1>9. \A q \in 1 .. n : f[q] = IF q = p THEN x ELSE file[q]
  BY <1>1, <1>2
<1>10. \A q \in 1 .. (n + 1) : a[q] = c[q]
  <2>1. TAKE q \in 1 .. (n + 1)
  <2>2. CASE q = n + 1
    BY <2>2, <1>1, <1>5, <1>6, <1>8
  <2>3. CASE q \in 1 .. n
    BY <2>3, <1>5, <1>6, <1>8, <1>9
  <2> QED
    BY <2>2, <2>3
<1> QED
  BY <1>2, <1>4, <1>5, <1>7, <1>8, <1>10

\* The merged entries are cut into two leaves that both have room.
LEMMA LeafSplitGrows ==
    ASSUME NEW file, NEW h, Shape(file, h), NEW p, IsLeaf(file, p), NEW e \in Records,
           Len(file[p].entries) = LeafOcc
    PROVE  /\ Grown(file, h, SplitLeaf(file, p, e), HeightsAfter(h, SplitLeaf(file, p, e), p), p)
           /\ SplitLeaf(file, p, e).split
<1>1. p \in DOMAIN file /\ file \in Files /\ h \in [DOMAIN file -> Nat] /\ h[p] = 0
      /\ p \in Nat \ {0}
  BY PageTypes DEF IsLeaf, Shape, PageShape, LeafShape
<1>2. file[p] \in LeafPages
  BY <1>1, PageTypes DEF IsLeaf
<1>3. PICK entries \in Seq(Records) : entries = file[p].entries
  BY <1>2 DEF LeafPages
<1>4. PICK right \in Nat : right = file[p].right /\ (right = 0 \/ IsLeaf(file, right))
  BY <1>1, <1>2 DEF LeafPages, Shape, PageShape, LeafShape
<1>5. PICK all : all = Append(entries, e)
  OBVIOUS
<1>6. PICK temp : temp = KeysOf(WithEntry(entries, e))
  OBVIOUS
<1>7. /\ temp \in Seq(Int) /\ Len(temp) = LeafOcc + 1 /\ all \in Seq(Records)
      /\ \A j \in 1 .. Len(temp) : \E m \in DOMAIN all : all[m][1] = temp[j]
  <2>1. Merged(entries, e, temp, all)
    BY <1>5, <1>6, MergedKeys
  <2>2. \A j \in 1 .. Len(temp) : \E m \in DOMAIN all : all[m][1] = temp[j]
    BY <2>1 DEF Merged
  <2> QED
    BY <2>1, <2>2, <1>3 DEF Merged
<1>8. PICK l, n : l = (LeafOcc + 1) \div 2 /\ n = Len(file) + 1
  OBVIOUS
<1>9. LeafOcc \in Nat \ {0} /\ l \in 1 .. LeafOcc /\ n \in Nat
  BY <1>1, <1>8, LeafOccAssumption DEF Files
<1>10. PICK A, B : /\ A = CellsOf(temp, all, 1, l)
                   /\ B = CellsOf(temp, all, l + 1, LeafOcc + 1)
  OBVIOUS
<1>11. A \in Seq(Records) /\ Len(A) = l - 1 + 1
  <2>1. 1 \in 1 .. (Len(temp) + 1) /\ l \in (1 - 1) .. Len(temp)
    BY <1>7, <1>9
  <2> QED
    BY <1>7, <1>10, <2>1, CellsAreRecords
<1>12. B \in Seq(Records) /\ Len(B) = (LeafOcc + 1) - (l + 1) + 1
  <2>1. PICK from, to : from = l + 1 /\ to = LeafOcc + 1
    OBVIOUS
  <2>2. from \in 1 .. (Len(temp) + 1) /\ to \in (from - 1) .. Len(temp)
    BY <1>7, <1>9, <2>1
  <2>3. /\ CellsOf(temp, all, from, to) \in Seq(Records)
        /\ Len(CellsOf(temp, all, from, to)) = to - from + 1
    BY <1>7, <2>2, CellsAreRecords
  <2> QED
    BY <1>10, <2>1, <2>3
<1>13. Len(A) <= LeafOcc /\ Len(B) <= LeafOcc
  BY <1>9, <1>11, <1>12
<1>14. PICK F : F = Append(file, Leaf(B, right))
  OBVIOUS
<1>15. PICK g : g = Extended(h, n, 0)
  OBVIOUS
<1>16. /\ Shape(F, g) /\ Extends(file, h, F, g) /\ IsLeaf(F, n)
       /\ DOMAIN F = DOMAIN file \cup {n} /\ n \notin DOMAIN file /\ n \in Nat \ {0}
       /\ g[n] = 0 /\ \A q \in DOMAIN file : F[q] = file[q]
  <2>1. B \in Seq(Records) /\ Len(B) <= LeafOcc /\ right \in Nat /\ (right = 0 \/ IsLeaf(file, right))
        /\ n = Len(file) + 1
    BY <1>4, <1>8, <1>12, <1>13
  <2>2. /\ Shape(Append(file, Leaf(B, right)), Extended(h, n, 0))
        /\ Extends(file, h, Append(file, Leaf(B, right)), Extended(h, n, 0))
        /\ IsLeaf(Append(file, Leaf(B, right)), n)
        /\ DOMAIN Append(file, Leaf(B, right)) = DOMAIN file \cup {n}
        /\ n \notin DOMAIN file
        /\ n \in Nat \ {0}
        /\ Extended(h, n, 0)[n] = 0
        /\ \A q \in DOMAIN file : Append(file, Leaf(B, right))[q] = file[q]
    BY <2>1, LeafAppended
  <2> QED
    BY <2>2, <1>14, <1>15
<1>17. PICK G : G = [F EXCEPT ![p] = Leaf(A, n)]
  OBVIOUS
<1>18. IsLeaf(F, p)
  BY <1>16, KindsKept
<1>19. Shape(G, g) /\ Extends(F, g, G, g)
  BY <1>9, <1>11, <1>13, <1>16, <1>17, <1>18, LeafReplaced
<1>20. PICK r : r = SplitLeaf(file, p, e)
  OBVIOUS
<1>21. r = Split(Append([file EXCEPT ![p] = Leaf(A, n)], Leaf(B, right)), n, temp[l + 1])
  <2>1. all = Append(file[p].entries, e) /\ temp = KeysOf(WithEntry(file[p].entries, e))
    BY <1>3, <1>5, <1>6
  <2>2. SplitLeaf(file, p, e) = SplitAt(file, p, temp, all, l, n)
    BY <2>1, <1>8, SplitLeafParts
  <2> QED
    BY <2>2, <1>4, <1>10, <1>20 DEF SplitAt, RightOf
<1>22. Append([file EXCEPT ![p] = Leaf(A, n)], Leaf(B, right)) = G
  BY <1>1, <1>9, <1>11, <1>12, <1>14, <1>17, LeafIsLeaf, AppendCommutes, SMTT(20)
<1>23. r.file = G /\ r.split = TRUE /\ r.right = n /\ r.key = temp[l + 1]
  BY <1>21, <1>22 DEF Split
<1>24. temp[l + 1] \in Int
  BY <1>7, <1>9
<1>25. HeightsAfter(h, r, p) = g
  BY <1>1, <1>15, <1>23 DEF HeightsAfter
<1>26. DOMAIN G = DOMAIN file \cup {n} /\ \A q \in DOMAIN file : q # p => G[q] = file[q]
  <2>1. DOMAIN G = DOMAIN F /\ \A q \in DOMAIN F : q # p => G[q] = F[q]
    BY <1>17
  <2> QED
    BY <2>1, <1>16
<1>27. Extends(file, h, G, g)
  BY <1>16, <1>19 DEF Extends
<1>28. IsNode(G, n)
  BY <1>16, <1>19, KindsKept DEF IsNode
<1>29. Grown(file, h, r, g, p)
  BY <1>1, <1>8, <1>16, <1>19, <1>23, <1>24, <1>26, <1>27, <1>28 DEF Grown
<1> QED
  BY <1>20, <1>23, <1>25, <1>29

LEMMA LeafGrows ==
    ASSUME NEW file, NEW h, Shape(file, h), NEW p, IsLeaf(file, p), NEW e \in Records
    PROVE  Grown(file, h, InsertIntoLeaf(file, p, e),
                 HeightsAfter(h, InsertIntoLeaf(file, p, e), p), p)
<1>1. p \in DOMAIN file /\ file \in Files
  BY DEF IsLeaf, Shape
<1>2. file[p] \in LeafPages
  BY <1>1, PageTypes DEF IsLeaf
<1>3. PICK entries \in Seq(Records) : entries = file[p].entries
  BY <1>2 DEF LeafPages
<1>4. PICK right \in Nat : right = file[p].right /\ (right = 0 \/ IsLeaf(file, right))
  BY <1>1, <1>2 DEF LeafPages, Shape, PageShape, LeafShape
<1>5. Len(entries) \in Nat /\ Len(entries) <= LeafOcc /\ LeafOcc \in Nat
  BY <1>1, <1>3, LeafOccAssumption DEF Shape, PageShape, LeafShape
<1>6. CASE ~HasRoom(file[p])
  <2>1. Len(file[p].entries) = LeafOcc
    BY <1>3, <1>5, <1>6 DEF HasRoom
  <2>2. InsertIntoLeaf(file, p, e) = SplitLeaf(file, p, e)
    BY <1>6 DEF InsertIntoLeaf
  <2> QED
    BY <2>1, <2>2, LeafSplitGrows
<1>7. CASE HasRoom(file[p])
  <2>1. PICK w : w = WithEntry(entries, e)
    OBVIOUS
  <2>2. w \in Seq(Records) /\ Len(w) = Len(entries) + 1
    BY <2>1, EntryPlaced DEF EntryAt
  <2>3. Len(w) <= LeafOcc
    BY <2>2, <1>3, <1>5, <1>7 DEF HasRoom
  <2>4. PICK F : F = [file EXCEPT ![p] = Leaf(w, right)]
    OBVIOUS
  <2>5. Shape(F, h) /\ Extends(file, h, F, h)
    BY <2>2, <2>3, <2>4, <1>4, LeafReplaced
  <2>6. [file[p] EXCEPT !.entries = w] = Leaf(w, right)
    <3>1. PICK l \in LeafPages : l = file[p]
      BY <1>2
    <3>2. l.right = right
      BY <3>1, <1>4
    <3>3. [l EXCEPT !.entries = w] = Leaf(w, right)
      BY <3>2 DEF Leaf, LeafPages
    <3> QED
      BY <3>1, <3>3
  <2>7. [file EXCEPT ![p].entries = WithEntry(@, e)] = F
    <3>1. [file EXCEPT ![p].entries = WithEntry(@, e)]
            = [file EXCEPT ![p] = [file[p] EXCEPT !.entries = w]]
      BY <1>3, <2>1
    <3> QED
      BY <3>1, <2>4, <2>6
  <2>8. PICK r : r = InsertIntoLeaf(file, p, e)
    OBVIOUS
  <2>9. r.file = F /\ r.split = FALSE
    BY <2>7, <2>8, <1>7 DEF InsertIntoLeaf, NoSplit
  <2>10. HeightsAfter(h, r, p) = h
    BY <2>9 DEF HeightsAfter
  <2>11. DOMAIN F = DOMAIN file /\ \A q \in DOMAIN file : q # p => F[q] = file[q]
    BY <2>4
  <2>12. Grown(file, h, r, h, p)
    BY <2>5, <2>9, <2>11 DEF Grown
  <2> QED
    BY <2>8, <2>10, <2>12
<1> QED
  BY <1>6, <1>7

-----------------------------------------------------------------------------
(***************************************************************************)
(* Inserting into a nonleaf.                                               *)
(***************************************************************************)
\* node can stand at height v of the file.
Fits(file, h, v, node) ==
    /\ node \in NonLeafPages
    /\ v >= 1 /\ (node.level = 1 <=> v = 1)
    /\ Len(node.keys) <= NodeOcc
    /\ Len(node.kids) = Len(node.keys) + 1
    /\ node.keys = <<>> => v = 1
    /\ \A i \in DOMAIN node.kids :
        node.kids[i] # 0 => IsNode(file, node.kids[i]) /\ h[node.kids[i]] + 1 = v

LEMMA FitsWhereItIs ==
    ASSUME NEW file, NEW h, Shape(file, h), NEW p, IsNonLeaf(file, p)
    PROVE  /\ Fits(file, h, h[p], file[p])
           /\ p \in DOMAIN file /\ p \in Nat \ {0} /\ h[p] \in Nat /\ file \in Files
<1>1. p \in DOMAIN file /\ file[p].kind = "nonleaf" /\ file \in Files /\ h[p] \in Nat
  BY DEF IsNonLeaf, Shape
<1>2. file[p] \in NonLeafPages /\ p \in Nat \ {0}
  BY <1>1, PageTypes
<1>3. NonLeafShape(file, h, p)
  BY <1>1 DEF Shape, PageShape
<1> QED
  BY <1>1, <1>2, <1>3 DEF Fits, NonLeafShape

LEMMA FitsLater ==
    ASSUME NEW file, NEW h, NEW F, NEW g, Extends(file, h, F, g), NEW v, NEW node,
           Fits(file, h, v, node)
    PROVE  Fits(F, g, v, node)
<1>1. \A q : IsNode(file, q) => IsNode(F, q) /\ g[q] = h[q]
  BY KindsKept DEF Extends, IsNode, IsLeaf, IsNonLeaf
<1> QED
  BY <1>1 DEF Fits

LEMMA NonLeafReplaced ==
    ASSUME NEW file, NEW h, Shape(file, h), NEW p, IsNonLeaf(file, p), NEW node,
           Fits(file, h, h[p], node)
    PROVE  /\ Shape([file EXCEPT ![p] = node], h)
           /\ Extends(file, h, [file EXCEPT ![p] = node], h)
<1>1. PICK F : F = [file EXCEPT ![p] = node]
  OBVIOUS
<1>2. p \in DOMAIN file /\ file[p].kind = "nonleaf" /\ file \in Files /\ h \in [DOMAIN file -> Nat]
  BY DEF IsNonLeaf, Shape
<1>3. node \in NonLeafPages /\ node.kind = "nonleaf"
  BY DEF Fits, NonLeafPages
<1>4. /\ F \in Files /\ DOMAIN F = DOMAIN file /\ F[p] = node
      /\ \A q \in DOMAIN file : q # p => F[q] = file[q]
  BY <1>1, <1>2, <1>3, Replaced
<1>5. Extends(file, h, F, h)
  BY <1>2, <1>3, <1>4 DEF Extends
<1>6. Fits(F, h, h[p], node)
  BY <1>5, FitsLater
<1>7. PageShape(F, h, p)
  BY <1>3, <1>4, <1>6 DEF PageShape, NonLeafShape, Fits, IsLeaf
<1>8. Shape(F, h)
  BY <1>2, <1>4, <1>5, <1>7, ShapeOfChanged
<1> QED
  BY <1>1, <1>5, <1>8

LEMMA NonLeafAppended ==
    ASSUME NEW file, NEW h, Shape(file, h), NEW n, n = Len(file) + 1, NEW v \in Nat,
           NEW node, Fits(file, h, v, node)
    PROVE  /\ Shape(Append(file, node), Extended(h, n, v))
           /\ Extends(file, h, Append(file, node), Extended(h, n, v))
           /\ IsNonLeaf(Append(file, node), n)
           /\ DOMAIN Append(file, node) = DOMAIN file \cup {n}
           /\ n \notin DOMAIN file
           /\ n \in Nat \ {0}
           /\ Extended(h, n, v)[n] = v
           /\ \A q \in DOMAIN file : Append(file, node)[q] = file[q]
<1>1. PICK F : F = Append(file, node)
  OBVIOUS
<1>2. PICK g : g = Extended(h, n, v)
  OBVIOUS
<1>3. file \in Files /\ h \in [DOMAIN file -> Nat]
  BY DEF Shape
<1>4. node \in NonLeafPages /\ node.kind = "nonleaf"
  BY DEF Fits, NonLeafPages
<1>5. /\ F \in Files /\ DOMAIN F = DOMAIN file \cup {n} /\ n \notin DOMAIN file
      /\ n \in Nat \ {0} /\ F[n] = node
      /\ \A q \in DOMAIN file : F[q] = file[q]
      /\ g \in [DOMAIN F -> Nat] /\ g[n] = v /\ Extends(file, h, F, g)
  BY <1>1, <1>2, <1>3, <1>4, Appended
<1>6. Fits(F, g, g[n], node)
  BY <1>5, FitsLater
<1>7. PageShape(F, g, n)
  BY <1>4, <1>5, <1>6 DEF PageShape, NonLeafShape, Fits, IsLeaf
<1>8. Shape(F, g)
  BY <1>3, <1>5, <1>7, ShapeOfChanged
<1>9. IsNonLeaf(F, n)
  BY <1>4, <1>5 DEF IsNonLeaf
<1> QED
  BY <1>1, <1>2, <1>5, <1>8, <1>9

\* M is node with key opened at place i, and right just behind it.
OpenedAt(node, key, right, M, i) ==
    /\ i \in 1 .. (Len(node.keys) + 1)
    /\ M \in NonLeafPages /\ M.level = node.level
    /\ Len(M.keys) = Len(node.keys) + 1
    /\ Len(M.kids) = Len(node.keys) + 2
    /\ \A j \in 1 .. (Len(node.keys) + 1) : M.keys[j] =
        IF j < i THEN node.keys[j] ELSE IF j = i THEN key ELSE node.keys[j - 1]
    /\ \A j \in 1 .. (Len(node.keys) + 2) : M.kids[j] =
        IF j < i + 1 THEN node.kids[j] ELSE IF j = i + 1 THEN right ELSE node.kids[j - 1]
    /\ \A j \in 1 .. Len(node.keys) : j < i => node.keys[j] <= key
    /\ i <= Len(node.keys) => node.keys[i] > key

LEMMA KeyPlaced ==
    ASSUME NEW node \in NonLeafPages, Len(node.kids) = Len(node.keys) + 1,
           NEW key \in Int, NEW right \in Nat
    PROVE  \E i : OpenedAt(node, key, right, WithKey(node, key, right), i)
<1>1. PICK keys \in Seq(Int), kids \in Seq(Nat) : keys = node.keys /\ kids = node.kids
  BY DEF NonLeafPages
<1>2. node.level \in {0, 1} /\ Len(keys) \in Nat /\ Len(kids) = Len(keys) + 1
  BY <1>1 DEF NonLeafPages
<1>3. PICK i : i = PlaceOf(keys, key)
  OBVIOUS
<1>4. /\ i \in 1 .. (Len(keys) + 1)
      /\ \A j \in DOMAIN keys : j < i => keys[j] <= key
      /\ i <= Len(keys) => keys[i] > key
  BY <1>3, PlaceSplits
<1>5. PICK K : K = InsertAt(keys, i, key)
  OBVIOUS
<1>6. PICK C : C = InsertAt(kids, i + 1, right)
  OBVIOUS
<1>7. /\ K \in Seq(Int) /\ Len(K) = Len(keys) + 1
      /\ \A j \in 1 .. (Len(keys) + 1) :
            K[j] = IF j < i THEN keys[j] ELSE IF j = i THEN key ELSE keys[j - 1]
  <2>1. Opening(Int, keys, i, key, K)
    BY <1>4, <1>5, Opened
  <2> QED
    BY <2>1 DEF Opening
<1>8. i + 1 \in 1 .. (Len(kids) + 1)
  BY <1>2, <1>4
<1>9. /\ C \in Seq(Nat) /\ Len(C) = Len(kids) + 1
      /\ \A j \in 1 .. (Len(kids) + 1) :
            C[j] = IF j < i + 1 THEN kids[j] ELSE IF j = i + 1 THEN right ELSE kids[j - 1]
  <2>1. PICK j : j = i + 1
    OBVIOUS
  <2>2. Opening(Nat, kids, j, right, C)
    BY <1>6, <1>8, <2>1, Opened
  <2> QED
    BY <2>1, <2>2 DEF Opening
<1>10. PICK M : M = WithKey(node, key, right)
  OBVIOUS
<1>11. M = NonLeaf(node.level, K, C)
  BY <1>1, <1>3, <1>5, <1>6, <1>10 DEF WithKey
<1>12. M \in NonLeafPages /\ M.level = node.level /\ M.keys = K /\ M.kids = C
  BY <1>2, <1>7, <1>9, <1>11 DEF NonLeaf, NonLeafPages
<1>13. Len(kids) + 1 = Len(keys) + 2
  BY <1>2
<1>14. \A j \in 1 .. Len(keys) : j < i => keys[j] <= key
  BY <1>4
<1>15. OpenedAt(node, key, right, M, i)
  BY <1>1, <1>4, <1>7, <1>9, <1>12, <1>13, <1>14 DEF OpenedAt
<1> QED
  BY <1>10, <1>15

\* A node below its occupancy takes the key and the page on its right.
LEMMA WithKeyFits ==
    ASSUME NEW file, NEW h, NEW v \in Nat, NEW node, Fits(file, h, v, node),
           Len(node.keys) < NodeOcc, NEW key \in Int, NEW right \in Nat,
           IsNode(file, right), h[right] + 1 = v
    PROVE  Fits(file, h, v, WithKey(node, key, right))
<1>1. PICK M : M = WithKey(node, key, right)
  OBVIOUS
<1>2. node \in NonLeafPages /\ Len(node.kids) = Len(node.keys) + 1
  BY DEF Fits
<1>3. PICK i : OpenedAt(node, key, right, M, i)
  BY <1>1, <1>2, KeyPlaced
<1>4. Len(node.keys) \in Nat /\ DOMAIN node.kids = 1 .. (Len(node.keys) + 1)
  BY <1>2 DEF NonLeafPages
<1>5. DOMAIN M.kids = 1 .. (Len(node.keys) + 2) /\ Len(M.keys) = Len(node.keys) + 1
      /\ Len(M.kids) = Len(M.keys) + 1 /\ i \in 1 .. (Len(node.keys) + 1)
  BY <1>3, <1>4 DEF OpenedAt, NonLeafPages
<1>6. ASSUME NEW j \in DOMAIN M.kids, M.kids[j] # 0
      PROVE  IsNode(file, M.kids[j]) /\ h[M.kids[j]] + 1 = v
  <2>1. M.kids[j] = IF j < i + 1 THEN node.kids[j]
                    ELSE IF j = i + 1 THEN right ELSE node.kids[j - 1]
    BY <1>3, <1>5 DEF OpenedAt
  <2>2. CASE j = i + 1
    BY <2>1, <2>2, <1>5
  <2>3. CASE j < i + 1
    <3>1. j \in DOMAIN node.kids /\ M.kids[j] = node.kids[j]
      BY <2>1, <2>3, <1>4, <1>5
    <3> QED
      BY <3>1, <1>6 DEF Fits
  <2>4. CASE j > i + 1
    <3>1. j - 1 \in DOMAIN node.kids /\ M.kids[j] = node.kids[j - 1]
      BY <2>1, <2>4, <1>4, <1>5, SMTT(20)
    <3> QED
      BY <3>1, <1>6 DEF Fits
  <2> QED
    BY <2>2, <2>3, <2>4, <1>5
<1>7. M.keys # <<>>
  BY <1>4, <1>5
<1>8. Len(M.keys) <= NodeOcc
  BY <1>4, <1>5, NodeOccAssumption
<1>9. M \in NonLeafPages /\ M.level = node.level
  BY <1>3 DEF OpenedAt
<1>10. v >= 1 /\ (M.level = 1 <=> v = 1)
  BY <1>9 DEF Fits
<1> QED
  BY <1>1, <1>5, <1>6, <1>7, <1>8, <1>9, <1>10 DEF Fits

\* The parts of splitNonLeafNode: children are looked up by key.
PageFor(keys, kids, k) ==
    LET at == {i \in DOMAIN keys : keys[i] = k}
    IN  IF at = {} THEN 0 ELSE kids[Least(at)]
PagesFor(keys, kids, temp, from, to) ==
    [i \in 1 .. (to - from + 1) |-> PageFor(keys, kids, temp[from + i - 1])]
SplitNodeAt(file, p, temp, keys, kids, l, n) ==
    Split(Append([file EXCEPT ![p] = NonLeaf(file[p].level, SubSeq(temp, 1, l),
                                             <<file[p].kids[1]>> \o PagesFor(keys, kids, temp, 1, l))],
                 NonLeaf(file[p].level, SubSeq(temp, l + 2, NodeOcc + 1),
                         PagesFor(keys, kids, temp, l + 1, NodeOcc + 1))),
          n, temp[l + 1])

LEMMA SplitNodeParts ==
    ASSUME NEW file, NEW p, NEW key, NEW right, NEW g
    PROVE  SplitNonLeaf(file, p, key, right, g) =
            SplitNodeAt(file, p, TempKeys(file[p].keys, key, g), Append(file[p].keys, key),
                        Append(Tail(file[p].kids), right), NodeOcc \div 2, Len(file) + 1)
BY DEF SplitNonLeaf, SplitNodeAt, PagesFor, PageFor

LEMMA PageForIsKid ==
    ASSUME NEW keys, NEW kids, DOMAIN keys \in SUBSET Nat, DOMAIN keys = DOMAIN kids, NEW k
    PROVE  PageFor(keys, kids, k) = 0 \/ \E j \in DOMAIN kids : PageFor(keys, kids, k) = kids[j]
<1> DEFINE at == {i \in DOMAIN keys : keys[i] = k}
<1>1. CASE at = {}
  BY <1>1 DEF PageFor
<1>2. CASE at # {}
  <2>1. at \in SUBSET Nat
    OBVIOUS
  <2>2. Least(at) \in at
    BY <2>1, <1>2, LeastIsFirst
  <2>3. PageFor(keys, kids, k) = kids[Least(at)]
    BY <1>2 DEF PageFor
  <2> QED
    BY <2>2, <2>3
<1> QED
  BY <1>1, <1>2

LEMMA MergedNodeKeys ==
    ASSUME NEW keys \in Seq(Int), Len(keys) = NodeOcc, NEW key \in Int, NEW g \in Garbage
    PROVE  TempKeys(keys, key, g) \in Seq(Int) /\ Len(TempKeys(keys, key, g)) = NodeOcc + 1
<1>1. NodeOcc \in Nat /\ LeafOcc \in Nat \ {0} /\ LeafOcc <= NodeOcc
  BY LeafOccAssumption, NodeOccAssumption
<1>2. PICK m : m = InsertAt(keys, PlaceOf(keys, key), key)
  OBVIOUS
<1>3. m \in Seq(Int) /\ Len(m) = NodeOcc + 1
  <2>1. PICK i : i = PlaceOf(keys, key)
    OBVIOUS
  <2>2. i \in 1 .. (Len(keys) + 1)
    BY <2>1, PlaceSplits
  <2>3. Opening(Int, keys, i, key, m)
    BY <1>2, <2>1, <2>2, Opened
  <2> QED
    BY <2>3 DEF Opening
<1>4. PICK last : last = IF \E i \in DOMAIN keys : key < keys[i] THEN keys[LeafOcc] ELSE key
  OBVIOUS
<1>5. last \in Int
  <2>1. LeafOcc \in 1 .. Len(keys)
    BY <1>1
  <2> QED
    BY <2>1, <1>4
<1>6. g \in Int
  BY RecordsAssumption DEF Garbage, KeySpace
<1>7. TempKeys(keys, key, g) = [m EXCEPT ![NodeOcc + 1] = g, ![LeafOcc + 1] = last]
  BY <1>2, <1>4 DEF TempKeys
<1>8. [m EXCEPT ![NodeOcc + 1] = g] \in Seq(Int) /\ Len([m EXCEPT ![NodeOcc + 1] = g]) = NodeOcc + 1
  BY <1>1, <1>3, <1>6
<1>9. PICK m2 \in Seq(Int) : m2 = [m EXCEPT ![NodeOcc + 1] = g] /\ Len(m2) = NodeOcc + 1
  BY <1>8
<1>10. [m2 EXCEPT ![LeafOcc + 1] = last] \in Seq(Int)
       /\ Len([m2 EXCEPT ![LeafOcc + 1] = last]) = NodeOcc + 1
  BY <1>1, <1>5, <1>9
<1>11. [m EXCEPT ![NodeOcc + 1] = g, ![LeafOcc + 1] = last] = [m2 EXCEPT ![LeafOcc + 1] = last]
  BY <1>9
<1> QED
  BY <1>7, <1>10, <1>11

\* A full node is cut in two, each half with the pages of its keys.
LEMMA NodeSplitGrows ==
    ASSUME NEW file, NEW h, Shape(file, h), NEW p, IsNonLeaf(file, p),
           Len(file[p].keys) = NodeOcc, NEW key \in Int, NEW g \in Garbage,
           NEW right \in Nat \ {0}, IsNode(file, right), h[right] + 1 = h[p]
    PROVE  /\ Grown(file, h, SplitNonLeaf(file, p, key, right, g),
                    HeightsAfter(h, SplitNonLeaf(file, p, key, right, g), p), p)
           /\ SplitNonLeaf(file, p, key, right, g).split
<1>1. /\ Fits(file, h, h[p], file[p])
      /\ p \in DOMAIN file /\ p \in Nat \ {0} /\ h[p] \in Nat /\ file \in Files
      /\ h \in [DOMAIN file -> Nat]
  BY FitsWhereItIs DEF Shape
<1>2. PICK ks \in Seq(Int), cs \in Seq(Nat) : ks = file[p].keys /\ cs = file[p].kids
  BY <1>1 DEF Fits, NonLeafPages
<1>3. /\ file[p] \in NonLeafPages /\ file[p].level \in {0, 1} /\ (file[p].level = 1 <=> h[p] = 1)
      /\ h[p] >= 1 /\ Len(ks) = NodeOcc /\ Len(cs) = NodeOcc + 1
      /\ \A i \in DOMAIN cs : cs[i] # 0 => IsNode(file, cs[i]) /\ h[cs[i]] + 1 = h[p]
  BY <1>1, <1>2 DEF Fits, NonLeafPages
<1>4. PICK keys, kids : keys = Append(ks, key) /\ kids = Append(Tail(cs), right)
  OBVIOUS
<1>5. NodeOcc \in Nat \ {0, 1}
  BY NodeOccAssumption
<1>6. keys \in Seq(Int) /\ DOMAIN keys = 1 .. (NodeOcc + 1)
  BY <1>3, <1>4, <1>5
<1>7. /\ kids \in Seq(Nat) /\ DOMAIN kids = 1 .. (NodeOcc + 1)
      /\ \A i \in DOMAIN kids : kids[i] = IF i = NodeOcc + 1 THEN right ELSE cs[i + 1]
  <2>1. PICK t \in Seq(Nat) : t = Tail(cs) /\ Len(t) = NodeOcc /\ \A i \in 1 .. NodeOcc : t[i] = cs[i + 1]
    <3>1. cs # <<>>
      BY <1>3, <1>5
    <3>2. /\ Tail(cs) \in Seq(Nat) /\ Len(Tail(cs)) = Len(cs) - 1
          /\ \A i \in 1 .. Len(Tail(cs)) : Tail(cs)[i] = cs[i + 1]
      BY <3>1, HeadTailProperties
    <3>3. Len(Tail(cs)) = NodeOcc
      BY <3>2, <1>3, <1>5
    <3>4. \A i \in 1 .. NodeOcc : Tail(cs)[i] = cs[i + 1]
      BY <3>2, <3>3
    <3> QED
      BY <3>2, <3>3, <3>4, Zenon
  <2>2. kids = Append(t, right)
    BY <2>1, <1>4
  <2> QED
    BY <2>1, <2>2, <1>5
<1>8. PICK temp \in Seq(Int) : temp = TempKeys(ks, key, g) /\ Len(temp) = NodeOcc + 1
  BY <1>3, MergedNodeKeys
<1>9. PICK l, n : l = NodeOcc \div 2 /\ n = Len(file) + 1
  OBVIOUS
<1>10. l \in 1 .. (NodeOcc - 1) /\ n \in Nat
  BY <1>1, <1>5, <1>9 DEF Files
<1>11. \A k : LET q == PageFor(keys, kids, k)
              IN  q \in Nat /\ (q # 0 => IsNode(file, q) /\ h[q] + 1 = h[p])
  <2>1. TAKE k
  <2>2. PICK q : q = PageFor(keys, kids, k)
    OBVIOUS
  <2>3. q = 0 \/ \E j \in DOMAIN kids : q = kids[j]
    <3>1. DOMAIN keys \in SUBSET Nat /\ DOMAIN keys = DOMAIN kids
      BY <1>6, <1>7, <1>5
    <3> QED
      BY <2>2, <3>1, PageForIsKid
  <2>4. ASSUME NEW j \in DOMAIN kids, q = kids[j]
        PROVE  q \in Nat /\ (q # 0 => IsNode(file, q) /\ h[q] + 1 = h[p])
    <3>1. CASE j = NodeOcc + 1
      BY <1>7, <2>4, <3>1
    <3>2. CASE j # NodeOcc + 1
      <4>1. q = cs[j + 1]
        BY <1>7, <2>4, <3>2
      <4>2. j \in 1 .. (NodeOcc + 1) /\ DOMAIN cs = 1 .. (NodeOcc + 1)
        BY <1>3, <1>7
      <4>3. j + 1 \in DOMAIN cs
        BY <4>2, <3>2, <1>5
      <4> QED
        BY <4>1, <4>3, <1>3
    <3> QED
      BY <3>1, <3>2
  <2> QED
    BY <2>2, <2>3, <2>4
<1>12. PICK A, AK : AK = SubSeq(temp, 1, l) /\ A = <<cs[1]>> \o PagesFor(keys, kids, temp, 1, l)
  OBVIOUS
<1>13. PICK B, BK : BK = SubSeq(temp, l + 2, NodeOcc + 1)
                    /\ B = PagesFor(keys, kids, temp, l + 1, NodeOcc + 1)
  OBVIOUS
<1>14. AK \in Seq(Int) /\ Len(AK) = l
  <2>1. \A i \in 1 .. l : temp[i] \in Int
    BY <1>8, <1>10, <1>5
  <2>2. l \in Int /\ 1 <= l
    BY <1>10
  <2>3. SubSeq(temp, 1, l) \in Seq(Int) /\ Len(SubSeq(temp, 1, l)) = IF 1 <= l THEN l - 1 + 1 ELSE 0
    BY <2>1, <2>2, SubSeqProperties
  <2> QED
    BY <2>2, <2>3, <1>12
<1>15. BK \in Seq(Int) /\ Len(BK) = NodeOcc - l
  <2>1. \A i \in (l + 2) .. (NodeOcc + 1) : temp[i] \in Int
    BY <1>8, <1>10, <1>5
  <2>2. PICK a, b : a = l + 2 /\ b = NodeOcc + 1
    OBVIOUS
  <2>3. /\ SubSeq(temp, a, b) \in Seq(Int)
        /\ Len(SubSeq(temp, a, b)) = IF a <= b THEN b - a + 1 ELSE 0
    <3>1. a \in Int /\ b \in Int /\ \A i \in a .. b : temp[i] \in Int
      BY <2>1, <2>2, <1>5, <1>10
    <3> QED
      BY <3>1, SubSeqProperties
  <2> QED
    BY <2>2, <2>3, <1>5, <1>10, <1>13
<1>16. ASSUME NEW from \in Nat, NEW to \in Nat, to - from + 1 \in Nat
       PROVE  /\ PagesFor(keys, kids, temp, from, to) \in Seq(Nat)
              /\ Len(PagesFor(keys, kids, temp, from, to)) = to - from + 1
              /\ \A i \in DOMAIN PagesFor(keys, kids, temp, from, to) :
                    LET q == PagesFor(keys, kids, temp, from, to)[i]
                    IN  q # 0 => IsNode(file, q) /\ h[q] + 1 = h[p]
  <2>1. PICK m \in Nat : m = to - from + 1
    BY <1>16
  <2>2. PICK P : P = PagesFor(keys, kids, temp, from, to)
    OBVIOUS
  <2>3. P = [i \in 1 .. m |-> PageFor(keys, kids, temp[from + i - 1])]
    BY <2>1, <2>2 DEF PagesFor
  <2>4. P \in [1 .. m -> Nat]
    BY <2>3, <1>11
  <2>5. P \in Seq(Nat) /\ Len(P) = m /\ DOMAIN P = 1 .. m
    BY <2>4
  <2>6. \A i \in 1 .. m : P[i] # 0 => IsNode(file, P[i]) /\ h[P[i]] + 1 = h[p]
    BY <2>3, <1>11
  <2> QED
    BY <2>1, <2>2, <2>5, <2>6
<1>17. /\ B \in Seq(Nat) /\ Len(B) = NodeOcc - l + 1
       /\ \A i \in DOMAIN B : B[i] # 0 => IsNode(file, B[i]) /\ h[B[i]] + 1 = h[p]
  <2>1. l + 1 \in Nat /\ NodeOcc + 1 \in Nat /\ (NodeOcc + 1) - (l + 1) + 1 \in Nat
        /\ (NodeOcc + 1) - (l + 1) + 1 = NodeOcc - l + 1
    BY <1>5, <1>10
  <2> QED
    BY <2>1, <1>13, <1>16, ZenonT(40)
<1>18. /\ A \in Seq(Nat) /\ Len(A) = l + 1
       /\ \A i \in DOMAIN A : A[i] # 0 => IsNode(file, A[i]) /\ h[A[i]] + 1 = h[p]
  <2>1. PICK P : P = PagesFor(keys, kids, temp, 1, l)
    OBVIOUS
  <2>2. l \in Nat /\ l - 1 + 1 \in Nat /\ l - 1 + 1 = l
    BY <1>10
  <2>3. /\ P \in Seq(Nat) /\ Len(P) = l
        /\ \A i \in DOMAIN P : P[i] # 0 => IsNode(file, P[i]) /\ h[P[i]] + 1 = h[p]
    BY <2>1, <2>2, <1>16
  <2>4. A = <<cs[1]>> \o P
    BY <2>1, <1>12
  <2>5. 1 \in DOMAIN cs /\ cs[1] \in Nat
    BY <1>3, <1>5
  <2>6. A \in Seq(Nat) /\ Len(A) = l + 1 /\ A[1] = cs[1]
        /\ \A i \in 2 .. (l + 1) : A[i] = P[i - 1]
    BY <2>2, <2>3, <2>4, <2>5
  <2>7. ASSUME NEW i \in DOMAIN A, A[i] # 0
        PROVE  IsNode(file, A[i]) /\ h[A[i]] + 1 = h[p]
    <3>1. CASE i = 1
      BY <3>1, <2>5, <2>6, <2>7, <1>3
    <3>2. CASE i # 1
      <4>1. DOMAIN A = 1 .. (l + 1) /\ DOMAIN P = 1 .. l
        BY <2>3, <2>6
      <4>2. i \in 2 .. (l + 1) /\ i - 1 \in 1 .. l
        BY <4>1, <3>2, <2>2, <2>7
      <4>3. A[i] = P[i - 1]
        BY <4>2, <2>6
      <4> QED
        BY <4>1, <4>2, <4>3, <2>3, <2>7
    <3> QED
      BY <3>1, <3>2
  <2> QED
    BY <2>6, <2>7
<1>19. PICK N1, N2 : N1 = NonLeaf(file[p].level, AK, A) /\ N2 = NonLeaf(file[p].level, BK, B)
  OBVIOUS
<1>20. Fits(file, h, h[p], N1)
  <2>1. N1 \in NonLeafPages /\ N1.level = file[p].level /\ N1.keys = AK /\ N1.kids = A
    BY <1>3, <1>14, <1>18, <1>19 DEF NonLeaf, NonLeafPages
  <2>2. Len(AK) <= NodeOcc /\ Len(A) = Len(AK) + 1 /\ AK # <<>>
    BY <1>5, <1>10, <1>14, <1>18
  <2> QED
    BY <2>1, <2>2, <1>3, <1>18 DEF Fits
<1>21. Fits(file, h, h[p], N2)
  <2>1. N2 \in NonLeafPages /\ N2.level = file[p].level /\ N2.keys = BK /\ N2.kids = B
    BY <1>3, <1>15, <1>17, <1>19 DEF NonLeaf, NonLeafPages
  <2>2. Len(BK) <= NodeOcc /\ Len(B) = Len(BK) + 1 /\ BK # <<>>
    BY <1>5, <1>10, <1>15, <1>17
  <2> QED
    BY <2>1, <2>2, <1>3, <1>17 DEF Fits
<1>22. PICK F, f : F = Append(file, N2) /\ f = Extended(h, n, h[p])
  OBVIOUS
<1>23. /\ Shape(F, f) /\ Extends(file, h, F, f) /\ IsNonLeaf(F, n)
       /\ DOMAIN F = DOMAIN file \cup {n} /\ n \notin DOMAIN file /\ n \in Nat \ {0}
       /\ f[n] = h[p] /\ \A q \in DOMAIN file : F[q] = file[q]
  <2>1. PICK v \in Nat : v = h[p]
    BY <1>1
  <2>2. Fits(file, h, v, N2) /\ n = Len(file) + 1
    BY <2>1, <1>9, <1>21
  <2>3. /\ Shape(Append(file, N2), Extended(h, n, v))
        /\ Extends(file, h, Append(file, N2), Extended(h, n, v))
        /\ IsNonLeaf(Append(file, N2), n)
        /\ DOMAIN Append(file, N2) = DOMAIN file \cup {n}
        /\ n \notin DOMAIN file
        /\ n \in Nat \ {0}
        /\ Extended(h, n, v)[n] = v
        /\ \A q \in DOMAIN file : Append(file, N2)[q] = file[q]
    BY <2>1, <2>2, NonLeafAppended
  <2> QED
    BY <2>1, <2>3, <1>22
<1>24. PICK G : G = [F EXCEPT ![p] = N1]
  OBVIOUS
<1>25. f[p] = h[p] /\ IsNonLeaf(F, p) /\ Fits(F, f, f[p], N1)
  <2>1. f[p] = h[p] /\ IsNonLeaf(F, p)
    BY <1>1, <1>23, KindsKept DEF Extends
  <2>2. Fits(F, f, h[p], N1)
    BY <1>20, <1>23, FitsLater
  <2> QED
    BY <2>1, <2>2
<1>26. Shape(G, f) /\ Extends(F, f, G, f)
  BY <1>23, <1>24, <1>25, NonLeafReplaced
<1>27. PICK r : r = SplitNonLeaf(file, p, key, right, g)
  OBVIOUS
<1>28. r = Split(Append([file EXCEPT ![p] = N1], N2), n, temp[l + 1])
  <2>1. r = SplitNodeAt(file, p, temp, keys, kids, l, n)
    BY <1>2, <1>4, <1>8, <1>9, <1>27, SplitNodeParts
  <2> QED
    BY <2>1, <1>2, <1>12, <1>13, <1>19 DEF SplitNodeAt
<1>29. Append([file EXCEPT ![p] = N1], N2) = G
  <2>1. N1 \in NonLeafPages /\ N2 \in NonLeafPages
    BY <1>20, <1>21 DEF Fits
  <2> QED
    BY <2>1, <1>1, <1>22, <1>24, AppendCommutes
<1>30. r.file = G /\ r.split = TRUE /\ r.right = n /\ r.key = temp[l + 1]
  BY <1>28, <1>29 DEF Split
<1>31. temp[l + 1] \in Int
  BY <1>8, <1>5, <1>10
<1>32. HeightsAfter(h, r, p) = f
  BY <1>22, <1>30 DEF HeightsAfter
<1>33. DOMAIN G = DOMAIN file \cup {n} /\ \A q \in DOMAIN file : q # p => G[q] = file[q]
  <2>1. DOMAIN G = DOMAIN F /\ \A q \in DOMAIN F : q # p => G[q] = F[q]
    BY <1>24
  <2> QED
    BY <2>1, <1>23
<1>34. Extends(file, h, G, f)
  BY <1>23, <1>26 DEF Extends
<1>35. IsNode(G, n)
  BY <1>23, <1>26, KindsKept DEF IsNode
<1>36. Grown(file, h, r, f, p)
  BY <1>9, <1>23, <1>26, <1>30, <1>31, <1>33, <1>34, <1>35 DEF Grown
<1> QED
  BY <1>27, <1>30, <1>32, <1>36

LEMMA NodeGrows ==
    ASSUME NEW file, NEW h, Shape(file, h), NEW p, IsNonLeaf(file, p),
           NEW key \in Int, NEW g \in Garbage,
           NEW right \in Nat \ {0}, IsNode(file, right), h[right] + 1 = h[p]
    PROVE  Grown(file, h, InsertIntoNonLeaf(file, p, key, right, g),
                 HeightsAfter(h, InsertIntoNonLeaf(file, p, key, right, g), p), p)
<1>1. /\ Fits(file, h, h[p], file[p])
      /\ p \in DOMAIN file /\ h[p] \in Nat /\ file \in Files
  BY FitsWhereItIs
<1>2. Len(file[p].keys) \in Nat /\ Len(file[p].keys) <= NodeOcc /\ NodeOcc \in Nat
  BY <1>1, NodeOccAssumption DEF Fits, NonLeafPages
<1>3. CASE Len(file[p].keys) < NodeOcc
  <2>1. PICK node : node = WithKey(file[p], key, right)
    OBVIOUS
  <2>2. Fits(file, h, h[p], node)
    BY <1>1, <1>3, <2>1, WithKeyFits
  <2>3. PICK F : F = [file EXCEPT ![p] = node]
    OBVIOUS
  <2>4. Shape(F, h) /\ Extends(file, h, F, h)
    BY <2>2, <2>3, NonLeafReplaced
  <2>5. PICK r : r = InsertIntoNonLeaf(file, p, key, right, g)
    OBVIOUS
  <2>6. r.file = F /\ r.split = FALSE
    BY <1>3, <2>1, <2>3, <2>5 DEF InsertIntoNonLeaf, NoSplit
  <2>7. HeightsAfter(h, r, p) = h
    BY <2>6 DEF HeightsAfter
  <2>8. DOMAIN F = DOMAIN file /\ \A q \in DOMAIN file : q # p => F[q] = file[q]
    BY <2>3
  <2>9. Grown(file, h, r, h, p)
    BY <2>4, <2>6, <2>8 DEF Grown
  <2> QED
    BY <2>5, <2>7, <2>9
<1>4. CASE ~(Len(file[p].keys) < NodeOcc)
  <2>1. Len(file[p].keys) = NodeOcc
    BY <1>2, <1>4
  <2>2. InsertIntoNonLeaf(file, p, key, right, g) = SplitNonLeaf(file, p, key, right, g)
    BY <1>4 DEF InsertIntoNonLeaf
  <2> QED
    BY <2>1, <2>2, NodeSplitGrows
<1> QED
  BY <1>3, <1>4

-----------------------------------------------------------------------------
(***************************************************************************)
(* Routing.  R gives for each page the keys whose descent goes through it; *)
(* the separators of a node share its keys out among its children.         *)
(* LeafOcc and NodeOcc are the same from here on, and no two records have  *)
(* the same key.                                                           *)
(***************************************************************************)
OneSize == LeafOcc = NodeOcc
KeysDiffer == \A a, b \in Records : a[1] = b[1] => a = b

Increasing(keys) == \A i, j \in DOMAIN keys : i < j => keys[i] < keys[j]

\* k is on the right of separator i - 1 and on the left of separator i.
RouteTo(keys, k, i) ==
    /\ i \in 1 .. (Len(keys) + 1)
    /\ i > 1 => keys[i - 1] <= k
    /\ i <= Len(keys) => k < keys[i]

LeafRouted(S, leaf) ==
    /\ \A i, j \in DOMAIN leaf.entries : i < j => leaf.entries[i][1] < leaf.entries[j][1]
    /\ \A i \in DOMAIN leaf.entries : leaf.entries[i][1] \in S

NodeRouted(Q, S, node) ==
    /\ Increasing(node.keys)
    /\ \A i \in DOMAIN node.keys : node.keys[i] \in S
    /\ \A i \in DOMAIN node.kids :
        /\ node.kids[i] # 0
        /\ \A k \in Int : k \in Q[node.kids[i]] <=> k \in S /\ RouteTo(node.keys, k, i)

\* No page of the same height shares a key with p.
Apart(file, h, R, p) ==
    \A q \in DOMAIN file : IsNode(file, q) /\ q # p /\ h[q] = h[p] => R[p] \cap R[q] = {}

\* The keys of page p are in S, and shared out as Q says.
PageRouted(file, Q, S, p) ==
    /\ IsLeaf(file, p) => LeafRouted(S, file[p])
    /\ IsNonLeaf(file, p) => \/ \A i \in DOMAIN file[p].kids : file[p].kids[i] = 0
                             \/ NodeRouted(Q, S, file[p])

\* Q: the keys its parent sends to a page.  Q = R but while a page is split.
Routed(file, h, R, Q) ==
    /\ R \in [DOMAIN file -> SUBSET Int] /\ Q \in [DOMAIN file -> SUBSET Int]
    /\ \A p \in DOMAIN file :
        /\ PageRouted(file, Q, R[p], p)
        /\ IsNode(file, p) => R[p] # {} /\ Apart(file, h, R, p)

\* S is cut at key: A has what is less, and B the rest.
CutAt(S, key, A, B) ==
    /\ key \in S /\ \E k \in S : k < key
    /\ A = {k \in S : k < key}
    /\ B = {k \in S : k >= key}

\* A key is sent to one child.
LEMMA RouteExists ==
    ASSUME NEW keys \in Seq(Int), NEW k \in Int
    PROVE  \E i : RouteTo(keys, k, i)
<1>1. PICK i : i = PlaceOf(keys, k)
  OBVIOUS
<1>2. /\ i \in 1 .. (Len(keys) + 1)
      /\ \A j \in DOMAIN keys : j < i => keys[j] <= k
      /\ i <= Len(keys) => keys[i] > k
  BY <1>1, PlaceSplits
<1>3. i > 1 => i - 1 \in DOMAIN keys /\ i - 1 < i
  BY <1>2
<1>4. i <= Len(keys) => k < keys[i]
  <2>1. i <= Len(keys) => keys[i] \in Int
    BY <1>2
  <2> QED
    BY <2>1, <1>2
<1> QED
  BY <1>2, <1>3, <1>4 DEF RouteTo

LEMMA RouteIsOne ==
    ASSUME NEW keys \in Seq(Int), Increasing(keys), NEW k \in Int, NEW i, NEW j,
           RouteTo(keys, k, i), RouteTo(keys, k, j)
    PROVE  i = j
<1>1. /\ i \in 1 .. (Len(keys) + 1) /\ j \in 1 .. (Len(keys) + 1) /\ Len(keys) \in Nat
      /\ \A m \in 1 .. Len(keys) : keys[m] \in Int
      /\ \A m, n \in 1 .. Len(keys) : m < n => keys[m] < keys[n]
  BY DEF RouteTo, Increasing
<1>2. ASSUME NEW m \in 1 .. (Len(keys) + 1), NEW n \in 1 .. (Len(keys) + 1), m < n,
             RouteTo(keys, k, m), RouteTo(keys, k, n)
      PROVE  FALSE
  <2>1. m \in 1 .. Len(keys) /\ n - 1 \in 1 .. Len(keys) /\ m <= n - 1 /\ n > 1
    BY <1>1, <1>2
  <2>2. k < keys[m] /\ keys[n - 1] <= k
    BY <1>2, <2>1 DEF RouteTo
  <2>3. m = n - 1 \/ keys[m] < keys[n - 1]
    BY <1>1, <2>1
  <2> QED
    BY <1>1, <2>1, <2>2, <2>3
<1> QED
  BY <1>1, <1>2

\* findPageNoInNonLeaf goes where the separators send the key.
LEMMA FindsRoute ==
    ASSUME NEW node, node.keys \in Seq(Int), Increasing(node.keys), NEW key \in Int
    PROVE  \E i : RouteTo(node.keys, key, i) /\ FindPageNo(node, key) = node.kids[i]
<1> DEFINE stops == {i \in DOMAIN node.keys : key <= node.keys[i]}
<1>1. PICK keys \in Seq(Int) : keys = node.keys
  OBVIOUS
<1>2. /\ Len(keys) \in Nat /\ DOMAIN keys = 1 .. Len(keys) /\ Increasing(keys)
      /\ \A m \in 1 .. Len(keys) : keys[m] \in Int
  BY <1>1
<1>3. stops \in SUBSET Nat /\ stops = {i \in 1 .. Len(keys) : key <= keys[i]}
  BY <1>1, <1>2
<1>4. CASE stops = {}
  <2>1. FindPageNo(node, key) = node.kids[Len(keys) + 1]
    BY <1>1, <1>4 DEF FindPageNo
  <2>2. \A m \in 1 .. Len(keys) : keys[m] <= key
    BY <1>2, <1>3, <1>4
  <2>3. Len(keys) + 1 \in 1 .. (Len(keys) + 1) /\ ~(Len(keys) + 1 <= Len(keys))
        /\ Len(keys) + 1 - 1 = Len(keys) /\ (Len(keys) + 1 > 1 => Len(keys) \in 1 .. Len(keys))
    BY <1>2
  <2>4. RouteTo(keys, key, Len(keys) + 1)
    BY <2>2, <2>3 DEF RouteTo
  <2> QED
    BY <1>1, <2>1, <2>4
<1>5. CASE stops # {}
  <2>1. PICK i : i = Least(stops)
    OBVIOUS
  <2>2. i \in stops /\ \A j \in stops : i <= j
    BY <1>3, <1>5, <2>1, LeastIsFirst
  <2>3. i \in 1 .. Len(keys) /\ key <= keys[i]
    BY <1>3, <2>2
  <2>4. \A m \in 1 .. Len(keys) : m < i => keys[m] <= key
    <3>1. TAKE m \in 1 .. Len(keys)
    <3>2. HAVE m < i
    <3>3. m \notin stops
      BY <3>2, <2>2, <2>3
    <3> QED
      BY <3>3, <1>2, <1>3
  <2>5. i > 1 => i - 1 \in 1 .. Len(keys) /\ i - 1 < i
    BY <1>2, <2>3
  <2>6. CASE key = keys[i]
    <3>1. FindPageNo(node, key) = node.kids[i + 1]
      BY <1>1, <1>5, <2>1, <2>6 DEF FindPageNo
    <3>2. i + 1 \in 1 .. (Len(keys) + 1) /\ i + 1 - 1 = i
      BY <1>2, <2>3
    <3>3. i + 1 <= Len(keys) => i + 1 \in 1 .. Len(keys) /\ i < i + 1
      BY <1>2, <2>3
    <3>4. i + 1 <= Len(keys) => key < keys[i + 1]
      BY <3>3, <2>3, <2>6, <1>2 DEF Increasing
    <3>5. keys[i] <= key
      BY <2>3, <2>6, <1>2
    <3>6. RouteTo(keys, key, i + 1)
      <4>1. PICK j : j = i + 1
        OBVIOUS
      <4>2. j \in 1 .. (Len(keys) + 1) /\ j - 1 = i
        BY <3>2, <2>3, <1>2, <4>1
      <4>3. keys[j - 1] <= key /\ (j <= Len(keys) => key < keys[j])
        BY <3>4, <3>5, <4>1, <4>2
      <4> QED
        BY <4>1, <4>2, <4>3 DEF RouteTo
    <3> QED
      BY <1>1, <3>1, <3>6
  <2>7. CASE key # keys[i]
    <3>1. FindPageNo(node, key) = node.kids[i]
      BY <1>1, <1>5, <2>1, <2>7 DEF FindPageNo
    <3>2. key < keys[i] /\ i \in 1 .. (Len(keys) + 1)
      BY <1>2, <2>3, <2>7
    <3>3. RouteTo(keys, key, i)
      BY <2>4, <2>5, <3>2 DEF RouteTo
    <3> QED
      BY <1>1, <3>1, <3>3
  <2> QED
    BY <2>6, <2>7
<1> QED
  BY <1>4, <1>5

\* A descent keeps to pages that stand for its key.
LEMMA StepRouted ==
    ASSUME NEW file, NEW h, NEW R, Shape(file, h), Routed(file, h, R, R),
           NEW p, IsNonLeaf(file, p), NEW key \in Int, key \in R[p],
           FindPageNo(file[p], key) # 0
    PROVE  key \in R[FindPageNo(file[p], key)]
<1>1. p \in DOMAIN file /\ Fits(file, h, h[p], file[p])
  BY FitsWhereItIs
<1>2. PICK i \in DOMAIN file[p].kids : FindPageNo(file[p], key) = file[p].kids[i]
  BY StepsDown
<1>3. NodeRouted(R, R[p], file[p])
  BY <1>1, <1>2 DEF Routed, PageRouted
<1>4. file[p].keys \in Seq(Int) /\ Increasing(file[p].keys)
  BY <1>1, <1>3 DEF Fits, NonLeafPages, NodeRouted
<1>5. PICK j : RouteTo(file[p].keys, key, j) /\ FindPageNo(file[p], key) = file[p].kids[j]
  BY <1>4, FindsRoute
<1>6. j \in DOMAIN file[p].kids
  BY <1>1, <1>5 DEF RouteTo, Fits, NonLeafPages
<1> QED
  BY <1>3, <1>5, <1>6 DEF NodeRouted

-----------------------------------------------------------------------------
(***************************************************************************)
(* Cutting arrays.                                                         *)
(***************************************************************************)
\* The entries of a leaf and a new one, in order.
MergedWell(S, leaf, e, w) ==
    /\ w \in Seq(Records) /\ Len(w) = Len(leaf.entries) + 1
    /\ \A i, j \in DOMAIN w : i < j => w[i][1] < w[j][1]
    /\ \A i \in DOMAIN w : w[i][1] \in S
    /\ \A x : (\E i \in DOMAIN w : w[i] = x)
                 <=> x = e \/ \E i \in DOMAIN leaf.entries : leaf.entries[i] = x

LEMMA MergedIncreasing ==
    ASSUME NEW S, NEW leaf, leaf.entries \in Seq(Records), LeafRouted(S, leaf),
           NEW e \in Records, e[1] \in S,
           \A i \in DOMAIN leaf.entries : leaf.entries[i][1] # e[1],
           NEW w, w = WithEntry(leaf.entries, e)
    PROVE  MergedWell(S, leaf, e, w)
<1>1. PICK es \in Seq(Records) : es = leaf.entries
  OBVIOUS
<1>2. /\ Len(es) \in Nat /\ DOMAIN es = 1 .. Len(es)
      /\ \A i, j \in 1 .. Len(es) : i < j => es[i][1] < es[j][1]
      /\ \A i \in 1 .. Len(es) : es[i][1] \in S /\ es[i][1] # e[1] /\ es[i][1] \in Int
      /\ e[1] \in Int
  BY <1>1, RecordsAssumption DEF LeafRouted
<1>3. PICK i \in 1 .. (Len(es) + 1) :
            /\ w \in Seq(Records)
            /\ Len(w) = Len(es) + 1
            /\ \A j \in 1 .. (Len(es) + 1) : w[j] =
                IF j < i THEN es[j] ELSE IF j = i THEN e ELSE es[j - 1]
            /\ \A j \in 1 .. Len(es) : j < i => es[j][1] <= e[1]
            /\ i <= Len(es) => es[i][1] > e[1]
  <2>1. PICK i : EntryAt(es, e, w, i)
    BY <1>1, EntryPlaced
  <2> QED
    BY <2>1 DEF EntryAt
<1>4. DOMAIN w = 1 .. (Len(es) + 1)
  BY <1>3
<1>5. \A j \in 1 .. Len(es) : j < i => es[j][1] < e[1]
  BY <1>2, <1>3
<1>6. \A j \in 1 .. Len(es) : i <= j => es[j][1] > e[1]
  <2>1. TAKE j \in 1 .. Len(es)
  <2>2. HAVE i <= j
  <2>3. i \in 1 .. Len(es) /\ es[i][1] > e[1]
    BY <2>2, <1>2, <1>3
  <2>4. i = j \/ es[i][1] < es[j][1]
    BY <2>2, <2>3, <1>2
  <2> QED
    BY <2>3, <2>4, <1>2
<1>7. /\ \A j \in 1 .. (Len(es) + 1) : j < i => j \in 1 .. Len(es) /\ w[j] = es[j]
      /\ w[i] = e
      /\ \A j \in 1 .. (Len(es) + 1) : j > i => j - 1 \in 1 .. Len(es) /\ i <= j - 1 /\ w[j] = es[j - 1]
  BY <1>2, <1>3
<1>8. ASSUME NEW a \in 1 .. (Len(es) + 1), NEW b \in 1 .. (Len(es) + 1), a < b
      PROVE  w[a][1] < w[b][1]
  <2>1. CASE b < i
    <3>1. a \in 1 .. Len(es) /\ w[a] = es[a] /\ b \in 1 .. Len(es) /\ w[b] = es[b]
      BY <2>1, <1>7, <1>8
    <3> QED
      BY <3>1, <1>2, <1>8
  <2>2. CASE b = i
    <3>1. a \in 1 .. Len(es) /\ w[a] = es[a] /\ w[b] = e /\ a < i
      BY <2>2, <1>7, <1>8
    <3> QED
      BY <3>1, <1>5
  <2>3. CASE b > i /\ a = i
    <3>1. w[a] = e /\ w[b] = es[b - 1] /\ b - 1 \in 1 .. Len(es) /\ i <= b - 1
      BY <2>3, <1>7
    <3> QED
      BY <3>1, <1>2, <1>6
  <2>4. CASE b > i /\ a < i
    <3>1. w[a] = es[a] /\ a \in 1 .. Len(es) /\ w[b] = es[b - 1] /\ b - 1 \in 1 .. Len(es) /\ i <= b - 1
      BY <2>4, <1>7
    <3>2. es[a][1] < e[1] /\ es[b - 1][1] > e[1]
      BY <3>1, <2>4, <1>5, <1>6
    <3> QED
      BY <3>1, <3>2, <1>2
  <2>5. CASE b > i /\ a > i
    <3>1. w[a] = es[a - 1] /\ a - 1 \in 1 .. Len(es) /\ w[b] = es[b - 1] /\ b - 1 \in 1 .. Len(es)
          /\ a - 1 < b - 1
      BY <2>5, <1>7, <1>8
    <3> QED
      BY <3>1, <1>2
  <2> QED
    BY <2>1, <2>2, <2>3, <2>4, <2>5
<1>9. ASSUME NEW a \in 1 .. (Len(es) + 1)
      PROVE  w[a] = e \/ \E j \in 1 .. Len(es) : w[a] = es[j]
  <2>1. a < i \/ a = i \/ a > i
    BY <1>3
  <2> QED
    BY <2>1, <1>7
<1>10. ASSUME NEW j \in 1 .. Len(es)
       PROVE  \E a \in 1 .. (Len(es) + 1) : w[a] = es[j]
  <2>1. CASE j < i
    BY <2>1, <1>2, <1>7
  <2>2. CASE j >= i
    <3>1. j + 1 \in 1 .. (Len(es) + 1) /\ j + 1 > i /\ j + 1 - 1 = j
      BY <2>2, <1>2
    <3>2. w[j + 1] = es[j]
      BY <3>1, <1>7
    <3> QED
      BY <3>1, <3>2
  <2> QED
    BY <2>1, <2>2
<1>11. \A a \in 1 .. (Len(es) + 1) : w[a][1] \in S
  BY <1>2, <1>9
<1>12. \A x : (\E a \in DOMAIN w : w[a] = x) <=> x = e \/ \E j \in DOMAIN es : es[j] = x
  <2>1. TAKE x
  <2>2. (\E a \in 1 .. (Len(es) + 1) : w[a] = x) => x = e \/ \E j \in 1 .. Len(es) : es[j] = x
    BY <1>9
  <2>3. x = e => \E a \in 1 .. (Len(es) + 1) : w[a] = x
    BY <1>7
  <2>4. (\E j \in 1 .. Len(es) : es[j] = x) => \E a \in 1 .. (Len(es) + 1) : w[a] = x
    BY <1>10
  <2> QED
    BY <2>2, <2>3, <2>4, <1>2, <1>4
<1> QED
  BY <1>1, <1>3, <1>4, <1>8, <1>11, <1>12 DEF MergedWell

\* With one key to a record, splitLeafNode's cells are the merged entries.
MergedCell(entries, e, temp, all, from, to, i) ==
    CellsOf(temp, all, from, to)[i] = WithEntry(entries, e)[from + i - 1]

LEMMA CellsAreMerged ==
    ASSUME KeysDiffer, NEW entries \in Seq(Records), NEW e \in Records,
           NEW from \in Nat \ {0}, NEW to \in Nat, to <= Len(entries) + 1,
           NEW i \in 1 .. (to - from + 1)
    PROVE  MergedCell(entries, e, KeysOf(WithEntry(entries, e)), Append(entries, e), from, to, i)
<1>1. PICK temp, all : temp = KeysOf(WithEntry(entries, e)) /\ all = Append(entries, e)
  OBVIOUS
<1>2. Merged(entries, e, temp, all)
  BY <1>1, MergedKeys
<1>3. PICK w : w = WithEntry(entries, e)
  OBVIOUS
<1>4. PICK j : j = from + i - 1
  OBVIOUS
<1>5. Len(entries) \in Nat /\ Len(temp) = Len(entries) + 1 /\ j \in 1 .. Len(temp)
  <2>1. Len(entries) \in Nat /\ Len(temp) = Len(entries) + 1
    BY <1>2 DEF Merged
  <2> QED
    BY <2>1, <1>4
<1>6. PICK m \in DOMAIN all : all[m] = w[j] /\ temp[j] = w[j][1]
  BY <1>2, <1>3, <1>5 DEF Merged
<1>7. all \in Seq(Records)
  BY <1>2 DEF Merged
<1>8. PICK k : k = temp[j]
  OBVIOUS
<1>9. PICK b \in DOMAIN all : <<k, FirstRidOf(all, k)>> = all[b] /\ all[b][1] = k
  BY <1>6, <1>7, <1>8, CellIsEntry
<1>10. all[b] \in Records /\ all[m] \in Records
  BY <1>7
<1>11. all[b] = w[j]
  BY <1>6, <1>8, <1>9, <1>10 DEF KeysDiffer
<1>12. CellsOf(temp, all, from, to)[i] = <<k, FirstRidOf(all, k)>>
  BY <1>4, <1>8 DEF CellsOf
<1>13. MergedCell(entries, e, temp, all, from, to, i)
  BY <1>3, <1>4, <1>9, <1>11, <1>12 DEF MergedCell
<1> QED
  BY <1>1, <1>13

LEMMA MergedEntries ==
    ASSUME NEW entries \in Seq(Records), NEW e \in Records
    PROVE  /\ Len(WithEntry(entries, e)) = Len(entries) + 1
           /\ \A i \in 1 .. (Len(entries) + 1) : WithEntry(entries, e)[i] \in Records
<1>1. PICK i : EntryAt(entries, e, WithEntry(entries, e), i)
  BY EntryPlaced
<1>2. PICK w : w = WithEntry(entries, e)
  OBVIOUS
<1>3. w \in Seq(Records) /\ Len(w) = Len(entries) + 1
  BY <1>1, <1>2 DEF EntryAt
<1> QED
  BY <1>2, <1>3

\* A leaf split as its merged entries w are cut after l of them.
LeafCut(file, p, r, w, l) ==
    /\ r.split = TRUE /\ r.right = Len(file) + 1 /\ r.key = w[l + 1][1]
    /\ r.file[p].kind = "leaf" /\ r.file[p].right = r.right
    /\ r.file[r.right].kind = "leaf" /\ r.file[r.right].right = file[p].right
    /\ l \in 1 .. LeafOcc /\ Len(w) = LeafOcc + 1
    /\ DOMAIN r.file[p].entries = 1 .. l
    /\ \A i \in 1 .. l : r.file[p].entries[i] = w[i]
    /\ DOMAIN r.file[r.right].entries = 1 .. (LeafOcc + 1 - l)
    /\ \A i \in 1 .. (LeafOcc + 1 - l) : r.file[r.right].entries[i] = w[l + i]

LEMMA SplitLeafCuts ==
    ASSUME KeysDiffer, NEW file, NEW h, Shape(file, h), NEW p, IsLeaf(file, p),
           NEW e \in Records, Len(file[p].entries) = LeafOcc,
           NEW w, w = WithEntry(file[p].entries, e)
    PROVE  LeafCut(file, p, SplitLeaf(file, p, e), w, (LeafOcc + 1) \div 2)
<1>1. p \in DOMAIN file /\ file \in Files /\ p \in Nat
  BY PageTypes DEF IsLeaf, Shape
<1>2. file[p] \in LeafPages
  BY <1>1, PageTypes DEF IsLeaf
<1>3. PICK entries \in Seq(Records) : entries = file[p].entries
  BY <1>2 DEF LeafPages
<1>4. PICK right \in Nat : right = file[p].right
  BY <1>2 DEF LeafPages
<1>5. PICK all : all = Append(entries, e)
  OBVIOUS
<1>6. PICK temp : temp = KeysOf(WithEntry(entries, e))
  OBVIOUS
<1>7. Merged(entries, e, temp, all)
  BY <1>5, <1>6, MergedKeys
<1>8. PICK l, n : l = (LeafOcc + 1) \div 2 /\ n = Len(file) + 1
  OBVIOUS
<1>9. LeafOcc \in Nat \ {0} /\ l \in 1 .. LeafOcc /\ n \in Nat /\ Len(entries) = LeafOcc
  BY <1>1, <1>3, <1>8, LeafOccAssumption DEF Files
<1>10. PICK A, B : /\ A = CellsOf(temp, all, 1, l)
                   /\ B = CellsOf(temp, all, l + 1, LeafOcc + 1)
  OBVIOUS
<1>11. A \in Seq(Records) /\ DOMAIN A = 1 .. l /\ \A i \in 1 .. l : A[i] = w[i]
  <2>1. DOMAIN A = 1 .. (l - 1 + 1) /\ l - 1 + 1 = l
    BY <1>9, <1>10 DEF CellsOf
  <2>2. ASSUME NEW i \in 1 .. l PROVE A[i] = w[i]
    <3>1. 1 \in Nat \ {0} /\ l \in Nat /\ l <= Len(entries) + 1 /\ i \in 1 .. (l - 1 + 1)
      BY <1>9
    <3>2. MergedCell(entries, e, temp, all, 1, l, i)
      BY <3>1, <1>5, <1>6, CellsAreMerged
    <3>3. 1 + i - 1 = i
      OBVIOUS
    <3> QED
      BY <3>2, <3>3, <1>3, <1>10 DEF MergedCell
  <2>3. \A i \in 1 .. l : w[i] \in Records
    BY <1>3, <1>7, <1>9, MergedEntries
  <2>4. A = [i \in 1 .. l |-> A[i]]
    BY <2>1, <1>10 DEF CellsOf
  <2> QED
    BY <2>1, <2>2, <2>3, <2>4, <1>9
<1>12. /\ B \in Seq(Records) /\ DOMAIN B = 1 .. (LeafOcc + 1 - l)
       /\ \A i \in 1 .. (LeafOcc + 1 - l) : B[i] = w[l + i]
  <2>1. PICK from, to, m : from = l + 1 /\ to = LeafOcc + 1 /\ m = LeafOcc + 1 - l
    OBVIOUS
  <2>2. from \in Nat \ {0} /\ to \in Nat /\ to <= Len(entries) + 1 /\ to - from + 1 = m /\ m \in Nat
    BY <2>1, <1>9
  <2>3. DOMAIN B = 1 .. m
    BY <2>1, <2>2, <1>10 DEF CellsOf
  <2>4. ASSUME NEW i \in 1 .. m PROVE B[i] = w[l + i] /\ l + i \in 1 .. (LeafOcc + 1)
    <3>1. MergedCell(entries, e, temp, all, from, to, i)
      <4>1. i \in 1 .. (to - from + 1)
        BY <2>2
      <4> QED
        BY <4>1, <2>2, <1>5, <1>6, CellsAreMerged
    <3>2. from + i - 1 = l + i /\ l + i \in 1 .. (LeafOcc + 1)
      BY <2>1, <2>2, <1>9
    <3> QED
      BY <2>1, <3>1, <3>2, <1>3, <1>10 DEF MergedCell
  <2>5. \A i \in 1 .. m : w[l + i] \in Records
    BY <2>4, <1>3, <1>9, MergedEntries
  <2>6. B = [i \in 1 .. m |-> B[i]]
    BY <2>1, <2>2, <1>10 DEF CellsOf
  <2>7. B \in [1 .. m -> Records]
    BY <2>3, <2>4, <2>5, <2>6
  <2>8. B \in Seq(Records)
    BY <2>2, <2>7
  <2>9. \A i \in 1 .. m : B[i] = w[l + i]
    BY <2>4
  <2> QED
    BY <2>1, <2>3, <2>8, <2>9
<1>13. PICK r : r = SplitLeaf(file, p, e)
  OBVIOUS
<1>14. r = Split(Append([file EXCEPT ![p] = Leaf(A, n)], Leaf(B, right)), n, temp[l + 1])
  <2>1. r = SplitAt(file, p, temp, all, l, n)
    BY <1>3, <1>5, <1>6, <1>8, <1>13, SplitLeafParts
  <2> QED
    BY <2>1, <1>4, <1>10 DEF SplitAt, RightOf
<1>15. PICK f : f = [file EXCEPT ![p] = Leaf(A, n)]
  OBVIOUS
<1>16. f \in Files /\ Len(f) = Len(file) /\ f[p] = Leaf(A, n) /\ DOMAIN f = DOMAIN file
  BY <1>1, <1>9, <1>11, <1>15, LeafIsLeaf, Replaced
<1>17. r.file = Append(f, Leaf(B, right)) /\ r.split = TRUE /\ r.right = n /\ r.key = temp[l + 1]
  BY <1>14, <1>15 DEF Split
<1>18. r.file[p] = Leaf(A, n) /\ r.file[n] = Leaf(B, right)
  <2>1. f \in [DOMAIN f -> LeafPages \cup NonLeafPages \cup MetaPages \cup {Unused}] /\ DOMAIN f = 1 .. Len(f)
        /\ Len(f) \in Nat
    BY <1>16 DEF Files
  <2>2. p \in 1 .. Len(f) /\ n = Len(f) + 1
    BY <2>1, <1>1, <1>8, <1>16
  <2>3. Append(f, Leaf(B, right))[n] = Leaf(B, right) /\ Append(f, Leaf(B, right))[p] = f[p]
    BY <2>2, <1>16 DEF Files
  <2> QED
    BY <2>3, <1>16, <1>17
<1>19. temp[l + 1] = w[l + 1][1] /\ Len(w) = LeafOcc + 1
  <2>1. w = WithEntry(entries, e)
    BY <1>3
  <2>2. Len(w) = LeafOcc + 1
    BY <2>1, <1>9, MergedEntries
  <2>3. l + 1 \in 1 .. Len(temp)
    BY <1>7, <1>9 DEF Merged
  <2> QED
    BY <2>1, <2>2, <2>3, <1>7 DEF Merged
<1>20. /\ r.file[p].kind = "leaf" /\ r.file[p].right = n /\ r.file[p].entries = A
       /\ r.file[n].kind = "leaf" /\ r.file[n].right = right /\ r.file[n].entries = B
  BY <1>9, <1>4, <1>11, <1>12, <1>18, LeafIsLeaf
<1>21. LeafCut(file, p, r, w, l)
  <2>1. n = Len(file) + 1
    BY <1>8
  <2>2. l \in 1 .. LeafOcc
    BY <1>9
  <2>3. /\ DOMAIN A = 1 .. l /\ \A i \in 1 .. l : A[i] = w[i]
        /\ DOMAIN B = 1 .. (LeafOcc + 1 - l)
        /\ \A i \in 1 .. (LeafOcc + 1 - l) : B[i] = w[l + i]
    BY <1>11, <1>12
  <2> QED
    BY <1>4, <1>17, <1>19, <1>20, <2>1, <2>2, <2>3, Zenon DEF LeafCut
<1> QED
  BY <1>8, <1>13, <1>21

-----------------------------------------------------------------------------
(***************************************************************************)
(* Routing after an insertion into one page.                               *)
(***************************************************************************)
RoutesAfter(R, r, p) ==
    IF r.split
    THEN [q \in 1 .. r.right |-> IF q = p THEN {k \in R[p] : k < r.key}
                                 ELSE IF q = r.right THEN {k \in R[p] : k >= r.key}
                                 ELSE R[q]]
    ELSE R

\* The parent of a split page does not know yet.
SentAfter(R, r, p) ==
    IF r.split THEN [RoutesAfter(R, r, p) EXCEPT ![p] = R[p]] ELSE R

LEMMA SplitRoutes ==
    ASSUME NEW file, NEW h, Shape(file, h), NEW r, NEW g, NEW p \in DOMAIN file,
           Grown(file, h, r, g, p), r.split, NEW R \in [DOMAIN file -> SUBSET Int],
           NEW R2, R2 = RoutesAfter(R, r, p), NEW Q2, Q2 = SentAfter(R, r, p)
    PROVE  /\ R2 \in [DOMAIN r.file -> SUBSET Int] /\ Q2 \in [DOMAIN r.file -> SUBSET Int]
           /\ R2[p] = {k \in R[p] : k < r.key} /\ R2[r.right] = {k \in R[p] : k >= r.key}
           /\ \A q \in DOMAIN file : Q2[q] = R[q] /\ (q # p => R2[q] = R[q])
           /\ r.right # p
<1>1. /\ r.right = Len(file) + 1 /\ DOMAIN r.file = DOMAIN file \cup {r.right}
      /\ r.right \notin DOMAIN file /\ file \in Files
  BY DEF Grown, Shape
<1>2. PICK n \in Nat : n = Len(file) /\ DOMAIN file = 1 .. n
  BY <1>1 DEF Files
<1>3. DOMAIN r.file = 1 .. r.right /\ r.right = n + 1 /\ r.right # p
  BY <1>1, <1>2
<1>4. R2 = [q \in 1 .. r.right |-> IF q = p THEN {k \in R[p] : k < r.key}
                                   ELSE IF q = r.right THEN {k \in R[p] : k >= r.key}
                                   ELSE R[q]]
  BY DEF RoutesAfter
<1>5. Q2 = [R2 EXCEPT ![p] = R[p]]
  BY DEF SentAfter
<1>6. /\ R2[p] = {k \in R[p] : k < r.key} /\ R2[r.right] = {k \in R[p] : k >= r.key}
      /\ \A q \in DOMAIN file : q # p => R2[q] = R[q]
  BY <1>1, <1>2, <1>3, <1>4
<1>7. R[p] \in SUBSET Int
  OBVIOUS
<1>8. ASSUME NEW q \in DOMAIN r.file PROVE R2[q] \in SUBSET Int
  <2>1. CASE q = p
    BY <2>1, <1>6, <1>7
  <2>2. CASE q = r.right
    BY <2>2, <1>6, <1>7
  <2>3. CASE q \in DOMAIN file /\ q # p
    BY <2>3, <1>6
  <2> QED
    BY <2>1, <2>2, <2>3, <1>1
<1>9. R2 \in [DOMAIN r.file -> SUBSET Int]
  <2>1. R2 = [q \in DOMAIN r.file |-> R2[q]]
    BY <1>3, <1>4
  <2> QED
    BY <2>1, <1>8
<1>10. Q2 \in [DOMAIN r.file -> SUBSET Int] /\ \A q \in DOMAIN file : Q2[q] = R[q]
  BY <1>1, <1>5, <1>6, <1>7, <1>9
<1> QED
  BY <1>3, <1>6, <1>9, <1>10

\* A page that is not changed is still routed, if what it sends is.
LEMMA StillRouted ==
    ASSUME NEW file, NEW h, Shape(file, h), NEW q \in DOMAIN file, NEW S,
           NEW R, NEW F, F[q] = file[q], q \in DOMAIN F, NEW Q,
           PageRouted(file, R, S, q), \A c \in DOMAIN file : Q[c] = R[c]
    PROVE  PageRouted(F, Q, S, q)
<1>1. IsLeaf(F, q) => LeafRouted(S, F[q])
  BY DEF IsLeaf, PageRouted
<1>2. ASSUME IsNonLeaf(F, q), NodeRouted(R, S, file[q])
      PROVE  NodeRouted(Q, S, F[q])
  <2>1. IsNonLeaf(file, q)
    BY <1>2 DEF IsNonLeaf
  <2>2. \A i \in DOMAIN file[q].kids : file[q].kids[i] # 0 => file[q].kids[i] \in DOMAIN file
    BY <2>1, FitsWhereItIs DEF Fits, IsNode, IsLeaf, IsNonLeaf
  <2> QED
    BY <1>2, <2>2 DEF NodeRouted
<1>3. IsNonLeaf(F, q) => IsNonLeaf(file, q)
  BY DEF IsNonLeaf
<1> QED
  BY <1>1, <1>2, <1>3 DEF PageRouted

\* The pieces of a split page stay apart from each other and the other pages.
LEMMA PiecesApart ==
    ASSUME NEW file, NEW h, Shape(file, h), NEW p, IsNode(file, p),
           NEW r, NEW g, Grown(file, h, r, g, p), r.split,
           NEW R \in [DOMAIN file -> SUBSET Int],
           \A q \in DOMAIN file : IsNode(file, q) => Apart(file, h, R, q),
           NEW R2, R2 = RoutesAfter(R, r, p), NEW x \in DOMAIN r.file, IsNode(r.file, x)
    PROVE  Apart(r.file, g, R2, x)
<1>1. p \in DOMAIN file
  BY DEF IsNode, IsLeaf, IsNonLeaf
<1>2. PICK Q2 : Q2 = SentAfter(R, r, p)
  OBVIOUS
<1>3. /\ R2[p] = {k \in R[p] : k < r.key} /\ R2[r.right] = {k \in R[p] : k >= r.key}
      /\ \A q \in DOMAIN file : q # p => R2[q] = R[q]
      /\ r.right # p
  BY <1>1, <1>2, SplitRoutes
<1>4. /\ DOMAIN r.file = DOMAIN file \cup {r.right} /\ r.right \notin DOMAIN file
      /\ \A q \in DOMAIN file : g[q] = h[q] /\ (IsNode(r.file, q) => IsNode(file, q))
      /\ g[r.right] = h[p] /\ r.key \in Int
  BY DEF Grown, Extends, IsNode, IsLeaf, IsNonLeaf
<1>5. R[p] \in SUBSET Int
  BY <1>1
<1>6. R2[p] \cap R2[r.right] = {}
  <2>1. \A k \in Int : ~(k < r.key /\ k >= r.key)
    BY <1>4
  <2> QED
    BY <2>1, <1>3, <1>5
<1>7. R2[p] \subseteq R[p] /\ R2[r.right] \subseteq R[p]
  BY <1>3
<1>8. \A q \in DOMAIN file : IsNode(file, q) /\ q # p /\ h[q] = h[p] => R[p] \cap R[q] = {}
  BY <1>1 DEF Apart
<1>9. \A y, z \in DOMAIN file : IsNode(file, y) /\ IsNode(file, z) /\ y # z /\ h[y] = h[z]
                                    => R[y] \cap R[z] = {}
  BY DEF Apart
<1>10. SUFFICES ASSUME NEW y \in DOMAIN r.file, IsNode(r.file, y), y # x, g[y] = g[x]
                PROVE  R2[x] \cap R2[y] = {}
  BY DEF Apart
<1>11. CASE x \in DOMAIN file /\ y \in DOMAIN file /\ x # p /\ y # p
  BY <1>3, <1>4, <1>9, <1>10, <1>11
<1>12. CASE x \in {p, r.right} /\ y \in {p, r.right}
  BY <1>6, <1>10, <1>12
<1>13. CASE x \in {p, r.right} /\ y \notin {p, r.right}
  <2>1. y \in DOMAIN file /\ IsNode(file, y) /\ h[y] = h[p] /\ y # p /\ R2[y] = R[y]
    BY <1>1, <1>3, <1>4, <1>10, <1>13
  <2> QED
    BY <2>1, <1>7, <1>8, <1>13
<1>14. CASE x \notin {p, r.right} /\ y \in {p, r.right}
  <2>1. x \in DOMAIN file /\ IsNode(file, x) /\ h[x] = h[p] /\ x # p /\ R2[x] = R[x]
    BY <1>1, <1>3, <1>4, <1>10, <1>14
  <2> QED
    BY <2>1, <1>7, <1>8, <1>14
<1> QED
  BY <1>4, <1>11, <1>12, <1>13, <1>14

\* If the changed page and the new one are routed, all pages are.
LEMMA RoutedAfterSplit ==
    ASSUME NEW file, NEW h, Shape(file, h), NEW p, IsNode(file, p),
           NEW r, NEW g, Grown(file, h, r, g, p), r.split,
           NEW R \in [DOMAIN file -> SUBSET Int],
           \A q \in DOMAIN file : IsNode(file, q) => R[q] # {} /\ Apart(file, h, R, q),
           \A q \in DOMAIN file : q # p => PageRouted(file, R, R[q], q),
           r.key \in R[p], NEW k0 \in R[p], k0 < r.key,
           NEW R2, R2 = RoutesAfter(R, r, p), NEW Q2, Q2 = SentAfter(R, r, p),
           PageRouted(r.file, Q2, R2[p], p), PageRouted(r.file, Q2, R2[r.right], r.right)
    PROVE  Routed(r.file, g, R2, Q2) /\ CutAt(Q2[p], r.key, R2[p], R2[r.right])
<1>1. p \in DOMAIN file
  BY DEF IsNode, IsLeaf, IsNonLeaf
<1>2. /\ R2 \in [DOMAIN r.file -> SUBSET Int] /\ Q2 \in [DOMAIN r.file -> SUBSET Int]
      /\ R2[p] = {k \in R[p] : k < r.key} /\ R2[r.right] = {k \in R[p] : k >= r.key}
      /\ \A q \in DOMAIN file : Q2[q] = R[q] /\ (q # p => R2[q] = R[q])
      /\ r.right # p
  BY <1>1, SplitRoutes
<1>3. /\ DOMAIN r.file = DOMAIN file \cup {r.right} /\ r.right \notin DOMAIN file
      /\ \A q \in DOMAIN file : IsNode(r.file, q) => IsNode(file, q)
      /\ \A q \in DOMAIN file : q # p => r.file[q] = file[q]
      /\ r.key \in Int
  BY DEF Grown, Extends, IsNode, IsLeaf, IsNonLeaf
<1>4. R[p] \in SUBSET Int
  BY <1>1
<1>5. R2[p] # {} /\ R2[r.right] # {}
  <2>1. k0 \in R2[p]
    BY <1>2
  <2>2. r.key \in R2[r.right]
    BY <1>2, <1>3
  <2> QED
    BY <2>1, <2>2
<1>6. ASSUME NEW q \in DOMAIN r.file, IsNode(r.file, q) PROVE R2[q] # {} /\ Apart(r.file, g, R2, q)
  <2>1. Apart(r.file, g, R2, q)
    BY <1>6, PiecesApart
  <2>2. CASE q \in {p, r.right}
    BY <2>1, <2>2, <1>5
  <2>3. CASE q \notin {p, r.right}
    BY <2>1, <2>3, <1>2, <1>3, <1>6
  <2> QED
    BY <2>2, <2>3
<1>7. ASSUME NEW q \in DOMAIN r.file PROVE PageRouted(r.file, Q2, R2[q], q)
  <2>1. CASE q \in {p, r.right}
    BY <2>1
  <2>2. CASE q \notin {p, r.right}
    <3>1. q \in DOMAIN file /\ q # p /\ r.file[q] = file[q] /\ R2[q] = R[q]
      BY <2>2, <1>2, <1>3
    <3>2. PageRouted(file, R, R[q], q)
      BY <3>1
    <3>3. \A c \in DOMAIN file : Q2[c] = R[c]
      BY <1>2
    <3> HIDE DEF PageRouted
    <3>4. PICK S : S = R[q]
      OBVIOUS
    <3>5. PageRouted(r.file, Q2, S, q)
      BY <3>1, <3>2, <3>3, <3>4, StillRouted
    <3> QED
      BY <3>1, <3>4, <3>5
  <2> QED
    BY <2>1, <2>2
<1>8. Routed(r.file, g, R2, Q2)
  BY <1>2, <1>6, <1>7 DEF Routed
<1>9. CutAt(Q2[p], r.key, R2[p], R2[r.right])
  BY <1>1, <1>2 DEF CutAt
<1> QED
  BY <1>8, <1>9

LEMMA RoutedAfterChange ==
    ASSUME NEW file, NEW h, Shape(file, h), NEW p, IsNode(file, p),
           NEW r, NEW g, Grown(file, h, r, g, p), ~r.split,
           NEW R \in [DOMAIN file -> SUBSET Int],
           \A q \in DOMAIN file : IsNode(file, q) => R[q] # {} /\ Apart(file, h, R, q),
           \A q \in DOMAIN file : q # p => PageRouted(file, R, R[q], q),
           PageRouted(r.file, R, R[p], p)
    PROVE  Routed(r.file, g, R, R)
<1>1. p \in DOMAIN file
  BY DEF IsNode, IsLeaf, IsNonLeaf
<1>2. /\ DOMAIN r.file = DOMAIN file
      /\ \A q \in DOMAIN file : (IsNode(r.file, q) => IsNode(file, q)) /\ g[q] = h[q]
      /\ \A q \in DOMAIN file : q # p => r.file[q] = file[q]
  BY DEF Grown, Extends, IsNode, IsLeaf, IsNonLeaf
<1>3. ASSUME NEW q \in DOMAIN r.file, IsNode(r.file, q) PROVE R[q] # {} /\ Apart(r.file, g, R, q)
  BY <1>2, <1>3 DEF Apart
<1>4. ASSUME NEW q \in DOMAIN r.file PROVE PageRouted(r.file, R, R[q], q)
  <2>1. CASE q = p
    BY <2>1
  <2>2. CASE q # p
    <3>1. q \in DOMAIN file /\ r.file[q] = file[q] /\ PageRouted(file, R, R[q], q)
      BY <2>2, <1>2
    <3>2. PICK S : S = R[q]
      OBVIOUS
    <3>3. PageRouted(r.file, R, S, q)
      BY <3>1, <3>2, StillRouted
    <3> QED
      BY <3>2, <3>3
  <2> QED
    BY <2>1, <2>2
<1> QED
  BY <1>2, <1>3, <1>4 DEF Routed

-----------------------------------------------------------------------------
(***************************************************************************)
(* The leaf an entry goes to.                                              *)
(***************************************************************************)
\* e is an entry of some leaf.
Stored(file, e) ==
    \E p \in DOMAIN file : IsLeaf(file, p) /\ \E i \in DOMAIN file[p].entries : file[p].entries[i] = e

\* The outcome of an insertion into page p.
StepRoutes(file, h, R, r, g, p) ==
    /\ Grown(file, h, r, g, p)
    /\ Routed(r.file, g, RoutesAfter(R, r, p), SentAfter(R, r, p))
    /\ r.split => CutAt(R[p], r.key, RoutesAfter(R, r, p)[p], RoutesAfter(R, r, p)[r.right])

LEMMA LeafSplitRoutes ==
    ASSUME KeysDiffer, NEW file, NEW h, Shape(file, h), NEW R, Routed(file, h, R, R),
           NEW p, IsLeaf(file, p), NEW e \in Records, e[1] \in R[p],
           Len(file[p].entries) = LeafOcc, NEW w, w = WithEntry(file[p].entries, e),
           MergedWell(R[p], file[p], e, w),
           NEW r, r = SplitLeaf(file, p, e), NEW g, g = HeightsAfter(h, r, p)
    PROVE  /\ StepRoutes(file, h, R, r, g, p)
           /\ \A x : Stored(r.file, x) <=> Stored(file, x) \/ x = e
<1>1. Grown(file, h, r, g, p) /\ r.split
  BY LeafSplitGrows
<1>2. p \in DOMAIN file /\ R \in [DOMAIN file -> SUBSET Int] /\ IsNode(file, p)
  BY DEF IsLeaf, IsNode, Routed
<1>3. PICK l : l = (LeafOcc + 1) \div 2
  OBVIOUS
<1>4. LeafCut(file, p, r, w, l)
  BY <1>3, SplitLeafCuts
<1>5. PICK R2, Q2 : R2 = RoutesAfter(R, r, p) /\ Q2 = SentAfter(R, r, p)
  OBVIOUS
<1>6. /\ R2[p] = {k \in R[p] : k < r.key} /\ R2[r.right] = {k \in R[p] : k >= r.key}
      /\ Q2[p] = R[p] /\ r.right # p
  BY <1>1, <1>2, <1>5, SplitRoutes
<1>7. /\ LeafOcc \in Nat \ {0} /\ l \in 1 .. LeafOcc /\ Len(w) = LeafOcc + 1 /\ l + 1 \in DOMAIN w
      /\ w \in Seq(Records) /\ DOMAIN w = 1 .. (LeafOcc + 1) /\ r.key = w[l + 1][1]
  BY <1>4, LeafOccAssumption DEF LeafCut, MergedWell
<1>8. /\ \A i, j \in DOMAIN w : i < j => w[i][1] < w[j][1]
      /\ \A i \in DOMAIN w : w[i][1] \in R[p] /\ w[i][1] \in Int
  <2>1. \A i \in DOMAIN w : w[i] \in Records
    BY <1>7
  <2> QED
    BY <2>1, RecordsAssumption DEF MergedWell
<1>9. LeafRouted(R2[p], r.file[p])
  <2>1. /\ DOMAIN r.file[p].entries = 1 .. l
        /\ \A i \in 1 .. l : r.file[p].entries[i] = w[i] /\ i \in DOMAIN w /\ i < l + 1
    BY <1>4, <1>7 DEF LeafCut
  <2>2. \A i \in 1 .. l : w[i][1] \in R2[p]
    BY <2>1, <1>6, <1>7, <1>8
  <2> QED
    BY <2>1, <2>2, <1>8 DEF LeafRouted
<1>10. LeafRouted(R2[r.right], r.file[r.right])
  <2>1. PICK m : m = LeafOcc + 1 - l
    OBVIOUS
  <2>2. /\ DOMAIN r.file[r.right].entries = 1 .. m
        /\ \A i \in 1 .. m : r.file[r.right].entries[i] = w[l + i] /\ l + i \in DOMAIN w
    BY <2>1, <1>4, <1>7 DEF LeafCut
  <2>3. \A i \in 1 .. m : l + i = l + 1 \/ l + 1 < l + i
    BY <2>1, <1>7
  <2>4. \A i \in 1 .. m : w[l + i][1] >= r.key
    BY <2>2, <2>3, <1>7, <1>8, SMTT(20)
  <2>5. \A i \in 1 .. m : w[l + i][1] \in R2[r.right]
    BY <2>2, <2>4, <1>6, <1>8
  <2>6. \A i, j \in 1 .. m : i < j => l + i < l + j
    BY <2>1, <1>7
  <2>7. \A i, j \in 1 .. m : i < j => w[l + i][1] < w[l + j][1]
    BY <2>2, <2>6, <1>8
  <2> QED
    BY <2>2, <2>5, <2>7 DEF LeafRouted
<1>11. PageRouted(r.file, Q2, R2[p], p) /\ PageRouted(r.file, Q2, R2[r.right], r.right)
  BY <1>4, <1>9, <1>10 DEF LeafCut, PageRouted, IsNonLeaf
<1>12. r.key \in R[p] /\ w[1][1] \in R[p] /\ w[1][1] < r.key
  <2>1. 1 \in DOMAIN w /\ 1 < l + 1
    BY <1>7
  <2> QED
    BY <2>1, <1>7, <1>8
<1>13. /\ \A q \in DOMAIN file : IsNode(file, q) => R[q] # {} /\ Apart(file, h, R, q)
       /\ \A q \in DOMAIN file : PageRouted(file, R, R[q], q)
  BY DEF Routed
<1>14. Routed(r.file, g, R2, Q2) /\ CutAt(Q2[p], r.key, R2[p], R2[r.right])
  BY <1>1, <1>2, <1>5, <1>11, <1>12, <1>13, RoutedAfterSplit
<1>15. StepRoutes(file, h, R, r, g, p)
  BY <1>1, <1>5, <1>6, <1>14 DEF StepRoutes
<1>16. /\ DOMAIN r.file = DOMAIN file \cup {r.right} /\ r.right \notin DOMAIN file
       /\ \A q \in DOMAIN file : q # p => r.file[q] = file[q]
       /\ IsLeaf(r.file, p) /\ IsLeaf(r.file, r.right)
  BY <1>1, <1>2, <1>4 DEF Grown, LeafCut, IsLeaf
<1>17. \A i \in DOMAIN w : (\E j \in DOMAIN r.file[p].entries : r.file[p].entries[j] = w[i])
                         \/ (\E j \in DOMAIN r.file[r.right].entries : r.file[r.right].entries[j] = w[i])
  <2>1. TAKE i \in DOMAIN w
  <2>2. i \in 1 .. (LeafOcc + 1) /\ l \in Nat /\ LeafOcc \in Nat
    BY <1>7
  <2>3. CASE i <= l
    <3>1. i \in 1 .. l
      BY <2>2, <2>3
    <3> QED
      BY <3>1, <1>4 DEF LeafCut
  <2>4. CASE i > l
    <3>1. PICK j : j = i - l
      OBVIOUS
    <3>2. j \in 1 .. (LeafOcc + 1 - l) /\ i = l + j
      BY <2>2, <2>4, <3>1
    <3> QED
      BY <3>2, <1>4, ZenonT(40) DEF LeafCut
  <2> QED
    BY <2>2, <2>3, <2>4
<1>18. /\ \A j \in DOMAIN r.file[p].entries : \E i \in DOMAIN w : r.file[p].entries[j] = w[i]
       /\ \A j \in DOMAIN r.file[r.right].entries : \E i \in DOMAIN w : r.file[r.right].entries[j] = w[i]
  <2>1. \A j \in 1 .. l : j \in DOMAIN w
    BY <1>7
  <2>2. \A j \in 1 .. (LeafOcc + 1 - l) : l + j \in DOMAIN w
    BY <1>7
  <2> QED
    BY <2>1, <2>2, <1>4, ZenonT(40) DEF LeafCut
<1>19. \A x : (\E i \in DOMAIN w : w[i] = x)
                 <=> x = e \/ \E i \in DOMAIN file[p].entries : file[p].entries[i] = x
  BY DEF MergedWell
<1>20. ASSUME NEW x PROVE Stored(r.file, x) <=> Stored(file, x) \/ x = e
  <2>1. \A q \in DOMAIN file : q # p => (IsLeaf(r.file, q) <=> IsLeaf(file, q))
    BY <1>16 DEF IsLeaf
  <2>2. Stored(r.file, x) => Stored(file, x) \/ x = e
    <3>1. ASSUME NEW q \in DOMAIN r.file, IsLeaf(r.file, q), NEW i \in DOMAIN r.file[q].entries,
                 r.file[q].entries[i] = x
          PROVE  Stored(file, x) \/ x = e
      <4>1. CASE q \notin {p, r.right}
        BY <3>1, <4>1, <1>16, <2>1 DEF Stored
      <4>2. CASE q \in {p, r.right}
        <5>1. \E j \in DOMAIN w : w[j] = x
          BY <3>1, <4>2, <1>18
        <5> QED
          BY <5>1, <1>2, <1>19 DEF Stored
      <4> QED
        BY <4>1, <4>2
    <3> QED
      BY <3>1 DEF Stored
  <2>3. (\E i \in DOMAIN w : w[i] = x) => Stored(r.file, x)
    BY <1>2, <1>16, <1>17 DEF Stored
  <2>4. Stored(file, x) => Stored(r.file, x)
    <3>1. ASSUME NEW q \in DOMAIN file, IsLeaf(file, q), NEW i \in DOMAIN file[q].entries,
                 file[q].entries[i] = x
          PROVE  Stored(r.file, x)
      <4>1. CASE q # p
        BY <3>1, <4>1, <1>16, <2>1 DEF Stored
      <4>2. CASE q = p
        BY <3>1, <4>2, <1>19, <2>3
      <4> QED
        BY <4>1, <4>2
    <3> QED
      BY <3>1 DEF Stored
  <2> QED
    BY <2>2, <2>3, <2>4, <1>19
<1> QED
  BY <1>15, <1>20

LEMMA LeafRoutes ==
    ASSUME KeysDiffer, NEW file, NEW h, Shape(file, h), NEW R, Routed(file, h, R, R),
           NEW p, IsLeaf(file, p), NEW e \in Records, e[1] \in R[p], ~Stored(file, e),
           NEW r, r = InsertIntoLeaf(file, p, e), NEW g, g = HeightsAfter(h, r, p)
    PROVE  /\ StepRoutes(file, h, R, r, g, p)
           /\ \A x : Stored(r.file, x) <=> Stored(file, x) \/ x = e
<1>1. Grown(file, h, r, g, p)
  BY LeafGrows
<1>2. p \in DOMAIN file /\ file \in Files /\ R \in [DOMAIN file -> SUBSET Int] /\ IsNode(file, p)
  BY DEF IsLeaf, IsNode, Shape, Routed
<1>3. file[p] \in LeafPages /\ Len(file[p].entries) <= LeafOcc
  BY <1>2, PageTypes DEF IsLeaf, Shape, PageShape, LeafShape
<1>4. PICK es \in Seq(Records) : es = file[p].entries
  BY <1>3 DEF LeafPages
<1>5. LeafRouted(R[p], file[p])
  BY <1>2 DEF Routed, PageRouted
<1>6. PICK S \in SUBSET Int : S = R[p]
  BY <1>2
<1>7. \A i \in DOMAIN es : es[i][1] # e[1]
  <2>1. \A i \in DOMAIN es : es[i] # e /\ es[i] \in Records
    BY <1>2, <1>4 DEF Stored
  <2> QED
    BY <2>1 DEF KeysDiffer
<1>8. PICK w : w = WithEntry(es, e)
  OBVIOUS
<1>9. /\ w \in Seq(Records) /\ Len(w) = Len(es) + 1
      /\ \A i, j \in DOMAIN w : i < j => w[i][1] < w[j][1]
      /\ \A i \in DOMAIN w : w[i][1] \in S
      /\ \A x : (\E i \in DOMAIN w : w[i] = x)
                   <=> x = e \/ \E i \in DOMAIN es : es[i] = x
  <2>1. PICK leaf : leaf = file[p]
    OBVIOUS
  <2>2. leaf.entries = es /\ LeafRouted(S, leaf)
    BY <2>1, <1>4, <1>5, <1>6
  <2>3. MergedWell(S, leaf, e, w)
    BY <2>2, <1>4, <1>6, <1>7, <1>8, MergedIncreasing
  <2> QED
    BY <2>2, <2>3 DEF MergedWell
<1>10. /\ \A q \in DOMAIN file : IsNode(file, q) => R[q] # {} /\ Apart(file, h, R, q)
       /\ \A q \in DOMAIN file : PageRouted(file, R, R[q], q)
  BY DEF Routed
<1>11. CASE HasRoom(file[p])
  <2>1. r.split = FALSE /\ r.file = [file EXCEPT ![p].entries = w]
    BY <1>4, <1>8, <1>11 DEF InsertIntoLeaf, NoSplit
  <2>2. /\ DOMAIN r.file = DOMAIN file /\ r.file[p].entries = w /\ r.file[p].kind = "leaf"
        /\ \A q \in DOMAIN file : q # p => r.file[q] = file[q]
    <3>1. PICK l \in LeafPages : l = file[p]
      BY <1>3
    <3>2. r.file = [file EXCEPT ![p] = [l EXCEPT !.entries = w]]
      BY <2>1, <3>1
    <3>3. [l EXCEPT !.entries = w].entries = w /\ [l EXCEPT !.entries = w].kind = "leaf"
      BY DEF LeafPages
    <3>4. r.file[p] = [l EXCEPT !.entries = w]
      BY <3>2, <1>2
    <3> QED
      BY <3>2, <3>3, <3>4, <1>2
  <2>3. LeafRouted(S, r.file[p])
    BY <2>2, <1>9 DEF LeafRouted
  <2>4. PageRouted(r.file, R, R[p], p)
    BY <2>2, <2>3, <1>6 DEF PageRouted, IsNonLeaf
  <2>5. Routed(r.file, g, R, R)
    BY <2>1, <2>4, <1>1, <1>2, <1>10, RoutedAfterChange
  <2>6. RoutesAfter(R, r, p) = R /\ SentAfter(R, r, p) = R
    BY <2>1 DEF RoutesAfter, SentAfter
  <2>7. ASSUME NEW x PROVE Stored(r.file, x) <=> Stored(file, x) \/ x = e
    <3>1. \A q \in DOMAIN file : IsLeaf(r.file, q) <=> IsLeaf(file, q)
      BY <1>2, <2>2 DEF IsLeaf
    <3>2. Stored(r.file, x) => Stored(file, x) \/ x = e
      <4>1. ASSUME NEW q \in DOMAIN file, IsLeaf(r.file, q), NEW i \in DOMAIN r.file[q].entries,
                   r.file[q].entries[i] = x
            PROVE  Stored(file, x) \/ x = e
        <5>1. CASE q # p
          BY <4>1, <5>1, <2>2, <3>1 DEF Stored
        <5>2. CASE q = p
          <6>1. x = e \/ \E j \in DOMAIN es : es[j] = x
            BY <4>1, <5>2, <2>2, <1>9
          <6> QED
            BY <6>1, <1>2, <1>4 DEF Stored
        <5> QED
          BY <5>1, <5>2
      <4> QED
        BY <4>1, <2>2 DEF Stored
    <3>3. Stored(file, x) => Stored(r.file, x)
      <4>1. ASSUME NEW q \in DOMAIN file, IsLeaf(file, q), NEW i \in DOMAIN file[q].entries,
                   file[q].entries[i] = x
            PROVE  Stored(r.file, x)
        <5>1. CASE q # p
          BY <4>1, <5>1, <2>2, <3>1 DEF Stored
        <5>2. CASE q = p
          <6>1. \E j \in DOMAIN w : w[j] = x
            BY <4>1, <5>2, <1>4, <1>9
          <6> QED
            BY <6>1, <1>2, <2>2, <3>1 DEF Stored
        <5> QED
          BY <5>1, <5>2
      <4> QED
        BY <4>1 DEF Stored
    <3>4. x = e => Stored(r.file, x)
      <4>1. \E j \in DOMAIN w : w[j] = e
        BY <1>9
      <4> QED
        BY <4>1, <1>2, <2>2, <3>1 DEF Stored
    <3> QED
      BY <3>2, <3>3, <3>4
  <2> QED
    BY <1>1, <2>1, <2>5, <2>6, <2>7 DEF StepRoutes
<1>12. CASE ~HasRoom(file[p])
  <2>1. Len(file[p].entries) = LeafOcc
    BY <1>3, <1>4, <1>12, LeafOccAssumption DEF HasRoom
  <2>2. r = SplitLeaf(file, p, e)
    BY <1>12 DEF InsertIntoLeaf
  <2>3. MergedWell(R[p], file[p], e, w) /\ w = WithEntry(file[p].entries, e)
    BY <1>4, <1>6, <1>8, <1>9 DEF MergedWell
  <2> QED
    BY <2>1, <2>2, <2>3, LeafSplitRoutes
<1> QED
  BY <1>11, <1>12

-----------------------------------------------------------------------------
(***************************************************************************)
(* The node a separator goes to.                                           *)
(***************************************************************************)
\* A node that takes the separator of its split child c, and the new page
\* behind c, shares its keys out among its children again.
LEMMA MergedRouted ==
    ASSUME NEW node \in NonLeafPages, Len(node.kids) = Len(node.keys) + 1,
           NEW S0 \in SUBSET Int, NEW Q, NodeRouted(Q, S0, node),
           NEW i \in DOMAIN node.kids, NEW S \in SUBSET Int, Q[node.kids[i]] = S,
           NEW R, \A j \in DOMAIN node.kids :
                    node.kids[j] # node.kids[i] => R[node.kids[j]] = Q[node.kids[j]],
           NEW key \in Int, NEW right \in Nat \ {0},
           CutAt(S, key, R[node.kids[i]], R[right]),
           NEW M, NEW m, OpenedAt(node, key, right, M, m)
    PROVE  NodeRouted(R, S0, M) /\ m = i
<1>1. PICK keys \in Seq(Int), kids \in Seq(Nat) : keys = node.keys /\ kids = node.kids
  BY DEF NonLeafPages
<1>2. PICK n \in Nat : n = Len(keys) /\ DOMAIN keys = 1 .. n /\ DOMAIN kids = 1 .. (n + 1)
  BY <1>1
<1>3. /\ Increasing(keys) /\ \A j \in 1 .. n : keys[j] \in S0 /\ keys[j] \in Int
      /\ \A j \in 1 .. (n + 1) :
            /\ kids[j] # 0
            /\ \A k \in Int : k \in Q[kids[j]] <=> k \in S0 /\ RouteTo(keys, k, j)
  BY <1>1, <1>2 DEF NodeRouted
<1>4. key \in S /\ key \in S0 /\ RouteTo(keys, key, i) /\ i \in 1 .. (n + 1)
  <2>1. key \in S
    BY DEF CutAt
  <2> QED
    BY <2>1, <1>1, <1>2, <1>3
<1>5. /\ m \in 1 .. (n + 1) /\ Len(M.keys) = n + 1 /\ Len(M.kids) = n + 2 /\ M \in NonLeafPages
      /\ \A j \in 1 .. (n + 1) : M.keys[j] =
          IF j < m THEN keys[j] ELSE IF j = m THEN key ELSE keys[j - 1]
      /\ \A j \in 1 .. (n + 2) : M.kids[j] =
          IF j < m + 1 THEN kids[j] ELSE IF j = m + 1 THEN right ELSE kids[j - 1]
      /\ \A j \in 1 .. n : j < m => keys[j] <= key
      /\ m <= n => keys[m] > key
  BY <1>1, <1>2 DEF OpenedAt
<1>6. RouteTo(keys, key, m)
  <2>1. m > 1 => m - 1 \in 1 .. n /\ m - 1 < m
    BY <1>5
  <2>2. m <= n => m \in 1 .. n
    BY <1>5
  <2> QED
    BY <2>1, <2>2, <1>2, <1>3, <1>5 DEF RouteTo
<1>7. m = i
  BY <1>1, <1>3, <1>4, <1>6, RouteIsOne
<1>8. \A j \in 1 .. (n + 1) : j # m => kids[j] # kids[m] /\ R[kids[j]] = Q[kids[j]]
  <2>1. TAKE j \in 1 .. (n + 1)
  <2>2. HAVE j # m
  <2>3. kids[j] = kids[m] => RouteTo(keys, key, j)
    BY <1>1, <1>3, <1>4, <1>7
  <2>4. kids[j] # kids[m]
    BY <2>2, <2>3, <1>1, <1>3, <1>6, RouteIsOne
  <2> QED
    BY <2>4, <1>1, <1>2, <1>7
<1>9. \A k \in Int : /\ k \in R[kids[m]] <=> k \in S0 /\ RouteTo(keys, k, m) /\ k < key
                     /\ k \in R[right] <=> k \in S0 /\ RouteTo(keys, k, m) /\ k >= key
  <2>1. Q[kids[m]] = S /\ CutAt(S, key, R[kids[m]], R[right])
    BY <1>1, <1>7
  <2>2. \A k \in Int : k \in S <=> k \in S0 /\ RouteTo(keys, k, m)
    BY <2>1, <1>3, <1>5
  <2> QED
    BY <2>1, <2>2 DEF CutAt
<1>10. PICK K \in Seq(Int), C \in Seq(Nat) : K = M.keys /\ C = M.kids
  BY <1>5 DEF NonLeafPages
<1>11. /\ DOMAIN K = 1 .. (n + 1) /\ DOMAIN C = 1 .. (n + 2) /\ Len(K) = n + 1
       /\ \A j \in 1 .. (n + 1) : K[j] \in Int
  <2>1. Len(K) = n + 1 /\ Len(C) = n + 2
    BY <1>5, <1>10
  <2>2. DOMAIN K = 1 .. Len(K) /\ DOMAIN C = 1 .. Len(C) /\ \A j \in DOMAIN K : K[j] \in Int
    BY <1>10
  <2> QED
    BY <2>1, <2>2
<1>12. /\ \A j \in 1 .. (n + 1) : j < m => j \in 1 .. n /\ K[j] = keys[j]
       /\ K[m] = key
       /\ \A j \in 1 .. (n + 1) : j > m => j - 1 \in 1 .. n /\ j - 1 >= m /\ K[j] = keys[j - 1]
  BY <1>5, <1>10, SMTT(20)
<1>13. /\ \A j \in 1 .. (n + 2) : j <= m => j \in 1 .. (n + 1) /\ C[j] = kids[j]
       /\ C[m + 1] = right
       /\ \A j \in 1 .. (n + 2) : j > m + 1 => j - 1 \in 1 .. (n + 1) /\ j - 1 > m /\ C[j] = kids[j - 1]
  <2>1. \A j \in 1 .. (n + 2) : C[j] =
          IF j < m + 1 THEN kids[j] ELSE IF j = m + 1 THEN right ELSE kids[j - 1]
    BY <1>5, <1>10
  <2>2. m + 1 \in 1 .. (n + 2) /\ ~(m + 1 < m + 1)
    BY <1>5
  <2>3. \A j \in 1 .. (n + 2) : (j <= m => j < m + 1 /\ j \in 1 .. (n + 1))
                               /\ (j > m + 1 => j - 1 \in 1 .. (n + 1) /\ j - 1 > m
                                                /\ ~(j < m + 1) /\ j # m + 1)
    BY <1>5
  <2> QED
    BY <2>1, <2>2, <2>3
<1>14. \A a, b \in 1 .. n : a < b => keys[a] < keys[b]
  BY <1>2, <1>3 DEF Increasing
<1>15. m > 1 => keys[m - 1] < key /\ m - 1 \in 1 .. n
  <2>1. SUFFICES ASSUME m > 1 PROVE keys[m - 1] < key /\ m - 1 \in 1 .. n
    OBVIOUS
  <2>2. PICK k \in S : k < key
    BY DEF CutAt
  <2>3. RouteTo(keys, k, m)
    BY <2>2, <1>1, <1>3, <1>5, <1>7
  <2>4. m \in 1 .. (n + 1)
    BY <1>5
  <2>5. m - 1 \in 1 .. n
    BY <2>1, <2>4
  <2>6. keys[m - 1] <= k
    BY <2>1, <2>3 DEF RouteTo
  <2>7. keys[m - 1] \in Int
    BY <2>5, <1>3
  <2> QED
    BY <2>2, <2>5, <2>6, <2>7
<1>16. \A a \in 1 .. n : a < m => keys[a] < key
  <2>1. TAKE a \in 1 .. n
  <2>2. HAVE a < m
  <2>3. m > 1 /\ (a = m - 1 \/ a < m - 1)
    BY <2>2, <1>5
  <2> QED
    BY <2>3, <1>3, <1>14, <1>15
<1>17. \A a \in 1 .. n : a >= m => key < keys[a]
  <2>1. TAKE a \in 1 .. n
  <2>2. HAVE a >= m
  <2>3. m \in 1 .. (n + 1) /\ (m <= n => keys[m] > key)
    BY <1>5
  <2>4. m \in 1 .. n /\ m <= n /\ (a = m \/ m < a)
    BY <2>2, <2>3
  <2>5. keys[m] \in Int /\ keys[a] \in Int
    BY <2>4, <1>3
  <2>6. keys[m] > key
    BY <2>3, <2>4
  <2>7. a = m \/ keys[m] < keys[a]
    BY <2>4, <1>14
  <2> QED
    BY <2>5, <2>6, <2>7
<1>18. ASSUME NEW a \in 1 .. (n + 1), NEW b \in 1 .. (n + 1), a < b PROVE K[a] < K[b]
  <2>1. CASE b < m
    <3>1. a < m /\ a \in 1 .. n /\ b \in 1 .. n
      BY <2>1, <1>5, <1>18
    <3>2. K[a] = keys[a] /\ K[b] = keys[b]
      BY <3>1, <2>1, <1>12
    <3> QED
      BY <3>1, <3>2, <1>14, <1>18
  <2>2. CASE b = m
    BY <2>2, <1>12, <1>16, <1>18
  <2>3. CASE b > m /\ a = m
    <3>1. K[b] = keys[b - 1] /\ b - 1 \in 1 .. n /\ b - 1 >= m /\ K[a] = key
      BY <2>3, <1>12
    <3> QED
      BY <3>1, <1>17
  <2>4. CASE b > m /\ a < m
    <3>1. K[a] < key /\ key < K[b] /\ K[a] \in Int /\ K[b] \in Int
      BY <2>4, <1>11, <1>12, <1>16, <1>17
    <3> QED
      BY <3>1, SMTT(20)
  <2>5. CASE b > m /\ a > m
    <3>1. K[a] = keys[a - 1] /\ K[b] = keys[b - 1] /\ a - 1 \in 1 .. n /\ b - 1 \in 1 .. n /\ a - 1 < b - 1
      BY <2>5, <1>12, <1>18
    <3> QED
      BY <3>1, <1>14
  <2>6. m \in Nat /\ a \in Nat /\ b \in Nat
    BY <1>5
  <2>7. b < m \/ b = m \/ (b > m /\ (a = m \/ a < m \/ a > m))
    BY <2>6
  <2> QED
    BY <2>1, <2>2, <2>3, <2>4, <2>5, <2>7
<1>19. \A a \in 1 .. (n + 1) : K[a] \in S0
  <2>1. TAKE a \in 1 .. (n + 1)
  <2>2. a < m \/ a = m \/ a > m
    BY <1>5
  <2> QED
    BY <2>2, <1>3, <1>4, <1>12
<1>20. ASSUME NEW k, NEW j
       PROVE  /\ RouteTo(keys, k, j) <=> /\ j \in 1 .. (n + 1)
                                         /\ j > 1 => keys[j - 1] <= k
                                         /\ j <= n => k < keys[j]
              /\ RouteTo(K, k, j) <=> /\ j \in 1 .. (n + 2)
                                      /\ j > 1 => K[j - 1] <= k
                                      /\ j <= n + 1 => k < K[j]
  <2>1. Len(K) + 1 = n + 2 /\ Len(K) = n + 1 /\ Len(keys) = n
    BY <1>2, <1>11
  <2> QED
    BY <2>1 DEF RouteTo
<1>21. ASSUME NEW j \in 1 .. (n + 2)
       PROVE  C[j] # 0 /\ \A k \in Int : k \in R[C[j]] <=> k \in S0 /\ RouteTo(K, k, j)
  <2>1. m \in 1 .. (n + 1) /\ n \in Nat
    BY <1>5
  <2>2. CASE j < m
    <3>1. j <= m /\ j # m /\ j \in 1 .. (n + 1)
      BY <2>2, <2>1, <1>21, SMTT(20)
    <3>2. C[j] = kids[j] /\ R[kids[j]] = Q[kids[j]] /\ j \in 1 .. (n + 1) /\ kids[j] # 0
      BY <3>1, <1>3, <1>8, <1>13
    <3>3. \A k : RouteTo(K, k, j) <=> RouteTo(keys, k, j)
      <4>1. j <= n /\ j <= n + 1 /\ K[j] = keys[j] /\ j \in 1 .. (n + 2)
        BY <2>2, <1>5, <1>12, <3>2
      <4>2. j > 1 => K[j - 1] = keys[j - 1]
        <5>1. j > 1 => j - 1 \in 1 .. (n + 1) /\ j - 1 < m
          BY <2>2, <2>1, <3>1
        <5> QED
          BY <5>1, <1>12
      <4> QED
        BY <4>1, <4>2, <3>2, <1>20
    <3> QED
      BY <3>2, <3>3, <1>3
  <2>3. CASE j = m
    <3>1. C[j] = kids[m] /\ kids[m] # 0 /\ m \in 1 .. (n + 1)
      BY <2>3, <1>3, <1>5, <1>13
    <3>2. ASSUME NEW k \in Int PROVE RouteTo(K, k, m) <=> RouteTo(keys, k, m) /\ k < key
      <4>1. m <= n + 1 /\ K[m] = key /\ m \in 1 .. (n + 2)
        BY <1>5, <1>12
      <4>2. m > 1 => K[m - 1] = keys[m - 1]
        <5>1. m > 1 => m - 1 \in 1 .. (n + 1) /\ m - 1 < m
          BY <1>5
        <5> QED
          BY <5>1, <1>12
      <4>3. m <= n => (k < key => k < keys[m])
        BY <1>3, <1>5, <1>17, SMTT(20)
      <4> QED
        BY <4>1, <4>2, <4>3, <1>5, <1>20
    <3> QED
      BY <3>1, <3>2, <2>3, <1>9
  <2>4. CASE j = m + 1
    <3>1. C[j] = right
      BY <2>4, <1>13
    <3>2. ASSUME NEW k \in Int PROVE RouteTo(K, k, m + 1) <=> RouteTo(keys, k, m) /\ k >= key
      <4>1. PICK x : x = m + 1
        OBVIOUS
      <4>2. x \in 1 .. (n + 2) /\ x > 1 /\ x - 1 = m /\ K[x - 1] = key /\ (x <= n + 1 <=> m <= n)
        BY <4>1, <1>5, <1>12
      <4>3. m <= n => K[x] = keys[m]
        <5>1. m <= n => x \in 1 .. (n + 1) /\ x > m /\ x - 1 = m
          BY <4>1, <1>5
        <5> QED
          BY <5>1, <1>12
      <4>4. m > 1 => (k >= key => keys[m - 1] <= k)
        BY <1>3, <1>15
      <4>5. K[x - 1] <= k <=> k >= key
        BY <4>2
      <4>6. RouteTo(K, k, x) <=> RouteTo(keys, k, m) /\ k >= key
        BY <4>2, <4>3, <4>4, <4>5, <1>5, <1>20
      <4> QED
        BY <4>1, <4>6
    <3> QED
      BY <3>1, <3>2, <2>4, <1>9
  <2>5. CASE j > m + 1
    <3>1. PICK x : x = j - 1
      OBVIOUS
    <3>2. C[j] = kids[x] /\ R[kids[x]] = Q[kids[x]] /\ x \in 1 .. (n + 1) /\ kids[x] # 0 /\ x > m
      <4>1. x \in 1 .. (n + 1) /\ x > m /\ x # m
        <5>1. j \in Int /\ j <= n + 2
          BY <2>1, <1>21
        <5>2. m \in Int /\ 1 <= m
          BY <2>1
        <5>3. j - 1 \in Int /\ j - 1 > m /\ j - 1 <= n + 1
          BY <2>1, <2>5, <5>1, <5>2
        <5> QED
          BY <2>1, <3>1, <5>2, <5>3
      <4>2. C[j] = kids[x]
        <5>1. C[j] = kids[j - 1]
          BY <2>5, <1>13, <1>21
        <5> QED
          BY <5>1, <3>1
      <4> QED
        BY <4>1, <4>2, <1>3, <1>8
    <3>3. \A k : RouteTo(K, k, j) <=> RouteTo(keys, k, x)
      <4>1. j \in 1 .. (n + 2) /\ j > 1 /\ x > 1 /\ j - 1 = x /\ K[x] = keys[x - 1]
            /\ (j <= n + 1 <=> x <= n)
        BY <2>5, <3>1, <3>2, <1>5, <1>12
      <4>2. x <= n => K[j] = keys[x]
        <5>1. x <= n => j \in 1 .. (n + 1) /\ j > m /\ j - 1 = x
          BY <2>5, <3>1, <3>2, <1>5
        <5> QED
          BY <5>1, <1>12
      <4>3. TAKE k
      <4>4. RouteTo(K, k, j) <=> /\ j \in 1 .. (n + 2)
                                 /\ j > 1 => K[j - 1] <= k
                                 /\ j <= n + 1 => k < K[j]
        BY <1>20
      <4>5. RouteTo(keys, k, x) <=> /\ x \in 1 .. (n + 1)
                                    /\ x > 1 => keys[x - 1] <= k
                                    /\ x <= n => k < keys[x]
        BY <1>20
      <4> QED
        BY <4>1, <4>2, <4>4, <4>5, <3>2
    <3> QED
      BY <3>2, <3>3, <1>3
  <2> QED
    BY <2>2, <2>3, <2>4, <2>5, <1>5
<1>22. NodeRouted(R, S0, M)
  BY <1>10, <1>11, <1>18, <1>19, <1>21 DEF NodeRouted, Increasing
<1> QED
  BY <1>7, <1>22

\* A node cut in two behind key l + 1 of its keys, which goes up.
NodeCut(M, l, A, B) ==
    /\ l \in 1 .. (Len(M.keys) - 1)
    /\ Len(A.keys) = l /\ DOMAIN A.kids = 1 .. (l + 1)
    /\ \A j \in 1 .. l : A.keys[j] = M.keys[j]
    /\ \A j \in 1 .. (l + 1) : A.kids[j] = M.kids[j]
    /\ Len(B.keys) = Len(M.keys) - l - 1 /\ DOMAIN B.kids = 1 .. (Len(M.keys) - l)
    /\ \A j \in 1 .. (Len(M.keys) - l - 1) : B.keys[j] = M.keys[l + 1 + j]
    /\ \A j \in 1 .. (Len(M.keys) - l) : B.kids[j] = M.kids[l + 1 + j]

\* Where an array of n keys sends k.
LEMMA RouteIn ==
    ASSUME NEW keys \in Seq(Int), NEW n, n = Len(keys), NEW k, NEW j
    PROVE  RouteTo(keys, k, j) <=> /\ j \in 1 .. (n + 1)
                                   /\ j > 1 => keys[j - 1] <= k
                                   /\ j <= n => k < keys[j]
BY DEF RouteTo

LEMMA LeftPartRouted ==
    ASSUME NEW M \in NonLeafPages, Len(M.kids) = Len(M.keys) + 1,
           NEW S0 \in SUBSET Int, NEW R, NodeRouted(R, S0, M),
           NEW l, NEW A \in NonLeafPages, NEW B, NodeCut(M, l, A, B)
    PROVE  NodeRouted(R, {k \in S0 : k < M.keys[l + 1]}, A)
<1>1. PICK keys \in Seq(Int), kids \in Seq(Nat) : keys = M.keys /\ kids = M.kids
  BY DEF NonLeafPages
<1>2. PICK ks \in Seq(Int), cs \in Seq(Nat) : ks = A.keys /\ cs = A.kids
  BY DEF NonLeafPages
<1>3. PICK n \in Nat : n = Len(keys) /\ DOMAIN keys = 1 .. n
  BY <1>1
<1>4. /\ l \in 1 .. (n - 1) /\ Len(ks) = l /\ DOMAIN cs = 1 .. (l + 1)
      /\ \A j \in 1 .. l : ks[j] = keys[j]
      /\ \A j \in 1 .. (l + 1) : cs[j] = kids[j]
  BY <1>1, <1>2, <1>3 DEF NodeCut
<1>5. DOMAIN ks = 1 .. l /\ DOMAIN kids = 1 .. (n + 1)
  <2>1. Len(kids) = n + 1
    BY <1>1, <1>3
  <2> QED
    BY <2>1, <1>1, <1>4
<1>6. /\ \A a, b \in 1 .. n : a < b => keys[a] < keys[b]
      /\ \A a \in 1 .. n : keys[a] \in S0 /\ keys[a] \in Int
      /\ \A j \in 1 .. (n + 1) : kids[j] # 0
  BY <1>1, <1>3, <1>5 DEF NodeRouted, Increasing
<1>7. ASSUME NEW k \in Int, NEW j \in 1 .. (n + 1)
      PROVE  k \in R[kids[j]] <=> k \in S0 /\ RouteTo(keys, k, j)
  BY <1>1, <1>5, <1>7 DEF NodeRouted
<1>8. \A a \in 1 .. l : a \in 1 .. n /\ a < l + 1 /\ l + 1 \in 1 .. n
  BY <1>4
<1>9. PICK S : S = {k \in S0 : k < M.keys[l + 1]}
  OBVIOUS
<1>10. Increasing(ks) /\ \A a \in 1 .. l : ks[a] \in S
  BY <1>1, <1>4, <1>5, <1>6, <1>8, <1>9 DEF Increasing
<1>11. ASSUME NEW j \in 1 .. (l + 1), NEW k \in Int
       PROVE  k \in R[cs[j]] <=> k \in S /\ RouteTo(ks, k, j)
  <2>1. j \in 1 .. (n + 1) /\ cs[j] = kids[j] /\ l \in Nat
    BY <1>4, <1>11
  <2>2. k \in R[cs[j]] <=> k \in S0 /\ RouteTo(keys, k, j)
    BY <2>1, <1>7
  <2>3. RouteTo(keys, k, j) <=> (j > 1 => keys[j - 1] <= k) /\ (j <= n => k < keys[j])
    BY <2>1, <1>3, RouteIn
  <2>4. RouteTo(ks, k, j) <=> (j > 1 => ks[j - 1] <= k) /\ (j <= l => k < ks[j])
    BY <1>4, <1>11, RouteIn
  <2>5. j > 1 => ks[j - 1] = keys[j - 1]
    <3>1. j > 1 => j - 1 \in 1 .. l
      BY <2>1, <1>11
    <3> QED
      BY <3>1, <1>4
  <2>6. k \in S <=> k \in S0 /\ k < keys[l + 1]
    BY <1>1, <1>9
  <2>7. CASE j = l + 1
    <3>1. j <= n /\ ~(j <= l)
      BY <2>7, <1>4
    <3> QED
      BY <2>2, <2>3, <2>4, <2>5, <2>6, <2>7, <3>1
  <2>8. CASE j # l + 1
    <3>1. j \in 1 .. l /\ j \in 1 .. n /\ j <= n /\ j <= l /\ ks[j] = keys[j] /\ j < l + 1 /\ l + 1 \in 1 .. n
      <4>1. l \in 1 .. (n - 1) /\ j \in 1 .. (l + 1)
        BY <1>4, <1>11
      <4>2. j \in 1 .. l /\ j \in 1 .. n /\ j <= n /\ j <= l /\ j < l + 1 /\ l + 1 \in 1 .. n
        BY <2>8, <4>1
      <4> QED
        BY <4>2, <1>4
    <3>2. keys[j] < keys[l + 1] /\ keys[j] \in Int /\ keys[l + 1] \in Int
      BY <3>1, <1>6
    <3>3. k < keys[j] => k < keys[l + 1]
      BY <3>2
    <3> QED
      BY <2>2, <2>3, <2>4, <2>5, <2>6, <3>1, <3>3
  <2> QED
    BY <2>7, <2>8
<1>12. \A j \in 1 .. (l + 1) : cs[j] # 0
  <2>1. \A j \in 1 .. (l + 1) : j \in 1 .. (n + 1)
    BY <1>4
  <2> QED
    BY <2>1, <1>4, <1>6
<1> QED
  BY <1>2, <1>4, <1>5, <1>9, <1>10, <1>11, <1>12 DEF NodeRouted

LEMMA RightPartRouted ==
    ASSUME NEW M \in NonLeafPages, Len(M.kids) = Len(M.keys) + 1,
           NEW S0 \in SUBSET Int, NEW R, NodeRouted(R, S0, M),
           NEW l, NEW A, NEW B \in NonLeafPages, NodeCut(M, l, A, B)
    PROVE  NodeRouted(R, {k \in S0 : k >= M.keys[l + 1]}, B)
<1>1. PICK keys \in Seq(Int), kids \in Seq(Nat) : keys = M.keys /\ kids = M.kids
  BY DEF NonLeafPages
<1>2. PICK ks \in Seq(Int), cs \in Seq(Nat) : ks = B.keys /\ cs = B.kids
  BY DEF NonLeafPages
<1>3. PICK n \in Nat : n = Len(keys) /\ DOMAIN keys = 1 .. n
  BY <1>1
<1>4. PICK m \in Nat : m = n - l - 1 /\ n - l = m + 1 /\ l \in 1 .. (n - 1)
  <2>1. l \in 1 .. (n - 1)
    BY <1>1, <1>3 DEF NodeCut
  <2>2. n - l - 1 \in Nat /\ n - l = n - l - 1 + 1
    BY <2>1
  <2> QED
    BY <2>1, <2>2
<1>5. /\ Len(ks) = m /\ DOMAIN cs = 1 .. (m + 1)
      /\ \A j \in 1 .. m : ks[j] = keys[l + 1 + j]
      /\ \A j \in 1 .. (m + 1) : cs[j] = kids[l + 1 + j]
  BY <1>1, <1>2, <1>3, <1>4 DEF NodeCut
<1>6. DOMAIN ks = 1 .. m /\ DOMAIN kids = 1 .. (n + 1)
  <2>1. Len(kids) = n + 1
    BY <1>1, <1>3
  <2> QED
    BY <2>1, <1>1, <1>5
<1>7. /\ \A a, b \in 1 .. n : a < b => keys[a] < keys[b]
      /\ \A a \in 1 .. n : keys[a] \in S0 /\ keys[a] \in Int
      /\ \A j \in 1 .. (n + 1) : kids[j] # 0
  BY <1>1, <1>3, <1>6 DEF NodeRouted, Increasing
<1>8. ASSUME NEW k \in Int, NEW j \in 1 .. (n + 1)
      PROVE  k \in R[kids[j]] <=> k \in S0 /\ RouteTo(keys, k, j)
  BY <1>1, <1>6, <1>8 DEF NodeRouted
<1>9. l + 1 \in 1 .. n /\ keys[l + 1] \in Int
  <2>1. l + 1 \in 1 .. n
    BY <1>4
  <2> QED
    BY <2>1, <1>7
<1>10. PICK S : S = {k \in S0 : k >= M.keys[l + 1]}
  OBVIOUS
<1>11. Increasing(ks) /\ \A a \in 1 .. m : ks[a] \in S
  <2>1. \A a \in 1 .. m : l + 1 + a \in 1 .. n /\ l + 1 < l + 1 + a
    BY <1>4
  <2>2. \A a, b \in 1 .. m : a < b => l + 1 + a < l + 1 + b
    BY <1>4
  <2>3. \A a, b \in 1 .. m : a < b => keys[l + 1 + a] < keys[l + 1 + b]
    BY <2>1, <2>2, <1>7
  <2>4. \A a \in 1 .. m : keys[l + 1 + a] \in S
    <3>1. TAKE a \in 1 .. m
    <3>2. keys[l + 1] < keys[l + 1 + a] /\ keys[l + 1 + a] \in Int
      BY <2>1, <1>7, <1>9
    <3>3. PICK k \in Int : k = keys[l + 1 + a] /\ k \in S0
      BY <2>1, <1>7
    <3>4. k >= keys[l + 1]
      BY <3>2, <3>3, <1>9
    <3> QED
      BY <3>3, <3>4, <1>1, <1>10
  <2>5. \A a, b \in 1 .. m : a < b => ks[a] < ks[b]
    BY <2>3, <1>5
  <2>6. \A a \in 1 .. m : ks[a] \in S
    BY <2>4, <1>5
  <2> QED
    BY <2>5, <2>6, <1>6 DEF Increasing
<1>12. ASSUME NEW j \in 1 .. (m + 1), NEW k \in Int
       PROVE  k \in R[cs[j]] <=> k \in S /\ RouteTo(ks, k, j)
  <2>1. PICK x \in Nat : x = l + 1 + j
    BY <1>4, <1>12
  <2>2. x \in 1 .. (n + 1) /\ cs[j] = kids[x] /\ x > 1 /\ (x <= n <=> j <= m) /\ x - 1 = l + j
        /\ x - 1 \in 1 .. n
    BY <2>1, <1>4, <1>5, <1>12
  <2>3. k \in R[cs[j]] <=> k \in S0 /\ RouteTo(keys, k, x)
    BY <2>2, <1>8
  <2>4. RouteTo(keys, k, x) <=> keys[x - 1] <= k /\ (j <= m => k < keys[x])
    BY <2>2, <1>3, RouteIn
  <2>5. RouteTo(ks, k, j) <=> (j > 1 => ks[j - 1] <= k) /\ (j <= m => k < ks[j])
    BY <1>5, <1>12, RouteIn
  <2>6. k \in S <=> k \in S0 /\ k >= keys[l + 1]
    BY <1>1, <1>10
  <2>7. j <= m => ks[j] = keys[x]
    <3>1. j <= m => j \in 1 .. m
      BY <1>12
    <3> QED
      BY <3>1, <2>1, <1>5
  <2>8. CASE j = 1
    <3>1. x - 1 = l + 1 /\ ~(j > 1)
      BY <2>2, <2>8, <1>4
    <3>2. keys[x - 1] <= k <=> k >= keys[l + 1]
      BY <3>1, <1>9
    <3> QED
      BY <2>3, <2>4, <2>5, <2>6, <2>7, <3>1, <3>2
  <2>9. CASE j # 1
    <3>1. j > 1 /\ j - 1 \in 1 .. m /\ l + 1 + (j - 1) = x - 1 /\ l + 1 < x - 1
      BY <2>1, <2>9, <1>4, <1>12
    <3>2. ks[j - 1] = keys[x - 1]
      <4>1. ks[j - 1] = keys[l + 1 + (j - 1)]
        BY <3>1, <1>5
      <4> QED
        BY <4>1, <3>1
    <3>3. keys[l + 1] < keys[x - 1] /\ keys[x - 1] \in Int
      BY <3>1, <2>2, <1>7, <1>9
    <3>4. keys[x - 1] <= k => k >= keys[l + 1]
      BY <3>3, <1>9
    <3> QED
      BY <2>3, <2>4, <2>5, <2>6, <2>7, <3>1, <3>2, <3>4
  <2> QED
    BY <2>8, <2>9
<1>13. \A j \in 1 .. (m + 1) : cs[j] # 0
  <2>1. TAKE j \in 1 .. (m + 1)
  <2>2. PICK x : x = l + 1 + j
    OBVIOUS
  <2>3. x \in 1 .. (n + 1)
    BY <2>2, <1>4
  <2>4. cs[j] = kids[x]
    BY <2>2, <1>5
  <2> QED
    BY <2>3, <2>4, <1>7
<1> QED
  BY <1>2, <1>5, <1>6, <1>10, <1>11, <1>12, <1>13 DEF NodeRouted
\* The arrays splitNonLeafNode fills its map from: each key and the child on
\* its right.
LEMMA TailAndRight ==
    ASSUME NEW keys \in Seq(Int), NEW kids \in Seq(Nat), NEW n \in Nat, Len(keys) = n,
           Len(kids) = n + 1, NEW key, NEW right
    PROVE  /\ DOMAIN Append(keys, key) = 1 .. (n + 1)
           /\ \A j \in 1 .. n : Append(keys, key)[j] = keys[j]
           /\ Append(keys, key)[n + 1] = key
           /\ \A j \in 1 .. n : Append(Tail(kids), right)[j] = kids[j + 1]
           /\ Append(Tail(kids), right)[n + 1] = right
<1>1. PICK t \in Seq(Nat) : t = Tail(kids) /\ Len(t) = n /\ \A i \in 1 .. n : t[i] = kids[i + 1]
  <2>1. kids # <<>>
    OBVIOUS
  <2>2. /\ Tail(kids) \in Seq(Nat) /\ Len(Tail(kids)) = Len(kids) - 1
        /\ \A i \in 1 .. Len(Tail(kids)) : Tail(kids)[i] = kids[i + 1]
    BY <2>1, HeadTailProperties
  <2>3. Len(Tail(kids)) = n
    BY <2>2
  <2>4. \A i \in 1 .. n : Tail(kids)[i] = kids[i + 1]
    BY <2>2, <2>3
  <2> QED
    BY <2>2, <2>3, <2>4, Zenon
<1>2. /\ DOMAIN Append(keys, key) = 1 .. (n + 1)
      /\ \A j \in 1 .. n : Append(keys, key)[j] = keys[j]
      /\ Append(keys, key)[n + 1] = key
  BY SMTT(20)
<1>3. PICK u : u = Append(t, right)
  OBVIOUS
<1>4. /\ \A j \in 1 .. n : u[j] = t[j]
      /\ u[n + 1] = right
  BY <1>1, <1>3
<1>5. \A j \in 1 .. n : u[j] = kids[j + 1]
  BY <1>1, <1>4
<1> QED
  BY <1>1, <1>2, <1>3, <1>4, <1>5

\* With no key twice, the map gives each key its child.
LEMMA PageForInOrder ==
    ASSUME NEW node \in NonLeafPages, Len(node.kids) = Len(node.keys) + 1,
           NEW key \in Int, NEW right \in Nat, NEW M, NEW m,
           OpenedAt(node, key, right, M, m), Increasing(M.keys),
           NEW j \in 1 .. (Len(node.keys) + 1)
    PROVE  PageFor(Append(node.keys, key), Append(Tail(node.kids), right), M.keys[j]) = M.kids[j + 1]
<1>1. PICK keys \in Seq(Int), kids \in Seq(Nat) : keys = node.keys /\ kids = node.kids
  BY DEF NonLeafPages
<1>2. PICK n \in Nat : n = Len(keys) /\ Len(kids) = n + 1
  BY <1>1
<1>3. PICK ks, cs : ks = Append(keys, key) /\ cs = Append(Tail(kids), right)
  OBVIOUS
<1>4. /\ DOMAIN ks = 1 .. (n + 1)
      /\ \A a \in 1 .. n : ks[a] = keys[a]
      /\ ks[n + 1] = key
      /\ \A a \in 1 .. n : cs[a] = kids[a + 1]
      /\ cs[n + 1] = right
  BY <1>2, <1>3, TailAndRight
<1>5. PICK K \in Seq(Int), C \in Seq(Nat) : K = M.keys /\ C = M.kids
  BY DEF OpenedAt, NonLeafPages
<1>6. /\ m \in 1 .. (n + 1) /\ Len(K) = n + 1 /\ j \in 1 .. (n + 1)
      /\ \A a \in 1 .. (n + 1) : K[a] =
          IF a < m THEN keys[a] ELSE IF a = m THEN key ELSE keys[a - 1]
      /\ \A a \in 1 .. (n + 2) : C[a] =
          IF a < m + 1 THEN kids[a] ELSE IF a = m + 1 THEN right ELSE kids[a - 1]
  BY <1>1, <1>2, <1>5 DEF OpenedAt
<1>7. \A a, b \in 1 .. (n + 1) : K[a] = K[b] => a = b
  <2>1. DOMAIN K = 1 .. (n + 1) /\ \A a \in DOMAIN K : K[a] \in Int
    BY <1>5, <1>6
  <2>2. \A a, b \in DOMAIN K : a < b => K[a] < K[b]
    BY <1>5 DEF Increasing
  <2>3. TAKE a, b \in 1 .. (n + 1)
  <2>4. HAVE K[a] = K[b]
  <2>5. a < b \/ b < a \/ a = b
    OBVIOUS
  <2>6. K[a] \in Int /\ (a < b => K[a] < K[b]) /\ (b < a => K[b] < K[a])
    BY <2>1, <2>2
  <2> QED
    BY <2>4, <2>5, <2>6
<1> DEFINE PlaceIn(a) == IF a = n + 1 THEN m ELSE IF a < m THEN a ELSE a + 1
<1>8. ASSUME NEW a \in 1 .. (n + 1)
      PROVE  PlaceIn(a) \in 1 .. (n + 1) /\ ks[a] = K[PlaceIn(a)] /\ cs[a] = C[PlaceIn(a) + 1]
  <2>1. CASE a = n + 1
    <3>1. m + 1 \in 1 .. (n + 2) /\ ~(m < m) /\ ~(m + 1 < m + 1)
      BY <1>6
    <3>2. K[m] = key /\ C[m + 1] = right
      BY <3>1, <1>6
    <3> QED
      BY <2>1, <3>2, <1>4, <1>6
  <2>2. CASE a # n + 1 /\ a < m
    <3>1. a + 1 \in 1 .. (n + 2) /\ a + 1 < m + 1 /\ a \in 1 .. n
      BY <2>2, <1>6, <1>8
    <3>2. K[a] = keys[a] /\ C[a + 1] = kids[a + 1]
      BY <2>2, <3>1, <1>6
    <3> QED
      BY <2>2, <3>1, <3>2, <1>4
  <2>3. CASE a # n + 1 /\ ~(a < m)
    <3>1. PICK b : b = a + 1
      OBVIOUS
    <3>2. b \in 1 .. (n + 1) /\ ~(b < m) /\ b # m /\ b - 1 = a /\ a \in 1 .. n
      BY <2>3, <3>1, <1>6, <1>8
    <3>3. b + 1 \in 1 .. (n + 2) /\ ~(b + 1 < m + 1) /\ b + 1 # m + 1 /\ b + 1 - 1 = a + 1
      BY <3>1, <3>2, <1>6
    <3>4. K[b] = keys[a]
      BY <3>2, <1>6
    <3>5. C[b + 1] = kids[a + 1]
      <4>1. PICK x : x = b + 1
        OBVIOUS
      <4>2. x \in 1 .. (n + 2) /\ ~(x < m + 1) /\ x # m + 1 /\ x - 1 = a + 1
        BY <3>2, <4>1, <1>6
      <4>3. C[x] = kids[x - 1]
        BY <4>2, <1>6
      <4>4. C[x] = kids[a + 1]
        BY <4>2, <4>3
      <4> QED
        BY <4>1, <4>4
    <3> QED
      BY <2>3, <3>1, <3>2, <3>4, <3>5, <1>4
  <2> QED
    BY <2>1, <2>2, <2>3
<1> HIDE DEF PlaceIn
<1>9. PICK k : k = K[j]
  OBVIOUS
<1> DEFINE at == {a \in DOMAIN ks : ks[a] = k}
<1>10. ASSUME NEW a \in at PROVE cs[a] = C[j + 1]
  <2>1. a \in 1 .. (n + 1) /\ ks[a] = k
    BY <1>4
  <2>2. K[PlaceIn(a)] = K[j] /\ PlaceIn(a) \in 1 .. (n + 1) /\ cs[a] = C[PlaceIn(a) + 1]
    BY <2>1, <1>8, <1>9
  <2>3. PICK b : b = PlaceIn(a)
    OBVIOUS
  <2>4. b = j
    BY <2>2, <2>3, <1>6, <1>7
  <2> QED
    BY <2>2, <2>3, <2>4
<1>11. at # {}
  <2>1. CASE j < m
    <3>1. j \in 1 .. n /\ K[j] = keys[j] /\ j \in 1 .. (n + 1)
      BY <2>1, <1>6
    <3>2. ks[j] = k /\ j \in DOMAIN ks
      BY <3>1, <1>4, <1>9
    <3> QED
      BY <3>2
  <2>2. CASE j = m
    <3>1. K[j] = key /\ n + 1 \in 1 .. (n + 1)
      BY <2>2, <1>6
    <3> QED
      BY <3>1, <1>4, <1>9
  <2>3. CASE j > m
    <3>1. j - 1 \in 1 .. n /\ K[j] = keys[j - 1] /\ j - 1 \in 1 .. (n + 1)
      BY <2>3, <1>6, SMTT(20)
    <3>2. ks[j - 1] = k /\ j - 1 \in DOMAIN ks
      BY <3>1, <1>4, <1>9
    <3> QED
      BY <3>2
  <2>4. j < m \/ j = m \/ j > m
    BY <1>6
  <2> QED
    BY <2>1, <2>2, <2>3, <2>4
<1>12. Least(at) \in at
  <2>1. at \in SUBSET Nat
    BY <1>4
  <2> HIDE DEF at
  <2> QED
    BY <2>1, <1>11, LeastIsFirst
<1>13. PageFor(ks, cs, k) = cs[Least(at)]
  BY <1>11 DEF PageFor
<1>14. PageFor(ks, cs, k) = C[j + 1]
  BY <1>10, <1>12, <1>13
<1> QED
  BY <1>1, <1>3, <1>5, <1>9, <1>14

\* With nodes as large as leaves, tempKeyArray ends as it should.
LEMMA TempKeysInOrder ==
    ASSUME OneSize, NEW node \in NonLeafPages, Len(node.kids) = Len(node.keys) + 1,
           Len(node.keys) = NodeOcc, NEW key \in Int, NEW right \in Nat, NEW g
    PROVE  TempKeys(node.keys, key, g) = WithKey(node, key, right).keys
<1>1. PICK keys \in Seq(Int) : keys = node.keys
  BY DEF NonLeafPages
<1>2. PICK n \in Nat \ {0} : n = NodeOcc /\ n = LeafOcc /\ n = Len(keys)
  BY <1>1, NodeOccAssumption DEF OneSize
<1>3. PICK w : w = InsertAt(keys, PlaceOf(keys, key), key)
  OBVIOUS
<1>4. PICK i : i = PlaceOf(keys, key)
  OBVIOUS
<1>5. /\ i \in 1 .. (Len(keys) + 1)
      /\ \A j \in DOMAIN keys : j < i => keys[j] <= key
      /\ i <= Len(keys) => keys[i] > key
  BY <1>4, PlaceSplits
<1>6. /\ w \in Seq(Int) /\ Len(w) = n + 1
      /\ \A j \in 1 .. (n + 1) :
            w[j] = IF j < i THEN keys[j] ELSE IF j = i THEN key ELSE keys[j - 1]
  <2>1. Opening(Int, keys, i, key, w)
    BY <1>3, <1>4, <1>5, Opened
  <2> QED
    BY <2>1, <1>2 DEF Opening
<1>7. PICK last : last = IF \E j \in DOMAIN keys : key < keys[j] THEN keys[LeafOcc] ELSE key
  OBVIOUS
<1>8. last = w[n + 1]
  <2>1. CASE i = n + 1
    <3>1. \A j \in DOMAIN keys : j < i /\ keys[j] \in Int
      BY <2>1, <1>2
    <3>2. \A j \in DOMAIN keys : ~(key < keys[j])
      BY <3>1, <1>5
    <3>3. w[n + 1] = key
      BY <2>1, <1>2, <1>6
    <3> QED
      BY <3>2, <3>3, <1>7
  <2>2. CASE i # n + 1
    <3>1. i \in 1 .. n /\ n + 1 \in 1 .. (n + 1) /\ ~(n + 1 < i) /\ n + 1 - 1 = n
      BY <2>2, <1>2, <1>5
    <3>2. w[n + 1] = keys[n]
      BY <2>2, <3>1, <1>6
    <3>3. i \in DOMAIN keys /\ key < keys[i]
      BY <3>1, <1>2, <1>5
    <3> QED
      BY <3>2, <3>3, <1>2, <1>7
  <2> QED
    BY <2>1, <2>2
<1>9. TempKeys(keys, key, g) = [w EXCEPT ![n + 1] = g, ![n + 1] = last]
  BY <1>2, <1>3, <1>7 DEF TempKeys
<1>10. [w EXCEPT ![n + 1] = g, ![n + 1] = last] = w
  <2>1. n + 1 \in DOMAIN w
    BY <1>2, <1>6
  <2>2. PICK w2 : w2 = [w EXCEPT ![n + 1] = g]
    OBVIOUS
  <2>3. [w EXCEPT ![n + 1] = g, ![n + 1] = last] = [w2 EXCEPT ![n + 1] = last]
    BY <2>2
  <2>4. /\ DOMAIN [w2 EXCEPT ![n + 1] = last] = DOMAIN w
        /\ \A x \in DOMAIN w : [w2 EXCEPT ![n + 1] = last][x] = w[x]
    BY <2>1, <2>2, <1>8
  <2>5. [w2 EXCEPT ![n + 1] = last] = [x \in DOMAIN w |-> w[x]]
    BY <2>2, <2>4
  <2>6. w = [x \in DOMAIN w |-> w[x]]
    BY <1>6
  <2> QED
    BY <2>3, <2>5, <2>6
<1>11. WithKey(node, key, right).keys = w
  BY <1>1, <1>3 DEF WithKey, NonLeaf
<1> QED
  BY <1>1, <1>9, <1>10, <1>11

\* A node split as M, the node with one key more, is cut after l of its keys.
CutsNode(M, r, p, l) ==
    /\ NodeCut(M, l, r.file[p], r.file[r.right])
    /\ r.key = M.keys[l + 1]
    /\ r.file[p] \in NonLeafPages /\ r.file[r.right] \in NonLeafPages

LEMMA SplitNodeCuts ==
    ASSUME OneSize, NEW file, NEW h, Shape(file, h), NEW p, IsNonLeaf(file, p),
           Len(file[p].keys) = NodeOcc, NEW key \in Int, NEW g \in Garbage,
           NEW right \in Nat \ {0}, IsNode(file, right), h[right] + 1 = h[p],
           NEW m, OpenedAt(file[p], key, right, WithKey(file[p], key, right), m),
           Increasing(WithKey(file[p], key, right).keys)
    PROVE  CutsNode(WithKey(file[p], key, right), SplitNonLeaf(file, p, key, right, g), p,
                    NodeOcc \div 2)
<1>1. PICK M : M = WithKey(file[p], key, right)
  OBVIOUS
<1>2. PICK r : r = SplitNonLeaf(file, p, key, right, g)
  OBVIOUS
<1>3. /\ Fits(file, h, h[p], file[p])
      /\ p \in DOMAIN file /\ p \in Nat \ {0} /\ h[p] \in Nat /\ file \in Files
  BY FitsWhereItIs
<1>4. /\ file[p] \in NonLeafPages /\ Len(file[p].kids) = Len(file[p].keys) + 1
      /\ file[p].kids[1] \in Nat
  BY <1>3 DEF Fits, NonLeafPages
<1>5. PICK n \in Nat \ {0, 1} : n = NodeOcc
  BY NodeOccAssumption
<1>6. PICK l \in Nat : l = NodeOcc \div 2
  BY <1>5
<1>7. l \in 1 .. (n - 1)
  BY <1>5, <1>6
<1>8. OpenedAt(file[p], key, right, M, m) /\ Increasing(M.keys)
  BY <1>1
<1>9. PICK K \in Seq(Int), C \in Seq(Nat) : K = M.keys /\ C = M.kids
  BY <1>8 DEF OpenedAt, NonLeafPages
<1>10. /\ Len(K) = n + 1 /\ Len(C) = n + 2
       /\ \A j \in 1 .. (n + 1) : K[j] \in Int
       /\ \A j \in 1 .. (n + 2) : C[j] \in Nat
  <2>1. Len(K) = n + 1 /\ Len(C) = n + 2
    BY <1>5, <1>9, <1>8 DEF OpenedAt
  <2>2. DOMAIN K = 1 .. (n + 1) /\ DOMAIN C = 1 .. (n + 2)
    BY <2>1
  <2> QED
    BY <2>1, <2>2, SMTT(20)
<1>11. PICK keys, kids : keys = Append(file[p].keys, key) /\ kids = Append(Tail(file[p].kids), right)
  OBVIOUS
<1>12. ASSUME NEW j \in 1 .. (n + 1) PROVE PageFor(keys, kids, K[j]) = C[j + 1]
  <2>1. j \in 1 .. (Len(file[p].keys) + 1)
    BY <1>5, <1>12
  <2>2. PICK node \in NonLeafPages : node = file[p]
    BY <1>4
  <2>3. PageFor(Append(node.keys, key), Append(Tail(node.kids), right), M.keys[j]) = M.kids[j + 1]
    <3>1. /\ Len(node.kids) = Len(node.keys) + 1 /\ j \in 1 .. (Len(node.keys) + 1)
          /\ OpenedAt(node, key, right, M, m) /\ Increasing(M.keys)
      BY <2>1, <2>2, <1>4, <1>8
    <3> QED
      BY <3>1, PageForInOrder
  <2> QED
    BY <2>2, <2>3, <1>9, <1>11
<1>13. TempKeys(file[p].keys, key, g) = K
  BY <1>4, <1>9, <1>1, TempKeysInOrder
<1>14. PICK new : new = Len(file) + 1
  OBVIOUS
<1>15. r = SplitNodeAt(file, p, K, keys, kids, l, new)
  BY <1>6, <1>2, <1>11, <1>13, <1>14, SplitNodeParts
<1>16. PICK AK, AC : AK = SubSeq(K, 1, l) /\ AC = <<file[p].kids[1]>> \o PagesFor(keys, kids, K, 1, l)
  OBVIOUS
<1>17. PICK BK, BC : BK = SubSeq(K, l + 2, n + 1) /\ BC = PagesFor(keys, kids, K, l + 1, n + 1)
  OBVIOUS
<1>18. PICK A, B : A = NonLeaf(file[p].level, AK, AC) /\ B = NonLeaf(file[p].level, BK, BC)
  OBVIOUS
<1>19. /\ r.file = Append([file EXCEPT ![p] = A], B)
       /\ r.right = new /\ r.key = K[l + 1]
  BY <1>5, <1>15, <1>16, <1>17, <1>18 DEF SplitNodeAt, Split
<1>20. AK \in Seq(Int) /\ Len(AK) = l /\ \A j \in 1 .. l : AK[j] = K[j]
  <2>1. PICK a, b : a = 1 /\ b = l
    OBVIOUS
  <2>2. a \in Int /\ b \in Int /\ a <= b /\ b - a + 1 = l /\ \A j \in a .. b : j \in 1 .. (n + 1)
    BY <2>1, <1>7
  <2>3. \A j \in a .. b : K[j] \in Int
    BY <2>2, <1>10
  <2>4. /\ SubSeq(K, a, b) \in Seq(Int) /\ Len(SubSeq(K, a, b)) = IF a <= b THEN b - a + 1 ELSE 0
        /\ \A j \in 1 .. (b - a + 1) : SubSeq(K, a, b)[j] = K[a + j - 1]
    BY <2>2, <2>3, SubSeqProperties
  <2>5. \A j \in 1 .. l : a + j - 1 = j
    BY <2>1, <1>7
  <2>6. AK = SubSeq(K, a, b)
    BY <2>1, <1>16
  <2> QED
    BY <2>2, <2>4, <2>5, <2>6
<1>21. /\ BK \in Seq(Int) /\ Len(BK) = n - l
       /\ \A j \in 1 .. (n - l) : BK[j] = K[l + 1 + j]
  <2>1. PICK a, b : a = l + 2 /\ b = n + 1
    OBVIOUS
  <2>2. a \in Int /\ b \in Int /\ a <= b /\ b - a + 1 = n - l /\ \A j \in a .. b : j \in 1 .. (n + 1)
    BY <2>1, <1>7
  <2>3. \A j \in a .. b : K[j] \in Int
    BY <2>2, <1>10
  <2>4. /\ SubSeq(K, a, b) \in Seq(Int) /\ Len(SubSeq(K, a, b)) = IF a <= b THEN b - a + 1 ELSE 0
        /\ \A j \in 1 .. (b - a + 1) : SubSeq(K, a, b)[j] = K[a + j - 1]
    BY <2>2, <2>3, SubSeqProperties
  <2>5. \A j \in 1 .. (n - l) : a + j - 1 = l + 1 + j
    BY <2>1, <1>7
  <2>6. BK = SubSeq(K, a, b)
    BY <2>1, <1>17
  <2> QED
    BY <2>2, <2>4, <2>5, <2>6
<1>22. AC \in Seq(Nat) /\ Len(AC) = l + 1 /\ \A j \in 1 .. (l + 1) : AC[j] = C[j]
  <2>1. PICK P : P = PagesFor(keys, kids, K, 1, l)
    OBVIOUS
  <2>2. P = [j \in 1 .. l |-> PageFor(keys, kids, K[1 + j - 1])]
    <3>1. l - 1 + 1 = l
      BY <1>7
    <3> QED
      BY <2>1, <3>1 DEF PagesFor
  <2>3. \A j \in 1 .. l : 1 + j - 1 = j /\ j \in 1 .. (n + 1) /\ j + 1 \in 1 .. (n + 2)
    BY <1>7
  <2>4. \A j \in 1 .. l : P[j] = C[j + 1] /\ C[j + 1] \in Nat
    BY <2>2, <2>3, <1>9, <1>10, <1>12
  <2>5. P \in Seq(Nat) /\ Len(P) = l
    <3>1. P = [j \in 1 .. l |-> P[j]]
      BY <2>2
    <3>2. P \in [1 .. l -> Nat]
      BY <3>1, <2>4
    <3> QED
      BY <3>2
  <2>6. PICK c \in Nat : c = file[p].kids[1]
    BY <1>4
  <2>7. C[1] = c
    <3>1. 1 \in 1 .. (n + 2) /\ 1 < m + 1 /\ 1 \in 1 .. (Len(file[p].keys) + 2)
      BY <1>5, <1>8 DEF OpenedAt
    <3> QED
      BY <3>1, <2>6, <1>9, <1>8 DEF OpenedAt
  <2>8. AC = <<c>> \o P
    BY <2>1, <2>6, <1>16
  <2>9. AC \in Seq(Nat) /\ Len(AC) = l + 1 /\ AC[1] = c /\ \A j \in 2 .. (l + 1) : AC[j] = P[j - 1]
    BY <2>5, <2>8
  <2>10. ASSUME NEW j \in 1 .. (l + 1) PROVE AC[j] = C[j]
    <3>1. CASE j = 1
      BY <3>1, <2>7, <2>9
    <3>2. CASE j # 1
      <4>1. PICK x : x = j - 1
        OBVIOUS
      <4>2. x \in 1 .. l /\ x + 1 = j /\ j \in 2 .. (l + 1)
        BY <4>1, <3>2, <2>10, <1>7
      <4> QED
        BY <4>1, <4>2, <2>4, <2>9
    <3> QED
      BY <3>1, <3>2
  <2> QED
    BY <2>9, <2>10
<1>23. BC \in Seq(Nat) /\ Len(BC) = n + 1 - l /\ \A j \in 1 .. (n + 1 - l) : BC[j] = C[l + 1 + j]
  <2>1. PICK k \in Nat : k = n + 1 - l /\ k = n + 1 - (l + 1) + 1
    BY <1>7
  <2>2. BC = [j \in 1 .. k |-> PageFor(keys, kids, K[l + 1 + j - 1])]
    BY <2>1, <1>17 DEF PagesFor
  <2>3. \A j \in 1 .. k : l + 1 + j - 1 \in 1 .. (n + 1) /\ l + 1 + j - 1 + 1 = l + 1 + j
                         /\ l + 1 + j \in 1 .. (n + 2)
    BY <2>1, <1>7
  <2>4. \A j \in 1 .. k : BC[j] = C[l + 1 + j] /\ C[l + 1 + j] \in Nat
    <3>1. TAKE j \in 1 .. k
    <3>2. PICK x : x = l + 1 + j - 1
      OBVIOUS
    <3>3. x \in 1 .. (n + 1) /\ x + 1 = l + 1 + j /\ x + 1 \in 1 .. (n + 2)
      BY <3>2, <2>3
    <3>4. BC[j] = PageFor(keys, kids, K[x])
      BY <3>2, <2>2
    <3>5. BC[j] = C[x + 1] /\ C[x + 1] \in Nat
      BY <3>3, <3>4, <1>9, <1>10, <1>12
    <3> QED
      BY <3>3, <3>5
  <2>5. BC = [j \in 1 .. k |-> BC[j]]
    BY <2>2
  <2>6. BC \in [1 .. k -> Nat]
    BY <2>4, <2>5
  <2>7. BC \in Seq(Nat) /\ Len(BC) = k
    BY <2>6
  <2> QED
    BY <2>1, <2>4, <2>7
<1>24. A \in NonLeafPages /\ A.keys = AK /\ A.kids = AC
  BY <1>4, <1>18, <1>20, <1>22 DEF NonLeaf, NonLeafPages
<1>25. B \in NonLeafPages /\ B.keys = BK /\ B.kids = BC
  BY <1>4, <1>18, <1>21, <1>23 DEF NonLeaf, NonLeafPages
<1>26. r.file[p] = A /\ r.file[r.right] = B
  <2>1. PICK k \in Nat : k = Len(file) /\ DOMAIN file = 1 .. k
    BY <1>3 DEF Files
  <2>2. PICK F : F = [file EXCEPT ![p] = A]
    OBVIOUS
  <2>3. F \in Files /\ Len(F) = k /\ F[p] = A /\ p \in 1 .. k
    <3>1. file \in Files /\ p \in DOMAIN file
      BY <1>3
    <3>2. A \in LeafPages \cup NonLeafPages \cup MetaPages \cup {Unused}
      BY <1>24
    <3>3. /\ [file EXCEPT ![p] = A] \in Files
          /\ Len([file EXCEPT ![p] = A]) = Len(file)
          /\ [file EXCEPT ![p] = A][p] = A
      BY <3>1, <3>2, Replaced
    <3> QED
      BY <2>1, <2>2, <3>1, <3>3
  <2>4. Append(F, B)[p] = A /\ Append(F, B)[k + 1] = B
    <3>1. PICK P : P = LeafPages \cup NonLeafPages \cup MetaPages \cup {Unused}
      OBVIOUS
    <3>2. F \in Seq(P) /\ B \in P /\ p \in 1 .. Len(F)
      BY <2>3, <3>1, <1>25 DEF Files
    <3>3. Append(F, B)[p] = F[p] /\ Append(F, B)[Len(F) + 1] = B
      BY <3>2, AppendCells
    <3> QED
      BY <2>3, <3>3
  <2> QED
    BY <2>1, <2>2, <2>4, <1>14, <1>19
<1>27. NodeCut(M, l, A, B)
  <2>1. Len(M.keys) - 1 = n /\ Len(M.keys) - l - 1 = n - l /\ Len(M.keys) - l = n + 1 - l
    <3>1. Len(M.keys) = n + 1
      BY <1>9, <1>10
    <3> QED
      BY <3>1, <1>7
  <2>2. DOMAIN A.kids = 1 .. (l + 1) /\ DOMAIN B.kids = 1 .. (n + 1 - l) /\ l \in 1 .. n
    BY <1>7, <1>22, <1>23, <1>24, <1>25
  <2> QED
    BY <2>1, <2>2, <1>9, <1>20, <1>21, <1>22, <1>23, <1>24, <1>25 DEF NodeCut
<1>28. CutsNode(M, r, p, l)
  BY <1>9, <1>19, <1>26, <1>24, <1>25, <1>27 DEF CutsNode
<1> QED
  BY <1>6, <1>1, <1>2, <1>28

\* Page c was split and right is its new half; its parent does not know yet.
SplitBelow(F, h, R, Q, c, key, right) ==
    /\ Routed(F, h, R, Q)
    /\ IsNode(F, c) /\ IsNode(F, right) /\ right \in Nat \ {0} /\ h[right] = h[c]
    /\ \A q \in DOMAIN F : q # c => Q[q] = R[q]
    /\ key \in Int /\ CutAt(Q[c], key, R[c], R[right])

\* What a node sends depends on its children only.
LEMMA SentToKids ==
    ASSUME NEW Q, NEW R, NEW S, NEW node, NodeRouted(Q, S, node),
           \A j \in DOMAIN node.kids : R[node.kids[j]] = Q[node.kids[j]]
    PROVE  NodeRouted(R, S, node)
BY DEF NodeRouted

\* No node but p has c for a child: its keys would be theirs too.
LEMMA OnlyParent ==
    ASSUME NEW F, NEW h, Shape(F, h), NEW R, NEW Q, NEW c, NEW key, NEW right,
           SplitBelow(F, h, R, Q, c, key, right),
           NEW p, IsNonLeaf(F, p), NEW i \in DOMAIN F[p].kids, F[p].kids[i] = c, c # 0,
           NEW q \in DOMAIN F, q # p
    PROVE  PageRouted(F, R, R[q], q)
<1>1. PageRouted(F, Q, R[q], q) /\ PageRouted(F, Q, R[p], p) /\ p \in DOMAIN F
  BY DEF SplitBelow, Routed, IsNonLeaf
<1>2. key \in Q[c] /\ key \in Int
  BY DEF SplitBelow, CutAt
<1>3. NodeRouted(Q, R[p], F[p]) /\ h[c] + 1 = h[p]
  BY <1>1, FitsWhereItIs DEF PageRouted, Fits
<1>4. key \in R[p]
  BY <1>2, <1>3 DEF NodeRouted
<1>5. ASSUME IsNonLeaf(F, q), NodeRouted(Q, R[q], F[q]), NEW j \in DOMAIN F[q].kids, F[q].kids[j] = c
      PROVE  FALSE
  <2>1. h[c] + 1 = h[q]
    BY <1>5, FitsWhereItIs DEF Fits
  <2>2. key \in R[q]
    BY <1>2, <1>5 DEF NodeRouted
  <2>3. R[p] \cap R[q] = {}
    BY <1>1, <1>3, <1>5, <2>1 DEF SplitBelow, Routed, Apart, IsNode
  <2> QED
    BY <1>4, <2>2, <2>3
<1>6. ASSUME IsNonLeaf(F, q), NodeRouted(Q, R[q], F[q]) PROVE NodeRouted(R, R[q], F[q])
  <2>1. \A j \in DOMAIN F[q].kids : F[q].kids[j] # 0 /\ F[q].kids[j] # c
    BY <1>5, <1>6 DEF NodeRouted
  <2>2. \A j \in DOMAIN F[q].kids : F[q].kids[j] \in DOMAIN F
    BY <1>6, <2>1, FitsWhereItIs DEF Fits, IsNode, IsLeaf, IsNonLeaf
  <2>3. \A j \in DOMAIN F[q].kids : R[F[q].kids[j]] = Q[F[q].kids[j]]
    BY <2>1, <2>2 DEF SplitBelow
  <2> QED
    BY <1>6, <2>3, SentToKids
<1> QED
  BY <1>1, <1>6 DEF PageRouted

\* The parent with the separator: its keys shared out among its children.
LEMMA ParentRouted ==
    ASSUME NEW F, NEW h, Shape(F, h), NEW R, NEW Q, NEW c, NEW key, NEW right,
           SplitBelow(F, h, R, Q, c, key, right),
           NEW p, IsNonLeaf(F, p), NEW i \in DOMAIN F[p].kids, F[p].kids[i] = c, c # 0,
           NEW M, M = WithKey(F[p], key, right)
    PROVE  /\ NodeRouted(R, R[p], M)
           /\ M \in NonLeafPages /\ Len(M.keys) = Len(F[p].keys) + 1 /\ Len(M.kids) = Len(M.keys) + 1
           /\ OpenedAt(F[p], key, right, M, i)
           /\ \A j \in DOMAIN M.kids : M.kids[j] \in DOMAIN F
<1>1. PageRouted(F, Q, R[p], p) /\ p \in DOMAIN F /\ R \in [DOMAIN F -> SUBSET Int]
      /\ Q \in [DOMAIN F -> SUBSET Int]
  BY DEF SplitBelow, Routed, IsNonLeaf
<1>2. /\ key \in Int /\ right \in Nat \ {0} /\ right \in DOMAIN F
      /\ c \in DOMAIN F /\ CutAt(Q[c], key, R[c], R[right])
  BY DEF SplitBelow, IsNode, IsLeaf, IsNonLeaf
<1>3. /\ F[p] \in NonLeafPages /\ Len(F[p].kids) = Len(F[p].keys) + 1
      /\ NodeRouted(Q, R[p], F[p])
      /\ \A j \in DOMAIN F[p].kids : F[p].kids[j] # 0 => F[p].kids[j] \in DOMAIN F
  BY <1>1, FitsWhereItIs DEF PageRouted, Fits, IsNode, IsLeaf, IsNonLeaf
<1>4. PICK m : OpenedAt(F[p], key, right, M, m)
  BY <1>2, <1>3, KeyPlaced
<1>5. PICK node : node = F[p]
  OBVIOUS
<1>6. PICK S0 \in SUBSET Int : S0 = R[p]
  BY <1>1
<1>7. PICK S \in SUBSET Int : S = Q[c]
  BY <1>1, <1>2
<1>8. \A j \in DOMAIN node.kids : node.kids[j] # node.kids[i] => R[node.kids[j]] = Q[node.kids[j]]
  BY <1>3, <1>5 DEF SplitBelow, NodeRouted
<1>9. /\ node \in NonLeafPages /\ Len(node.kids) = Len(node.keys) + 1
      /\ NodeRouted(Q, S0, node) /\ i \in DOMAIN node.kids /\ Q[node.kids[i]] = S
      /\ CutAt(S, key, R[node.kids[i]], R[right]) /\ OpenedAt(node, key, right, M, m)
  BY <1>2, <1>3, <1>4, <1>5, <1>6, <1>7
<1>10. NodeRouted(R, S0, M) /\ m = i
  BY <1>2, <1>8, <1>9, MergedRouted
<1>11. PICK n \in Nat : n = Len(node.keys) /\ DOMAIN node.kids = 1 .. (n + 1)
  <2>1. node.keys \in Seq(Int) /\ node.kids \in Seq(Nat) /\ Len(node.kids) = Len(node.keys) + 1
    BY <1>9 DEF NonLeafPages
  <2> QED
    BY <2>1
<1>12. /\ M \in NonLeafPages /\ Len(M.keys) = n + 1 /\ Len(M.kids) = n + 2 /\ i \in 1 .. (n + 1)
       /\ DOMAIN M.kids = 1 .. (n + 2)
       /\ \A j \in 1 .. (n + 2) : M.kids[j] =
              IF j < i + 1 THEN node.kids[j] ELSE IF j = i + 1 THEN right ELSE node.kids[j - 1]
  BY <1>9, <1>10, <1>11 DEF OpenedAt, NonLeafPages
<1>13. \A j \in 1 .. (n + 1) : node.kids[j] \in DOMAIN F
  BY <1>3, <1>5, <1>11 DEF NodeRouted
<1>14. ASSUME NEW j \in 1 .. (n + 2) PROVE M.kids[j] \in DOMAIN F
  <2>1. CASE j < i + 1
    <3>1. j \in 1 .. (n + 1)
      BY <2>1, <1>12, <1>14
    <3> QED
      BY <2>1, <3>1, <1>12, <1>13
  <2>2. CASE j = i + 1
    BY <2>2, <1>2, <1>12
  <2>3. CASE j > i + 1
    <3>1. j - 1 \in 1 .. (n + 1) /\ ~(j < i + 1) /\ j # i + 1
      BY <2>3, <1>12, <1>14
    <3> QED
      BY <3>1, <1>12, <1>13
  <2>4. j < i + 1 \/ j = i + 1 \/ j > i + 1
    BY <1>12, <1>14
  <2> QED
    BY <2>1, <2>2, <2>3, <2>4
<1>15. Len(F[p].keys) + 1 = n + 1 /\ n + 2 = n + 1 + 1
  BY <1>5, <1>11
<1> QED
  BY <1>4, <1>6, <1>10, <1>12, <1>14, <1>15

\* Every nonleaf has keys, and a page for every key.
FullNode(node) == node.keys # <<>> /\ \A j \in DOMAIN node.kids : node.kids[j] # 0
NoHoles(file) == \A p \in DOMAIN file : IsNonLeaf(file, p) => FullNode(file[p])

LEMMA NodeSplitRoutes ==
    ASSUME OneSize, NEW F, NEW h, Shape(F, h), NEW R, NEW Q, NEW c, NEW key, NEW right,
           SplitBelow(F, h, R, Q, c, key, right),
           NEW p, IsNonLeaf(F, p), NEW i \in DOMAIN F[p].kids, F[p].kids[i] = c, c # 0,
           Len(F[p].keys) = NodeOcc, NEW g \in Garbage,
           NEW r, r = SplitNonLeaf(F, p, key, right, g), NEW G, G = HeightsAfter(h, r, p)
    PROVE  /\ StepRoutes(F, h, R, r, G, p)
           /\ r.split
           /\ IsNonLeaf(r.file, p) /\ IsNonLeaf(r.file, r.right)
           /\ FullNode(r.file[p]) /\ FullNode(r.file[r.right])
<1>1. PICK M : M = WithKey(F[p], key, right)
  OBVIOUS
<1>2. /\ NodeRouted(R, R[p], M)
      /\ M \in NonLeafPages /\ Len(M.keys) = Len(F[p].keys) + 1 /\ Len(M.kids) = Len(M.keys) + 1
      /\ OpenedAt(F[p], key, right, M, i)
      /\ \A j \in DOMAIN M.kids : M.kids[j] \in DOMAIN F
  BY <1>1, ParentRouted
<1>3. /\ key \in Int /\ right \in Nat \ {0} /\ IsNode(F, right) /\ h[right] + 1 = h[p]
  <2>1. h[right] = h[c] /\ key \in Int /\ right \in Nat \ {0} /\ IsNode(F, right)
    BY DEF SplitBelow
  <2>2. h[c] + 1 = h[p]
    BY FitsWhereItIs DEF Fits
  <2> QED
    BY <2>1, <2>2
<1>4. Grown(F, h, r, G, p) /\ r.split
  BY <1>3, NodeSplitGrows
<1>5. Increasing(M.keys)
  BY <1>2 DEF NodeRouted
<1>6. PICK l \in Nat : l = NodeOcc \div 2
  BY NodeOccAssumption
<1>7. PICK A, B : A = r.file[p] /\ B = r.file[r.right]
  OBVIOUS
<1>8. /\ NodeCut(M, l, A, B) /\ r.key = M.keys[l + 1]
      /\ A \in NonLeafPages /\ B \in NonLeafPages
  <2>1. CutsNode(M, r, p, NodeOcc \div 2)
    BY <1>1, <1>2, <1>3, <1>5, SplitNodeCuts
  <2> QED
    BY <2>1, <1>6, <1>7 DEF CutsNode
<1>9. /\ p \in DOMAIN F /\ IsNode(F, p) /\ R \in [DOMAIN F -> SUBSET Int]
      /\ \A q \in DOMAIN F : IsNode(F, q) => R[q] # {} /\ Apart(F, h, R, q)
  BY DEF IsNonLeaf, IsNode, SplitBelow, Routed
<1>10. \A q \in DOMAIN F : q # p => PageRouted(F, R, R[q], q)
  BY OnlyParent
<1>11. PICK S0 \in SUBSET Int : S0 = R[p]
  BY <1>9
<1>12. /\ NodeRouted(R, {k \in S0 : k < M.keys[l + 1]}, A)
       /\ NodeRouted(R, {k \in S0 : k >= M.keys[l + 1]}, B)
  BY <1>2, <1>8, <1>11, LeftPartRouted, RightPartRouted
<1>13. PICK R2, Q2 : R2 = RoutesAfter(R, r, p) /\ Q2 = SentAfter(R, r, p)
  OBVIOUS
<1>14. /\ R2[p] = {k \in R[p] : k < r.key} /\ R2[r.right] = {k \in R[p] : k >= r.key}
       /\ \A q \in DOMAIN F : Q2[q] = R[q]
  BY <1>4, <1>9, <1>13, SplitRoutes
<1>15. /\ \A j \in DOMAIN A.kids : A.kids[j] \in DOMAIN F
       /\ \A j \in DOMAIN B.kids : B.kids[j] \in DOMAIN F
  <2>1. PICK n \in Nat : n = Len(M.keys) /\ DOMAIN M.kids = 1 .. (n + 1)
    <3>1. M.keys \in Seq(Int) /\ M.kids \in Seq(Nat)
      BY <1>2 DEF NonLeafPages
    <3> QED
      BY <3>1, <1>2
  <2>2. /\ l \in 1 .. (n - 1) /\ DOMAIN A.kids = 1 .. (l + 1) /\ DOMAIN B.kids = 1 .. (n - l)
        /\ \A j \in 1 .. (l + 1) : A.kids[j] = M.kids[j]
        /\ \A j \in 1 .. (n - l) : B.kids[j] = M.kids[l + 1 + j]
    BY <2>1, <1>8 DEF NodeCut
  <2>3. \A j \in 1 .. (l + 1) : j \in 1 .. (n + 1)
    BY <2>2
  <2>4. \A j \in 1 .. (n - l) : l + 1 + j \in 1 .. (n + 1)
    BY <2>2
  <2> QED
    BY <2>1, <2>2, <2>3, <2>4, <1>2
<1>16. NodeRouted(Q2, R2[p], A) /\ NodeRouted(Q2, R2[r.right], B)
  <2>1. NodeRouted(R, R2[p], A) /\ NodeRouted(R, R2[r.right], B)
    BY <1>8, <1>11, <1>12, <1>14
  <2> QED
    BY <2>1, <1>14, <1>15, SentToKids
<1>17. PageRouted(r.file, Q2, R2[p], p) /\ PageRouted(r.file, Q2, R2[r.right], r.right)
  <2>1. A.kind = "nonleaf" /\ B.kind = "nonleaf"
    BY <1>8 DEF NonLeafPages
  <2> QED
    BY <2>1, <1>7, <1>16 DEF PageRouted, IsLeaf
<1>18. r.key \in R[p] /\ \E k0 \in R[p] : k0 < r.key
  <2>1. /\ 1 \in DOMAIN M.keys /\ l + 1 \in DOMAIN M.keys /\ 1 < l + 1
    <3>1. M.keys \in Seq(Int)
      BY <1>2 DEF NonLeafPages
    <3>2. l \in 1 .. (Len(M.keys) - 1)
      BY <1>8 DEF NodeCut
    <3> QED
      BY <3>1, <3>2
  <2>2. M.keys[1] \in R[p] /\ M.keys[l + 1] \in R[p] /\ M.keys[1] < M.keys[l + 1]
    BY <2>1, <1>2, <1>5 DEF NodeRouted, Increasing
  <2> QED
    BY <2>2, <1>8
<1>19. Routed(r.file, G, R2, Q2) /\ CutAt(Q2[p], r.key, R2[p], R2[r.right])
  BY <1>4, <1>9, <1>10, <1>13, <1>17, <1>18, RoutedAfterSplit
<1>20. StepRoutes(F, h, R, r, G, p)
  BY <1>4, <1>9, <1>13, <1>14, <1>19 DEF StepRoutes
<1>21. IsNonLeaf(r.file, p) /\ IsNonLeaf(r.file, r.right)
  BY <1>4, <1>7, <1>8, <1>9 DEF IsNonLeaf, NonLeafPages, Grown
<1>22. A.keys # <<>> /\ B.keys # <<>>
  <2>1. NodeOcc \in Nat \ {0, 1} /\ l \in 1 .. (NodeOcc - 1)
    BY <1>6, NodeOccAssumption
  <2>2. Len(M.keys) = NodeOcc + 1
    BY <1>2
  <2>3. Len(A.keys) = l /\ Len(B.keys) = NodeOcc - l
    <3>1. Len(M.keys) - l - 1 = NodeOcc - l
      BY <2>1, <2>2
    <3> QED
      BY <3>1, <1>8 DEF NodeCut
  <2> QED
    BY <2>1, <2>3
<1> QED
  BY <1>4, <1>7, <1>16, <1>20, <1>21, <1>22 DEF NodeRouted, FullNode

LEMMA NodeRoutes ==
    ASSUME OneSize, NEW F, NEW h, Shape(F, h), NEW R, NEW Q, NEW c, NEW key, NEW right,
           SplitBelow(F, h, R, Q, c, key, right),
           NEW p, IsNonLeaf(F, p), NEW i \in DOMAIN F[p].kids, F[p].kids[i] = c, c # 0,
           NEW g \in Garbage, NEW r, r = InsertIntoNonLeaf(F, p, key, right, g),
           NEW G, G = HeightsAfter(h, r, p)
    PROVE  /\ StepRoutes(F, h, R, r, G, p)
           /\ \A x : Stored(r.file, x) <=> Stored(F, x)
           /\ NoHoles(F) => NoHoles(r.file)
<1>1. p \in DOMAIN F /\ F[p].kind = "nonleaf" /\ IsNode(F, p)
  BY DEF IsNonLeaf, IsNode
<1>2. CASE Len(F[p].keys) < NodeOcc
  <2>1. PICK M : M = WithKey(F[p], key, right)
    OBVIOUS
  <2>2. NodeRouted(R, R[p], M) /\ M \in NonLeafPages
    BY <2>1, ParentRouted
  <2>3. r.split = FALSE /\ r.file = [F EXCEPT ![p] = M]
    BY <2>1, <1>2 DEF InsertIntoNonLeaf, NoSplit
  <2>4. key \in Int /\ right \in Nat \ {0} /\ IsNode(F, right) /\ h[right] + 1 = h[p]
    <3>1. h[right] = h[c] /\ key \in Int /\ right \in Nat \ {0} /\ IsNode(F, right)
      BY DEF SplitBelow
    <3>2. h[c] + 1 = h[p]
      BY FitsWhereItIs DEF Fits
    <3> QED
      BY <3>1, <3>2
  <2>5. Grown(F, h, r, G, p)
    BY <2>4, NodeGrows
  <2>6. /\ R \in [DOMAIN F -> SUBSET Int]
        /\ \A q \in DOMAIN F : IsNode(F, q) => R[q] # {} /\ Apart(F, h, R, q)
    BY DEF SplitBelow, Routed
  <2>7. \A q \in DOMAIN F : q # p => PageRouted(F, R, R[q], q)
    BY OnlyParent
  <2>8. r.file[p] = M /\ \A q \in DOMAIN F : q # p => r.file[q] = F[q]
    BY <2>3, <1>1
  <2>9. PageRouted(r.file, R, R[p], p)
    BY <2>2, <2>8 DEF PageRouted, IsLeaf, NonLeafPages
  <2>10. Routed(r.file, G, R, R)
    BY <2>3, <2>5, <2>6, <2>7, <2>9, <1>1, RoutedAfterChange
  <2>11. StepRoutes(F, h, R, r, G, p)
    BY <2>3, <2>5, <2>10 DEF StepRoutes, RoutesAfter, SentAfter
  <2>12. \A q \in DOMAIN F : IsLeaf(F, q) <=> IsLeaf(r.file, q)
    BY <2>2, <2>3, <2>8, <1>1 DEF IsLeaf, NonLeafPages
  <2>13. \A x : Stored(r.file, x) <=> Stored(F, x)
    BY <2>3, <2>8, <2>12, <1>1 DEF Stored, IsLeaf
  <2>14. NoHoles(F) => NoHoles(r.file)
    <3>1. M.keys # <<>>
      <4>1. Len(M.keys) = Len(F[p].keys) + 1 /\ F[p].keys \in Seq(Int)
        BY <2>1, ParentRouted, FitsWhereItIs DEF Fits, NonLeafPages
      <4> QED
        BY <4>1
    <3> QED
      BY <3>1, <2>2, <2>3, <2>8 DEF NoHoles, FullNode, NodeRouted, IsNonLeaf
  <2> QED
    BY <2>11, <2>13, <2>14
<1>3. CASE ~(Len(F[p].keys) < NodeOcc)
  <2>1. Len(F[p].keys) = NodeOcc
    <3>1. F[p].keys \in Seq(Int) /\ Len(F[p].keys) <= NodeOcc
      BY FitsWhereItIs DEF Fits, NonLeafPages
    <3> QED
      BY <3>1, <1>3, NodeOccAssumption
  <2>2. r = SplitNonLeaf(F, p, key, right, g)
    BY <1>3 DEF InsertIntoNonLeaf
  <2>3. /\ StepRoutes(F, h, R, r, G, p)
        /\ r.split
        /\ IsNonLeaf(r.file, p) /\ IsNonLeaf(r.file, r.right)
        /\ FullNode(r.file[p]) /\ FullNode(r.file[r.right])
    BY <2>1, <2>2, NodeSplitRoutes
  <2>4. /\ DOMAIN r.file = DOMAIN F \cup {r.right}
        /\ \A q \in DOMAIN F : q # p => r.file[q] = F[q]
    BY <2>3 DEF StepRoutes, Grown
  <2>5. \A q : IsLeaf(r.file, q) <=> IsLeaf(F, q)
    BY <2>3, <2>4, <1>1 DEF IsLeaf, IsNonLeaf
  <2>6. \A q : IsLeaf(F, q) => q \in DOMAIN F /\ q \in DOMAIN r.file /\ r.file[q] = F[q]
    BY <2>4, <1>1 DEF IsLeaf
  <2>7. \A x : Stored(r.file, x) <=> Stored(F, x)
    BY <2>5, <2>6 DEF Stored
  <2>8. NoHoles(F) => NoHoles(r.file)
    BY <2>3, <2>4 DEF NoHoles, IsNonLeaf
  <2> QED
    BY <2>3, <2>7, <2>8
<1> QED
  BY <1>2, <1>3

-----------------------------------------------------------------------------
(***************************************************************************)
(* insertRecursive: up the path from the leaf.                             *)
(***************************************************************************)
\* What the call for node path[i] returns, if up[i + 1] is what the call it
\* made returned.
UpStep(file, path, e, g, up, i) ==
    IF i = Len(path) THEN InsertIntoLeaf(file, path[i], e)
    ELSE LET below == up[i + 1]
         IN  IF below.split
             THEN InsertIntoNonLeaf(below.file, path[i], below.key, below.right, g)
             ELSE below

IsUp(file, path, e, g, up) == up = [i \in 1 .. Len(path) |-> UpStep(file, path, e, g, up, i)]

LEMMA InsertIsUp ==
    ASSUME NEW file, NEW root, NEW e, NEW g
    PROVE  InsertRecursive(file, root, e, g) =
            (CHOOSE up : IsUp(file, PathFrom(file, root, e[1]), e, g, up))[1]
BY DEF InsertRecursive, IsUp, UpStep

\* up is right for the last n nodes of the path.
UpLast(file, path, e, g, n, up) ==
    /\ DOMAIN up = 1 .. Len(path)
    /\ \A i \in 1 .. Len(path) : i > Len(path) - n => up[i] = UpStep(file, path, e, g, up, i)

LEMMA UpExists ==
    ASSUME NEW file, NEW path, NEW N \in Nat, Len(path) = N, NEW e, NEW g
    PROVE  \E up : IsUp(file, path, e, g, up)
<1> DEFINE Bad == {n \in 0 .. N : ~\E up : UpLast(file, path, e, g, n, up)}
<1>1. Bad = {}
  <2>1. SUFFICES ASSUME Bad # {} PROVE FALSE
    OBVIOUS
  <2>2. PICK n \in Bad : \A t \in Bad : n <= t
    <3>1. Bad \in SUBSET Nat
      OBVIOUS
    <3> HIDE DEF Bad
    <3> QED
      BY <2>1, <3>1, LeastElement
  <2>3. n \in 0 .. N
    OBVIOUS
  <2>4. n # 0
    <3>1. UpLast(file, path, e, g, 0, [i \in 1 .. N |-> 0])
      BY DEF UpLast
    <3> QED
      BY <3>1
  <2>5. n - 1 \in 0 .. N /\ n - 1 \notin Bad
    <3>1. n - 1 \in 0 .. N /\ n - 1 < n
      BY <2>3, <2>4
    <3> HIDE DEF Bad
    <3> QED
      BY <2>2, <2>3, <3>1
  <2>6. PICK up : UpLast(file, path, e, g, n - 1, up)
    BY <2>5
  <2>7. PICK k : k = N - n + 1
    OBVIOUS
  <2>8. k \in 1 .. N /\ \A i \in 1 .. N : (i > N - (n - 1) <=> i > k) /\ (i > N - n <=> i >= k)
    BY <2>3, <2>4, <2>7
  <2>9. PICK v : v = UpStep(file, path, e, g, up, k)
    OBVIOUS
  <2>10. PICK w : w = [i \in 1 .. N |-> IF i = k THEN v ELSE up[i]]
    OBVIOUS
  <2>11. \A i \in 1 .. N : i > k => up[i] = UpStep(file, path, e, g, up, i)
    BY <2>6, <2>8 DEF UpLast
  <2>12. ASSUME NEW i \in 1 .. N, i >= k
         PROVE  UpStep(file, path, e, g, w, i) = UpStep(file, path, e, g, up, i)
    <3>1. CASE i = N
      BY <3>1 DEF UpStep
    <3>2. CASE i # N
      <4>1. i + 1 \in 1 .. N /\ i + 1 # k
        BY <2>8, <2>12, <3>2
      <4>2. w[i + 1] = up[i + 1]
        BY <4>1, <2>10
      <4> QED
        BY <4>2 DEF UpStep
    <3> QED
      BY <3>1, <3>2
  <2>13. ASSUME NEW i \in 1 .. N, i >= k PROVE w[i] = UpStep(file, path, e, g, w, i)
    <3>1. w[i] = UpStep(file, path, e, g, up, i)
      <4>1. CASE i = k
        BY <4>1, <2>9, <2>10
      <4>2. CASE i # k
        <5>1. i > k
          BY <4>2, <2>8, <2>13
        <5> QED
          BY <4>2, <5>1, <2>10, <2>11
      <4> QED
        BY <4>1, <4>2
    <3> QED
      BY <3>1, <2>12, <2>13
  <2>14. UpLast(file, path, e, g, n, w)
    BY <2>8, <2>10, <2>13 DEF UpLast
  <2> QED
    BY <2>14
<1>2. PICK up : UpLast(file, path, e, g, N, up)
  <2>1. N \in 0 .. N
    OBVIOUS
  <2> QED
    BY <2>1, <1>1
<1>3. \A i \in 1 .. N : up[i] = UpStep(file, path, e, g, up, i)
  BY <1>2 DEF UpLast
<1>4. PICK w : w = [i \in 1 .. N |-> up[i]]
  OBVIOUS
<1>5. \A i \in 1 .. N : UpStep(file, path, e, g, w, i) = UpStep(file, path, e, g, up, i)
  <2>1. TAKE i \in 1 .. N
  <2>2. CASE i = N
    BY <2>2 DEF UpStep
  <2>3. CASE i # N
    <3>1. i + 1 \in 1 .. N
      BY <2>3
    <3>2. w[i + 1] = up[i + 1]
      BY <3>1, <1>4
    <3> QED
      BY <3>2 DEF UpStep
  <2> QED
    BY <2>2, <2>3
<1>6. w = [i \in 1 .. Len(path) |-> UpStep(file, path, e, g, w, i)]
  BY <1>3, <1>4, <1>5
<1> QED
  BY <1>6 DEF IsUp

(***************************************************************************)
(* The file an insertion returns from node p: what lies above p is as it   *)
(* was, and a new page stands as high as p.                                *)
(***************************************************************************)
Raised(file, h, r, G, p) ==
    /\ Shape(r.file, G)
    /\ Extends(file, h, r.file, G)
    /\ \A q \in DOMAIN file : h[q] > h[p] => r.file[q] = file[q]
    /\ \A q \in DOMAIN r.file : q \in DOMAIN file \/ G[q] <= h[p]
    /\ r.split \in BOOLEAN
    /\ r.split => /\ r.key \in Int /\ r.right \in Nat \ {0}
                  /\ IsNode(r.file, r.right) /\ G[r.right] = h[p]

LEMMA RaisedHere ==
    ASSUME NEW file, NEW h, NEW r, NEW G, NEW p \in DOMAIN file, Grown(file, h, r, G, p),
           h[p] \in Nat
    PROVE  Raised(file, h, r, G, p)
<1>1. \A q \in DOMAIN file : h[q] > h[p] => q # p
  OBVIOUS
<1>2. \A q \in DOMAIN r.file : q \in DOMAIN file \/ G[q] <= h[p]
  <2>1. h[p] <= h[p]
    OBVIOUS
  <2> QED
    BY <2>1 DEF Grown
<1> QED
  BY <1>1, <1>2 DEF Grown, Raised

LEMMA RaisedAbove ==
    ASSUME NEW file, NEW h, Shape(file, h), NEW c \in DOMAIN file, NEW p \in DOMAIN file,
           h[c] < h[p], NEW r, NEW G, Raised(file, h, r, G, c)
    PROVE  /\ r.file[p] = file[p] /\ p \in DOMAIN r.file /\ G[p] = h[p] /\ G[c] = h[c]
           /\ ~r.split => Raised(file, h, r, G, p)
           /\ \A s, H : Grown(r.file, G, s, H, p) => Raised(file, h, s, H, p)
<1>1. \A q \in DOMAIN file : h[q] \in Nat
  BY DEF Shape
<1>2. \A q \in DOMAIN file : h[q] > h[p] => h[q] > h[c] /\ q # p
  BY <1>1
<1>3. r.file[p] = file[p] /\ p \in DOMAIN r.file /\ G[p] = h[p] /\ G[c] = h[c]
  BY <1>1 DEF Raised, Extends
<1>4. \A q \in DOMAIN r.file : q \in DOMAIN file \/ G[q] <= h[p]
  <2>1. TAKE q \in DOMAIN r.file
  <2>2. (q \in DOMAIN file \/ G[q] <= h[c]) /\ G[q] \in Nat
    BY DEF Raised, Shape
  <2> QED
    BY <2>2, <1>1
<1>5. ~r.split => Raised(file, h, r, G, p)
  BY <1>2, <1>4 DEF Raised
<1>6. ASSUME NEW s, NEW H, Grown(r.file, G, s, H, p) PROVE Raised(file, h, s, H, p)
  <2>1. Extends(file, h, s.file, H)
    BY <1>6 DEF Grown, Raised, Extends
  <2>2. \A q \in DOMAIN file : h[q] > h[p] => s.file[q] = file[q]
    BY <1>2, <1>6 DEF Grown, Raised, Extends
  <2>3. \A q \in DOMAIN s.file : q \in DOMAIN file \/ H[q] <= h[p]
    <3>1. TAKE q \in DOMAIN s.file
    <3>2. CASE q \in DOMAIN r.file
      <4>1. H[q] = G[q]
        BY <3>2, <1>6 DEF Grown, Extends
      <4> QED
        BY <4>1, <3>2, <1>4
    <3>3. CASE q \notin DOMAIN r.file
      <4>1. H[q] = h[p] /\ h[p] <= h[p]
        BY <3>1, <3>3, <1>1, <1>3, <1>6 DEF Grown
      <4> QED
        BY <4>1
    <3> QED
      BY <3>2, <3>3
  <2> QED
    BY <2>1, <2>2, <2>3, <1>3, <1>6 DEF Grown, Raised
<1> QED
  BY <1>3, <1>5, <1>6

\* The path of an insertion: each node a child of the one before.
Descends(file, h, path, root, key) ==
    /\ path \in Seq(Nat) /\ Len(path) \in Nat /\ Len(path) >= 2 /\ path[1] = root
    /\ IsLeaf(file, path[Len(path)])
    /\ \A i \in 1 .. (Len(path) - 1) :
        /\ IsNonLeaf(file, path[i])
        /\ IsNode(file, path[i + 1]) /\ h[path[i + 1]] + 1 = h[path[i]]
        /\ path[i + 1] = FindPageNo(file[path[i]], key) /\ path[i + 1] # 0
        /\ \E j \in DOMAIN file[path[i]].kids : file[path[i]].kids[j] = path[i + 1]

LEMMA PathSteps ==
    ASSUME NEW file, NEW h, Shape(file, h), NEW path, NEW root, NEW key \in Int,
           IsPath(file, h, path, root, key), 0 \notin Range(path)
    PROVE  Descends(file, h, path, root, key)
<1>1. path \in Seq(Nat) /\ Len(path) \in Nat /\ Len(path) >= 2 /\ path[1] = root
  BY DEF IsPath
<1>2. \A i \in 1 .. Len(path) : path[i] # 0
  BY <1>1 DEF Range
<1>3. IsLeaf(file, path[Len(path)])
  <2>1. Len(path) \in 1 .. Len(path)
    BY <1>1
  <2> QED
    BY <2>1, <1>2 DEF IsPath
<1>4. ASSUME NEW i \in 1 .. (Len(path) - 1)
      PROVE  /\ IsNonLeaf(file, path[i])
             /\ IsNode(file, path[i + 1]) /\ h[path[i + 1]] + 1 = h[path[i]]
             /\ path[i + 1] = FindPageNo(file[path[i]], key) /\ path[i + 1] # 0
             /\ \E j \in DOMAIN file[path[i]].kids : file[path[i]].kids[j] = path[i + 1]
  <2>1. PICK p, q : p = path[i] /\ q = path[i + 1]
    OBVIOUS
  <2>2. IsNonLeaf(file, p) /\ q = FindPageNo(file[p], key)
    BY <2>1 DEF IsPath
  <2>3. q # 0
    <3>1. i + 1 \in 1 .. Len(path)
      BY <1>1
    <3> QED
      BY <3>1, <2>1, <1>2
  <2>4. /\ IsNode(file, q) /\ h[q] + 1 = h[p]
        /\ \E j \in DOMAIN file[p].kids : file[p].kids[j] = q
    BY <2>2, <2>3, StepsDown
  <2> QED
    BY <2>1, <2>2, <2>3, <2>4
<1> QED
  BY <1>1, <1>3, <1>4 DEF Descends

LEMMA InsertRaises ==
    ASSUME NEW file, NEW h, Shape(file, h), NEW root, IsNonLeaf(file, root),
           NEW e \in Records, NEW g \in Garbage, 0 \notin Range(PathFrom(file, root, e[1]))
    PROVE  \E G : Raised(file, h, InsertRecursive(file, root, e, g), G, root)
<1>1. PICK path : path = PathFrom(file, root, e[1])
  OBVIOUS
<1>2. e[1] \in Int
  BY RecordsAssumption
<1>3. IsPath(file, h, path, root, e[1])
  BY <1>1, <1>2, PathFound
<1>4. PICK N \in Nat : N = Len(path)
  BY <1>3 DEF IsPath
<1>5. /\ N >= 2 /\ path[1] = root /\ IsLeaf(file, path[N])
      /\ \A i \in 1 .. (N - 1) :
            /\ IsNonLeaf(file, path[i])
            /\ IsNode(file, path[i + 1]) /\ h[path[i + 1]] + 1 = h[path[i]]
  <2>1. Descends(file, h, path, root, e[1])
    BY <1>1, <1>2, <1>3, PathSteps
  <2> QED
    BY <2>1, <1>4 DEF Descends
<1>6. PICK up : up = CHOOSE u : IsUp(file, path, e, g, u)
  OBVIOUS
<1>7. \A i \in 1 .. N : up[i] = UpStep(file, path, e, g, up, i)
  <2>1. IsUp(file, path, e, g, up)
    BY <1>4, <1>6, UpExists
  <2> QED
    BY <2>1, <1>4 DEF IsUp
<1>8. InsertRecursive(file, root, e, g) = up[1]
  BY <1>1, <1>6, InsertIsUp
<1> DEFINE Bad == {n \in 0 .. (N - 1) : ~\E G : Raised(file, h, up[N - n], G, path[N - n])}
<1>9. Bad = {}
  <2>1. SUFFICES ASSUME Bad # {} PROVE FALSE
    OBVIOUS
  <2>2. PICK n \in Bad : \A t \in Bad : n <= t
    <3>1. Bad \in SUBSET Nat
      OBVIOUS
    <3> HIDE DEF Bad
    <3> QED
      BY <2>1, <3>1, LeastElement
  <2>3. n \in 0 .. (N - 1)
    OBVIOUS
  <2>4. n # 0
    <3>1. up[N] = InsertIntoLeaf(file, path[N], e)
      BY <1>4, <1>5, <1>7 DEF UpStep
    <3>2. path[N] \in DOMAIN file /\ h[path[N]] \in Nat
      BY <1>5 DEF IsLeaf, Shape
    <3>3. \E G : Raised(file, h, up[N], G, path[N])
      BY <3>1, <3>2, <1>5, LeafGrows, RaisedHere
    <3>4. N - 0 = N
      OBVIOUS
    <3> QED
      BY <3>3, <3>4
  <2>5. PICK i : i = N - n
    OBVIOUS
  <2>6. i \in 1 .. (N - 1) /\ N - (n - 1) = i + 1 /\ n - 1 \in 0 .. (N - 1) /\ n - 1 < n
    BY <2>3, <2>4, <2>5
  <2>7. PICK G : Raised(file, h, up[i + 1], G, path[i + 1])
    <3>1. n - 1 \notin Bad
      <4> HIDE DEF Bad
      <4> QED
        BY <2>2, <2>3, <2>6
    <3> QED
      BY <3>1, <2>6
  <2>8. PICK p, c, r1, r : p = path[i] /\ c = path[i + 1] /\ r1 = up[i + 1] /\ r = up[i]
    OBVIOUS
  <2>9. IsNonLeaf(file, p) /\ IsNode(file, c) /\ h[c] + 1 = h[p]
    BY <2>6, <2>8, <1>5
  <2>10. p \in DOMAIN file /\ c \in DOMAIN file /\ h[p] \in Nat /\ h[c] \in Nat /\ h[c] < h[p]
    BY <2>9 DEF IsNonLeaf, IsNode, IsLeaf, Shape
  <2>11. r = IF r1.split THEN InsertIntoNonLeaf(r1.file, p, r1.key, r1.right, g) ELSE r1
    <3>1. i \in 1 .. N /\ i # N
      BY <2>6
    <3> QED
      BY <3>1, <2>8, <1>4, <1>7 DEF UpStep
  <2>12. Raised(file, h, r1, G, c)
    BY <2>7, <2>8
  <2>13. /\ r1.file[p] = file[p] /\ p \in DOMAIN r1.file /\ G[p] = h[p]
         /\ ~r1.split => Raised(file, h, r1, G, p)
         /\ \A s, H : Grown(r1.file, G, s, H, p) => Raised(file, h, s, H, p)
    BY <2>10, <2>12, RaisedAbove
  <2>14. \E H : Raised(file, h, r, H, p)
    <3>1. CASE ~r1.split
      BY <3>1, <2>11, <2>13
    <3>2. CASE r1.split
      <4>1. /\ Shape(r1.file, G) /\ r1.key \in Int /\ r1.right \in Nat \ {0}
            /\ IsNode(r1.file, r1.right) /\ G[r1.right] = h[c]
        BY <2>12, <3>2 DEF Raised
      <4>2. IsNonLeaf(r1.file, p) /\ G[r1.right] + 1 = G[p]
        BY <4>1, <2>9, <2>13 DEF IsNonLeaf
      <4>3. PICK F, key, right : F = r1.file /\ key = r1.key /\ right = r1.right
        OBVIOUS
      <4>4. Grown(F, G, InsertIntoNonLeaf(F, p, key, right, g),
                  HeightsAfter(G, InsertIntoNonLeaf(F, p, key, right, g), p), p)
        BY <4>1, <4>2, <4>3, NodeGrows
      <4> QED
        BY <4>3, <4>4, <3>2, <2>11, <2>13
    <3> QED
      BY <3>1, <3>2
  <2> QED
    BY <2>5, <2>8, <2>14
<1>10. \E G : Raised(file, h, up[1], G, path[1])
  <2>1. N - 1 \in 0 .. (N - 1) /\ N - (N - 1) = 1
    BY <1>5
  <2> QED
    BY <2>1, <1>9
<1> QED
  BY <1>5, <1>8, <1>10

\* A descent keeps to pages that stand for its key, to its end.
LEMMA PathRouted ==
    ASSUME NEW file, NEW h, Shape(file, h), NEW R, Routed(file, h, R, R),
           NEW root, NEW key \in Int, key \in R[root], NEW path,
           IsPath(file, h, path, root, key), 0 \notin Range(path)
    PROVE  \A i \in 1 .. Len(path) : key \in R[path[i]]
<1>1. PICK N \in Nat : N = Len(path)
  BY DEF IsPath
<1>2. /\ path[1] = root
      /\ \A i \in 1 .. (N - 1) :
            /\ IsNonLeaf(file, path[i])
            /\ path[i + 1] = FindPageNo(file[path[i]], key) /\ path[i + 1] # 0
  <2>1. Descends(file, h, path, root, key)
    BY PathSteps
  <2> QED
    BY <2>1, <1>1 DEF Descends
<1> DEFINE Bad == {n \in 1 .. N : key \notin R[path[n]]}
<1>3. Bad = {}
  <2>1. SUFFICES ASSUME Bad # {} PROVE FALSE
    OBVIOUS
  <2>2. PICK n \in Bad : \A t \in Bad : n <= t
    <3>1. Bad \in SUBSET Nat
      OBVIOUS
    <3> HIDE DEF Bad
    <3> QED
      BY <2>1, <3>1, LeastElement
  <2>3. n \in 1 .. N /\ n # 1
    BY <1>2
  <2>4. PICK m : m = n - 1
    OBVIOUS
  <2>5. m \in 1 .. N /\ m < n /\ m \in 1 .. (N - 1) /\ m + 1 = n
    BY <2>3, <2>4
  <2>6. m \notin Bad
    <3> HIDE DEF Bad
    <3> QED
      BY <2>2, <2>3, <2>5
  <2>7. key \in R[path[m]]
    BY <2>5, <2>6
  <2>8. PICK p, q : p = path[m] /\ q = path[n]
    OBVIOUS
  <2>9. IsNonLeaf(file, p) /\ q = FindPageNo(file[p], key) /\ q # 0 /\ key \in R[p]
    BY <2>5, <2>7, <2>8, <1>2
  <2>10. key \in R[q]
    BY <2>9, StepRouted
  <2> QED
    BY <2>8, <2>10
<1> QED
  BY <1>1, <1>3

(***************************************************************************)
(* The chain of leaves: the keys of a leaf are an interval, and those of   *)
(* its right sibling follow.  Only the first leaf may be empty, and one    *)
(* that an entry with a key of X is on its way to.                         *)
(***************************************************************************)
Interval(S) == \A a, b \in S : \A k \in Int : a <= k /\ k <= b => k \in S
Upward(S) == \A a \in S : \A k \in Int : a <= k => k \in S

LeafChained(file, R, X, p) ==
    /\ Interval(R[p])
    /\ file[p].right = 0 => Upward(R[p])
    /\ file[p].right # 0 =>
        /\ file[p].right # p
        /\ \E k \in R[p] : k + 1 \in R[file[p].right]
        /\ file[file[p].right].entries # <<>> \/ R[file[p].right] \cap X # {}

Chained(file, R, X) == \A p \in DOMAIN file : IsLeaf(file, p) => LeafChained(file, R, X, p)

\* What a leaf points to after an insertion into it.
Linked(file, r, p) ==
    IF r.split
    THEN /\ r.file[p].right = r.right /\ r.file[r.right].right = file[p].right
         /\ r.file[p].entries # <<>> /\ r.file[r.right].entries # <<>>
    ELSE r.file[p].right = file[p].right /\ r.file[p].entries # <<>>

LEMMA LeafLinks ==
    ASSUME KeysDiffer, NEW file, NEW h, Shape(file, h), NEW p, IsLeaf(file, p),
           NEW e \in Records, NEW r, r = InsertIntoLeaf(file, p, e)
    PROVE  Linked(file, r, p)
<1>1. p \in DOMAIN file /\ file \in Files
  BY DEF IsLeaf, Shape
<1>2. file[p] \in LeafPages /\ Len(file[p].entries) <= LeafOcc
  BY <1>1, PageTypes DEF IsLeaf, Shape, PageShape, LeafShape
<1>3. PICK l \in LeafPages : l = file[p]
  BY <1>2
<1>4. PICK es \in Seq(Records) : es = l.entries
  BY <1>3 DEF LeafPages
<1>5. PICK w : w = WithEntry(es, e)
  OBVIOUS
<1>6. w # <<>>
  <2>1. Len(w) = Len(es) + 1
    BY <1>5, MergedEntries
  <2>2. Len(es) \in Nat
    OBVIOUS
  <2> QED
    BY <2>1, <2>2
<1>7. CASE HasRoom(file[p])
  <2>1. r.split = FALSE /\ r.file = [file EXCEPT ![p] = [l EXCEPT !.entries = w]]
    BY <1>3, <1>4, <1>5, <1>7 DEF InsertIntoLeaf, NoSplit
  <2>2. r.file[p] = [l EXCEPT !.entries = w]
    BY <2>1, <1>1
  <2>3. [l EXCEPT !.entries = w].right = l.right /\ [l EXCEPT !.entries = w].entries = w
    BY DEF LeafPages
  <2> QED
    BY <2>1, <2>2, <2>3, <1>3, <1>6 DEF Linked
<1>8. CASE ~HasRoom(file[p])
  <2>1. Len(file[p].entries) = LeafOcc
    BY <1>2, <1>3, <1>4, <1>8, LeafOccAssumption DEF HasRoom
  <2>2. r = SplitLeaf(file, p, e)
    BY <1>8 DEF InsertIntoLeaf
  <2>3. PICK n : n = (LeafOcc + 1) \div 2
    OBVIOUS
  <2>4. LeafCut(file, p, r, w, n)
    BY <2>1, <2>2, <2>3, <1>3, <1>4, <1>5, SplitLeafCuts
  <2>5. 1 \in 1 .. n /\ 1 \in 1 .. (LeafOcc + 1 - n)
    BY <2>4, LeafOccAssumption DEF LeafCut
  <2>6. DOMAIN r.file[p].entries # {} /\ DOMAIN r.file[r.right].entries # {}
    BY <2>4, <2>5 DEF LeafCut
  <2>7. DOMAIN <<>> = {}
    OBVIOUS
  <2>8. r.file[p].entries # <<>> /\ r.file[r.right].entries # <<>>
    BY <2>6, <2>7
  <2> QED
    BY <2>4, <2>8 DEF LeafCut, Linked
<1> QED
  BY <1>7, <1>8

\* Pages that are not leaves do not matter.
LEMMA ChainKept ==
    ASSUME NEW file, NEW h, Shape(file, h), NEW R, NEW X, Chained(file, R, X), NEW F, NEW R2,
           \A q : IsLeaf(F, q) \/ IsLeaf(file, q) =>
                    IsLeaf(file, q) /\ F[q] = file[q] /\ R2[q] = R[q]
    PROVE  Chained(F, R2, X)
<1>1. SUFFICES ASSUME NEW p, IsLeaf(F, p) PROVE LeafChained(F, R2, X, p)
  BY DEF Chained
<1>2. IsLeaf(file, p) /\ F[p] = file[p] /\ R2[p] = R[p]
  BY <1>1
<1>3. LeafChained(file, R, X, p)
  BY <1>2 DEF Chained, IsLeaf
<1>4. PICK s : s = file[p].right
  OBVIOUS
<1>5. s # 0 => IsLeaf(file, s)
  BY <1>2, <1>4 DEF Shape, PageShape, LeafShape, IsLeaf
<1>6. s # 0 => F[s] = file[s] /\ R2[s] = R[s]
  BY <1>5
<1>7. F[p].right = s
  BY <1>2, <1>4
<1> QED
  BY <1>2, <1>3, <1>4, <1>6, <1>7 DEF LeafChained

(***************************************************************************)
(* And its routing: what p stood for before is what its parent sends to it *)
(* now, and to nobody else.                                                *)
(***************************************************************************)
Handed(r, G, R2, Q2, p) ==
    IF r.split THEN SplitBelow(r.file, G, R2, Q2, p, r.key, r.right)
    ELSE Q2 = R2 /\ Routed(r.file, G, R2, R2)

\* The keys of two neighbours: the one ends where the other begins.
LEMMA Neighbours ==
    ASSUME NEW A \in SUBSET Int, NEW B \in SUBSET Int, Interval(A), Interval(B),
           A \cap B = {}, NEW k \in A, k + 1 \in B
    PROVE  /\ \A a \in A : a <= k
           /\ \A b \in B : b >= k + 1
           /\ \A a \in A, b \in B : \A m \in Int : a <= m /\ m <= b => m \in A \/ m \in B
<1>1. k \in Int /\ k + 1 \notin A /\ k \notin B
  OBVIOUS
<1>2. ASSUME NEW a \in A PROVE a <= k
  <2>1. a \in Int /\ (k <= k + 1 /\ k + 1 <= a => k + 1 \in A)
    BY <1>1 DEF Interval
  <2> QED
    BY <2>1, <1>1
<1>3. ASSUME NEW b \in B PROVE b >= k + 1
  <2>1. b \in Int /\ (b <= k /\ k <= k + 1 => k \in B)
    BY <1>1 DEF Interval
  <2> QED
    BY <2>1, <1>1
<1>4. ASSUME NEW a \in A, NEW b \in B, NEW m \in Int, a <= m, m <= b PROVE m \in A \/ m \in B
  <2>1. CASE m <= k
    BY <2>1, <1>4 DEF Interval
  <2>2. CASE m > k
    <3>1. k + 1 <= m
      BY <2>2, <1>1
    <3> QED
      BY <3>1, <1>4 DEF Interval
  <2> QED
    BY <2>1, <2>2, <1>1
<1> QED
  BY <1>2, <1>3, <1>4

LEMMA PiecesOfInterval ==
    ASSUME NEW S \in SUBSET Int, NEW key \in Int
    PROVE  /\ Interval(S) => Interval({k \in S : k < key}) /\ Interval({k \in S : k >= key})
           /\ Upward(S) => Upward({k \in S : k >= key})
<1>1. PICK A, B : A = {k \in S : k < key} /\ B = {k \in S : k >= key}
  OBVIOUS
<1>2. \A k \in Int : (k \in A <=> k \in S /\ k < key) /\ (k \in B <=> k \in S /\ k >= key)
  BY <1>1
<1>3. A \in SUBSET Int /\ B \in SUBSET Int
  BY <1>1
<1>4. Interval(S) => Interval(A)
  BY <1>2, <1>3 DEF Interval
<1>5. Interval(S) => Interval(B)
  BY <1>2, <1>3 DEF Interval
<1>6. Upward(S) => Upward(B)
  BY <1>2, <1>3 DEF Upward
<1> QED
  BY <1>1, <1>4, <1>5, <1>6

\* No two leaves have a key in common.
LEMMA LeavesApart ==
    ASSUME NEW file, NEW h, Shape(file, h), NEW R, NEW Q, Routed(file, h, R, Q),
           NEW p, IsLeaf(file, p), NEW q, IsLeaf(file, q), p # q
    PROVE  R[p] \cap R[q] = {}
<1>1. p \in DOMAIN file /\ q \in DOMAIN file /\ IsNode(file, p) /\ IsNode(file, q)
  BY DEF IsLeaf, IsNode
<1>2. h[p] = 0 /\ h[q] = 0
  BY <1>1 DEF Shape, PageShape, LeafShape
<1> QED
  BY <1>1, <1>2 DEF Routed, Apart

\* An insertion into a leaf leaves the chain as it should be.
LEMMA LeafChains ==
    ASSUME NEW file, NEW h, Shape(file, h), NEW R, Routed(file, h, R, R),
           NEW p, IsLeaf(file, p), NEW x \in R[p], Chained(file, R, {x}),
           NEW r, NEW G, Grown(file, h, r, G, p), Linked(file, r, p),
           NEW R2, NEW Q2, Handed(r, G, R2, Q2, p), Q2[p] = R[p],
           \A q \in DOMAIN file : q # p => R2[q] = R[q]
    PROVE  Chained(r.file, R2, {})
<1>1. PICK F, S : F = r.file /\ S = R[p]
  OBVIOUS
<1>2. p \in DOMAIN file /\ R \in [DOMAIN file -> SUBSET Int] /\ S \in SUBSET Int
  BY <1>1 DEF IsLeaf, Routed
<1>3. \A q \in DOMAIN file : /\ IsLeaf(F, q) => IsLeaf(file, q)
                             /\ q # p => F[q] = file[q] /\ R2[q] = R[q]
  BY <1>1 DEF Grown, Extends, IsLeaf
<1>4. ASSUME NEW q, IsLeaf(file, q)
      PROVE  /\ q \in DOMAIN file /\ LeafChained(file, R, {x}, q)
             /\ file[q].right # 0 => IsLeaf(file, file[q].right) /\ file[q].right \in DOMAIN file
  <2>1. q \in DOMAIN file /\ (file[q].right # 0 => IsLeaf(file, file[q].right))
    BY <1>4 DEF Shape, PageShape, LeafShape, IsLeaf
  <2>2. file[q].right # 0 => file[q].right \in DOMAIN file
    BY <2>1 DEF IsLeaf
  <2> QED
    BY <2>1, <2>2, <1>4 DEF Chained
<1>5. ASSUME NEW q, IsLeaf(file, q), q # p PROVE R[q] \cap {x} = {} /\ R[q] \cap S = {}
  BY <1>1, <1>5, LeavesApart
<1>6. ASSUME NEW q, IsLeaf(file, q), file[q].right # 0, file[q].right # p
      PROVE  F[file[q].right] = file[file[q].right] /\ file[file[q].right].entries # <<>>
             /\ R2[file[q].right] = R[file[q].right]
  <2>1. IsLeaf(file, file[q].right) /\ file[q].right \in DOMAIN file /\ LeafChained(file, R, {x}, q)
    BY <1>4, <1>6
  <2>2. R[file[q].right] \cap {x} = {}
    BY <2>1, <1>5, <1>6
  <2> QED
    BY <2>1, <2>2, <1>3, <1>6 DEF LeafChained
<1>7. CASE ~r.split
  <2>1. DOMAIN F = DOMAIN file /\ F[p].right = file[p].right /\ F[p].entries # <<>> /\ R2[p] = R[p]
    BY <1>1, <1>7 DEF Grown, Linked, Handed
  <2>2. SUFFICES ASSUME NEW q, IsLeaf(F, q) PROVE LeafChained(F, R2, {}, q)
    BY <1>1 DEF Chained
  <2>3. /\ IsLeaf(file, q) /\ q \in DOMAIN file /\ LeafChained(file, R, {x}, q)
        /\ F[q].right = file[q].right /\ R2[q] = R[q]
    BY <2>1, <2>2, <1>3, <1>4 DEF IsLeaf
  <2>4. F[q].right # 0 => F[F[q].right].entries # <<>> /\ R2[F[q].right] = R[F[q].right]
    <3>1. CASE file[q].right = p
      BY <3>1, <2>1, <2>3
    <3>2. CASE file[q].right # p /\ file[q].right # 0
      BY <3>2, <2>3, <1>6
    <3> QED
      BY <3>1, <3>2, <2>3
  <2> QED
    BY <2>3, <2>4 DEF LeafChained
<1>8. CASE r.split
  <2>1. PICK n, key : n = r.right /\ key = r.key
    OBVIOUS
  <2>2. /\ key \in S /\ key \in Int /\ \E k \in S : k < key
        /\ R2[p] = {k \in S : k < key} /\ R2[n] = {k \in S : k >= key}
    BY <2>1, <1>1, <1>8 DEF Handed, SplitBelow, CutAt
  <2>3. /\ DOMAIN F = DOMAIN file \cup {n} /\ n \notin DOMAIN file /\ n # 0 /\ n # p
        /\ F[p].right = n /\ F[n].right = file[p].right
        /\ F[p].entries # <<>> /\ F[n].entries # <<>>
    BY <2>1, <1>1, <1>2, <1>8 DEF Grown, Linked
  <2>4. PICK k0 \in S : k0 < key
    BY <2>2
  <2>5. LeafChained(file, R, {x}, p) /\ Interval(S)
    BY <1>1, <1>4 DEF LeafChained
  <2>6. SUFFICES ASSUME NEW q, IsLeaf(F, q) PROVE LeafChained(F, R2, {}, q)
    BY <1>1 DEF Chained
  <2>7. CASE q = p
    <3>1. Interval(R2[p])
      BY <2>2, <2>5, <1>2, PiecesOfInterval
    <3>2. key - 1 \in R2[p] /\ (key - 1) + 1 \in R2[n]
      <4>1. key - 1 \in Int /\ k0 <= key - 1 /\ key - 1 <= key /\ key - 1 < key /\ (key - 1) + 1 = key
        BY <2>2, <2>4, <1>2
      <4>2. key - 1 \in S
        BY <4>1, <2>2, <2>4, <2>5 DEF Interval
      <4> QED
        BY <4>1, <4>2, <2>2
    <3> QED
      BY <3>1, <3>2, <2>3, <2>7 DEF LeafChained
  <2>8. CASE q = n
    <3>1. Interval(R2[n])
      BY <2>2, <2>5, <1>2, PiecesOfInterval
    <3>2. PICK s : s = file[p].right
      OBVIOUS
    <3>3. s = 0 => Upward(R2[n])
      <4>1. s = 0 => Upward(S)
        BY <3>2, <2>5, <1>1 DEF LeafChained
      <4> QED
        BY <4>1, <2>2, <1>2, PiecesOfInterval
    <3>4. ASSUME s # 0
          PROVE  /\ s # n /\ F[s].entries # <<>>
                 /\ \E k \in R2[n] : k + 1 \in R2[s]
      <4>1. s \in DOMAIN file /\ IsLeaf(file, s) /\ s # p
        BY <3>2, <3>4, <2>5, <1>4 DEF LeafChained
      <4>2. F[s] = file[s] /\ file[s].entries # <<>> /\ R2[s] = R[s]
        BY <4>1, <3>2, <3>4, <1>6
      <4>3. PICK k \in S : k + 1 \in R[s]
        BY <3>2, <3>4, <2>5, <1>1 DEF LeafChained
      <4>4. R[s] \cap S = {}
        BY <4>1, <1>5
      <4>5. k \in Int /\ k + 1 \notin S
        BY <4>3, <4>4, <1>2
      <4>6. k >= key
        <5>1. k <= k + 1 /\ k + 1 \in Int /\ (k < key => k + 1 <= key)
          BY <4>5, <2>2
        <5> QED
          BY <5>1, <4>3, <4>5, <2>2, <2>5 DEF Interval
      <4> QED
        BY <4>1, <4>2, <4>3, <4>6, <2>2, <2>3
    <3> QED
      BY <3>1, <3>2, <3>3, <3>4, <2>3, <2>8 DEF LeafChained
  <2>9. CASE q # p /\ q # n
    <3>1. /\ IsLeaf(file, q) /\ q \in DOMAIN file /\ LeafChained(file, R, {x}, q)
          /\ F[q] = file[q] /\ R2[q] = R[q]
      BY <2>3, <2>6, <2>9, <1>3, <1>4 DEF IsLeaf
    <3>2. PICK s : s = file[q].right
      OBVIOUS
    <3>3. CASE s # p
      <4>1. s # 0 => F[s] = file[s] /\ file[s].entries # <<>> /\ R2[s] = R[s]
        BY <3>1, <3>2, <3>3, <1>6
      <4> QED
        BY <4>1, <3>1, <3>2 DEF LeafChained
    <3>4. CASE s = p
      <4>1. p # 0
        BY <1>2, PageTypes DEF Shape
      <4>2. PICK k \in R[q] : k + 1 \in S
        BY <4>1, <3>1, <3>2, <3>4, <1>1 DEF LeafChained
      <4>3. k \notin S /\ k \in Int
        BY <4>2, <3>1, <2>9, <1>2, <1>5
      <4>4. k + 1 < key
        <5>1. k + 1 \in Int /\ k0 \in Int /\ (key <= k + 1 => k0 <= k) /\ k <= k + 1
          BY <4>3, <2>2, <2>4, <1>2
        <5>2. k0 <= k => k \in S
          BY <5>1, <4>2, <4>3, <2>4, <2>5 DEF Interval
        <5> QED
          BY <5>1, <5>2, <4>3, <2>2
      <4>5. k + 1 \in R2[p]
        BY <4>2, <4>4, <2>2
      <4> QED
        BY <4>2, <4>5, <3>1, <3>2, <3>4, <2>3 DEF LeafChained
    <3> QED
      BY <3>3, <3>4
  <2> QED
    BY <2>7, <2>8, <2>9
<1> QED
  BY <1>7, <1>8 DEF Grown

Sends(file, h, R, e, r, G, R2, Q2, p) ==
    /\ Raised(file, h, r, G, p)
    /\ NoHoles(r.file)
    /\ \A x : Stored(r.file, x) <=> Stored(file, x) \/ x = e
    /\ Handed(r, G, R2, Q2, p)
    /\ Q2[p] = R[p]
    /\ \A q \in DOMAIN file : h[q] > h[p] => R2[q] = R[q]
    /\ Chained(r.file, R2, {})

LEMMA StepHands ==
    ASSUME NEW F, NEW H, Shape(F, H), NEW R, R \in [DOMAIN F -> SUBSET Int],
           NEW p, IsNode(F, p), NEW r, NEW G, StepRoutes(F, H, R, r, G, p)
    PROVE  \E R2, Q2 : /\ Handed(r, G, R2, Q2, p)
                       /\ Q2[p] = R[p]
                       /\ \A q \in DOMAIN F : q # p => R2[q] = R[q]
<1>1. p \in DOMAIN F /\ Grown(F, H, r, G, p)
  BY DEF IsNode, IsLeaf, IsNonLeaf, StepRoutes
<1>2. CASE ~r.split
  BY <1>2 DEF StepRoutes, RoutesAfter, SentAfter, Handed
<1>3. CASE r.split
  <2>1. PICK R2, Q2 : R2 = RoutesAfter(R, r, p) /\ Q2 = SentAfter(R, r, p)
    OBVIOUS
  <2>2. /\ \A q \in DOMAIN F : Q2[q] = R[q] /\ (q # p => R2[q] = R[q])
        /\ R2 \in [DOMAIN r.file -> SUBSET Int]
    BY <2>1, <1>1, <1>3, SplitRoutes
  <2>3. Routed(r.file, G, R2, Q2) /\ CutAt(Q2[p], r.key, R2[p], R2[r.right])
    BY <2>1, <2>2, <1>1, <1>3 DEF StepRoutes
  <2>4. \A q \in DOMAIN r.file : q # p => Q2[q] = R2[q]
    BY <2>1, <1>3, <2>2 DEF SentAfter
  <2>5. /\ IsNode(r.file, p) /\ IsNode(r.file, r.right) /\ r.right \in Nat \ {0}
        /\ G[r.right] = G[p] /\ r.key \in Int
    <3>1. Extends(F, H, r.file, G) /\ G[r.right] = H[p] /\ r.right \in Nat \ {0} /\ r.key \in Int
          /\ IsNode(r.file, r.right)
      BY <1>1, <1>3 DEF Grown
    <3>2. IsNode(r.file, p)
      BY <3>1, KindsKept
    <3>3. G[p] = H[p]
      BY <3>1, <1>1 DEF Extends
    <3> QED
      BY <3>1, <3>2, <3>3
  <2>6. SplitBelow(r.file, G, R2, Q2, p, r.key, r.right)
    BY <2>3, <2>4, <2>5 DEF SplitBelow
  <2> QED
    BY <2>2, <2>6, <1>1, <1>3 DEF Handed
<1> QED
  BY <1>2, <1>3

\* The leaf at the end of the path.
LEMMA LeafSends ==
    ASSUME KeysDiffer, NEW file, NEW h, Shape(file, h), NEW R, Routed(file, h, R, R),
           NoHoles(file), NEW p, IsLeaf(file, p), NEW e \in Records, e[1] \in R[p],
           Chained(file, R, {e[1]}), ~Stored(file, e), NEW r, r = InsertIntoLeaf(file, p, e)
    PROVE  \E G, R2, Q2 : Sends(file, h, R, e, r, G, R2, Q2, p)
<1>1. PICK G : G = HeightsAfter(h, r, p)
  OBVIOUS
<1>2. /\ StepRoutes(file, h, R, r, G, p)
      /\ \A x : Stored(r.file, x) <=> Stored(file, x) \/ x = e
  BY <1>1, LeafRoutes
<1>3. p \in DOMAIN file /\ IsNode(file, p) /\ R \in [DOMAIN file -> SUBSET Int] /\ h[p] \in Nat
  BY DEF IsLeaf, IsNode, Routed, Shape
<1>4. Grown(file, h, r, G, p) /\ Raised(file, h, r, G, p)
  BY <1>2, <1>3, RaisedHere DEF StepRoutes
<1>5. PICK R2, Q2 : /\ Handed(r, G, R2, Q2, p)
                    /\ Q2[p] = R[p]
                    /\ \A q \in DOMAIN file : q # p => R2[q] = R[q]
  BY <1>2, <1>3, StepHands
<1>6. \A q \in DOMAIN file : h[q] > h[p] => R2[q] = R[q]
  BY <1>3, <1>5
<1>7. h[p] = 0
  BY <1>3 DEF Shape, PageShape, LeafShape
<1>8. r.split => ~IsNonLeaf(r.file, r.right)
  <2>1. SUFFICES ASSUME r.split, IsNonLeaf(r.file, r.right) PROVE FALSE
    OBVIOUS
  <2>2. G[r.right] = 0 /\ Shape(r.file, G)
    BY <2>1, <1>4, <1>7 DEF Grown
  <2>3. NonLeafShape(r.file, G, r.right)
    BY <2>1, <2>2 DEF Shape, PageShape, IsNonLeaf
  <2> QED
    BY <2>2, <2>3 DEF NonLeafShape
<1>9. ASSUME NEW q \in DOMAIN r.file, IsNonLeaf(r.file, q)
      PROVE  q \in DOMAIN file /\ IsNonLeaf(file, q) /\ r.file[q] = file[q]
  <2>1. q \in DOMAIN file
    BY <1>4, <1>8, <1>9 DEF Grown
  <2>2. IsNonLeaf(file, q) /\ q # p
    BY <2>1, <1>4, <1>9 DEF Grown, Extends, IsNonLeaf, IsLeaf
  <2> QED
    BY <2>1, <2>2, <1>4 DEF Grown
<1>10. NoHoles(r.file)
  BY <1>9 DEF NoHoles
<1>11. Chained(r.file, R2, {})
  <2>1. PICK x : x = e[1]
    OBVIOUS
  <2>2. x \in R[p] /\ Chained(file, R, {x}) /\ Linked(file, r, p)
    BY <2>1, LeafLinks
  <2> QED
    BY <2>2, <1>4, <1>5, LeafChains
<1> QED
  BY <1>2, <1>4, <1>5, <1>6, <1>10, <1>11 DEF Sends

\* A node whose child the path goes on to.
LEMMA NodeSends ==
    ASSUME OneSize, NEW file, NEW h, Shape(file, h), NEW R, NEW e, NEW g \in Garbage,
           NEW p, IsNonLeaf(file, p), NEW j \in DOMAIN file[p].kids, NEW c,
           file[p].kids[j] = c, IsNode(file, c), c # 0, h[c] + 1 = h[p],
           NEW r1, NEW G1, NEW R1, NEW Q1, Sends(file, h, R, e, r1, G1, R1, Q1, c),
           NEW r, r = IF r1.split THEN InsertIntoNonLeaf(r1.file, p, r1.key, r1.right, g) ELSE r1
    PROVE  \E G, R2, Q2 : Sends(file, h, R, e, r, G, R2, Q2, p)
<1>1. /\ p \in DOMAIN file /\ c \in DOMAIN file /\ h[p] \in Nat /\ h[c] \in Nat /\ h[c] < h[p]
      /\ \A q \in DOMAIN file : h[q] \in Nat
  BY DEF IsNonLeaf, IsNode, IsLeaf, Shape
<1>2. Raised(file, h, r1, G1, c)
  BY DEF Sends
<1>3. /\ r1.file[p] = file[p] /\ p \in DOMAIN r1.file /\ G1[p] = h[p]
      /\ ~r1.split => Raised(file, h, r1, G1, p)
      /\ \A s, H : Grown(r1.file, G1, s, H, p) => Raised(file, h, s, H, p)
  BY <1>1, <1>2, RaisedAbove
<1>4. R1[p] = R[p] /\ \A q \in DOMAIN file : h[q] > h[p] => R1[q] = R[q]
  <2>1. \A q \in DOMAIN file : h[q] > h[p] => h[q] > h[c]
    BY <1>1
  <2> QED
    BY <2>1, <1>1 DEF Sends
<1>5. CASE ~r1.split
  <2>1. r = r1 /\ Q1 = R1
    BY <1>5 DEF Sends, Handed
  <2>2. Handed(r1, G1, R1, Q1, p)
    BY <1>5 DEF Sends, Handed
  <2> QED
    BY <2>1, <2>2, <1>3, <1>4, <1>5 DEF Sends
<1>6. CASE r1.split
  <2>1. PICK F, key, right : F = r1.file /\ key = r1.key /\ right = r1.right
    OBVIOUS
  <2>2. SplitBelow(F, G1, R1, Q1, c, key, right) /\ Shape(F, G1) /\ NoHoles(F)
    BY <2>1, <1>2, <1>6 DEF Sends, Handed, Raised
  <2>3. IsNonLeaf(F, p) /\ j \in DOMAIN F[p].kids /\ F[p].kids[j] = c /\ IsNode(F, p)
    BY <2>1, <1>3 DEF IsNonLeaf, IsNode
  <2>4. r = InsertIntoNonLeaf(F, p, key, right, g)
    BY <2>1, <1>6
  <2>5. PICK G : G = HeightsAfter(G1, r, p)
    OBVIOUS
  <2>6. /\ StepRoutes(F, G1, R1, r, G, p)
        /\ \A x : Stored(r.file, x) <=> Stored(F, x)
        /\ NoHoles(F) => NoHoles(r.file)
    BY <2>2, <2>3, <2>4, <2>5, NodeRoutes
  <2>7. R1 \in [DOMAIN F -> SUBSET Int]
    BY <2>2 DEF SplitBelow, Routed
  <2>8. PICK R2, Q2 : /\ Handed(r, G, R2, Q2, p)
                      /\ Q2[p] = R1[p]
                      /\ \A q \in DOMAIN F : q # p => R2[q] = R1[q]
    BY <2>2, <2>3, <2>6, <2>7, StepHands
  <2>9. Raised(file, h, r, G, p)
    BY <2>1, <2>6, <1>3 DEF StepRoutes
  <2>10. \A q \in DOMAIN file : h[q] > h[p] => R2[q] = R[q]
    <3>1. \A q \in DOMAIN file : q \in DOMAIN F /\ (h[q] > h[p] => q # p)
      BY <2>1, <1>1, <1>2 DEF Raised, Extends
    <3> QED
      BY <3>1, <2>8, <1>4
  <2>11. \A x : Stored(r.file, x) <=> Stored(file, x) \/ x = e
    BY <2>1, <2>6 DEF Sends
  <2>12. Chained(r.file, R2, {})
    <3>1. Chained(F, R1, {}) /\ Grown(F, G1, r, G, p) /\ p \in DOMAIN F /\ G1[p] >= 1
      <4>1. Grown(F, G1, r, G, p) /\ Chained(F, R1, {})
        BY <2>1, <2>6 DEF StepRoutes, Sends
      <4>2. p \in DOMAIN F /\ NonLeafShape(F, G1, p)
        BY <2>2, <2>3 DEF IsNonLeaf, Shape, PageShape
      <4> QED
        BY <4>1, <4>2 DEF NonLeafShape
    <3>2. ASSUME NEW q, IsLeaf(r.file, q) PROVE q \in DOMAIN F
      <4>1. q \in DOMAIN r.file /\ G[q] = 0
        BY <3>1, <3>2 DEF Grown, Shape, PageShape, LeafShape, IsLeaf
      <4>2. r.split => G[r.right] # 0
        BY <3>1 DEF Grown
      <4> QED
        BY <3>1, <4>1, <4>2 DEF Grown
    <3>3. \A q \in DOMAIN F : r.file[q].kind = F[q].kind
      BY <3>1 DEF Grown, Extends
    <3>4. \A q \in DOMAIN F : q # p => r.file[q] = F[q] /\ R2[q] = R1[q]
      BY <2>8, <3>1 DEF Grown
    <3>5. ASSUME NEW q, IsLeaf(r.file, q) \/ IsLeaf(F, q)
          PROVE  IsLeaf(F, q) /\ r.file[q] = F[q] /\ R2[q] = R1[q]
      <4>1. q \in DOMAIN F /\ F[q].kind = "leaf"
        BY <3>2, <3>3, <3>5 DEF IsLeaf
      <4>2. q # p
        BY <4>1, <2>3 DEF IsNonLeaf
      <4> QED
        BY <4>1, <4>2, <3>4 DEF IsLeaf
    <3> QED
      BY <3>1, <3>5, <2>2, ChainKept
  <2> QED
    BY <2>2, <2>6, <2>8, <2>9, <2>10, <2>11, <2>12, <1>4 DEF Sends
<1> QED
  BY <1>5, <1>6

LEMMA InsertSends ==
    ASSUME OneSize, KeysDiffer, NEW file, NEW h, Shape(file, h), NEW R, Routed(file, h, R, R),
           NoHoles(file), NEW root, IsNonLeaf(file, root), NEW e \in Records, e[1] \in R[root],
           Chained(file, R, {e[1]}), ~Stored(file, e), NEW g \in Garbage,
           0 \notin Range(PathFrom(file, root, e[1]))
    PROVE  \E G, R2, Q2 : Sends(file, h, R, e, InsertRecursive(file, root, e, g), G, R2, Q2, root)
<1>1. PICK path : path = PathFrom(file, root, e[1])
  OBVIOUS
<1>2. PICK key \in Int : key = e[1]
  BY RecordsAssumption
<1>3. IsPath(file, h, path, root, key) /\ 0 \notin Range(path)
  BY <1>1, <1>2, PathFound
<1>4. PICK N \in Nat : N = Len(path)
  BY <1>3 DEF IsPath
<1>5. /\ N >= 2 /\ path[1] = root /\ IsLeaf(file, path[N])
      /\ \A i \in 1 .. (N - 1) :
            /\ IsNonLeaf(file, path[i])
            /\ IsNode(file, path[i + 1]) /\ h[path[i + 1]] + 1 = h[path[i]]
            /\ path[i + 1] # 0
            /\ \E j \in DOMAIN file[path[i]].kids : file[path[i]].kids[j] = path[i + 1]
  <2>1. Descends(file, h, path, root, key)
    BY <1>3, PathSteps
  <2> QED
    BY <2>1, <1>4 DEF Descends
<1>6. e[1] \in R[path[N]]
  <2>1. N \in 1 .. Len(path)
    BY <1>4, <1>5
  <2> QED
    BY <2>1, <1>2, <1>3, PathRouted
<1>7. PICK up : up = CHOOSE u : IsUp(file, path, e, g, u)
  OBVIOUS
<1>8. \A i \in 1 .. N : up[i] = UpStep(file, path, e, g, up, i)
  <2>1. IsUp(file, path, e, g, up)
    BY <1>4, <1>7, UpExists
  <2> QED
    BY <2>1, <1>4 DEF IsUp
<1>9. InsertRecursive(file, root, e, g) = up[1]
  BY <1>1, <1>7, InsertIsUp
<1> DEFINE Good(i) == \E G, R2, Q2 : Sends(file, h, R, e, up[i], G, R2, Q2, path[i])
           Bad == {n \in 0 .. (N - 1) : ~Good(N - n)}
<1>10. Good(N)
  <2>1. up[N] = InsertIntoLeaf(file, path[N], e)
    BY <1>4, <1>5, <1>8 DEF UpStep
  <2> QED
    BY <2>1, <1>5, <1>6, LeafSends
<1>11. ASSUME NEW i \in 1 .. (N - 1), Good(i + 1) PROVE Good(i)
  <2>1. PICK p, c, r1, r : p = path[i] /\ c = path[i + 1] /\ r1 = up[i + 1] /\ r = up[i]
    OBVIOUS
  <2>2. PICK G1, R1, Q1 : Sends(file, h, R, e, r1, G1, R1, Q1, c)
    BY <2>1, <1>11
  <2>3. IsNonLeaf(file, p) /\ IsNode(file, c) /\ h[c] + 1 = h[p] /\ c # 0
    BY <2>1, <1>5
  <2>4. PICK j \in DOMAIN file[p].kids : file[p].kids[j] = c
    BY <2>1, <1>5
  <2>5. r = IF r1.split THEN InsertIntoNonLeaf(r1.file, p, r1.key, r1.right, g) ELSE r1
    <3>1. i \in 1 .. N /\ i # N
      BY <1>5
    <3> QED
      BY <3>1, <2>1, <1>4, <1>8 DEF UpStep
  <2>6. \E G, R2, Q2 : Sends(file, h, R, e, r, G, R2, Q2, p)
    BY <2>2, <2>3, <2>4, <2>5, NodeSends
  <2> QED
    BY <2>1, <2>6
<1> HIDE DEF Good
<1>12. Bad = {}
  <2>1. SUFFICES ASSUME Bad # {} PROVE FALSE
    OBVIOUS
  <2>2. PICK n \in Bad : \A t \in Bad : n <= t
    <3>1. Bad \in SUBSET Nat
      OBVIOUS
    <3> HIDE DEF Bad
    <3> QED
      BY <2>1, <3>1, LeastElement
  <2>3. n \in 0 .. (N - 1) /\ ~Good(N - n)
    OBVIOUS
  <2>4. n # 0
    <3>1. N - 0 = N
      OBVIOUS
    <3> QED
      BY <3>1, <2>3, <1>10
  <2>5. PICK i : i = N - n
    OBVIOUS
  <2>6. i \in 1 .. (N - 1) /\ N - (n - 1) = i + 1 /\ n - 1 \in 0 .. (N - 1) /\ n - 1 < n
    BY <2>3, <2>4, <2>5
  <2>7. Good(i + 1)
    <3>1. n - 1 \notin Bad
      <4> HIDE DEF Bad
      <4> QED
        BY <2>2, <2>3, <2>6
    <3> QED
      BY <3>1, <2>6
  <2> QED
    BY <2>3, <2>5, <2>6, <2>7, <1>11
<1>13. Good(1)
  <2>1. N - 1 \in 0 .. (N - 1) /\ N - (N - 1) = 1
    BY <1>5
  <2> QED
    BY <2>1, <1>12
<1> QED
  BY <1>5, <1>9, <1>13 DEF Good

-----------------------------------------------------------------------------
(***************************************************************************)
(* insertEntry: the first leaves before, and a new root after.             *)
(***************************************************************************)
\* F is file with an empty leaf at its end.
AddsLeaf(file, h, F, H, n, right) ==
    /\ Shape(F, H) /\ Extends(file, h, F, H) /\ IsLeaf(F, n)
    /\ DOMAIN F = DOMAIN file \cup {n} /\ n \notin DOMAIN file /\ n \in Nat \ {0}
    /\ Len(F) = n /\ H[n] = 0 /\ F[n] = Leaf(<<>>, right)
    /\ \A q \in DOMAIN file : F[q] = file[q]

LEMMA EmptyLeafAdded ==
    ASSUME NEW file, NEW h, Shape(file, h), NEW n, n = Len(file) + 1,
           NEW right \in Nat, right = 0 \/ IsLeaf(file, right)
    PROVE  AddsLeaf(file, h, Append(file, Leaf(<<>>, right)), Extended(h, n, 0), n, right)
<1>1. PICK es : es = <<>> /\ es \in Seq(Records)
  <2>1. <<>> \in Seq(Records)
    OBVIOUS
  <2> QED
    BY <2>1
<1>2. Len(es) <= LeafOcc
  BY <1>1, LeafOccAssumption
<1>3. PICK page : page = Leaf(es, right)
  OBVIOUS
<1>4. file \in Files /\ h \in [DOMAIN file -> Nat]
  BY DEF Shape
<1>5. page \in LeafPages
  BY <1>1, <1>3, LeafIsLeaf
<1>6. /\ Shape(Append(file, page), Extended(h, n, 0))
      /\ Extends(file, h, Append(file, page), Extended(h, n, 0))
      /\ IsLeaf(Append(file, page), n)
      /\ n \notin DOMAIN file
  <2>1. IsLeaf(Append(file, Leaf(es, right)), n) /\ n \notin DOMAIN file
        /\ Shape(Append(file, Leaf(es, right)), Extended(h, n, 0))
        /\ Extends(file, h, Append(file, Leaf(es, right)), Extended(h, n, 0))
    BY <1>1, <1>2, LeafAppended
  <2> QED
    BY <2>1, <1>3
<1>7. /\ Len(Append(file, page)) = n /\ Append(file, page)[n] = page
      /\ DOMAIN Append(file, page) = DOMAIN file \cup {n} /\ n \in Nat \ {0}
      /\ Extended(h, n, 0)[n] = 0
      /\ \A q \in DOMAIN file : Append(file, page)[q] = file[q]
  BY <1>4, <1>5, Appended
<1> QED
  BY <1>1, <1>3, <1>6, <1>7 DEF AddsLeaf

\* An empty root with its first separator and two leaves.
Sprouted(file, h, F, H, root, key, a, b) ==
    /\ Shape(F, H) /\ Extends(file, h, F, H)
    /\ DOMAIN F = DOMAIN file \cup {a, b}
    /\ a \notin DOMAIN file /\ b \notin DOMAIN file /\ a # b /\ a # 0 /\ b # 0
    /\ H[a] = 0 /\ H[b] = 0
    /\ F[root] = NonLeaf(file[root].level, <<key>>, <<b, a>>)
    /\ F[a] = Leaf(<<>>, 0) /\ F[b] = Leaf(<<>>, a)
    /\ \A q \in DOMAIN file : q # root => F[q] = file[q]

LEMMA FirstLeaves ==
    ASSUME NEW file, NEW h, Shape(file, h), NEW root, IsNonLeaf(file, root),
           file[root].keys = <<>>, NEW key \in Int
    PROVE  \E H, a, b : Sprouted(file, h, WithFirstLeaves(file, root, key), H, root, key, a, b)
<1>1. /\ Fits(file, h, h[root], file[root]) /\ root \in DOMAIN file /\ root \in Nat \ {0}
      /\ file \in Files /\ file[root].kind = "nonleaf" /\ h[root] \in Nat
  BY FitsWhereItIs DEF IsNonLeaf
<1>2. h[root] = 1 /\ file[root].level = 1
  BY <1>1 DEF Fits
<1>3. PICK n \in Nat : n = Len(file) /\ DOMAIN file = 1 .. n
  BY <1>1 DEF Files
<1>4. PICK a, b : a = n + 1 /\ b = n + 2
  OBVIOUS
<1>5. PICK F1, h1 : F1 = Append(file, Leaf(<<>>, 0)) /\ h1 = Extended(h, a, 0)
  OBVIOUS
<1>6. AddsLeaf(file, h, F1, h1, a, 0)
  <2>1. a = Len(file) + 1
    BY <1>3, <1>4
  <2> QED
    BY <2>1, <1>5, EmptyLeafAdded
<1>7. PICK F2, h2 : F2 = Append(F1, Leaf(<<>>, a)) /\ h2 = Extended(h1, b, 0)
  OBVIOUS
<1>8. AddsLeaf(F1, h1, F2, h2, b, a)
  <2>1. b = Len(F1) + 1 /\ Shape(F1, h1) /\ IsLeaf(F1, a) /\ a \in Nat
    BY <1>3, <1>4, <1>6 DEF AddsLeaf
  <2> QED
    BY <2>1, <1>7, EmptyLeafAdded
<1>9. /\ Shape(F2, h2) /\ Extends(file, h, F2, h2)
      /\ IsLeaf(F2, a) /\ IsLeaf(F2, b) /\ h2[a] = 0 /\ h2[b] = 0
      /\ F2[a] = Leaf(<<>>, 0) /\ F2[b] = Leaf(<<>>, a)
      /\ DOMAIN F2 = DOMAIN file \cup {a, b} /\ a \notin DOMAIN file /\ b \notin DOMAIN file
      /\ a # b /\ a # 0 /\ b # 0 /\ a \in Nat /\ b \in Nat
      /\ \A q \in DOMAIN file : F2[q] = file[q]
  <2>1. Extends(F1, h1, F2, h2)
    BY <1>8 DEF AddsLeaf
  <2>2. Extends(file, h, F2, h2)
    BY <2>1, <1>6 DEF AddsLeaf, Extends
  <2>3. IsLeaf(F2, a) /\ h2[a] = 0
    BY <2>1, <1>6 DEF AddsLeaf, Extends, IsLeaf
  <2> QED
    BY <2>2, <2>3, <1>6, <1>8 DEF AddsLeaf
<1>10. PICK node : node = NonLeaf(file[root].level, <<key>>, <<b, a>>)
  OBVIOUS
<1>11. /\ node \in NonLeafPages /\ node.level = 1
       /\ node.keys = <<key>> /\ node.kids = <<b, a>>
  <2>1. <<key>> \in Seq(Int) /\ <<b, a>> \in Seq(Nat)
    BY <1>9
  <2> QED
    BY <2>1, <1>2, <1>10 DEF NonLeaf, NonLeafPages
<1>12. IsNonLeaf(F2, root) /\ h2[root] = 1
  BY <1>1, <1>2, <1>9, KindsKept DEF Extends, IsNonLeaf
<1>13. Fits(F2, h2, h2[root], node)
  <2>1. Len(node.keys) = 1 /\ 1 <= NodeOcc /\ Len(node.kids) = 2 /\ 2 = 1 + 1
    BY <1>11, NodeOccAssumption
  <2>2. \A i \in DOMAIN node.kids : node.kids[i] \in {a, b}
    BY <1>11
  <2>3. \A i \in DOMAIN node.kids : IsNode(F2, node.kids[i]) /\ h2[node.kids[i]] + 1 = 1
    BY <2>2, <1>9 DEF IsNode
  <2>4. node.keys # <<>>
    BY <1>11
  <2> QED
    BY <2>1, <2>3, <2>4, <1>11, <1>12 DEF Fits
<1>14. PICK F : F = [F2 EXCEPT ![root] = node]
  OBVIOUS
<1>15. Shape(F, h2) /\ Extends(F2, h2, F, h2)
  BY <1>9, <1>12, <1>13, <1>14, NonLeafReplaced
<1>16. Extends(file, h, F, h2)
  BY <1>9, <1>15 DEF Extends
<1>17. /\ DOMAIN F = DOMAIN file \cup {a, b} /\ F[root] = node
       /\ F[a] = Leaf(<<>>, 0) /\ F[b] = Leaf(<<>>, a)
       /\ \A q \in DOMAIN file : q # root => F[q] = file[q]
  BY <1>1, <1>9, <1>14
<1>18. WithFirstLeaves(file, root, key) = F
  <2>1. PICK f, A, B : f = [file EXCEPT ![root] = node] /\ A = Leaf(<<>>, 0) /\ B = Leaf(<<>>, a)
    OBVIOUS
  <2>2. A \in LeafPages /\ B \in LeafPages /\ node \in NonLeafPages
    <3>1. <<>> \in Seq(Records)
      OBVIOUS
    <3> QED
      BY <3>1, <2>1, <1>9, <1>11, LeafIsLeaf
  <2>3. f \in Files
    BY <2>1, <1>1, <1>11, Replaced
  <2>4. WithFirstLeaves(file, root, key) = f \o <<A, B>>
    <3>1. [file EXCEPT ![root] = NonLeaf(@.level, <<key>>, <<n + 2, n + 1>>)] = f
      BY <2>1, <1>4, <1>10
    <3>2. WithFirstLeaves(file, root, key)
              = [file EXCEPT ![root] = NonLeaf(@.level, <<key>>, <<n + 2, n + 1>>)]
                  \o <<Leaf(<<>>, 0), Leaf(<<>>, n + 1)>>
      BY <1>3 DEF WithFirstLeaves
    <3> QED
      BY <3>1, <3>2, <2>1, <1>4
  <2>5. f \o <<A, B>> = Append(Append(f, A), B)
    BY <2>2, <2>3 DEF Files
  <2>6. Append(f, A) = [F1 EXCEPT ![root] = node]
    BY <2>1, <2>2, <1>1, <1>5, AppendCommutes
  <2>7. Append([F1 EXCEPT ![root] = node], B) = [F2 EXCEPT ![root] = node]
    <3>1. F1 \in Files /\ root \in DOMAIN F1
      BY <1>1, <1>6 DEF AddsLeaf, Shape
    <3> QED
      BY <3>1, <2>1, <2>2, <1>7, AppendCommutes
  <2> QED
    BY <2>4, <2>5, <2>6, <2>7, <1>14
<1>19. Sprouted(file, h, F, h2, root, key, a, b)
  BY <1>9, <1>10, <1>15, <1>16, <1>17 DEF Sprouted
<1> QED
  BY <1>18, <1>19

\* root is a nonleaf, and no page is higher.
Standing(file, h, root) ==
    /\ Shape(file, h) /\ IsNonLeaf(file, root)
    /\ \A q \in DOMAIN file : h[q] <= h[root]

LEMMA SproutedStands ==
    ASSUME NEW file, NEW h, NEW root, Standing(file, h, root), NEW F, NEW H,
           NEW key, NEW a, NEW b, Sprouted(file, h, F, H, root, key, a, b)
    PROVE  Standing(F, H, root)
<1>1. /\ Shape(F, H) /\ IsNonLeaf(F, root) /\ root \in DOMAIN file
      /\ DOMAIN F = DOMAIN file \cup {a, b} /\ H[a] = 0 /\ H[b] = 0
      /\ \A q \in DOMAIN file : H[q] = h[q]
  BY KindsKept DEF Standing, Sprouted, Extends, IsNonLeaf
<1>2. H[root] \in Nat
  BY <1>1 DEF Shape
<1>3. ASSUME NEW q \in DOMAIN F PROVE H[q] <= H[root]
  <2>1. CASE q \in DOMAIN file
    BY <2>1, <1>1 DEF Standing
  <2>2. CASE q \in {a, b}
    BY <2>2, <1>1, <1>2
  <2> QED
    BY <2>1, <2>2, <1>1, <1>3
<1> QED
  BY <1>1, <1>3 DEF Standing

LEMMA RaisedStands ==
    ASSUME NEW file, NEW h, NEW root, Standing(file, h, root),
           NEW r, NEW G, Raised(file, h, r, G, root)
    PROVE  Standing(r.file, G, root)
<1>1. Shape(r.file, G) /\ IsNonLeaf(r.file, root) /\ root \in DOMAIN file
  BY KindsKept DEF Standing, Raised, IsNonLeaf
<1>2. \A q \in DOMAIN file : G[q] = h[q]
  BY DEF Raised, Extends
<1>3. ASSUME NEW q \in DOMAIN r.file PROVE G[q] <= G[root]
  BY <1>1, <1>2 DEF Raised, Standing
<1> QED
  BY <1>1, <1>3 DEF Standing

\* A new root over the old one and its other half, and its number in the header.
Rooted(file, h, F, H, root, new, key, right, hdr) ==
    /\ Standing(F, H, new) /\ Extends(file, h, F, H)
    /\ DOMAIN F = DOMAIN file \cup {new} /\ new \notin DOMAIN file /\ new \in Nat \ {0}
    /\ H[new] = h[root] + 1
    /\ F[new] = NewRoot(key, root, right) /\ F[hdr] = Meta(new)
    /\ \A q \in DOMAIN file : q # hdr => F[q] = file[q]

LEMMA MetaReplaced ==
    ASSUME NEW file, NEW h, Shape(file, h), NEW p \in DOMAIN file, file[p].kind = "meta",
           NEW new \in DOMAIN file
    PROVE  /\ Shape([file EXCEPT ![p] = Meta(new)], h)
           /\ Extends(file, h, [file EXCEPT ![p] = Meta(new)], h)
<1>1. file \in Files /\ h \in [DOMAIN file -> Nat] /\ new \in Nat
  BY PageTypes DEF Shape
<1>2. PICK F : F = [file EXCEPT ![p] = Meta(new)]
  OBVIOUS
<1>3. Meta(new) \in MetaPages /\ Meta(new).kind = "meta" /\ Meta(new).rootPageNo = new
  BY <1>1 DEF Meta, MetaPages
<1>4. /\ F \in Files /\ DOMAIN F = DOMAIN file /\ F[p] = Meta(new)
      /\ \A q \in DOMAIN file : q # p => F[q] = file[q]
  BY <1>1, <1>2, <1>3, Replaced
<1>5. Extends(file, h, F, h)
  BY <1>3, <1>4 DEF Extends
<1>6. PageShape(F, h, p)
  BY <1>3, <1>4 DEF PageShape, IsLeaf, IsNonLeaf
<1>7. Shape(F, h)
  BY <1>1, <1>4, <1>5, <1>6, ShapeOfChanged
<1> QED
  BY <1>2, <1>5, <1>7

LEMMA NewRootStands ==
    ASSUME NEW file, NEW h, NEW root, Standing(file, h, root), NEW key \in Int,
           NEW right \in Nat \ {0}, IsNode(file, right), h[right] = h[root],
           NEW hdr \in DOMAIN file, file[hdr].kind = "meta", NEW new, new = Len(file) + 1
    PROVE  \E H : Rooted(file, h, Append([file EXCEPT ![hdr] = Meta(new)], NewRoot(key, root, right)),
                         H, root, new, key, right, hdr)
<1>1. /\ Shape(file, h) /\ file \in Files /\ root \in DOMAIN file /\ root \in Nat \ {0}
      /\ IsNonLeaf(file, root) /\ h[root] \in Nat /\ h[root] >= 1
  BY FitsWhereItIs DEF Standing, Fits
<1>2. PICK v \in Nat : v = h[root] + 1
  BY <1>1
<1>3. PICK node : node = NewRoot(key, root, right)
  OBVIOUS
<1>4. node \in NonLeafPages /\ node.level = 0 /\ node.keys = <<key>> /\ node.kids = <<root, right>>
  <2>1. <<key>> \in Seq(Int) /\ <<root, right>> \in Seq(Nat)
    BY <1>1
  <2> QED
    BY <2>1, <1>3 DEF NewRoot, NonLeaf, NonLeafPages
<1>5. Fits(file, h, v, node)
  <2>1. Len(node.keys) = 1 /\ 1 <= NodeOcc /\ Len(node.kids) = 2 /\ 2 = 1 + 1
    BY <1>4, NodeOccAssumption
  <2>2. \A i \in DOMAIN node.kids : node.kids[i] \in {root, right}
    BY <1>4
  <2>3. \A i \in DOMAIN node.kids : IsNode(file, node.kids[i]) /\ h[node.kids[i]] + 1 = v
    BY <2>2, <1>1, <1>2 DEF IsNode
  <2>4. node.keys # <<>> /\ v >= 1 /\ v # 1
    BY <1>1, <1>2, <1>4
  <2> QED
    BY <2>1, <2>3, <2>4, <1>4 DEF Fits
<1>6. PICK F1, H : F1 = Append(file, node) /\ H = Extended(h, new, v)
  OBVIOUS
<1>7. /\ Shape(F1, H) /\ Extends(file, h, F1, H) /\ IsNonLeaf(F1, new)
      /\ DOMAIN F1 = DOMAIN file \cup {new} /\ new \notin DOMAIN file /\ new \in Nat \ {0}
      /\ H[new] = v /\ \A q \in DOMAIN file : F1[q] = file[q]
  BY <1>1, <1>5, <1>6, NonLeafAppended
<1>8. F1[new] = node
  BY <1>1, <1>4, <1>6, Appended DEF Shape
<1>9. PICK F : F = [F1 EXCEPT ![hdr] = Meta(new)]
  OBVIOUS
<1>10. Shape(F, H) /\ Extends(F1, H, F, H)
  BY <1>7, <1>9, MetaReplaced
<1>11. /\ Extends(file, h, F, H) /\ DOMAIN F = DOMAIN file \cup {new}
       /\ F[hdr] = Meta(new) /\ F[new] = node
       /\ \A q \in DOMAIN file : q # hdr => F[q] = file[q]
  BY <1>7, <1>8, <1>9, <1>10 DEF Extends
<1>12. IsNonLeaf(F, new)
  BY <1>7, <1>10, KindsKept
<1>13. \A q \in DOMAIN F : H[q] <= H[new]
  <2>1. TAKE q \in DOMAIN F
  <2>2. CASE q \in DOMAIN file
    <3>1. H[q] = h[q] /\ h[q] <= h[root] /\ h[q] \in Nat
      BY <2>2, <1>7 DEF Standing, Shape, Extends
    <3> QED
      BY <3>1, <1>1, <1>2, <1>7
  <2>3. CASE q = new
    BY <2>3, <1>7
  <2> QED
    BY <2>1, <2>2, <2>3, <1>11
<1>14. F = Append([file EXCEPT ![hdr] = Meta(new)], node)
  <2>1. Meta(new) \in MetaPages
    BY <1>7 DEF Meta, MetaPages
  <2> QED
    BY <2>1, <1>1, <1>4, <1>6, <1>9, AppendCommutes
<1>15. Rooted(file, h, F, H, root, new, key, right, hdr)
  BY <1>2, <1>3, <1>7, <1>10, <1>11, <1>12, <1>13 DEF Rooted, Standing
<1> QED
  BY <1>3, <1>14, <1>15

(***************************************************************************)
(* The whole index: every key is sent to one leaf.                         *)
(***************************************************************************)
Indexed(file, h, R, root) ==
    /\ Standing(file, h, root) /\ NoHoles(file)
    /\ Routed(file, h, R, R) /\ R[root] = Int

\* An index nothing was inserted into.
Fresh(file, root) ==
    /\ file[root].keys = <<>>
    /\ \A q \in DOMAIN file : IsNode(file, q) => q = root

LEMMA FirstLeavesRouted ==
    ASSUME NEW file, NEW h, NEW root, Standing(file, h, root), Fresh(file, root), NEW F, NEW H,
           NEW key \in Int, NEW a, NEW b, Sprouted(file, h, F, H, root, key, a, b)
    PROVE  /\ \E R : Indexed(F, H, R, root) /\ Chained(F, R, {key})
           /\ \A x : ~Stored(F, x)
<1>1. Standing(F, H, root)
  BY SproutedStands
<1>2. PICK node : node = NonLeaf(file[root].level, <<key>>, <<b, a>>)
  OBVIOUS
<1>3. /\ root \in DOMAIN file /\ IsNonLeaf(F, root) /\ Shape(F, H) /\ H[root] >= 1
      /\ F[root] = node /\ node.keys = <<key>> /\ node.kids = <<b, a>>
      /\ F[a] = Leaf(<<>>, 0) /\ F[b] = Leaf(<<>>, a) /\ H[a] = 0 /\ H[b] = 0
      /\ DOMAIN F = DOMAIN file \cup {a, b} /\ a \notin DOMAIN file /\ b \notin DOMAIN file
      /\ a # b /\ a # 0 /\ b # 0
  <2>1. H[root] >= 1
    BY <1>1, FitsWhereItIs DEF Standing, Fits
  <2> QED
    BY <2>1, <1>1, <1>2 DEF Standing, Sprouted, NonLeaf, IsNonLeaf
<1>4. \A q \in DOMAIN F : IsNode(F, q) => q \in {root, a, b}
  <2>1. \A q \in DOMAIN file : F[q].kind = file[q].kind
    BY DEF Sprouted, Extends
  <2> QED
    BY <2>1, <1>3 DEF Fresh, IsNode, IsLeaf, IsNonLeaf
<1>5. /\ IsLeaf(F, a) /\ IsLeaf(F, b) /\ ~IsNonLeaf(F, a) /\ ~IsNonLeaf(F, b) /\ ~IsLeaf(F, root)
      /\ F[a].entries = <<>> /\ F[b].entries = <<>>
  BY <1>3 DEF IsLeaf, IsNonLeaf, Leaf
<1>6. PICK R : R = [q \in DOMAIN F |-> IF q = a THEN {k \in Int : k >= key}
                                       ELSE IF q = b THEN {k \in Int : k < key} ELSE Int]
  OBVIOUS
<1>7. /\ R \in [DOMAIN F -> SUBSET Int] /\ R[root] = Int
      /\ R[a] = {k \in Int : k >= key} /\ R[b] = {k \in Int : k < key}
  BY <1>3, <1>6
<1>8. NodeRouted(R, Int, node)
  <2>1. Increasing(node.keys) /\ \A i \in DOMAIN node.keys : node.keys[i] \in Int
    BY <1>3 DEF Increasing
  <2>2. DOMAIN node.kids = {1, 2} /\ node.kids[1] = b /\ node.kids[2] = a
    BY <1>3
  <2>3. \A k \in Int : (RouteTo(node.keys, k, 1) <=> k < key) /\ (RouteTo(node.keys, k, 2) <=> key <= k)
    BY <1>3 DEF RouteTo
  <2>4. ASSUME NEW i \in DOMAIN node.kids, NEW k \in Int
        PROVE  node.kids[i] # 0 /\ (k \in R[node.kids[i]] <=> k \in Int /\ RouteTo(node.keys, k, i))
    <3>1. CASE i = 1
      BY <3>1, <2>2, <2>3, <2>4, <1>3, <1>7
    <3>2. CASE i = 2
      BY <3>2, <2>2, <2>3, <2>4, <1>3, <1>7
    <3> QED
      BY <3>1, <3>2, <2>2, <2>4
  <2>5. \A i \in DOMAIN node.kids : node.kids[i] # 0
    BY <2>2, <1>3
  <2> QED
    BY <2>1, <2>4, <2>5 DEF NodeRouted
<1>9. ASSUME NEW q \in DOMAIN F PROVE PageRouted(F, R, R[q], q)
  <2>1. CASE q = root
    BY <2>1, <1>3, <1>5, <1>7, <1>8 DEF PageRouted
  <2>2. CASE q = a \/ q = b
    <3>1. \A S : LeafRouted(S, F[q])
      BY <2>2, <1>5 DEF LeafRouted
    <3> QED
      BY <3>1, <2>2, <1>5 DEF PageRouted
  <2>3. CASE ~IsNode(F, q)
    BY <2>3 DEF PageRouted, IsNode
  <2> QED
    BY <2>1, <2>2, <2>3, <1>4, <1>9
<1>10. ASSUME NEW q \in DOMAIN F, IsNode(F, q) PROVE R[q] # {} /\ Apart(F, H, R, q)
  <2>1. R[q] # {}
    <3>1. key \in R[a] /\ key - 1 \in R[b] /\ key \in R[root]
      BY <1>7
    <3> QED
      BY <3>1, <1>4, <1>10
  <2>2. R[a] \cap R[b] = {}
    BY <1>7
  <2>3. H[root] # 0
    BY <1>3
  <2> QED
    BY <2>1, <2>2, <2>3, <1>3, <1>4, <1>10 DEF Apart
<1>11. NoHoles(F)
  <2>1. FullNode(node)
    BY <1>3 DEF FullNode
  <2> QED
    BY <2>1, <1>3, <1>4, <1>5 DEF NoHoles, IsNode
<1>12. \A x : ~Stored(F, x)
  BY <1>4, <1>5 DEF Stored, IsNode
<1>13. Indexed(F, H, R, root)
  BY <1>1, <1>7, <1>9, <1>10, <1>11 DEF Indexed, Routed
<1>14. Chained(F, R, {key})
  <2>1. SUFFICES ASSUME NEW q \in DOMAIN F, IsLeaf(F, q) PROVE LeafChained(F, R, {key}, q)
    BY DEF Chained
  <2>2. F[a].right = 0 /\ F[b].right = a
    BY <1>3 DEF Leaf
  <2>3. Interval(R[a]) /\ Upward(R[a]) /\ Interval(R[b])
    BY <1>7 DEF Interval, Upward
  <2>4. key - 1 \in R[b] /\ (key - 1) + 1 \in R[a] /\ R[a] \cap {key} # {}
    BY <1>7
  <2>5. q = a \/ q = b
    BY <2>1, <1>4, <1>5 DEF IsNode
  <2> QED
    BY <2>2, <2>3, <2>4, <2>5, <1>3 DEF LeafChained
<1> QED
  BY <1>12, <1>13, <1>14

LEMMA NewRootRouted ==
    ASSUME NEW file, NEW h, NEW root, Standing(file, h, root), NoHoles(file),
           NEW R, NEW Q, NEW key, NEW right, SplitBelow(file, h, R, Q, root, key, right),
           Q[root] = Int, NEW hdr \in DOMAIN file, file[hdr].kind = "meta",
           Chained(file, R, {}),
           NEW F, NEW H, NEW new, Rooted(file, h, F, H, root, new, key, right, hdr)
    PROVE  /\ \E R3 : Indexed(F, H, R3, new) /\ Chained(F, R3, {})
           /\ \A x : Stored(F, x) <=> Stored(file, x)
<1>1. PICK node : node = NewRoot(key, root, right)
  OBVIOUS
<1>2. /\ node.keys = <<key>> /\ node.kids = <<root, right>> /\ key \in Int
      /\ R[root] = {k \in Int : k < key} /\ R[right] = {k \in Int : k >= key}
      /\ IsNode(file, root) /\ IsNode(file, right) /\ right # 0
  BY <1>1 DEF NewRoot, NonLeaf, SplitBelow, CutAt
<1>3. root \in DOMAIN file /\ right \in DOMAIN file /\ root # 0
  BY <1>2, FitsWhereItIs DEF IsNode, IsLeaf, IsNonLeaf, Standing
<1>4. /\ Standing(F, H, new) /\ Shape(F, H) /\ DOMAIN F = DOMAIN file \cup {new}
      /\ new \notin DOMAIN file /\ H[new] = h[root] + 1 /\ F[new] = node /\ IsNonLeaf(F, new)
      /\ ~IsLeaf(F, new)
      /\ \A q \in DOMAIN file : F[q].kind = file[q].kind /\ H[q] = h[q]
      /\ \A q \in DOMAIN file : IsNode(F, q) => F[q] = file[q] /\ IsNode(file, q)
  <2>1. \A q \in DOMAIN file : F[q].kind = file[q].kind /\ H[q] = h[q]
    BY DEF Rooted, Extends
  <2>2. \A q \in DOMAIN file : IsNode(F, q) => q # hdr /\ IsNode(file, q)
    BY <2>1 DEF IsNode, IsLeaf, IsNonLeaf
  <2> QED
    BY <2>1, <2>2, <1>1 DEF Rooted, Standing, IsLeaf, IsNonLeaf
<1>5. /\ R \in [DOMAIN file -> SUBSET Int]
      /\ \A q \in DOMAIN file : q # root => Q[q] = R[q]
      /\ \A q \in DOMAIN file : PageRouted(file, Q, R[q], q)
      /\ \A q \in DOMAIN file : IsNode(file, q) => R[q] # {} /\ Apart(file, h, R, q)
  BY DEF SplitBelow, Routed
<1>6. PICK R3 : R3 = [q \in DOMAIN F |-> IF q = new THEN Int ELSE R[q]]
  OBVIOUS
<1>7. R3 \in [DOMAIN F -> SUBSET Int] /\ R3[new] = Int /\ \A q \in DOMAIN file : R3[q] = R[q]
  BY <1>4, <1>5, <1>6
<1>8. NodeRouted(R3, Int, node)
  <2>1. Increasing(node.keys) /\ \A i \in DOMAIN node.keys : node.keys[i] \in Int
    BY <1>2 DEF Increasing
  <2>2. DOMAIN node.kids = {1, 2} /\ node.kids[1] = root /\ node.kids[2] = right
    BY <1>2
  <2>3. \A k \in Int : (RouteTo(node.keys, k, 1) <=> k < key) /\ (RouteTo(node.keys, k, 2) <=> key <= k)
    BY <1>2 DEF RouteTo
  <2>4. ASSUME NEW i \in DOMAIN node.kids, NEW k \in Int
        PROVE  k \in R3[node.kids[i]] <=> k \in Int /\ RouteTo(node.keys, k, i)
    <3>1. CASE i = 1
      BY <3>1, <2>2, <2>3, <2>4, <1>2, <1>3, <1>7
    <3>2. CASE i = 2
      BY <3>2, <2>2, <2>3, <2>4, <1>2, <1>3, <1>7
    <3> QED
      BY <3>1, <3>2, <2>2, <2>4
  <2>5. \A i \in DOMAIN node.kids : node.kids[i] # 0
    BY <2>2, <1>2, <1>3
  <2> QED
    BY <2>1, <2>4, <2>5 DEF NodeRouted
<1>9. ASSUME NEW q \in DOMAIN F PROVE PageRouted(F, R3, R3[q], q)
  <2>1. CASE q = new
    BY <2>1, <1>4, <1>7, <1>8 DEF PageRouted
  <2>2. ASSUME IsLeaf(F, q), q # new PROVE LeafRouted(R3[q], F[q])
    <3>1. q \in DOMAIN file /\ F[q] = file[q] /\ R3[q] = R[q] /\ IsLeaf(file, q)
      BY <2>2, <1>4, <1>7 DEF IsNode, IsLeaf
    <3> QED
      BY <3>1, <1>5 DEF PageRouted
  <2>3. ASSUME IsNonLeaf(F, q), q # new PROVE NodeRouted(R3, R3[q], F[q])
    <3>1. q \in DOMAIN file /\ F[q] = file[q] /\ R3[q] = R[q] /\ IsNonLeaf(file, q)
      BY <2>3, <1>4, <1>7 DEF IsNode, IsNonLeaf
    <3>2. Fits(file, h, h[q], file[q]) /\ h[q] <= h[root] /\ h[root] \in Nat /\ h[q] \in Nat
      BY <3>1, FitsWhereItIs DEF Standing
    <3>3. NodeRouted(Q, R[q], file[q])
      <4>1. 1 \in DOMAIN file[q].kids
        BY <3>2 DEF Fits, NonLeafPages
      <4> QED
        BY <4>1, <3>1, <1>5 DEF PageRouted, NoHoles, FullNode
    <3>4. \A j \in DOMAIN file[q].kids :
                file[q].kids[j] \in DOMAIN file /\ h[file[q].kids[j]] + 1 = h[q]
      BY <3>2, <3>3 DEF Fits, NodeRouted, IsNode, IsLeaf, IsNonLeaf
    <3>5. \A j \in DOMAIN file[q].kids : file[q].kids[j] # root
      BY <3>2, <3>4
    <3>6. \A j \in DOMAIN file[q].kids : R3[file[q].kids[j]] = Q[file[q].kids[j]]
      BY <3>4, <3>5, <1>5, <1>7
    <3> QED
      BY <3>1, <3>3, <3>6, SentToKids
  <2> QED
    BY <2>1, <2>2, <2>3 DEF PageRouted
<1>10. ASSUME NEW q \in DOMAIN F, IsNode(F, q) PROVE R3[q] # {} /\ Apart(F, H, R3, q)
  <2>1. CASE q = new
    <3>1. \A p \in DOMAIN file : H[p] # H[new]
      <4>1. \A p \in DOMAIN file : H[p] = h[p] /\ h[p] <= h[root] /\ h[p] \in Nat
        BY <1>4 DEF Standing, Shape
      <4> QED
        BY <4>1, <1>3, <1>4
    <3>2. Int # {}
      BY <1>2
    <3> QED
      BY <3>1, <3>2, <2>1, <1>4, <1>7 DEF Apart
  <2>2. CASE q \in DOMAIN file
    <3>1. IsNode(file, q) /\ R[q] # {} /\ Apart(file, h, R, q)
      BY <2>2, <1>4, <1>5, <1>10
    <3>2. H[new] # H[q]
      <4>1. H[q] = h[q] /\ h[q] <= h[root] /\ h[q] \in Nat /\ h[root] \in Nat
        BY <2>2, <1>3, <1>4 DEF Standing, Shape
      <4> QED
        BY <4>1, <1>4
    <3> QED
      BY <3>1, <3>2, <2>2, <1>4, <1>7 DEF Apart
  <2> QED
    BY <2>1, <2>2, <1>4, <1>10
<1>11. NoHoles(F)
  <2>1. FullNode(node)
    BY <1>2, <1>3 DEF FullNode
  <2> QED
    BY <2>1, <1>4 DEF NoHoles, IsNode, IsNonLeaf
<1>12. \A x : Stored(F, x) <=> Stored(file, x)
  <2>1. \A q : IsLeaf(F, q) <=> IsLeaf(file, q)
    BY <1>4 DEF IsLeaf, IsNonLeaf
  <2>2. \A q : IsLeaf(F, q) => F[q] = file[q]
    BY <2>1, <1>4 DEF IsNode, IsLeaf
  <2>3. \A q : IsLeaf(F, q) => q \in DOMAIN F /\ q \in DOMAIN file
    BY <2>1 DEF IsLeaf
  <2> QED
    BY <2>1, <2>2, <2>3 DEF Stored
<1>13. Indexed(F, H, R3, new)
  BY <1>4, <1>7, <1>9, <1>10, <1>11 DEF Indexed, Routed
<1>14. Chained(F, R3, {})
  <2>1. ASSUME NEW q, IsLeaf(F, q) \/ IsLeaf(file, q)
        PROVE  IsLeaf(file, q) /\ F[q] = file[q] /\ R3[q] = R[q]
    <3>1. q \in DOMAIN file /\ IsLeaf(F, q) /\ IsLeaf(file, q)
      BY <2>1, <1>4 DEF IsLeaf, IsNonLeaf
    <3> QED
      BY <3>1, <1>4, <1>7 DEF IsNode
  <2>2. Shape(file, h)
    BY DEF Standing
  <2> QED
    BY <2>1, <2>2, ChainKept
<1> QED
  BY <1>12, <1>13, <1>14

-----------------------------------------------------------------------------
(***************************************************************************)
(* The index between calls: the file stands on its root, and the scan on a *)
(* leaf that it keeps pinned.                                              *)
(***************************************************************************)
ScanStands ==
    /\ scan \in [executing : BOOLEAN, page : Nat, next : 1 .. (LeafOcc + 1), range : Ranges]
    /\ scan.executing => IsLeaf(pages, scan.page) /\ pins[scan.page] > 0
    /\ ~scan.executing => scan.page = 0

IndexInv ==
    /\ \E h : Standing(pages, h, rootPageNum)
    /\ headerPageNum \in DOMAIN pages /\ pages[headerPageNum].kind = "meta"
    /\ inserted \subseteq Records
    /\ pins \in [DOMAIN pages -> Nat]
    /\ ScanStands
    /\ quiet \in BOOLEAN /\ ioFailed \in BOOLEAN

\* The file of a new index, behind n pages of an old one.
NewFile(n) == [p \in 1 .. (n + 2) |-> IF p <= n THEN Unused
                                      ELSE IF p = n + 1 THEN EmptyRoot ELSE Meta(n + 1)]

LEMMA NewFileStands ==
    ASSUME NEW n \in Nat
    PROVE  /\ \E h : Standing(NewFile(n), h, n + 1)
           /\ NewFile(n)[n + 2].kind = "meta" /\ DOMAIN NewFile(n) = 1 .. (n + 2)
           /\ Fresh(NewFile(n), n + 1)
           /\ \A x : ~Stored(NewFile(n), x)
<1>1. PICK F : F = NewFile(n)
  OBVIOUS
<1>2. EmptyRoot \in NonLeafPages /\ Meta(n + 1) \in MetaPages
  <2>1. <<>> \in Seq(Int) /\ <<0>> \in Seq(Nat)
    OBVIOUS
  <2> QED
    BY <2>1 DEF EmptyRoot, NonLeaf, Meta, NonLeafPages, MetaPages
<1>3. /\ F \in [1 .. (n + 2) -> LeafPages \cup NonLeafPages \cup MetaPages \cup {Unused}]
      /\ DOMAIN F = 1 .. (n + 2) /\ F[n + 1] = EmptyRoot /\ F[n + 2] = Meta(n + 1)
      /\ \A p \in 1 .. (n + 2) : p # n + 1 /\ p # n + 2 => F[p] = Unused
  BY <1>1, <1>2 DEF NewFile
<1>4. F \in Files
  BY <1>3 DEF Files
<1>5. PICK h : h = [p \in 1 .. (n + 2) |-> IF p = n + 1 THEN 1 ELSE 0]
  OBVIOUS
<1>6. h \in [DOMAIN F -> Nat] /\ h[n + 1] = 1 /\ \A q \in DOMAIN F : h[q] <= h[n + 1]
  BY <1>3, <1>5
<1>7. /\ \A p \in DOMAIN F : ~IsLeaf(F, p)
      /\ \A p \in DOMAIN F : IsNonLeaf(F, p) <=> p = n + 1
      /\ \A p \in DOMAIN F : F[p].kind = "meta" <=> p = n + 2
      /\ n + 1 \in DOMAIN F /\ n + 2 \in DOMAIN F
  BY <1>3, SMTT(20) DEF IsLeaf, IsNonLeaf, EmptyRoot, NonLeaf, Meta, Unused
<1>8. F[n + 1].level = 1 /\ F[n + 1].keys = <<>> /\ F[n + 1].kids = <<0>>
  BY <1>3 DEF EmptyRoot, NonLeaf
<1>9. NonLeafShape(F, h, n + 1)
  <2>1. Len(<<>>) = 0 /\ Len(<<0>>) = 0 + 1 /\ 0 <= NodeOcc
    BY NodeOccAssumption
  <2>2. \A i \in DOMAIN <<0>> : <<0>>[i] = 0
    OBVIOUS
  <2> QED
    BY <2>1, <2>2, <1>6, <1>8 DEF NonLeafShape
<1>10. \A p \in DOMAIN F : PageShape(F, h, p)
  <2>1. F[n + 2].rootPageNo = n + 1
    BY <1>3 DEF Meta
  <2> QED
    BY <2>1, <1>7, <1>9 DEF PageShape
<1>11. Standing(F, h, n + 1)
  BY <1>4, <1>6, <1>7, <1>10 DEF Standing, Shape
<1>12. Fresh(F, n + 1) /\ \A x : ~Stored(F, x)
  BY <1>7, <1>8 DEF Fresh, Stored, IsNode
<1> QED
  BY <1>1, <1>3, <1>7, <1>11, <1>12

LEMMA FirstFile == ASSUME Init PROVE pages = NewFile(0)
<1>1. PICK a, b, c : a = EmptyRoot /\ b = Meta(1) /\ c = Unused
  OBVIOUS
<1>2. pages = <<a, b>>
  BY <1>1 DEF Init
<1>3. NewFile(0) = [p \in 1 .. 2 |-> IF p = 1 THEN a ELSE b]
  BY <1>1 DEF NewFile
<1>4. <<a, b>> = [p \in 1 .. 2 |-> IF p = 1 THEN a ELSE b]
  OBVIOUS
<1> QED
  BY <1>2, <1>3, <1>4

LEMMA ReopenedFile ==
    ASSUME NEW n \in Nat
    PROVE  [p \in 1 .. n |-> Unused] \o <<EmptyRoot, Meta(n + 1)>> = NewFile(n)
<1>1. PICK a, b, c : a = EmptyRoot /\ b = Meta(n + 1) /\ c = Unused
  OBVIOUS
<1>2. PICK s, S : s = [p \in 1 .. n |-> c] /\ S = {a, b, c}
  OBVIOUS
<1>3. s \in Seq(S) /\ Len(s) = n /\ \A p \in 1 .. n : s[p] = c
  <2>1. s \in [1 .. n -> S] /\ DOMAIN s = 1 .. n
    BY <1>2
  <2> QED
    BY <2>1, <1>2
<1>4. a \in S /\ b \in S
  BY <1>2
<1>5. PICK u : u = Append(s, a)
  OBVIOUS
<1>6. PICK w : w = s \o <<a, b>>
  OBVIOUS
<1>7. /\ w \in Seq(S) /\ Len(w) = n + 2
      /\ \A p \in 1 .. n : w[p] = s[p]
      /\ w[n + 1] = a /\ w[n + 2] = b
  <2>1. u \in Seq(S) /\ Len(u) = n + 1 /\ u[n + 1] = a /\ \A p \in 1 .. n : u[p] = s[p]
    BY <1>3, <1>4, <1>5
  <2>2. w = Append(u, b)
    BY <1>3, <1>4, <1>5, <1>6
  <2> QED
    BY <2>1, <2>2, <1>4
<1>8. w \in [1 .. (n + 2) -> S]
  BY <1>7
<1>9. \A p \in 1 .. (n + 2) : w[p] = IF p <= n THEN c ELSE IF p = n + 1 THEN a ELSE b
  BY <1>3, <1>7
<1>10. w = [p \in 1 .. (n + 2) |-> IF p <= n THEN c ELSE IF p = n + 1 THEN a ELSE b]
  BY <1>8, <1>9
<1> QED
  BY <1>1, <1>2, <1>6, <1>10 DEF NewFile

LEMMA StartStands ==
    ASSUME NEW file, NEW h, NEW root, Standing(file, h, root), NEW key \in Int
    PROVE  \E H : /\ Standing(WithFirstLeaves(file, root, key), H, root)
                  /\ Extends(file, h, WithFirstLeaves(file, root, key), H)
<1>1. CASE file[root].keys = <<>>
  <2>1. PICK H, a, b : Sprouted(file, h, WithFirstLeaves(file, root, key), H, root, key, a, b)
    BY <1>1, FirstLeaves DEF Standing
  <2> QED
    BY <2>1, SproutedStands DEF Sprouted
<1>2. CASE file[root].keys # <<>>
  <2>1. WithFirstLeaves(file, root, key) = file
    BY <1>2 DEF WithFirstLeaves
  <2> QED
    BY <2>1 DEF Extends
<1> QED
  BY <1>1, <1>2

LEMMA PinsCounted ==
    ASSUME NEW file \in Files, pins \in [DOMAIN pages -> Nat], DOMAIN pages \subseteq DOMAIN file, NEW S
    PROVE  /\ PinsWith(file, S) \in [DOMAIN file -> Nat]
           /\ \A p \in DOMAIN pages : PinsWith(file, S)[p] >= pins[p]
<1>1. DOMAIN file = 1 .. Len(file) /\ DOMAIN pins = DOMAIN pages
  BY DEF Files
<1>2. \A p \in DOMAIN pages : pins[p] \in Nat
  OBVIOUS
<1> QED
  BY <1>1, <1>2 DEF PinsWith

\* Whatever the scan stood on is still a pinned leaf.
LEMMA ScanKept ==
    ASSUME ScanStands, UNCHANGED scan, NEW h, NEW H, Extends(pages, h, pages', H),
           pins \in [DOMAIN pages -> Nat], pins' \in [DOMAIN pages' -> Nat],
           \A p \in DOMAIN pages : pins'[p] >= pins[p]
    PROVE  ScanStands'
<1>1. scan.executing => IsLeaf(pages', scan.page) /\ pins'[scan.page] > 0
  <2>1. SUFFICES ASSUME scan.executing PROVE IsLeaf(pages', scan.page) /\ pins'[scan.page] > 0
    OBVIOUS
  <2>2. IsLeaf(pages, scan.page) /\ pins[scan.page] > 0 /\ scan.page \in DOMAIN pages
    BY <2>1 DEF ScanStands, IsLeaf
  <2>3. scan.page \in DOMAIN pages'
    BY <2>2 DEF Extends
  <2> QED
    BY <2>2, <2>3, KindsKept
<1> QED
  BY <1>1 DEF ScanStands

LEMMA InsertEntryKeeps ==
    ASSUME IndexInv, NEW e \in Records, InsertEntry(e)
    PROVE  IndexInv'
<1>1. PICK g \in Garbage :
        LET start == WithFirstLeaves(pages, rootPageNum, e[1])
            r == InsertRecursive(start, rootPageNum, e, g)
            new == Len(r.file) + 1
            grown == Append([r.file EXCEPT ![headerPageNum] = Meta(new)],
                            NewRoot(r.key, rootPageNum, r.right))
        IN  /\ 0 \notin Range(PathFrom(start, rootPageNum, e[1]))
            /\ IF r.split
               THEN /\ pages' = grown
                    /\ rootPageNum' = new
                    /\ pins' = PinsWith(grown, {rootPageNum, new, headerPageNum})
               ELSE /\ pages' = r.file
                    /\ pins' = PinsWith(r.file, {rootPageNum})
                    /\ UNCHANGED rootPageNum
  BY DEF InsertEntry
<1>2. PICK start, root : start = WithFirstLeaves(pages, rootPageNum, e[1]) /\ root = rootPageNum
  OBVIOUS
<1>3. PICK r : r = InsertRecursive(start, root, e, g)
  OBVIOUS
<1>4. /\ 0 \notin Range(PathFrom(start, root, e[1]))
      /\ IF r.split
         THEN /\ pages' = Append([r.file EXCEPT ![headerPageNum] = Meta(Len(r.file) + 1)],
                                 NewRoot(r.key, root, r.right))
              /\ rootPageNum' = Len(r.file) + 1
              /\ pins' = PinsWith(pages', {rootPageNum, Len(r.file) + 1, headerPageNum})
         ELSE /\ pages' = r.file
              /\ pins' = PinsWith(pages', {rootPageNum})
              /\ rootPageNum' = root
  BY <1>1, <1>2, <1>3
<1>5. e[1] \in Int
  BY RecordsAssumption
<1>6. PICK h : Standing(pages, h, root)
  BY <1>2 DEF IndexInv
<1>7. PICK H : Standing(start, H, root) /\ Extends(pages, h, start, H)
  BY <1>2, <1>5, <1>6, StartStands
<1>8. PICK G : Raised(start, H, r, G, root)
  BY <1>3, <1>4, <1>7, InsertRaises DEF Standing
<1>9. Standing(r.file, G, root) /\ Extends(start, H, r.file, G) /\ G[root] = H[root]
  BY <1>7, <1>8, RaisedStands DEF Raised, Extends, Standing, IsNonLeaf
<1>10. Extends(pages, h, r.file, G)
  BY <1>7, <1>9 DEF Extends
<1>11. headerPageNum \in DOMAIN r.file /\ r.file[headerPageNum].kind = "meta"
  BY <1>10 DEF IndexInv, Extends
<1>12. \E J : Standing(pages', J, rootPageNum') /\ Extends(pages, h, pages', J)
  <2>1. CASE ~r.split
    BY <2>1, <1>4, <1>9, <1>10
  <2>2. CASE r.split
    <3>1. PICK key, right, hdr, new :
            key = r.key /\ right = r.right /\ hdr = headerPageNum /\ new = Len(r.file) + 1
      OBVIOUS
    <3>2. /\ key \in Int /\ right \in Nat \ {0} /\ IsNode(r.file, right) /\ G[right] = G[root]
          /\ hdr \in DOMAIN r.file /\ r.file[hdr].kind = "meta"
      BY <2>2, <3>1, <1>8, <1>9, <1>11 DEF Raised
    <3>3. PICK F : F = r.file
      OBVIOUS
    <3>4. PICK J : Rooted(F, G, Append([F EXCEPT ![hdr] = Meta(new)], NewRoot(key, root, right)),
                          J, root, new, key, right, hdr)
      BY <3>1, <3>2, <3>3, <1>9, NewRootStands
    <3>5. Rooted(r.file, G, pages', J, root, rootPageNum', key, right, hdr)
      BY <3>1, <3>3, <3>4, <2>2, <1>4
    <3>6. Standing(pages', J, rootPageNum') /\ Extends(r.file, G, pages', J)
      BY <3>5 DEF Rooted
    <3> QED
      BY <3>6, <1>10 DEF Extends
  <2> QED
    BY <2>1, <2>2
<1>13. PICK J : Standing(pages', J, rootPageNum') /\ Extends(pages, h, pages', J)
  BY <1>12
<1>14. pages' \in Files /\ DOMAIN pages \subseteq DOMAIN pages' /\ pins \in [DOMAIN pages -> Nat]
  BY <1>13 DEF Standing, Shape, Extends, IndexInv
<1>15. pins' \in [DOMAIN pages' -> Nat] /\ \A p \in DOMAIN pages : pins'[p] >= pins[p]
  <2>1. PICK S : pins' = PinsWith(pages', S)
    BY <1>4
  <2> QED
    BY <2>1, <1>14, PinsCounted
<1>16. /\ UNCHANGED <<headerPageNum, scan, ioFailed>> /\ quiet' = FALSE
       /\ inserted' = inserted \cup {e}
  BY DEF InsertEntry
<1>17. ScanStands'
  BY <1>13, <1>14, <1>15, <1>16, ScanKept DEF IndexInv
<1>18. headerPageNum' \in DOMAIN pages' /\ pages'[headerPageNum'].kind = "meta"
  BY <1>13, <1>16 DEF IndexInv, Extends
<1> QED
  BY <1>13, <1>15, <1>16, <1>17, <1>18 DEF IndexInv

LEMMA LeafOfPath ==
    ASSUME NEW h, Standing(pages, h, rootPageNum), NEW key \in Int, LeafFor(key) # 0
    PROVE  IsLeaf(pages, LeafFor(key))
<1>1. PICK path : path = PathFrom(pages, rootPageNum, key)
  OBVIOUS
<1>2. IsPath(pages, h, path, rootPageNum, key)
  BY <1>1, PathFound DEF Standing
<1>3. LeafFor(key) = path[Len(path)]
  BY <1>1, <1>2 DEF LeafFor, Last
<1> QED
  BY <1>2, <1>3 DEF IsPath

LEMMA LeafIsTyped ==
    ASSUME NEW file, NEW h, Shape(file, h), NEW p, IsLeaf(file, p)
    PROVE  /\ p \in DOMAIN file /\ p \in Nat \ {0} /\ file[p] \in LeafPages
           /\ file[p].entries \in Seq(Records) /\ Len(file[p].entries) <= LeafOcc
           /\ Len(file[p].entries) \in Nat /\ file[p].right \in Nat
           /\ file[p].right # 0 => IsLeaf(file, file[p].right)
<1>1. p \in DOMAIN file /\ file[p] \in LeafPages /\ p \in Nat \ {0} /\ LeafShape(file, h, p)
  BY PageTypes DEF Shape, PageShape, IsLeaf
<1> QED
  BY <1>1 DEF LeafShape, LeafPages

LEMMA StartScanKeeps ==
    ASSUME IndexInv, NEW r \in Ranges, StartScan(r)
    PROVE  IndexInv'
<1>1. PICK leaf, right, above :
        /\ leaf = LeafFor(r.low) /\ right = pages[leaf].right
        /\ above = {i \in DOMAIN pages[leaf].entries : Above(pages[leaf].entries[i][1], r)}
  OBVIOUS
<1>2. /\ leaf # 0
      /\ \/ /\ above # {}
            /\ scan' = [executing |-> TRUE, page |-> leaf, next |-> Least(above), range |-> r]
            /\ pins' = [pins EXCEPT ![leaf] = @ + 1]
         \/ /\ scan' = [NoScan EXCEPT !.range = r]
            /\ pins' = [pins EXCEPT ![leaf] = @ + 1]
         \/ /\ right # 0
            /\ scan' = [executing |-> TRUE, page |-> right, next |-> 1, range |-> r]
            /\ pins' = [pins EXCEPT ![right] = @ + 1]
  BY <1>1 DEF StartScan
<1>3. quiet' = TRUE /\ UNCHANGED <<pages, rootPageNum, headerPageNum, inserted, ioFailed>>
  BY DEF StartScan
<1>4. r.low \in Int
  BY RangesAssumption
<1>5. PICK h : Standing(pages, h, rootPageNum) /\ Shape(pages, h)
  BY DEF IndexInv, Standing
<1>6. IsLeaf(pages, leaf)
  BY <1>1, <1>2, <1>4, <1>5, LeafOfPath
<1>7. /\ leaf \in DOMAIN pages /\ leaf \in Nat
      /\ pages[leaf].entries \in Seq(Records) /\ Len(pages[leaf].entries) <= LeafOcc
      /\ right # 0 => IsLeaf(pages, right) /\ right \in DOMAIN pages /\ right \in Nat
  BY <1>1, <1>5, <1>6, LeafIsTyped DEF IsLeaf
<1>8. pins \in [DOMAIN pages -> Nat]
  BY DEF IndexInv
<1>9. above # {} => Least(above) \in 1 .. (LeafOcc + 1)
  <2>1. SUFFICES ASSUME above # {} PROVE Least(above) \in 1 .. (LeafOcc + 1)
    OBVIOUS
  <2>2. above \subseteq 1 .. Len(pages[leaf].entries)
    BY <1>1, <1>7
  <2>3. Least(above) \in above
    <3>1. above \in SUBSET Nat
      BY <2>2
    <3> QED
      BY <2>1, <3>1, LeastIsFirst
  <2>4. PICK i, n : i = Least(above) /\ n = Len(pages[leaf].entries)
    OBVIOUS
  <2>5. n \in Nat /\ n <= LeafOcc
    BY <2>4, <1>7
  <2>6. i \in 1 .. n
    BY <2>2, <2>3, <2>4
  <2>7. i \in 1 .. (LeafOcc + 1)
    BY <2>5, <2>6, LeafOccAssumption
  <2> QED
    BY <2>4, <2>7
<1>10. pins' \in [DOMAIN pages' -> Nat] /\ ScanStands'
  <2>1. ASSUME NEW p, IsLeaf(pages, p), p \in DOMAIN pages, p \in Nat, NEW i \in 1 .. (LeafOcc + 1),
               scan' = [executing |-> TRUE, page |-> p, next |-> i, range |-> r],
               pins' = [pins EXCEPT ![p] = @ + 1]
        PROVE  pins' \in [DOMAIN pages' -> Nat] /\ ScanStands'
    <3>1. pins' \in [DOMAIN pages' -> Nat] /\ pins'[p] > 0
      BY <2>1, <1>3, <1>8
    <3>2. IsLeaf(pages', p)
      BY <2>1, <1>3
    <3> QED
      BY <2>1, <3>1, <3>2 DEF ScanStands
  <2>2. CASE scan' = [NoScan EXCEPT !.range = r] /\ pins' = [pins EXCEPT ![leaf] = @ + 1]
    <3>1. scan' = [executing |-> FALSE, page |-> 0, next |-> 1, range |-> r]
      BY <2>2 DEF NoScan
    <3>2. pins' \in [DOMAIN pages' -> Nat]
      BY <2>2, <1>3, <1>7, <1>8
    <3>3. 1 \in 1 .. (LeafOcc + 1)
      BY LeafOccAssumption
    <3> QED
      BY <3>1, <3>2, <3>3 DEF ScanStands
  <2>3. 1 \in 1 .. (LeafOcc + 1)
    BY LeafOccAssumption
  <2> QED
    BY <2>1, <2>2, <2>3, <1>2, <1>6, <1>7, <1>9
<1> QED
  BY <1>3, <1>5, <1>10 DEF IndexInv

LEMMA NoScanStands ==
    /\ NoScan = [executing |-> FALSE, page |-> 0, next |-> 1, range |-> NoScan.range]
    /\ NoScan.range \in Ranges
    /\ 1 \in 1 .. (LeafOcc + 1)
<1>1. (CHOOSE r \in Ranges : TRUE) \in Ranges
  BY RangesAssumption
<1> QED
  BY <1>1, LeafOccAssumption DEF NoScan

LEMMA ScanNextKeeps ==
    ASSUME IndexInv, scan.executing, ScanNextEntry \/ ScanNextPastEnd
    PROVE  IndexInv'
<1>1. PICK h : Standing(pages, h, rootPageNum) /\ Shape(pages, h)
  BY DEF IndexInv, Standing
<1>2. /\ IsLeaf(pages, scan.page) /\ pins[scan.page] > 0
      /\ scan \in [executing : BOOLEAN, page : Nat, next : 1 .. (LeafOcc + 1), range : Ranges]
      /\ pins \in [DOMAIN pages -> Nat] /\ DOMAIN pins = DOMAIN pages
  BY DEF IndexInv, ScanStands
<1>3. PICK p, n, right :
        p = scan.page /\ n = Len(pages[scan.page].entries) /\ right = pages[scan.page].right
  OBVIOUS
<1>4. /\ IsLeaf(pages, p) /\ p \in DOMAIN pages /\ p \in Nat /\ n \in Nat /\ n <= LeafOcc
      /\ right # 0 => IsLeaf(pages, right) /\ right \in DOMAIN pages /\ right \in Nat
  BY <1>1, <1>2, <1>3, LeafIsTyped DEF IsLeaf
<1>5. PICK i : i = scan.next
  OBVIOUS
<1>6. /\ UNCHANGED <<pages, rootPageNum, headerPageNum, inserted, quiet, ioFailed>>
      /\ \/ UNCHANGED <<scan, pins>>
         \/ i <= LeafOcc /\ scan' = [scan EXCEPT !.next = @ + 1] /\ UNCHANGED pins
         \/ /\ right # 0
            /\ scan' = [scan EXCEPT !.page = right, !.next = 1]
            /\ pins' = MovedPins(p, right)
  <2>1. CASE ScanNextEntry
    <3>1. scan.next <= n
      BY <2>1, <1>3 DEF ScanNextEntry
    <3>2. i <= LeafOcc
      BY <3>1, <1>2, <1>4, <1>5, LeafOccAssumption
    <3> QED
      BY <3>2, <2>1, <1>3, <1>5 DEF ScanNextEntry, Returns, Throws
  <2>2. CASE ScanNextPastEnd
    BY <2>2, <1>5 DEF ScanNextPastEnd, Returns, Throws
  <2> QED
    BY <2>1, <2>2
<1>7. pins' \in [DOMAIN pages' -> Nat] /\ ScanStands'
  <2>1. CASE UNCHANGED <<scan, pins>>
    BY <2>1, <1>6 DEF IndexInv, ScanStands, IsLeaf
  <2>2. CASE i <= LeafOcc /\ scan' = [scan EXCEPT !.next = @ + 1] /\ UNCHANGED pins
    <3>1. scan.next + 1 \in 1 .. (LeafOcc + 1)
      BY <2>2, <1>2, <1>5, LeafOccAssumption
    <3>2. scan' \in [executing : BOOLEAN, page : Nat, next : 1 .. (LeafOcc + 1), range : Ranges]
          /\ scan'.page = scan.page /\ scan'.executing = scan.executing
      BY <3>1, <2>2, <1>2
    <3> QED
      BY <3>2, <2>2, <1>2, <1>6 DEF ScanStands, IsLeaf
  <2>3. CASE /\ right # 0
             /\ scan' = [scan EXCEPT !.page = right, !.next = 1]
             /\ pins' = MovedPins(p, right)
    <3>1. scan' \in [executing : BOOLEAN, page : Nat, next : 1 .. (LeafOcc + 1), range : Ranges]
          /\ scan'.page = right /\ scan'.executing = scan.executing
      BY <2>3, <1>2, <1>4, NoScanStands
    <3>2. PICK up : up = [pins EXCEPT ![right] = @ + 1]
      OBVIOUS
    <3>3. up \in [DOMAIN pages -> Nat] /\ up[p] > 0 /\ up[right] > 0 /\ (right = p => up[p] > 1)
      BY <3>2, <2>3, <1>2, <1>3, <1>4
    <3>4. pins' = [up EXCEPT ![p] = @ - 1]
      BY <3>2, <2>3, <1>2, <1>4 DEF MovedPins
    <3>5. up[p] - 1 \in Nat
      BY <3>3, <1>4
    <3>6. pins' \in [DOMAIN pages -> Nat] /\ pins'[right] > 0
      BY <3>3, <3>4, <3>5, <2>3, <1>4
    <3>7. IsLeaf(pages', right)
      BY <2>3, <1>4, <1>6
    <3> QED
      BY <3>1, <3>6, <3>7, <1>6, scan.executing DEF ScanStands
  <2> QED
    BY <2>1, <2>2, <2>3, <1>6
<1> QED
  BY <1>6, <1>7 DEF IndexInv

LEMMA ThrowsKeeps ==
    ASSUME IndexInv, NEW what, Throws(what)
    PROVE  IndexInv'
BY DEF Throws, IndexInv, ScanStands, IsLeaf

LEMMA EndScanKeeps ==
    ASSUME IndexInv, EndScan
    PROVE  IndexInv'
<1>1. CASE ~scan.executing /\ Throws("Rejected")
  BY <1>1, ThrowsKeeps
<1>2. CASE /\ scan.executing
           /\ scan' = NoScan
           /\ pins' = [pins EXCEPT ![scan.page] = @ - 1]
           /\ quiet' = FALSE
           /\ UNCHANGED <<pages, rootPageNum, headerPageNum, inserted, ioFailed>>
  <2>1. scan.page \in DOMAIN pages /\ pins[scan.page] > 0 /\ pins \in [DOMAIN pages -> Nat]
    BY <1>2 DEF IndexInv, ScanStands, IsLeaf
  <2>2. pins[scan.page] - 1 \in Nat
    BY <2>1
  <2>3. pins' \in [DOMAIN pages' -> Nat]
    BY <2>1, <2>2, <1>2
  <2>4. ScanStands'
    <3>1. PICK r \in Ranges : scan' = [executing |-> FALSE, page |-> 0, next |-> 1, range |-> r]
      BY <1>2, NoScanStands
    <3> QED
      BY <3>1, NoScanStands DEF ScanStands
  <2> QED
    BY <2>3, <2>4, <1>2 DEF IndexInv
<1> QED
  BY <1>1, <1>2 DEF EndScan

LEMMA StartScanEmptyKeeps ==
    ASSUME IndexInv, NEW r \in Ranges, StartScanEmpty(r)
    PROVE  IndexInv'
<1>1. scan' = [executing |-> FALSE, page |-> 0, next |-> 1, range |-> r]
  BY DEF StartScanEmpty, NoScan
<1>2. ScanStands'
  BY <1>1, NoScanStands DEF ScanStands
<1> QED
  BY <1>2 DEF StartScanEmpty, IndexInv

LEMMA ReopenKeeps ==
    ASSUME IndexInv, Reopen
    PROVE  IndexInv'
<1>1. PICK n : n = Len(pages)
  OBVIOUS
<1>2. n \in Nat
  BY <1>1 DEF IndexInv, Standing, Shape, Files
<1>3. /\ pages' = NewFile(n) /\ rootPageNum' = n + 1 /\ headerPageNum' = n + 2
      /\ pins' = [p \in 1 .. (n + 2) |-> 0]
  BY <1>1, <1>2, ReopenedFile DEF Reopen
<1>4. /\ \E h : Standing(pages', h, rootPageNum')
      /\ headerPageNum' \in DOMAIN pages' /\ pages'[headerPageNum'].kind = "meta"
      /\ pins' \in [DOMAIN pages' -> Nat]
  <2>1. /\ \E h : Standing(NewFile(n), h, n + 1)
        /\ NewFile(n)[n + 2].kind = "meta" /\ DOMAIN NewFile(n) = 1 .. (n + 2)
    BY <1>2, NewFileStands
  <2>2. n + 2 \in 1 .. (n + 2)
    BY <1>2
  <2> QED
    BY <2>1, <2>2, <1>3
<1>5. ScanStands'
  <2>1. PICK r \in Ranges : scan' = [executing |-> FALSE, page |-> 0, next |-> 1, range |-> r]
    BY NoScanStands DEF Reopen
  <2> QED
    BY <2>1, NoScanStands DEF ScanStands
<1> QED
  BY <1>4, <1>5 DEF IndexInv, Reopen

LEMMA InitIndexInv == Init => IndexInv
<1>1. SUFFICES ASSUME Init PROVE IndexInv
  OBVIOUS
<1>2. pages = NewFile(0)
  BY <1>1, FirstFile
<1>3. /\ \E h : Standing(pages, h, rootPageNum)
      /\ headerPageNum \in DOMAIN pages /\ pages[headerPageNum].kind = "meta"
      /\ DOMAIN pages = 1 .. 2
  <2>1. PICK n \in Nat : n = 0
    OBVIOUS
  <2>2. /\ \E h : Standing(NewFile(n), h, n + 1)
        /\ NewFile(n)[n + 2].kind = "meta" /\ DOMAIN NewFile(n) = 1 .. (n + 2)
    BY NewFileStands
  <2>3. pages = NewFile(n) /\ rootPageNum = n + 1 /\ headerPageNum = n + 2 /\ n + 2 = 2
    BY <2>1, <1>1, <1>2 DEF Init
  <2>4. n + 2 \in 1 .. (n + 2)
    OBVIOUS
  <2> QED
    BY <2>2, <2>3, <2>4
<1>4. pins \in [DOMAIN pages -> Nat]
  <2>1. pins = <<0, 0>>
    BY <1>1 DEF Init
  <2>2. <<0, 0>> \in [1 .. 2 -> Nat]
    OBVIOUS
  <2> QED
    BY <2>1, <2>2, <1>3
<1>5. ScanStands
  <2>1. PICK r \in Ranges : scan = [executing |-> FALSE, page |-> 0, next |-> 1, range |-> r]
    BY <1>1, NoScanStands DEF Init
  <2> QED
    BY <2>1, NoScanStands DEF ScanStands
<1> QED
  BY <1>1, <1>3, <1>4, <1>5 DEF IndexInv, Init

LEMMA NextIndexInv == IndexInv /\ [Next]_vars => IndexInv'
<1>1. SUFFICES ASSUME IndexInv, [Next]_vars PROVE IndexInv'
  OBVIOUS
<1>2. CASE UNCHANGED vars
  BY <1>1, <1>2 DEF vars, IndexInv, ScanStands, IsLeaf
<1>3. ASSUME NEW e \in Records \ inserted, InsertEntry(e) PROVE IndexInv'
  BY <1>1, <1>3, InsertEntryKeeps
<1>4. CASE StartScanRejected
  BY <1>1, <1>4, ThrowsKeeps DEF StartScanRejected
<1>5. ASSUME NEW r \in Ranges, StartScanEmpty(r) \/ StartScan(r) PROVE IndexInv'
  BY <1>1, <1>5, StartScanEmptyKeeps, StartScanKeeps
<1>6. CASE ScanNext
  BY <1>1, <1>6, ThrowsKeeps, ScanNextKeeps DEF ScanNext
<1>7. CASE EndScan
  BY <1>1, <1>7, EndScanKeeps
<1>8. CASE Reopen
  BY <1>1, <1>8, ReopenKeeps
<1> QED
  BY <1>1, <1>2, <1>3, <1>4, <1>5, <1>6, <1>7, <1>8 DEF Next

LEMMA IndexStands == Spec => []IndexInv
BY InitIndexInv, NextIndexInv, PTL DEF Spec

\* The variables keep their types, and no insertion or split, however high it
\* goes, puts more keys into a node than its page has room for.
THEOREM IndexTyped == Spec => []TypeOK
<1>1. IndexInv => TypeOK
  <2>1. SUFFICES ASSUME IndexInv PROVE TypeOK
    OBVIOUS
  <2>2. PICK h : Standing(pages, h, rootPageNum) /\ Shape(pages, h) /\ pages \in Files
    BY <2>1 DEF IndexInv, Standing, Shape
  <2>3. PageIds = DOMAIN pages
    BY <2>2 DEF PageIds, Files
  <2>4. ASSUME NEW p \in PageIds
        PROVE  \/ /\ pages[p].kind = "leaf"
                  /\ Len(pages[p].entries) <= LeafOcc
                  /\ pages[p].right \in {0} \cup PageIds
               \/ /\ pages[p].kind = "nonleaf"
                  /\ pages[p].level \in {0, 1}
                  /\ Len(pages[p].keys) <= NodeOcc
                  /\ Len(pages[p].kids) = Len(pages[p].keys) + 1
               \/ pages[p].kind = "meta" /\ pages[p].rootPageNo \in PageIds
               \/ pages[p] = Unused
    <3>1. CASE pages[p].kind = "leaf"
      BY <3>1, <2>2, <2>3, <2>4, LeafIsTyped DEF IsLeaf
    <3>2. CASE pages[p].kind = "nonleaf"
      BY <3>2, <2>2, <2>3, <2>4, FitsWhereItIs DEF IsNonLeaf, Fits, NonLeafPages
    <3>3. CASE pages[p].kind = "meta"
      BY <3>3, <2>2, <2>3, <2>4 DEF Shape, PageShape
    <3>4. pages[p] \in LeafPages \cup NonLeafPages \cup MetaPages \cup {Unused}
      BY <2>2, <2>3, <2>4 DEF Files
    <3> QED
      BY <3>1, <3>2, <3>3, <3>4 DEF LeafPages, NonLeafPages, MetaPages
  <2>5. rootPageNum \in PageIds
    BY <2>2, <2>3 DEF Standing, IsNonLeaf
  <2>6. scan.page \in {0} \cup PageIds
    BY <2>1, <2>3 DEF IndexInv, ScanStands, IsLeaf
  <2> QED
    BY <2>1, <2>3, <2>4, <2>5, <2>6 DEF IndexInv, ScanStands, TypeOK
<1> QED
  BY <1>1, IndexStands, PTL

\* The leaf a scan stands on stays pinned and stays a leaf, through insertions
\* that split it, scans that replace the scan and moves to a sibling.
THEOREM ScanKeepsItsPin == Spec => []ScanPagePinned
<1>1. IndexInv => ScanPagePinned
  BY DEF IndexInv, ScanStands, ScanPagePinned
<1> QED
  BY <1>1, IndexStands, PTL

-----------------------------------------------------------------------------
(***************************************************************************)
(* Where arrays have one size and no two records the same key: nothing was *)
(* inserted yet, or the leaves hold what was and every key has its leaf.   *)
(***************************************************************************)
RoutedInv ==
    \/ /\ inserted = {}
       /\ \E h : Standing(pages, h, rootPageNum)
       /\ Fresh(pages, rootPageNum)
    \/ /\ \E h, R : Indexed(pages, h, R, rootPageNum) /\ Chained(pages, R, {})
       /\ \A x : x \in inserted <=> Stored(pages, x)

LEMMA StartIndexed ==
    ASSUME RoutedInv, NEW key \in Int, NEW hdr \in DOMAIN pages
    PROVE  LET start == WithFirstLeaves(pages, rootPageNum, key)
           IN  /\ \E H, R : Indexed(start, H, R, rootPageNum) /\ Chained(start, R, {key})
               /\ \A x : x \in inserted <=> Stored(start, x)
               /\ hdr \in DOMAIN start /\ start[hdr].kind = pages[hdr].kind
<1>1. PICK start, root : start = WithFirstLeaves(pages, rootPageNum, key) /\ root = rootPageNum
  OBVIOUS
<1>2. CASE inserted = {} /\ (\E h : Standing(pages, h, rootPageNum)) /\ Fresh(pages, rootPageNum)
  <2>1. PICK h : Standing(pages, h, root) /\ Fresh(pages, root)
    BY <1>1, <1>2
  <2>2. PICK H, a, b : Sprouted(pages, h, start, H, root, key, a, b)
    BY <1>1, <2>1, FirstLeaves DEF Standing, Fresh
  <2>3. /\ \E R : Indexed(start, H, R, root) /\ Chained(start, R, {key})
        /\ \A x : ~Stored(start, x)
    BY <2>1, <2>2, FirstLeavesRouted
  <2>4. hdr \in DOMAIN start /\ start[hdr].kind = pages[hdr].kind
    BY <2>2 DEF Sprouted, Extends
  <2> QED
    BY <2>3, <2>4, <1>1, <1>2
<1>3. CASE /\ \E h, R : Indexed(pages, h, R, rootPageNum) /\ Chained(pages, R, {})
           /\ \A x : x \in inserted <=> Stored(pages, x)
  <2>1. pages[rootPageNum].keys # <<>>
    BY <1>3 DEF Indexed, Standing, NoHoles, FullNode, IsNonLeaf
  <2>2. start = pages
    BY <2>1, <1>1 DEF WithFirstLeaves
  <2>3. \A R : Chained(pages, R, {}) => Chained(pages, R, {key})
    BY DEF Chained, LeafChained
  <2> QED
    BY <2>2, <2>3, <1>1, <1>3
<1> QED
  BY <1>2, <1>3 DEF RoutedInv

LEMMA InsertEntryRoutes ==
    ASSUME OneSize, KeysDiffer, IndexInv, RoutedInv, NEW e \in Records \ inserted, InsertEntry(e)
    PROVE  RoutedInv'
<1>1. PICK g \in Garbage :
        LET start == WithFirstLeaves(pages, rootPageNum, e[1])
            r == InsertRecursive(start, rootPageNum, e, g)
            new == Len(r.file) + 1
            grown == Append([r.file EXCEPT ![headerPageNum] = Meta(new)],
                            NewRoot(r.key, rootPageNum, r.right))
        IN  /\ 0 \notin Range(PathFrom(start, rootPageNum, e[1]))
            /\ IF r.split
               THEN pages' = grown /\ rootPageNum' = new
               ELSE pages' = r.file /\ UNCHANGED rootPageNum
  BY DEF InsertEntry
<1>2. PICK start, root, hdr : /\ start = WithFirstLeaves(pages, rootPageNum, e[1])
                              /\ root = rootPageNum /\ hdr = headerPageNum
  OBVIOUS
<1>3. PICK r : r = InsertRecursive(start, root, e, g)
  OBVIOUS
<1>4. /\ 0 \notin Range(PathFrom(start, root, e[1]))
      /\ IF r.split
         THEN /\ pages' = Append([r.file EXCEPT ![hdr] = Meta(Len(r.file) + 1)],
                                 NewRoot(r.key, root, r.right))
              /\ rootPageNum' = Len(r.file) + 1
         ELSE pages' = r.file /\ rootPageNum' = root
  BY <1>1, <1>2, <1>3
<1>5. e[1] \in Int /\ e \in Records
  BY RecordsAssumption
<1>6. hdr \in DOMAIN pages /\ pages[hdr].kind = "meta"
  BY <1>2 DEF IndexInv
<1>7. PICK key : key = e[1] /\ key \in Int
  BY <1>5
<1>8. /\ \E H, R : Indexed(start, H, R, root) /\ Chained(start, R, {key})
      /\ \A x : x \in inserted <=> Stored(start, x)
      /\ hdr \in DOMAIN start /\ start[hdr].kind = "meta"
  BY <1>2, <1>6, <1>7, StartIndexed
<1>9. PICK H, R : Indexed(start, H, R, root) /\ Chained(start, R, {e[1]})
  BY <1>7, <1>8
<1>10. /\ Standing(start, H, root) /\ Shape(start, H) /\ IsNonLeaf(start, root)
       /\ Routed(start, H, R, R) /\ NoHoles(start) /\ e[1] \in R[root] /\ ~Stored(start, e)
  BY <1>5, <1>8, <1>9 DEF Indexed, Standing
<1>11. PICK G, R2, Q2 : Sends(start, H, R, e, r, G, R2, Q2, root)
  BY <1>3, <1>4, <1>5, <1>9, <1>10, InsertSends
<1>12. /\ Standing(r.file, G, root) /\ NoHoles(r.file) /\ Q2[root] = Int
       /\ \A x : Stored(r.file, x) <=> Stored(start, x) \/ x = e
       /\ hdr \in DOMAIN r.file /\ r.file[hdr].kind = "meta"
  <2>1. Raised(start, H, r, G, root)
    BY <1>11 DEF Sends
  <2>2. hdr \in DOMAIN r.file /\ r.file[hdr].kind = "meta"
    BY <2>1, <1>8 DEF Raised, Extends
  <2>3. Q2[root] = Int
    BY <1>9, <1>11 DEF Sends, Indexed
  <2> QED
    BY <2>1, <2>2, <2>3, <1>10, <1>11, RaisedStands DEF Sends
<1>13. \A x : x \in inserted' <=> Stored(r.file, x)
  <2>1. inserted' = inserted \cup {e}
    BY DEF InsertEntry
  <2> QED
    BY <2>1, <1>8, <1>12
<1>14. CASE ~r.split
  <2>1. Q2 = R2 /\ Routed(r.file, G, R2, R2)
    BY <1>11, <1>14 DEF Sends, Handed
  <2>2. Indexed(pages', G, R2, rootPageNum') /\ Chained(pages', R2, {})
    BY <2>1, <1>4, <1>11, <1>12, <1>14 DEF Indexed, Sends
  <2>3. pages' = r.file
    BY <1>4, <1>14
  <2> QED
    BY <2>2, <2>3, <1>13 DEF RoutedInv
<1>15. CASE r.split
  <2>1. PICK F, sep, right, new :
          F = r.file /\ sep = r.key /\ right = r.right /\ new = Len(r.file) + 1
    OBVIOUS
  <2>2. SplitBelow(F, G, R2, Q2, root, sep, right)
    BY <2>1, <1>11, <1>15 DEF Sends, Handed
  <2>3. /\ Standing(F, G, root) /\ NoHoles(F) /\ Q2[root] = Int
        /\ hdr \in DOMAIN F /\ F[hdr].kind = "meta" /\ new = Len(F) + 1
        /\ sep \in Int /\ right \in Nat \ {0} /\ IsNode(F, right) /\ G[right] = G[root]
    BY <2>1, <2>2, <1>12 DEF SplitBelow
  <2>4. Chained(F, R2, {})
    BY <2>1, <1>11 DEF Sends
  <2>5. PICK J : Rooted(F, G, Append([F EXCEPT ![hdr] = Meta(new)], NewRoot(sep, root, right)),
                        J, root, new, sep, right, hdr)
    BY <2>3, NewRootStands
  <2>6. Rooted(F, G, pages', J, root, new, sep, right, hdr) /\ rootPageNum' = new
    BY <2>1, <2>5, <1>4, <1>15
  <2>7. PICK W : W = pages'
    OBVIOUS
  <2>8. /\ \E R3 : Indexed(W, J, R3, new) /\ Chained(W, R3, {})
        /\ \A x : Stored(W, x) <=> Stored(F, x)
    BY <2>2, <2>3, <2>6, <2>7, <2>4, NewRootRouted
  <2> QED
    BY <2>1, <2>6, <2>7, <2>8, <1>13 DEF RoutedInv
<1> QED
  BY <1>14, <1>15

LEMMA InitRoutedInv == Init => RoutedInv
<1>1. SUFFICES ASSUME Init PROVE RoutedInv
  OBVIOUS
<1>2. PICK n \in Nat : n = 0
  OBVIOUS
<1>3. (\E h : Standing(NewFile(n), h, n + 1)) /\ Fresh(NewFile(n), n + 1)
  BY NewFileStands
<1>4. pages = NewFile(n) /\ rootPageNum = n + 1
  <2>1. pages = NewFile(0) /\ rootPageNum = 1
    BY <1>1, FirstFile DEF Init
  <2> QED
    BY <2>1, <1>2
<1> QED
  BY <1>1, <1>3, <1>4 DEF RoutedInv, Init

LEMMA NextRoutedInv ==
    ASSUME OneSize, KeysDiffer, IndexInv, RoutedInv, [Next]_vars
    PROVE  RoutedInv'
<1>1. ASSUME UNCHANGED <<pages, rootPageNum, inserted>> PROVE RoutedInv'
  BY <1>1 DEF RoutedInv
<1>2. ASSUME NEW e \in Records \ inserted, InsertEntry(e) PROVE RoutedInv'
  BY <1>2, InsertEntryRoutes
<1>3. CASE Reopen
  <2>1. PICK n : n = Len(pages)
    OBVIOUS
  <2>2. n \in Nat
    BY <2>1 DEF IndexInv, Standing, Shape, Files
  <2>3. pages' = NewFile(n) /\ rootPageNum' = n + 1 /\ inserted' = {}
    BY <2>1, <2>2, <1>3, ReopenedFile DEF Reopen
  <2>4. (\E h : Standing(NewFile(n), h, n + 1)) /\ Fresh(NewFile(n), n + 1)
    BY <2>2, NewFileStands
  <2> QED
    BY <2>3, <2>4 DEF RoutedInv
<1>4. CASE UNCHANGED vars
  BY <1>1, <1>4 DEF vars
<1>5. CASE StartScanRejected
  BY <1>1, <1>5 DEF StartScanRejected, Throws
<1>6. ASSUME NEW r \in Ranges, StartScanEmpty(r) \/ StartScan(r) PROVE RoutedInv'
  BY <1>1, <1>6 DEF StartScanEmpty, StartScan
<1>7. CASE ScanNext
  BY <1>1, <1>7 DEF ScanNext, Throws, ScanNextEntry, ScanNextPastEnd, Returns
<1>8. CASE EndScan
  BY <1>1, <1>8 DEF EndScan, Throws
<1> QED
  BY <1>2, <1>3, <1>4, <1>5, <1>6, <1>7, <1>8 DEF Next

LEMMA IndexRoutes == ASSUME OneSize, KeysDiffer PROVE Spec => [](IndexInv /\ RoutedInv)
<1>1. Init => IndexInv /\ RoutedInv
  BY InitIndexInv, InitRoutedInv
<1>2. IndexInv /\ RoutedInv /\ [Next]_vars => (IndexInv /\ RoutedInv)'
  BY NextIndexInv, NextRoutedInv
<1> QED
  BY <1>1, <1>2, PTL DEF Spec

\* A descent ends in the one leaf the separators send its key to.
LEMMA DescentEnds ==
    ASSUME NEW h, NEW R, Indexed(pages, h, R, rootPageNum), NEW key \in Int
    PROVE  LeafFor(key) # 0 /\ IsLeaf(pages, LeafFor(key)) /\ key \in R[LeafFor(key)]
<1>1. Standing(pages, h, rootPageNum) /\ Shape(pages, h) /\ IsNonLeaf(pages, rootPageNum)
      /\ Routed(pages, h, R, R) /\ NoHoles(pages) /\ R[rootPageNum] = Int
  BY DEF Indexed, Standing
<1>2. PICK path, N : path = PathFrom(pages, rootPageNum, key) /\ N = Len(path)
  OBVIOUS
<1>3. IsPath(pages, h, path, rootPageNum, key)
  BY <1>1, <1>2, PathFound
<1>4. /\ N \in Nat /\ N >= 2 /\ DOMAIN path = 1 .. N
      /\ \A i \in 1 .. (N - 1) : IsNonLeaf(pages, path[i]) /\ path[i + 1] = FindPageNo(pages[path[i]], key)
      /\ path[N] = 0 \/ IsLeaf(pages, path[N])
  BY <1>2, <1>3 DEF IsPath
<1>5. path[N] # 0
  <2>1. PICK m : m = N - 1
    OBVIOUS
  <2>2. m \in 1 .. (N - 1) /\ m + 1 = N
    BY <2>1, <1>4
  <2>3. PICK q : q = path[m]
    OBVIOUS
  <2>4. IsNonLeaf(pages, q) /\ path[N] = FindPageNo(pages[q], key)
    BY <2>2, <2>3, <1>4
  <2>5. \E j \in DOMAIN pages[q].kids : pages[q].kids[j] = FindPageNo(pages[q], key)
    BY <2>4, <1>1, StepsDown
  <2> QED
    BY <2>4, <2>5, <1>1 DEF NoHoles, FullNode, IsNonLeaf
<1>6. 0 \notin Range(path)
  <2>1. \A i \in 1 .. (N - 1) : path[i] # 0
    BY <1>1, <1>4, FitsWhereItIs
  <2>2. \A i \in 1 .. N : i = N \/ i \in 1 .. (N - 1)
    BY <1>4
  <2> QED
    BY <2>1, <2>2, <1>4, <1>5 DEF Range
<1>7. key \in R[path[N]]
  <2>1. \A i \in 1 .. Len(path) : key \in R[path[i]]
    BY <1>1, <1>3, <1>6, PathRouted
  <2>2. N \in 1 .. N
    BY <1>4
  <2> QED
    BY <2>1, <2>2, <1>2
<1>8. LeafFor(key) = path[N]
  BY <1>2 DEF LeafFor, Last
<1> QED
  BY <1>4, <1>5, <1>7, <1>8

\* The descent for the key of a stored entry ends in the leaf that holds it.
LEMMA DescentFinds ==
    ASSUME NEW h, NEW R, Indexed(pages, h, R, rootPageNum), NEW e \in Records, Stored(pages, e)
    PROVE  /\ LeafFor(e[1]) # 0 /\ pages[LeafFor(e[1])].kind = "leaf"
           /\ e \in Range(pages[LeafFor(e[1])].entries)
<1>1. Shape(pages, h) /\ Routed(pages, h, R, R)
  BY DEF Indexed, Standing
<1>2. PICK key \in Int : key = e[1]
  BY RecordsAssumption
<1>3. PICK p \in DOMAIN pages : IsLeaf(pages, p) /\ \E i \in DOMAIN pages[p].entries : pages[p].entries[i] = e
  BY DEF Stored
<1>4. key \in R[p]
  BY <1>1, <1>2, <1>3 DEF Routed, PageRouted, LeafRouted
<1>5. PICK q : q = LeafFor(key)
  OBVIOUS
<1>6. q # 0 /\ IsLeaf(pages, q) /\ q \in DOMAIN pages /\ key \in R[q]
  BY <1>5, DescentEnds DEF IsLeaf
<1>7. q = p
  BY <1>1, <1>3, <1>4, <1>6, LeavesApart
<1> QED
  BY <1>2, <1>3, <1>5, <1>6, <1>7 DEF Range, IsLeaf

\* With one array size and a key per record, whatever was inserted is found
\* again by a descent, after any number of leaf, node and root splits.
THEOREM InsertedIsFound == ASSUME OneSize, KeysDiffer PROVE Spec => []EntriesFound
<1>1. IndexInv /\ RoutedInv => EntriesFound
  BY DescentFinds DEF IndexInv, RoutedInv, EntriesFound
<1> QED
  BY <1>1, IndexRoutes, PTL

(***************************************************************************)
(* The levels: Depth of LevelsRight is the height, in a set.               *)
(***************************************************************************)
DepthOf(f, p) ==
    IF pages[p].kind = "leaf" THEN {0}
    ELSE {d + 1 : d \in UNION {f[q] : q \in Children(p)}}

IsDepth(f) == f = [p \in PageIds |-> DepthOf(f, p)]

\* The nodes below a nonleaf without holes: some, and all one lower.
LEMMA ChildrenBelow ==
    ASSUME NEW h, Shape(pages, h), NoHoles(pages), NEW p, IsNonLeaf(pages, p)
    PROVE  /\ Children(p) # {}
           /\ \A q \in Children(p) : IsNode(pages, q) /\ q \in DOMAIN pages /\ h[q] + 1 = h[p]
<1>1. /\ Children(p) = {pages[p].kids[i] : i \in DOMAIN pages[p].kids}
      /\ \A i \in DOMAIN pages[p].kids : pages[p].kids[i] # 0
  BY DEF Children, Range, IsNonLeaf, NoHoles, FullNode
<1>2. Fits(pages, h, h[p], pages[p])
  BY FitsWhereItIs
<1>3. 1 \in DOMAIN pages[p].kids
  BY <1>2 DEF Fits, NonLeafPages
<1> QED
  BY <1>1, <1>2, <1>3 DEF Fits, IsNode, IsLeaf, IsNonLeaf

LEMMA DepthExists ==
    ASSUME NEW h, Shape(pages, h), NoHoles(pages)
    PROVE  \E f : IsDepth(f)
<1>1. PICK f : f = [p \in PageIds |-> IF IsNode(pages, p) THEN {h[p]} ELSE {}]
  OBVIOUS
<1>2. PageIds = DOMAIN pages /\ h \in [DOMAIN pages -> Nat]
  BY DEF PageIds, Shape, Files
<1>3. ASSUME NEW p \in PageIds PROVE f[p] = DepthOf(f, p)
  <2>1. CASE IsLeaf(pages, p)
    <3>1. h[p] = 0
      BY <2>1, <1>2, <1>3 DEF Shape, PageShape, LeafShape
    <3> QED
      BY <3>1, <2>1, <1>1, <1>3 DEF DepthOf, IsNode, IsLeaf
  <2>2. CASE IsNonLeaf(pages, p)
    <3>1. Children(p) # {} /\ \A q \in Children(p) : f[q] = {h[q]} /\ h[q] + 1 = h[p]
      BY <2>2, <1>1, <1>2, ChildrenBelow
    <3>2. {d + 1 : d \in UNION {f[q] : q \in Children(p)}} = {h[p]}
      BY <3>1
    <3> QED
      BY <3>2, <2>2, <1>1, <1>3 DEF DepthOf, IsNode, IsNonLeaf
  <2>3. CASE ~IsNode(pages, p)
    <3>1. Children(p) = {} /\ pages[p].kind # "leaf"
      BY <2>3, <1>2, <1>3 DEF Children, IsNode, IsLeaf, IsNonLeaf
    <3> QED
      BY <3>1, <2>3, <1>1, <1>3 DEF DepthOf
  <2> QED
    BY <2>1, <2>2, <2>3 DEF IsNode
<1>4. IsDepth(f)
  BY <1>1, <1>3 DEF IsDepth
<1> QED
  BY <1>4

LEMMA DepthIsHeight ==
    ASSUME NEW h, Shape(pages, h), NoHoles(pages), NEW f, IsDepth(f)
    PROVE  \A p \in DOMAIN pages : IsNode(pages, p) => f[p] = {h[p]}
<1>1. PageIds = DOMAIN pages /\ \A p \in DOMAIN pages : h[p] \in Nat
  BY DEF PageIds, Shape, Files
<1>2. \A p \in DOMAIN pages : f[p] = DepthOf(f, p)
  BY <1>1 DEF IsDepth
<1> DEFINE Bad == {n \in Nat : \E p \in DOMAIN pages : IsNode(pages, p) /\ h[p] = n /\ f[p] # {n}}
<1>3. Bad = {}
  <2>1. SUFFICES ASSUME Bad # {} PROVE FALSE
    OBVIOUS
  <2>2. PICK n \in Bad : \A t \in Bad : n <= t
    <3>1. Bad \in SUBSET Nat
      OBVIOUS
    <3> HIDE DEF Bad
    <3> QED
      BY <2>1, <3>1, LeastElement
  <2>3. PICK p \in DOMAIN pages : IsNode(pages, p) /\ h[p] = n /\ f[p] # {n}
    BY <2>2
  <2>4. CASE IsLeaf(pages, p)
    <3>1. h[p] = 0 /\ f[p] = {0}
      BY <2>4, <1>2 DEF Shape, PageShape, LeafShape, DepthOf, IsLeaf
    <3> QED
      BY <3>1, <2>3
  <2>5. CASE IsNonLeaf(pages, p)
    <3>1. /\ Children(p) # {}
          /\ \A q \in Children(p) : IsNode(pages, q) /\ q \in DOMAIN pages /\ h[q] + 1 = h[p]
      BY <2>5, ChildrenBelow
    <3>2. ASSUME NEW q \in Children(p) PROVE f[q] = {h[q]}
      <4>1. h[q] \notin Bad
        <5>1. h[q] \in Nat /\ n \in Nat /\ h[q] < n
          BY <3>1, <3>2, <2>2, <2>3, <1>1
        <5> HIDE DEF Bad
        <5> QED
          BY <5>1, <2>2
      <4> QED
        BY <4>1, <3>1, <3>2, <1>1
    <3>3. {d + 1 : d \in UNION {f[q] : q \in Children(p)}} = {h[p]}
      BY <3>1, <3>2
    <3>4. f[p] = {h[p]}
      BY <3>3, <2>5, <1>2 DEF DepthOf, IsNonLeaf
    <3> QED
      BY <3>4, <2>3
  <2> QED
    BY <2>3, <2>4, <2>5 DEF IsNode
<1> QED
  BY <1>1, <1>3

\* The tree stays balanced, and a node's level says whether leaves are below
\* it, when leaves, nodes and roots split: a descent never casts a page to the
\* wrong struct.
THEOREM LevelsStayRight == ASSUME OneSize, KeysDiffer PROVE Spec => []LevelsRight
<1>1. RoutedInv => LevelsRight
  <2>1. SUFFICES ASSUME RoutedInv, inserted # {} PROVE LevelsRight
    BY DEF LevelsRight
  <2>2. PICK h, R : Indexed(pages, h, R, rootPageNum)
    BY <2>1 DEF RoutedInv
  <2>3. /\ Shape(pages, h) /\ NoHoles(pages) /\ IsNonLeaf(pages, rootPageNum)
        /\ PageIds = DOMAIN pages
    BY <2>2 DEF Indexed, Standing, Shape, Files, PageIds
  <2>4. PICK f : f = CHOOSE d : IsDepth(d)
    OBVIOUS
  <2>5. \A p \in DOMAIN pages : IsNode(pages, p) => f[p] = {h[p]}
    <3>1. IsDepth(f)
      BY <2>3, <2>4, DepthExists
    <3> QED
      BY <3>1, <2>3, DepthIsHeight
  <2>6. Cardinality(f[rootPageNum]) = 1
    <3>1. f[rootPageNum] = {h[rootPageNum]}
      BY <2>3, <2>5 DEF IsNode, IsNonLeaf
    <3> QED
      BY <3>1, FS_Singleton
  <2>7. \A p \in PageIds :
            pages[p].kind = "nonleaf" => (pages[p].level = 1 <=> f[p] = {1})
    <3>1. TAKE p \in PageIds
    <3>2. SUFFICES ASSUME pages[p].kind = "nonleaf" PROVE pages[p].level = 1 <=> f[p] = {1}
      OBVIOUS
    <3>3. IsNonLeaf(pages, p) /\ p \in DOMAIN pages
      BY <2>3, <3>1, <3>2 DEF IsNonLeaf
    <3>4. f[p] = {h[p]}
      BY <3>3, <2>5 DEF IsNode
    <3>5. pages[p].level = 1 <=> h[p] = 1
      BY <3>3, <2>3, FitsWhereItIs DEF Fits
    <3> QED
      BY <3>4, <3>5
  <2>8. LevelsRight <=>
            (inserted # {} =>
                /\ Cardinality(f[rootPageNum]) = 1
                /\ \A p \in PageIds :
                    pages[p].kind = "nonleaf" => (pages[p].level = 1 <=> f[p] = {1}))
    BY <2>4 DEF LevelsRight, IsDepth, DepthOf
  <2> QED
    BY <2>6, <2>7, <2>8
<1> QED
  BY <1>1, IndexRoutes, PTL
-----------------------------------------------------------------------------
(***************************************************************************)
(* InOrder: a record's place is the number of records with a lower key.    *)
(***************************************************************************)
Lower(S, k) == {f \in S : f[1] < k}

\* Every record of A has a lower key than every record of B.
Precedes(A, B) == \A a \in A, b \in B : a[1] < b[1]

LEMMA InOrderAt ==
    ASSUME NEW S, NEW i \in 1 .. Cardinality(S)
    PROVE  InOrder(S)[i] = CHOOSE e \in S : Cardinality(Lower(S, e[1])) = i - 1
BY DEF InOrder, Lower

LEMMA InOrderIsFunction ==
    ASSUME NEW S
    PROVE  DOMAIN InOrder(S) = 1 .. Cardinality(S) /\ InOrder(S) = [i \in 1 .. Cardinality(S) |-> InOrder(S)[i]]
<1>1. PICK c : c = [i \in 1 .. Cardinality(S) |-> CHOOSE e \in S : Cardinality(Lower(S, e[1])) = i - 1]
  OBVIOUS
<1>2. c = InOrder(S)
  BY <1>1, Zenon DEF InOrder, Lower
<1>3. DOMAIN c = 1 .. Cardinality(S)
  BY <1>1, Zenon
<1>4. c = [i \in 1 .. Cardinality(S) |-> c[i]]
  <2>1. PICK D, X : D = 1 .. Cardinality(S) /\ X = {c[i] : i \in D}
    OBVIOUS
  <2>2. c \in [D -> X]
    <3>1. \A i \in D : c[i] \in X
      BY <2>1
    <3> QED
      BY <3>1, <2>1, <1>1, Zenon
  <2>3. c = [i \in D |-> c[i]]
    BY <2>2
  <2> QED
    BY <2>1, <2>3
<1> QED
  BY <1>2, <1>3, <1>4

LEMMA InOrderIsSeq ==
    ASSUME NEW S, IsFiniteSet(S)
    PROVE  /\ Cardinality(S) \in Nat
           /\ \E X : InOrder(S) \in Seq(X)
           /\ Len(InOrder(S)) = Cardinality(S) /\ DOMAIN InOrder(S) = 1 .. Cardinality(S)
<1>1. PICK n : n = Cardinality(S)
  OBVIOUS
<1>2. n \in Nat
  BY <1>1, FS_CardinalityType
<1>3. PICK s, X : s = InOrder(S) /\ X = {InOrder(S)[i] : i \in 1 .. n}
  OBVIOUS
<1>4. s = [i \in 1 .. n |-> s[i]] /\ DOMAIN s = 1 .. n
  BY <1>1, <1>3, InOrderIsFunction
<1>5. s \in [1 .. n -> X]
  BY <1>3, <1>4
<1>6. s \in Seq(X) /\ Len(s) = n
  BY <1>2, <1>5
<1> QED
  BY <1>1, <1>2, <1>3, <1>4, <1>6

\* The first m elements of a sequence that does not repeat itself.
LEMMA PrefixCounts ==
    ASSUME NEW s, NEW n \in Nat, DOMAIN s = 1 .. n, \A i, j \in 1 .. n : s[i] = s[j] => i = j,
           NEW m \in 0 .. n, NEW T, T = {s[j] : j \in 1 .. m}
    PROVE  IsFiniteSet(T) /\ Cardinality(T) = m
<1>1. PICK f : f = [j \in 1 .. m |-> s[j]]
  OBVIOUS
<1>2. f \in [1 .. m -> T] /\ \A j \in 1 .. m : f[j] = s[j] /\ j \in 1 .. n
  BY <1>1
<1>3. \A i, j \in 1 .. m : f[i] = f[j] => i = j
  BY <1>2
<1>4. \A t \in T : \E j \in 1 .. m : f[j] = t
  BY <1>1, <1>2
<1>5. f \in Bijection(1 .. m, T)
  BY <1>2, <1>3, <1>4 DEF Bijection, Injection, Surjection, IsInjective
<1>6. ExistsBijection(1 .. m, T)
  BY <1>5 DEF ExistsBijection
<1>7. IsFiniteSet(1 .. m) /\ Cardinality(1 .. m) = m
  <2>1. m \in Int /\ m >= 0 /\ 1 \in Int
    OBVIOUS
  <2> QED
    BY <2>1, FS_Interval
<1> QED
  BY <1>1, <1>6, <1>7, FS_Bijection

\* Records stored in key order are the set of them in order.
LEMMA SortedIsInOrder ==
    ASSUME NEW s \in Seq(Records), \A i, j \in DOMAIN s : i < j => s[i][1] < s[j][1]
    PROVE  /\ IsFiniteSet({s[i] : i \in DOMAIN s})
           /\ InOrder({s[i] : i \in DOMAIN s}) = s
<1>1. PICK n, S : n = Len(s) /\ S = {s[i] : i \in DOMAIN s}
  OBVIOUS
<1>2. n \in Nat /\ DOMAIN s = 1 .. n /\ \A i \in 1 .. n : s[i] \in Records
  BY <1>1
<1>3. \A i \in 1 .. n : s[i][1] \in Int
  BY <1>2, RecordsAssumption
<1>4. \A i, j \in 1 .. n : (s[i][1] < s[j][1] <=> i < j) /\ (s[i] = s[j] => i = j)
  <2>1. TAKE i, j \in 1 .. n
  <2>2. i < j \/ i = j \/ j < i
    BY <1>2
  <2> QED
    BY <2>2, <1>2, <1>3
<1>5. ASSUME NEW i \in 1 .. n PROVE Cardinality(Lower(S, s[i][1])) = i - 1
  <2>1. PICK m : m = i - 1
    OBVIOUS
  <2>2. m \in 0 .. n /\ \A j \in 1 .. n : j < i <=> j \in 1 .. m
    BY <2>1, <1>2
  <2>3. Lower(S, s[i][1]) = {s[j] : j \in 1 .. m}
    <3>1. ASSUME NEW e PROVE e \in Lower(S, s[i][1]) <=> \E j \in 1 .. m : e = s[j]
      <4>1. e \in S <=> \E j \in 1 .. n : e = s[j]
        BY <1>1, <1>2
      <4>2. \A j \in 1 .. m : j \in 1 .. n
        BY <2>2, <1>2
      <4> QED
        BY <4>1, <4>2, <2>2, <1>4, Zenon DEF Lower
    <3> QED
      BY <3>1
  <2>4. PICK T : T = {s[j] : j \in 1 .. m}
    OBVIOUS
  <2>5. Cardinality(T) = m
    <3>1. \A a, b \in 1 .. n : s[a] = s[b] => a = b
      BY <1>4
    <3>2. m \in 0 .. n
      BY <2>2
    <3> QED
      BY <3>1, <3>2, <2>4, <1>2, PrefixCounts
  <2> QED
    BY <2>1, <2>3, <2>4, <2>5
<1>6. IsFiniteSet(S) /\ Cardinality(S) = n
  <2>1. S = {s[j] : j \in 1 .. n} /\ n \in 0 .. n
    BY <1>1, <1>2
  <2> QED
    BY <2>1, <1>2, <1>4, PrefixCounts
<1>7. ASSUME NEW i \in 1 .. n PROVE InOrder(S)[i] = s[i]
  <2>1. s[i] \in S /\ Cardinality(Lower(S, s[i][1])) = i - 1
    BY <1>1, <1>2, <1>5
  <2>2. ASSUME NEW e \in S, Cardinality(Lower(S, e[1])) = i - 1 PROVE e = s[i]
    <3>1. PICK j \in 1 .. n : e = s[j]
      BY <2>2, <1>1, <1>2
    <3>2. j - 1 = i - 1
      BY <3>1, <2>2, <1>5
    <3>3. i = j
      BY <3>2
    <3> QED
      BY <3>1, <3>3
  <2>3. InOrder(S)[i] = CHOOSE e \in S : Cardinality(Lower(S, e[1])) = i - 1
    BY <1>6, InOrderAt
  <2> QED
    BY <2>1, <2>2, <2>3
<1>8. InOrder(S) = [i \in 1 .. n |-> InOrder(S)[i]]
  BY <1>6, InOrderIsFunction
<1>9. s = [i \in 1 .. n |-> s[i]]
  BY <1>2
<1> QED
  BY <1>1, <1>6, <1>7, <1>8, <1>9

\* The records of two sets, one before the other.
LEMMA InOrderSplits ==
    ASSUME NEW A \in SUBSET Records, IsFiniteSet(A), NEW B \in SUBSET Records, IsFiniteSet(B),
           Precedes(A, B)
    PROVE  InOrder(A \cup B) = InOrder(A) \o InOrder(B)
<1>1. PICK S, n, m : S = A \cup B /\ n = Cardinality(A) /\ m = Cardinality(B)
  OBVIOUS
<1>2. n \in Nat /\ m \in Nat
  BY <1>1, FS_CardinalityType
<1>3. \A e \in S : e[1] \in Int
  BY <1>1, RecordsAssumption
<1>4. A \cap B = {}
  BY <1>1, <1>3 DEF Precedes
<1>5. IsFiniteSet(S) /\ Cardinality(S) = n + m
  <2>1. Cardinality(A \cap B) = 0
    BY <1>4, FS_EmptySet
  <2>2. IsFiniteSet(A \cup B)
        /\ Cardinality(A \cup B) = Cardinality(A) + Cardinality(B) - Cardinality(A \cap B)
    BY FS_Union
  <2> QED
    BY <2>1, <2>2, <1>1, <1>2
<1>6. ASSUME NEW e \in A
      PROVE  Cardinality(Lower(S, e[1])) = Cardinality(Lower(A, e[1])) /\ Cardinality(Lower(A, e[1])) \in 0 .. (n - 1)
  <2>1. Lower(S, e[1]) = Lower(A, e[1])
    BY <1>1, <1>3 DEF Lower, Precedes
  <2>2. Lower(A, e[1]) \in SUBSET A /\ Lower(A, e[1]) # A
    BY <1>1, <1>3 DEF Lower
  <2>3. Cardinality(Lower(A, e[1])) \in Nat /\ Cardinality(Lower(A, e[1])) <= n /\ Cardinality(Lower(A, e[1])) # n
    BY <2>2, <1>1, FS_Subset, FS_CardinalityType
  <2> QED
    BY <2>1, <2>3, <1>2
<1>7. ASSUME NEW e \in B
      PROVE  Cardinality(Lower(S, e[1])) = n + Cardinality(Lower(B, e[1])) /\ Cardinality(Lower(B, e[1])) \in Nat
  <2>1. PICK L : L = Lower(B, e[1])
    OBVIOUS
  <2>2. Lower(S, e[1]) = A \cup L
    BY <2>1, <1>1 DEF Lower, Precedes
  <2>3. L \in SUBSET B /\ A \cap L = {}
    BY <2>1, <1>4 DEF Lower
  <2>4. IsFiniteSet(L) /\ Cardinality(L) \in Nat
    BY <2>3, FS_Subset, FS_CardinalityType
  <2>5. Cardinality(A \cap L) = 0
    BY <2>3, FS_EmptySet
  <2>6. Cardinality(A \cup L) = Cardinality(A) + Cardinality(L) - Cardinality(A \cap L)
    BY <2>4, FS_Union
  <2> QED
    BY <2>1, <2>2, <2>4, <2>5, <2>6, <1>1, <1>2
<1>8. ASSUME NEW i \in 1 .. n PROVE InOrder(S)[i] = InOrder(A)[i]
  <2>1. i \in 1 .. (n + m) /\ i - 1 < n
    BY <1>2
  <2>2. /\ InOrder(S)[i] = CHOOSE e \in S : Cardinality(Lower(S, e[1])) = i - 1
        /\ InOrder(A)[i] = CHOOSE e \in A : Cardinality(Lower(A, e[1])) = i - 1
    BY <2>1, <1>1, <1>5, InOrderAt
  <2>3. ASSUME NEW e
        PROVE  e \in S /\ Cardinality(Lower(S, e[1])) = i - 1
                    <=> e \in A /\ Cardinality(Lower(A, e[1])) = i - 1
    <3>1. CASE e \in A
      BY <3>1, <1>1, <1>6
    <3>2. CASE e \in B
      BY <3>2, <2>1, <1>2, <1>4, <1>7
    <3> QED
      BY <3>1, <3>2, <1>1
  <2>4. (CHOOSE e \in S : Cardinality(Lower(S, e[1])) = i - 1)
            = CHOOSE e \in A : Cardinality(Lower(A, e[1])) = i - 1
    BY <2>3, Zenon
  <2> QED
    BY <2>2, <2>4
<1>9. ASSUME NEW i \in 1 .. m PROVE InOrder(S)[n + i] = InOrder(B)[i]
  <2>1. PICK k : k = n + i
    OBVIOUS
  <2>2. k \in 1 .. Cardinality(S) /\ k - 1 >= n /\ k - 1 \in Int
    BY <2>1, <1>2, <1>5
  <2>3. /\ InOrder(S)[k] = CHOOSE e \in S : Cardinality(Lower(S, e[1])) = k - 1
        /\ InOrder(B)[i] = CHOOSE e \in B : Cardinality(Lower(B, e[1])) = i - 1
    BY <2>2, <1>1, InOrderAt
  <2>4. ASSUME NEW e
        PROVE  e \in S /\ Cardinality(Lower(S, e[1])) = k - 1
                    <=> e \in B /\ Cardinality(Lower(B, e[1])) = i - 1
    <3>1. CASE e \in A
      <4>1. Cardinality(Lower(S, e[1])) \in 0 .. (n - 1)
        BY <3>1, <1>6
      <4>2. Cardinality(Lower(S, e[1])) # k - 1
        BY <4>1, <2>2, <1>2
      <4> QED
        BY <4>2, <3>1, <1>4
    <3>2. CASE e \in B
      <4>1. PICK c \in Nat : c = Cardinality(Lower(B, e[1])) /\ Cardinality(Lower(S, e[1])) = n + c
        BY <3>2, <1>7
      <4>2. n + c = k - 1 <=> c = i - 1
        BY <2>1, <1>2
      <4> QED
        BY <4>1, <4>2, <3>2, <1>1
    <3> QED
      BY <3>1, <3>2, <1>1
  <2>5. (CHOOSE e \in S : Cardinality(Lower(S, e[1])) = k - 1)
            = CHOOSE e \in B : Cardinality(Lower(B, e[1])) = i - 1
    BY <2>4, Zenon
  <2> QED
    BY <2>1, <2>3, <2>5
<1>10. PICK s, a, b : s = InOrder(S) /\ a = InOrder(A) /\ b = InOrder(B)
  OBVIOUS
<1>11. /\ Len(a) = n /\ DOMAIN a = 1 .. n /\ Len(b) = m /\ DOMAIN b = 1 .. m
       /\ DOMAIN s = 1 .. (n + m) /\ s = [i \in 1 .. (n + m) |-> s[i]]
  <2>1. s = [i \in 1 .. (n + m) |-> s[i]]
    BY <1>5, <1>10, InOrderIsFunction
  <2> QED
    BY <2>1, <1>1, <1>5, <1>10, InOrderIsSeq
<1>12. PICK Xa, Xb : a \in Seq(Xa) /\ b \in Seq(Xb)
  <2>1. (\E X : a \in Seq(X)) /\ \E X : b \in Seq(X)
    BY <1>10, InOrderIsSeq
  <2> QED
    BY <2>1
<1>13. a \o b = [i \in 1 .. (n + m) |-> IF i <= n THEN a[i] ELSE b[i - n]]
  <2>1. a \in Seq(Xa \cup Xb) /\ b \in Seq(Xa \cup Xb)
    BY <1>12
  <2>2. a \o b = [i \in 1 .. (n + m) |-> (a \o b)[i]]
    <3>1. PICK c : c = a \o b
      OBVIOUS
    <3>2. PICK X : X = Xa \cup Xb
      OBVIOUS
    <3>4. a \o b \in Seq(X) /\ Len(a \o b) = Len(a) + Len(b)
      BY <3>2, <2>1, ConcatProperties
    <3>5. c \in Seq(X) /\ Len(c) = n + m
      BY <3>1, <3>4, <1>11
    <3>3. c = [i \in 1 .. (n + m) |-> c[i]]
      BY <3>5
    <3> QED
      BY <3>1, <3>3
  <2>3. \A i \in 1 .. (n + m) : (a \o b)[i] = IF i <= n THEN a[i] ELSE b[i - n]
    BY <2>1, <1>2, <1>11
  <2> QED
    BY <2>2, <2>3
<1>14. \A i \in 1 .. (n + m) : s[i] = IF i <= n THEN a[i] ELSE b[i - n]
  <2>1. TAKE i \in 1 .. (n + m)
  <2>2. CASE i <= n
    BY <2>2, <1>2, <1>8, <1>10
  <2>3. CASE i > n
    <3>1. PICK j : j = i - n
      OBVIOUS
    <3>2. j \in 1 .. m /\ i = n + j /\ ~(i <= n)
      BY <3>1, <2>3, <1>2
    <3> QED
      BY <3>1, <3>2, <1>9, <1>10
  <2> QED
    BY <2>2, <2>3, <1>2
<1> QED
  BY <1>1, <1>10, <1>11, <1>13, <1>14

-----------------------------------------------------------------------------
(***************************************************************************)
(* What is in a leaf, and what is from there on.                           *)
(***************************************************************************)
Filled(h, R) ==
    /\ Indexed(pages, h, R, rootPageNum) /\ Chained(pages, R, {})
    /\ \A x : x \in inserted <=> Stored(pages, x)
    /\ inserted \subseteq Records

Held(p) == {pages[p].entries[i] : i \in DOMAIN pages[p].entries}

\* The records a walk along the chain from p comes to.
From(R, p) == {e \in inserted : \E k \in R[p] : k <= e[1]}

LEMMA LeafInside ==
    ASSUME KeysDiffer, NEW h, NEW R, Filled(h, R), NEW p, IsLeaf(pages, p)
    PROVE  /\ p \in DOMAIN pages /\ p # 0 /\ R[p] \in SUBSET Int /\ R[p] # {}
           /\ pages[p].entries \in Seq(Records)
           /\ \A i, j \in DOMAIN pages[p].entries :
                    i < j => pages[p].entries[i][1] < pages[p].entries[j][1]
           /\ Held(p) \subseteq inserted
           /\ \A e \in inserted : e[1] \in R[p] <=> e \in Held(p)
           /\ LeafChained(pages, R, {}, p)
           /\ pages[p].right # 0 => IsLeaf(pages, pages[p].right)
<1>1. /\ Shape(pages, h) /\ Routed(pages, h, R, R) /\ Chained(pages, R, {})
      /\ inserted \subseteq Records /\ \A x : x \in inserted <=> Stored(pages, x)
  BY DEF Filled, Indexed, Standing
<1>2. /\ p \in DOMAIN pages /\ LeafChained(pages, R, {}, p)
      /\ R[p] \in SUBSET Int /\ R[p] # {} /\ LeafRouted(R[p], pages[p])
      /\ pages[p].right # 0 => IsLeaf(pages, pages[p].right)
  BY <1>1 DEF Chained, Routed, PageRouted, IsLeaf, IsNode, Shape, PageShape, LeafShape
<1>3. pages[p].entries \in Seq(Records) /\ p # 0
  BY <1>1, <1>2, PageTypes DEF IsLeaf, Shape, LeafPages
<1>4. Held(p) \subseteq inserted
  BY <1>1, <1>2 DEF Held, Stored
<1>5. ASSUME NEW e \in inserted PROVE e[1] \in R[p] <=> e \in Held(p)
  <2>1. e \in Held(p) => e[1] \in R[p]
    BY <1>2 DEF Held, LeafRouted
  <2>2. ASSUME e[1] \in R[p] PROVE e \in Held(p)
    <3>1. PICK q \in DOMAIN pages : IsLeaf(pages, q) /\ \E i \in DOMAIN pages[q].entries : pages[q].entries[i] = e
      BY <1>1 DEF Stored
    <3>2. e[1] \in R[q]
      BY <3>1, <1>1 DEF Routed, PageRouted, LeafRouted
    <3>3. p = q
      BY <2>2, <3>1, <3>2, <1>1, LeavesApart
    <3> QED
      BY <3>1, <3>3 DEF Held
  <2> QED
    BY <2>1, <2>2
<1> QED
  BY <1>2, <1>3, <1>4, <1>5 DEF LeafRouted

\* A leaf's own records come before those from its sibling on.
LEMMA FromHere ==
    ASSUME KeysDiffer, NEW h, NEW R, Filled(h, R), NEW p, IsLeaf(pages, p),
           NEW s, s = pages[p].right
    PROVE  /\ s = 0 => From(R, p) = Held(p)
           /\ s # 0 => /\ From(R, p) = Held(p) \cup From(R, s)
                       /\ Precedes(Held(p), From(R, s))
                       /\ pages[s].entries # <<>>
<1>1. /\ R[p] \in SUBSET Int /\ Held(p) \subseteq inserted /\ LeafChained(pages, R, {}, p)
      /\ \A e \in inserted : e[1] \in R[p] <=> e \in Held(p)
  BY LeafInside
<1>2. \A e \in inserted : e[1] \in Int
  BY RecordsAssumption DEF Filled
<1>3. \A e \in Held(p) : e \in inserted /\ e[1] \in R[p] /\ e[1] <= e[1]
  BY <1>1, <1>2
<1>4. Held(p) \subseteq From(R, p)
  BY <1>3 DEF From
<1>5. CASE s = 0
  <2>1. Upward(R[p])
    BY <1>1, <1>5 DEF LeafChained
  <2>2. ASSUME NEW e \in From(R, p) PROVE e \in Held(p)
    <3>1. e \in inserted /\ \E k \in R[p] : k <= e[1]
      BY <2>2 DEF From
    <3> QED
      BY <3>1, <2>1, <1>1, <1>2 DEF Upward
  <2> QED
    BY <2>2, <1>4, <1>5
<1>6. CASE s # 0
  <2>1. IsLeaf(pages, s) /\ s # p /\ pages[s].entries # <<>>
    BY <1>1, <1>6, LeafInside DEF LeafChained
  <2>2. PICK k \in R[p] : k + 1 \in R[s]
    BY <1>1, <1>6 DEF LeafChained
  <2>3. R[s] \in SUBSET Int /\ Interval(R[p]) /\ Interval(R[s]) /\ R[p] \cap R[s] = {}
    <3>1. R[s] \in SUBSET Int /\ LeafChained(pages, R, {}, s)
      BY <2>1, LeafInside
    <3>2. R[p] \cap R[s] = {}
      BY <2>1, LeavesApart DEF Filled, Indexed, Standing
    <3> QED
      BY <3>1, <3>2, <1>1 DEF LeafChained
  <2>4. (\A a \in R[p] : a <= k) /\ \A b \in R[s] : b >= k + 1
    BY <2>2, <2>3, <1>1, Neighbours
  <2>5. ASSUME NEW e \in inserted PROVE e \in From(R, p) <=> e \in Held(p) \/ e \in From(R, s)
    <3>1. ASSUME NEW a \in R[p], a <= e[1] PROVE e \in Held(p) \/ e \in From(R, s)
      <4>1. CASE e[1] <= k
        BY <4>1, <3>1, <2>2, <2>3, <1>1, <1>2 DEF Interval
      <4>2. CASE k + 1 <= e[1]
        BY <4>2, <2>2 DEF From
      <4> QED
        BY <4>1, <4>2, <1>1, <1>2
    <3>2. ASSUME NEW b \in R[s], b <= e[1] PROVE k <= e[1]
      BY <3>2, <2>3, <2>4, <1>1, <1>2
    <3> QED
      BY <3>1, <3>2, <1>4, <2>2 DEF From
  <2>6. From(R, p) = Held(p) \cup From(R, s)
    BY <2>5, <1>1 DEF From
  <2>7. ASSUME NEW a \in Held(p), NEW e \in From(R, s) PROVE a[1] < e[1]
    <3>1. PICK b \in R[s] : b <= e[1]
      BY <2>7 DEF From
    <3>2. a[1] <= k /\ k + 1 <= b /\ a[1] \in Int /\ e[1] \in Int /\ b \in Int /\ k \in Int
      BY <3>1, <2>3, <2>4, <1>1, <1>2, <1>3 DEF From
    <3> QED
      BY <3>1, <3>2
  <2> QED
    BY <2>1, <2>6, <2>7, <1>6 DEF Precedes
<1> QED
  BY <1>5, <1>6

(***************************************************************************)
(* Entries of LeafChainExact: the records from a leaf on, in key order.    *)
(***************************************************************************)
Walk(f, p) ==
    IF p = 0 \/ pages[p].kind # "leaf" THEN <<>> ELSE pages[p].entries \o f[pages[p].right]

IsEntries(f) == f = [p \in 0 .. Len(pages) |-> Walk(f, p)]

LEMMA WalkInOrder ==
    ASSUME KeysDiffer, NEW h, NEW R, Filled(h, R), IsFiniteSet(inserted),
           NEW p, IsLeaf(pages, p), NEW f,
           pages[p].right = 0 => f[0] = <<>>,
           pages[p].right # 0 => f[pages[p].right] = InOrder(From(R, pages[p].right))
    PROVE  Walk(f, p) = InOrder(From(R, p))
<1>1. PICK es, s : es = pages[p].entries /\ s = pages[p].right
  OBVIOUS
<1>2. /\ es \in Seq(Records) /\ \A i, j \in DOMAIN es : i < j => es[i][1] < es[j][1]
      /\ Held(p) \subseteq inserted /\ Held(p) = {es[i] : i \in DOMAIN es}
      /\ p # 0 /\ pages[p].kind = "leaf"
  BY <1>1, LeafInside DEF Held, IsLeaf
<1>3. InOrder(Held(p)) = es
  BY <1>2, SortedIsInOrder
<1>4. Walk(f, p) = es \o f[s]
  BY <1>1, <1>2 DEF Walk
<1>5. CASE s = 0
  <2>1. From(R, p) = Held(p) /\ f[s] = <<>>
    BY <1>1, <1>5, FromHere
  <2>2. es \o <<>> = es
    BY <1>2, ConcatEmptySeq
  <2> QED
    BY <2>1, <2>2, <1>3, <1>4
<1>6. CASE s # 0
  <2>1. PICK A, B : A = Held(p) /\ B = From(R, s)
    OBVIOUS
  <2>2. From(R, p) = A \cup B /\ Precedes(A, B)
    BY <2>1, <1>1, <1>6, FromHere
  <2>3. /\ A \in SUBSET Records /\ B \in SUBSET Records /\ IsFiniteSet(A) /\ IsFiniteSet(B)
    <3>1. A \in SUBSET inserted /\ B \in SUBSET inserted
      BY <2>1, <1>2 DEF From
    <3> QED
      BY <3>1, FS_Subset DEF Filled
  <2>4. InOrder(A \cup B) = InOrder(A) \o InOrder(B)
    BY <2>2, <2>3, InOrderSplits
  <2> QED
    BY <2>1, <2>2, <2>4, <1>1, <1>3, <1>4, <1>6
<1> QED
  BY <1>5, <1>6

LEMMA EntriesExist ==
    ASSUME KeysDiffer, NEW h, NEW R, Filled(h, R), IsFiniteSet(inserted)
    PROVE  \E f : IsEntries(f)
<1>1. PICK n : n = Len(pages)
  OBVIOUS
<1>2. n \in Nat /\ DOMAIN pages = 1 .. n
  BY <1>1 DEF Filled, Indexed, Standing, Shape, Files
<1>3. PICK f : f = [p \in 0 .. n |-> IF IsLeaf(pages, p) THEN InOrder(From(R, p)) ELSE <<>>]
  OBVIOUS
<1>4. /\ \A p \in 0 .. n : f[p] = IF IsLeaf(pages, p) THEN InOrder(From(R, p)) ELSE <<>>
      /\ f = [p \in 0 .. n |-> f[p]]
  BY <1>3
<1>5. f[0] = <<>> /\ \A p : IsLeaf(pages, p) => f[p] = InOrder(From(R, p))
  BY <1>2, <1>4 DEF IsLeaf
<1>6. ASSUME NEW p \in 0 .. n PROVE f[p] = Walk(f, p)
  <2>1. CASE IsLeaf(pages, p)
    <3>1. pages[p].right # 0 => IsLeaf(pages, pages[p].right)
      BY <2>1, LeafInside
    <3> QED
      BY <3>1, <2>1, <1>5, WalkInOrder
  <2>2. CASE ~IsLeaf(pages, p)
    <3>1. p = 0 \/ p \in DOMAIN pages
      BY <1>2
    <3> QED
      BY <3>1, <2>2, <1>4 DEF IsLeaf, Walk
  <2> QED
    BY <2>1, <2>2
<1>7. IsEntries(f)
  BY <1>1, <1>4, <1>6 DEF IsEntries
<1> QED
  BY <1>7

LEMMA EntriesInOrder ==
    ASSUME KeysDiffer, NEW h, NEW R, Filled(h, R), IsFiniteSet(inserted), NEW f, IsEntries(f)
    PROVE  \A p : IsLeaf(pages, p) => f[p] = InOrder(From(R, p))
<1>1. Len(pages) \in Nat /\ DOMAIN pages = 1 .. Len(pages)
  BY DEF Filled, Indexed, Standing, Shape, Files
<1>2. f[0] = <<>> /\ \A p : IsLeaf(pages, p) => f[p] = Walk(f, p)
  BY <1>1 DEF IsEntries, IsLeaf, Walk
<1>3. ASSUME NEW p, IsLeaf(pages, p), f[p] # InOrder(From(R, p))
      PROVE  /\ pages[p].right # 0 /\ IsLeaf(pages, pages[p].right)
             /\ f[pages[p].right] # InOrder(From(R, pages[p].right))
  BY <1>2, <1>3, WalkInOrder, LeafInside
<1>4. ASSUME NEW p PROVE From(R, p) \in SUBSET inserted /\ Cardinality(From(R, p)) \in Nat /\ IsFiniteSet(From(R, p))
  BY FS_Subset, FS_CardinalityType DEF From
<1> DEFINE Wrong(p) == IsLeaf(pages, p) /\ f[p] # InOrder(From(R, p))
           Bad == {n \in Nat : \E p : Wrong(p) /\ Cardinality(From(R, p)) = n}
<1>5. Bad = {}
  <2>1. SUFFICES ASSUME Bad # {} PROVE FALSE
    OBVIOUS
  <2>2. PICK n \in Bad : \A t \in Bad : n <= t
    <3>1. Bad \in SUBSET Nat
      OBVIOUS
    <3> HIDE DEF Bad
    <3> QED
      BY <2>1, <3>1, LeastElement
  <2>3. PICK p : Wrong(p) /\ Cardinality(From(R, p)) = n
    BY <2>2
  <2>4. PICK s, t : s = pages[p].right /\ t = pages[s].right
    OBVIOUS
  <2>5. s # 0 /\ Wrong(s) /\ t # 0 /\ Wrong(t)
    BY <2>3, <2>4, <1>3
  <2>6. /\ From(R, p) = Held(p) \cup From(R, s) /\ pages[s].entries # <<>>
        /\ From(R, s) = Held(s) \cup From(R, t) /\ Precedes(Held(s), From(R, t))
    BY <2>3, <2>4, <2>5, FromHere
  <2>7. From(R, t) \in SUBSET From(R, p) /\ From(R, t) # From(R, p)
    <3>1. PICK e : e \in Held(s) /\ e[1] \in Int
      <4>1. pages[s].entries \in Seq(Records)
        BY <2>5, LeafInside
      <4>2. pages[s].entries[1] \in Held(s) /\ pages[s].entries[1] \in Records
        BY <4>1, <2>6 DEF Held
      <4> QED
        BY <4>2, RecordsAssumption
    <3>2. e \notin From(R, t)
      BY <3>1, <2>6 DEF Precedes
    <3> QED
      BY <3>1, <3>2, <2>6
  <2>8. Cardinality(From(R, t)) < n
    <3>1. Cardinality(From(R, t)) <= Cardinality(From(R, p)) /\ Cardinality(From(R, t)) # Cardinality(From(R, p))
      BY <2>7, <1>4, FS_Subset
    <3> QED
      BY <3>1, <2>3, <1>4
  <2>9. Cardinality(From(R, t)) \in Bad
    BY <2>5, <1>4
  <2> QED
    <3> HIDE DEF Bad
    <3>1. n \in Nat
      BY <2>3, <1>4
    <3> QED
      BY <3>1, <2>2, <2>8, <2>9, <1>4
<1> QED
  BY <1>4, <1>5

(***************************************************************************)
(* leftmost of LeafChainExact: the leaf below p that has its lowest keys.  *)
(***************************************************************************)
LeftLeaf(R, q, p) == IsLeaf(pages, q) /\ \A a \in R[p] : \E b \in R[q] \cap R[p] : b <= a

LeftStep(f, p) == IF pages[p].kind = "nonleaf" THEN f[pages[p].kids[1]] ELSE p

IsLeftmost(f) == f = [p \in PageIds |-> LeftStep(f, p)]

\* c, a node just below p, has the lowest keys of p.
LowestPart(h, R, p, c) ==
    /\ IsNode(pages, c) /\ h[c] + 1 = h[p] /\ h[c] \in Nat /\ R[c] # {}
    /\ R[p] \in SUBSET Int /\ R[c] \in SUBSET R[p]
    /\ \A a \in R[p] : a \in R[c] \/ \A b \in R[c] : b <= a

LEMMA FirstChild ==
    ASSUME NEW h, NEW R, Filled(h, R), NEW p, IsNonLeaf(pages, p), NEW c, c = pages[p].kids[1]
    PROVE  LowestPart(h, R, p, c)
<1>1. /\ Shape(pages, h) /\ NoHoles(pages) /\ Routed(pages, h, R, R)
      /\ p \in DOMAIN pages /\ R[p] \in SUBSET Int
  BY DEF Filled, Indexed, Standing, Routed, IsNonLeaf
<1>2. PICK node : node = pages[p]
  OBVIOUS
<1>3. Fits(pages, h, h[p], node) /\ FullNode(node)
  BY <1>1, <1>2, FitsWhereItIs DEF NoHoles
<1>4. /\ node.keys \in Seq(Int) /\ node.kids \in Seq(Nat) /\ Len(node.kids) = Len(node.keys) + 1
      /\ node.keys # <<>> /\ \A j \in DOMAIN node.kids : node.kids[j] # 0
  BY <1>3 DEF Fits, FullNode, NonLeafPages
<1>5. 1 \in DOMAIN node.kids /\ 1 \in DOMAIN node.keys /\ node.keys[1] \in Int /\ Len(node.keys) >= 1
  BY <1>4
<1>6. NodeRouted(R, R[p], node)
  BY <1>1, <1>2, <1>4, <1>5 DEF Routed, PageRouted
<1>7. \A k \in Int : k \in R[c] <=> k \in R[p] /\ k < node.keys[1]
  <2>1. \A k \in Int : RouteTo(node.keys, k, 1) <=> k < node.keys[1]
    BY <1>5, <1>4 DEF RouteTo
  <2> QED
    BY <2>1, <1>2, <1>5, <1>6 DEF NodeRouted
<1>8. IsNode(pages, c) /\ h[c] + 1 = h[p] /\ c \in DOMAIN pages
  BY <1>2, <1>3, <1>4, <1>5 DEF Fits, IsNode, IsLeaf, IsNonLeaf
<1>9. R[c] \in SUBSET Int /\ R[c] # {} /\ h[c] \in Nat
  BY <1>1, <1>8 DEF Routed, Shape
<1>10. \A a \in R[p] : a \in R[c] \/ \A b \in R[c] : b <= a
  BY <1>1, <1>5, <1>7, <1>9
<1>11. R[c] \in SUBSET R[p]
  BY <1>7, <1>9
<1> QED
  BY <1>1, <1>8, <1>9, <1>10, <1>11 DEF LowestPart

LEMMA LeftOfChild ==
    ASSUME NEW h, NEW R, Filled(h, R), NEW p, IsNonLeaf(pages, p), NEW c, c = pages[p].kids[1],
           NEW q
    PROVE  LeftLeaf(R, q, p) <=> LeftLeaf(R, q, c)
<1>1. LowestPart(h, R, p, c)
  BY FirstChild
<1>2. PICK S \in SUBSET Int : S = R[p]
  BY <1>1 DEF LowestPart
<1>3. PICK T \in SUBSET S : T = R[c]
  BY <1>2, <1>1 DEF LowestPart
<1>4. T # {} /\ \A a \in S : a \in T \/ \A b \in T : b <= a
  BY <1>2, <1>3, <1>1 DEF LowestPart
<1>5. ASSUME LeftLeaf(R, q, p), NEW a \in T, a \in S PROVE \E b \in R[q] \cap T : b <= a
  <2>1. PICK b \in R[q] \cap S : b <= a
    BY <1>2, <1>5 DEF LeftLeaf
  <2>2. b \in T
    <3>1. b \in T \/ a <= b
      BY <2>1, <1>4, <1>5
    <3>2. a \in Int /\ b \in Int /\ b <= a
      BY <2>1, <1>5
    <3>3. a <= b => a = b
      BY <3>2
    <3> QED
      BY <3>1, <3>3, <1>5
  <2> QED
    BY <2>1, <2>2
<1>6. ASSUME LeftLeaf(R, q, c), NEW a \in S PROVE \E b \in R[q] \cap S : b <= a
  <2>1. PICK d \in T : d <= a
    <3>1. a \in Int /\ a <= a
      BY <1>2, <1>6
    <3> QED
      BY <3>1, <1>4, <1>6
  <2>2. PICK b \in R[q] \cap T : b <= d
    BY <2>1, <1>3, <1>6 DEF LeftLeaf
  <2>3. b \in S /\ d \in S /\ b \in Int /\ d \in Int /\ a \in Int
    BY <2>1, <2>2, <1>3
  <2> QED
    BY <2>1, <2>2, <2>3
<1> QED
  BY <1>2, <1>3, <1>5, <1>6 DEF LeftLeaf

LEMMA LeftOfLeaf ==
    ASSUME KeysDiffer, NEW h, NEW R, Filled(h, R), NEW p, IsLeaf(pages, p), NEW q
    PROVE  LeftLeaf(R, q, p) <=> q = p
<1>1. R[p] \in SUBSET Int /\ R[p] # {} /\ Shape(pages, h) /\ Routed(pages, h, R, R)
  BY LeafInside DEF Filled, Indexed, Standing
<1>2. ASSUME LeftLeaf(R, q, p) PROVE q = p
  <2>1. R[q] \cap R[p] # {} /\ IsLeaf(pages, q)
    BY <1>1, <1>2 DEF LeftLeaf
  <2> QED
    BY <2>1, <1>1, LeavesApart
<1>3. \A a \in R[p] : a <= a
  BY <1>1
<1> QED
  BY <1>2, <1>3 DEF LeftLeaf

LEMMA LeftmostExists ==
    ASSUME KeysDiffer, NEW h, NEW R, Filled(h, R)
    PROVE  \E f : IsLeftmost(f)
<1>1. PageIds = DOMAIN pages
  BY DEF PageIds, Filled, Indexed, Standing, Shape, Files
<1>2. PICK f : f = [p \in PageIds |-> IF IsNonLeaf(pages, p) THEN CHOOSE q : LeftLeaf(R, q, p) ELSE p]
  OBVIOUS
<1>3. /\ \A p \in PageIds : f[p] = IF IsNonLeaf(pages, p) THEN CHOOSE q : LeftLeaf(R, q, p) ELSE p
      /\ f = [p \in PageIds |-> f[p]]
  BY <1>2
<1>4. ASSUME NEW p \in PageIds PROVE f[p] = LeftStep(f, p)
  <2>1. CASE IsNonLeaf(pages, p)
    <3>1. PICK c : c = pages[p].kids[1]
      OBVIOUS
    <3>2. (CHOOSE q : LeftLeaf(R, q, p)) = CHOOSE q : LeftLeaf(R, q, c)
      <4>1. \A q : LeftLeaf(R, q, p) <=> LeftLeaf(R, q, c)
        BY <2>1, <3>1, LeftOfChild
      <4> QED
        BY <4>1, Zenon
    <3>3. f[p] = CHOOSE q : LeftLeaf(R, q, c)
      BY <2>1, <3>2, <1>3
    <3>4. c \in PageIds /\ IsNode(pages, c)
      <4>1. LowestPart(h, R, p, c)
        BY <2>1, <3>1, FirstChild
      <4> QED
        BY <4>1, <1>1 DEF LowestPart, IsNode, IsLeaf, IsNonLeaf
    <3>5. CASE IsNonLeaf(pages, c)
      <4>1. f[c] = f[p]
        BY <3>3, <3>4, <3>5, <1>3
      <4> QED
        BY <4>1, <3>1, <2>1 DEF LeftStep, IsNonLeaf
    <3>6. CASE IsLeaf(pages, c)
      <4>1. f[c] = c
        BY <3>4, <3>6, <1>3 DEF IsLeaf, IsNonLeaf
      <4>2. (CHOOSE q : LeftLeaf(R, q, c)) = c
        BY <3>6, LeftOfLeaf
      <4> QED
        BY <4>1, <4>2, <3>1, <3>3, <2>1 DEF LeftStep, IsNonLeaf
    <3> QED
      BY <3>4, <3>5, <3>6 DEF IsNode
  <2>2. CASE ~IsNonLeaf(pages, p)
    BY <2>2, <1>1, <1>3 DEF IsNonLeaf, LeftStep
  <2> QED
    BY <2>1, <2>2
<1>5. IsLeftmost(f)
  BY <1>3, <1>4 DEF IsLeftmost
<1> QED
  BY <1>5

LEMMA LeftmostIsLeft ==
    ASSUME KeysDiffer, NEW h, NEW R, Filled(h, R), NEW f, IsLeftmost(f)
    PROVE  \A p : IsNode(pages, p) => LeftLeaf(R, f[p], p)
<1>1. /\ PageIds = DOMAIN pages /\ \A p \in DOMAIN pages : h[p] \in Nat
  BY DEF PageIds, Filled, Indexed, Standing, Shape, Files
<1>2. \A p \in DOMAIN pages : f[p] = LeftStep(f, p)
  BY <1>1 DEF IsLeftmost
<1>3. \A p : IsNode(pages, p) => p \in DOMAIN pages
  BY DEF IsNode, IsLeaf, IsNonLeaf
<1> DEFINE Wrong(p) == IsNode(pages, p) /\ ~LeftLeaf(R, f[p], p)
           Bad == {n \in Nat : \E p : Wrong(p) /\ h[p] = n}
<1>4. Bad = {}
  <2>1. SUFFICES ASSUME Bad # {} PROVE FALSE
    OBVIOUS
  <2>2. PICK n \in Bad : \A t \in Bad : n <= t
    <3>1. Bad \in SUBSET Nat
      OBVIOUS
    <3> HIDE DEF Bad
    <3> QED
      BY <2>1, <3>1, LeastElement
  <2>3. PICK p : Wrong(p) /\ h[p] = n
    BY <2>2
  <2>4. ~IsLeaf(pages, p)
    <3>1. SUFFICES ASSUME IsLeaf(pages, p) PROVE FALSE
      OBVIOUS
    <3>2. f[p] = p
      BY <3>1, <1>2 DEF IsLeaf, LeftStep
    <3> QED
      BY <3>1, <3>2, <2>3, LeftOfLeaf
  <2>5. IsNonLeaf(pages, p)
    BY <2>3, <2>4 DEF IsNode
  <2>6. PICK c : c = pages[p].kids[1]
    OBVIOUS
  <2>7. IsNode(pages, c) /\ h[c] + 1 = h[p] /\ h[c] \in Nat
    <3>1. LowestPart(h, R, p, c)
      BY <2>5, <2>6, FirstChild
    <3> QED
      BY <3>1 DEF LowestPart
  <2>8. f[p] = f[c]
    BY <2>5, <2>6, <1>2 DEF IsNonLeaf, LeftStep
  <2>9. Wrong(c)
    BY <2>3, <2>5, <2>6, <2>7, <2>8, LeftOfChild
  <2>10. h[c] \in Bad
    BY <2>7, <2>9
  <2> QED
    <3> HIDE DEF Bad
    <3>1. n \in Nat /\ h[c] < n
      BY <2>3, <2>7, <1>1, <1>3
    <3> QED
      BY <3>1, <2>2, <2>7, <2>10
<1> QED
  BY <1>1, <1>3, <1>4

\* Only so many records are inserted.
FiniteInv == IsFiniteSet(inserted)

LEMMA NextFiniteInv == FiniteInv /\ [Next]_vars => FiniteInv'
<1>1. SUFFICES ASSUME FiniteInv, [Next]_vars PROVE FiniteInv'
  OBVIOUS
<1>2. CASE UNCHANGED inserted
  BY <1>1, <1>2 DEF FiniteInv
<1>3. ASSUME NEW e, InsertEntry(e) PROVE FiniteInv'
  <2>1. inserted' = inserted \cup {e}
    BY <1>3 DEF InsertEntry
  <2> QED
    BY <2>1, <1>1, FS_AddElement DEF FiniteInv
<1>4. CASE Reopen
  BY <1>4, FS_EmptySet DEF FiniteInv, Reopen
<1>5. CASE UNCHANGED vars
  BY <1>2, <1>5 DEF vars
<1>6. CASE StartScanRejected
  BY <1>2, <1>6 DEF StartScanRejected, Throws
<1>7. ASSUME NEW r \in Ranges, StartScanEmpty(r) \/ StartScan(r) PROVE FiniteInv'
  BY <1>2, <1>7 DEF StartScanEmpty, StartScan
<1>8. CASE ScanNext
  BY <1>2, <1>8 DEF ScanNext, Throws, ScanNextEntry, ScanNextPastEnd, Returns
<1>9. CASE EndScan
  BY <1>2, <1>9 DEF EndScan, Throws
<1> QED
  BY <1>1, <1>3, <1>4, <1>5, <1>6, <1>7, <1>8, <1>9 DEF Next

LEMMA IndexIsFinite ==
    ASSUME OneSize, KeysDiffer
    PROVE  Spec => [](IndexInv /\ RoutedInv /\ FiniteInv)
<1>1. Init => FiniteInv
  BY FS_EmptySet DEF Init, FiniteInv
<1> QED
  BY <1>1, NextFiniteInv, IndexRoutes, PTL DEF Spec

\* The leaves are chained from left to right and hold every record inserted
\* once, in key order, after any number of leaf, node and root splits: what a
\* scan walks is what the descents find.
THEOREM LeavesStayChained == ASSUME OneSize, KeysDiffer PROVE Spec => []LeafChainExact
<1>1. IndexInv /\ RoutedInv /\ FiniteInv => LeafChainExact
  <2>1. SUFFICES ASSUME IndexInv, RoutedInv, FiniteInv, inserted # {} PROVE LeafChainExact
    BY DEF LeafChainExact
  <2>2. PICK h, R : Filled(h, R)
    BY <2>1 DEF RoutedInv, IndexInv, Filled
  <2>3. PICK f, g : f = (CHOOSE l : IsLeftmost(l)) /\ g = CHOOSE w : IsEntries(w)
    OBVIOUS
  <2>4. IsLeftmost(f) /\ IsEntries(g)
    <3>1. (\E l : IsLeftmost(l)) /\ \E w : IsEntries(w)
      BY <2>1, <2>2, LeftmostExists, EntriesExist DEF FiniteInv
    <3> QED
      BY <3>1, <2>3
  <2>5. PICK q : q = f[rootPageNum]
    OBVIOUS
  <2>6. IsLeaf(pages, q) /\ \A a \in Int : \E b \in R[q] : b <= a
    <3>1. R[rootPageNum] = Int /\ IsNode(pages, rootPageNum)
      BY <2>2 DEF Filled, Indexed, Standing, IsNode
    <3> QED
      BY <3>1, <2>2, <2>4, <2>5, LeftmostIsLeft DEF LeftLeaf
  <2>7. From(R, q) = inserted
    <3>1. \A e \in inserted : e[1] \in Int
      BY <2>2, RecordsAssumption DEF Filled
    <3> QED
      BY <3>1, <2>6 DEF From
  <2>8. g[q] = InOrder(inserted)
    BY <2>1, <2>2, <2>4, <2>6, <2>7, EntriesInOrder DEF FiniteInv
  <2>9. LeafChainExact <=> (inserted # {} => g[f[rootPageNum]] = InOrder(inserted))
    BY <2>3 DEF LeafChainExact, IsLeftmost, LeftStep, IsEntries, Walk
  <2> QED
    BY <2>5, <2>8, <2>9
<1> QED
  BY <1>1, IndexIsFinite, PTL

-----------------------------------------------------------------------------
(***************************************************************************)
(* What a scan has returned, and what is still ahead of it.                *)
(***************************************************************************)
Rids(s) == [i \in DOMAIN s |-> s[i][2]]

\* The records of S above the low bound of range r, and those in the range.
Higher(S, r) == {e \in S : Above(e[1], r)}
InRange(S, r) == {e \in S : Above(e[1], r) /\ Below(e[1], r)}

\* The records from entry i of page p on.
Ahead(file, S, p, i) ==
    IF i <= Len(file[p].entries) THEN {e \in S : file[p].entries[i][1] <= e[1]} ELSE {}

\* A scan of r that stands on entry i of page p, and has returned ret.
Reading(file, S, p, i, r, ret, x) ==
    /\ i <= Len(file[p].entries) + 1
    /\ i = Len(file[p].entries) + 1 => file[p].right = 0
    /\ Ahead(file, S, p, i) \subseteq Higher(S, r)
    /\ Higher(S, r) \ Ahead(file, S, p, i) \subseteq InRange(S, r)
    /\ ret = Rids(InOrder(Higher(S, r) \ Ahead(file, S, p, i)))
    /\ x = "IndexScanCompleted" => ret = Rids(InOrder(InRange(S, r)))
    /\ x # "NoSuchKeyFound"

\* A scan that did not find a page to start on, or has none any more.
NotReading(S, r, ret, x) ==
    /\ ret = <<>> /\ x # "IndexScanCompleted"
    /\ x = "NoSuchKeyFound" => InRange(S, r) = {}

ScanInv ==
    quiet => IF scan.executing
             THEN Reading(pages, inserted, scan.page, scan.next, scan.range, returned, exc)
             ELSE NotReading(inserted, scan.range, returned, exc)

LEMMA ExpectedIsInRange ==
    ASSUME NEW r \in Ranges, inserted \subseteq Records
    PROVE  Expected(r) = Rids(InOrder(InRange(inserted, r)))
<1>1. PICK S : S = {e \in inserted : /\ e[1] > r.low \/ (e[1] = r.low /\ r.lowOp = "GTE")
                                     /\ e[1] < r.high \/ (e[1] = r.high /\ r.highOp = "LTE")}
  OBVIOUS
<1>2. Expected(r) = Rids(InOrder(S))
  BY <1>1 DEF Expected, Rids
<1>3. S = InRange(inserted, r)
  <2>1. ASSUME NEW e \in inserted PROVE e \in S <=> e \in InRange(inserted, r)
    <3>1. /\ e[1] \in Int /\ r.low \in Int /\ r.high \in Int
          /\ r.lowOp \in {"GT", "GTE"} /\ r.highOp \in {"LT", "LTE"}
      BY <2>1, RecordsAssumption, RangesAssumption
    <3>2. (e[1] > r.low \/ (e[1] = r.low /\ r.lowOp = "GTE")) <=> Above(e[1], r)
      BY <3>1 DEF Above
    <3>3. (e[1] < r.high \/ (e[1] = r.high /\ r.highOp = "LTE")) <=> Below(e[1], r)
      BY <3>1 DEF Below
    <3> QED
      BY <3>2, <3>3, <1>1 DEF InRange
  <2> QED
    BY <2>1, <1>1 DEF InRange
<1> QED
  BY <1>2, <1>3

LEMMA NoRids == Rids(InOrder({})) = <<>>
<1>1. DOMAIN InOrder({}) = {}
  <2>1. DOMAIN InOrder({}) = 1 .. Cardinality({}) /\ Cardinality({}) = 0
    BY InOrderIsFunction, FS_EmptySet
  <2> QED
    BY <2>1
<1>2. PICK f : f = Rids(InOrder({}))
  OBVIOUS
<1>3. f = [i \in {} |-> InOrder({})[i][2]]
  BY <1>1, <1>2 DEF Rids
<1> QED
  BY <1>2, <1>3

\* The rids of two parts, one after the other.
LEMMA RidsSplit ==
    ASSUME NEW A \in SUBSET Records, IsFiniteSet(A), NEW B \in SUBSET Records, IsFiniteSet(B),
           Precedes(A, B)
    PROVE  /\ \E X : Rids(InOrder(A)) \in Seq(X) /\ Rids(InOrder(B)) \in Seq(X)
           /\ Rids(InOrder(A \cup B)) = Rids(InOrder(A)) \o Rids(InOrder(B))
<1>1. PICK a, b, c : a = InOrder(A) /\ b = InOrder(B) /\ c = InOrder(A \cup B)
  OBVIOUS
<1>2. PICK n, m : n = Cardinality(A) /\ m = Cardinality(B)
  OBVIOUS
<1>3. /\ n \in Nat /\ DOMAIN a = 1 .. n /\ Len(a) = n
      /\ m \in Nat /\ DOMAIN b = 1 .. m /\ Len(b) = m
  BY <1>1, <1>2, InOrderIsSeq
<1>4. (\E X : a \in Seq(X)) /\ \E X : b \in Seq(X)
  BY <1>1, InOrderIsSeq
<1>5. c = a \o b
  BY <1>1, InOrderSplits
<1>6. PICK Xa, Xb : a \in Seq(Xa) /\ b \in Seq(Xb)
  BY <1>4
<1>7. PICK X : X = Xa \cup Xb
  OBVIOUS
<1>8. a \in Seq(X) /\ b \in Seq(X)
  BY <1>6, <1>7
<1>9. c \in Seq(X) /\ Len(c) = n + m /\ \A i \in 1 .. (n + m) : c[i] = IF i <= n THEN a[i] ELSE b[i - n]
  BY <1>3, <1>5, <1>8, ConcatProperties
<1>10. DOMAIN c = 1 .. (n + m)
  BY <1>3, <1>9
<1>11. PICK ra, rb, rc : ra = Rids(a) /\ rb = Rids(b) /\ rc = Rids(c)
  OBVIOUS
<1>12. PICK Y : Y = {a[i][2] : i \in 1 .. n} \cup {b[i][2] : i \in 1 .. m}
  OBVIOUS
<1>13. /\ ra \in [1 .. n -> Y] /\ \A i \in 1 .. n : ra[i] = a[i][2]
       /\ rb \in [1 .. m -> Y] /\ \A i \in 1 .. m : rb[i] = b[i][2]
  BY <1>3, <1>11, <1>12 DEF Rids
<1>14. rc = [i \in 1 .. (n + m) |-> rc[i]] /\ \A i \in 1 .. (n + m) : rc[i] = c[i][2]
  BY <1>10, <1>11 DEF Rids
<1>15. ra \in Seq(Y) /\ Len(ra) = n /\ rb \in Seq(Y) /\ Len(rb) = m
  BY <1>3, <1>13
<1>16. PICK d : d = ra \o rb
  OBVIOUS
<1>17. d \in Seq(Y) /\ Len(d) = n + m /\ \A i \in 1 .. (n + m) : d[i] = IF i <= n THEN ra[i] ELSE rb[i - n]
  BY <1>15, <1>16, ConcatProperties
<1>18. d = [i \in 1 .. (n + m) |-> d[i]]
  BY <1>17
<1>19. \A i \in 1 .. (n + m) : d[i] = rc[i]
  <2>1. TAKE i \in 1 .. (n + m)
  <2>2. CASE i <= n
    <3>1. i \in 1 .. n
      BY <2>2, <1>3
    <3> QED
      BY <3>1, <2>2, <1>9, <1>13, <1>14, <1>17
  <2>3. CASE i > n
    <3>1. i - n \in 1 .. m /\ ~(i <= n)
      BY <2>3, <1>3
    <3> QED
      BY <3>1, <1>9, <1>13, <1>14, <1>17
  <2> QED
    BY <2>2, <2>3, <1>3
<1>20. rc = ra \o rb
  BY <1>14, <1>16, <1>18, <1>19
<1> QED
  BY <1>1, <1>11, <1>15, <1>20

\* One record more.
LEMMA RidsAppend ==
    ASSUME NEW A \in SUBSET Records, IsFiniteSet(A), NEW e \in Records, Precedes(A, {e})
    PROVE  Rids(InOrder(A \cup {e})) = Append(Rids(InOrder(A)), e[2])
<1>1. InOrder({e}) = <<e>>
  <2>1. PICK s : s = <<e>> /\ s \in Seq(Records)
    <3>1. <<e>> \in Seq(Records)
      OBVIOUS
    <3> QED
      BY <3>1
  <2>2. DOMAIN s = {1} /\ s[1] = e
    BY <2>1
  <2>3. {s[i] : i \in DOMAIN s} = {e}
    BY <2>2
  <2>4. \A i, j \in DOMAIN s : i < j => s[i][1] < s[j][1]
    BY <2>2
  <2> QED
    BY <2>1, <2>3, <2>4, SortedIsInOrder
<1>2. Rids(<<e>>) = <<e[2]>>
  BY DEF Rids
<1>3. IsFiniteSet({e}) /\ {e} \in SUBSET Records
  BY FS_Singleton
<1>4. PICK X : Rids(InOrder(A)) \in Seq(X) /\ Rids(InOrder({e})) \in Seq(X)
  BY <1>3, RidsSplit
<1>5. Rids(InOrder(A \cup {e})) = Rids(InOrder(A)) \o <<e[2]>>
  BY <1>1, <1>2, <1>3, RidsSplit
<1>6. PICK s \in Seq(X) : s = Rids(InOrder(A))
  BY <1>4
<1>7. s \o <<e[2]>> = Append(s, e[2])
  OBVIOUS
<1> QED
  BY <1>5, <1>6, <1>7

(***************************************************************************)
(* The entries in a leaf, and the record after one of them.                *)
(***************************************************************************)
LEMMA HeldInOrder ==
    ASSUME KeysDiffer, NEW h, NEW R, Filled(h, R), NEW p, IsLeaf(pages, p)
    PROVE  /\ Len(pages[p].entries) \in Nat
           /\ \A i \in 1 .. Len(pages[p].entries) :
                /\ pages[p].entries[i] \in inserted
                /\ pages[p].entries[i][1] \in Int /\ pages[p].entries[i][1] \in R[p]
           /\ \A f \in Held(p) : \E j \in 1 .. Len(pages[p].entries) : f = pages[p].entries[j]
           /\ \A i, j \in 1 .. Len(pages[p].entries) :
                i <= j => pages[p].entries[i][1] <= pages[p].entries[j][1]
<1>1. PICK es : es = pages[p].entries
  OBVIOUS
<1>2. /\ es \in Seq(Records) /\ \A i, j \in DOMAIN es : i < j => es[i][1] < es[j][1]
      /\ Held(p) = {es[i] : i \in DOMAIN es} /\ Held(p) \subseteq inserted
      /\ \A e \in inserted : e[1] \in R[p] <=> e \in Held(p)
  BY <1>1, LeafInside DEF Held
<1>3. DOMAIN es = 1 .. Len(es) /\ Len(es) \in Nat /\ \A i \in 1 .. Len(es) : es[i] \in Records
  BY <1>2
<1>4. \A i \in 1 .. Len(es) : es[i] \in inserted /\ es[i][1] \in Int /\ es[i][1] \in R[p]
  BY <1>2, <1>3, RecordsAssumption
<1>5. \A f \in Held(p) : \E j \in 1 .. Len(es) : f = es[j]
  BY <1>2, <1>3
<1>6. \A i, j \in 1 .. Len(es) : i <= j => es[i][1] <= es[j][1]
  <2>1. TAKE i, j \in 1 .. Len(es)
  <2>2. CASE i = j
    <3>1. es[i][1] \in Int
      BY <1>4
    <3> QED
      BY <3>1, <2>2
  <2>3. CASE i < j
    <3>1. es[i][1] < es[j][1]
      BY <2>3, <1>2, <1>3
    <3>2. es[i][1] \in Int /\ es[j][1] \in Int
      BY <1>4
    <3> QED
      BY <3>1, <3>2
  <2>4. i <= j => i = j \/ i < j
    BY <1>3
  <2> QED
    BY <2>2, <2>3, <2>4
<1> QED
  BY <1>1, <1>3, <1>4, <1>5, <1>6

\* Where a leaf has a sibling: its first entry comes after every key of p.
LEMMA FirstOfSibling ==
    ASSUME KeysDiffer, NEW h, NEW R, Filled(h, R), NEW p, IsLeaf(pages, p),
           NEW s, s = pages[p].right, s # 0
    PROVE  /\ IsLeaf(pages, s) /\ 1 \in 1 .. Len(pages[s].entries)
           /\ \A a \in R[p] : a < pages[s].entries[1][1]
           /\ \A a \in R[p], e \in inserted :
                a <= e[1] /\ e[1] < pages[s].entries[1][1] => e \in Held(p)
<1>1. /\ IsLeaf(pages, s) /\ s # p /\ R[p] \in SUBSET Int /\ LeafChained(pages, R, {}, p)
      /\ \A e \in inserted : e[1] \in R[p] <=> e \in Held(p)
  BY LeafInside DEF LeafChained
<1>2. /\ R[s] \in SUBSET Int /\ Interval(R[s])
      /\ \A e \in inserted : e[1] \in R[s] <=> e \in Held(s)
  BY <1>1, LeafInside DEF LeafChained
<1>3. R[p] \cap R[s] = {}
  BY <1>1, LeavesApart DEF Filled, Indexed, Standing
<1>4. PICK k \in R[p] : k + 1 \in R[s]
  BY <1>1 DEF LeafChained
<1>5. /\ \A a \in R[p] : a <= k
      /\ \A b \in R[s] : b >= k + 1
      /\ \A a \in R[p], b \in R[s] : \A m \in Int : a <= m /\ m <= b => m \in R[p] \/ m \in R[s]
  BY <1>1, <1>2, <1>3, <1>4, Neighbours DEF LeafChained
<1>6. pages[s].entries # <<>> /\ pages[s].entries \in Seq(Records)
  BY <1>1, LeafInside, FromHere
<1>7. 1 \in 1 .. Len(pages[s].entries)
  BY <1>6
<1>8. PICK b : b = pages[s].entries[1][1]
  OBVIOUS
<1>9. /\ b \in Int /\ b \in R[s]
      /\ \A f \in Held(s) : \E j \in 1 .. Len(pages[s].entries) : f = pages[s].entries[j]
      /\ \A j \in 1 .. Len(pages[s].entries) : b <= pages[s].entries[j][1]
  <2>1. Len(pages[s].entries) \in Nat
    BY <1>1, HeldInOrder
  <2>2. b \in Int /\ b \in R[s]
    BY <1>1, <1>7, <1>8, HeldInOrder
  <2>3. \A f \in Held(s) : \E j \in 1 .. Len(pages[s].entries) : f = pages[s].entries[j]
    BY <1>1, HeldInOrder
  <2>4. ASSUME NEW j \in 1 .. Len(pages[s].entries) PROVE b <= pages[s].entries[j][1]
    <3>1. 1 <= j
      BY <2>1
    <3> QED
      BY <3>1, <1>1, <1>7, <1>8, HeldInOrder
  <2> QED
    BY <2>2, <2>3, <2>4
<1>10. ASSUME NEW a \in R[p] PROVE a < b
  <2>1. a \in Int /\ k \in Int /\ a <= k /\ b >= k + 1
    BY <1>1, <1>4, <1>5, <1>9
  <2> QED
    BY <2>1, <1>9
<1>11. ASSUME NEW a \in R[p], NEW e \in inserted, a <= e[1], e[1] < b PROVE e \in Held(p)
  <2>1. e[1] \in Int
    BY RecordsAssumption DEF Filled
  <2>2. e[1] \in R[p] \/ e[1] \in R[s]
    BY <2>1, <1>5, <1>9, <1>11
  <2>3. e[1] \notin R[s]
    BY <2>1, <1>2, <1>9, <1>11
  <2> QED
    BY <2>2, <2>3, <1>1
<1> QED
  BY <1>1, <1>7, <1>8, <1>10, <1>11

\* scanNext moves on by one record.
Passed(p, i, e, q, j) ==
    /\ e \in Ahead(pages, inserted, p, i) /\ e \in inserted
    /\ \A f \in Ahead(pages, inserted, p, i) : f = e \/ e[1] < f[1]
    /\ Ahead(pages, inserted, q, j) = Ahead(pages, inserted, p, i) \ {e}

LEMMA AheadMoves ==
    ASSUME KeysDiffer, NEW h, NEW R, Filled(h, R), NEW p, IsLeaf(pages, p),
           NEW i \in 1 .. Len(pages[p].entries), NEW s, s = pages[p].right
    PROVE  IF i = Len(pages[p].entries) /\ s # 0
           THEN /\ Passed(p, i, pages[p].entries[i], s, 1)
                /\ IsLeaf(pages, s) /\ 1 \in 1 .. Len(pages[s].entries)
           ELSE Passed(p, i, pages[p].entries[i], p, i + 1)
<1>1. PICK es, n, e : es = pages[p].entries /\ n = Len(es) /\ e = es[i]
  OBVIOUS
<1>2. /\ n \in Nat /\ i \in 1 .. n
      /\ \A j \in 1 .. n : es[j] \in inserted /\ es[j][1] \in Int /\ es[j][1] \in R[p]
      /\ \A f \in Held(p) : \E j \in 1 .. n : f = es[j]
      /\ \A k, j \in 1 .. n : k <= j => es[k][1] <= es[j][1]
  BY <1>1, HeldInOrder
<1>3. \A f \in inserted : f[1] \in Int /\ f \in Records
  BY RecordsAssumption DEF Filled
<1>4. e \in inserted /\ e[1] \in Int /\ e[1] \in R[p]
  BY <1>1, <1>2
<1>5. PICK A : A = Ahead(pages, inserted, p, i)
  OBVIOUS
<1>6. \A f : f \in A <=> f \in inserted /\ e[1] <= f[1]
  BY <1>1, <1>2, <1>5 DEF Ahead
<1>7. e \in A /\ \A f \in A : f = e \/ e[1] < f[1]
  <2>1. \A f \in A : f[1] = e[1] => f = e
    BY <1>3, <1>4, <1>6 DEF KeysDiffer
  <2> QED
    BY <2>1, <1>3, <1>4, <1>6
<1>8. CASE i < n
  <2>1. i + 1 \in 1 .. n /\ i < i + 1 /\ i # n
    BY <1>2, <1>8
  <2>2. PICK g : g = es[i + 1]
    OBVIOUS
  <2>3. g[1] \in Int /\ g[1] \in R[p] /\ e[1] < g[1]
    <3>1. g[1] \in Int /\ g[1] \in R[p]
      BY <2>1, <2>2, <1>2
    <3>2. es[i][1] < es[i + 1][1]
      BY <2>1, <1>1, <1>2, LeafInside
    <3> QED
      BY <3>1, <3>2, <2>2, <1>1
  <2>4. ASSUME NEW f \in inserted, e[1] < f[1], f[1] < g[1] PROVE FALSE
    <3>1. f[1] \in R[p]
      <4>1. Interval(R[p])
        BY LeafInside DEF LeafChained
      <4> QED
        BY <4>1, <2>3, <2>4, <1>3, <1>4 DEF Interval
    <3>2. f \in Held(p)
      BY <3>1, LeafInside
    <3>3. PICK j \in 1 .. n : f = es[j]
      BY <3>2, <1>2
    <3>4. j <= i \/ i + 1 <= j
      BY <1>2
    <3>5. es[j][1] <= es[i][1] \/ es[i + 1][1] <= es[j][1]
      BY <3>4, <2>1, <1>2
    <3>6. f[1] <= e[1] \/ g[1] <= f[1]
      BY <3>3, <3>5, <2>2, <1>1
    <3>7. f[1] \in Int /\ e[1] \in Int /\ g[1] \in Int
      BY <2>3, <1>3, <1>4
    <3> QED
      BY <3>6, <3>7, <2>4
  <2>5. \A f : f \in Ahead(pages, inserted, p, i + 1) <=> f \in inserted /\ g[1] <= f[1]
    BY <2>1, <2>2, <1>1 DEF Ahead
  <2>6. ASSUME NEW f \in inserted PROVE g[1] <= f[1] <=> e[1] <= f[1] /\ f # e
    <3>1. f[1] = e[1] => f = e
      BY <1>3, <1>4 DEF KeysDiffer
    <3> QED
      BY <3>1, <2>3, <2>4, <1>3, <1>4
  <2>7. Ahead(pages, inserted, p, i + 1) = A \ {e}
    BY <2>5, <2>6, <1>6
  <2> QED
    BY <2>1, <2>7, <1>1, <1>4, <1>5, <1>7 DEF Passed
<1>9. CASE i = n /\ s = 0
  <2>1. ASSUME NEW f \in A PROVE f = e
    <3>1. f \in From(R, p)
      BY <1>4, <1>6 DEF From
    <3>2. f \in Held(p)
      BY <3>1, <1>9, FromHere
    <3>3. PICK j \in 1 .. n : f = es[j]
      BY <3>2, <1>2
    <3>4. f[1] <= e[1]
      BY <3>3, <1>1, <1>2, <1>9
    <3> QED
      BY <3>4, <1>3, <1>4, <1>6, <1>7
  <2>2. Ahead(pages, inserted, p, i + 1) = {}
    BY <1>1, <1>2, <1>9 DEF Ahead
  <2>3. A \ {e} = {}
    BY <2>1
  <2> QED
    BY <2>2, <2>3, <1>1, <1>4, <1>5, <1>7, <1>9 DEF Passed
<1>10. CASE i = n /\ s # 0
  <2>1. PICK b : b = pages[s].entries[1][1]
    OBVIOUS
  <2>2. /\ IsLeaf(pages, s) /\ 1 \in 1 .. Len(pages[s].entries) /\ e[1] < b
        /\ \A f \in inserted : e[1] <= f[1] /\ f[1] < b => f \in Held(p)
    BY <2>1, <1>4, <1>10, FirstOfSibling
  <2>3. b \in Int
    BY <2>1, <2>2, HeldInOrder
  <2>4. \A f : f \in Ahead(pages, inserted, s, 1) <=> f \in inserted /\ b <= f[1]
    BY <2>1, <2>2 DEF Ahead
  <2>5. ASSUME NEW f \in inserted, e[1] <= f[1], f[1] < b PROVE f = e
    <3>1. PICK j \in 1 .. n : f = es[j]
      BY <2>2, <2>5, <1>2
    <3>2. f[1] <= e[1]
      BY <3>1, <1>1, <1>2, <1>10
    <3> QED
      BY <3>2, <2>5, <1>3, <1>4, <1>6, <1>7
  <2>6. ASSUME NEW f \in inserted PROVE b <= f[1] <=> e[1] <= f[1] /\ f # e
    BY <2>2, <2>3, <2>5, <1>3, <1>4
  <2>7. Ahead(pages, inserted, s, 1) = A \ {e}
    BY <2>4, <2>6, <1>6
  <2> QED
    BY <2>2, <2>7, <1>1, <1>4, <1>5, <1>7, <1>10 DEF Passed
<1> QED
  BY <1>1, <1>2, <1>8, <1>9, <1>10
\* The scan gives out record e and moves on.
LEMMA ReadsOne ==
    ASSUME FiniteInv, inserted \subseteq Records, NEW r \in Ranges,
           NEW p, NEW i, NEW ret, NEW x, Reading(pages, inserted, p, i, r, ret, x),
           NEW e, e = pages[p].entries[i], NEW q, NEW j, Passed(p, i, e, q, j), Below(e[1], r),
           j <= Len(pages[q].entries) + 1, j = Len(pages[q].entries) + 1 => pages[q].right = 0
    PROVE  Reading(pages, inserted, q, j, r, Append(ret, e[2]), "none")
<1>1. PICK A, B, H, D : /\ A = Ahead(pages, inserted, p, i) /\ B = Ahead(pages, inserted, q, j)
                        /\ H = Higher(inserted, r) /\ D = H \ A
  OBVIOUS
<1>2. /\ A \subseteq H /\ D \subseteq InRange(inserted, r) /\ ret = Rids(InOrder(D))
      /\ e \in A /\ e \in inserted /\ B = A \ {e}
  BY <1>1 DEF Reading, Passed
<1>3. H \ B = D \cup {e} /\ B \subseteq H
  BY <1>1, <1>2
<1>4. \A f \in inserted : f \in Records /\ f[1] \in Int
  BY RecordsAssumption
<1>5. H \subseteq inserted /\ D \subseteq inserted
  BY <1>1 DEF Higher
<1>6. Precedes(D, {e})
  <2>1. A = {f \in inserted : e[1] <= f[1]}
    BY <1>1, <1>2 DEF Ahead
  <2>2. ASSUME NEW f \in D PROVE f[1] < e[1]
    <3>1. ~(e[1] <= f[1]) /\ f[1] \in Int /\ e[1] \in Int
      BY <2>1, <2>2, <1>1, <1>2, <1>4, <1>5
    <3> QED
      BY <3>1
  <2> QED
    BY <2>2 DEF Precedes
<1>7. Rids(InOrder(D \cup {e})) = Append(ret, e[2])
  <2>1. IsFiniteSet(D)
    BY <1>5, FS_Subset DEF FiniteInv
  <2>2. D \in SUBSET Records /\ e \in Records
    BY <1>2, <1>4, <1>5
  <2> QED
    BY <2>1, <2>2, <1>2, <1>6, RidsAppend
<1>8. e \in InRange(inserted, r)
  BY <1>1, <1>2 DEF Higher, InRange
<1>9. D \cup {e} \subseteq InRange(inserted, r)
  BY <1>2, <1>8
<1> QED
  BY <1>1, <1>3, <1>7, <1>9 DEF Reading

\* The scan stands on a record above its range: it has returned all of it.
LEMMA ReadsPastRange ==
    ASSUME inserted \subseteq Records, NEW r \in Ranges,
           NEW p, NEW i, NEW ret, NEW x, Reading(pages, inserted, p, i, r, ret, x),
           NEW e, NEW q, NEW j, Passed(p, i, e, q, j), ~Below(e[1], r)
    PROVE  Reading(pages, inserted, p, i, r, ret, "IndexScanCompleted")
<1>1. PICK A, H, D : /\ A = Ahead(pages, inserted, p, i)
                     /\ H = Higher(inserted, r) /\ D = H \ A
  OBVIOUS
<1>2. /\ A \subseteq H /\ D \subseteq InRange(inserted, r) /\ ret = Rids(InOrder(D))
      /\ \A f \in A : f = e \/ e[1] < f[1]
  BY <1>1 DEF Reading, Passed
<1>3. \A f \in inserted : f[1] \in Int
  BY RecordsAssumption
<1>4. e \in inserted
  BY DEF Passed
<1>5. ASSUME NEW f \in A PROVE ~Below(f[1], r)
  <2>1. f[1] \in Int /\ e[1] \in Int /\ r.high \in Int
    BY <1>1, <1>2, <1>3, <1>4, <1>5, RangesAssumption DEF Higher
  <2>2. f = e \/ e[1] < f[1]
    BY <1>2, <1>5
  <2> QED
    BY <2>1, <2>2 DEF Below
<1>6. InRange(inserted, r) = D
  <2>1. InRange(inserted, r) \subseteq H
    BY <1>1 DEF Higher, InRange
  <2>2. \A f \in InRange(inserted, r) : Below(f[1], r)
    BY DEF InRange
  <2> QED
    BY <2>1, <2>2, <1>1, <1>2, <1>5
<1> QED
  BY <1>1, <1>2, <1>6 DEF Reading

\* The scan stands behind the last record.
LEMMA ReadsToTheEnd ==
    ASSUME NEW r, NEW p, NEW i, i = Len(pages[p].entries) + 1, Len(pages[p].entries) \in Nat,
           NEW ret, NEW x, Reading(pages, inserted, p, i, r, ret, x)
    PROVE  Reading(pages, inserted, p, i, r, ret, "IndexScanCompleted")
<1>1. PICK A, H : A = Ahead(pages, inserted, p, i) /\ H = Higher(inserted, r)
  OBVIOUS
<1>2. ~(i <= Len(pages[p].entries))
  OBVIOUS
<1>3. A = {}
  BY <1>1, <1>2 DEF Ahead
<1>4. InRange(inserted, r) = H \ A
  <2>1. H \ A = H /\ InRange(inserted, r) \subseteq H
    BY <1>1, <1>3 DEF Higher, InRange
  <2>2. H \ A \subseteq InRange(inserted, r)
    BY <1>1 DEF Reading
  <2> QED
    BY <2>1, <2>2
<1> QED
  BY <1>1, <1>4 DEF Reading

\* scanNext keeps what has been returned exact.
LEMMA ScanNextReads ==
    ASSUME KeysDiffer, IndexInv, RoutedInv, FiniteInv, ScanInv, quiet, scan.executing,
           (AtEnd /\ Throws("IndexScanCompleted")) \/ ScanNextEntry \/ ScanNextPastEnd
    PROVE  ScanInv'
<1>1. PICK p, i, r : p = scan.page /\ i = scan.next /\ r = scan.range
  OBVIOUS
<1>2. /\ IsLeaf(pages, p) /\ i \in Nat \ {0} /\ r \in Ranges /\ inserted \subseteq Records
      /\ Reading(pages, inserted, p, i, r, returned, exc)
  <2>1. scan.next \in 1 .. (LeafOcc + 1) /\ scan.range \in Ranges
    BY DEF IndexInv, ScanStands
  <2> QED
    BY <2>1, <1>1, LeafOccAssumption DEF IndexInv, ScanStands, ScanInv
<1>3. PICK h, R : Filled(h, R)
  <2>1. CASE Fresh(pages, rootPageNum) /\ \E h : Standing(pages, h, rootPageNum)
    BY <2>1, <1>2 DEF Fresh, IsNode, IsLeaf, Standing, IsNonLeaf
  <2> QED
    BY <2>1 DEF RoutedInv, IndexInv, Filled
<1>4. PICK n, s, e : /\ n = Len(pages[p].entries) /\ s = pages[p].right
                     /\ e = pages[p].entries[i]
  OBVIOUS
<1>5. n \in Nat /\ i <= n + 1 /\ (i = n + 1 => s = 0)
  BY <1>2, <1>3, <1>4, HeldInOrder DEF Reading
<1>6. ASSUME UNCHANGED <<pages, inserted, quiet, scan, returned>>, exc' = "IndexScanCompleted",
             Reading(pages, inserted, p, i, r, returned, "IndexScanCompleted")
      PROVE  ScanInv'
  <2>1. /\ pages' = pages /\ inserted' = inserted /\ scan' = scan /\ returned' = returned
        /\ exc' = "IndexScanCompleted"
    BY <1>6
  <2> QED
    BY <2>1, <1>1, <1>6 DEF ScanInv
<1>7. CASE AtEnd /\ Throws("IndexScanCompleted")
  <2>1. Reading(pages, inserted, p, i, r, returned, "IndexScanCompleted")
    BY <1>1, <1>2, <1>4, <1>5, <1>7, ReadsToTheEnd DEF AtEnd
  <2> QED
    BY <2>1, <1>6, <1>7 DEF Throws
<1>8. CASE ScanNextPastEnd
  <2>1. i > n /\ ~(i = n + 1 /\ s = 0)
    BY <1>1, <1>4, <1>8 DEF ScanNextPastEnd, AtEnd
  <2> QED
    BY <2>1, <1>2, <1>5
<1>9. CASE ScanNextEntry
  <2>1. i \in 1 .. n
    BY <1>1, <1>2, <1>4, <1>5, <1>9 DEF ScanNextEntry
  <2>2. PICK q, j : /\ q = (IF i = n /\ s # 0 THEN s ELSE p)
                    /\ j = (IF i = n /\ s # 0 THEN 1 ELSE i + 1)
    OBVIOUS
  <2>3. /\ Passed(p, i, e, q, j)
        /\ i = n /\ s # 0 => 1 \in 1 .. Len(pages[s].entries)
    BY <2>1, <2>2, <1>2, <1>3, <1>4, AheadMoves
  <2>4. j <= Len(pages[q].entries) + 1 /\ (j = Len(pages[q].entries) + 1 => pages[q].right = 0)
    <3>1. CASE i = n /\ s # 0
      <4>1. IsLeaf(pages, s)
        BY <3>1, <1>2, <1>3, <1>4, LeafInside
      <4>2. Len(pages[s].entries) \in Nat /\ 1 <= Len(pages[s].entries)
        BY <3>1, <4>1, <2>3, <1>3, HeldInOrder
      <4> QED
        BY <3>1, <4>2, <2>2
    <3>2. CASE ~(i = n /\ s # 0)
      BY <3>2, <2>1, <2>2, <1>4, <1>5
    <3> QED
      BY <3>1, <3>2
  <2>5. CASE Below(e[1], r)
    <3>1. Reading(pages, inserted, q, j, r, Append(returned, e[2]), "none")
      BY <2>3, <2>4, <2>5, <1>2, <1>4, ReadsOne
    <3>2. /\ Returns /\ returned' = Append(returned, e[2])
          /\ IF i = n /\ s # 0
             THEN scan' = [scan EXCEPT !.page = s, !.next = 1]
             ELSE scan' = [scan EXCEPT !.next = @ + 1]
      BY <2>5, <1>1, <1>4, <1>9 DEF ScanNextEntry
    <3>3. /\ scan'.page = q /\ scan'.next = j /\ scan'.range = r /\ scan'.executing
      <4>1. scan \in [executing : BOOLEAN, page : Nat, next : 1 .. (LeafOcc + 1), range : Ranges]
        BY DEF IndexInv, ScanStands
      <4> QED
        BY <4>1, <3>2, <2>2, <1>1
    <3>4. pages' = pages /\ inserted' = inserted /\ exc' = "none"
      BY <3>2 DEF Returns
    <3> QED
      BY <3>1, <3>2, <3>3, <3>4 DEF ScanInv
  <2>6. CASE ~Below(e[1], r)
    <3>1. Reading(pages, inserted, p, i, r, returned, "IndexScanCompleted")
      BY <2>3, <2>6, <1>2, ReadsPastRange
    <3>2. Throws("IndexScanCompleted")
      BY <2>6, <1>1, <1>4, <1>9 DEF ScanNextEntry
    <3> QED
      BY <3>1, <3>2, <1>6 DEF Throws
  <2> QED
    BY <2>5, <2>6
<1> QED
  BY <1>7, <1>8, <1>9

\* Where startScan starts: all that is above the low bound is ahead.
LEMMA AboveTheLow ==
    ASSUME NEW r \in Ranges, NEW a \in Int
    PROVE  /\ Above(a, r) => r.low <= a
           /\ r.low < a => Above(a, r)
           /\ \A b \in Int : Above(a, r) /\ a <= b => Above(b, r)
<1>1. r.low \in Int
  BY RangesAssumption
<1> QED
  BY <1>1 DEF Above

StartAhead(p, r, s, above) ==
    /\ above # {} => /\ Least(above) \in 1 .. Len(pages[p].entries)
                     /\ Ahead(pages, inserted, p, Least(above)) = Higher(inserted, r)
    /\ above = {} /\ s = 0 => Higher(inserted, r) = {}
    /\ above = {} /\ s # 0 => /\ IsLeaf(pages, s) /\ 1 \in 1 .. Len(pages[s].entries)
                              /\ Ahead(pages, inserted, s, 1) = Higher(inserted, r)

LEMMA StartsAhead ==
    ASSUME KeysDiffer, NEW h, NEW R, Filled(h, R), NEW p, IsLeaf(pages, p),
           NEW r \in Ranges, r.low \in R[p], NEW s, s = pages[p].right,
           NEW above, above = {k \in DOMAIN pages[p].entries : Above(pages[p].entries[k][1], r)}
    PROVE  StartAhead(p, r, s, above)
<1>1. PICK es, n, low : es = pages[p].entries /\ n = Len(es) /\ low = r.low
  OBVIOUS
<1>2. /\ n \in Nat /\ DOMAIN es = 1 .. n
      /\ \A j \in 1 .. n : es[j] \in inserted /\ es[j][1] \in Int /\ es[j][1] \in R[p]
      /\ \A f \in Held(p) : \E j \in 1 .. n : f = es[j]
      /\ \A k, j \in 1 .. n : k <= j => es[k][1] <= es[j][1]
  <2>1. es \in Seq(Records)
    BY <1>1, LeafInside
  <2>2. DOMAIN es = 1 .. n
    BY <2>1, <1>1
  <2> QED
    BY <2>2, <1>1, HeldInOrder
<1>3. /\ Interval(R[p]) /\ R[p] \in SUBSET Int
      /\ \A f \in inserted : f[1] \in R[p] <=> f \in Held(p)
  BY LeafInside DEF LeafChained
<1>4. low \in Int /\ low \in R[p] /\ \A f \in inserted : f[1] \in Int
  BY <1>1, RangesAssumption, RecordsAssumption DEF Filled
<1>5. \A f \in inserted : f \in Higher(inserted, r) <=> Above(f[1], r)
  BY DEF Higher
<1>6. ASSUME NEW f \in inserted, f \in Held(p), Above(f[1], r)
      PROVE  \E j \in above : f = es[j]
  BY <1>1, <1>2, <1>6
<1>7. ASSUME above # {}
      PROVE  /\ Least(above) \in 1 .. n
             /\ Ahead(pages, inserted, p, Least(above)) = Higher(inserted, r)
  <2>1. PICK i : i = Least(above)
    OBVIOUS
  <2>2. i \in above /\ \A j \in above : i <= j
    <3>1. above \in SUBSET Nat
      BY <1>1, <1>2
    <3> QED
      BY <3>1, <2>1, <1>7, LeastIsFirst
  <2>3. i \in 1 .. n /\ i <= n /\ Above(es[i][1], r)
    BY <2>2, <1>1, <1>2
  <2>4. PICK b \in Int : b = es[i][1] /\ b \in R[p]
    BY <2>3, <1>2
  <2>5. ASSUME NEW f \in inserted PROVE b <= f[1] <=> Above(f[1], r)
    <3>1. b <= f[1] => Above(f[1], r)
      BY <2>3, <2>4, <1>4, AboveTheLow
    <3>2. ASSUME Above(f[1], r), f[1] < b PROVE FALSE
      <4>1. low <= f[1]
        BY <3>2, <1>1, <1>4, AboveTheLow
      <4>2. f \in Held(p)
        BY <4>1, <3>2, <2>4, <1>3, <1>4 DEF Interval
      <4>3. PICK j \in above : f = es[j]
        BY <4>2, <3>2, <1>6
      <4>4. j \in 1 .. n /\ i <= j
        BY <4>3, <2>2, <1>1, <1>2
      <4>5. es[i][1] <= es[j][1]
        BY <4>4, <2>3, <1>2
      <4> QED
        BY <4>3, <4>5, <3>2, <2>4, <1>4
    <3> QED
      BY <3>1, <3>2, <2>4, <1>4
  <2>6. Ahead(pages, inserted, p, i) = {f \in inserted : b <= f[1]}
    BY <2>3, <2>4, <1>1 DEF Ahead
  <2>7. Ahead(pages, inserted, p, i) = Higher(inserted, r)
    BY <2>5, <2>6 DEF Higher
  <2> QED
    BY <2>1, <2>3, <2>7
<1>8. ASSUME above = {}, s = 0 PROVE Higher(inserted, r) = {}
  <2>1. ASSUME NEW f \in inserted, Above(f[1], r) PROVE FALSE
    <3>1. low <= f[1]
      BY <2>1, <1>1, <1>4, AboveTheLow
    <3>2. f \in From(R, p)
      BY <3>1, <1>4 DEF From
    <3>3. f \in Held(p)
      BY <3>2, <1>8, FromHere
    <3> QED
      BY <3>3, <2>1, <1>6, <1>8
  <2> QED
    BY <2>1 DEF Higher
<1>9. ASSUME above = {}, s # 0
      PROVE  /\ IsLeaf(pages, s) /\ 1 \in 1 .. Len(pages[s].entries)
             /\ Ahead(pages, inserted, s, 1) = Higher(inserted, r)
  <2>1. PICK b : b = pages[s].entries[1][1]
    OBVIOUS
  <2>2. /\ IsLeaf(pages, s) /\ 1 \in 1 .. Len(pages[s].entries) /\ low < b
        /\ \A f \in inserted : low <= f[1] /\ f[1] < b => f \in Held(p)
    BY <2>1, <1>4, <1>9, FirstOfSibling
  <2>3. b \in Int /\ Len(pages[s].entries) \in Nat
    BY <2>1, <2>2, HeldInOrder
  <2>4. Ahead(pages, inserted, s, 1) = {f \in inserted : b <= f[1]}
    BY <2>1, <2>2, <2>3 DEF Ahead
  <2>5. ASSUME NEW f \in inserted PROVE b <= f[1] <=> Above(f[1], r)
    <3>1. b <= f[1] => Above(f[1], r)
      <4>1. b <= f[1] => low < f[1]
        BY <2>2, <2>3, <1>4
      <4> QED
        BY <4>1, <1>1, <1>4, AboveTheLow
    <3>2. ASSUME Above(f[1], r), f[1] < b PROVE FALSE
      <4>1. low <= f[1]
        BY <3>2, <1>1, <1>4, AboveTheLow
      <4> QED
        BY <4>1, <3>2, <2>2, <1>6, <1>9
    <3> QED
      BY <3>1, <3>2, <2>3, <1>4
  <2> QED
    BY <2>2, <2>4, <2>5 DEF Higher
<1> QED
  BY <1>1, <1>7, <1>8, <1>9 DEF StartAhead

\* startScan leaves a scan that has all of its range ahead.
LEMMA ReadingStarts ==
    ASSUME NEW r, NEW p, NEW i, i <= Len(pages[p].entries), Len(pages[p].entries) \in Nat,
           i \in Nat, Ahead(pages, inserted, p, i) = Higher(inserted, r)
    PROVE  Reading(pages, inserted, p, i, r, <<>>, "none")
<1>1. Higher(inserted, r) \ Ahead(pages, inserted, p, i) = {}
  OBVIOUS
<1>2. i # Len(pages[p].entries) + 1 /\ i <= Len(pages[p].entries) + 1
  OBVIOUS
<1>3. Rids(InOrder(Higher(inserted, r) \ Ahead(pages, inserted, p, i))) = <<>>
  BY <1>1, NoRids
<1> QED
  BY <1>1, <1>2, <1>3 DEF Reading

LEMMA StartScanReads ==
    ASSUME KeysDiffer, IndexInv, RoutedInv, NEW r \in Ranges, StartScan(r)
    PROVE  ScanInv'
<1>1. PICK p, s, above :
        /\ p = LeafFor(r.low) /\ s = pages[p].right
        /\ above = {i \in DOMAIN pages[p].entries : Above(pages[p].entries[i][1], r)}
  OBVIOUS
<1>2. /\ p # 0
      /\ \/ /\ above # {} /\ exc' = "none"
            /\ scan' = [executing |-> TRUE, page |-> p, next |-> Least(above), range |-> r]
         \/ /\ above = {} /\ s = 0 /\ exc' = "NoSuchKeyFound"
            /\ scan' = [NoScan EXCEPT !.range = r]
         \/ /\ above = {} /\ s # 0 /\ exc' = "none"
            /\ scan' = [executing |-> TRUE, page |-> s, next |-> 1, range |-> r]
  BY <1>1 DEF StartScan
<1>3. pages' = pages /\ inserted' = inserted /\ returned' = <<>>
  BY DEF StartScan
<1>4. r.low \in Int
  BY RangesAssumption
<1>5. IsLeaf(pages, p)
  <2>1. PICK h : Standing(pages, h, rootPageNum)
    BY DEF IndexInv
  <2> QED
    BY <2>1, <1>1, <1>2, <1>4, LeafOfPath
<1>6. PICK h, R : Filled(h, R)
  <2>1. CASE Fresh(pages, rootPageNum) /\ \E h : Standing(pages, h, rootPageNum)
    BY <2>1, <1>5 DEF Fresh, IsNode, IsLeaf, Standing, IsNonLeaf
  <2> QED
    BY <2>1 DEF RoutedInv, IndexInv, Filled
<1>7. StartAhead(p, r, s, above)
  <2>1. r.low \in R[p]
    BY <1>1, <1>4, <1>6, DescentEnds DEF Filled
  <2> QED
    BY <2>1, <1>1, <1>5, <1>6, StartsAhead
<1>8. ASSUME NEW q, IsLeaf(pages, q), NEW i, i \in 1 .. Len(pages[q].entries),
             Ahead(pages, inserted, q, i) = Higher(inserted, r), exc' = "none",
             scan' = [executing |-> TRUE, page |-> q, next |-> i, range |-> r]
      PROVE  ScanInv'
  <2>1. Len(pages[q].entries) \in Nat
    BY <1>6, <1>8, HeldInOrder
  <2>2. Reading(pages, inserted, q, i, r, <<>>, "none")
    BY <2>1, <1>8, ReadingStarts
  <2>3. scan'.executing /\ scan'.page = q /\ scan'.next = i /\ scan'.range = r
    BY <1>8
  <2> QED
    BY <2>2, <2>3, <1>3, <1>8 DEF ScanInv
<1>9. CASE above # {} /\ scan' = [executing |-> TRUE, page |-> p, next |-> Least(above), range |-> r]
           /\ exc' = "none"
  <2>1. PICK i : i = Least(above)
    OBVIOUS
  <2>2. i \in 1 .. Len(pages[p].entries) /\ Ahead(pages, inserted, p, i) = Higher(inserted, r)
    BY <2>1, <1>7, <1>9 DEF StartAhead
  <2> QED
    BY <2>1, <2>2, <1>5, <1>8, <1>9
<1>10. CASE above = {} /\ s # 0 /\ exc' = "none"
            /\ scan' = [executing |-> TRUE, page |-> s, next |-> 1, range |-> r]
  <2>1. /\ IsLeaf(pages, s) /\ 1 \in 1 .. Len(pages[s].entries)
        /\ Ahead(pages, inserted, s, 1) = Higher(inserted, r)
    BY <1>7, <1>10 DEF StartAhead
  <2> QED
    BY <2>1, <1>8, <1>10
<1>11. CASE above = {} /\ s = 0 /\ exc' = "NoSuchKeyFound" /\ scan' = [NoScan EXCEPT !.range = r]
  <2>1. Higher(inserted, r) = {}
    BY <1>7, <1>11 DEF StartAhead
  <2>2. InRange(inserted, r) = {}
    BY <2>1 DEF Higher, InRange
  <2>3. ~scan'.executing /\ scan'.range = r
    BY <1>11 DEF NoScan
  <2> QED
    BY <2>2, <2>3, <1>3, <1>11 DEF ScanInv, NotReading
<1> QED
  BY <1>2, <1>9, <1>10, <1>11

LEMMA StartScanEmptyReads ==
    ASSUME IndexInv, RoutedInv, NEW r \in Ranges, StartScanEmpty(r)
    PROVE  ScanInv'
<1>1. /\ LeafFor(r.low) = 0 /\ scan' = [NoScan EXCEPT !.range = r] /\ exc' = "NoSuchKeyFound"
      /\ returned' = <<>> /\ inserted' = inserted
  BY DEF StartScanEmpty
<1>2. inserted = {}
  <2>1. r.low \in Int
    BY RangesAssumption
  <2> QED
    BY <2>1, <1>1, DescentEnds DEF RoutedInv
<1>3. InRange(inserted', r) = {}
  BY <1>1, <1>2 DEF InRange
<1>4. ~scan'.executing /\ scan'.range = r
  BY <1>1 DEF NoScan
<1> QED
  BY <1>1, <1>3, <1>4 DEF ScanInv, NotReading

LEMMA NextScanInv ==
    ASSUME KeysDiffer, IndexInv, RoutedInv, FiniteInv, ScanInv, [Next]_vars
    PROVE  ScanInv'
<1>1. ASSUME UNCHANGED <<pages, inserted, scan, quiet, returned>>, exc' \in {exc, "Rejected"}
      PROVE  ScanInv'
  <2>1. /\ pages' = pages /\ inserted' = inserted /\ scan' = scan /\ quiet' = quiet
        /\ returned' = returned
    BY <1>1
  <2>2. CASE exc' = exc
    BY <2>1, <2>2 DEF ScanInv
  <2>3. CASE exc' = "Rejected"
    <3>1. ASSUME Reading(pages, inserted, scan.page, scan.next, scan.range, returned, exc)
          PROVE  Reading(pages, inserted, scan.page, scan.next, scan.range, returned, "Rejected")
      BY <3>1 DEF Reading
    <3>2. ASSUME NotReading(inserted, scan.range, returned, exc)
          PROVE  NotReading(inserted, scan.range, returned, "Rejected")
      BY <3>2 DEF NotReading
    <3> QED
      BY <2>1, <2>3, <3>1, <3>2 DEF ScanInv
  <2> QED
    BY <1>1, <2>2, <2>3
<1>2. ASSUME quiet' = FALSE PROVE ScanInv'
  BY <1>2 DEF ScanInv
<1>3. ASSUME NEW e, InsertEntry(e) PROVE ScanInv'
  BY <1>3, <1>2 DEF InsertEntry
<1>4. CASE Reopen
  BY <1>4, <1>2 DEF Reopen
<1>5. CASE UNCHANGED vars
  BY <1>1, <1>5 DEF vars
<1>6. CASE StartScanRejected
  BY <1>1, <1>6 DEF StartScanRejected, Throws
<1>7. ASSUME NEW r \in Ranges, StartScanEmpty(r) \/ StartScan(r) PROVE ScanInv'
  BY <1>7, StartScanReads, StartScanEmptyReads
<1>8. CASE ScanNext
  <2>1. CASE ~scan.executing /\ Throws("Rejected")
    BY <2>1, <1>1 DEF Throws
  <2>2. CASE /\ scan.executing
             /\ (AtEnd /\ Throws("IndexScanCompleted")) \/ ScanNextEntry \/ ScanNextPastEnd
    <3>1. CASE quiet
      BY <2>2, <3>1, ScanNextReads
    <3>2. CASE ~quiet
      <4>1. quiet' = quiet
        BY <2>2 DEF Throws, ScanNextEntry, ScanNextPastEnd, Returns
      <4> QED
        BY <4>1, <3>2 DEF ScanInv
    <3> QED
      BY <3>1, <3>2
  <2> QED
    BY <2>1, <2>2, <1>8 DEF ScanNext
<1>9. CASE EndScan
  <2>1. CASE ~scan.executing /\ Throws("Rejected")
    BY <2>1, <1>1 DEF Throws
  <2> QED
    BY <2>1, <1>2, <1>9 DEF EndScan
<1> QED
  BY <1>3, <1>4, <1>5, <1>6, <1>7, <1>8, <1>9 DEF Next

\* The part of a range a scan has returned is a prefix of the range.
LEMMA PartIsPrefix ==
    ASSUME NEW A \in SUBSET Records, IsFiniteSet(A), NEW B \in SUBSET Records, IsFiniteSet(B),
           Precedes(A, B)
    PROVE  IsPrefix(Rids(InOrder(A)), Rids(InOrder(A \cup B)))
<1>1. PICK a, b : a = Rids(InOrder(A)) /\ b = Rids(InOrder(B))
  OBVIOUS
<1>2. Rids(InOrder(A \cup B)) = a \o b /\ \E X : a \in Seq(X) /\ b \in Seq(X)
  BY <1>1, RidsSplit
<1>3. PICK X : a \in Seq(X) /\ b \in Seq(X)
  BY <1>2
<1>4. PICK c : c = a \o b
  OBVIOUS
<1>5. /\ c \in Seq(X) /\ Len(c) = Len(a) + Len(b) /\ Len(a) \in Nat /\ Len(b) \in Nat
      /\ \A i \in 1 .. Len(c) : c[i] = IF i <= Len(a) THEN a[i] ELSE b[i - Len(a)]
  BY <1>3, <1>4, ConcatProperties
<1>6. Len(a) <= Len(c)
  BY <1>5
<1>7. PICK n : n = Len(a)
  OBVIOUS
<1>8. SubSeq(c, 1, n) = [i \in 1 .. n |-> c[i]]
  BY <1>5, <1>7
<1>9. a = [i \in 1 .. n |-> a[i]]
  BY <1>3, <1>7
<1>10. \A i \in 1 .. n : c[i] = a[i]
  BY <1>5, <1>6, <1>7
<1>11. SubSeq(c, 1, n) = a
  BY <1>8, <1>9, <1>10
<1>12. SubSeq(a, 1, n) = a
  <2>1. SubSeq(a, 1, n) = [i \in 1 .. n |-> a[i]]
    BY <1>5, <1>7
  <2> QED
    BY <2>1, <1>9
<1>13. IsPrefix(a, c)
  BY <1>6, <1>7, <1>11, <1>12 DEF IsPrefix
<1> QED
  BY <1>1, <1>2, <1>4, <1>13

\* With one array size and a key per record, a scan returns the rids of its
\* range, all of them, once and in key order, as long as nothing is inserted:
\* wherever its bounds fall in the leaves and however they were split.
THEOREM ScansReturnTheirRange == ASSUME OneSize, KeysDiffer PROVE Spec => []ScanExact
<1>1. Init => ScanInv
  BY DEF Init, ScanInv
<1>2. IndexInv /\ FiniteInv /\ ScanInv => ScanExact
  <2>1. SUFFICES ASSUME IndexInv, FiniteInv, ScanInv, quiet PROVE ScanExact
    BY DEF ScanExact
  <2>2. PICK r : r = scan.range
    OBVIOUS
  <2>3. r \in Ranges /\ inserted \subseteq Records
    BY <2>1, <2>2 DEF IndexInv, ScanStands
  <2>4. PICK I : I = InRange(inserted, r)
    OBVIOUS
  <2>5. Expected(r) = Rids(InOrder(I))
    BY <2>3, <2>4, ExpectedIsInRange
  <2>6. I \in SUBSET Records /\ IsFiniteSet(I)
    <3>1. I \subseteq inserted
      BY <2>4 DEF InRange
    <3> QED
      BY <3>1, <2>1, <2>3, FS_Subset DEF FiniteInv
  <2>7. CASE scan.executing
    <3>1. PICK p, i : p = scan.page /\ i = scan.next
      OBVIOUS
    <3>2. Reading(pages, inserted, p, i, r, returned, exc)
      BY <2>1, <2>2, <2>7, <3>1 DEF ScanInv
    <3>3. PICK A, D : A = Ahead(pages, inserted, p, i) /\ D = Higher(inserted, r) \ A
      OBVIOUS
    <3>4. D \subseteq I /\ returned = Rids(InOrder(D))
      BY <3>2, <3>3, <2>4 DEF Reading
    <3>5. Precedes(D, I \ D)
      <4>1. ASSUME NEW f \in D, NEW g \in I \ D PROVE f[1] < g[1]
        <5>1. f \in inserted /\ f \notin A /\ g \in inserted /\ g \in A
          BY <3>3, <4>1, <2>4 DEF Higher, InRange
        <5>2. PICK b : b = pages[p].entries[i][1]
          OBVIOUS
        <5>3. A = {e \in inserted : b <= e[1]}
          BY <5>1, <5>2, <3>3 DEF Ahead
        <5>4. b \in Int
          <6>1. PICK h : Shape(pages, h)
            BY <2>1 DEF IndexInv, Standing
          <6>2. IsLeaf(pages, p) /\ i \in Nat \ {0}
            BY <2>1, <2>7, <3>1, LeafOccAssumption DEF IndexInv, ScanStands
          <6>3. pages[p].entries \in Seq(Records)
            BY <6>1, <6>2, LeafIsTyped
          <6>4. i <= Len(pages[p].entries)
            BY <5>1, <3>3 DEF Ahead
          <6>5. pages[p].entries[i] \in Records
            BY <6>2, <6>3, <6>4
          <6> QED
            BY <6>5, <5>2, RecordsAssumption
        <5>5. f[1] \in Int /\ g[1] \in Int /\ ~(b <= f[1]) /\ b <= g[1]
          BY <5>1, <5>3, <2>3, RecordsAssumption
        <5> QED
          BY <5>4, <5>5
      <4> QED
        BY <4>1 DEF Precedes
    <3>6. D \cup (I \ D) = I /\ D \in SUBSET Records /\ (I \ D) \in SUBSET Records
      BY <3>4, <2>6
    <3>7. IsFiniteSet(D) /\ IsFiniteSet(I \ D)
      BY <3>4, <2>6, FS_Subset
    <3>8. PICK E : E = I \ D
      OBVIOUS
    <3>9. IsPrefix(Rids(InOrder(D)), Rids(InOrder(D \cup E)))
      BY <3>5, <3>6, <3>7, <3>8, PartIsPrefix
    <3>10. IsPrefix(returned, Expected(r))
      BY <3>4, <3>6, <3>8, <3>9, <2>5
    <3> QED
      BY <3>2, <3>10, <2>2, <2>4, <2>5 DEF Reading, ScanExact
  <2>8. CASE ~scan.executing
    <3>1. NotReading(inserted, r, returned, exc)
      BY <2>1, <2>2, <2>8 DEF ScanInv
    <3>2. IsPrefix(<<>>, Expected(r))
      <4>1. {} \in SUBSET Records /\ IsFiniteSet({}) /\ Precedes({}, I) /\ {} \cup I = I
        BY FS_EmptySet DEF Precedes
      <4>2. IsPrefix(Rids(InOrder({})), Rids(InOrder({} \cup I)))
        BY <4>1, <2>6, PartIsPrefix
      <4> QED
        BY <4>1, <4>2, <2>5, NoRids
    <3>3. I = {} => Expected(r) = <<>>
      BY <2>5, NoRids
    <3> QED
      BY <3>1, <3>2, <3>3, <2>2, <2>4 DEF NotReading, ScanExact
  <2> QED
    BY <2>7, <2>8
<1>3. IndexInv /\ RoutedInv /\ FiniteInv /\ ScanInv /\ [Next]_vars => ScanInv'
  BY NextScanInv
<1> QED
  BY <1>1, <1>2, <1>3, IndexIsFinite, PTL DEF Spec

=============================================================================
