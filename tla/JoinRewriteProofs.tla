------------------------- MODULE JoinRewriteProofs -------------------------
(***************************************************************************)
(* Proofs about JoinRewrite.  TLAPS checks them with tlapm.                *)
(***************************************************************************)
EXTENDS JoinRewrite, SequenceTheorems, FiniteSetTheorems, TLAPS

\* A set of naturals has a least element.
LEMMA LeastElement ==
    ASSUME NEW T \in SUBSET Nat, T # {}
    PROVE  \E m \in T : \A t \in T : m <= t
<1>1. PICK R : R = {nm \in Nat \X Nat : nm[1] < nm[2]}
  OBVIOUS
<1>2. IsWellFoundedOn(R, Nat)
  BY <1>1, NatLessThanWellFounded DEF OpToRel
<1>3. PICK m \in T : \A t \in T : <<t, m>> \notin R
  BY <1>2, WFMin
<1>4. ASSUME NEW t \in T, t < m PROVE FALSE
  BY <1>1, <1>3, <1>4
<1> QED
  BY <1>4

(***************************************************************************)
(* Key: values of one length, written one after the other, are read back   *)
(* in one way.                                                             *)
(***************************************************************************)
\* What FlattenSeq has put together after i members of s.
IsFlat(s, f) == f = [i \in 1 .. Len(s) |-> IF i = 1 THEN s[i] ELSE f[i - 1] \o s[i]]

\* The same, up to the m-th one.
FlatTo(X, s, f, m) ==
    /\ f \in [1 .. m -> Seq(X)]
    /\ \A i \in 1 .. m : f[i] = IF i = 1 THEN s[i] ELSE f[i - 1] \o s[i]

LEMMA FlatExists ==
    ASSUME NEW X, NEW s, NEW n \in Nat, s \in [1 .. n -> Seq(X)]
    PROVE  \E f : FlatTo(X, s, f, n)
<1> DEFINE Bad == {m \in 0 .. n : ~ \E f : FlatTo(X, s, f, m)}
<1>1. SUFFICES ASSUME n \in Bad PROVE FALSE
  OBVIOUS
<1>2. Bad \in SUBSET Nat /\ Bad # {}
  <2>1. \A m \in 0 .. n : m \in Nat
    OBVIOUS
  <2>2. Bad \subseteq 0 .. n
    OBVIOUS
  <2> HIDE DEF Bad
  <2> QED
    BY <1>1, <2>1, <2>2
<1>3. \A m \in Nat : m \in Bad => m \in 0 .. n /\ ~ \E f : FlatTo(X, s, f, m)
  OBVIOUS
<1>4. \A m \in 0 .. n : m \notin Bad => \E f : FlatTo(X, s, f, m)
  OBVIOUS
<1> HIDE DEF Bad
<1>5. PICK m \in Bad : \A k \in Bad : m <= k
  BY <1>2, LeastElement
<1>6. m \in 0 .. n /\ m \in Nat /\ ~ \E f : FlatTo(X, s, f, m)
  BY <1>2, <1>3, <1>5
<1>7. m # 0
  <2>1. FlatTo(X, s, <<>>, 0)
    BY DEF FlatTo
  <2> QED
    BY <2>1, <1>6
<1>8. PICK k \in 0 .. n : m = k + 1
  <2>1. m - 1 \in 0 .. n /\ m = (m - 1) + 1
    BY <1>6, <1>7
  <2> QED
    BY <2>1
<1>9. PICK f : FlatTo(X, s, f, k)
  <2>1. k \notin Bad
    BY <1>5, <1>6, <1>8
  <2> QED
    BY <2>1, <1>4
<1>10. PICK last : last = IF m = 1 THEN s[m] ELSE f[k] \o s[m]
  OBVIOUS
<1>11. last \in Seq(X)
  <2>1. s[m] \in Seq(X)
    BY <1>6, <1>7
  <2>2. ASSUME m # 1 PROVE f[k] \in Seq(X)
    <3>1. k \in 1 .. k
      BY <2>2, <1>6, <1>7, <1>8
    <3> QED
      BY <3>1, <1>9 DEF FlatTo
  <2> QED
    BY <2>1, <2>2, <1>10, ConcatProperties
<1>12. PICK g : g = [i \in 1 .. m |-> IF i = m THEN last ELSE f[i]]
  OBVIOUS
<1>13. \A i \in 1 .. m : i # m => i \in 1 .. k
  BY <1>6, <1>8
<1>14. g \in [1 .. m -> Seq(X)]
  BY <1>9, <1>11, <1>12, <1>13 DEF FlatTo
<1>15. ASSUME NEW i \in 1 .. m PROVE g[i] = IF i = 1 THEN s[i] ELSE g[i - 1] \o s[i]
  <2>1. CASE i = m
    <3>1. i # 1 => i - 1 = k /\ k \in 1 .. m /\ k # m
      BY <2>1, <1>6, <1>8
    <3> QED
      BY <2>1, <3>1, <1>10, <1>12
  <2>2. CASE i # m
    <3>1. i \in 1 .. k
      BY <2>2, <1>13
    <3>2. i # 1 => i - 1 \in 1 .. m /\ i - 1 # m
      BY <3>1, <1>6, <1>8
    <3>3. f[i] = IF i = 1 THEN s[i] ELSE f[i - 1] \o s[i]
      BY <3>1, <1>9 DEF FlatTo
    <3> QED
      BY <2>2, <3>2, <3>3, <1>12
  <2> QED
    BY <2>1, <2>2
<1>16. FlatTo(X, s, g, m)
  BY <1>14, <1>15 DEF FlatTo
<1> QED
  BY <1>6, <1>16

LEMMA FlattensTo ==
    ASSUME NEW X, NEW n \in Nat \ {0}, NEW s, s \in Seq(Seq(X)), Len(s) = n
    PROVE  \E f : FlatTo(X, s, f, n) /\ FlattenSeq(s) = f[n]
<1>1. s \in [1 .. n -> Seq(X)]
  OBVIOUS
<1>2. PICK g : FlatTo(X, s, g, n)
  BY <1>1, FlatExists
<1>3. IsFlat(s, g)
  BY <1>2 DEF FlatTo, IsFlat
<1>4. PICK f : f = CHOOSE w : IsFlat(s, w)
  OBVIOUS
<1>5. IsFlat(s, f)
  BY <1>3, <1>4
<1>6. DOMAIN f = 1 .. n /\ \A i \in 1 .. n : f[i] = IF i = 1 THEN s[i] ELSE f[i - 1] \o s[i]
  BY <1>5 DEF IsFlat
<1>7. FlattenSeq(s) = f[n]
  BY <1>4 DEF FlattenSeq, IsFlat
<1>8. ASSUME NEW i \in 1 .. n PROVE f[i] = g[i]
  <2> DEFINE Bad == {m \in 1 .. n : f[m] # g[m]}
  <2>1. SUFFICES ASSUME Bad # {} PROVE FALSE
    BY <1>8
  <2>2. Bad \in SUBSET Nat /\ \A m \in Bad : m \in 1 .. n /\ f[m] # g[m]
    OBVIOUS
  <2>3. \A m \in 1 .. n : m \notin Bad => f[m] = g[m]
    OBVIOUS
  <2> HIDE DEF Bad
  <2>4. PICK m \in Bad : \A k \in Bad : m <= k
    BY <2>1, <2>2, LeastElement
  <2>5. m \in 1 .. n /\ f[m] # g[m]
    BY <2>2, <2>4
  <2>6. m # 1
    BY <2>5, <1>2, <1>6 DEF FlatTo
  <2>7. m - 1 \in 1 .. n /\ ~(m <= m - 1)
    BY <2>5, <2>6
  <2>8. f[m - 1] = g[m - 1]
    BY <2>3, <2>4, <2>7
  <2>9. f[m] = f[m - 1] \o s[m] /\ g[m] = g[m - 1] \o s[m]
    <3>1. f[m] = f[m - 1] \o s[m]
      BY <2>5, <2>6, <1>6
    <3>2. g[m] = g[m - 1] \o s[m]
      BY <2>5, <2>6, <1>2 DEF FlatTo
    <3> QED
      BY <3>1, <3>2
  <2> QED
    BY <2>5, <2>8, <2>9
<1>9. n \in 1 .. n
  OBVIOUS
<1> QED
  BY <1>2, <1>7, <1>8, <1>9

\* What two sequences of equal lengths are put together of can be told.
SameCut(X, a, b, c, d) ==
    /\ a \in Seq(X) /\ b \in Seq(X) /\ c \in Seq(X) /\ d \in Seq(X)
    /\ Len(a) = Len(c) /\ Len(b) = Len(d) /\ a \o b = c \o d

LEMMA ConcatSplits ==
    ASSUME NEW X, NEW a, NEW b, NEW c, NEW d, SameCut(X, a, b, c, d)
    PROVE  a = c /\ b = d
<1> USE DEF SameCut
<1>1. PICK n, m : n = Len(a) /\ m = Len(b)
  OBVIOUS
<1>2. PICK s : s = a \o b
  OBVIOUS
<1>3. n \in Nat /\ m \in Nat /\ Len(c) = n /\ Len(d) = m
  BY <1>1
<1>4. \A i \in 1 .. (n + m) : s[i] = IF i <= n THEN a[i] ELSE b[i - n]
  BY <1>1, <1>2, ConcatProperties
<1>5. \A i \in 1 .. (n + m) : s[i] = IF i <= n THEN c[i] ELSE d[i - n]
  BY <1>1, <1>2, <1>3, ConcatProperties
<1>6. \A i \in 1 .. n : a[i] = c[i]
  <2>1. \A i \in 1 .. n : i \in 1 .. (n + m) /\ i <= n
    BY <1>3
  <2> QED
    BY <2>1, <1>4, <1>5
<1>7. \A i \in 1 .. m : b[i] = d[i]
  <2>1. TAKE i \in 1 .. m
  <2>2. PICK j : j = i + n
    OBVIOUS
  <2>3. j \in 1 .. (n + m) /\ ~(j <= n) /\ j - n = i
    BY <2>2, <1>3
  <2> QED
    BY <2>3, <1>4, <1>5
<1>8. a = [i \in 1 .. n |-> a[i]] /\ c = [i \in 1 .. n |-> c[i]]
      /\ b = [i \in 1 .. m |-> b[i]] /\ d = [i \in 1 .. m |-> d[i]]
  BY <1>1, <1>3
<1> QED
  BY <1>6, <1>7, <1>8

\* Lists of as many sequences, of the same lengths.
Alike(X, a, b) ==
    /\ a \in Seq(Seq(X)) /\ b \in Seq(Seq(X)) /\ Len(a) = Len(b)
    /\ \A i \in 1 .. Len(a) : Len(a[i]) = Len(b[i])

LEMMA FlattenSplits ==
    ASSUME NEW X, NEW a, NEW b, Alike(X, a, b), FlattenSeq(a) = FlattenSeq(b)
    PROVE  a = b
<1> DEFINE n == Len(a)
<1>0. /\ n \in Nat /\ a \in Seq(Seq(X)) /\ Len(a) = n /\ b \in Seq(Seq(X)) /\ Len(b) = n
      /\ \A i \in 1 .. n : Len(a[i]) = Len(b[i])
  BY DEF Alike
<1> HIDE DEF n
<1>1. SUFFICES ASSUME n # 0 PROVE \A i \in 1 .. n : a[i] = b[i]
  <2>1. a = [i \in 1 .. n |-> a[i]] /\ b = [i \in 1 .. n |-> b[i]]
    BY <1>0
  <2>2. n = 0 => \A i \in 1 .. n : a[i] = b[i]
    OBVIOUS
  <2> QED
    BY <2>1, <2>2
<1>2. PICK f : FlatTo(X, a, f, n) /\ FlattenSeq(a) = f[n]
  BY <1>0, <1>1, FlattensTo
<1>3. PICK g : FlatTo(X, b, g, n) /\ FlattenSeq(b) = g[n]
  BY <1>0, <1>1, FlattensTo
<1>4. \A i \in 1 .. n : /\ f[i] \in Seq(X) /\ g[i] \in Seq(X) /\ a[i] \in Seq(X) /\ b[i] \in Seq(X)
                        /\ f[i] = IF i = 1 THEN a[i] ELSE f[i - 1] \o a[i]
                        /\ g[i] = IF i = 1 THEN b[i] ELSE g[i - 1] \o b[i]
  <2>1. TAKE i \in 1 .. n
  <2>2. a[i] \in Seq(X) /\ b[i] \in Seq(X)
    BY <1>0
  <2> QED
    BY <2>2, <1>2, <1>3 DEF FlatTo
<1>5. ASSUME NEW j \in 1 .. n PROVE Len(f[j]) = Len(g[j])
  <2> DEFINE Bad == {m \in 1 .. n : Len(f[m]) # Len(g[m])}
  <2>1. SUFFICES ASSUME Bad # {} PROVE FALSE
    BY <1>5
  <2>2. Bad \in SUBSET Nat /\ \A m \in Bad : m \in 1 .. n /\ Len(f[m]) # Len(g[m])
    OBVIOUS
  <2>3. \A m \in 1 .. n : m \notin Bad => Len(f[m]) = Len(g[m])
    OBVIOUS
  <2> HIDE DEF Bad
  <2>4. PICK m \in Bad : \A k \in Bad : m <= k
    BY <2>1, <2>2, LeastElement
  <2>5. m \in 1 .. n /\ Len(f[m]) # Len(g[m])
    BY <2>2, <2>4
  <2>6. m # 1
    BY <2>5, <1>0, <1>4
  <2>7. PICK k : k = m - 1
    OBVIOUS
  <2>8. k \in 1 .. n /\ ~(m <= k)
    BY <2>5, <2>6, <2>7, <1>0
  <2>9. Len(f[k]) = Len(g[k])
    BY <2>3, <2>4, <2>8
  <2>10. f[m] = f[k] \o a[m] /\ g[m] = g[k] \o b[m] /\ Len(a[m]) = Len(b[m])
    BY <2>5, <2>6, <2>7, <1>0, <1>4
  <2>11. Len(f[k] \o a[m]) = Len(f[k]) + Len(a[m]) /\ Len(g[k] \o b[m]) = Len(g[k]) + Len(b[m])
    BY <2>5, <2>8, <1>4, ConcatProperties
  <2> QED
    BY <2>5, <2>9, <2>10, <2>11
<1>6. ASSUME NEW j \in 1 .. n, f[j] = g[j], j # 1
      PROVE  f[j - 1] = g[j - 1] /\ a[j] = b[j]
  <2>1. PICK k : k = j - 1
    OBVIOUS
  <2>2. k \in 1 .. n
    BY <2>1, <1>0, <1>6
  <2>3. /\ f[k] \in Seq(X) /\ a[j] \in Seq(X) /\ g[k] \in Seq(X) /\ b[j] \in Seq(X)
        /\ Len(f[k]) = Len(g[k]) /\ Len(a[j]) = Len(b[j]) /\ f[k] \o a[j] = g[k] \o b[j]
    BY <2>1, <2>2, <1>0, <1>4, <1>5, <1>6
  <2>4. f[k] = g[k] /\ a[j] = b[j]
    <3>1. SameCut(X, f[k], a[j], g[k], b[j])
      BY <2>3 DEF SameCut
    <3> QED
      BY <3>1, ConcatSplits
  <2> QED
    BY <2>1, <2>4
<1>7. ASSUME NEW j \in 1 .. n PROVE f[j] = g[j]
  <2> DEFINE Bad == {m \in 0 .. (n - 1) : f[n - m] # g[n - m]}
  <2>1. SUFFICES ASSUME Bad # {} PROVE FALSE
    <3>1. n - j \in 0 .. (n - 1) /\ n - (n - j) = j
      BY <1>0, <1>7
    <3>2. PICK m : m = n - j
      OBVIOUS
    <3> QED
      BY <2>1, <3>1, <3>2
  <2>2. Bad \in SUBSET Nat /\ \A m \in Bad : m \in 0 .. (n - 1) /\ f[n - m] # g[n - m]
    OBVIOUS
  <2>3. \A m \in 0 .. (n - 1) : m \notin Bad => f[n - m] = g[n - m]
    OBVIOUS
  <2> HIDE DEF Bad
  <2>4. PICK m \in Bad : \A k \in Bad : m <= k
    BY <2>1, <2>2, LeastElement
  <2>5. m \in 0 .. (n - 1) /\ f[n - m] # g[n - m]
    BY <2>2, <2>4
  <2>6. m # 0
    <3>1. f[n] = g[n] /\ n - 0 = n
      BY <1>0, <1>2, <1>3, FlattenSeq(a) = FlattenSeq(b)
    <3> QED
      BY <3>1, <2>5
  <2>7. PICK k, i : k = m - 1 /\ i = n - k
    OBVIOUS
  <2>8. k \in 0 .. (n - 1) /\ ~(m <= k) /\ i \in 1 .. n /\ i # 1 /\ i - 1 = n - m
    <3>1. m \in Nat /\ m >= 1 /\ m <= n - 1
      BY <2>5, <2>6
    <3> QED
      BY <3>1, <2>7, <1>0
  <2>9. f[i] = g[i]
    BY <2>3, <2>4, <2>7, <2>8
  <2> QED
    BY <2>5, <2>8, <2>9, <1>6
<1>8. TAKE i \in 1 .. n
<1> QED
  BY <1>4, <1>6, <1>7
-----------------------------------------------------------------------------
(***************************************************************************)
(* What a tuple of the nested loops over A is.                             *)
(***************************************************************************)
Given == where \in WhereLists /\ rows \in RowSets /\ AcrossGroups /\ SameLength

\* What tuple t has of group g.
Part(t, g) == [v \in VarsOf({g}) |-> t[v]]

Meets(t, A, c) ==
    /\ c.kind = "vars" /\ GroupOf[c.left] \in A /\ GroupOf[c.right] \in A => t[c.left] = t[c.right]
    /\ c.kind = "literal" /\ GroupOf[c.var] \in A => t[c.var] = c.value

Tuple(A, t) ==
    /\ t = [v \in VarsOf(A) |-> t[v]]
    /\ \A g \in A : Part(t, g) \in rows[g]
    /\ \A i \in 1 .. Len(where) : Meets(t, A, where[i])

\* The conditions, and the tuples of one group.
LEMMA GivenTypes ==
    ASSUME Given
    PROVE  /\ Len(where) \in Nat /\ DOMAIN where = 1 .. Len(where)
           /\ \A i \in 1 .. Len(where) :
                \/ /\ where[i].kind = "vars" /\ where[i].left \in Vars /\ where[i].right \in Vars
                   /\ GroupOf[where[i].left] # GroupOf[where[i].right]
                \/ where[i].kind = "literal" /\ where[i].var \in Vars
           /\ \A g \in Groups : \A t \in rows[g] : t \in [VarsOf({g}) -> Seq(Chars)]
<1>1. /\ Len(where) \in Nat /\ DOMAIN where = 1 .. Len(where)
      /\ \A i \in 1 .. Len(where) :
            \/ where[i].kind = "vars" /\ where[i].left \in Vars /\ where[i].right \in Vars
            \/ where[i].kind = "literal" /\ where[i].var \in Vars
            \/ where[i].kind = "trivial"
  BY WhereAssumption DEF Given
<1>2. ASSUME NEW i \in 1 .. Len(where), where[i].kind = "vars"
      PROVE  GroupOf[where[i].left] # GroupOf[where[i].right]
  <2>1. Cardinality(GroupsIn(where[i])) = 2
    BY <1>2 DEF Given, AcrossGroups
  <2>2. PICK g, h : g = GroupOf[where[i].left] /\ h = GroupOf[where[i].right]
    OBVIOUS
  <2>3. GroupsIn(where[i]) = {g, h}
    BY <2>2, <1>2 DEF GroupsIn
  <2>4. ASSUME g = h PROVE FALSE
    <3>1. PICK s : s = GroupsIn(where[i])
      OBVIOUS
    <3>2. s = {g}
      BY <3>1, <2>3, <2>4
    <3>3. \A x : Cardinality({x}) = 1
      BY FS_Singleton
    <3>4. Cardinality(s) = 1
      BY <3>2, <3>3
    <3>5. Cardinality(s) = 2
      BY <3>1, <2>1
    <3> QED
      BY <3>4, <3>5
  <2> QED
    BY <2>2, <2>4
<1>3. \A i \in 1 .. Len(where) : where[i].kind # "trivial"
  BY DEF Given, AcrossGroups
<1>4. \A g \in Groups : \A t \in rows[g] : t \in [VarsOf({g}) -> Seq(Chars)]
  BY RowsAssumption DEF Given
<1> QED
  BY <1>1, <1>2, <1>3, <1>4

LEMMA LoopsGive ==
    ASSUME Given, NEW A \in SUBSET Groups, NEW t
    PROVE  t \in NestedLoops(A) <=> Tuple(A, t)
<1>1. PICK F : F = {f \in [A -> UNION {rows[g] : g \in A}] :
                        /\ \A g \in A : f[g] \in rows[g]
                        /\ \A i \in 1 .. Len(where) :
                                GroupsIn(where[i]) \subseteq A => HoldsFor(where[i], f)}
  OBVIOUS
<1>2. t \in NestedLoops(A) <=> \E f \in F : t = [v \in VarsOf(A) |-> f[GroupOf[v]][v]]
  BY <1>1 DEF NestedLoops
<1>3. ASSUME NEW f \in F, t = [v \in VarsOf(A) |-> f[GroupOf[v]][v]] PROVE Tuple(A, t)
  <2>1. /\ \A g \in A : f[g] \in rows[g]
        /\ \A i \in 1 .. Len(where) : GroupsIn(where[i]) \subseteq A => HoldsFor(where[i], f)
    BY <1>1, <1>3
  <2>2. \A v \in VarsOf(A) : t[v] = f[GroupOf[v]][v]
    BY <1>3
  <2>3. t = [v \in VarsOf(A) |-> t[v]]
    BY <1>3
  <2>4. ASSUME NEW g \in A PROVE Part(t, g) \in rows[g]
    <3>1. f[g] \in [VarsOf({g}) -> Seq(Chars)]
      BY <2>1, <2>4, GivenTypes
    <3>2. \A v \in VarsOf({g}) : v \in VarsOf(A) /\ GroupOf[v] = g
      BY <2>4 DEF VarsOf
    <3>3. \A v \in VarsOf({g}) : t[v] = f[g][v]
      BY <3>2, <2>2
    <3>4. Part(t, g) = f[g]
      BY <3>1, <3>3 DEF Part
    <3> QED
      BY <3>4, <2>1
  <2>5. ASSUME NEW i \in 1 .. Len(where) PROVE Meets(t, A, where[i])
    <3>1. CASE where[i].kind = "vars"
      <4>1. SUFFICES ASSUME GroupOf[where[i].left] \in A, GroupOf[where[i].right] \in A
                     PROVE  t[where[i].left] = t[where[i].right]
        BY <3>1 DEF Meets
      <4>2. HoldsFor(where[i], f)
        BY <4>1, <3>1, <2>1 DEF GroupsIn
      <4>3. f[GroupOf[where[i].left]][where[i].left] = f[GroupOf[where[i].right]][where[i].right]
        BY <4>2, <3>1 DEF HoldsFor
      <4>4. where[i].left \in VarsOf(A) /\ where[i].right \in VarsOf(A)
        BY <4>1, <3>1, GivenTypes DEF VarsOf
      <4> QED
        BY <4>3, <4>4, <2>2
    <3>2. CASE where[i].kind = "literal"
      <4>1. SUFFICES ASSUME GroupOf[where[i].var] \in A PROVE t[where[i].var] = where[i].value
        BY <3>2 DEF Meets
      <4>2. HoldsFor(where[i], f)
        BY <4>1, <3>2, <2>1 DEF GroupsIn
      <4>3. f[GroupOf[where[i].var]][where[i].var] = where[i].value
        BY <4>2, <3>2 DEF HoldsFor
      <4>4. where[i].var \in VarsOf(A)
        BY <4>1, <3>2, GivenTypes DEF VarsOf
      <4> QED
        BY <4>3, <4>4, <2>2
    <3> QED
      BY <3>1, <3>2, GivenTypes
  <2> QED
    BY <2>3, <2>4, <2>5 DEF Tuple
<1>4. ASSUME Tuple(A, t) PROVE \E f \in F : t = [v \in VarsOf(A) |-> f[GroupOf[v]][v]]
  <2>1. PICK f : f = [g \in A |-> Part(t, g)]
    OBVIOUS
  <2>2. \A g \in A : f[g] \in rows[g]
    BY <2>1, <1>4 DEF Tuple
  <2>3. f \in [A -> UNION {rows[g] : g \in A}]
    BY <2>1, <2>2
  <2>4. ASSUME NEW v \in VarsOf(A) PROVE f[GroupOf[v]][v] = t[v]
    <3>1. GroupOf[v] \in A /\ v \in VarsOf({GroupOf[v]})
      BY <2>4 DEF VarsOf
    <3>2. f[GroupOf[v]] = Part(t, GroupOf[v])
      BY <3>1, <2>1
    <3> QED
      BY <3>1, <3>2 DEF Part
  <2>5. ASSUME NEW i \in 1 .. Len(where), GroupsIn(where[i]) \subseteq A
        PROVE  HoldsFor(where[i], f)
    <3>1. Meets(t, A, where[i])
      BY <1>4 DEF Tuple
    <3>2. CASE where[i].kind = "vars"
      <4>1. GroupOf[where[i].left] \in A /\ GroupOf[where[i].right] \in A
        BY <3>2, <2>5 DEF GroupsIn
      <4>2. where[i].left \in VarsOf(A) /\ where[i].right \in VarsOf(A)
        BY <4>1, <3>2, GivenTypes DEF VarsOf
      <4>3. t[where[i].left] = t[where[i].right]
        BY <4>1, <3>1, <3>2 DEF Meets
      <4>4. f[GroupOf[where[i].left]][where[i].left] = f[GroupOf[where[i].right]][where[i].right]
        BY <4>2, <4>3, <2>4
      <4> QED
        BY <4>4, <3>2 DEF HoldsFor
    <3>3. CASE where[i].kind = "literal"
      <4>1. GroupOf[where[i].var] \in A
        BY <3>3, <2>5 DEF GroupsIn
      <4>2. where[i].var \in VarsOf(A)
        BY <4>1, <3>3, GivenTypes DEF VarsOf
      <4>3. f[GroupOf[where[i].var]][where[i].var] = where[i].value
        BY <4>1, <4>2, <3>1, <3>3, <2>4 DEF Meets
      <4> QED
        BY <4>3, <3>3 DEF HoldsFor
    <3> QED
      BY <3>2, <3>3, GivenTypes
  <2>6. f \in F
    BY <2>2, <2>3, <2>5, <1>1
  <2>7. t = [v \in VarsOf(A) |-> f[GroupOf[v]][v]]
    BY <2>4, <1>4 DEF Tuple
  <2> QED
    BY <2>6, <2>7
<1> QED
  BY <1>2, <1>3, <1>4

\* All values have one length.
LEMMA ValuesOfTuple ==
    ASSUME Given, NEW A \in SUBSET Groups, NEW t, Tuple(A, t), NEW v \in VarsOf(A)
    PROVE  /\ t[v] \in Seq(Chars) /\ GroupOf[v] \in A /\ GroupOf[v] \in Groups
           /\ \E u \in rows[GroupOf[v]] : v \in DOMAIN u /\ t[v] = u[v]
<1>1. GroupOf[v] \in A /\ v \in VarsOf({GroupOf[v]}) /\ GroupOf[v] \in Groups
  BY DEF VarsOf
<1>2. PICK u : u = Part(t, GroupOf[v])
  OBVIOUS
<1>3. u \in rows[GroupOf[v]] /\ u[v] = t[v] /\ v \in DOMAIN u
  BY <1>1, <1>2 DEF Tuple, Part
<1>4. u \in [VarsOf({GroupOf[v]}) -> Seq(Chars)]
  BY <1>1, <1>3, GivenTypes
<1> QED
  BY <1>1, <1>3, <1>4

LEMMA OneLength ==
    ASSUME Given, NEW A \in SUBSET Groups, NEW t, Tuple(A, t), NEW v \in VarsOf(A),
           NEW B \in SUBSET Groups, NEW u, Tuple(B, u), NEW w \in VarsOf(B)
    PROVE  Len(t[v]) = Len(u[w])
<1>1. PICK x : x \in rows[GroupOf[v]] /\ v \in DOMAIN x /\ t[v] = x[v]
  BY ValuesOfTuple
<1>2. PICK y : y \in rows[GroupOf[w]] /\ w \in DOMAIN y /\ u[w] = y[w]
  BY ValuesOfTuple
<1>3. GroupOf[v] \in Groups /\ GroupOf[w] \in Groups
  BY DEF VarsOf
<1>4. Len(x[v]) = Len(y[w])
  BY <1>1, <1>2, <1>3 DEF Given, SameLength
<1> QED
  BY <1>1, <1>2, <1>4

-----------------------------------------------------------------------------
(***************************************************************************)
(* visitJoinclause: one hash join.                                         *)
(***************************************************************************)
\* The first n conditions compare l with r.
Compared(n, l, r) ==
    \E i \in 1 .. n : /\ where[i].kind = "vars"
                      /\ \/ where[i].left = l /\ where[i].right = r
                         \/ where[i].left = r /\ where[i].right = l

\* What they compare between the groups A and group h.
Between(n, A, h) ==
    {lr \in Vars \X Vars : /\ GroupOf[lr[1]] \in A /\ GroupOf[lr[2]] = h
                           /\ Compared(n, lr[1], lr[2])}

ListOf(s, P) == s \in Seq(Vars \X Vars) /\ \A x : x \in P <=> \E i \in DOMAIN s : s[i] = x

LEMMA KeysAgree ==
    ASSUME NEW list, list \in Seq(Vars \X Vars), NEW t, NEW u,
           \A i \in 1 .. Len(list) : /\ t[list[i][1]] \in Seq(Chars) /\ u[list[i][2]] \in Seq(Chars)
                                     /\ Len(t[list[i][1]]) = Len(u[list[i][2]])
    PROVE  Key(t, Mine(list)) = Key(u, Others(list))
              <=> \A i \in 1 .. Len(list) : t[list[i][1]] = u[list[i][2]]
<1>1. PICK n, a, b : /\ n = Len(list) /\ a = [i \in 1 .. n |-> t[list[i][1]]]
                     /\ b = [i \in 1 .. n |-> u[list[i][2]]]
  OBVIOUS
<1>2. n \in Nat
  BY <1>1
<1>3. Key(t, Mine(list)) = FlattenSeq(a) /\ Key(u, Others(list)) = FlattenSeq(b)
  <2>1. PICK m, o : m = Mine(list) /\ o = Others(list)
    OBVIOUS
  <2>2. m = [i \in 1 .. n |-> list[i][1]] /\ o = [i \in 1 .. n |-> list[i][2]]
    BY <2>1, <1>1 DEF Mine, Others
  <2>3. Len(m) = n /\ Len(o) = n
    BY <2>2, <1>2
  <2>4. [i \in 1 .. n |-> t[m[i]]] = a /\ [i \in 1 .. n |-> u[o[i]]] = b
    BY <2>2, <1>1
  <2> QED
    BY <2>1, <2>3, <2>4 DEF Key
<1>4. a \in Seq(Seq(Chars)) /\ b \in Seq(Seq(Chars)) /\ Len(a) = n /\ Len(b) = n
      /\ \A i \in 1 .. n : Len(a[i]) = Len(b[i])
  <2>1. a \in [1 .. n -> Seq(Chars)] /\ b \in [1 .. n -> Seq(Chars)]
    BY <1>1
  <2>2. \A i \in 1 .. n : Len(a[i]) = Len(b[i])
    BY <1>1
  <2>3. PICK X : X = Seq(Chars)
    OBVIOUS
  <2>4. a \in [1 .. n -> X] /\ b \in [1 .. n -> X]
    BY <2>1, <2>3
  <2>5. a \in Seq(X) /\ b \in Seq(X) /\ Len(a) = n /\ Len(b) = n
    BY <2>4, <1>2
  <2> QED
    BY <2>2, <2>3, <2>5
<1>5. (\A i \in 1 .. n : a[i] = b[i]) => a = b
  BY <1>1
<1>6. FlattenSeq(a) = FlattenSeq(b) <=> \A i \in 1 .. n : a[i] = b[i]
  <2>1. ASSUME FlattenSeq(a) = FlattenSeq(b) PROVE \A i \in 1 .. n : a[i] = b[i]
    <3>1. Alike(Chars, a, b)
      BY <1>4 DEF Alike
    <3> QED
      BY <3>1, <2>1, FlattenSplits
  <2> QED
    BY <2>1, <1>5
<1> QED
  BY <1>1, <1>3, <1>6

\* The variables of a pair of Between.
LEMMA PairsBetween ==
    ASSUME Given, NEW n, NEW A \in SUBSET Groups, NEW c \in Groups \ A,
           NEW lr, lr \in Between(n, A, c)
    PROVE  lr[1] \in VarsOf(A) /\ lr[2] \in VarsOf({c})
BY DEF Between, VarsOf

\* Key equality of the two sides is what the conditions between them say.
LEMMA KeysCompare ==
    ASSUME Given, NEW A \in SUBSET Groups, NEW c \in Groups \ A, NEW list,
           ListOf(list, Between(Len(where), A, c)),
           NEW t, Tuple(A, t), NEW u, Tuple({c}, u)
    PROVE  Key(t, Mine(list)) = Key(u, Others(list))
              <=> \A lr \in Between(Len(where), A, c) : t[lr[1]] = u[lr[2]]
<1>1. PICK P : P = Between(Len(where), A, c)
  OBVIOUS
<1>2. list \in Seq(Vars \X Vars) /\ \A x : x \in P <=> \E i \in DOMAIN list : list[i] = x
  BY <1>1 DEF ListOf
<1>3. DOMAIN list = 1 .. Len(list)
  BY <1>2
<1>4. \A lr \in P : lr[1] \in VarsOf(A) /\ lr[2] \in VarsOf({c})
  BY <1>1, PairsBetween
<1>5. ASSUME NEW i \in 1 .. Len(list)
      PROVE  /\ t[list[i][1]] \in Seq(Chars) /\ u[list[i][2]] \in Seq(Chars)
             /\ Len(t[list[i][1]]) = Len(u[list[i][2]])
  <2>1. PICK l, r : l = list[i][1] /\ r = list[i][2]
    OBVIOUS
  <2>2. l \in VarsOf(A) /\ r \in VarsOf({c})
    BY <2>1, <1>2, <1>3, <1>4
  <2>3. {c} \in SUBSET Groups
    OBVIOUS
  <2>4. t[l] \in Seq(Chars) /\ u[r] \in Seq(Chars)
    BY <2>2, <2>3, ValuesOfTuple
  <2>5. Len(t[l]) = Len(u[r])
    BY <2>2, <2>3, OneLength
  <2> QED
    BY <2>1, <2>4, <2>5
<1>6. Key(t, Mine(list)) = Key(u, Others(list)) <=> \A i \in 1 .. Len(list) : t[list[i][1]] = u[list[i][2]]
  BY <1>2, <1>5, KeysAgree
<1>7. (\A i \in 1 .. Len(list) : t[list[i][1]] = u[list[i][2]]) <=> \A lr \in P : t[lr[1]] = u[lr[2]]
  BY <1>2, <1>3
<1> QED
  BY <1>1, <1>6, <1>7

\* A tuple of A and one of c, with equal values where a condition compares
\* them, are a tuple of both together; and every such tuple comes from two.
LEMMA JoinedTuple ==
    ASSUME Given, NEW A \in SUBSET Groups, NEW c \in Groups \ A,
           NEW t, Tuple(A, t), NEW u, Tuple({c}, u),
           \A lr \in Between(Len(where), A, c) : t[lr[1]] = u[lr[2]]
    PROVE  Tuple(A \cup {c}, Joined(t, u))
<1>1. PICK w, B : w = Joined(t, u) /\ B = A \cup {c}
  OBVIOUS
<1>2. DOMAIN t = VarsOf(A) /\ DOMAIN u = VarsOf({c})
  BY DEF Tuple
<1>3. VarsOf(B) = VarsOf(A) \cup VarsOf({c}) /\ VarsOf(A) \cap VarsOf({c}) = {}
  BY <1>1 DEF VarsOf
<1>4. w = [v \in VarsOf(B) |-> IF v \in VarsOf(A) THEN t[v] ELSE u[v]]
  BY <1>1, <1>2, <1>3 DEF Joined
<1>5. w = [v \in VarsOf(B) |-> w[v]]
  BY <1>4
<1>6. (\A v \in VarsOf(A) : w[v] = t[v]) /\ \A v \in VarsOf({c}) : w[v] = u[v]
  BY <1>3, <1>4
<1>7. ASSUME NEW g \in B PROVE Part(w, g) \in rows[g]
  <2>1. CASE g \in A
    <3>1. \A v \in VarsOf({g}) : v \in VarsOf(A)
      BY <2>1 DEF VarsOf
    <3>2. Part(w, g) = Part(t, g)
      BY <3>1, <1>6 DEF Part
    <3> QED
      BY <3>2, <2>1 DEF Tuple
  <2>2. CASE g = c
    <3>1. Part(w, c) = Part(u, c)
      BY <1>6 DEF Part
    <3> QED
      BY <3>1, <2>2 DEF Tuple
  <2> QED
    BY <2>1, <2>2, <1>1
<1>8. ASSUME NEW i \in 1 .. Len(where) PROVE Meets(w, B, where[i])
  <2>1. Meets(t, A, where[i]) /\ Meets(u, {c}, where[i])
    BY DEF Tuple
  <2>2. CASE where[i].kind = "vars"
    <3>1. PICK l, r : l = where[i].left /\ r = where[i].right
      OBVIOUS
    <3>2. l \in Vars /\ r \in Vars /\ GroupOf[l] # GroupOf[r]
      BY <2>2, <3>1, GivenTypes
    <3>3. SUFFICES ASSUME GroupOf[l] \in B, GroupOf[r] \in B PROVE w[l] = w[r]
      BY <2>2, <3>1 DEF Meets
    <3>4. CASE GroupOf[l] \in A /\ GroupOf[r] \in A
      <4>1. l \in VarsOf(A) /\ r \in VarsOf(A)
        BY <3>2, <3>4 DEF VarsOf
      <4>2. t[l] = t[r]
        BY <2>1, <2>2, <3>1, <3>4 DEF Meets
      <4> QED
        BY <4>1, <4>2, <1>6
    <3>5. CASE GroupOf[l] \in A /\ GroupOf[r] = c
      <4>1. l \in VarsOf(A) /\ r \in VarsOf({c})
        BY <3>2, <3>5 DEF VarsOf
      <4>2. <<l, r>> \in Between(Len(where), A, c)
        BY <2>2, <3>1, <3>2, <3>5 DEF Between, Compared
      <4>3. t[l] = u[r]
        BY <4>2
      <4> QED
        BY <4>1, <4>3, <1>6
    <3>6. CASE GroupOf[l] = c /\ GroupOf[r] \in A
      <4>1. r \in VarsOf(A) /\ l \in VarsOf({c})
        BY <3>2, <3>6 DEF VarsOf
      <4>2. <<r, l>> \in Between(Len(where), A, c)
        BY <2>2, <3>1, <3>2, <3>6 DEF Between, Compared
      <4>3. t[r] = u[l]
        BY <4>2
      <4> QED
        BY <4>1, <4>3, <1>6
    <3> QED
      BY <3>2, <3>3, <3>4, <3>5, <3>6, <1>1
  <2>3. CASE where[i].kind = "literal"
    <3>1. PICK x : x = where[i].var
      OBVIOUS
    <3>2. x \in Vars
      BY <2>3, <3>1, GivenTypes
    <3>3. SUFFICES ASSUME GroupOf[x] \in B PROVE w[x] = where[i].value
      BY <2>3, <3>1 DEF Meets
    <3>4. CASE GroupOf[x] \in A
      BY <3>1, <3>2, <3>4, <2>1, <2>3, <1>6 DEF Meets, VarsOf
    <3>5. CASE GroupOf[x] = c
      BY <3>1, <3>2, <3>5, <2>1, <2>3, <1>6 DEF Meets, VarsOf
    <3> QED
      BY <3>3, <3>4, <3>5, <1>1
  <2> QED
    BY <2>2, <2>3, GivenTypes
<1> QED
  BY <1>1, <1>5, <1>7, <1>8 DEF Tuple

Parted(A, c, w, t, u) ==
    /\ Tuple(A, t) /\ Tuple({c}, u) /\ w = Joined(t, u)
    /\ \A lr \in Between(Len(where), A, c) : t[lr[1]] = u[lr[2]]

LEMMA TupleParted ==
    ASSUME Given, NEW A \in SUBSET Groups, NEW c \in Groups \ A, NEW w, Tuple(A \cup {c}, w),
           NEW t, t = [v \in VarsOf(A) |-> w[v]], NEW u, u = [v \in VarsOf({c}) |-> w[v]]
    PROVE  Parted(A, c, w, t, u)
<1>1. PICK B : B = A \cup {c}
  OBVIOUS
<1>2. /\ w = [v \in VarsOf(B) |-> w[v]] /\ \A g \in B : Part(w, g) \in rows[g]
      /\ \A i \in 1 .. Len(where) : Meets(w, B, where[i])
  BY <1>1 DEF Tuple
<1>3. VarsOf(B) = VarsOf(A) \cup VarsOf({c})
  BY <1>1 DEF VarsOf
<1>4. ASSUME NEW D \in SUBSET B, NEW s, s = [v \in VarsOf(D) |-> w[v]] PROVE Tuple(D, s)
  <2>1. s = [v \in VarsOf(D) |-> s[v]] /\ \A v \in VarsOf(D) : s[v] = w[v]
    BY <1>4
  <2>2. ASSUME NEW g \in D PROVE Part(s, g) \in rows[g]
    <3>1. \A v \in VarsOf({g}) : v \in VarsOf(D)
      BY <2>2 DEF VarsOf
    <3>2. Part(s, g) = Part(w, g)
      BY <3>1, <2>1 DEF Part
    <3> QED
      BY <3>2, <1>2, <1>4, <2>2
  <2>3. ASSUME NEW i \in 1 .. Len(where) PROVE Meets(s, D, where[i])
    <3>1. Meets(w, B, where[i])
      BY <1>2
    <3>2. CASE where[i].kind = "vars"
      <4>1. where[i].left \in Vars /\ where[i].right \in Vars
        BY <3>2, GivenTypes
      <4> QED
        BY <3>1, <3>2, <4>1, <2>1, <1>4 DEF Meets, VarsOf
    <3>3. CASE where[i].kind = "literal"
      <4>1. where[i].var \in Vars
        BY <3>3, GivenTypes
      <4> QED
        BY <3>1, <3>3, <4>1, <2>1, <1>4 DEF Meets, VarsOf
    <3> QED
      BY <3>2, <3>3, GivenTypes
  <2> QED
    BY <2>1, <2>2, <2>3 DEF Tuple
<1>5. Tuple(A, t) /\ Tuple({c}, u)
  <2>1. A \in SUBSET B /\ {c} \in SUBSET B
    BY <1>1
  <2> QED
    BY <2>1, <1>4
<1>6. w = Joined(t, u)
  <2>1. DOMAIN t = VarsOf(A) /\ DOMAIN u = VarsOf({c})
    OBVIOUS
  <2>2. Joined(t, u) = [v \in VarsOf(B) |-> IF v \in VarsOf(A) THEN t[v] ELSE u[v]]
    BY <2>1, <1>3 DEF Joined
  <2>3. \A v \in VarsOf(B) : w[v] = IF v \in VarsOf(A) THEN t[v] ELSE u[v]
    BY <1>3
  <2> QED
    BY <2>2, <2>3, <1>2
<1>7. ASSUME NEW lr \in Between(Len(where), A, c) PROVE t[lr[1]] = u[lr[2]]
  <2>1. PICK l, r : l = lr[1] /\ r = lr[2]
    OBVIOUS
  <2>2. l \in VarsOf(A) /\ r \in VarsOf({c})
    BY <2>1, PairsBetween
  <2>3. GroupOf[l] \in B /\ GroupOf[r] \in B
    BY <2>2, <1>1 DEF VarsOf
  <2>4. PICK i \in 1 .. Len(where) : /\ where[i].kind = "vars"
                                     /\ \/ where[i].left = l /\ where[i].right = r
                                        \/ where[i].left = r /\ where[i].right = l
    BY <2>1 DEF Between, Compared
  <2>5. w[l] = w[r]
    BY <2>3, <2>4, <1>2 DEF Meets
  <2> QED
    BY <2>1, <2>2, <2>5
<1> QED
  BY <1>5, <1>6, <1>7 DEF Parted

\* The hash join of the nested loops over A and those over c.
LEMMA HashJoinExact ==
    ASSUME Given, NEW A \in SUBSET Groups, NEW c \in Groups \ A, NEW list,
           ListOf(list, Between(Len(where), A, c)), NEW T, T = NestedLoops(A),
           NEW U, \A u : u \in U <=> Tuple({c}, u)
    PROVE  HashJoin(T, U, list) = NestedLoops(A \cup {c})
<1>1. \A t : t \in T <=> Tuple(A, t)
  BY LoopsGive
<1>2. \A w : w \in HashJoin(T, U, list) <=>
        \E t \in T, u \in U : w = Joined(t, u) /\ Key(t, Mine(list)) = Key(u, Others(list))
  <2>1. TAKE w
  <2>2. w \in HashJoin(T, U, list) <=>
            \E p \in T \X U : /\ w = Joined(p[1], p[2])
                              /\ Key(p[1], Mine(list)) = Key(p[2], Others(list))
    BY DEF HashJoin
  <2>3. \A t \in T, u \in U : <<t, u>> \in T \X U /\ <<t, u>>[1] = t /\ <<t, u>>[2] = u
    OBVIOUS
  <2>4. \A p \in T \X U : p[1] \in T /\ p[2] \in U
    OBVIOUS
  <2>5. ASSUME NEW t \in T, NEW u \in U, w = Joined(t, u), Key(t, Mine(list)) = Key(u, Others(list))
        PROVE  w \in HashJoin(T, U, list)
    <3>1. PICK p : p = <<t, u>>
      OBVIOUS
    <3>2. p \in T \X U /\ p[1] = t /\ p[2] = u
      BY <3>1
    <3> QED
      BY <3>2, <2>2, <2>5
  <2> QED
    BY <2>2, <2>4, <2>5
<1>3. ASSUME NEW w PROVE w \in HashJoin(T, U, list) <=> Tuple(A \cup {c}, w)
  <2>1. ASSUME NEW t \in T, NEW u \in U, w = Joined(t, u), Key(t, Mine(list)) = Key(u, Others(list))
        PROVE  Tuple(A \cup {c}, w)
    <3>1. Tuple(A, t) /\ Tuple({c}, u)
      BY <1>1
    <3>2. \A lr \in Between(Len(where), A, c) : t[lr[1]] = u[lr[2]]
      BY <3>1, <2>1, KeysCompare
    <3> QED
      BY <3>1, <3>2, <2>1, JoinedTuple
  <2>2. ASSUME Tuple(A \cup {c}, w)
        PROVE  \E t \in T, u \in U : w = Joined(t, u) /\ Key(t, Mine(list)) = Key(u, Others(list))
    <3>1. PICK t, u : t = [v \in VarsOf(A) |-> w[v]] /\ u = [v \in VarsOf({c}) |-> w[v]]
      OBVIOUS
    <3>2. Parted(A, c, w, t, u)
      BY <3>1, <2>2, TupleParted
    <3>3. Key(t, Mine(list)) = Key(u, Others(list))
      BY <3>2, KeysCompare DEF Parted
    <3> QED
      BY <3>2, <3>3, <1>1 DEF Parted
  <2> QED
    BY <2>1, <2>2, <1>2
<1>4. A \cup {c} \in SUBSET Groups
  OBVIOUS
<1>5. \A w : w \in NestedLoops(A \cup {c}) <=> Tuple(A \cup {c}, w)
  BY <1>4, LoopsGive
<1> QED
  BY <1>3, <1>5

-----------------------------------------------------------------------------
(***************************************************************************)
(* The invariant.                                                          *)
(***************************************************************************)
Typed ==
    /\ pc \in {"where", "join", "done"} /\ where \in WhereLists /\ rows \in RowSets
    /\ next \in 1 .. (Len(where) + 1) /\ (pc # "where" => next = Len(where) + 1)
    /\ children \in [Groups -> SUBSET Groups]
    /\ pairs \in [Groups -> [Groups -> Seq(Vars \X Vars)]]
    /\ conds \in [Groups -> Seq({where[i] : i \in 1 .. Len(where)})]
    /\ absorbed \subseteq Groups

\* The edge from A to h, as children and a list of pairs have it.
Edge(n, A, h, kids, list) ==
    /\ h \in kids <=> Between(n, A, h) # {}
    /\ h \in kids => ListOf(list, Between(n, A, h))

\* groupWhereClause has made the graph of the first n conditions: where there
\* is no child there is no list.
WhereEdge(n, A, h, kids, list) ==
    Edge(n, A, h, kids, list) /\ (h \notin kids => list = <<>>)

Edges(n) == \A g, h \in Groups : WhereEdge(n, {g}, h, children[g], pairs[g][h])

Literals(n) ==
    \A g \in Groups : \A x :
        (\E i \in DOMAIN conds[g] : conds[g][i] = x)
            <=> \E i \in 1 .. n : /\ where[i] = x /\ where[i].kind = "literal"
                                  /\ GroupOf[where[i].var] = g

\* generateJoinQuery: the first group has the edges of all that it absorbed,
\* the other groups theirs, and none leads to a group that is absorbed.
Joins ==
    /\ 0 \in absorbed
    /\ \A c \in {0} \cup (Groups \ absorbed) : children[c] \subseteq Groups \ absorbed
    /\ \A h \in Groups \ absorbed :
        /\ Edge(Len(where), absorbed, h, children[0], pairs[0][h])
        /\ \A c \in Groups \ absorbed : Edge(Len(where), {c}, h, children[c], pairs[c][h])
    /\ tuples = NestedLoops(absorbed)

JoinInv ==
    /\ Typed
    /\ AcrossGroups /\ SameLength =>
        /\ Literals(next - 1)
        /\ pc = "where" => Edges(next - 1)
        /\ pc # "where" => Joins
        /\ pc = "done" => children[0] = {}

(***************************************************************************)
(* Lists of pairs, and the edges they stand for.                           *)
(***************************************************************************)
LEMMA ListMore ==
    ASSUME NEW s, NEW P, ListOf(s, P), NEW p \in Vars \X Vars, NEW Q, \A x : x \in Q <=> x \in P \/ x = p
    PROVE  ListOf(Append(s, p), Q)
<1>1. s \in Seq(Vars \X Vars) /\ \A x : x \in P <=> \E i \in DOMAIN s : s[i] = x
  BY DEF ListOf
<1>2. PICK t, n : t = Append(s, p) /\ n = Len(s)
  OBVIOUS
<1>3. /\ t \in Seq(Vars \X Vars) /\ n \in Nat /\ DOMAIN s = 1 .. n /\ DOMAIN t = 1 .. (n + 1)
      /\ t[n + 1] = p /\ \A i \in 1 .. n : t[i] = s[i]
  BY <1>1, <1>2
<1>4. \A i : i \in DOMAIN t <=> i \in DOMAIN s \/ i = n + 1
  BY <1>3
<1>5. \A x : x \in Q <=> \E i \in DOMAIN t : t[i] = x
  BY <1>1, <1>3, <1>4
<1> QED
  BY <1>2, <1>3, <1>5 DEF ListOf

LEMMA ListsConcat ==
    ASSUME NEW s, NEW P, ListOf(s, P), NEW t, NEW Q, ListOf(t, Q)
    PROVE  ListOf(s \o t, P \cup Q)
<1>1. /\ s \in Seq(Vars \X Vars) /\ \A x : x \in P <=> \E i \in DOMAIN s : s[i] = x
      /\ t \in Seq(Vars \X Vars) /\ \A x : x \in Q <=> \E i \in DOMAIN t : t[i] = x
  BY DEF ListOf
<1>2. PICK u, n, m : u = s \o t /\ n = Len(s) /\ m = Len(t)
  OBVIOUS
<1>3. /\ n \in Nat /\ m \in Nat /\ DOMAIN s = 1 .. n /\ DOMAIN t = 1 .. m
      /\ u \in Seq(Vars \X Vars) /\ Len(u) = n + m
      /\ \A i \in 1 .. (n + m) : u[i] = IF i <= n THEN s[i] ELSE t[i - n]
  BY <1>1, <1>2, ConcatProperties
<1>4. DOMAIN u = 1 .. (n + m)
  BY <1>3
<1>5. ASSUME NEW i \in DOMAIN u PROVE u[i] \in P \cup Q
  <2>1. CASE i <= n
    BY <2>1, <1>1, <1>3, <1>4
  <2>2. CASE ~(i <= n)
    <3>1. i - n \in DOMAIN t
      BY <2>2, <1>3, <1>4
    <3> QED
      BY <3>1, <2>2, <1>1, <1>3, <1>4
  <2> QED
    BY <2>1, <2>2
<1>6. ASSUME NEW i \in DOMAIN s PROVE \E j \in DOMAIN u : u[j] = s[i]
  <2>1. i \in 1 .. (n + m) /\ i <= n
    BY <1>3
  <2> QED
    BY <2>1, <1>3, <1>4
<1>7. ASSUME NEW i \in DOMAIN t PROVE \E j \in DOMAIN u : u[j] = t[i]
  <2>1. PICK j : j = i + n
    OBVIOUS
  <2>2. j \in 1 .. (n + m) /\ ~(j <= n) /\ j - n = i
    BY <2>1, <1>3
  <2> QED
    BY <2>2, <1>3, <1>4
<1>8. \A x : x \in P \cup Q <=> \E i \in DOMAIN u : u[i] = x
  BY <1>1, <1>5, <1>6, <1>7
<1> QED
  BY <1>2, <1>3, <1>8 DEF ListOf

LEMMA WhereEdgeLists ==
    ASSUME NEW n, NEW A, NEW h, NEW kids, NEW list, WhereEdge(n, A, h, kids, list)
    PROVE  ListOf(list, Between(n, A, h))
<1>1. CASE h \in kids
  BY <1>1 DEF WhereEdge, Edge
<1>2. CASE h \notin kids
  <2>1. list = <<>> /\ Between(n, A, h) = {}
    BY <1>2 DEF WhereEdge, Edge
  <2>2. <<>> \in Seq(Vars \X Vars) /\ DOMAIN <<>> = {}
    OBVIOUS
  <2> QED
    BY <2>1, <2>2 DEF ListOf
<1> QED
  BY <1>1, <1>2

LEMMA EdgeSame ==
    ASSUME NEW n, NEW m, NEW A, NEW h, NEW kids, NEW more, NEW list, WhereEdge(n, A, h, kids, list),
           Between(m, A, h) = Between(n, A, h), h \in more <=> h \in kids
    PROVE  WhereEdge(m, A, h, more, list)
BY DEF WhereEdge, Edge

LEMMA EdgeMore ==
    ASSUME NEW n, NEW m, NEW A, NEW h, NEW kids, NEW more, NEW list, WhereEdge(n, A, h, kids, list),
           NEW p \in Vars \X Vars, \A x : x \in Between(m, A, h) <=> x \in Between(n, A, h) \/ x = p,
           h \in more
    PROVE  WhereEdge(m, A, h, more, Append(list, p))
<1>1. ListOf(list, Between(n, A, h))
  BY WhereEdgeLists
<1>2. PICK Q : Q = Between(m, A, h)
  OBVIOUS
<1>3. ListOf(Append(list, p), Q)
  BY <1>1, <1>2, ListMore
<1>4. Q # {}
  BY <1>2
<1> QED
  BY <1>2, <1>3, <1>4 DEF WhereEdge, Edge

\* One condition more.
LEMMA ComparedMore ==
    ASSUME NEW n \in Nat, NEW l, NEW r
    PROVE  Compared(n + 1, l, r) <=>
              \/ Compared(n, l, r)
              \/ /\ where[n + 1].kind = "vars"
                 /\ \/ where[n + 1].left = l /\ where[n + 1].right = r
                    \/ where[n + 1].left = r /\ where[n + 1].right = l
<1>1. \A i : i \in 1 .. (n + 1) <=> i \in 1 .. n \/ i = n + 1
  OBVIOUS
<1> QED
  BY <1>1 DEF Compared

LEMMA NoneBetween == ASSUME NEW A, NEW h PROVE Between(0, A, h) = {}
<1>1. \A i : i \notin 1 .. 0
  OBVIOUS
<1> QED
  BY <1>1 DEF Between, Compared

LEMMA BetweenAll ==
    ASSUME NEW n, NEW A, NEW c, NEW h
    PROVE  Between(n, A \cup {c}, h) = Between(n, A, h) \cup Between(n, {c}, h)
BY DEF Between

-----------------------------------------------------------------------------
(***************************************************************************)
(* groupWhereClause                                                        *)
(***************************************************************************)
LEMMA GroupsTyped ==
    /\ IsFiniteSet(Groups) /\ Groups \in SUBSET Nat /\ 0 \in Groups
    /\ \A v \in Vars : GroupOf[v] \in Groups
<1>1. \A v \in Vars : GroupOf[v] \in Groups
  BY DEF Groups
<1>2. IsFiniteSet(Groups)
  <2>1. PICK f : f = [v \in Vars |-> GroupOf[v]]
    OBVIOUS
  <2>2. f \in [Vars -> Groups] /\ \A g \in Groups : \E v \in Vars : f[v] = g
    BY <2>1 DEF Groups
  <2>3. f \in Surjection(Vars, Groups)
    BY <2>2 DEF Surjection
  <2> QED
    BY <2>3, GroupsAssumption, FS_Surjection
<1>3. Groups # {}
  BY <1>1, GroupsAssumption
<1>4. PICK n : n = Cardinality(Groups)
  OBVIOUS
<1>5. n \in Nat
  BY <1>2, <1>4, FS_CardinalityType
<1>6. Groups = 0 .. (n - 1)
  BY <1>4, GroupsAssumption
<1> QED
  BY <1>1, <1>2, <1>3, <1>5, <1>6

LEMMA InitJoinInv == Init => JoinInv
<1>1. SUFFICES ASSUME Init PROVE JoinInv
  OBVIOUS
<1>2. Typed
  <2>1. where \in WhereLists /\ Len(where) \in Nat
    BY <1>1, WhereAssumption DEF Init
  <2>2. next \in 1 .. (Len(where) + 1)
    BY <1>1, <2>1 DEF Init
  <2>3. <<>> \in Seq(Vars \X Vars) /\ <<>> \in Seq({where[i] : i \in 1 .. Len(where)})
    OBVIOUS
  <2> QED
    BY <1>1, <2>1, <2>2, <2>3 DEF Init, Typed
<1>3. next - 1 = 0 /\ pc = "where"
  BY <1>1 DEF Init
<1>4. Literals(0)
  <2>1. \A g \in Groups : conds[g] = <<>>
    BY <1>1 DEF Init
  <2>2. (\A i : i \notin DOMAIN <<>>) /\ \A i : i \notin 1 .. 0
    OBVIOUS
  <2> QED
    BY <2>1, <2>2 DEF Literals
<1>5. Edges(0)
  <2>1. ASSUME NEW g \in Groups, NEW h \in Groups
        PROVE  WhereEdge(0, {g}, h, children[g], pairs[g][h])
    <3>1. children[g] = {} /\ pairs[g][h] = <<>>
      BY <1>1, <2>1 DEF Init
    <3>2. Between(0, {g}, h) = {}
      BY NoneBetween
    <3> QED
      BY <3>1, <3>2 DEF WhereEdge, Edge
  <2> QED
    BY <2>1 DEF Edges
<1> QED
  BY <1>2, <1>3, <1>4, <1>5 DEF JoinInv

\* The two lists of a condition between two groups.
LEMMA CompareVarsEdges ==
    ASSUME Given, Typed, pc = "where", next <= Len(where), Edges(next - 1), CompareVars(where[next])
    PROVE  \A x, y \in Groups : WhereEdge(next, {x}, y, children'[x], pairs'[x][y])
<1>1. PICK n, c : n = next - 1 /\ c = where[next]
  OBVIOUS
<1>2. PICK l, r, g, h : l = c.left /\ r = c.right /\ g = GroupOf[l] /\ h = GroupOf[r]
  OBVIOUS
<1>3. n \in Nat /\ next = n + 1 /\ next \in 1 .. Len(where) /\ Len(where) \in Nat
  <2>1. Len(where) \in Nat /\ next \in 1 .. (Len(where) + 1)
    BY GivenTypes DEF Typed
  <2> QED
    BY <2>1, <1>1
<1>4. c.kind = "vars" /\ l \in Vars /\ r \in Vars /\ g # h /\ g \in Groups /\ h \in Groups
  BY <1>1, <1>2, <1>3, GivenTypes, GroupsTyped DEF CompareVars
<1>5. /\ children \in [Groups -> SUBSET Groups]
      /\ pairs \in [Groups -> [Groups -> Seq(Vars \X Vars)]]
  BY DEF Typed
<1>6. /\ children' = [children EXCEPT ![g] = @ \cup {h}, ![h] = @ \cup {g}]
      /\ pairs' = [pairs EXCEPT ![g][h] = Append(@, <<l, r>>), ![h][g] = Append(@, <<r, l>>)]
  BY <1>1, <1>2, <1>4 DEF CompareVars
<1>7. \A x \in Groups : children'[x] = IF x = g THEN children[x] \cup {h}
                                       ELSE IF x = h THEN children[x] \cup {g} ELSE children[x]
  BY <1>4, <1>5, <1>6
<1>8. \A x, y \in Groups :
        pairs'[x][y] = IF x = g /\ y = h THEN Append(pairs[x][y], <<l, r>>)
                       ELSE IF x = h /\ y = g THEN Append(pairs[x][y], <<r, l>>)
                       ELSE pairs[x][y]
  <2>1. \A x \in Groups : DOMAIN pairs[x] = Groups
    BY <1>5
  <2>2. \A x \in Groups : x # g /\ x # h => pairs'[x] = pairs[x]
    BY <1>4, <1>5, <1>6
  <2>3. pairs'[g] = [pairs[g] EXCEPT ![h] = Append(@, <<l, r>>)]
    BY <1>4, <1>5, <1>6
  <2>4. pairs'[h] = [pairs[h] EXCEPT ![g] = Append(@, <<r, l>>)]
    BY <1>4, <1>5, <1>6
  <2>5. \A y \in Groups :
            /\ pairs'[g][y] = IF y = h THEN Append(pairs[g][y], <<l, r>>) ELSE pairs[g][y]
            /\ pairs'[h][y] = IF y = g THEN Append(pairs[h][y], <<r, l>>) ELSE pairs[h][y]
    BY <2>1, <2>3, <2>4, <1>4
  <2> QED
    BY <2>2, <2>5, <1>4
<1>9. \A x, y : Compared(n + 1, x, y) <=> \/ Compared(n, x, y)
                                          \/ (x = l /\ y = r) \/ (x = r /\ y = l)
  <2>1. TAKE x, y
  <2>2. where[n + 1] = c
    BY <1>1, <1>3
  <2>3. Compared(n + 1, x, y) <=>
              \/ Compared(n, x, y)
              \/ /\ where[n + 1].kind = "vars"
                 /\ \/ where[n + 1].left = x /\ where[n + 1].right = y
                    \/ where[n + 1].left = y /\ where[n + 1].right = x
    BY <1>3, ComparedMore
  <2> QED
    BY <2>2, <2>3, <1>2, <1>4
<1>10. ASSUME NEW x \in Groups, NEW y \in Groups
       PROVE  WhereEdge(n + 1, {x}, y, children'[x], pairs'[x][y])
  <2>1. WhereEdge(n, {x}, y, children[x], pairs[x][y])
    BY <1>1 DEF Edges
  <2>2. CASE x = g /\ y = h
    <3>1. <<l, r>> \in Vars \X Vars
      BY <1>4
    <3>2. \A p : p \in Between(n + 1, {x}, y) <=> p \in Between(n, {x}, y) \/ p = <<l, r>>
      BY <2>2, <1>2, <1>4, <1>9 DEF Between
    <3>3. y \in children'[x] /\ pairs'[x][y] = Append(pairs[x][y], <<l, r>>)
      BY <2>2, <1>4, <1>7, <1>8
    <3> QED
      BY <3>1, <3>2, <3>3, <2>1, EdgeMore
  <2>3. CASE x = h /\ y = g
    <3>1. <<r, l>> \in Vars \X Vars
      BY <1>4
    <3>2. \A p : p \in Between(n + 1, {x}, y) <=> p \in Between(n, {x}, y) \/ p = <<r, l>>
      BY <2>3, <1>2, <1>4, <1>9 DEF Between
    <3>3. y \in children'[x] /\ pairs'[x][y] = Append(pairs[x][y], <<r, l>>)
      BY <2>3, <1>4, <1>7, <1>8
    <3> QED
      BY <3>1, <3>2, <3>3, <2>1, EdgeMore
  <2>4. CASE ~(x = g /\ y = h) /\ ~(x = h /\ y = g)
    <3>1. \A p : p \in Between(n + 1, {x}, y) <=> p \in Between(n, {x}, y)
      BY <2>4, <1>2, <1>9 DEF Between
    <3>2. Between(n + 1, {x}, y) = Between(n, {x}, y)
      BY <3>1
    <3>3. y \in children'[x] <=> y \in children[x]
      BY <2>4, <1>7
    <3>4. pairs'[x][y] = pairs[x][y]
      BY <2>4, <1>8
    <3> QED
      BY <3>2, <3>3, <3>4, <2>1, EdgeSame
  <2> QED
    BY <2>2, <2>3, <2>4
<1> QED
  BY <1>3, <1>10

LEMMA CompareVarsTyped ==
    ASSUME Typed, next <= Len(where), CompareVars(where[next])
    PROVE  /\ children' \in [Groups -> SUBSET Groups]
           /\ pairs' \in [Groups -> [Groups -> Seq(Vars \X Vars)]]
<1>1. PICK c : c = where[next]
  OBVIOUS
<1>2. PICK l, r, g, h : l = c.left /\ r = c.right /\ g = GroupOf[l] /\ h = GroupOf[r]
  OBVIOUS
<1>3. l \in Vars /\ r \in Vars /\ g \in Groups /\ h \in Groups
  <2>1. next \in 1 .. Len(where)
    BY WhereAssumption DEF Typed
  <2>2. c.kind = "vars"
    BY <1>1 DEF CompareVars
  <2> QED
    BY <2>1, <2>2, <1>1, <1>2, WhereAssumption, GroupsTyped DEF Typed
<1>4. /\ children \in [Groups -> SUBSET Groups]
      /\ pairs \in [Groups -> [Groups -> Seq(Vars \X Vars)]]
  BY DEF Typed
<1>5. PICK P : P = Vars \X Vars
  OBVIOUS
<1>6. <<l, r>> \in P /\ <<r, l>> \in P /\ pairs \in [Groups -> [Groups -> Seq(P)]]
  BY <1>3, <1>4, <1>5
<1>7. children' = [children EXCEPT ![g] = @ \cup {h}, ![h] = @ \cup {g}]
      /\ pairs' =
            IF g # h
            THEN [pairs EXCEPT ![g][h] = Append(@, <<l, r>>), ![h][g] = Append(@, <<r, l>>)]
            ELSE [pairs EXCEPT ![g][g] =
                    IF @ = <<>> THEN << <<r, l>> >> ELSE @ \o << <<l, r>>, <<r, l>> >>]
  BY <1>1, <1>2 DEF CompareVars
<1>8. children' \in [Groups -> SUBSET Groups]
  BY <1>3, <1>4, <1>7
<1>9. CASE g # h
  <2>1. \A x, y \in Groups : \A p \in P : Append(pairs[x][y], p) \in Seq(P)
    <3>1. \A x, y \in Groups : pairs[x][y] \in Seq(P)
      BY <1>6
    <3> QED
      BY <3>1
  <2>2. DOMAIN pairs' = Groups /\ \A x \in Groups : x # g /\ x # h => pairs'[x] = pairs[x]
    BY <1>3, <1>6, <1>7, <1>9
  <2>3. pairs'[g] = [pairs[g] EXCEPT ![h] = Append(@, <<l, r>>)]
    BY <1>3, <1>6, <1>7, <1>9
  <2>4. pairs'[h] = [pairs[h] EXCEPT ![g] = Append(@, <<r, l>>)]
    BY <1>3, <1>6, <1>7, <1>9
  <2>5. pairs'[g] \in [Groups -> Seq(P)] /\ pairs'[h] \in [Groups -> Seq(P)]
    BY <2>1, <2>3, <2>4, <1>3, <1>6
  <2>6. \A x \in Groups : pairs'[x] \in [Groups -> Seq(P)]
    BY <2>2, <2>5, <1>6
  <2>7. pairs' = [x \in Groups |-> pairs'[x]]
    BY <2>2, <1>3, <1>6, <1>7, <1>9
  <2>8. pairs' \in [Groups -> [Groups -> Seq(P)]]
    BY <2>6, <2>7
  <2> QED
    BY <2>8, <1>5, <1>8
<1>10. CASE g = h
  <2>1. PICK s : s = IF pairs[g][g] = <<>> THEN << <<r, l>> >>
                     ELSE pairs[g][g] \o << <<l, r>>, <<r, l>> >>
    OBVIOUS
  <2>2. s \in Seq(P)
    <3>1. << <<r, l>> >> \in Seq(P) /\ << <<l, r>>, <<r, l>> >> \in Seq(P)
      BY <1>6
    <3>2. pairs[g][g] \in Seq(P)
      BY <1>3, <1>6
    <3>3. pairs[g][g] \o << <<l, r>>, <<r, l>> >> \in Seq(P)
      BY <3>1, <3>2, ConcatProperties
    <3> QED
      BY <3>1, <3>3, <2>1
  <2>3. pairs' = [pairs EXCEPT ![g][g] = s]
    BY <2>1, <1>3, <1>6, <1>7, <1>10
  <2>4. pairs' \in [Groups -> [Groups -> Seq(P)]]
    BY <2>2, <2>3, <1>3, <1>6
  <2> QED
    BY <2>4, <1>5, <1>8
<1> QED
  BY <1>9, <1>10

LEMMA GroupConditionTyped ==
    ASSUME Typed, GroupCondition
    PROVE  Typed' /\ next' - 1 = next /\ next \in 1 .. Len(where) /\ pc' = "where"
<1>1. /\ pc = "where" /\ next <= Len(where) /\ next' = next + 1
      /\ UNCHANGED <<pc, where, rows, absorbed, tuples>>
      /\ where \in WhereLists /\ rows \in RowSets /\ next \in 1 .. (Len(where) + 1)
      /\ Len(where) \in Nat
  BY WhereAssumption DEF GroupCondition, Typed
<1>2. next \in 1 .. Len(where) /\ next' \in 1 .. (Len(where) + 1) /\ next' - 1 = next
  BY <1>1
<1>3. /\ children' \in [Groups -> SUBSET Groups]
      /\ pairs' \in [Groups -> [Groups -> Seq(Vars \X Vars)]]
      /\ conds' \in [Groups -> Seq({where[i] : i \in 1 .. Len(where)})]
  <2>1. CASE CompareVars(where[next])
    <3>1. conds' = conds
      BY <2>1 DEF CompareVars
    <3> QED
      BY <3>1, <2>1, <1>1, CompareVarsTyped DEF Typed
  <2>2. CASE CompareLiteral(where[next])
    <3>1. PICK C : C = {where[i] : i \in 1 .. Len(where)}
      OBVIOUS
    <3>2. PICK g : g = GroupOf[where[next].var]
      OBVIOUS
    <3>3. where[next].kind = "literal" /\ conds' = [conds EXCEPT ![g] = Append(@, where[next])]
          /\ UNCHANGED <<children, pairs>>
      BY <2>2, <3>2 DEF CompareLiteral
    <3>4. g \in Groups /\ where[next] \in C
      BY <3>1, <3>2, <3>3, <1>1, <1>2, WhereAssumption, GroupsTyped
    <3>5. conds \in [Groups -> Seq(C)]
      BY <3>1 DEF Typed
    <3>6. Append(conds[g], where[next]) \in Seq(C)
      <4>1. conds[g] \in Seq(C)
        BY <3>4, <3>5
      <4> QED
        BY <4>1, <3>4
    <3>7. conds' \in [Groups -> Seq(C)]
      BY <3>3, <3>4, <3>5, <3>6
    <3> QED
      BY <3>1, <3>3, <3>7 DEF Typed
  <2>3. CASE Trivial(where[next])
    BY <2>3 DEF Trivial, Typed
  <2> QED
    BY <2>1, <2>2, <2>3 DEF GroupCondition
<1>4. Typed'
  <2>1. /\ pc' \in {"where", "join", "done"} /\ where' \in WhereLists /\ rows' \in RowSets
        /\ next' \in 1 .. (Len(where') + 1) /\ (pc' # "where" => next' = Len(where') + 1)
    BY <1>1, <1>2
  <2>2. conds' \in [Groups -> Seq({where'[i] : i \in 1 .. Len(where')})] /\ absorbed' \subseteq Groups
    <3>1. UNCHANGED <<where, absorbed>> /\ absorbed \subseteq Groups
      BY <1>1 DEF Typed
    <3> QED
      BY <3>1, <1>3
  <2> QED
    BY <2>1, <2>2, <1>3 DEF Typed
<1> QED
  BY <1>1, <1>2, <1>4

LEMMA GroupConditionKeeps ==
    ASSUME JoinInv, GroupCondition
    PROVE  JoinInv'
<1>1. Typed /\ Typed' /\ next' - 1 = next /\ next \in 1 .. Len(where) /\ pc' = "where"
  BY GroupConditionTyped DEF JoinInv
<1>2. pc = "where" /\ next <= Len(where) /\ UNCHANGED <<where, rows>>
  BY DEF GroupCondition
<1>3. PICK n : n = next - 1
  OBVIOUS
<1>4. n \in Nat /\ next = n + 1 /\ Len(where) \in Nat
  <2>1. Len(where) \in Nat
    BY WhereAssumption DEF JoinInv, Typed
  <2> QED
    BY <2>1, <1>1, <1>3
<1>5. ASSUME AcrossGroups', SameLength' PROVE (Literals(next - 1) /\ Edges(next - 1))'
  <2>1. Given /\ Literals(n) /\ Edges(n)
    <3>1. AcrossGroups /\ SameLength
      BY <1>2, <1>5 DEF AcrossGroups, SameLength
    <3> QED
      BY <3>1, <1>1, <1>2, <1>3 DEF JoinInv, Given, Typed
  <2>2. \A x, y \in Groups : WhereEdge(next, {x}, y, children'[x], pairs'[x][y])
    <3>1. CASE CompareVars(where[next])
      BY <3>1, <2>1, <1>1, <1>2, <1>3, CompareVarsEdges
    <3>2. CASE where[next].kind # "vars" /\ UNCHANGED <<children, pairs>>
      <4>1. \A l, r : Compared(n + 1, l, r) <=> Compared(n, l, r)
        BY <3>2, <1>4, ComparedMore
      <4>2. ASSUME NEW x \in Groups, NEW y \in Groups
            PROVE  WhereEdge(next, {x}, y, children'[x], pairs'[x][y])
        <5>1. Between(next, {x}, y) = Between(n, {x}, y)
          BY <4>1, <1>4 DEF Between
        <5>2. WhereEdge(n, {x}, y, children[x], pairs[x][y])
          BY <2>1 DEF Edges
        <5>3. children'[x] = children[x] /\ pairs'[x][y] = pairs[x][y]
          BY <3>2
        <5> QED
          BY <5>1, <5>2, <5>3, EdgeSame
      <4> QED
        BY <4>2
    <3> QED
      BY <3>1, <3>2 DEF GroupCondition, CompareLiteral, Trivial
  <2>3. Edges(next - 1)'
    <3>1. ASSUME NEW x \in Groups, NEW y \in Groups
          PROVE  WhereEdge(next - 1, {x}, y, children[x], pairs[x][y])'
      <4>1. Between(next - 1, {x}, y)' = Between(next, {x}, y)
        BY <1>1, <1>2 DEF Between, Compared
      <4>2. WhereEdge(next, {x}, y, children'[x], pairs'[x][y])
        BY <2>2
      <4> QED
        BY <4>1, <4>2 DEF WhereEdge, Edge
    <3> QED
      BY <3>1 DEF Edges
  <2>4. ASSUME NEW g \in Groups, NEW x
        PROVE  (\E i \in DOMAIN conds'[g] : conds'[g][i] = x)
                  <=> \E i \in 1 .. next : /\ where[i] = x /\ where[i].kind = "literal"
                                           /\ GroupOf[where[i].var] = g
    <3>1. (\E i \in DOMAIN conds[g] : conds[g][i] = x)
                  <=> \E i \in 1 .. n : /\ where[i] = x /\ where[i].kind = "literal"
                                        /\ GroupOf[where[i].var] = g
      BY <2>1 DEF Literals
    <3>2. \A i : i \in 1 .. next <=> i \in 1 .. n \/ i = next
      BY <1>4
    <3>3. CASE where[next].kind = "literal" /\ GroupOf[where[next].var] = g
      <4>1. PICK s, t : s = conds[g] /\ t = conds'[g]
        OBVIOUS
      <4>2. PICK C : C = {where[i] : i \in 1 .. Len(where)}
        OBVIOUS
      <4>3. conds' = [conds EXCEPT ![g] = Append(@, where[next])] /\ conds \in [Groups -> Seq(C)]
        BY <3>3, <4>2, <1>1 DEF GroupCondition, CompareLiteral, CompareVars, Trivial, Typed
      <4>4. t = Append(s, where[next]) /\ s \in Seq(C)
        BY <4>1, <4>3
      <4>5. PICK m : m = Len(s)
        OBVIOUS
      <4>6. /\ m \in Nat /\ DOMAIN s = 1 .. m /\ DOMAIN t = 1 .. (m + 1)
            /\ t[m + 1] = where[next] /\ \A i \in 1 .. m : t[i] = s[i]
        BY <4>4, <4>5
      <4>7. \A i : i \in DOMAIN t <=> i \in DOMAIN s \/ i = m + 1
        BY <4>6
      <4>8. (\E i \in DOMAIN t : t[i] = x) <=> (\E i \in DOMAIN s : s[i] = x) \/ x = where[next]
        BY <4>6, <4>7
      <4> QED
        BY <4>1, <4>8, <3>1, <3>2, <3>3
    <3>4. CASE ~(where[next].kind = "literal" /\ GroupOf[where[next].var] = g)
      <4>1. conds'[g] = conds[g]
        <5>1. conds \in [Groups -> Seq({where[i] : i \in 1 .. Len(where)})]
          BY <1>1 DEF Typed
        <5> QED
          BY <5>1, <3>4 DEF GroupCondition, CompareLiteral, CompareVars, Trivial
      <4> QED
        BY <4>1, <3>1, <3>2, <3>4
    <3> QED
      BY <3>3, <3>4
  <2>5. Literals(next - 1)'
    BY <2>4, <1>1, <1>2 DEF Literals
  <2> QED
    BY <2>3, <2>5
<1> QED
  BY <1>1, <1>5 DEF JoinInv

-----------------------------------------------------------------------------
(***************************************************************************)
(* dump: the tuples of one group.                                          *)
(***************************************************************************)
LEMMA DumpedGives ==
    ASSUME Given, Typed, Literals(Len(where)), NEW g \in Groups
    PROVE  \A u : u \in Dumped(g) <=> Tuple({g}, u)
<1>1. PICK s, n : s = conds[g] /\ n = Len(where)
  OBVIOUS
<1>2. DOMAIN s = 1 .. Len(s)
  <2>1. PICK C : C = {where[i] : i \in 1 .. Len(where)}
    OBVIOUS
  <2>2. s \in Seq(C)
    BY <1>1, <2>1 DEF Typed
  <2> QED
    BY <2>2
<1>3. \A x : (\E i \in DOMAIN s : s[i] = x)
                <=> \E i \in 1 .. n : /\ where[i] = x /\ where[i].kind = "literal"
                                      /\ GroupOf[where[i].var] = g
  <2>1. Literals(n)
    BY <1>1
  <2>2. \A h \in Groups : \A x :
            (\E i \in DOMAIN conds[h] : conds[h][i] = x)
                <=> \E i \in 1 .. n : /\ where[i] = x /\ where[i].kind = "literal"
                                      /\ GroupOf[where[i].var] = h
    BY <2>1 DEF Literals
  <2>3. \A x : (\E i \in DOMAIN conds[g] : conds[g][i] = x)
                  <=> \E i \in 1 .. n : /\ where[i] = x /\ where[i].kind = "literal"
                                        /\ GroupOf[where[i].var] = g
    BY <2>2
  <2>4. s = conds[g]
    BY <1>1
  <2> QED
    BY ONLY <2>3, <2>4
<1>4. /\ \A i \in 1 .. n :
            \/ where[i].kind = "vars" /\ GroupOf[where[i].left] # GroupOf[where[i].right]
            \/ where[i].kind = "literal"
      /\ \A t \in rows[g] : t \in [VarsOf({g}) -> Seq(Chars)]
  BY <1>1, GivenTypes
<1>5. ASSUME NEW u PROVE u \in Dumped(g) <=> Tuple({g}, u)
  <2>1. (\A i \in 1 .. Len(s) : u[s[i].var] = s[i].value)
            <=> \A i \in 1 .. n : Meets(u, {g}, where[i])
    <3>1. (\A i \in DOMAIN s : u[s[i].var] = s[i].value)
            <=> \A x : (\E i \in DOMAIN s : s[i] = x) => u[x.var] = x.value
      OBVIOUS
    <3>2. (\A x : (\E i \in DOMAIN s : s[i] = x) => u[x.var] = x.value)
            <=> \A i \in 1 .. n : where[i].kind = "literal" /\ GroupOf[where[i].var] = g
                                    => u[where[i].var] = where[i].value
      <4>1. ASSUME \A x : (\E i \in DOMAIN s : s[i] = x) => u[x.var] = x.value,
                   NEW i \in 1 .. n, where[i].kind = "literal", GroupOf[where[i].var] = g
            PROVE  u[where[i].var] = where[i].value
        <5>1. PICK x : x = where[i]
          OBVIOUS
        <5>2. \E j \in DOMAIN s : s[j] = x
          BY <4>1, <5>1, <1>3
        <5> QED
          BY <4>1, <5>1, <5>2
      <4>2. ASSUME \A i \in 1 .. n : where[i].kind = "literal" /\ GroupOf[where[i].var] = g
                                        => u[where[i].var] = where[i].value,
                   NEW x, \E i \in DOMAIN s : s[i] = x
            PROVE  u[x.var] = x.value
        <5>1. PICK i \in 1 .. n : /\ where[i] = x /\ where[i].kind = "literal"
                                  /\ GroupOf[where[i].var] = g
          BY <4>2, <1>3
        <5> QED
          BY <4>2, <5>1
      <4> QED
        BY <4>1, <4>2
    <3>3. ASSUME NEW i \in 1 .. n
          PROVE  Meets(u, {g}, where[i])
                    <=> (where[i].kind = "literal" /\ GroupOf[where[i].var] = g
                            => u[where[i].var] = where[i].value)
      BY <1>4 DEF Meets
    <3> QED
      BY <3>1, <3>2, <3>3, <1>2
  <2>2. u \in Dumped(g) <=> u \in rows[g] /\ \A i \in 1 .. Len(s) : u[s[i].var] = s[i].value
    BY <1>1 DEF Dumped
  <2>3. u \in rows[g] => u = [v \in VarsOf({g}) |-> u[v]]
    BY <1>4
  <2>4. u = [v \in VarsOf({g}) |-> u[v]] => u = Part(u, g)
    BY DEF Part
  <2> QED
    BY <1>1, <2>1, <2>2, <2>3, <2>4 DEF Tuple
<1> QED
  BY <1>5

-----------------------------------------------------------------------------
(***************************************************************************)
(* generateJoinQuery                                                       *)
(***************************************************************************)
\* The edges of a group after the first one is taken out of the graph.
LEMMA RemoveRootKeeps ==
    ASSUME JoinInv, RemoveRoot
    PROVE  JoinInv'
<1>1. /\ Typed /\ pc = "where" /\ pc' = "join" /\ absorbed' = {0} /\ tuples' = Dumped(0)
      /\ children' = [g \in Groups |-> IF g = 0 THEN children[0] ELSE children[g] \ {0}]
      /\ UNCHANGED <<where, rows, pairs, conds, next>>
  BY DEF JoinInv, RemoveRoot
<1>2. 0 \in Groups
  BY GroupsTyped
<1>3. next - 1 = Len(where) /\ next = Len(where) + 1 /\ Len(where) \in Nat
  <2>1. Len(where) \in Nat
    BY <1>1, WhereAssumption DEF Typed
  <2>2. next \in 1 .. (Len(where) + 1) /\ next > Len(where)
    BY <1>1 DEF Typed, RemoveRoot
  <2> QED
    BY <2>1, <2>2
<1>4. Typed'
  <2>1. children' \in [Groups -> SUBSET Groups] /\ absorbed' \subseteq Groups
    BY <1>1, <1>2 DEF Typed
  <2> QED
    BY <2>1, <1>1, <1>3 DEF Typed
<1>5. ASSUME AcrossGroups', SameLength' PROVE Literals(next - 1)' /\ Joins'
  <2>1. Given /\ Literals(Len(where)) /\ Edges(Len(where))
    <3>1. AcrossGroups /\ SameLength
      BY <1>1, <1>5 DEF AcrossGroups, SameLength
    <3> QED
      BY <3>1, <1>1, <1>3 DEF JoinInv, Given, Typed
  <2>2. Literals(next - 1)'
    <3>1. Literals(next - 1)
      BY <2>1, <1>3
    <3> QED
      BY <3>1, <1>1 DEF Literals
  <2>3. tuples' = NestedLoops({0})'
    <3>1. \A u : u \in Dumped(0) <=> Tuple({0}, u)
      BY <2>1, <1>1, <1>2, DumpedGives
    <3>2. PICK A : A = {0}
      OBVIOUS
    <3>3. A \in SUBSET Groups
      BY <3>2, <1>2
    <3>4. \A u : u \in NestedLoops(A) <=> Tuple(A, u)
      BY <2>1, <3>3, LoopsGive
    <3>5. Dumped(0) = NestedLoops({0})
      BY <3>1, <3>2, <3>4
    <3>6. NestedLoops({0})' = NestedLoops({0})
      BY <1>1 DEF NestedLoops, HoldsFor
    <3> QED
      BY <3>5, <3>6, <1>1
  <2>4. ASSUME NEW c \in Groups, NEW h \in Groups
        PROVE  Edge(Len(where), {c}, h, children[c], pairs[c][h])
    BY <2>1 DEF Edges, WhereEdge
  <2>5. \A c \in Groups : c \notin children[c] /\ children[c] \subseteq Groups
    <3>1. ASSUME NEW c \in Groups PROVE Between(Len(where), {c}, c) = {}
      <4>1. \A i \in 1 .. Len(where) :
                where[i].kind = "vars" => GroupOf[where[i].left] # GroupOf[where[i].right]
        BY <2>1, GivenTypes
      <4> QED
        BY <4>1 DEF Between, Compared
    <3> QED
      BY <3>1, <2>4, <1>1 DEF Edge, Typed
  <2>6. \A c \in {0} \cup (Groups \ {0}) : children'[c] \subseteq Groups \ {0}
    BY <2>5, <1>1, <1>2
  <2>7. ASSUME NEW h \in Groups \ {0}, NEW c \in Groups
        PROVE  Edge(Len(where), {c}, h, children[c], pairs[c][h])'
    <3>1. h \in children'[c] <=> h \in children[c]
      BY <1>1
    <3>2. Between(Len(where), {c}, h)' = Between(Len(where), {c}, h)
      BY <1>1 DEF Between, Compared
    <3>3. pairs'[c][h] = pairs[c][h]
      BY <1>1
    <3> QED
      BY <3>1, <3>2, <3>3, <2>4 DEF Edge
  <2>8. \A h \in Groups \ {0} : Edge(Len(where), absorbed, h, children[0], pairs[0][h])'
    <3>1. ASSUME NEW h \in Groups \ {0}
          PROVE  Edge(Len(where), absorbed, h, children[0], pairs[0][h])'
      <4>1. Edge(Len(where), {0}, h, children[0], pairs[0][h])'
        BY <2>7, <1>2
      <4> QED
        BY <4>1, <1>1 DEF Edge, Between
    <3> QED
      BY <3>1
  <2>9. Joins'
    BY <2>3, <2>6, <2>7, <2>8, <1>1 DEF Joins
  <2> QED
    BY <2>2, <2>9
<1> QED
  BY <1>1, <1>4, <1>5 DEF JoinInv

\* What a turn of the loop does to the graph, group by group.
ChildJoined(c) ==
    /\ pc = "join" /\ UNCHANGED <<pc, where, rows, conds, next>>
    /\ c \in children[0] /\ absorbed' = absorbed \cup {c}
    /\ tuples' = HashJoin(tuples, Dumped(c), pairs[0][c])
    /\ children' = [g \in Groups |-> children'[g]]
    /\ children'[0] = (children[0] \cup children[c]) \ {c}
    /\ \A g \in Groups \ {0} : children'[g] = children[g] \ {c}
    /\ pairs' = [pairs EXCEPT ![0] =
            [h \in Groups |-> IF h \in children[c] \ {c} THEN HandedOn(c, h) ELSE @[h]]]

LEMMA JoinChildJoins ==
    ASSUME Typed, JoinChild
    PROVE  \E c \in Groups : ChildJoined(c)
<1>1. children[0] \in SUBSET Nat /\ children[0] # {} /\ 0 \in Groups /\ children[0] \subseteq Groups
  BY GroupsTyped DEF Typed, JoinChild
<1>2. \E h \in children[0] : \A k \in children[0] : h <= k
  <2>1. PICK S : S = children[0]
    OBVIOUS
  <2>2. S \in SUBSET Nat /\ S # {}
    BY <1>1, <2>1
  <2>3. \E h \in S : \A k \in S : h <= k
    BY <2>2, LeastElement
  <2> QED
    BY <2>1, <2>3
<1>3. PICK c : c = CHOOSE h \in children[0] : \A k \in children[0] : h <= k
  OBVIOUS
<1>4. c \in children[0] /\ c \in Groups
  BY <1>1, <1>2, <1>3
<1>5. /\ pc = "join" /\ UNCHANGED <<pc, where, rows, conds, next>>
      /\ tuples' = HashJoin(tuples, Dumped(c), pairs[0][c])
      /\ children' = [WithoutChild(c) EXCEPT ![0] = @ \cup (children[c] \ {c})]
      /\ pairs' = [pairs EXCEPT ![0] =
            [h \in Groups |-> IF h \in children[c] \ {c} THEN HandedOn(c, h) ELSE @[h]]]
      /\ absorbed' = absorbed \cup {c}
  BY <1>3 DEF JoinChild
<1>6. /\ children' = [g \in Groups |-> children'[g]]
      /\ children'[0] = (children[0] \cup children[c]) \ {c}
      /\ \A g \in Groups \ {0} : children'[g] = children[g] \ {c}
  BY <1>1, <1>5 DEF WithoutChild
<1> QED
  BY <1>4, <1>5, <1>6 DEF ChildJoined

LEMMA ChildJoinedTyped ==
    ASSUME Typed, NEW c \in Groups, ChildJoined(c)
    PROVE  /\ Typed'
           /\ \A h \in Groups : pairs'[0][h] = IF h \in children[c] \ {c} THEN HandedOn(c, h)
                                               ELSE pairs[0][h]
           /\ \A g \in Groups \ {0} : pairs'[g] = pairs[g]
<1>1. 0 \in Groups
  BY GroupsTyped
<1>2. children' \in [Groups -> SUBSET Groups]
  <2>1. \A g \in Groups : children[g] \subseteq Groups
    BY DEF Typed
  <2>2. children'[0] \subseteq Groups
    BY <2>1, <1>1 DEF ChildJoined
  <2>3. \A g \in Groups \ {0} : children'[g] \subseteq Groups
    BY <2>1 DEF ChildJoined
  <2>4. \A g \in Groups : children'[g] \subseteq Groups
    BY <2>2, <2>3
  <2>5. children' = [g \in Groups |-> children'[g]]
    BY DEF ChildJoined
  <2> QED
    BY <2>4, <2>5
<1>3. \A h \in Groups : pairs[0][h] \in Seq(Vars \X Vars) /\ pairs[c][h] \in Seq(Vars \X Vars)
  BY <1>1 DEF Typed
<1>4. \A h \in Groups : HandedOn(c, h) \in Seq(Vars \X Vars)
  <2>1. ASSUME NEW h \in Groups PROVE pairs[0][h] \o pairs[c][h] \in Seq(Vars \X Vars)
    BY <1>3, ConcatProperties
  <2> QED
    BY <2>1, <1>3 DEF HandedOn
<1>5. PICK row : row = [h \in Groups |-> IF h \in children[c] \ {c} THEN HandedOn(c, h) ELSE pairs[0][h]]
  OBVIOUS
<1>6. row \in [Groups -> Seq(Vars \X Vars)]
  BY <1>3, <1>4, <1>5
<1>7. pairs \in [Groups -> [Groups -> Seq(Vars \X Vars)]] /\ pairs' = [pairs EXCEPT ![0] = row]
  BY <1>5 DEF Typed, ChildJoined
<1>8. pairs' \in [Groups -> [Groups -> Seq(Vars \X Vars)]]
  BY <1>6, <1>7
<1>9. pairs'[0] = row /\ \A g \in Groups \ {0} : pairs'[g] = pairs[g]
  BY <1>1, <1>7
<1>10. \A h \in Groups : pairs'[0][h] = IF h \in children[c] \ {c} THEN HandedOn(c, h) ELSE pairs[0][h]
  BY <1>5, <1>9
<1>11. Typed'
  <2>1. UNCHANGED <<pc, where, rows, conds, next>> /\ absorbed' \subseteq Groups
    BY DEF Typed, ChildJoined
  <2>2. /\ pc' \in {"where", "join", "done"} /\ where' \in WhereLists /\ rows' \in RowSets
        /\ next' \in 1 .. (Len(where') + 1) /\ (pc' # "where" => next' = Len(where') + 1)
    BY <2>1 DEF Typed
  <2>3. conds' \in [Groups -> Seq({where'[i] : i \in 1 .. Len(where')})]
    BY <2>1 DEF Typed
  <2> QED
    BY <2>1, <2>2, <2>3, <1>2, <1>8 DEF Typed
<1> QED
  BY <1>9, <1>10, <1>11

\* The edges of the join to h and those of the child it takes in, together.
LEMMA EdgesTogether ==
    ASSUME NEW n, NEW A, NEW c, NEW h, NEW kids, NEW list, Edge(n, A, h, kids, list),
           NEW others, NEW more, Edge(n, {c}, h, others, more), NEW both, NEW all,
           h \in both <=> h \in kids \/ h \in others,
           all = IF h \in others THEN IF h \in kids THEN list \o more ELSE more ELSE list
    PROVE  Edge(n, A \cup {c}, h, both, all)
<1>1. PICK P, Q, R : /\ P = Between(n, A, h) /\ Q = Between(n, {c}, h)
                     /\ R = Between(n, A \cup {c}, h)
  OBVIOUS
<1>2. R = P \cup Q
  <2>1. Between(n, A \cup {c}, h) = Between(n, A, h) \cup Between(n, {c}, h)
    BY DEF Between
  <2> QED
    BY <2>1, <1>1
<1>3. /\ h \in kids <=> P # {}
      /\ h \in kids => ListOf(list, P)
      /\ h \in others <=> Q # {}
      /\ h \in others => ListOf(more, Q)
  BY <1>1 DEF Edge
<1>4. h \in both => ListOf(all, R)
  <2>1. CASE h \in kids /\ h \in others
    BY <2>1, <1>2, <1>3, ListsConcat
  <2>2. CASE h \in kids /\ h \notin others
    <3>1. R = P
      BY <2>2, <1>2, <1>3
    <3> QED
      BY <3>1, <2>2, <1>3
  <2>3. CASE h \notin kids /\ h \in others
    <3>1. R = Q
      BY <2>3, <1>2, <1>3
    <3> QED
      BY <3>1, <2>3, <1>3
  <2> QED
    BY <2>1, <2>2, <2>3
<1> QED
  BY <1>1, <1>2, <1>3, <1>4 DEF Edge

LEMMA ChildJoinedKeeps ==
    ASSUME Given, Typed, Joins, Literals(Len(where)), NEW c \in Groups, ChildJoined(c)
    PROVE  Joins'
<1>1. /\ 0 \in absorbed /\ 0 \in Groups /\ absorbed \subseteq Groups /\ c \in children[0]
      /\ \A g \in {0} \cup (Groups \ absorbed) : children[g] \subseteq Groups \ absorbed
      /\ absorbed' = absorbed \cup {c} /\ UNCHANGED where
  BY GroupsTyped DEF Typed, Joins, ChildJoined
<1>2. c \in Groups \ absorbed /\ c # 0
  BY <1>1
<1>3. /\ \A h \in Groups : pairs'[0][h] = IF h \in children[c] \ {c} THEN HandedOn(c, h)
                                          ELSE pairs[0][h]
      /\ \A g \in Groups \ {0} : pairs'[g] = pairs[g]
      /\ children'[0] = (children[0] \cup children[c]) \ {c}
      /\ \A g \in Groups \ {0} : children'[g] = children[g] \ {c}
  BY ChildJoinedTyped DEF ChildJoined
<1>4. \A A, h : Between(Len(where), A, h)' = Between(Len(where), A, h)
  BY <1>1 DEF Between, Compared
<1>5. /\ \A h \in Groups \ absorbed : Edge(Len(where), absorbed, h, children[0], pairs[0][h])
      /\ \A g, h \in Groups \ absorbed : Edge(Len(where), {g}, h, children[g], pairs[g][h])
      /\ tuples = NestedLoops(absorbed)
  BY DEF Joins
<1>6. \A g \in {0} \cup (Groups \ absorbed') : children'[g] \subseteq Groups \ absorbed'
  <2>1. children'[0] \subseteq Groups \ absorbed'
    <3>1. children[0] \subseteq Groups \ absorbed /\ children[c] \subseteq Groups \ absorbed
      BY <1>1, <1>2
    <3> QED
      BY <3>1, <1>1, <1>3
  <2>2. ASSUME NEW g \in Groups \ absorbed' PROVE children'[g] \subseteq Groups \ absorbed'
    <3>1. g \in Groups \ absorbed /\ g # 0
      BY <1>1
    <3>2. children[g] \subseteq Groups \ absorbed /\ children'[g] = children[g] \ {c}
      BY <3>1, <1>1, <1>3
    <3> QED
      BY <3>2, <1>1
  <2> QED
    BY <2>1, <2>2
<1>7. ASSUME NEW h \in Groups \ absorbed'
      PROVE  Edge(Len(where), absorbed, h, children[0], pairs[0][h])'
  <2>1. h \in Groups \ absorbed /\ h # c
    BY <1>1
  <2>2. h \in children'[0] <=> h \in children[0] \/ h \in children[c]
    BY <2>1, <1>3
  <2>3. pairs'[0][h] = IF h \in children[c]
                       THEN IF h \in children[0] THEN pairs[0][h] \o pairs[c][h] ELSE pairs[c][h]
                       ELSE pairs[0][h]
    BY <2>1, <1>3 DEF HandedOn
  <2>4. /\ Edge(Len(where), absorbed, h, children[0], pairs[0][h])
        /\ Edge(Len(where), {c}, h, children[c], pairs[c][h])
    BY <2>1, <1>2, <1>5
  <2>5. Edge(Len(where), absorbed \cup {c}, h, children'[0], pairs'[0][h])
    BY <2>2, <2>3, <2>4, EdgesTogether
  <2> QED
    BY <2>5, <1>1, <1>4 DEF Edge
<1>8. ASSUME NEW g \in Groups \ absorbed', NEW h \in Groups \ absorbed'
      PROVE  Edge(Len(where), {g}, h, children[g], pairs[g][h])'
  <2>1. g \in Groups \ absorbed /\ g # 0 /\ h \in Groups \ absorbed /\ h # c
    BY <1>1
  <2>2. Edge(Len(where), {g}, h, children[g], pairs[g][h])
    BY <2>1, <1>5
  <2>3. (h \in children'[g] <=> h \in children[g]) /\ pairs'[g][h] = pairs[g][h]
    BY <2>1, <1>3
  <2> QED
    BY <2>2, <2>3, <1>4 DEF Edge
<1>9. (tuples = NestedLoops(absorbed))'
  <2>1. PICK U, list : U = Dumped(c) /\ list = pairs[0][c]
    OBVIOUS
  <2>2. \A u : u \in U <=> Tuple({c}, u)
    BY <2>1, DumpedGives
  <2>3. ListOf(list, Between(Len(where), absorbed, c))
    BY <2>1, <1>1, <1>2, <1>5 DEF Edge
  <2>4. HashJoin(tuples, U, list) = NestedLoops(absorbed \cup {c})
    BY <2>2, <2>3, <1>1, <1>2, <1>5, HashJoinExact
  <2>5. tuples' = HashJoin(tuples, Dumped(c), pairs[0][c]) /\ UNCHANGED <<where, rows>>
    BY DEF ChildJoined
  <2>6. \A A : NestedLoops(A)' = NestedLoops(A)
    BY <2>5 DEF NestedLoops, HoldsFor
  <2> QED
    BY <2>1, <2>4, <2>5, <2>6, <1>1
<1> QED
  BY <1>1, <1>6, <1>7, <1>8, <1>9 DEF Joins

LEMMA JoinChildKeeps ==
    ASSUME JoinInv, JoinChild
    PROVE  JoinInv'
<1>1. Typed /\ next = Len(where) + 1 /\ Len(where) \in Nat
  <2>1. Typed /\ pc # "where"
    BY DEF JoinInv, JoinChild
  <2> QED
    BY <2>1, WhereAssumption DEF Typed
<1>2. next - 1 = Len(where)
  BY <1>1
<1>3. PICK c \in Groups : ChildJoined(c)
  BY <1>1, JoinChildJoins
<1>4. Typed'
  BY <1>1, <1>3, ChildJoinedTyped
<1>5. pc = "join" /\ UNCHANGED <<pc, where, rows, conds, next>>
  BY <1>3 DEF ChildJoined
<1>6. ASSUME AcrossGroups', SameLength' PROVE Literals(next - 1)' /\ Joins'
  <2>1. Given /\ Literals(next - 1) /\ Joins
    <3>1. AcrossGroups /\ SameLength
      BY <1>5, <1>6 DEF AcrossGroups, SameLength
    <3> QED
      BY <3>1, <1>1, <1>5 DEF JoinInv, Given, Typed
  <2>2. Literals(next - 1)'
    BY <2>1, <1>5 DEF Literals
  <2>3. Literals(Len(where))
    BY <2>1, <1>2
  <2> QED
    BY <2>1, <2>2, <2>3, <1>1, <1>3, ChildJoinedKeeps
<1> QED
  BY <1>4, <1>5, <1>6 DEF JoinInv

-----------------------------------------------------------------------------
(***************************************************************************)
(* The theorem.                                                            *)
(***************************************************************************)
LEMMA JoinsStay ==
    ASSUME Joins, UNCHANGED <<where, rows, children, pairs, absorbed, tuples>>
    PROVE  Joins'
<1>1. \A n, A, h : Between(n, A, h)' = Between(n, A, h)
  BY DEF Between, Compared
<1>2. \A A : NestedLoops(A)' = NestedLoops(A)
  BY DEF NestedLoops, HoldsFor
<1>4. (tuples = NestedLoops(absorbed))'
  BY <1>2 DEF Joins
<1>5. ASSUME NEW h \in Groups \ absorbed'
      PROVE  Edge(Len(where), absorbed, h, children[0], pairs[0][h])'
  <2>1. Edge(Len(where), absorbed, h, children[0], pairs[0][h])
    BY DEF Joins
  <2> QED
    BY <2>1, <1>1 DEF Edge
<1>6. ASSUME NEW h \in Groups \ absorbed', NEW c \in Groups \ absorbed'
      PROVE  Edge(Len(where), {c}, h, children[c], pairs[c][h])'
  <2>1. Edge(Len(where), {c}, h, children[c], pairs[c][h])
    BY DEF Joins
  <2> QED
    BY <2>1, <1>1 DEF Edge
<1> QED
  BY <1>4, <1>5, <1>6 DEF Joins

LEMMA EdgesStay ==
    ASSUME NEW n, Edges(n), UNCHANGED <<where, children, pairs>>
    PROVE  \A g, h \in Groups : WhereEdge(n, {g}, h, children[g], pairs[g][h])'
<1>1. \A A, h : Between(n, A, h)' = Between(n, A, h)
  BY DEF Between, Compared
<1>2. ASSUME NEW g \in Groups, NEW h \in Groups
      PROVE  WhereEdge(n, {g}, h, children[g], pairs[g][h])'
  <2>1. WhereEdge(n, {g}, h, children[g], pairs[g][h])
    BY DEF Edges
  <2> QED
    BY <2>1, <1>1 DEF WhereEdge, Edge
<1> QED
  BY <1>2

LEMMA FinishKeeps ==
    ASSUME JoinInv, Finish
    PROVE  JoinInv'
<1>1. /\ pc = "join" /\ children[0] = {} /\ pc' = "done"
      /\ UNCHANGED <<where, rows, children, pairs, conds, next, absorbed, tuples>>
  BY DEF Finish
<1>2. Typed'
  BY <1>1 DEF JoinInv, Typed
<1>3. ASSUME AcrossGroups', SameLength' PROVE Literals(next - 1)' /\ Joins' /\ (children[0] = {})'
  <2>1. AcrossGroups /\ SameLength
    BY <1>1, <1>3 DEF AcrossGroups, SameLength
  <2>2. Literals(next - 1) /\ Joins
    BY <2>1, <1>1 DEF JoinInv
  <2>3. Literals(next - 1)'
    BY <2>2, <1>1 DEF Literals
  <2>4. Joins'
    BY <2>2, <1>1, JoinsStay
  <2> QED
    BY <2>3, <2>4, <1>1
<1> QED
  BY <1>1, <1>2, <1>3 DEF JoinInv

LEMMA StutterKeeps ==
    ASSUME JoinInv, UNCHANGED vars
    PROVE  JoinInv'
<1>1. UNCHANGED <<pc, where, rows, children, pairs, conds, next, absorbed, tuples>>
  BY DEF vars
<1>2. Typed'
  <2>1. Typed
    BY DEF JoinInv
  <2> QED
    BY <2>1, <1>1 DEF Typed
<1>3. ASSUME AcrossGroups', SameLength'
      PROVE  /\ Literals(next - 1)' /\ (pc = "where" => Edges(next - 1))'
             /\ (pc # "where" => Joins)' /\ (pc = "done" => children[0] = {})'
  <2>1. AcrossGroups /\ SameLength
    BY <1>1, <1>3 DEF AcrossGroups, SameLength
  <2>2. Literals(next - 1)'
    BY <2>1, <1>1 DEF JoinInv, Literals
  <2>3. ASSUME pc' = "where" PROVE Edges(next - 1)'
    <3>1. PICK n : n = next - 1 /\ Edges(n)
      BY <2>1, <2>3, <1>1 DEF JoinInv
    <3>2. \A g, h \in Groups : WhereEdge(n, {g}, h, children[g], pairs[g][h])'
      BY <3>1, <1>1, EdgesStay
    <3>3. n = next' - 1
      BY <3>1, <1>1
    <3> QED
      BY <3>2, <3>3 DEF Edges
  <2>4. (pc # "where" => Joins)'
    BY <2>1, <1>1, JoinsStay DEF JoinInv
  <2>5. (pc = "done" => children[0] = {})'
    BY <2>1, <1>1 DEF JoinInv
  <2> QED
    BY <2>2, <2>3, <2>4, <2>5
<1> QED
  BY <1>2, <1>3 DEF JoinInv

LEMMA JoinInvInductive == JoinInv /\ [Next]_vars => JoinInv'
<1>1. SUFFICES ASSUME JoinInv, [Next]_vars PROVE JoinInv'
  OBVIOUS
<1>2. CASE GroupCondition
  BY <1>1, <1>2, GroupConditionKeeps
<1>3. CASE RemoveRoot
  BY <1>1, <1>3, RemoveRootKeeps
<1>4. CASE JoinChild
  BY <1>1, <1>4, JoinChildKeeps
<1>5. CASE Finish
  BY <1>1, <1>5, FinishKeeps
<1>6. CASE UNCHANGED vars
  BY <1>1, <1>6, StutterKeeps
<1> QED
  BY <1>1, <1>2, <1>3, <1>4, <1>5, <1>6 DEF Next, Rewrite, Done

\* With no edge left to follow, no condition leaves the groups that are joined.
LEMMA NoneLeftOut ==
    ASSUME JoinInv, AcrossGroups, SameLength, pc = "done", Connected
    PROVE  absorbed = Groups
<1>1. /\ Joins /\ children[0] = {} /\ Given /\ absorbed \in SUBSET Groups /\ 0 \in absorbed
  BY DEF JoinInv, Given, Typed, Joins
<1>2. SUFFICES ASSUME absorbed # Groups PROVE FALSE
  BY <1>1
<1>3. PICK i \in 1 .. Len(where) : /\ GroupsIn(where[i]) \cap absorbed # {}
                                   /\ ~(GroupsIn(where[i]) \subseteq absorbed)
  BY <1>1, <1>2 DEF Connected
<1>4. PICK l, r : /\ l \in Vars /\ r \in Vars /\ GroupOf[l] \in absorbed /\ GroupOf[r] \notin absorbed
                  /\ where[i].kind = "vars"
                  /\ \/ where[i].left = l /\ where[i].right = r
                     \/ where[i].left = r /\ where[i].right = l
  <2>1. \/ /\ where[i].kind = "vars" /\ where[i].left \in Vars /\ where[i].right \in Vars
           /\ GroupOf[where[i].left] # GroupOf[where[i].right]
        \/ where[i].kind = "literal" /\ where[i].var \in Vars
    BY <1>1, GivenTypes
  <2>2. CASE where[i].kind = "literal"
    <3>1. GroupsIn(where[i]) = {GroupOf[where[i].var]}
      BY <2>2 DEF GroupsIn
    <3> QED
      BY <3>1, <1>3
  <2>3. CASE where[i].kind = "vars"
    <3>1. GroupsIn(where[i]) = {GroupOf[where[i].left], GroupOf[where[i].right]}
      BY <2>3 DEF GroupsIn
    <3>2. where[i].left \in Vars /\ where[i].right \in Vars
      BY <2>1, <2>3
    <3>3. \/ GroupOf[where[i].left] \in absorbed /\ GroupOf[where[i].right] \notin absorbed
          \/ GroupOf[where[i].right] \in absorbed /\ GroupOf[where[i].left] \notin absorbed
      BY <3>1, <1>3
    <3> QED
      BY <3>2, <3>3, <2>3
  <2> QED
    BY <2>1, <2>2, <2>3
<1>5. PICK h : h = GroupOf[r]
  OBVIOUS
<1>6. h \in Groups \ absorbed
  BY <1>4, <1>5, GroupsTyped
<1>7. Compared(Len(where), l, r)
  BY <1>3, <1>4 DEF Compared
<1>8. <<l, r>> \in Between(Len(where), absorbed, h)
  BY <1>4, <1>5, <1>7 DEF Between
<1>9. h \in children[0]
  BY <1>1, <1>6, <1>8 DEF Joins, Edge
<1> QED
  BY <1>1, <1>9

\* For every query of the kind the rewriting is right for, whatever its
\* variables, conditions and documents are: the join has exactly the tuples of
\* the nested loops over the groups it has absorbed, after every turn of the
\* loop of generateJoinQuery; and when the groups are connected, none is left
\* out at the end.
THEOREM JoinsAreExact == Spec => []JoinExact
<1>1. JoinInv => JoinExact
  <2>1. SUFFICES ASSUME JoinInv, AcrossGroups, SameLength
                 PROVE  /\ pc \in {"join", "done"} => tuples = NestedLoops(absorbed)
                        /\ pc = "done" /\ Connected => absorbed = Groups
    BY DEF JoinExact
  <2>2. pc \in {"join", "done"} => tuples = NestedLoops(absorbed)
    BY <2>1 DEF JoinInv, Joins
  <2> QED
    BY <2>1, <2>2, NoneLeftOut
<1> QED
  BY <1>1, InitJoinInv, JoinInvInductive, PTL DEF Spec


=============================================================================
