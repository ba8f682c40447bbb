---------------------------- MODULE XPathProofs ----------------------------
(***************************************************************************)
(* Proofs about XPath, for every document and every finite set of          *)
(* expressions.  TLAPS checks them with tlapm.                             *)
(***************************************************************************)
EXTENDS XPath, SequenceTheorems, FiniteSetTheorems, TLAPS

\* A set of naturals has a least element.
LEMMA LeastElement ==
    ASSUME NEW T \in SUBSET Nat, T # {}
    PROVE  \E m \in T : \A t \in T : m <= t
<1>1. PICK R : R = {nm \in Nat \X Nat : nm[1] < nm[2]}
  OBVIOUS
<1>2. IsWellFoundedOn(R, Nat)
  BY <1>1, NatLessThanWellFounded DEF OpToRel
<1>3. PICK m \in T : \A t \in T : <<t, m>> \notin R
  BY <1>2, WFMin
<1>4. ASSUME NEW t \in T, t < m PROVE FALSE
  BY <1>1, <1>3, <1>4
<1> QED
  BY <1>4

-----------------------------------------------------------------------------
(***************************************************************************)
(* Expressions are trees.                                                  *)
(***************************************************************************)
Leaf(e) == e.op \in Steps \cup {"current"}
Unary(e) == e.op \in {"str", "not"}

\* What an expression is made of, in the order of the visitor's cases.
LEMMA Forms ==
    ASSUME NEW e \in Expressions
    PROVE  /\ \/ e.op \in Steps \/ e.op = "current" \/ e.op = "directChild" \/ e.op = "indirectChild"
              \/ e.op = "concat" \/ e.op = "filter" \/ e.op \in {"eq", "is"} \/ e.op = "str"
              \/ e.op = "or" \/ e.op = "and" \/ e.op = "not"
           /\ Parts(e) \subseteq Expressions
           /\ Unary(e) => e.left \in Parts(e)
           /\ ~Leaf(e) /\ ~Unary(e) => e.left \in Parts(e) /\ e.right \in Parts(e)
<1>1. CASE e \in Paths
  BY <1>1, PathsAssumption DEF Parts, Leaf, Unary, Steps, Expressions
<1>2. CASE e \in Conditions /\ e \notin Paths
  BY <1>2, ConditionsAssumption DEF Parts, Leaf, Unary, Steps, Expressions
<1> QED
  BY <1>1, <1>2 DEF Expressions

\* What holds of an expression when it holds of its parts holds of all.
LEMMA TreeInduction ==
    ASSUME NEW P, P \subseteq Expressions,
           \A e \in Expressions : Parts(e) \subseteq P => e \in P
    PROVE  \A e \in Expressions : e \in P
<1> DEFINE Bad == {Height[e] : e \in Expressions \ P}
<1>1. SUFFICES ASSUME Bad # {} PROVE FALSE
  OBVIOUS
<1>2. Bad \in SUBSET Nat
  BY HeightAssumption
<1>3. \A n : n \in Bad <=> \E e \in Expressions : e \notin P /\ Height[e] = n
  OBVIOUS
<1> HIDE DEF Bad
<1>4. PICK m \in Bad : \A n \in Bad : m <= n
  BY <1>1, <1>2, LeastElement
<1>5. PICK e \in Expressions : e \notin P /\ Height[e] = m
  BY <1>3, <1>4
<1>6. PICK p \in Parts(e) : p \notin P
  BY <1>5
<1>7. p \in Expressions /\ Height[p] < m /\ Height[p] \in Nat /\ m \in Nat
  BY <1>5, <1>6, <1>2, Forms, HeightAssumption
<1>8. Height[p] \in Bad
  BY <1>3, <1>6, <1>7
<1> QED
  BY <1>4, <1>7, <1>8

\* The value of e by B, given those of its parts; d stands for parts it lacks.
ByParts(B, d, f, e) ==
    B[e][IF e.left \in Parts(e) THEN f[e.left] ELSE d]
        [IF e.right \in Parts(e) THEN f[e.right] ELSE d]

\* f gives every expression that is less than k deep its value.
ValuesTo(B, V, d, f, k) ==
    /\ f \in [Expressions -> V]
    /\ \A e \in Expressions : Height[e] < k => f[e] = ByParts(B, d, f, e)

\* B gives an expression's value from the values of two parts.
Combines(B, V) == B \in [Expressions -> [V -> [V -> V]]]

\* f gives every expression its value.
Values(B, V, d, f) ==
    f \in [Expressions -> V] /\ \A e \in Expressions : f[e] = ByParts(B, d, f, e)

\* A function may be defined by what it gives for the parts.
LEMMA TreeRecursion ==
    ASSUME NEW V, NEW B, Combines(B, V), NEW d \in V
    PROVE  \E f : Values(B, V, d, f)
<1>1. B \in [Expressions -> [V -> [V -> V]]]
  BY DEF Combines
<1> DEFINE Bad == {k \in Nat : ~ \E f : ValuesTo(B, V, d, f, k)}
<1>2. Bad = {}
  <2>1. SUFFICES ASSUME Bad # {} PROVE FALSE
    OBVIOUS
  <2>2. Bad \in SUBSET Nat /\ \A k \in Nat : k \in Bad <=> ~ \E f : ValuesTo(B, V, d, f, k)
    OBVIOUS
  <2> HIDE DEF Bad
  <2>3. PICK k \in Bad : \A n \in Bad : k <= n
    BY <2>1, <2>2, LeastElement
  <2>4. k # 0
    <3>1. PICK f : f = [e \in Expressions |-> d]
      OBVIOUS
    <3>2. \A e \in Expressions : ~(Height[e] < 0)
      BY HeightAssumption
    <3>3. ValuesTo(B, V, d, f, 0)
      BY <3>1, <3>2 DEF ValuesTo
    <3> QED
      BY <3>3, <2>2, <2>3
  <2>5. PICK n : n = k - 1
    OBVIOUS
  <2>6. n \in Nat /\ k = n + 1 /\ k \in Nat /\ ~(k <= n)
    BY <2>2, <2>3, <2>4, <2>5
  <2>7. PICK f : ValuesTo(B, V, d, f, n)
    BY <2>2, <2>3, <2>6
  <2>8. f \in [Expressions -> V] /\ \A e \in Expressions : Height[e] < n => f[e] = ByParts(B, d, f, e)
    BY <2>7 DEF ValuesTo
  <2>9. PICK g : g = [e \in Expressions |-> IF Height[e] < n THEN f[e] ELSE ByParts(B, d, f, e)]
    OBVIOUS
  <2>10. \A e \in Expressions : ByParts(B, d, f, e) \in V
    <3>1. ASSUME NEW e \in Expressions PROVE ByParts(B, d, f, e) \in V
      <4>1. PICK l, r : /\ l = IF e.left \in Parts(e) THEN f[e.left] ELSE d
                        /\ r = IF e.right \in Parts(e) THEN f[e.right] ELSE d
        OBVIOUS
      <4>2. l \in V /\ r \in V
        BY <4>1, <2>8, Forms
      <4>3. B[e][l][r] \in V
        BY <1>1, <4>2
      <4> QED
        BY <4>1, <4>3 DEF ByParts
    <3> QED
      BY <3>1
  <2>11. g \in [Expressions -> V]
    BY <2>8, <2>9, <2>10
  <2>12. ASSUME NEW e \in Expressions, Height[e] < k PROVE g[e] = ByParts(B, d, g, e)
    <3>1. \A p \in Parts(e) : p \in Expressions /\ Height[p] < n
      <4>1. \A p \in Parts(e) : p \in Expressions /\ Height[p] < Height[e]
        BY Forms, HeightAssumption
      <4>2. \A x \in Expressions : Height[x] \in Nat
        BY HeightAssumption
      <4> QED
        BY <4>1, <4>2, <2>6, <2>12
    <3>2. \A p \in Parts(e) : g[p] = f[p]
      BY <3>1, <2>9
    <3>3. ByParts(B, d, g, e) = ByParts(B, d, f, e)
      BY <3>2 DEF ByParts
    <3> QED
      BY <3>3, <2>8, <2>9
  <2>13. ValuesTo(B, V, d, g, k)
    BY <2>11, <2>12 DEF ValuesTo
  <2> QED
    BY <2>13, <2>2, <2>3
<1>3. MaxHeight + 1 \in Nat /\ \A e \in Expressions : Height[e] < MaxHeight + 1
  BY HeightAssumption
<1>4. PICK f : ValuesTo(B, V, d, f, MaxHeight + 1)
  BY <1>2, <1>3
<1> QED
  BY <1>3, <1>4 DEF ValuesTo, Values

-----------------------------------------------------------------------------
(***************************************************************************)
(* States.  t follows s: no list is lost, none but the current one is      *)
(* changed, and the current one stays or is a new one.                     *)
(***************************************************************************)
Follows(s, t) ==
    /\ Len(s.heap) <= Len(t.heap)
    /\ \A i \in 1 .. Len(s.heap) : i # s.cur => t.heap[i] = s.heap[i]
    /\ t.cur = s.cur \/ t.cur > Len(s.heap)

\* A state's parts.
LEMMA StateFacts ==
    ASSUME NEW s \in States
    PROVE  /\ s = [heap |-> s.heap, cur |-> s.cur, res |-> s.res, null |-> s.null]
           /\ s.heap \in Seq(SUBSET Nodes) /\ Len(s.heap) \in Nat
           /\ s.cur \in Nat /\ s.cur \in 1 .. Len(s.heap)
           /\ s.res \in Nat /\ s.res \in 1 .. Len(s.heap)
           /\ s.null \in BOOLEAN
           /\ Cur(s) \in SUBSET Nodes /\ Res(s) \in SUBSET Nodes
<1>1. /\ s \in [heap : Seq(SUBSET Nodes), cur : Nat, res : Nat, null : BOOLEAN]
      /\ s.cur \in 1 .. Len(s.heap) /\ s.res \in 1 .. Len(s.heap)
  BY DEF States
<1>2. s.heap \in Seq(SUBSET Nodes) /\ s.cur \in Nat /\ s.res \in Nat /\ s.null \in BOOLEAN
  BY <1>1
<1>3. s.heap \in [1 .. Len(s.heap) -> SUBSET Nodes] /\ Len(s.heap) \in Nat
  BY <1>2
<1> QED
  BY <1>1, <1>2, <1>3 DEF Cur, Res

\* What has such parts is a state.
LEMMA MakeState ==
    ASSUME NEW h \in Seq(SUBSET Nodes), NEW c \in 1 .. Len(h), NEW r \in 1 .. Len(h), NEW b \in BOOLEAN,
           NEW s, s = [heap |-> h, cur |-> c, res |-> r, null |-> b]
    PROVE  s \in States /\ s.heap = h /\ s.cur = c /\ s.res = r /\ s.null = b
<1>1. Len(h) \in Nat /\ c \in Nat /\ r \in Nat
  OBVIOUS
<1>2. s.heap = h /\ s.cur = c /\ s.res = r /\ s.null = b
  OBVIOUS
<1>3. s \in [heap : Seq(SUBSET Nodes), cur : Nat, res : Nat, null : BOOLEAN]
  BY <1>1
<1> QED
  BY <1>2, <1>3 DEF States

\* New puts a list at the end and makes it the current one.
LEMMA NewFacts ==
    ASSUME NEW s \in States, NEW N \in SUBSET Nodes
    PROVE  /\ New(s, N) \in States
           /\ New(s, N).heap = Append(s.heap, N)
           /\ New(s, N).cur = Len(s.heap) + 1 /\ New(s, N).res = Len(s.heap) + 1
           /\ Len(New(s, N).heap) = Len(s.heap) + 1
           /\ \A i \in 1 .. Len(s.heap) : New(s, N).heap[i] = s.heap[i]
           /\ Cur(New(s, N)) = N /\ Res(New(s, N)) = N
           /\ Follows(s, New(s, N))
<1>1. PICK h : h = Append(s.heap, N)
  OBVIOUS
<1>2. /\ h \in Seq(SUBSET Nodes) /\ Len(h) = Len(s.heap) + 1
      /\ h[Len(s.heap) + 1] = N
      /\ \A i \in 1 .. Len(s.heap) : h[i] = s.heap[i]
  BY <1>1, StateFacts, AppendProperties
<1>3. PICK k : k = Len(s.heap) + 1
  OBVIOUS
<1>4. k \in 1 .. Len(h) /\ k > Len(s.heap) /\ Len(s.heap) <= Len(h)
  BY <1>2, <1>3, StateFacts
<1>5. New(s, N) = [heap |-> h, cur |-> k, res |-> k, null |-> s.null]
  <2>1. New(s, N) = [s EXCEPT !.heap = h, !.cur = k, !.res = k]
    BY <1>1, <1>3 DEF New
  <2> QED
    BY <2>1, StateFacts
<1>6. New(s, N) \in States /\ New(s, N).heap = h /\ New(s, N).cur = k /\ New(s, N).res = k
  BY <1>2, <1>4, <1>5, StateFacts, MakeState
<1>7. Follows(s, New(s, N))
  BY <1>2, <1>4, <1>6 DEF Follows
<1> QED
  BY <1>1, <1>2, <1>3, <1>6, <1>7 DEF Cur, Res

\* Another list of the heap becomes the current one.
LEMMA WithCurFacts ==
    ASSUME NEW s \in States, NEW c \in 1 .. Len(s.heap)
    PROVE  /\ WithCur(s, c) \in States
           /\ WithCur(s, c).heap = s.heap /\ WithCur(s, c).cur = c /\ WithCur(s, c).res = s.res
           /\ Res(WithCur(s, c)) = Res(s)
<1>1. WithCur(s, c) = [heap |-> s.heap, cur |-> c, res |-> s.res, null |-> s.null]
  BY StateFacts DEF WithCur
<1>2. /\ WithCur(s, c) \in States /\ WithCur(s, c).heap = s.heap
      /\ WithCur(s, c).cur = c /\ WithCur(s, c).res = s.res
  BY <1>1, StateFacts, MakeState
<1> QED
  BY <1>2 DEF Res

\* Another list of the heap is the one returned.
LEMMA WithResFacts ==
    ASSUME NEW s \in States, NEW c \in 1 .. Len(s.heap), NEW t, t = [s EXCEPT !.res = c]
    PROVE  t \in States /\ t.heap = s.heap /\ t.cur = s.cur /\ t.res = c
<1>1. t = [heap |-> s.heap, cur |-> s.cur, res |-> c, null |-> s.null]
  BY StateFacts
<1> QED
  BY <1>1, StateFacts, MakeState

\* WithNull leaves all but the flag.
LEMMA WithNullFacts ==
    ASSUME NEW s \in States, NEW b \in BOOLEAN
    PROVE  /\ WithNull(s, b) \in States
           /\ WithNull(s, b).heap = s.heap /\ WithNull(s, b).cur = s.cur /\ WithNull(s, b).res = s.res
           /\ Res(WithNull(s, b)) = Res(s)
<1>1. PICK c : c = (s.null \/ b)
  OBVIOUS
<1>2. c \in BOOLEAN
  BY <1>1
<1>3. WithNull(s, b) = [heap |-> s.heap, cur |-> s.cur, res |-> s.res, null |-> c]
  BY <1>1, StateFacts DEF WithNull
<1>4. /\ WithNull(s, b) \in States /\ WithNull(s, b).heap = s.heap
      /\ WithNull(s, b).cur = s.cur /\ WithNull(s, b).res = s.res
  BY <1>2, <1>3, StateFacts, MakeState
<1> QED
  BY <1>4 DEF Res

\* Returned puts a list at the end and leaves the current one.
LEMMA ReturnedFacts ==
    ASSUME NEW s \in States, NEW N \in SUBSET Nodes
    PROVE  /\ Returned(s, N) \in States
           /\ Returned(s, N).cur = s.cur
           /\ \A i \in 1 .. Len(s.heap) : Returned(s, N).heap[i] = s.heap[i]
           /\ Res(Returned(s, N)) = N
           /\ Follows(s, Returned(s, N))
<1>1. PICK t : t = New(s, N)
  OBVIOUS
<1>2. /\ t \in States /\ Len(t.heap) = Len(s.heap) + 1 /\ Res(t) = N
      /\ \A i \in 1 .. Len(s.heap) : t.heap[i] = s.heap[i]
  BY <1>1, NewFacts
<1>3. s.cur \in 1 .. Len(t.heap) /\ Len(s.heap) <= Len(t.heap)
  BY <1>2, StateFacts
<1>4. Returned(s, N) = WithCur(t, s.cur)
  BY <1>1 DEF Returned, WithCur
<1>5. /\ Returned(s, N) \in States /\ Returned(s, N).heap = t.heap
      /\ Returned(s, N).cur = s.cur /\ Res(Returned(s, N)) = N
  BY <1>2, <1>3, <1>4, WithCurFacts
<1> QED
  BY <1>2, <1>3, <1>5 DEF Follows

\* AddDescendants changes the current list only.
LEMMA AddDescendantsFacts ==
    ASSUME NEW s \in States
    PROVE  /\ AddDescendants(s) \in States
           /\ Len(AddDescendants(s).heap) = Len(s.heap)
           /\ AddDescendants(s).cur = s.cur
           /\ Cur(AddDescendants(s)) = Cur(s) \cup Descendants(Cur(s))
           /\ Follows(s, AddDescendants(s))
<1>1. PICK N : N = Cur(s) \cup Descendants(Cur(s))
  OBVIOUS
<1>2. N \in SUBSET Nodes
  BY <1>1, StateFacts DEF Descendants
<1>3. PICK h : h = [s.heap EXCEPT ![s.cur] = N]
  OBVIOUS
<1>4. /\ s.heap \in Seq(SUBSET Nodes) /\ s.cur \in 1 .. Len(s.heap) /\ Len(s.heap) \in Nat
      /\ s.heap \in [1 .. Len(s.heap) -> SUBSET Nodes]
  BY StateFacts
<1>5. h \in [1 .. Len(s.heap) -> SUBSET Nodes]
  BY <1>2, <1>3, <1>4
<1>6. h \in Seq(SUBSET Nodes) /\ Len(h) = Len(s.heap)
  BY <1>4, <1>5
<1>7. h[s.cur] = N /\ \A i \in 1 .. Len(s.heap) : i # s.cur => h[i] = s.heap[i]
  BY <1>3, <1>4
<1>8. AddDescendants(s) = [heap |-> h, cur |-> s.cur, res |-> s.res, null |-> s.null]
  <2>1. AddDescendants(s) = [s EXCEPT !.heap = h]
    BY <1>1, <1>3 DEF AddDescendants, Cur
  <2> QED
    BY <2>1, StateFacts
<1>9. AddDescendants(s) \in States /\ AddDescendants(s).heap = h /\ AddDescendants(s).cur = s.cur
  BY <1>6, <1>8, StateFacts, MakeState
<1> QED
  BY <1>1, <1>4, <1>6, <1>7, <1>9 DEF Cur, Follows

LEMMA FollowsItself ==
    ASSUME NEW s \in States
    PROVE  Follows(s, s)
BY StateFacts DEF Follows

\* What follows a follower follows.
LEMMA FollowsTrans ==
    ASSUME NEW s \in States, NEW t \in States, NEW u \in States, Follows(s, t), Follows(t, u)
    PROVE  Follows(s, u)
<1>1. Len(s.heap) \in Nat /\ Len(t.heap) \in Nat /\ Len(u.heap) \in Nat
  BY StateFacts
<1>2. /\ Len(s.heap) <= Len(t.heap) /\ Len(t.heap) <= Len(u.heap)
      /\ t.cur = s.cur \/ t.cur > Len(s.heap)
      /\ u.cur = t.cur \/ u.cur > Len(t.heap)
      /\ s.cur \in Nat /\ t.cur \in Nat /\ u.cur \in Nat
  BY StateFacts DEF Follows
<1>3. Len(s.heap) <= Len(u.heap) /\ (u.cur = s.cur \/ u.cur > Len(s.heap))
  BY <1>1, <1>2
<1>4. ASSUME NEW i \in 1 .. Len(s.heap), i # s.cur PROVE u.heap[i] = s.heap[i]
  <2>1. i \in 1 .. Len(t.heap) /\ i # t.cur
    BY <1>1, <1>2, <1>4
  <2> QED
    BY <2>1, <1>4 DEF Follows
<1> QED
  BY <1>3, <1>4 DEF Follows

\* Follows speaks of the lists and of the current one only.
LEMMA FollowsSame ==
    ASSUME NEW s, NEW t, NEW u, Follows(s, t), u.heap = t.heap, u.cur = t.cur
    PROVE  Follows(s, u)
BY DEF Follows

\* The list that was current is there to be restored.
LEMMA RestoredFacts ==
    ASSUME NEW s \in States, NEW t \in States, Follows(s, t)
    PROVE  /\ Restored(t, s.cur) \in States
           /\ Restored(t, s.cur).heap = t.heap
           /\ Restored(t, s.cur).cur = s.cur
           /\ Restored(t, s.cur).res = t.res
           /\ Res(Restored(t, s.cur)) = Res(t)
           /\ Follows(s, Restored(t, s.cur))
<1>1. s.cur \in 1 .. Len(t.heap)
  BY StateFacts DEF Follows
<1>2. /\ Restored(t, s.cur) \in States /\ Restored(t, s.cur).heap = t.heap
      /\ Restored(t, s.cur).cur = s.cur /\ Restored(t, s.cur).res = t.res
      /\ Res(Restored(t, s.cur)) = Res(t)
  BY <1>1, WithCurFacts DEF Restored
<1> QED
  BY <1>2 DEF Follows

\* Lists of nodes.
LEMMA SelectedType ==
    ASSUME NEW e, e.op \in Steps, NEW N \in SUBSET Nodes
    PROVE  Selected(e, N) \in SUBSET Nodes
<1>1. Children(N) \subseteq Nodes /\ Parents(N) \subseteq Nodes
  BY DocumentAssumption DEF Children, Parents
<1> QED
  BY <1>1 DEF Selected, Steps

-----------------------------------------------------------------------------
(***************************************************************************)
(* What visiting does, case by case.                                       *)
(***************************************************************************)
Walks == {f \in [States -> States] : \A s \in States : Follows(s, f[s])}

AsksForNull(e, s) == e.op = "parent" /\ ~(Cur(s) \subseteq DOMAIN ParentOf)

\* The nodes of the current list that a filter keeps.
Kept(R, s) == {n \in Cur(s) : Res(R[New(s, {n})]) # {}}
MetNull(R, s) == \E n \in Cur(s) : R[New(s, {n})].null

\* The nodes returned for a comparison.
Matching(op, X, Y) == {x \in X : \E y \in Y : Matches(op, x, y)}

PathCases(e, L, R, s, v) ==
    /\ e.op \in Steps => v = WithNull(New(s, Selected(e, Cur(s))), AsksForNull(e, s))
    /\ e.op = "current" => v = [s EXCEPT !.res = s.cur]
    /\ e.op = "directChild" => v = R[L[s]]
    /\ e.op = "indirectChild" => v = R[AddDescendants(L[s])]
    /\ e.op = "concat" =>
          v = New(R[Restored(L[s], s.cur)], Res(L[s]) \cup Res(R[Restored(L[s], s.cur)]))
    /\ e.op = "filter" => v = WithNull(New(L[s], Kept(R, L[s])), MetNull(R, L[s]))

ComparisonCases(e, L, R, s, v) ==
    /\ e.op \in {"eq", "is"} =>
          \A s2 : s2 = Restored(R[Restored(L[s], s.cur)], s.cur) =>
              v = Returned(s2, Matching(e.op, s2.heap[L[s].res], Res(s2)))
    /\ e.op = "str" => v = Returned(Restored(L[s], s.cur), Res(L[s]) \cap HasText[e.text])

ConnectiveCases(e, L, R, s, v) ==
    /\ e.op = "or" => v = Returned(R[L[s]], Res(L[s]) \cup Res(R[L[s]]))
    /\ e.op = "and" =>
          v = IF Res(L[s]) = {} THEN Returned(L[s], {})
              ELSE IF Res(R[L[s]]) = {} THEN Returned(R[L[s]], {})
              ELSE Returned(R[L[R[L[s]]]], Res(L[R[L[s]]]) \cup Res(R[L[R[L[s]]]]))
    /\ e.op = "not" => v = Returned(L[s], IF Res(L[s]) # {} THEN {} ELSE Cur(s))

LEMMA VisitedCases ==
    ASSUME NEW e, NEW L, NEW R, NEW s \in States, NEW v, v = Visited(e, L, R)[s]
    PROVE  PathCases(e, L, R, s, v) /\ ComparisonCases(e, L, R, s, v) /\ ConnectiveCases(e, L, R, s, v)
<1>1. e.op \in Steps => v = WithNull(New(s, Selected(e, Cur(s))), AsksForNull(e, s))
  BY DEF Visited, VisitedFrom, Steps, AsksForNull
<1>2. e.op = "current" => v = [s EXCEPT !.res = s.cur]
  BY DEF Visited, VisitedFrom, Steps
<1>3. e.op = "directChild" => v = R[L[s]]
  BY DEF Visited, VisitedFrom, Steps
<1>4. e.op = "indirectChild" => v = R[AddDescendants(L[s])]
  BY DEF Visited, VisitedFrom, Steps
<1>5. e.op = "concat" =>
        v = New(R[Restored(L[s], s.cur)], Res(L[s]) \cup Res(R[Restored(L[s], s.cur)]))
  BY DEF Visited, VisitedFrom, Steps
<1>6. e.op = "filter" => v = WithNull(New(L[s], Kept(R, L[s])), MetNull(R, L[s]))
  BY DEF Visited, VisitedFrom, Steps, Kept, MetNull
<1>7. PathCases(e, L, R, s, v)
  BY <1>1, <1>2, <1>3, <1>4, <1>5, <1>6 DEF PathCases
<1>8. ComparisonCases(e, L, R, s, v)
  <2>1. ASSUME e.op \in {"eq", "is"}, NEW s2, s2 = Restored(R[Restored(L[s], s.cur)], s.cur)
        PROVE  v = Returned(s2, Matching(e.op, s2.heap[L[s].res], Res(s2)))
    BY <2>1 DEF Visited, VisitedFrom, Steps, Matching
  <2>2. e.op = "str" => v = Returned(Restored(L[s], s.cur), Res(L[s]) \cap HasText[e.text])
    BY DEF Visited, VisitedFrom, Steps
  <2> QED
    BY <2>1, <2>2 DEF ComparisonCases
<1>9. ConnectiveCases(e, L, R, s, v)
  <2>1. e.op = "or" => v = Returned(R[L[s]], Res(L[s]) \cup Res(R[L[s]]))
    BY DEF Visited, VisitedFrom, Steps
  <2>2. e.op = "and" =>
          v = IF Res(L[s]) = {} THEN Returned(L[s], {})
              ELSE IF Res(R[L[s]]) = {} THEN Returned(R[L[s]], {})
              ELSE Returned(R[L[R[L[s]]]], Res(L[R[L[s]]]) \cup Res(R[L[R[L[s]]]]))
    BY DEF Visited, VisitedFrom, Steps
  <2>3. e.op = "not" => v = Returned(L[s], IF Res(L[s]) # {} THEN {} ELSE Cur(s))
    BY DEF Visited, VisitedFrom, Steps
  <2> QED
    BY <2>1, <2>2, <2>3 DEF ConnectiveCases
<1> QED
  BY <1>7, <1>8, <1>9

LEMMA WalkFacts ==
    ASSUME NEW L \in Walks, NEW s \in States
    PROVE  L[s] \in States /\ Follows(s, L[s])
BY DEF Walks

\* Visiting leads to a state that follows, if visiting the operands does.
LEMMA VisitedFollows ==
    ASSUME NEW e \in Expressions, NEW L \in Walks, NEW R \in Walks, NEW s \in States
    PROVE  Visited(e, L, R)[s] \in States /\ Follows(s, Visited(e, L, R)[s])
<1>1. PICK t : t = L[s]
  OBVIOUS
<1>2. t \in States /\ Follows(s, t)
  BY <1>1, WalkFacts
<1>3. PICK v : v = Visited(e, L, R)[s]
  OBVIOUS
<1>4. PathCases(e, L, R, s, v) /\ ComparisonCases(e, L, R, s, v) /\ ConnectiveCases(e, L, R, s, v)
  BY <1>3, VisitedCases
<1>5. SUFFICES v \in States /\ Follows(s, v)
  BY <1>3
<1>6. CASE e.op \in Steps
  <2>1. PICK u : u = New(s, Selected(e, Cur(s)))
    OBVIOUS
  <2>2. PICK b : b = AsksForNull(e, s)
    OBVIOUS
  <2>3. b \in BOOLEAN
    BY <2>2 DEF AsksForNull
  <2>4. Selected(e, Cur(s)) \in SUBSET Nodes
    BY <1>6, SelectedType, StateFacts
  <2>5. u \in States /\ Follows(s, u)
    BY <2>1, <2>4, NewFacts
  <2>6. v = WithNull(u, b)
    BY <1>4, <1>6, <2>1, <2>2 DEF PathCases
  <2>7. v \in States /\ v.heap = u.heap /\ v.cur = u.cur
    BY <2>3, <2>5, <2>6, WithNullFacts
  <2> QED
    BY <2>5, <2>7, FollowsSame
<1>7. CASE e.op = "current"
  <2>1. v = [s EXCEPT !.res = s.cur] /\ s.cur \in 1 .. Len(s.heap)
    BY <1>4, <1>7, StateFacts DEF PathCases
  <2>2. v \in States /\ v.heap = s.heap /\ v.cur = s.cur
    BY <2>1, WithResFacts
  <2> QED
    BY <2>2, FollowsItself, FollowsSame
<1>8. CASE e.op = "directChild"
  <2>1. v = R[t]
    BY <1>1, <1>4, <1>8 DEF PathCases
  <2> QED
    BY <1>2, <2>1, WalkFacts, FollowsTrans
<1>9. CASE e.op = "indirectChild"
  <2>1. PICK u : u = AddDescendants(t)
    OBVIOUS
  <2>2. v = R[u]
    BY <1>1, <1>4, <1>9, <2>1 DEF PathCases
  <2>3. u \in States /\ Follows(t, u)
    BY <1>2, <2>1, AddDescendantsFacts
  <2>4. v \in States /\ Follows(u, v)
    BY <2>2, <2>3, WalkFacts
  <2> QED
    BY <1>2, <2>3, <2>4, FollowsTrans
<1>10. PICK r : r = Restored(t, s.cur)
  OBVIOUS
<1>11. r \in States /\ Follows(s, r) /\ r.cur = s.cur /\ Res(r) = Res(t)
  BY <1>2, <1>10, RestoredFacts
<1>12. PICK w : w = R[r]
  OBVIOUS
<1>13. w \in States /\ Follows(r, w) /\ Follows(s, w)
  BY <1>11, <1>12, WalkFacts, FollowsTrans
<1>14. Res(t) \in SUBSET Nodes /\ Res(w) \in SUBSET Nodes /\ Cur(t) \in SUBSET Nodes /\ Cur(s) \in SUBSET Nodes
  BY <1>2, <1>13, StateFacts
<1>15. CASE e.op = "concat"
  <2>1. v = New(w, Res(t) \cup Res(w))
    BY <1>1, <1>4, <1>10, <1>12, <1>15 DEF PathCases
  <2>2. v \in States /\ Follows(w, v)
    BY <1>13, <1>14, <2>1, NewFacts
  <2> QED
    BY <1>13, <2>2, FollowsTrans
<1>16. CASE e.op = "filter"
  <2>1. PICK u : u = New(t, Kept(R, t))
    OBVIOUS
  <2>2. PICK b : b = MetNull(R, t)
    OBVIOUS
  <2>3. b \in BOOLEAN
    BY <2>2 DEF MetNull
  <2>4. Kept(R, t) \in SUBSET Nodes
    BY <1>14 DEF Kept
  <2>5. u \in States /\ Follows(t, u)
    BY <1>2, <2>1, <2>4, NewFacts
  <2>6. v = WithNull(u, b)
    BY <1>1, <1>4, <1>16, <2>1, <2>2 DEF PathCases
  <2>7. v \in States /\ v.heap = u.heap /\ v.cur = u.cur
    BY <2>3, <2>5, <2>6, WithNullFacts
  <2> QED
    BY <1>2, <2>5, <2>7, FollowsSame, FollowsTrans
<1>17. CASE e.op \in {"eq", "is"}
  <2>1. PICK u : u = Restored(w, s.cur)
    OBVIOUS
  <2>2. u \in States /\ Follows(s, u) /\ u.heap = w.heap
    BY <1>13, <2>1, RestoredFacts
  <2>3. PICK M : M = Matching(e.op, u.heap[t.res], Res(u))
    OBVIOUS
  <2>4. v = Returned(u, M)
    BY <1>1, <1>4, <1>10, <1>12, <1>17, <2>1, <2>3 DEF ComparisonCases
  <2>5. t.res \in 1 .. Len(u.heap)
    <3>1. r.heap = t.heap
      BY <1>2, <1>10, RestoredFacts
    <3>2. Len(t.heap) <= Len(w.heap) /\ t.res \in 1 .. Len(t.heap) /\ Len(t.heap) \in Nat /\ Len(w.heap) \in Nat
      BY <1>2, <1>13, <3>1, StateFacts DEF Follows
    <3> QED
      BY <2>2, <3>2
  <2>6. u.heap[t.res] \in SUBSET Nodes
    BY <2>2, <2>5, StateFacts
  <2>7. M \in SUBSET Nodes
    BY <2>3, <2>6 DEF Matching
  <2>8. v \in States /\ Follows(u, v)
    BY <2>2, <2>4, <2>7, ReturnedFacts
  <2> QED
    BY <2>2, <2>8, FollowsTrans
<1>18. CASE e.op = "str"
  <2>1. v = Returned(r, Res(t) \cap HasText[e.text])
    BY <1>1, <1>4, <1>10, <1>18 DEF ComparisonCases
  <2>2. Res(t) \cap HasText[e.text] \in SUBSET Nodes
    BY <1>14
  <2>3. v \in States /\ Follows(r, v)
    BY <1>11, <2>1, <2>2, ReturnedFacts
  <2> QED
    BY <1>11, <2>3, FollowsTrans
<1>19. PICK x : x = R[t]
  OBVIOUS
<1>20. x \in States /\ Follows(t, x) /\ Follows(s, x) /\ Res(x) \in SUBSET Nodes
  BY <1>2, <1>19, WalkFacts, FollowsTrans, StateFacts
<1>21. CASE e.op = "or"
  <2>1. v = Returned(x, Res(t) \cup Res(x))
    BY <1>1, <1>4, <1>19, <1>21 DEF ConnectiveCases
  <2>2. v \in States /\ Follows(x, v)
    BY <1>14, <1>20, <2>1, ReturnedFacts
  <2> QED
    BY <1>20, <2>2, FollowsTrans
<1>22. CASE e.op = "and"
  <2>1. PICK y : y = L[x]
    OBVIOUS
  <2>2. y \in States /\ Follows(s, y) /\ Res(y) \in SUBSET Nodes
    BY <1>20, <2>1, WalkFacts, FollowsTrans, StateFacts
  <2>3. PICK z : z = R[y]
    OBVIOUS
  <2>4. z \in States /\ Follows(s, z) /\ Res(z) \in SUBSET Nodes
    BY <2>2, <2>3, WalkFacts, FollowsTrans, StateFacts
  <2>5. v = Returned(t, {}) \/ v = Returned(x, {}) \/ v = Returned(z, Res(y) \cup Res(z))
    BY <1>1, <1>4, <1>19, <1>22, <2>1, <2>3 DEF ConnectiveCases
  <2>6. \A q \in States : \A N \in SUBSET Nodes :
            Follows(s, q) => Returned(q, N) \in States /\ Follows(s, Returned(q, N))
    BY ReturnedFacts, FollowsTrans
  <2> QED
    BY <1>2, <1>20, <2>2, <2>4, <2>5, <2>6
<1>23. CASE e.op = "not"
  <2>1. PICK N : N = IF Res(t) # {} THEN {} ELSE Cur(s)
    OBVIOUS
  <2>2. v = Returned(t, N)
    BY <1>1, <1>4, <1>23, <2>1 DEF ConnectiveCases
  <2>3. N \in SUBSET Nodes
    BY <1>14, <2>1
  <2>4. v \in States /\ Follows(t, v)
    BY <1>2, <2>2, <2>3, ReturnedFacts
  <2> QED
    BY <1>2, <2>4, FollowsTrans
<1> QED
  BY <1>6, <1>7, <1>8, <1>9, <1>15, <1>16, <1>17, <1>18, <1>21, <1>22, <1>23, Forms

\* Visiting depends on the operands the expression has.
LEMMA VisitedSame ==
    ASSUME NEW e \in Expressions, NEW L, NEW R, NEW L2, NEW R2,
           ~Leaf(e) => L2 = L, ~Leaf(e) /\ ~Unary(e) => R2 = R
    PROVE  Visited(e, L2, R2) = Visited(e, L, R)
<1>1. CASE ~Leaf(e) /\ ~Unary(e)
  BY <1>1
<1>2. CASE Leaf(e) \/ Unary(e)
  <2>1. ASSUME NEW s \in States PROVE Visited(e, L2, R2)[s] = Visited(e, L, R)[s]
    <3>1. PICK v : v = Visited(e, L, R)[s]
      OBVIOUS
    <3>2. PICK w : w = Visited(e, L2, R2)[s]
      OBVIOUS
    <3>3. PathCases(e, L, R, s, v) /\ ComparisonCases(e, L, R, s, v) /\ ConnectiveCases(e, L, R, s, v)
      BY <3>1, VisitedCases
    <3>4. PathCases(e, L2, R2, s, w) /\ ComparisonCases(e, L2, R2, s, w) /\ ConnectiveCases(e, L2, R2, s, w)
      BY <3>2, VisitedCases
    <3>5. CASE e.op \in Steps \/ e.op = "current"
      BY <3>1, <3>2, <3>3, <3>4, <3>5 DEF PathCases
    <3>6. CASE e.op = "str"
      <4>1. L2 = L
        BY <3>6 DEF Leaf, Steps
      <4> QED
        BY <3>1, <3>2, <3>3, <3>4, <3>6, <4>1 DEF ComparisonCases
    <3>7. CASE e.op = "not"
      <4>1. L2 = L
        BY <3>7 DEF Leaf, Steps
      <4> QED
        BY <3>1, <3>2, <3>3, <3>4, <3>7, <4>1 DEF ConnectiveCases
    <3> QED
      BY <1>2, <3>5, <3>6, <3>7 DEF Leaf, Unary
  <2>2. /\ Visited(e, L, R) = [s \in States |-> Visited(e, L, R)[s]]
        /\ Visited(e, L2, R2) = [s \in States |-> Visited(e, L2, R2)[s]]
    BY DEF Visited
  <2> QED
    BY <2>1, <2>2
<1> QED
  BY <1>1, <1>2

\* Visiting is a walk, if visiting the operands is.
LEMMA VisitedType ==
    ASSUME NEW e \in Expressions, NEW L \in Walks, NEW R \in Walks
    PROVE  Visited(e, L, R) \in Walks
<1>1. \A s \in States : Visited(e, L, R)[s] \in States /\ Follows(s, Visited(e, L, R)[s])
  BY VisitedFollows
<1>2. Visited(e, L, R) = [s \in States |-> Visited(e, L, R)[s]]
  BY DEF Visited
<1> QED
  BY <1>1, <1>2 DEF Walks

\* The recursion of Visit.
VisitEquation(f) == f = [e \in Expressions |-> Visited(e, f[e.left], f[e.right])]
VisitFcn == CHOOSE f : VisitEquation(f)

LEMMA VisitFcnType ==
    /\ VisitFcn \in [Expressions -> Walks]
    /\ \A e \in Expressions : VisitFcn[e] = Visited(e, VisitFcn[e.left], VisitFcn[e.right])
    /\ \A e, s : Visit(e, s) = VisitFcn[e][s]
<1>1. PICK d : d = [s \in States |-> s]
  OBVIOUS
<1>2. d \in Walks
  BY <1>1, FollowsItself DEF Walks
<1>3. PICK B : B = [e \in Expressions |-> [L \in Walks |-> [R \in Walks |-> Visited(e, L, R)]]]
  OBVIOUS
<1>4. Combines(B, Walks)
  BY <1>3, VisitedType DEF Combines
<1>5. PICK f : Values(B, Walks, d, f)
  BY <1>2, <1>4, TreeRecursion
<1>6. f \in [Expressions -> Walks] /\ \A e \in Expressions : f[e] = ByParts(B, d, f, e)
  BY <1>5 DEF Values
<1>7. ASSUME NEW e \in Expressions PROVE f[e] = Visited(e, f[e.left], f[e.right])
  <2>1. PICK L, R : /\ L = IF e.left \in Parts(e) THEN f[e.left] ELSE d
                    /\ R = IF e.right \in Parts(e) THEN f[e.right] ELSE d
    OBVIOUS
  <2>2. L \in Walks /\ R \in Walks
    BY <1>2, <1>6, <2>1, Forms
  <2>3. f[e] = Visited(e, L, R)
    BY <1>3, <1>6, <2>1, <2>2 DEF ByParts
  <2>4. (~Leaf(e) => L = f[e.left]) /\ (~Leaf(e) /\ ~Unary(e) => R = f[e.right])
    BY <2>1, Forms
  <2>5. Visited(e, L, R) = Visited(e, f[e.left], f[e.right])
    BY <2>4, VisitedSame
  <2> QED
    BY <2>3, <2>5
<1>8. VisitEquation(f)
  BY <1>6, <1>7 DEF VisitEquation
<1>9. VisitEquation(VisitFcn)
  BY <1>8 DEF VisitFcn
<1>10. PICK g : g = VisitFcn
  OBVIOUS
<1>11. g = [e \in Expressions |-> Visited(e, g[e.left], g[e.right])]
  BY <1>9, <1>10 DEF VisitEquation
<1>12. \A e \in Expressions : g[e] = Visited(e, g[e.left], g[e.right])
  BY <1>11
<1>13. \A e \in Expressions : g[e] \in Walks
  <2> DEFINE P == {e \in Expressions : g[e] \in Walks}
  <2>1. ASSUME NEW e \in Expressions, Parts(e) \subseteq P PROVE e \in P
    <3>1. PICK L, R : /\ L = IF e.left \in Parts(e) THEN g[e.left] ELSE d
                      /\ R = IF e.right \in Parts(e) THEN g[e.right] ELSE d
      OBVIOUS
    <3>2. L \in Walks /\ R \in Walks
      BY <1>2, <2>1, <3>1
    <3>3. (~Leaf(e) => L = g[e.left]) /\ (~Leaf(e) /\ ~Unary(e) => R = g[e.right])
      BY <3>1, Forms
    <3>4. Visited(e, L, R) = Visited(e, g[e.left], g[e.right])
      BY <3>3, VisitedSame
    <3> QED
      BY <1>12, <3>2, <3>4, VisitedType
  <2>2. P \subseteq Expressions
    OBVIOUS
  <2> HIDE DEF P
  <2>3. \A e \in Expressions : e \in P
    BY <2>1, <2>2, TreeInduction
  <2> QED
    BY <2>3 DEF P
<1>14. g \in [Expressions -> Walks]
  BY <1>11, <1>13
<1>15. \A e, s : Visit(e, s) = VisitFcn[e][s]
  BY DEF Visit, VisitFcn, VisitEquation
<1> QED
  BY <1>10, <1>12, <1>14, <1>15

-----------------------------------------------------------------------------
(***************************************************************************)
(* What expressions mean, case by case.                                    *)
(***************************************************************************)
Meanings == [SUBSET Nodes -> SUBSET Nodes]

PathMeaning(e, L, R, N, v) ==
    /\ e.op \in Steps => v = Selected(e, N)
    /\ e.op = "current" => v = N
    /\ e.op = "directChild" => v = R[L[N]]
    /\ e.op = "indirectChild" => v = R[L[N] \cup Descendants(L[N])]
    /\ e.op = "concat" => v = L[N] \cup R[N]
    /\ e.op = "filter" => v = {n \in L[N] : R[{n}] # {}}

ConditionMeaning(e, L, R, N, v) ==
    /\ e.op \in {"eq", "is"} => v = {n \in N : \E x \in L[{n}], y \in R[{n}] : Matches(e.op, x, y)}
    /\ e.op = "str" => v = {n \in N : L[{n}] \cap HasText[e.text] # {}}
    /\ e.op = "or" => v = {n \in N : L[{n}] # {} \/ R[{n}] # {}}
    /\ e.op = "and" => v = {n \in N : L[{n}] # {} /\ R[{n}] # {}}
    /\ e.op = "not" => v = {n \in N : L[{n}] = {}}

LEMMA MeantCases ==
    ASSUME NEW e, NEW L, NEW R, NEW N \in SUBSET Nodes, NEW v, v = Meant(e, L, R)[N]
    PROVE  PathMeaning(e, L, R, N, v) /\ ConditionMeaning(e, L, R, N, v)
<1>1. v = MeantIn(N, e, L, R)
  BY DEF Meant
<1>2. PathMeaning(e, L, R, N, v)
  <2>1. e.op \in Steps => v = Selected(e, N)
    BY <1>1 DEF MeantIn, Steps
  <2>2. e.op = "current" => v = N
    BY <1>1 DEF MeantIn, Steps
  <2>3. e.op = "directChild" => v = R[L[N]]
    BY <1>1 DEF MeantIn, Steps
  <2>4. e.op = "indirectChild" => v = R[L[N] \cup Descendants(L[N])]
    BY <1>1 DEF MeantIn, Steps
  <2>5. e.op = "concat" => v = L[N] \cup R[N]
    BY <1>1 DEF MeantIn, Steps
  <2>6. e.op = "filter" => v = {n \in L[N] : R[{n}] # {}}
    BY <1>1 DEF MeantIn, Steps
  <2> QED
    BY <2>1, <2>2, <2>3, <2>4, <2>5, <2>6 DEF PathMeaning
<1>3. ConditionMeaning(e, L, R, N, v)
  <2>1. e.op \in {"eq", "is"} =>
            v = {n \in N : \E x \in L[{n}], y \in R[{n}] : Matches(e.op, x, y)}
    BY <1>1 DEF MeantIn, Steps
  <2>2. e.op = "str" => v = {n \in N : L[{n}] \cap HasText[e.text] # {}}
    BY <1>1 DEF MeantIn, Steps
  <2>3. e.op = "or" => v = {n \in N : L[{n}] # {} \/ R[{n}] # {}}
    BY <1>1 DEF MeantIn, Steps
  <2>4. e.op = "and" => v = {n \in N : L[{n}] # {} /\ R[{n}] # {}}
    BY <1>1 DEF MeantIn, Steps
  <2>5. e.op = "not" => v = {n \in N : L[{n}] = {}}
    BY <1>1 DEF MeantIn, Steps
  <2> QED
    BY <2>1, <2>2, <2>3, <2>4, <2>5 DEF ConditionMeaning
<1> QED
  BY <1>2, <1>3

\* What an expression means are nodes.
LEMMA MeantType ==
    ASSUME NEW e \in Expressions, NEW L \in Meanings, NEW R \in Meanings
    PROVE  Meant(e, L, R) \in Meanings
<1>1. ASSUME NEW N \in SUBSET Nodes PROVE Meant(e, L, R)[N] \in SUBSET Nodes
  <2>1. PICK v : v = Meant(e, L, R)[N]
    OBVIOUS
  <2>2. PathMeaning(e, L, R, N, v) /\ ConditionMeaning(e, L, R, N, v)
    BY <2>1, MeantCases
  <2>3. PICK X : X = L[N]
    OBVIOUS
  <2>4. X \in SUBSET Nodes /\ R[N] \in SUBSET Nodes /\ R[X] \in SUBSET Nodes
    BY <2>3 DEF Meanings
  <2>5. X \cup Descendants(X) \in SUBSET Nodes
    BY <2>4 DEF Descendants
  <2>6. R[X \cup Descendants(X)] \in SUBSET Nodes
    BY <2>5 DEF Meanings
  <2>7. CASE e.op \in Steps
    BY <2>1, <2>2, <2>7, SelectedType DEF PathMeaning
  <2>8. CASE e.op \in {"current", "directChild", "indirectChild", "concat", "filter"}
    BY <2>1, <2>2, <2>3, <2>4, <2>6, <2>8 DEF PathMeaning
  <2>9. CASE e.op \in {"eq", "is", "str", "or", "and", "not"}
    BY <2>1, <2>2, <2>9 DEF ConditionMeaning
  <2> QED
    BY <2>7, <2>8, <2>9, Forms
<1>2. Meant(e, L, R) = [N \in SUBSET Nodes |-> Meant(e, L, R)[N]]
  BY DEF Meant
<1> QED
  BY <1>1, <1>2 DEF Meanings

\* What it means depends on the operands it has.
LEMMA MeantSame ==
    ASSUME NEW e \in Expressions, NEW L, NEW R, NEW L2, NEW R2,
           ~Leaf(e) => L2 = L, ~Leaf(e) /\ ~Unary(e) => R2 = R
    PROVE  Meant(e, L2, R2) = Meant(e, L, R)
<1>1. CASE ~Leaf(e) /\ ~Unary(e)
  BY <1>1
<1>2. CASE Leaf(e) \/ Unary(e)
  <2>1. ASSUME NEW N \in SUBSET Nodes PROVE Meant(e, L2, R2)[N] = Meant(e, L, R)[N]
    <3>1. PICK v : v = Meant(e, L, R)[N]
      OBVIOUS
    <3>2. PICK w : w = Meant(e, L2, R2)[N]
      OBVIOUS
    <3>3. PathMeaning(e, L, R, N, v) /\ ConditionMeaning(e, L, R, N, v)
      BY <3>1, MeantCases
    <3>4. PathMeaning(e, L2, R2, N, w) /\ ConditionMeaning(e, L2, R2, N, w)
      BY <3>2, MeantCases
    <3>5. CASE e.op \in Steps \/ e.op = "current"
      BY <3>1, <3>2, <3>3, <3>4, <3>5 DEF PathMeaning
    <3>6. CASE e.op \in {"str", "not"}
      <4>1. L2 = L
        BY <3>6 DEF Leaf, Steps
      <4>2. CASE e.op = "str"
        <5>1. v = {n \in N : L[{n}] \cap HasText[e.text] # {}}
          BY <3>3, <4>2 DEF ConditionMeaning
        <5>2. w = {n \in N : L[{n}] \cap HasText[e.text] # {}}
          BY <3>4, <4>1, <4>2 DEF ConditionMeaning
        <5> QED
          BY <3>1, <3>2, <5>1, <5>2
      <4>3. CASE e.op = "not"
        <5>1. v = {n \in N : L[{n}] = {}}
          BY <3>3, <4>3 DEF ConditionMeaning
        <5>2. w = {n \in N : L[{n}] = {}}
          BY <3>4, <4>1, <4>3 DEF ConditionMeaning
        <5> QED
          BY <3>1, <3>2, <5>1, <5>2
      <4> QED
        BY <3>6, <4>2, <4>3
    <3> QED
      BY <1>2, <3>5, <3>6 DEF Leaf, Unary
  <2>2. /\ Meant(e, L, R) = [N \in SUBSET Nodes |-> Meant(e, L, R)[N]]
        /\ Meant(e, L2, R2) = [N \in SUBSET Nodes |-> Meant(e, L2, R2)[N]]
    BY DEF Meant
  <2> QED
    BY <2>1, <2>2
<1> QED
  BY <1>1, <1>2

\* The recursion of Meaning.
MeaningEquation(f) == f = [e \in Expressions |-> Meant(e, f[e.left], f[e.right])]
MeaningFcn == CHOOSE f : MeaningEquation(f)

LEMMA MeaningFcnType ==
    /\ MeaningFcn \in [Expressions -> Meanings]
    /\ \A e \in Expressions : MeaningFcn[e] = Meant(e, MeaningFcn[e.left], MeaningFcn[e.right])
    /\ \A e, N : Meaning(e, N) = MeaningFcn[e][N]
<1>1. PICK d : d = [N \in SUBSET Nodes |-> N]
  OBVIOUS
<1>2. d \in Meanings
  BY <1>1 DEF Meanings
<1>3. PICK B : B = [e \in Expressions |-> [L \in Meanings |-> [R \in Meanings |-> Meant(e, L, R)]]]
  OBVIOUS
<1>4. Combines(B, Meanings)
  BY <1>3, MeantType DEF Combines
<1>5. PICK f : Values(B, Meanings, d, f)
  BY <1>2, <1>4, TreeRecursion
<1>6. f \in [Expressions -> Meanings] /\ \A e \in Expressions : f[e] = ByParts(B, d, f, e)
  BY <1>5 DEF Values
<1>7. ASSUME NEW e \in Expressions PROVE f[e] = Meant(e, f[e.left], f[e.right])
  <2>1. PICK L, R : /\ L = IF e.left \in Parts(e) THEN f[e.left] ELSE d
                    /\ R = IF e.right \in Parts(e) THEN f[e.right] ELSE d
    OBVIOUS
  <2>2. L \in Meanings /\ R \in Meanings
    BY <1>2, <1>6, <2>1, Forms
  <2>3. f[e] = Meant(e, L, R)
    BY <1>3, <1>6, <2>1, <2>2 DEF ByParts
  <2>4. (~Leaf(e) => L = f[e.left]) /\ (~Leaf(e) /\ ~Unary(e) => R = f[e.right])
    BY <2>1, Forms
  <2>5. Meant(e, L, R) = Meant(e, f[e.left], f[e.right])
    BY <2>4, MeantSame
  <2> QED
    BY <2>3, <2>5
<1>8. MeaningEquation(f)
  BY <1>6, <1>7 DEF MeaningEquation
<1>9. MeaningEquation(MeaningFcn)
  BY <1>8 DEF MeaningFcn
<1>10. PICK g : g = MeaningFcn
  OBVIOUS
<1>11. g = [e \in Expressions |-> Meant(e, g[e.left], g[e.right])]
  BY <1>9, <1>10 DEF MeaningEquation
<1>12. \A e \in Expressions : g[e] = Meant(e, g[e.left], g[e.right])
  BY <1>11
<1>13. \A e \in Expressions : g[e] \in Meanings
  <2> DEFINE P == {e \in Expressions : g[e] \in Meanings}
  <2>1. ASSUME NEW e \in Expressions, Parts(e) \subseteq P PROVE e \in P
    <3>1. PICK L, R : /\ L = IF e.left \in Parts(e) THEN g[e.left] ELSE d
                      /\ R = IF e.right \in Parts(e) THEN g[e.right] ELSE d
      OBVIOUS
    <3>2. L \in Meanings /\ R \in Meanings
      BY <1>2, <2>1, <3>1
    <3>3. (~Leaf(e) => L = g[e.left]) /\ (~Leaf(e) /\ ~Unary(e) => R = g[e.right])
      BY <3>1, Forms
    <3>4. Meant(e, L, R) = Meant(e, g[e.left], g[e.right])
      BY <3>3, MeantSame
    <3> QED
      BY <1>12, <3>2, <3>4, MeantType
  <2>2. P \subseteq Expressions
    OBVIOUS
  <2> HIDE DEF P
  <2>3. \A e \in Expressions : e \in P
    BY <2>1, <2>2, TreeInduction
  <2> QED
    BY <2>3 DEF P
<1>14. g \in [Expressions -> Meanings]
  BY <1>11, <1>13
<1>15. \A e, N : Meaning(e, N) = MeaningFcn[e][N]
  BY DEF Meaning, MeaningFcn, MeaningEquation
<1> QED
  BY <1>10, <1>12, <1>14, <1>15

-----------------------------------------------------------------------------
(***************************************************************************)
(* Traits.                                                                 *)
(***************************************************************************)
LEMMA DescribedType ==
    ASSUME NEW e, NEW L, NEW R
    PROVE  Described(e, L, R) \in SUBSET Traits
BY DEF Described

LEMMA DescribedSame ==
    ASSUME NEW e \in Expressions, NEW L, NEW R, NEW L2, NEW R2,
           ~Leaf(e) => L2 = L, ~Leaf(e) /\ ~Unary(e) => R2 = R
    PROVE  Described(e, L2, R2) = Described(e, L, R)
<1>1. CASE ~Leaf(e) /\ ~Unary(e)
  BY <1>1
<1>2. CASE Leaf(e)
  BY <1>2 DEF Leaf, Steps, Described
<1>3. CASE Unary(e)
  <2>1. L2 = L /\ e.op \in {"str", "not"}
    BY <1>3 DEF Leaf, Unary, Steps
  <2> QED
    BY <2>1 DEF Described
<1> QED
  BY <1>1, <1>2, <1>3

\* The recursion of TraitsOf.
TraitsEquation(f) == f = [e \in Expressions |-> Described(e, f[e.left], f[e.right])]
TraitsFcn == CHOOSE f : TraitsEquation(f)

LEMMA TraitsFcnType ==
    /\ TraitsFcn \in [Expressions -> SUBSET Traits]
    /\ \A e \in Expressions : TraitsFcn[e] = Described(e, TraitsFcn[e.left], TraitsFcn[e.right])
    /\ \A e : TraitsOf(e) = TraitsFcn[e]
<1>1. PICK d : d = {}
  OBVIOUS
<1>2. d \in SUBSET Traits
  BY <1>1
<1>3. PICK B : B = [e \in Expressions |-> [L \in SUBSET Traits |-> [R \in SUBSET Traits |-> Described(e, L, R)]]]
  OBVIOUS
<1>4. Combines(B, SUBSET Traits)
  BY <1>3, DescribedType DEF Combines
<1>5. PICK f : Values(B, SUBSET Traits, d, f)
  BY <1>2, <1>4, TreeRecursion
<1>6. f \in [Expressions -> SUBSET Traits] /\ \A e \in Expressions : f[e] = ByParts(B, d, f, e)
  BY <1>5 DEF Values
<1>7. ASSUME NEW e \in Expressions PROVE f[e] = Described(e, f[e.left], f[e.right])
  <2>1. PICK L, R : /\ L = IF e.left \in Parts(e) THEN f[e.left] ELSE d
                    /\ R = IF e.right \in Parts(e) THEN f[e.right] ELSE d
    OBVIOUS
  <2>2. L \in SUBSET Traits /\ R \in SUBSET Traits
    BY <1>2, <1>6, <2>1, Forms
  <2>3. f[e] = Described(e, L, R)
    BY <1>3, <1>6, <2>1, <2>2 DEF ByParts
  <2>4. (~Leaf(e) => L = f[e.left]) /\ (~Leaf(e) /\ ~Unary(e) => R = f[e.right])
    BY <2>1, Forms
  <2>5. Described(e, L, R) = Described(e, f[e.left], f[e.right])
    BY <2>4, DescribedSame
  <2> QED
    BY <2>3, <2>5
<1>8. TraitsEquation(f)
  BY <1>6, <1>7 DEF TraitsEquation
<1>9. TraitsEquation(TraitsFcn)
  BY <1>8 DEF TraitsFcn
<1>10. PICK g : g = TraitsFcn
  OBVIOUS
<1>11. g = [e \in Expressions |-> Described(e, g[e.left], g[e.right])]
  BY <1>9, <1>10 DEF TraitsEquation
<1>12. \A e \in Expressions : g[e] = Described(e, g[e.left], g[e.right])
  BY <1>11
<1>13. \A e \in Expressions : g[e] \in SUBSET Traits
  <2> DEFINE P == {e \in Expressions : g[e] \in SUBSET Traits}
  <2>1. ASSUME NEW e \in Expressions, Parts(e) \subseteq P PROVE e \in P
    <3>1. PICK L, R : /\ L = IF e.left \in Parts(e) THEN g[e.left] ELSE d
                      /\ R = IF e.right \in Parts(e) THEN g[e.right] ELSE d
      OBVIOUS
    <3>2. L \in SUBSET Traits /\ R \in SUBSET Traits
      BY <1>2, <2>1, <3>1
    <3>3. (~Leaf(e) => L = g[e.left]) /\ (~Leaf(e) /\ ~Unary(e) => R = g[e.right])
      BY <3>1, Forms
    <3>4. Described(e, L, R) = Described(e, g[e.left], g[e.right])
      BY <3>3, DescribedSame
    <3> QED
      BY <1>12, <3>2, <3>4, DescribedType
  <2>2. P \subseteq Expressions
    OBVIOUS
  <2> HIDE DEF P
  <2>3. \A e \in Expressions : e \in P
    BY <2>1, <2>2, TreeInduction
  <2> QED
    BY <2>3 DEF P
<1>14. g \in [Expressions -> SUBSET Traits]
  BY <1>11, <1>13
<1>15. \A e : TraitsOf(e) = TraitsFcn[e]
  BY DEF TraitsOf, TraitsFcn, TraitsEquation
<1> QED
  BY <1>10, <1>12, <1>14, <1>15

-----------------------------------------------------------------------------
(***************************************************************************)
(* Paths.  A path returns the current list.  "." leaves everything; a path *)
(* that is not "." and does not add has a new list for the current one,    *)
(* and leaves the nodes of the old one.                                    *)
(***************************************************************************)
PathStep(T, s, t) ==
    /\ t.res = t.cur
    /\ "current" \in T => t.heap = s.heap /\ t.cur = s.cur
    /\ "current" \notin T /\ "adds" \notin T => t.cur > Len(s.heap)
    /\ "adds" \notin T => t.heap[s.cur] = s.heap[s.cur]

PathWalk(L, T) == L \in Walks /\ \A s \in States : PathStep(T, s, L[s])

LEMMA PathWalkFacts ==
    ASSUME NEW L, NEW T, PathWalk(L, T), NEW s \in States
    PROVE  L[s] \in States /\ Follows(s, L[s]) /\ PathStep(T, s, L[s])
BY WalkFacts DEF PathWalk

\* A list that was not the current one is left.
LEMMA OlderKept ==
    ASSUME NEW s \in States, NEW t \in States, Follows(s, t), NEW i \in 1 .. Len(s.heap), i # s.cur
    PROVE  i \in 1 .. Len(t.heap) /\ t.heap[i] = s.heap[i]
<1>1. Len(s.heap) \in Nat /\ Len(t.heap) \in Nat /\ Len(s.heap) <= Len(t.heap)
  BY StateFacts DEF Follows
<1> QED
  BY <1>1 DEF Follows

LEMMA SimplePathStep ==
    ASSUME NEW e, e.op \in Steps \cup {"current"}, NEW L, NEW R, NEW TL, NEW TR, NEW s \in States,
           NEW v, v = Visited(e, L, R)[s]
    PROVE  PathStep(Described(e, TL, TR), s, v)
<1>1. PathCases(e, L, R, s, v)
  BY VisitedCases
<1>2. CASE e.op \in Steps
  <2>1. PICK u : u = New(s, Selected(e, Cur(s)))
    OBVIOUS
  <2>2. PICK b : b = AsksForNull(e, s)
    OBVIOUS
  <2>3. b \in BOOLEAN
    BY <2>2 DEF AsksForNull
  <2>4. Selected(e, Cur(s)) \in SUBSET Nodes
    BY <1>2, SelectedType, StateFacts
  <2>5. /\ u \in States /\ u.cur = u.res /\ u.cur = Len(s.heap) + 1
        /\ \A i \in 1 .. Len(s.heap) : u.heap[i] = s.heap[i]
    BY <2>1, <2>4, NewFacts
  <2>6. v = WithNull(u, b)
    BY <1>1, <1>2, <2>1, <2>2 DEF PathCases
  <2>7. v.heap = u.heap /\ v.cur = u.cur /\ v.res = u.res
    <3>1. u \in States
      BY <2>5
    <3> QED
      BY <2>3, <2>6, <3>1, WithNullFacts
  <2>8. "current" \notin Described(e, TL, TR)
    BY <1>2 DEF Described, Steps
  <2>9. v.cur > Len(s.heap) /\ v.heap[s.cur] = s.heap[s.cur]
    BY <2>5, <2>7, StateFacts
  <2> QED
    BY <2>5, <2>7, <2>8, <2>9 DEF PathStep
<1>3. CASE e.op = "current"
  <2>1. v = [s EXCEPT !.res = s.cur] /\ s.cur \in 1 .. Len(s.heap)
    BY <1>1, <1>3, StateFacts DEF PathCases
  <2>2. v.heap = s.heap /\ v.cur = s.cur /\ v.res = s.cur
    BY <2>1, WithResFacts
  <2>3. "current" \in Described(e, TL, TR)
    BY <1>3 DEF Described, Traits
  <2> QED
    BY <2>2, <2>3 DEF PathStep
<1> QED
  BY <1>2, <1>3

LEMMA DirectChildPathStep ==
    ASSUME NEW e, e.op = "directChild", NEW L, NEW R, NEW TL, NEW TR, NEW s \in States,
           PathWalk(L, TL), PathWalk(R, TR), NEW v, v = Visited(e, L, R)[s]
    PROVE  PathStep(Described(e, TL, TR), s, v)
<1>1. PICK t : t = L[s]
  OBVIOUS
<1>2. v = R[t]
  <2>1. PathCases(e, L, R, s, v)
    BY VisitedCases
  <2> QED
    BY <1>1, <2>1 DEF PathCases
<1>3. t \in States /\ Follows(s, t) /\ PathStep(TL, s, t)
  BY <1>1, PathWalkFacts
<1>4. v \in States /\ Follows(t, v) /\ PathStep(TR, t, v)
  BY <1>2, <1>3, PathWalkFacts
<1>5. PICK T : T = Described(e, TL, TR)
  OBVIOUS
<1>6. /\ "current" \in T <=> "current" \in TL /\ "current" \in TR
      /\ "adds" \in T <=> "adds" \in TL \/ ("current" \in TL /\ "adds" \in TR)
  BY <1>5 DEF Described, Traits
<1>7. /\ Len(s.heap) \in Nat /\ Len(t.heap) \in Nat /\ Len(v.heap) \in Nat /\ Len(s.heap) <= Len(t.heap)
      /\ s.cur \in 1 .. Len(s.heap) /\ s.cur \in Nat /\ t.cur \in Nat /\ v.cur \in Nat
  BY <1>3, <1>4, StateFacts DEF Follows
<1>8. v.res = v.cur
  BY <1>4 DEF PathStep
<1>9. CASE "current" \in TL
  <2>1. t.heap = s.heap /\ t.cur = s.cur
    BY <1>3, <1>9 DEF PathStep
  <2> QED
    BY <1>4, <1>5, <1>6, <1>9, <2>1 DEF PathStep
<1>10. CASE "current" \notin TL
  <2>1. SUFFICES ASSUME "adds" \notin T PROVE v.cur > Len(s.heap) /\ v.heap[s.cur] = s.heap[s.cur]
    BY <1>5, <1>6, <1>8, <1>10 DEF PathStep
  <2>2. t.cur > Len(s.heap) /\ t.heap[s.cur] = s.heap[s.cur]
    BY <1>3, <1>6, <1>10, <2>1 DEF PathStep
  <2>3. v.cur = t.cur \/ v.cur > Len(t.heap)
    BY <1>4 DEF Follows
  <2>4. s.cur \in 1 .. Len(t.heap) /\ s.cur # t.cur
    BY <1>7, <2>2
  <2>5. v.heap[s.cur] = t.heap[s.cur]
    BY <1>3, <1>4, <2>4, OlderKept
  <2> QED
    BY <1>7, <2>2, <2>3, <2>5
<1> QED
  BY <1>9, <1>10

LEMMA IndirectChildPathStep ==
    ASSUME NEW e, e.op = "indirectChild", NEW L, NEW R, NEW TL, NEW TR, NEW s \in States,
           PathWalk(L, TL), PathWalk(R, TR), NEW v, v = Visited(e, L, R)[s]
    PROVE  PathStep(Described(e, TL, TR), s, v)
<1>1. PICK t : t = L[s]
  OBVIOUS
<1>2. PICK u : u = AddDescendants(t)
  OBVIOUS
<1>3. v = R[u]
  <2>1. PathCases(e, L, R, s, v)
    BY VisitedCases
  <2> QED
    BY <1>1, <1>2, <2>1 DEF PathCases
<1>4. t \in States /\ Follows(s, t) /\ PathStep(TL, s, t)
  BY <1>1, PathWalkFacts
<1>5. u \in States /\ u.cur = t.cur /\ Len(u.heap) = Len(t.heap) /\ Follows(t, u)
  BY <1>2, <1>4, AddDescendantsFacts
<1>6. v \in States /\ Follows(u, v) /\ v.res = v.cur
  BY <1>3, <1>5, PathWalkFacts DEF PathStep
<1>7. PICK T : T = Described(e, TL, TR)
  OBVIOUS
<1>8. "current" \notin T /\ ("adds" \in T <=> "current" \in TL \/ "adds" \in TL)
  BY <1>7 DEF Described, Traits
<1>9. SUFFICES ASSUME "adds" \notin T PROVE v.cur > Len(s.heap) /\ v.heap[s.cur] = s.heap[s.cur]
  BY <1>6, <1>7, <1>8 DEF PathStep
<1>10. /\ Len(s.heap) \in Nat /\ Len(t.heap) \in Nat /\ Len(v.heap) \in Nat /\ Len(s.heap) <= Len(t.heap)
       /\ s.cur \in 1 .. Len(s.heap) /\ s.cur \in Nat /\ t.cur \in Nat /\ v.cur \in Nat
  BY <1>4, <1>6, StateFacts DEF Follows
<1>11. t.cur > Len(s.heap) /\ t.heap[s.cur] = s.heap[s.cur]
  BY <1>4, <1>8, <1>9 DEF PathStep
<1>12. v.cur = u.cur \/ v.cur > Len(u.heap)
  BY <1>6 DEF Follows
<1>13. s.cur \in 1 .. Len(t.heap) /\ s.cur # t.cur
  BY <1>10, <1>11
<1>14. s.cur \in 1 .. Len(u.heap) /\ u.heap[s.cur] = t.heap[s.cur]
  BY <1>4, <1>5, <1>13, OlderKept
<1>15. v.heap[s.cur] = u.heap[s.cur]
  BY <1>5, <1>6, <1>13, <1>14, OlderKept
<1> QED
  BY <1>5, <1>10, <1>11, <1>12, <1>14, <1>15

LEMMA ConcatPathStep ==
    ASSUME NEW e, e.op = "concat", NEW L, NEW R, NEW TL, NEW TR, NEW s \in States,
           PathWalk(L, TL), PathWalk(R, TR), NEW v, v = Visited(e, L, R)[s]
    PROVE  PathStep(Described(e, TL, TR), s, v)
<1>1. PICK t : t = L[s]
  OBVIOUS
<1>2. PICK r : r = Restored(t, s.cur)
  OBVIOUS
<1>3. PICK w : w = R[r]
  OBVIOUS
<1>4. v = New(w, Res(t) \cup Res(w))
  <2>1. PathCases(e, L, R, s, v)
    BY VisitedCases
  <2> QED
    BY <1>1, <1>2, <1>3, <2>1 DEF PathCases
<1>5. t \in States /\ Follows(s, t) /\ PathStep(TL, s, t)
  BY <1>1, PathWalkFacts
<1>6. r \in States /\ Follows(s, r) /\ r.heap = t.heap /\ r.cur = s.cur
  BY <1>2, <1>5, RestoredFacts
<1>7. w \in States /\ Follows(r, w) /\ PathStep(TR, r, w)
  BY <1>3, <1>6, PathWalkFacts
<1>8. PICK N : N = Res(t) \cup Res(w)
  OBVIOUS
<1>9. N \in SUBSET Nodes
  BY <1>5, <1>7, <1>8, StateFacts
<1>10. /\ v.cur = Len(w.heap) + 1 /\ v.res = v.cur
       /\ \A i \in 1 .. Len(w.heap) : v.heap[i] = w.heap[i]
  BY <1>4, <1>7, <1>8, <1>9, NewFacts
<1>11. PICK T : T = Described(e, TL, TR)
  OBVIOUS
<1>12. "current" \notin T /\ ("adds" \in T <=> "adds" \in TL \/ "adds" \in TR)
  BY <1>11 DEF Described, Traits
<1>13. /\ Len(s.heap) \in Nat /\ Len(w.heap) \in Nat /\ Len(s.heap) <= Len(w.heap)
       /\ s.cur \in 1 .. Len(s.heap) /\ s.cur \in Nat
  <2>1. Follows(s, w)
    BY <1>6, <1>7, FollowsTrans
  <2> QED
    BY <1>7, <2>1, StateFacts DEF Follows
<1>14. v.cur > Len(s.heap)
  BY <1>10, <1>13
<1>15. ASSUME "adds" \notin T PROVE v.heap[s.cur] = s.heap[s.cur]
  <2>1. t.heap[s.cur] = s.heap[s.cur] /\ w.heap[r.cur] = r.heap[r.cur]
    BY <1>5, <1>7, <1>12, <1>15 DEF PathStep
  <2>2. s.cur \in 1 .. Len(w.heap)
    BY <1>13
  <2> QED
    BY <1>6, <1>10, <2>1, <2>2
<1> QED
  BY <1>10, <1>11, <1>12, <1>14, <1>15 DEF PathStep

LEMMA FilterPathStep ==
    ASSUME NEW e, e.op = "filter", NEW L, NEW R, NEW TL, NEW TR, NEW s \in States,
           PathWalk(L, TL), NEW v, v = Visited(e, L, R)[s]
    PROVE  PathStep(Described(e, TL, TR), s, v)
<1>1. PICK t : t = L[s]
  OBVIOUS
<1>2. PICK u : u = New(t, Kept(R, t))
  OBVIOUS
<1>3. PICK b : b = MetNull(R, t)
  OBVIOUS
<1>4. v = WithNull(u, b)
  <2>1. PathCases(e, L, R, s, v)
    BY VisitedCases
  <2> QED
    BY <1>1, <1>2, <1>3, <2>1 DEF PathCases
<1>5. t \in States /\ Follows(s, t) /\ PathStep(TL, s, t)
  BY <1>1, PathWalkFacts
<1>6. b \in BOOLEAN
  BY <1>3 DEF MetNull
<1>7. Kept(R, t) \in SUBSET Nodes
  BY <1>5, StateFacts DEF Kept
<1>8. /\ u \in States /\ u.cur = Len(t.heap) + 1 /\ u.res = u.cur
      /\ \A i \in 1 .. Len(t.heap) : u.heap[i] = t.heap[i]
  BY <1>2, <1>5, <1>7, NewFacts
<1>9. u \in States
  BY <1>8
<1>10. v.heap = u.heap /\ v.cur = u.cur /\ v.res = u.res
  BY <1>4, <1>6, <1>9, WithNullFacts
<1>11. PICK T : T = Described(e, TL, TR)
  OBVIOUS
<1>12. "current" \notin T /\ ("adds" \in T <=> "adds" \in TL)
  BY <1>11 DEF Described, Traits
<1>13. /\ Len(s.heap) \in Nat /\ Len(t.heap) \in Nat /\ Len(s.heap) <= Len(t.heap)
       /\ s.cur \in 1 .. Len(s.heap) /\ s.cur \in Nat
  BY <1>5, StateFacts DEF Follows
<1>14. v.cur > Len(s.heap)
  BY <1>8, <1>10, <1>13
<1>15. ASSUME "adds" \notin T PROVE v.heap[s.cur] = s.heap[s.cur]
  <2>1. t.heap[s.cur] = s.heap[s.cur]
    BY <1>5, <1>12, <1>15 DEF PathStep
  <2>2. s.cur \in 1 .. Len(t.heap)
    BY <1>13
  <2> QED
    BY <1>8, <1>10, <2>1, <2>2
<1> QED
  BY <1>8, <1>10, <1>11, <1>12, <1>14, <1>15 DEF PathStep

\* The forms of paths.
LEMMA PathForms ==
    ASSUME NEW e \in Paths
    PROVE  /\ e \in Expressions
           /\ \/ e.op \in Steps \cup {"current"} \/ e.op = "directChild" \/ e.op = "indirectChild"
              \/ e.op = "concat" \/ e.op = "filter"
           /\ e.op \in {"directChild", "indirectChild", "concat", "filter"} =>
                /\ e.left \in Paths /\ e.left \in Expressions /\ e.right \in Expressions
                /\ e.left \in Parts(e) /\ e.right \in Parts(e)
           /\ e.op \in {"directChild", "indirectChild", "concat"} => e.right \in Paths
<1>1. e \in Expressions
  BY DEF Expressions
<1> QED
  BY <1>1, PathsAssumption DEF Parts, Expressions, Steps

PathsStep == \A e \in Paths : PathWalk(VisitFcn[e], TraitsFcn[e])

\* Every path is one.
LEMMA PathsStepHolds == PathsStep
<1> DEFINE P == {e \in Expressions : e \in Paths => PathWalk(VisitFcn[e], TraitsFcn[e])}
<1>1. ASSUME NEW e \in Expressions, Parts(e) \subseteq P PROVE e \in P
  <2>1. SUFFICES ASSUME e \in Paths PROVE PathWalk(VisitFcn[e], TraitsFcn[e])
    OBVIOUS
  <2>2. PICK L, R : L = VisitFcn[e.left] /\ R = VisitFcn[e.right]
    OBVIOUS
  <2>3. PICK TL, TR : TL = TraitsFcn[e.left] /\ TR = TraitsFcn[e.right]
    OBVIOUS
  <2>4. VisitFcn[e] = Visited(e, L, R) /\ VisitFcn[e] \in Walks
    BY <2>2, VisitFcnType
  <2>5. TraitsFcn[e] = Described(e, TL, TR)
    BY <2>3, TraitsFcnType
  <2>6. e.op \in {"directChild", "indirectChild", "concat", "filter"} => PathWalk(L, TL)
    BY <1>1, <2>1, <2>2, <2>3, PathForms
  <2>7. e.op \in {"directChild", "indirectChild", "concat"} => PathWalk(R, TR)
    BY <1>1, <2>1, <2>2, <2>3, PathForms
  <2>8. ASSUME NEW s \in States PROVE PathStep(TraitsFcn[e], s, VisitFcn[e][s])
    <3>1. PICK v : v = Visited(e, L, R)[s]
      OBVIOUS
    <3>2. PathStep(Described(e, TL, TR), s, v)
      BY <2>1, <2>6, <2>7, <3>1, PathForms, SimplePathStep, DirectChildPathStep,
         IndirectChildPathStep, ConcatPathStep, FilterPathStep
    <3> QED
      BY <2>4, <2>5, <3>1, <3>2
  <2> QED
    BY <2>4, <2>8 DEF PathWalk
<1>2. P \subseteq Expressions /\ \A e \in P : e \in Paths => PathWalk(VisitFcn[e], TraitsFcn[e])
  OBVIOUS
<1> HIDE DEF P
<1>3. \A e \in Expressions : e \in P
  BY <1>1, <1>2, TreeInduction
<1> QED
  BY <1>2, <1>3 DEF PathsStep, Expressions

-----------------------------------------------------------------------------
(***************************************************************************)
(* Isolated expressions.  A path returns what it means in the context.  A  *)
(* condition, visited on one node, returns something if and only if it     *)
(* holds of the node; and what restores leaves the current list, with its  *)
(* nodes.                                                                  *)
(***************************************************************************)
Exactly(T, L, M) ==
    "isolated" \in T => \A s \in States : Res(L[s]) = M[Cur(s)]

Truly(T, L, M) ==
    "isolated" \in T =>
        \A s \in States : \A n \in Nodes : Cur(s) = {n} => (Res(L[s]) # {} <=> M[{n}] # {})

Steadily(T, L) ==
    "isolated" \in T /\ "restores" \in T =>
        \A s \in States : L[s].cur = s.cur /\ Cur(L[s]) = Cur(s)

LEMMA SimpleExact ==
    ASSUME NEW e, e.op \in Steps \cup {"current"}, NEW L, NEW R, NEW ML, NEW MR, NEW s \in States,
           NEW v, v = Visited(e, L, R)[s], NEW N, N = Cur(s), NEW m, m = Meant(e, ML, MR)[N]
    PROVE  Res(v) = m
<1>1. PathCases(e, L, R, s, v)
  BY VisitedCases
<1>2. N \in SUBSET Nodes
  BY StateFacts
<1>3. PathMeaning(e, ML, MR, N, m)
  BY <1>2, MeantCases
<1>4. CASE e.op \in Steps
  <2>1. PICK u : u = New(s, Selected(e, N))
    OBVIOUS
  <2>2. PICK b : b = AsksForNull(e, s)
    OBVIOUS
  <2>3. b \in BOOLEAN
    BY <2>2 DEF AsksForNull
  <2>4. Selected(e, N) \in SUBSET Nodes
    BY <1>2, <1>4, SelectedType
  <2>5. u \in States /\ Res(u) = Selected(e, N)
    BY <2>1, <2>4, NewFacts
  <2>6. v = WithNull(u, b)
    BY <1>1, <1>4, <2>1, <2>2 DEF PathCases
  <2>7. Res(v) = Res(u)
    BY <2>3, <2>5, <2>6, WithNullFacts
  <2> QED
    BY <1>3, <1>4, <2>5, <2>7 DEF PathMeaning
<1>5. CASE e.op = "current"
  <2>1. v = [s EXCEPT !.res = s.cur] /\ s.cur \in 1 .. Len(s.heap)
    BY <1>1, <1>5, StateFacts DEF PathCases
  <2>2. v.heap = s.heap /\ v.res = s.cur
    BY <2>1, WithResFacts
  <2>3. m = N
    BY <1>3, <1>5 DEF PathMeaning
  <2> QED
    BY <2>2, <2>3 DEF Res, Cur
<1> QED
  BY <1>4, <1>5

LEMMA ChildExact ==
    ASSUME NEW e, e.op \in {"directChild", "indirectChild"}, NEW L, NEW R, NEW TL, NEW TR,
           NEW ML, NEW MR, NEW s \in States, PathWalk(L, TL), PathWalk(R, TR),
           "isolated" \in Described(e, TL, TR), Exactly(TL, L, ML), Exactly(TR, R, MR),
           NEW v, v = Visited(e, L, R)[s], NEW N, N = Cur(s), NEW m, m = Meant(e, ML, MR)[N]
    PROVE  Res(v) = m
<1>1. PathCases(e, L, R, s, v)
  BY VisitedCases
<1>2. N \in SUBSET Nodes
  BY StateFacts
<1>3. PathMeaning(e, ML, MR, N, m)
  BY <1>2, MeantCases
<1>4. "isolated" \in TL /\ "isolated" \in TR
  BY DEF Described, Steps
<1>5. PICK t : t = L[s]
  OBVIOUS
<1>6. t \in States /\ Res(t) = ML[N] /\ t.res = t.cur
  BY <1>4, <1>5, PathWalkFacts DEF Exactly, PathStep
<1>7. Cur(t) = ML[N]
  BY <1>6 DEF Cur, Res
<1>8. CASE e.op = "directChild"
  <2>1. v = R[t]
    BY <1>1, <1>5, <1>8 DEF PathCases
  <2>2. Res(v) = MR[Cur(t)]
    BY <1>4, <1>6, <2>1 DEF Exactly
  <2> QED
    BY <1>3, <1>7, <1>8, <2>2 DEF PathMeaning
<1>9. CASE e.op = "indirectChild"
  <2>1. PICK u : u = AddDescendants(t)
    OBVIOUS
  <2>2. v = R[u]
    BY <1>1, <1>5, <1>9, <2>1 DEF PathCases
  <2>3. u \in States /\ Cur(u) = Cur(t) \cup Descendants(Cur(t))
    BY <1>6, <2>1, AddDescendantsFacts
  <2>4. Res(v) = MR[Cur(u)]
    BY <1>4, <2>2, <2>3 DEF Exactly
  <2> QED
    BY <1>3, <1>7, <1>9, <2>3, <2>4 DEF PathMeaning
<1> QED
  BY <1>8, <1>9

LEMMA ConcatExact ==
    ASSUME NEW e, e.op = "concat", NEW L, NEW R, NEW TL, NEW TR,
           NEW ML, NEW MR, NEW s \in States, PathWalk(L, TL), PathWalk(R, TR),
           "isolated" \in Described(e, TL, TR), Exactly(TL, L, ML), Exactly(TR, R, MR),
           NEW v, v = Visited(e, L, R)[s], NEW N, N = Cur(s), NEW m, m = Meant(e, ML, MR)[N]
    PROVE  Res(v) = m
<1>1. N \in SUBSET Nodes
  BY StateFacts
<1>2. m = ML[N] \cup MR[N]
  <2>1. PathMeaning(e, ML, MR, N, m)
    BY <1>1, MeantCases
  <2> QED
    BY <2>1 DEF PathMeaning
<1>3. "isolated" \in TL /\ "isolated" \in TR /\ "adds" \notin TL /\ "adds" \notin TR
  BY DEF Described, Steps
<1>4. PICK t : t = L[s]
  OBVIOUS
<1>5. PICK r : r = Restored(t, s.cur)
  OBVIOUS
<1>6. PICK w : w = R[r]
  OBVIOUS
<1>7. t \in States /\ Follows(s, t) /\ t.heap[s.cur] = s.heap[s.cur]
  BY <1>3, <1>4, PathWalkFacts DEF PathStep
<1>8. Res(t) = ML[N]
  BY <1>3, <1>4 DEF Exactly
<1>9. r \in States /\ r.heap = t.heap /\ r.cur = s.cur
  BY <1>5, <1>7, RestoredFacts
<1>10. Cur(r) = N
  BY <1>7, <1>9 DEF Cur
<1>11. w \in States /\ Res(w) = MR[N]
  BY <1>3, <1>6, <1>9, <1>10, PathWalkFacts DEF Exactly
<1>12. v = New(w, Res(t) \cup Res(w))
  <2>1. PathCases(e, L, R, s, v)
    BY VisitedCases
  <2> QED
    BY <1>4, <1>5, <1>6, <2>1 DEF PathCases
<1>13. Res(t) \cup Res(w) \in SUBSET Nodes
  BY <1>7, <1>11, StateFacts
<1>14. Res(v) = Res(t) \cup Res(w)
  BY <1>11, <1>12, <1>13, NewFacts
<1> QED
  BY <1>2, <1>8, <1>11, <1>14

LEMMA FilterExact ==
    ASSUME NEW e, e.op = "filter", NEW L, NEW R, NEW TL, NEW TR,
           NEW ML, NEW MR, NEW s \in States, PathWalk(L, TL),
           "isolated" \in Described(e, TL, TR), Exactly(TL, L, ML), Truly(TR, R, MR),
           NEW v, v = Visited(e, L, R)[s], NEW N, N = Cur(s), NEW m, m = Meant(e, ML, MR)[N]
    PROVE  Res(v) = m
<1>1. N \in SUBSET Nodes
  BY StateFacts
<1>2. m = {n \in ML[N] : MR[{n}] # {}}
  <2>1. PathMeaning(e, ML, MR, N, m)
    BY <1>1, MeantCases
  <2> QED
    BY <2>1 DEF PathMeaning
<1>3. "isolated" \in TL /\ "isolated" \in TR
  BY DEF Described, Steps
<1>4. PICK t : t = L[s]
  OBVIOUS
<1>5. t \in States /\ Res(t) = ML[N] /\ t.res = t.cur
  BY <1>3, <1>4, PathWalkFacts DEF Exactly, PathStep
<1>6. Cur(t) = ML[N] /\ Cur(t) \in SUBSET Nodes
  BY <1>5, StateFacts DEF Cur, Res
<1>7. ASSUME NEW n \in Cur(t) PROVE Res(R[New(t, {n})]) # {} <=> MR[{n}] # {}
  <2>1. PICK q : q = New(t, {n})
    OBVIOUS
  <2>2. n \in Nodes /\ {n} \in SUBSET Nodes
    BY <1>6
  <2>3. q \in States /\ Cur(q) = {n}
    BY <1>5, <2>1, <2>2, NewFacts
  <2> QED
    BY <1>3, <2>1, <2>2, <2>3 DEF Truly
<1>8. Kept(R, t) = m
  BY <1>2, <1>6, <1>7 DEF Kept
<1>9. PICK u : u = New(t, Kept(R, t))
  OBVIOUS
<1>10. PICK b : b = MetNull(R, t)
  OBVIOUS
<1>11. b \in BOOLEAN
  BY <1>10 DEF MetNull
<1>12. Kept(R, t) \in SUBSET Nodes
  BY <1>6 DEF Kept
<1>13. u \in States /\ Res(u) = m
  BY <1>5, <1>8, <1>9, <1>12, NewFacts
<1>14. v = WithNull(u, b)
  <2>1. PathCases(e, L, R, s, v)
    BY VisitedCases
  <2> QED
    BY <1>4, <1>9, <1>10, <2>1 DEF PathCases
<1>15. Res(v) = Res(u)
  BY <1>11, <1>13, <1>14, WithNullFacts
<1> QED
  BY <1>13, <1>15

\* What visiting a condition does from s.
TrueStep(T, s, v, M) ==
    /\ "restores" \in T => v.cur = s.cur /\ Cur(v) = Cur(s)
    /\ \A n \in Nodes : Cur(s) = {n} => (Res(v) # {} <=> M[{n}] # {})

\* A comparison returns something if its operands' nodes match; it restores.
LEMMA ComparisonTrue ==
    ASSUME NEW e, e.op \in {"eq", "is"}, NEW L, NEW R, NEW TL, NEW TR,
           NEW ML, NEW MR, NEW s \in States, PathWalk(L, TL), PathWalk(R, TR),
           "isolated" \in Described(e, TL, TR), Exactly(TL, L, ML), Exactly(TR, R, MR),
           NEW v, v = Visited(e, L, R)[s], NEW N, N = Cur(s)
    PROVE  TrueStep(Described(e, TL, TR), s, v, Meant(e, ML, MR))
<1>1. "isolated" \in TL /\ "isolated" \in TR /\ "adds" \notin TL /\ "adds" \notin TR
  BY DEF Described, Steps
<1>2. PICK t : t = L[s]
  OBVIOUS
<1>3. PICK r : r = Restored(t, s.cur)
  OBVIOUS
<1>4. PICK w : w = R[r]
  OBVIOUS
<1>5. PICK u : u = Restored(w, s.cur)
  OBVIOUS
<1>6. t \in States /\ Follows(s, t) /\ t.heap[s.cur] = s.heap[s.cur] /\ t.res = t.cur
  BY <1>1, <1>2, PathWalkFacts DEF PathStep
<1>7. Res(t) = ML[N]
  BY <1>1, <1>2 DEF Exactly
<1>8. r \in States /\ Follows(s, r) /\ r.heap = t.heap /\ r.cur = s.cur
  BY <1>3, <1>6, RestoredFacts
<1>9. Cur(r) = N
  BY <1>6, <1>8 DEF Cur
<1>10. w \in States /\ Follows(r, w) /\ w.heap[s.cur] = r.heap[s.cur]
  BY <1>1, <1>4, <1>8, PathWalkFacts DEF PathStep
<1>11. Res(w) = MR[N]
  BY <1>1, <1>4, <1>8, <1>9 DEF Exactly
<1>12. Follows(s, w)
  BY <1>8, <1>10, FollowsTrans
<1>13. u \in States /\ u.heap = w.heap /\ u.cur = s.cur /\ Res(u) = Res(w)
  BY <1>5, <1>10, <1>12, RestoredFacts
<1>14. t.res \in 1 .. Len(r.heap)
  BY <1>6, <1>8, StateFacts
\* The list returned first is left by the second operand.
<1>15. t.res \in 1 .. Len(u.heap) /\ u.heap[t.res] = ML[N]
  <2>1. r.heap[t.res] = ML[N]
    BY <1>7, <1>8 DEF Res
  <2>2. t.res \in 1 .. Len(w.heap) /\ w.heap[t.res] = r.heap[t.res]
    <3>1. CASE t.res = s.cur
      <4>1. s.cur \in 1 .. Len(w.heap)
        BY <1>12, StateFacts DEF Follows
      <4> QED
        BY <1>10, <3>1, <4>1
    <3>2. CASE t.res # s.cur
      BY <1>8, <1>10, <1>14, <3>2, OlderKept
    <3> QED
      BY <3>1, <3>2
  <2> QED
    BY <1>13, <2>1, <2>2
<1>16. PICK M : M = Matching(e.op, u.heap[t.res], Res(u))
  OBVIOUS
<1>17. M \in SUBSET Nodes
  <2>1. u.heap[t.res] \in SUBSET Nodes
    BY <1>13, <1>15, StateFacts
  <2> QED
    BY <1>16, <2>1 DEF Matching
<1>18. v = Returned(u, M)
  <2>1. ComparisonCases(e, L, R, s, v)
    BY VisitedCases
  <2> QED
    BY <1>2, <1>3, <1>4, <1>5, <1>16, <2>1 DEF ComparisonCases
<1>19. /\ v.cur = u.cur /\ Res(v) = M
       /\ \A i \in 1 .. Len(u.heap) : v.heap[i] = u.heap[i]
  BY <1>13, <1>17, <1>18, ReturnedFacts
<1>20. v.cur = s.cur /\ Cur(v) = N
  <2>1. s.cur \in 1 .. Len(u.heap)
    BY <1>13, StateFacts
  <2>2. v.heap[s.cur] = s.heap[s.cur]
    BY <1>6, <1>8, <1>10, <1>13, <1>19, <2>1
  <2> QED
    BY <1>13, <1>19, <2>2 DEF Cur
<1>21. ASSUME NEW n \in Nodes, N = {n} PROVE Res(v) # {} <=> Meant(e, ML, MR)[{n}] # {}
  <2>1. PICK m : m = Meant(e, ML, MR)[{n}]
    OBVIOUS
  <2>2. ConditionMeaning(e, ML, MR, {n}, m)
    BY <2>1, MeantCases
  <2>3. m # {} <=> \E x \in ML[{n}], y \in MR[{n}] : Matches(e.op, x, y)
    BY <2>2 DEF ConditionMeaning
  <2>4. M = Matching(e.op, ML[{n}], MR[{n}])
    BY <1>11, <1>13, <1>15, <1>16, <1>21
  <2> QED
    BY <1>19, <2>1, <2>3, <2>4 DEF Matching
<1> QED
  BY <1>20, <1>21 DEF TrueStep

LEMMA StrTrue ==
    ASSUME NEW e, e.op = "str", NEW L, NEW R, NEW TL, NEW TR,
           NEW ML, NEW MR, NEW s \in States, PathWalk(L, TL),
           "isolated" \in Described(e, TL, TR), Exactly(TL, L, ML),
           NEW v, v = Visited(e, L, R)[s], NEW N, N = Cur(s)
    PROVE  TrueStep(Described(e, TL, TR), s, v, Meant(e, ML, MR))
<1>1. "isolated" \in TL /\ "adds" \notin TL
  BY DEF Described, Steps
<1>2. PICK t : t = L[s]
  OBVIOUS
<1>3. PICK r : r = Restored(t, s.cur)
  OBVIOUS
<1>4. t \in States /\ Follows(s, t) /\ t.heap[s.cur] = s.heap[s.cur]
  BY <1>1, <1>2, PathWalkFacts DEF PathStep
<1>5. Res(t) = ML[N]
  BY <1>1, <1>2 DEF Exactly
<1>6. r \in States /\ r.heap = t.heap /\ r.cur = s.cur
  BY <1>3, <1>4, RestoredFacts
<1>7. PICK M : M = Res(t) \cap HasText[e.text]
  OBVIOUS
<1>8. M \in SUBSET Nodes
  BY <1>4, <1>7, StateFacts
<1>9. v = Returned(r, M)
  <2>1. ComparisonCases(e, L, R, s, v)
    BY VisitedCases
  <2> QED
    BY <1>2, <1>3, <1>7, <2>1 DEF ComparisonCases
<1>10. /\ v.cur = r.cur /\ Res(v) = M
       /\ \A i \in 1 .. Len(r.heap) : v.heap[i] = r.heap[i]
  BY <1>6, <1>8, <1>9, ReturnedFacts
<1>11. v.cur = s.cur /\ Cur(v) = N
  <2>1. s.cur \in 1 .. Len(r.heap)
    BY <1>6, StateFacts
  <2>2. v.heap[s.cur] = s.heap[s.cur]
    BY <1>4, <1>6, <1>10, <2>1
  <2> QED
    BY <1>6, <1>10, <2>2 DEF Cur
<1>12. ASSUME NEW n \in Nodes, N = {n} PROVE Res(v) # {} <=> Meant(e, ML, MR)[{n}] # {}
  <2>1. PICK m : m = Meant(e, ML, MR)[{n}]
    OBVIOUS
  <2>2. ConditionMeaning(e, ML, MR, {n}, m)
    BY <2>1, MeantCases
  <2>3. m # {} <=> ML[{n}] \cap HasText[e.text] # {}
    BY <2>2 DEF ConditionMeaning
  <2> QED
    BY <1>5, <1>7, <1>10, <1>12, <2>1, <2>3
<1> QED
  BY <1>11, <1>12 DEF TrueStep

\* What visiting an isolated condition that restores does.
LEMMA SteadyFacts ==
    ASSUME NEW T, NEW L \in Walks, "isolated" \in T, "restores" \in T, Steadily(T, L), NEW s \in States
    PROVE  L[s] \in States /\ L[s].cur = s.cur /\ Cur(L[s]) = Cur(s) /\ Res(L[s]) \in SUBSET Nodes
<1>1. L[s] \in States
  BY WalkFacts
<1> QED
  BY <1>1, StateFacts DEF Steadily

\* Returned leaves the current list.
LEMMA ReturnedCur ==
    ASSUME NEW s \in States, NEW N \in SUBSET Nodes, NEW v, v = Returned(s, N)
    PROVE  v.cur = s.cur /\ Cur(v) = Cur(s) /\ Res(v) = N
<1>1. /\ v.cur = s.cur /\ Res(v) = N
      /\ \A i \in 1 .. Len(s.heap) : v.heap[i] = s.heap[i]
  BY ReturnedFacts
<1>2. s.cur \in 1 .. Len(s.heap)
  BY StateFacts
<1> QED
  BY <1>1, <1>2 DEF Cur

LEMMA ConnectiveTrue ==
    ASSUME NEW e, e.op \in {"or", "and"}, NEW L \in Walks, NEW R \in Walks, NEW TL, NEW TR,
           NEW ML, NEW MR, NEW s \in States,
           "isolated" \in Described(e, TL, TR), Steadily(TL, L), Steadily(TR, R),
           Truly(TL, L, ML), Truly(TR, R, MR),
           NEW v, v = Visited(e, L, R)[s], NEW N, N = Cur(s)
    PROVE  TrueStep(Described(e, TL, TR), s, v, Meant(e, ML, MR))
<1>1. "isolated" \in TL /\ "isolated" \in TR /\ "restores" \in TL /\ "restores" \in TR
  BY DEF Described, Steps
<1>2. ConnectiveCases(e, L, R, s, v)
  BY VisitedCases
<1>3. PICK t : t = L[s]
  OBVIOUS
<1>4. t \in States /\ t.cur = s.cur /\ Cur(t) = N /\ Res(t) \in SUBSET Nodes
  BY <1>1, <1>3, SteadyFacts
<1>5. PICK x : x = R[t]
  OBVIOUS
<1>6. x \in States /\ x.cur = s.cur /\ Cur(x) = N /\ Res(x) \in SUBSET Nodes
  BY <1>1, <1>4, <1>5, SteadyFacts
<1>7. PICK y : y = L[x]
  OBVIOUS
<1>8. y \in States /\ y.cur = s.cur /\ Cur(y) = N /\ Res(y) \in SUBSET Nodes
  BY <1>1, <1>6, <1>7, SteadyFacts
<1>9. PICK z : z = R[y]
  OBVIOUS
<1>10. z \in States /\ z.cur = s.cur /\ Cur(z) = N /\ Res(z) \in SUBSET Nodes
  BY <1>1, <1>8, <1>9, SteadyFacts
<1>11. Res(t) \cup Res(x) \in SUBSET Nodes /\ Res(y) \cup Res(z) \in SUBSET Nodes /\ {} \in SUBSET Nodes
  BY <1>4, <1>6, <1>8, <1>10
<1>12. /\ e.op = "or" => v = Returned(x, Res(t) \cup Res(x))
       /\ e.op = "and" =>
            v = IF Res(t) = {} THEN Returned(t, {})
                ELSE IF Res(x) = {} THEN Returned(x, {})
                ELSE Returned(z, Res(y) \cup Res(z))
  BY <1>2, <1>3, <1>5, <1>7, <1>9 DEF ConnectiveCases
<1>13. /\ v.cur = s.cur /\ Cur(v) = N
       /\ e.op = "or" => Res(v) = Res(t) \cup Res(x)
       /\ e.op = "and" =>
            Res(v) = IF Res(t) = {} \/ Res(x) = {} THEN {} ELSE Res(y) \cup Res(z)
  <2>1. CASE e.op = "or"
    BY <1>6, <1>11, <1>12, <2>1, ReturnedCur
  <2>2. CASE e.op = "and" /\ Res(t) = {}
    BY <1>4, <1>11, <1>12, <2>2, ReturnedCur
  <2>3. CASE e.op = "and" /\ Res(t) # {} /\ Res(x) = {}
    BY <1>6, <1>11, <1>12, <2>3, ReturnedCur
  <2>4. CASE e.op = "and" /\ Res(t) # {} /\ Res(x) # {}
    BY <1>10, <1>11, <1>12, <2>4, ReturnedCur
  <2> QED
    BY <2>1, <2>2, <2>3, <2>4
<1>14. ASSUME NEW n \in Nodes, N = {n} PROVE Res(v) # {} <=> Meant(e, ML, MR)[{n}] # {}
  <2>1. PICK m : m = Meant(e, ML, MR)[{n}]
    OBVIOUS
  <2>2. ConditionMeaning(e, ML, MR, {n}, m)
    BY <2>1, MeantCases
  <2>3. /\ e.op = "or" => (m # {} <=> ML[{n}] # {} \/ MR[{n}] # {})
        /\ e.op = "and" => (m # {} <=> ML[{n}] # {} /\ MR[{n}] # {})
    BY <2>2 DEF ConditionMeaning
  <2>4. (Res(t) # {} <=> ML[{n}] # {}) /\ (Res(x) # {} <=> MR[{n}] # {})
    BY <1>1, <1>3, <1>4, <1>5, <1>14 DEF Truly
  <2>5. (Res(y) # {} <=> ML[{n}] # {})
    BY <1>1, <1>6, <1>7, <1>14 DEF Truly
  <2> QED
    BY <1>13, <2>1, <2>3, <2>4, <2>5
<1> QED
  BY <1>13, <1>14 DEF TrueStep

LEMMA NotTrue ==
    ASSUME NEW e, e.op = "not", NEW L \in Walks, NEW R, NEW TL, NEW TR,
           NEW ML, NEW MR, NEW s \in States,
           "isolated" \in Described(e, TL, TR), Steadily(TL, L), Truly(TL, L, ML),
           NEW v, v = Visited(e, L, R)[s], NEW N, N = Cur(s)
    PROVE  TrueStep(Described(e, TL, TR), s, v, Meant(e, ML, MR))
<1>1. "isolated" \in TL
  BY DEF Described, Steps
<1>2. PICK t : t = L[s]
  OBVIOUS
<1>3. t \in States
  BY <1>2, WalkFacts
<1>4. PICK M : M = IF Res(t) # {} THEN {} ELSE N
  OBVIOUS
<1>5. M \in SUBSET Nodes
  BY <1>4, StateFacts
<1>6. v = Returned(t, M)
  <2>1. ConnectiveCases(e, L, R, s, v)
    BY VisitedCases
  <2> QED
    BY <1>2, <1>4, <2>1 DEF ConnectiveCases
<1>7. v.cur = t.cur /\ Cur(v) = Cur(t) /\ Res(v) = M
  BY <1>3, <1>5, <1>6, ReturnedCur
<1>8. ASSUME "restores" \in Described(e, TL, TR) PROVE v.cur = s.cur /\ Cur(v) = N
  <2>1. "restores" \in TL
    BY <1>8 DEF Described
  <2> QED
    BY <1>1, <1>2, <1>7, <2>1 DEF Steadily
<1>9. ASSUME NEW n \in Nodes, N = {n} PROVE Res(v) # {} <=> Meant(e, ML, MR)[{n}] # {}
  <2>1. PICK m : m = Meant(e, ML, MR)[{n}]
    OBVIOUS
  <2>2. ConditionMeaning(e, ML, MR, {n}, m)
    BY <2>1, MeantCases
  <2>3. m # {} <=> ML[{n}] = {}
    BY <2>2 DEF ConditionMeaning
  <2>4. Res(t) # {} <=> ML[{n}] # {}
    BY <1>1, <1>2, <1>9 DEF Truly
  <2> QED
    BY <1>4, <1>7, <1>9, <2>1, <2>3, <2>4
<1> QED
  BY <1>8, <1>9 DEF TrueStep

-----------------------------------------------------------------------------
\* What is said of an isolated expression.
Isolation(e) ==
    /\ e \in Paths => Exactly(TraitsFcn[e], VisitFcn[e], MeaningFcn[e])
    /\ Truly(TraitsFcn[e], VisitFcn[e], MeaningFcn[e])
    /\ Steadily(TraitsFcn[e], VisitFcn[e])

LEMMA IsolatedPaths ==
    ASSUME NEW e \in Paths, \A p \in Parts(e) : Isolation(p)
    PROVE  Isolation(e)
<1>1. PICK L, R : L = VisitFcn[e.left] /\ R = VisitFcn[e.right]
  OBVIOUS
<1>2. PICK TL, TR : TL = TraitsFcn[e.left] /\ TR = TraitsFcn[e.right]
  OBVIOUS
<1>3. PICK ML, MR : ML = MeaningFcn[e.left] /\ MR = MeaningFcn[e.right]
  OBVIOUS
<1>4. PICK V, T, M : V = VisitFcn[e] /\ T = TraitsFcn[e] /\ M = MeaningFcn[e]
  OBVIOUS
<1>5. V = Visited(e, L, R) /\ T = Described(e, TL, TR) /\ M = Meant(e, ML, MR)
  BY <1>1, <1>2, <1>3, <1>4, VisitFcnType, TraitsFcnType, MeaningFcnType, PathForms
<1>6. ASSUME "isolated" \in T, NEW s \in States PROVE Res(V[s]) = M[Cur(s)]
  <2>1. PICK v, N, m : v = Visited(e, L, R)[s] /\ N = Cur(s) /\ m = Meant(e, ML, MR)[N]
    OBVIOUS
  <2>2. "isolated" \in Described(e, TL, TR)
    BY <1>5, <1>6
  <2>3. CASE e.op \in Steps \cup {"current"}
    BY <1>5, <2>1, <2>3, SimpleExact
  <2>4. CASE e.op \in {"directChild", "indirectChild", "concat", "filter"}
    <3>1. PathWalk(L, TL) /\ Exactly(TL, L, ML)
      BY <1>1, <1>2, <1>3, <2>4, PathForms, PathsStepHolds DEF PathsStep, Isolation
    <3>2. Truly(TR, R, MR)
      BY <1>1, <1>2, <1>3, <2>4, PathForms DEF Isolation
    <3>3. e.op # "filter" => PathWalk(R, TR) /\ Exactly(TR, R, MR)
      BY <1>1, <1>2, <1>3, <2>4, PathForms, PathsStepHolds DEF PathsStep, Isolation
    <3>4. CASE e.op \in {"directChild", "indirectChild"}
      BY <1>5, <2>1, <2>2, <3>1, <3>3, <3>4, ChildExact
    <3>5. CASE e.op = "concat"
      BY <1>5, <2>1, <2>2, <3>1, <3>3, <3>5, ConcatExact
    <3>6. CASE e.op = "filter"
      BY <1>5, <2>1, <2>2, <3>1, <3>2, <3>6, FilterExact
    <3> QED
      BY <2>4, <3>4, <3>5, <3>6
  <2> QED
    BY <2>3, <2>4, PathForms
<1>7. Exactly(T, V, M)
  BY <1>6 DEF Exactly
<1>8. Truly(T, V, M)
  BY <1>6 DEF Truly
<1>9. ASSUME "restores" \in T, NEW s \in States PROVE V[s].cur = s.cur /\ Cur(V[s]) = Cur(s)
  <2>1. e.op = "current"
    BY <1>5, <1>9, PathForms DEF Described, Steps
  <2>2. PICK v : v = Visited(e, L, R)[s]
    OBVIOUS
  <2>3. PathCases(e, L, R, s, v)
    BY <2>2, VisitedCases
  <2>4. v = [s EXCEPT !.res = s.cur] /\ s.cur \in 1 .. Len(s.heap)
    BY <2>1, <2>3, StateFacts DEF PathCases
  <2>5. v.heap = s.heap /\ v.cur = s.cur
    BY <2>4, WithResFacts
  <2> QED
    BY <1>5, <2>2, <2>5 DEF Cur
<1>10. Steadily(T, V)
  BY <1>9 DEF Steadily
<1> QED
  BY <1>4, <1>7, <1>8, <1>10 DEF Isolation

\* The forms of conditions that are not paths.
LEMMA ConditionForms ==
    ASSUME NEW e \in Conditions, e \notin Paths
    PROVE  /\ e.op \in {"eq", "is", "str", "or", "and", "not"}
           /\ e.left \in Parts(e) /\ e.left \in Expressions
           /\ e.op \in {"eq", "is", "str"} => e.left \in Paths
           /\ e.op \in {"eq", "is"} => e.right \in Paths
           /\ e.op \in {"eq", "is", "or", "and"} => e.right \in Parts(e) /\ e.right \in Expressions
BY ConditionsAssumption DEF Parts, Expressions, Steps

LEMMA IsolatedConditions ==
    ASSUME NEW e \in Conditions, e \notin Paths, \A p \in Parts(e) : Isolation(p)
    PROVE  Isolation(e)
<1>1. PICK L, R : L = VisitFcn[e.left] /\ R = VisitFcn[e.right]
  OBVIOUS
<1>2. PICK TL, TR : TL = TraitsFcn[e.left] /\ TR = TraitsFcn[e.right]
  OBVIOUS
<1>3. PICK ML, MR : ML = MeaningFcn[e.left] /\ MR = MeaningFcn[e.right]
  OBVIOUS
<1>4. PICK V, T, M : V = VisitFcn[e] /\ T = TraitsFcn[e] /\ M = MeaningFcn[e]
  OBVIOUS
<1>5. e \in Expressions
  BY DEF Expressions
<1>6. V = Visited(e, L, R) /\ T = Described(e, TL, TR) /\ M = Meant(e, ML, MR)
  BY <1>1, <1>2, <1>3, <1>4, <1>5, VisitFcnType, TraitsFcnType, MeaningFcnType
<1>7. L \in Walks /\ Truly(TL, L, ML) /\ Steadily(TL, L)
  BY <1>1, <1>2, <1>3, ConditionForms, VisitFcnType DEF Isolation
<1>8. e.op \in {"or", "and"} => R \in Walks /\ Truly(TR, R, MR) /\ Steadily(TR, R)
  BY <1>1, <1>2, <1>3, ConditionForms, VisitFcnType DEF Isolation
<1>9. e.op \in {"eq", "is", "str"} => PathWalk(L, TL) /\ Exactly(TL, L, ML)
  BY <1>1, <1>2, <1>3, ConditionForms, PathsStepHolds DEF PathsStep, Isolation
<1>10. e.op \in {"eq", "is"} => PathWalk(R, TR) /\ Exactly(TR, R, MR)
  BY <1>1, <1>2, <1>3, ConditionForms, PathsStepHolds DEF PathsStep, Isolation
<1>11. ASSUME "isolated" \in T, NEW s \in States
       PROVE  TrueStep(T, s, V[s], M)
  <2>1. PICK v, N : v = Visited(e, L, R)[s] /\ N = Cur(s)
    OBVIOUS
  <2>2. "isolated" \in Described(e, TL, TR)
    BY <1>6, <1>11
  <2>3. SUFFICES TrueStep(Described(e, TL, TR), s, v, Meant(e, ML, MR))
    BY <1>6, <2>1
  <2>4. CASE e.op \in {"eq", "is"}
    BY <1>9, <1>10, <2>1, <2>2, <2>4, ComparisonTrue
  <2>5. CASE e.op = "str"
    BY <1>9, <2>1, <2>2, <2>5, StrTrue
  <2>6. CASE e.op \in {"or", "and"}
    BY <1>7, <1>8, <2>1, <2>2, <2>6, ConnectiveTrue
  <2>7. CASE e.op = "not"
    BY <1>7, <2>1, <2>2, <2>7, NotTrue
  <2> QED
    BY <2>4, <2>5, <2>6, <2>7, ConditionForms
<1>12. Truly(T, V, M)
  BY <1>11 DEF Truly, TrueStep
<1>13. Steadily(T, V)
  BY <1>11 DEF Steadily, TrueStep
<1> QED
  BY <1>4, <1>12, <1>13 DEF Isolation

\* Expression by expression.
LEMMA IsolationHolds ==
    \A e \in Expressions : Isolation(e)
<1> DEFINE P == {e \in Expressions : Isolation(e)}
<1>1. ASSUME NEW e \in Expressions, Parts(e) \subseteq P PROVE e \in P
  <2>1. \A p \in Parts(e) : Isolation(p)
    BY <1>1
  <2>2. Isolation(e)
    BY <2>1, IsolatedPaths, IsolatedConditions DEF Expressions
  <2> QED
    BY <2>2
<1>2. P \subseteq Expressions /\ \A e \in P : Isolation(e)
  OBVIOUS
<1> HIDE DEF P
<1>3. \A e \in Expressions : e \in P
  BY <1>1, <1>2, TreeInduction
<1> QED
  BY <1>2, <1>3

-----------------------------------------------------------------------------
\* The visitor as it is made.
Begin == [heap |-> <<Start>>, cur |-> 1, res |-> 1, null |-> FALSE]

LEMMA BeginFacts ==
    Begin \in States /\ Cur(Begin) = Start
<1>1. PICK h : h = <<Start>>
  OBVIOUS
<1>2. h \in Seq(SUBSET Nodes) /\ Len(h) = 1 /\ h[1] = Start
  BY <1>1, DocumentAssumption
<1>3. PICK b : b = Begin
  OBVIOUS
<1>4. PICK k, none : k = 1 /\ none = FALSE
  OBVIOUS
<1>5. b = [heap |-> h, cur |-> k, res |-> k, null |-> none]
  BY <1>1, <1>3, <1>4 DEF Begin
<1>6. k \in 1 .. Len(h) /\ none \in BOOLEAN
  <2>1. k \in 1 .. 1
    BY <1>4
  <2> QED
    BY <1>2, <1>4, <2>1
<1>7. b \in States /\ b.heap = h /\ b.cur = k
  BY <1>2, <1>5, <1>6, MakeState
<1> QED
  BY <1>2, <1>3, <1>4, <1>7 DEF Cur

\* What was returned is what visiting the expression returns.
ReturnedByVisit ==
    expr \in Paths /\ (done => result = Res(Visit(expr, Begin)))

\* XPathEvaluator.java, all the visit methods, and XPathMain.java:51: in every
\* document and for every expression whose parts do not change each other's
\* context, the evaluator returns the nodes the expression means, though
\* curNodes, and the list it refers to, go from one visit method to the next.
THEOREM IsolationIsEnough == Spec => []IsolatedExact
<1>1. Init => ReturnedByVisit
  BY DEF Init, ReturnedByVisit
<1>2. ReturnedByVisit /\ [Next]_vars => ReturnedByVisit'
  <2>1. ASSUME ReturnedByVisit, Evaluate PROVE ReturnedByVisit'
    <3>1. expr' = expr /\ result' = Res(Visit(expr, Begin))
      BY <2>1 DEF Evaluate, Begin
    <3> QED
      BY <2>1, <3>1 DEF ReturnedByVisit
  <2>2. ASSUME ReturnedByVisit, UNCHANGED vars PROVE ReturnedByVisit'
    BY <2>2 DEF ReturnedByVisit, vars
  <2> QED
    BY <2>1, <2>2 DEF Next
<1>3. ReturnedByVisit => IsolatedExact
  <2>1. SUFFICES ASSUME ReturnedByVisit, done, "isolated" \in TraitsOf(expr)
                 PROVE  result = Meaning(expr, Start)
    BY DEF IsolatedExact
  <2>2. expr \in Paths /\ expr \in Expressions /\ result = Res(VisitFcn[expr][Begin])
    BY <2>1, VisitFcnType DEF ReturnedByVisit, Expressions
  <2>3. Exactly(TraitsFcn[expr], VisitFcn[expr], MeaningFcn[expr])
    BY <2>2, IsolationHolds DEF Isolation
  <2>4. Res(VisitFcn[expr][Begin]) = MeaningFcn[expr][Start]
    BY <2>1, <2>3, TraitsFcnType, BeginFacts DEF Exactly
  <2> QED
    BY <2>2, <2>4, MeaningFcnType
<1> QED
  BY <1>1, <1>2, <1>3, PTL DEF Spec

=============================================================================
