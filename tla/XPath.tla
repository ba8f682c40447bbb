------------------------------- MODULE XPath -------------------------------
(***************************************************************************)
(* The XPath evaluator of CSE232B_XQueryEvaluator-master: the visitor of   *)
(* XPathEvaluator.java, which keeps the context of the next step in the    *)
(* field curNodes.  Each visit method reads and assigns the field, and     *)
(* "//" adds to the list the field refers to, which others may refer to.   *)
(* So lists live in a heap, and Visit says which list a method returns,    *)
(* which one it leaves in curNodes, and what became of the lists.          *)
(*                                                                         *)
(* A list is the set of its nodes: nothing depends on their order, or on   *)
(* how often a node comes.                                                 *)
(***************************************************************************)
EXTENDS Naturals, Sequences

CONSTANTS
    ParentOf,   \* node -> its parent; not defined for the document itself
    Name,       \* node -> tag name
    Value,      \* node -> what isEqualNode compares
    HasAttr,    \* attribute name -> nodes with such an attribute
    HasText,    \* text -> text nodes with that text
    Start,      \* the context an expression is evaluated in
    Paths, Conditions,  \* the expressions, with all their parts
    Height, MaxHeight   \* Height[e]: how deep e is nested

Nodes == DOMAIN Name
Expressions == Paths \cup Conditions

Steps == {"tagName", "all", "text", "parent", "attr"}

ASSUME DocumentAssumption ==
    /\ ParentOf \in [DOMAIN ParentOf -> Nodes] /\ DOMAIN ParentOf \subseteq Nodes
    /\ Start \subseteq Nodes

\* The grammar.
ASSUME PathsAssumption ==
    \A e \in Paths :
        \/ e.op \in Steps \cup {"current"}
        \/ /\ e.op \in {"directChild", "indirectChild", "concat"}
           /\ e.left \in Paths /\ e.right \in Paths
        \/ e.op = "filter" /\ e.left \in Paths /\ e.right \in Conditions
ASSUME ConditionsAssumption ==
    \A f \in Conditions :
        \/ f \in Paths
        \/ f.op \in {"eq", "is"} /\ f.left \in Paths /\ f.right \in Paths
        \/ f.op = "str" /\ f.left \in Paths
        \/ f.op \in {"and", "or"} /\ f.left \in Conditions /\ f.right \in Conditions
        \/ f.op = "not" /\ f.left \in Conditions

\* A parse tree is finite: what an expression is made of is less deep.
Parts(e) ==
    IF e.op \in Steps \cup {"current"} THEN {}
    ELSE IF e.op \in {"str", "not"} THEN {e.left}
    ELSE {e.left, e.right}
ASSUME HeightAssumption ==
    /\ MaxHeight \in Nat /\ Height \in [Expressions -> 0 .. MaxHeight]
    /\ \A e \in Expressions : \A p \in Parts(e) : Height[p] < Height[e]

VARIABLES
    expr,
    result,     \* the nodes the evaluator returned
    null,       \* the parent of the document was asked for
    done

vars == <<expr, result, null, done>>

-----------------------------------------------------------------------------
Children(N) == {c \in DOMAIN ParentOf : ParentOf[c] \in N}
Parents(N) == {ParentOf[n] : n \in N \cap DOMAIN ParentOf}

\* The nodes above n.
Ancestors[n \in Nodes] ==
    IF n \in DOMAIN ParentOf THEN {ParentOf[n]} \cup Ancestors[ParentOf[n]] ELSE {}

Descendants(N) == {d \in Nodes : Ancestors[d] \cap N # {}}

\* What the simple steps select.
Selected(e, N) ==
    CASE e.op = "tagName" -> {c \in Children(N) : Name[c] = e.name}
      [] e.op = "all"     -> Children(N)
      [] e.op = "text"    -> Children(N)
      [] e.op = "parent"  -> Parents(N)
      [] e.op = "attr"    -> {n \in N : n \in HasAttr[e.name]}

\* = or eq, and == or is, between two nodes.
Matches(op, x, y) == IF op = "is" THEN x = y ELSE Value[x] = Value[y]

-----------------------------------------------------------------------------
(***************************************************************************)
(* The visitor.  s.heap holds the lists, s.cur is the one curNodes refers  *)
(* to, s.res the one the visit method returned.  The document has null as  *)
(* its parent: s.null says that a list has got it, and what comes after is *)
(* not followed.                                                           *)
(***************************************************************************)
States ==
    {s \in [heap : Seq(SUBSET Nodes), cur : Nat, res : Nat, null : BOOLEAN] :
        {s.cur, s.res} \subseteq 1 .. Len(s.heap)}

New(s, N) ==
    LET ref == Len(s.heap) + 1
    IN  [s EXCEPT !.heap = Append(@, N), !.cur = ref, !.res = ref]

Cur(s) == s.heap[s.cur]
Res(s) == s.heap[s.res]

\* A list that is only returned.
Returned(s, N) == [New(s, N) EXCEPT !.cur = s.cur]

WithCur(s, ref) == [s EXCEPT !.cur = ref]

\* Mutant: it is not put back.
KeepsCur(s, ref) == s

\* this.curNodes = original, between and after the operands of a comparison
\* and of ",".
Restored(s, ref) == WithCur(s, ref)

\* visitIndirectChildRP: curNodes.addAll(getAllDesc()), in place.
AddDescendants(s) == [s EXCEPT !.heap[s.cur] = @ \cup Descendants(@)]

WithNull(s, b) == [s EXCEPT !.null = @ \/ b]

\* Visiting e from s, given what visiting its operands does.
VisitedFrom(s, e, Left, Right) ==
    CASE e.op \in Steps ->
            WithNull(New(s, Selected(e, Cur(s))), e.op = "parent" /\ ~(Cur(s) \subseteq DOMAIN ParentOf))
      [] e.op = "current" -> [s EXCEPT !.res = s.cur]
      [] e.op = "directChild" -> Right[Left[s]]
      [] e.op = "indirectChild" -> Right[AddDescendants(Left[s])]
      [] e.op = "concat" ->
            LET s1 == Left[s]
                s2 == Right[Restored(s1, s.cur)]
            IN  New(s2, Res(s1) \cup Res(s2))
      [] e.op = "filter" ->
            LET s1 == Left[s]
                \* curNodes is a new list for each node
                At(n) == Right[New(s1, {n})]
            IN  WithNull(New(s1, {n \in Cur(s1) : Res(At(n)) # {}}), \E n \in Cur(s1) : At(n).null)
      [] e.op \in {"eq", "is"} ->
            LET s1 == Left[s]
                s2 == Restored(Right[Restored(s1, s.cur)], s.cur)
            IN  Returned(s2, {x \in s2.heap[s1.res] : \E y \in Res(s2) : Matches(e.op, x, y)})
      [] e.op = "str" ->
            LET s1 == Left[s]
            IN  Returned(Restored(s1, s.cur), Res(s1) \cap HasText[e.text])
      [] e.op = "or" ->
            LET s1 == Left[s]
                s2 == Right[s1]
            IN  Returned(s2, Res(s1) \cup Res(s2))
      [] e.op = "and" ->
            LET s1 == Left[s]
                s2 == Right[s1]
                s3 == Left[s2]
                s4 == Right[s3]
            IN  IF Res(s1) = {} THEN Returned(s1, {})
                ELSE IF Res(s2) = {} THEN Returned(s2, {})
                ELSE Returned(s4, Res(s3) \cup Res(s4))
      [] e.op = "not" ->
            LET s1 == Left[s]
            IN  Returned(s1, IF Res(s1) # {} THEN {} ELSE Cur(s))

Visited(e, Left, Right) == [s \in States |-> VisitedFrom(s, e, Left, Right)]

Visit(expression, state) ==
    LET V[e \in Expressions] == Visited(e, V[e.left], V[e.right])
    IN  V[expression][state]

-----------------------------------------------------------------------------
Init ==
    /\ expr \in Paths
    /\ result = {}
    /\ null = FALSE
    /\ done = FALSE

\* XPathMain.evaluateXPathRp: a new visitor with the context in curNodes.
Evaluate ==
    /\ ~done
    /\ LET s == Visit(expr, [heap |-> <<Start>>, cur |-> 1, res |-> 1, null |-> FALSE])
       IN  result' = Res(s) /\ null' = s.null
    /\ done' = TRUE
    /\ UNCHANGED expr

Next == Evaluate

Spec == Init /\ [][Next]_vars

-----------------------------------------------------------------------------
(***************************************************************************)
(* What an expression means in the context N: a path the nodes it leads    *)
(* to, a condition the nodes it holds of.  No context is carried from one  *)
(* part of an expression to its neighbour.  A path as a condition holds    *)
(* where it leads to some node.                                            *)
(***************************************************************************)
MeantIn(N, e, Left, Right) ==
    CASE e.op \in Steps -> Selected(e, N)
      [] e.op = "current" -> N
      [] e.op = "directChild" -> Right[Left[N]]
      [] e.op = "indirectChild" -> Right[Left[N] \cup Descendants(Left[N])]
      [] e.op = "concat" -> Left[N] \cup Right[N]
      [] e.op = "filter" -> {n \in Left[N] : Right[{n}] # {}}
      [] e.op \in {"eq", "is"} ->
            {n \in N : \E x \in Left[{n}], y \in Right[{n}] : Matches(e.op, x, y)}
      [] e.op = "str" -> {n \in N : Left[{n}] \cap HasText[e.text] # {}}
      [] e.op = "or" -> {n \in N : Left[{n}] # {} \/ Right[{n}] # {}}
      [] e.op = "and" -> {n \in N : Left[{n}] # {} /\ Right[{n}] # {}}
      [] e.op = "not" -> {n \in N : Left[{n}] = {}}

Meant(e, Left, Right) == [N \in SUBSET Nodes |-> MeantIn(N, e, Left, Right)]

Meaning(expression, N) ==
    LET M[e \in Expressions] == Meant(e, M[e.left], M[e.right])
    IN  M[expression][N]

-----------------------------------------------------------------------------
(***************************************************************************)
(* Properties                                                              *)
(***************************************************************************)
Traits == {"current", "adds", "restores", "isolated"}

\* current: the expression is "." only.  adds: the list it starts by adding to
\* is the one it was given, as its leftmost step is "//" on ".".  restores: a
\* condition that leaves curNodes as it was, a comparison or what is built of
\* comparisons.  isolated: no part of the expression changes the context of
\* another one.
Described(e, Left, Right) ==
    {t \in Traits :
        \/ t = "current" /\ e.op = "current"
        \/ t = "current" /\ e.op = "directChild" /\ t \in Left /\ t \in Right

        \/ t = "adds" /\ e.op = "indirectChild" /\ ("current" \in Left \/ t \in Left)
        \/ t = "adds" /\ e.op = "directChild" /\ (t \in Left \/ ("current" \in Left /\ t \in Right))
        \/ t = "adds" /\ e.op \in {"concat", "eq", "is"} /\ (t \in Left \/ t \in Right)
        \/ t = "adds" /\ e.op = "filter" /\ t \in Left

        \/ t = "restores" /\ e.op \in {"eq", "is", "str", "current"}
        \/ t = "restores" /\ e.op \in {"and", "or"} /\ t \in Left /\ t \in Right
        \/ t = "restores" /\ e.op = "not" /\ t \in Left

        \/ t = "isolated" /\ e.op \in Steps \cup {"current"}
        \/ /\ t = "isolated" /\ e.op \in {"directChild", "indirectChild", "filter"}
           /\ t \in Left /\ t \in Right
        \/ /\ t = "isolated" /\ e.op \in {"concat", "eq", "is"}
           /\ t \in Left /\ t \in Right /\ "adds" \notin Left /\ "adds" \notin Right
        \/ t = "isolated" /\ e.op = "str" /\ t \in Left /\ "adds" \notin Left
        \/ /\ t = "isolated" /\ e.op \in {"and", "or"}
           /\ t \in Left /\ t \in Right /\ "restores" \in Left /\ "restores" \in Right
        \/ t = "isolated" /\ e.op = "not" /\ t \in Left}

TraitsOf(expression) ==
    LET T[e \in Expressions] == Described(e, T[e.left], T[e.right])
    IN  T[expression]

\* XPathEvaluator.java:194 on rp // rp: "is short for
\* /descendant-or-self::node()/", and the rest of the grammar read the same
\* way.  The evaluator returns the nodes the expression means, although the
\* visit methods pass the context on in a field: for every expression whose
\* operands do not change each other's context.
IsolatedExact ==
    done /\ ~null /\ "isolated" \in TraitsOf(expr) => result = Meaning(expr, Start)

\* XPathEvaluator.java:209: "treat f as boolean", and :194: "is short for
\* /descendant-or-self::node()/".  The same for every expression.
AlwaysExact == done /\ ~null => result = Meaning(expr, Start)

=============================================================================
