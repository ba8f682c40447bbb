---------------------------- MODULE JoinRewrite ----------------------------
(***************************************************************************)
(* The rewriting of a FLWR expression to hash joins, and their evaluation: *)
(* XQueryEvaluator.java.  The variables of the for-clause fall into groups *)
(* (groupForClause): a group starts at a document and takes in what is     *)
(* reached from its variables.  groupWhereClause makes a graph of the      *)
(* groups, an edge for each pair of groups some condition compares;        *)
(* generateJoinQuery joins to the first group its neighbours one by one,   *)
(* handing on their edges; visitJoinclause evaluates each join.            *)
(*                                                                         *)
(* A group is evaluated to tuples by nested loops of its own; rows is what *)
(* they give before its where-clause.  A value is the text of a node, a    *)
(* sequence of characters.                                                 *)
(***************************************************************************)
EXTENDS Integers, Sequences, FiniteSets, SequencesExt

CONSTANTS
    Chars,      \* characters of the texts
    Vars,       \* variables of the for-clause
    GroupOf,    \* varMap: variable -> number of its group
    WhereLists, \* the where-clauses that are examined, as lists of conditions
    RowSets     \* what the groups may contain: group -> set of tuples

Groups == {GroupOf[v] : v \in Vars}
VarsOf(A) == {v \in Vars : GroupOf[v] \in A}

ASSUME GroupsAssumption ==
    /\ IsFiniteSet(Vars) /\ Vars # {}
    /\ Groups = 0 .. (Cardinality(Groups) - 1)
ASSUME WhereAssumption ==
    \A w \in WhereLists :
        /\ Len(w) \in Nat /\ DOMAIN w = 1 .. Len(w)
        /\ \A i \in 1 .. Len(w) :
            \/ w[i].kind = "vars" /\ w[i].left \in Vars /\ w[i].right \in Vars
            \/ w[i].kind = "literal" /\ w[i].var \in Vars
            \/ w[i].kind = "trivial"
ASSUME RowsAssumption ==
    \A R \in RowSets : \A g \in Groups : R[g] \subseteq [VarsOf({g}) -> Seq(Chars)]

VARIABLES
    pc,
    where,      \* the conditions: between two variables, of a variable and a
                \* literal, or of two literals
    rows,
    children,   \* children[g]: the groups g is to be joined with
    pairs,      \* myVar and otherVar of g for h, as one list of pairs
    conds,      \* conds[g]: the conditions of g's own where-clause
    next,       \* the condition looked at
    absorbed,   \* the groups of the join built so far
    tuples      \* what it evaluates to

vars == <<pc, where, rows, children, pairs, conds, next, absorbed, tuples>>

Init ==
    /\ pc = "where"
    /\ where \in WhereLists
    /\ rows \in RowSets
    /\ children = [g \in Groups |-> {}]
    /\ pairs = [g \in Groups |-> [h \in Groups |-> <<>>]]
    /\ conds = [g \in Groups |-> <<>>]
    /\ next = 1
    /\ absorbed = {} /\ tuples = {}

-----------------------------------------------------------------------------
(***************************************************************************)
(* groupWhereClause                                                        *)
(***************************************************************************)

\* Two variables: each group becomes a child of the other one.  When both are
\* in one group, its first list is made twice and only the second one stays.
CompareVars(c) ==
    LET g == GroupOf[c.left]
        h == GroupOf[c.right]
    IN  /\ c.kind = "vars"
        /\ children' = [children EXCEPT ![g] = @ \cup {h}, ![h] = @ \cup {g}]
        /\ pairs' =
            IF g # h
            THEN [pairs EXCEPT ![g][h] = Append(@, <<c.left, c.right>>),
                               ![h][g] = Append(@, <<c.right, c.left>>)]
            ELSE [pairs EXCEPT ![g][g] =
                    IF @ = <<>> THEN << <<c.right, c.left>> >>
                    ELSE @ \o << <<c.left, c.right>>, <<c.right, c.left>> >>]
        /\ UNCHANGED conds

CompareLiteral(c) ==
    /\ c.kind = "literal"
    /\ conds' = [conds EXCEPT ![GroupOf[c.var]] = Append(@, c)]
    /\ UNCHANGED <<children, pairs>>

\* Two literals: the condition is left out, whether it holds or not.
Trivial(c) == c.kind = "trivial" /\ UNCHANGED <<children, pairs, conds>>

GroupCondition ==
    /\ pc = "where" /\ next <= Len(where)
    /\ \/ CompareVars(where[next])
       \/ CompareLiteral(where[next])
       \/ Trivial(where[next])
    /\ next' = next + 1
    /\ UNCHANGED <<pc, where, rows, absorbed, tuples>>

-----------------------------------------------------------------------------
(***************************************************************************)
(* dump, and visitJoinclause with buildHashtable                           *)
(***************************************************************************)
\* The query of one group: its loops and its where-clause.
Dumped(g) == {t \in rows[g] : \A i \in 1 .. Len(conds[g]) : t[conds[g][i].var] = conds[g][i].value}

\* The values one after the other, without anything between them.
Key(t, list) == FlattenSeq([i \in 1 .. Len(list) |-> t[list[i]]])

Mine(list) == [i \in 1 .. Len(list) |-> list[i][1]]
Others(list) == [i \in 1 .. Len(list) |-> list[i][2]]

Joined(t, u) ==
    [v \in DOMAIN t \cup DOMAIN u |-> IF v \in DOMAIN t THEN t[v] ELSE u[v]]

HashJoin(T, U, list) ==
    {Joined(tu[1], tu[2]) :
        tu \in {p \in T \X U : Key(p[1], Mine(list)) = Key(p[2], Others(list))}}

-----------------------------------------------------------------------------
(***************************************************************************)
(* generateJoinQuery                                                       *)
(***************************************************************************)
RemoveRoot ==
    /\ pc = "where" /\ next > Len(where)
    /\ children' = [g \in Groups |-> IF g = 0 THEN children[0] ELSE children[g] \ {0}]
    /\ absorbed' = {0}
    /\ tuples' = Dumped(0)
    /\ pc' = "join"
    /\ UNCHANGED <<where, rows, pairs, conds, next>>

\* Mutants: an absorbed group stays a child; the edges of a child are not handed
\* on.
StaysChild(c) == children
EdgeKept(c, h) == pairs[0][h]

WithoutChild(c) == [g \in Groups |-> children[g] \ {c}]

\* The conditions between the join and h after c was absorbed.
HandedOn(c, h) ==
    IF h \in children[0] \ {c} THEN pairs[0][h] \o pairs[c][h] ELSE pairs[c][h]

\* The next child is the least: the keys of the HashMap are small integers.
JoinChild ==
    /\ pc = "join" /\ children[0] # {}
    /\ LET c == CHOOSE h \in children[0] : \A k \in children[0] : h <= k
           handed == children[c] \ {c}
       IN  /\ tuples' = HashJoin(tuples, Dumped(c), pairs[0][c])
           /\ children' = [WithoutChild(c) EXCEPT ![0] = @ \cup handed]
           /\ pairs' = [pairs EXCEPT ![0] =
                [h \in Groups |-> IF h \in handed THEN HandedOn(c, h) ELSE @[h]]]
           /\ absorbed' = absorbed \cup {c}
    /\ UNCHANGED <<pc, where, rows, conds, next>>

Finish ==
    /\ pc = "join" /\ children[0] = {}
    /\ pc' = "done"
    /\ UNCHANGED <<where, rows, children, pairs, conds, next, absorbed, tuples>>

Rewrite == GroupCondition \/ RemoveRoot \/ JoinChild \/ Finish

Done == pc = "done" /\ UNCHANGED vars

Next == Rewrite \/ Done

Spec == Init /\ [][Next]_vars /\ WF_vars(Rewrite)

-----------------------------------------------------------------------------
(***************************************************************************)
(* What the query means: nested loops over the groups of A.                *)
(***************************************************************************)
HoldsFor(c, f) ==
    CASE c.kind = "vars" -> f[GroupOf[c.left]][c.left] = f[GroupOf[c.right]][c.right]
      [] c.kind = "literal" -> f[GroupOf[c.var]][c.var] = c.value
      [] c.kind = "trivial" -> c.holds

GroupsIn(c) ==
    CASE c.kind = "vars" -> {GroupOf[c.left], GroupOf[c.right]}
      [] c.kind = "literal" -> {GroupOf[c.var]}
      [] c.kind = "trivial" -> {}

NestedLoops(A) ==
    {[v \in VarsOf(A) |-> f[GroupOf[v]][v]] :
        f \in {f \in [A -> UNION {rows[g] : g \in A}] :
                /\ \A g \in A : f[g] \in rows[g]
                /\ \A i \in 1 .. Len(where) :
                        GroupsIn(where[i]) \subseteq A => HoldsFor(where[i], f)}}

-----------------------------------------------------------------------------
(***************************************************************************)
(* Properties                                                              *)
(***************************************************************************)
\* The queries the rewriting is right for: no condition within one group but
\* one comparison with a literal, and none between two literals.
AcrossGroups ==
    \A i \in 1 .. Len(where) :
        \/ where[i].kind = "vars" /\ Cardinality(GroupsIn(where[i])) = 2
        \/ /\ where[i].kind = "literal"
           /\ \A j \in 1 .. Len(where) : where[j].kind = "literal" /\ j # i
                    => GroupsIn(where[j]) # GroupsIn(where[i])

\* Keys are values written one after the other: with values of one length,
\* only equal lists of values give equal keys.
SameLength ==
    \A g, h \in Groups : \A t \in rows[g], u \in rows[h] :
        \A v \in DOMAIN t, w \in DOMAIN u : Len(t[v]) = Len(u[w])

\* Every group is compared with another one, directly or through others.
Connected ==
    \A S \in SUBSET Groups : 0 \in S /\ S # Groups =>
        \E i \in 1 .. Len(where) : /\ GroupsIn(where[i]) \cap S # {}
                                   /\ ~(GroupsIn(where[i]) \subseteq S)

\* The join has the tuples of the nested loops over the groups it has absorbed
\* so far, no tuple more or less, in whatever order the conditions come: none
\* is lost when a group hands its edges on, to a group that is a neighbour
\* already or to a new one.  At the end no group is left out.
JoinExact ==
    AcrossGroups /\ SameLength =>
        /\ pc \in {"join", "done"} => tuples = NestedLoops(absorbed)
        /\ pc = "done" /\ Connected => absorbed = Groups

\* The rewriting ends: every turn of the loop takes a group out of the graph,
\* and none comes back with the edges of another one, whatever the conditions
\* are.
RewritingEnds == <>(pc = "done")

=============================================================================
