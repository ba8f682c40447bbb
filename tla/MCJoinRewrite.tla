--------------------------- MODULE MCJoinRewrite ---------------------------
(***************************************************************************)
(* Model-checking instance of JoinRewrite: four groups, the first with two *)
(* variables.                                                              *)
(***************************************************************************)
EXTENDS JoinRewrite, TLC

MCVars == {"a", "b", "c", "d", "e"}
MCGroupOf == "a" :> 0 @@ "b" :> 0 @@ "c" :> 1 @@ "d" :> 2 @@ "e" :> 3

Compare(l, r) == [kind |-> "vars", left |-> l, right |-> r]

Conditions ==
    {Compare("a", "c"), Compare("c", "b"), Compare("b", "d"), Compare("e", "a"),
     Compare("c", "d"), Compare("e", "d"), Compare("c", "e"),
     Compare("a", "b"), Compare("d", "d"),
     [kind |-> "literal", var |-> "d", value |-> <<2>>],
     [kind |-> "trivial", holds |-> FALSE]}

\* Every list of up to four of them.
MCWhereLists == UNION {[1 .. n -> Conditions] : n \in 1 .. 4}

Both == {<<1>>, <<2>>}

\* Every tuple in every group; and groups that lack some.
MCRowSets ==
    {0 :> [{"a", "b"} -> Both] @@ 1 :> [{"c"} -> Both] @@ 2 :> [{"d"} -> Both] @@ 3 :> [{"e"} -> Both],
     0 :> {t \in [{"a", "b"} -> Both] : t["a"] # t["b"]}
         @@ 1 :> [{"c"} -> {<<1>>}] @@ 2 :> [{"d"} -> Both] @@ 3 :> [{"e"} -> {<<2>>}]}

=============================================================================
