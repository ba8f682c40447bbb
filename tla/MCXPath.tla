------------------------------ MODULE MCXPath ------------------------------
(***************************************************************************)
(* Model-checking instances of XPath.  The document:                       *)
(*                                                                         *)
(*     0 - 1 <a> - 2 <b> - 3 <a> - 4 <a>, 5 <b>, 8 text                    *)
(*               - 6 <b> - 7 <a>                                           *)
(***************************************************************************)
EXTENDS XPath, TLC

MCParentOf == 1 :> 0 @@ 2 :> 1 @@ 3 :> 2 @@ 4 :> 3 @@ 5 :> 3 @@ 6 :> 1 @@ 7 :> 6 @@ 8 :> 3
MCName == 0 :> "doc" @@ 1 :> "a" @@ 2 :> "b" @@ 3 :> "a" @@ 4 :> "a" @@ 5 :> "b"
          @@ 6 :> "b" @@ 7 :> "a" @@ 8 :> "#text"

\* Leaves of one name are equal.
MCValue == 0 :> 0 @@ 1 :> 1 @@ 2 :> 2 @@ 3 :> 3 @@ 4 :> 4 @@ 5 :> 5 @@ 6 :> 6 @@ 7 :> 4 @@ 8 :> 8
MCHasAttr == [id |-> {3, 7}]
MCHasText == "x" :> {8}
MCStart == {3}

Tag(name) == [op |-> "tagName", name |-> name]
Simple(op) == [op |-> op]
Attr == [op |-> "attr", name |-> "id"]
Binary(ops, L, R) == [op : ops, left : L, right : R]

\* Paths of one step and of two.
Paths1 == {Tag("a"), Tag("b"), Simple("current"), Simple("parent"), Attr}
Paths2 == Paths1 \cup Binary({"directChild", "indirectChild"}, {Simple("current"), Simple("parent"), Simple("all")}, Paths1)

\* Conditions over them.
Conds1 == Binary({"eq", "is"}, Paths1, Paths2) \cup {Tag("a"), Simple("current"), Attr}
          \cup [op : {"str"}, left : {Simple("text"), Simple("current")}, text : {"x"}]
Conds2 == Conds1 \cup [op : {"not"}, left : Conds1]
Conds3 == Conds2 \cup Binary({"and", "or"}, Conds2, {Tag("b")} \cup Binary({"eq"}, {Tag("a")}, Paths1))

\* Conditions on the nodes above and below the context, and paths around ",".
MCConditions == Conds3 \cup {Tag("b")}

MCPaths ==
    Paths2 \cup {Simple("all"), Simple("text")} \cup Binary({"concat"}, Paths2, Paths2)
    \cup Binary({"filter"}, {Simple("current"), Simple("text")}, MCConditions)
    \cup Binary({"directChild", "indirectChild"}, Binary({"concat"}, Paths2, Paths2), {Tag("a"), Simple("current")})
    \cup Binary({"directChild"}, Binary({"directChild"}, {Simple("parent")}, {Simple("parent")}), Paths2)

RECURSIVE HeightOf(_)
HeightOf(e) ==
    IF "left" \notin DOMAIN e THEN 0
    ELSE IF "right" \notin DOMAIN e \/ HeightOf(e.left) > HeightOf(e.right) THEN HeightOf(e.left) + 1
    ELSE HeightOf(e.right) + 1

MCHeight == [e \in MCPaths \cup MCConditions |-> HeightOf(e)]

=============================================================================
