------------------------------- MODULE PageSet -------------------------------
(***************************************************************************)
(* What a page file promises (file.h, the comments on the operations of    *)
(* PageFile): a set of numbered pages.  A new page gets a number no page   *)
(* has, a deleted page is gone, and every other page keeps its bytes.      *)
(***************************************************************************)
CONSTANTS
    PageIds,    \* page numbers
    Contents,   \* what a page may hold
    Fresh,      \* the contents of a new page
    Free        \* no page has this number

VARIABLE content    \* page number -> contents, or Free

Init == content = [p \in PageIds |-> Free]

Allocate(p) == content[p] = Free /\ content' = [content EXCEPT ![p] = Fresh]
Write(p, c) == content[p] # Free /\ content' = [content EXCEPT ![p] = c]
Delete(p) == content[p] # Free /\ content' = [content EXCEPT ![p] = Free]
Truncate == content' = [p \in PageIds |-> Free]

Next ==
    \/ \E p \in PageIds : \/ Allocate(p) \/ Delete(p)
                          \/ \E c \in Contents : Write(p, c)
    \/ Truncate

Spec == Init /\ [][Next]_content

=============================================================================
