------------------------------ MODULE PageStore ------------------------------
(***************************************************************************)
(* What BufMgr promises its callers (buffer.h, the comments on the public  *)
(* operations): a page that has been pinned can be read and written        *)
(* through its pointer, and whatever was last written to it is what the    *)
(* next reader finds.  Which frame holds a page, when a page is written to *)
(* its file and which page is evicted are not visible here.                *)
(***************************************************************************)
EXTENDS Naturals

CONSTANTS
    Files,      \* File objects
    Pages,      \* page numbers within a file
    Contents,   \* what a page may hold
    Fresh,      \* the contents of a newly allocated page
    Free        \* the page does not exist in the file

VARIABLES
    store,      \* store[f, p]: what a reader of page p of f finds, or Free
    pins        \* pins[f, p]: how many callers hold page p of f

vars == <<store, pins>>

Keys == Files \X Pages

Init ==
    /\ store = [k \in Keys |-> Free]
    /\ pins = [k \in Keys |-> 0]

\* readPage returns a pointer to an existing page.
Pin(k) ==
    /\ store[k] # Free
    /\ pins' = [pins EXCEPT ![k] = @ + 1]
    /\ UNCHANGED store

\* unPinPage gives one pin back.
Unpin(k) ==
    /\ pins[k] > 0
    /\ pins' = [pins EXCEPT ![k] = @ - 1]
    /\ UNCHANGED store

\* A holder of the page changes its bytes.
Write(k, c) ==
    /\ pins[k] > 0
    /\ store' = [store EXCEPT ![k] = c]
    /\ UNCHANGED pins

\* allocPage creates a page that did not exist and returns it pinned.
Alloc(k) ==
    /\ store[k] = Free
    /\ store' = [store EXCEPT ![k] = Fresh]
    /\ pins' = [pins EXCEPT ![k] = 1]

\* disposePage deletes the page, whoever holds it.
Dispose(k) ==
    /\ store[k] # Free
    /\ store' = [store EXCEPT ![k] = Free]
    /\ pins' = [pins EXCEPT ![k] = 0]

\* cleanUpPinnedPage gives back every pin on the pages of one file.
UnpinFile(f) ==
    /\ pins' = [k \in Keys |-> IF k[1] = f THEN 0 ELSE pins[k]]
    /\ UNCHANGED store

\* The pool is destroyed and another one is built on the same files.  Only a
\* page somebody still holds may come back with other contents.
Restart ==
    /\ pins' = [k \in Keys |-> 0]
    /\ store' \in [Keys -> Contents \cup {Free}]
    /\ \A k \in Keys : /\ pins[k] = 0 => store'[k] = store[k]
                       /\ store'[k] = Free <=> store[k] = Free

Next ==
    \/ \E k \in Keys : \/ Pin(k) \/ Unpin(k) \/ Alloc(k) \/ Dispose(k)
                       \/ \E c \in Contents : Write(k, c)
    \/ \E f \in Files : UnpinFile(f)
    \/ Restart

Spec == Init /\ [][Next]_vars

=============================================================================
