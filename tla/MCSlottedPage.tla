---------------------------- MODULE MCSlottedPage ----------------------------
(***************************************************************************)
(* Model-checking instances of SlottedPage.                                *)
(***************************************************************************)
EXTENDS SlottedPage

\* Bytes that differ within a record show it when one is moved by too little;
\* one is no offset of the page.
MCRecords == {<<5>>, <<7, 20, 9>>, <<6, 7, 8, 9, 6, 7, 8>>}

\* A page of zeroes, and one of slots whose records lie past its end.
MCDamage == {[data |-> Zeroes, upper |-> 5],
             [data |-> [i \in Bytes |-> 9], upper |-> DataSize + 9]}

=============================================================================
