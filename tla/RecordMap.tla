------------------------------ MODULE RecordMap ------------------------------
(***************************************************************************)
(* What a slotted page promises (page.h): "Although a record's actual      *)
(* contents may be moved on the page, accessing a record by its slot is    *)
(* consistent."  A page is a map from slots to records.  Where a record    *)
(* lies, and which free slot a new one gets, are not visible here.         *)
(***************************************************************************)
CONSTANTS
    SlotIds,    \* slot numbers a record id may hold
    Records,    \* the byte strings that are stored
    NoRecord

VARIABLES
    content,    \* slot -> its record, or NoRecord
    out         \* what the last getRecord since the page was cleared returned

Init == content = [s \in SlotIds |-> NoRecord] /\ out = NoRecord

Insert(s, r) ==
    /\ content[s] = NoRecord
    /\ content' = [content EXCEPT ![s] = r]
    /\ UNCHANGED out

Update(s, r) ==
    /\ content[s] # NoRecord
    /\ content' = [content EXCEPT ![s] = r]
    /\ UNCHANGED out

Delete(s) ==
    /\ content[s] # NoRecord
    /\ content' = [content EXCEPT ![s] = NoRecord]
    /\ UNCHANGED out

Get(s) ==
    /\ content[s] # NoRecord
    /\ out' = content[s]
    /\ UNCHANGED content

\* The page is deleted from its file and starts over.
Clear ==
    /\ content' = [s \in SlotIds |-> NoRecord]
    /\ out' = NoRecord

Next ==
    \/ \E s \in SlotIds : \/ Delete(s) \/ Get(s)
                          \/ \E r \in Records : Insert(s, r) \/ Update(s, r)
    \/ Clear

Spec == Init /\ [][Next]_<<content, out>>

=============================================================================
