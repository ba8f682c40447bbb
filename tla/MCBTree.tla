------------------------------ MODULE MCBTree ------------------------------
(***************************************************************************)
(* Model-checking instances of BTree.                                      *)
(***************************************************************************)
EXTENDS BTree

\* A relation whose keys differ.
DistinctKeys == {<<k, k>> : k \in 1 .. 6}

\* Bounds on a key and behind the last one, each operator on either side, and
\* a range whose bounds are swapped.
Between(l, lo, h, ho) == [low |-> l, lowOp |-> lo, high |-> h, highOp |-> ho]

MCRanges == {Between(2, "GTE", 4, "LT"), Between(1, "GT", 7, "LTE"),
             Between(5, "GTE", 2, "LTE")}

=============================================================================
