------------------------------ MODULE MCBufMgr ------------------------------
(***************************************************************************)
(* Model-checking instance of BufMgr.  Page numbers are interchangeable:   *)
(* no operation compares them, and allocPage may pick any that is not in   *)
(* use.                                                                    *)
(***************************************************************************)
EXTENDS BufMgr, TLC

Symmetry == Permutations(Pages)

=============================================================================
