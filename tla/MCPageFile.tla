----------------------------- MODULE MCPageFile -----------------------------
(***************************************************************************)
(* Model-checking instance of PageFile.                                    *)
(***************************************************************************)
EXTENDS PageFile

=============================================================================
