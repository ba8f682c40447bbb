----------------------------- MODULE MCFileScan -----------------------------
(***************************************************************************)
(* Model-checking instance of FileScan.                                    *)
(***************************************************************************)
EXTENDS FileScan

MCPages == 1 .. 3
MCOtherPages == 1 .. 2

\* A page without records, and one with an unused slot between two records.
MCContents == {{}, {1, 3}}
MCFresh == {}

=============================================================================
