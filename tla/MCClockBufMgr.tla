---------------------------- MODULE MCClockBufMgr ----------------------------
(***************************************************************************)
(* Model-checking instance of ClockBufMgr.                                 *)
(***************************************************************************)
EXTENDS ClockBufMgr, TLC

Symmetry == Permutations(Files) \cup Permutations(Pages)

=============================================================================
