---------------------------- MODULE MCBufMgrSteps ----------------------------
(***************************************************************************)
(* Model-checking instance of BufMgrSteps.                                 *)
(***************************************************************************)
EXTENDS BufMgrSteps

=============================================================================
