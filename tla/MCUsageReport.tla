---------------------------- MODULE MCUsageReport ----------------------------
(***************************************************************************)
(* Days of two seconds, with or without the GPU's log.  Reports since the  *)
(* last one have more states, and end early on the third day.              *)
(***************************************************************************)
EXTENDS UsageReport
CONSTANT Pmon
AtopOnly == {Atop}
BothKinds == {Atop, Pmon}
Until == [since |-> 8, catchup |-> 11]
=============================================================================
