---------------------------- MODULE MCAutoUpdate -----------------------------
(***************************************************************************)
(* Three runs: the timer's and two by hand.                                *)
(***************************************************************************)
EXTENDS AutoUpdate
CONSTANTS s1, s2
MCRuns == {Timer, s1, s2}
=============================================================================
