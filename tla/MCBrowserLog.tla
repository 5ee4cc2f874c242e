----------------------------- MODULE MCBrowserLog ----------------------------
(***************************************************************************)
(* Two launches, the first of which is over.                               *)
(***************************************************************************)
EXTENDS BrowserLog
CONSTANTS l1, l2
One == {l1}
Two == {l1, l2}
=============================================================================
