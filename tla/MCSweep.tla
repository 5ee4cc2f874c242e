------------------------------ MODULE MCSweep -------------------------------
(***************************************************************************)
(* A home for TLC: two files that come one after the other under one name, *)
(* and a directory of a tool's making under the name of a repository,      *)
(* which still has its bridge.                                             *)
(***************************************************************************)
EXTENDS Sweep

CONSTANTS a, b,                  \* names
          note, paper, tree      \* items

MCNames == {a, b}
MCNameOrder == <<b, a>>
MCItems == {note, paper, tree}
MCOrigin == [i \in MCItems |-> IF i = tree THEN b ELSE a]
=============================================================================
