--------------------------- MODULE MCUsageTotals ---------------------------
(***************************************************************************)
(* One processor, two process ids and two programs, one with a name of two *)
(* words, on two days.  Memory does not only grow.                         *)
(***************************************************************************)
EXTENDS UsageTotals, TLC

CONSTANTS p, q
MCPids == {p, q}
Alike == Permutations(MCPids)

Browser == <<"Web", "Content">>
Compiler == <<"cc1">>
MCPrograms == {Browser, Compiler}
MCRss(program, ticks) == IF program = Compiler THEN ticks
                         ELSE IF ticks = 0 THEN 5 ELSE 3
=============================================================================
