---------------------------- MODULE MCHomeCheck ----------------------------
(***************************************************************************)
(* A file under a name of its own, and a directory of a tool's making      *)
(* under the name of a repository; the rest of the house has one thing     *)
(* wrong in each place.                                                    *)
(***************************************************************************)
EXTENDS HomeCheck

CONSTANTS a, b,                   \* names
          note, tree              \* items

MCNames == {a, b}
MCNameOrder == <<b, a>>
MCItems == {note, tree}
MCOrigin == [i \in MCItems |-> IF i = tree THEN b ELSE a]
MCBuckets == [x \in {"src", "docs", "inbox"} |-> IF x = "src" THEN 9 ELSE 3]
MCGitOnly == [x \in {"src"} |-> {"src/scratch"}]
MCCodeRoots == [x \in {"skills", "scripts"} |-> IF x = "skills" THEN "clean" ELSE "hangs"]
=============================================================================
