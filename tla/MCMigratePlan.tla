--------------------------- MODULE MCMigratePlan -----------------------------
(***************************************************************************)
(* A repository in a wrapper directory, home-tidy's own repository, and    *)
(* two loose files; every manifest that sends each of them, or not, to one *)
(* of three places.                                                        *)
(***************************************************************************)
EXTENDS MigratePlan

CONSTANTS note, memo, own, wrapper, inner,        \* keys
          in_archive, in_src, own_repo, \* places
          text, out, up         \* a file and two relative links

MCKeys == {note, memo, own, wrapper, inner}
MCKeyOrder == <<wrapper, inner, own, memo, note>>
MCParent == [k \in MCKeys |-> IF k = inner THEN wrapper ELSE "~"]
MCBuckets == <<"archive", "src">>
MCPlaces == {in_archive, in_src, own_repo}
MCBucketOf == [p \in MCPlaces |-> IF p = in_archive THEN "archive" ELSE "src"]
MCLiesIn == [f \in {text, out, up} |-> CASE f = text -> own [] f = out -> inner [] f = up -> "~"]
MCNamesKey == [f \in {text, out, up} |-> CASE f = text -> inner [] f = out -> note [] f = up -> own]
=============================================================================
