----------------------------- MODULE Relocation -----------------------------
(***************************************************************************)
(* What `home_tidy.py migrate --apply' promises about the home directory,  *)
(* with no journal, lock, plan or process in sight: every entry moves to   *)
(* its bucket once, a reference is re-pointed only to an entry that is     *)
(* already there, and the old path of an entry is given up only when no    *)
(* watched reference still needs it.  Migrate implements this module.      *)
(***************************************************************************)

CONSTANTS Entries,   \* keys of the manifest's [map]
          Files,     \* files that spell the path of an entry
          Target,    \* [Files -> Entries]: the entry a file refers to
          Revertible,\* files an outside tool may put back to their old text
          Watched    \* files whose references the verify suite exercises

VARIABLES where,     \* [Entries -> {"old", "new"}]: the path the entry lives at
          refs,      \* [Files -> {"old", "new"}]: the path a file spells
          released   \* entries whose old path has been given up for good

rvars == <<where, refs, released>>

RInit == /\ where = [e \in Entries |-> "old"]
         /\ refs = [f \in Files |-> "old"]
         /\ released = {}

Relocate(e) == /\ where[e] = "old"
               /\ where' = [where EXCEPT ![e] = "new"]
               /\ UNCHANGED <<refs, released>>

Repoint(f) == /\ where[Target[f]] = "new"
              /\ refs' = [refs EXCEPT ![f] = "new"]
              /\ UNCHANGED <<where, released>>

\* The user or another tool restores the old text of a file it owns.
Restore(f) == /\ f \in Revertible
              /\ refs' = [refs EXCEPT ![f] = "old"]
              /\ UNCHANGED <<where, released>>

Release(E) == /\ \A f \in Watched \ Revertible :
                    Target[f] \in E => refs[f] = "new"
              /\ released' = released \cup E
              /\ UNCHANGED <<where, refs>>

RNext == \/ \E e \in Entries : Relocate(e)
         \/ \E f \in Files : Repoint(f) \/ Restore(f)
         \/ \E E \in SUBSET Entries : Release(E)

RSpec == RInit /\ [][RNext]_rvars

=============================================================================
